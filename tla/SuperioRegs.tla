---------------------------- MODULE SuperioRegs ----------------------------
(***************************************************************************)
(* What superio_read and superio_write promise the watchdog, DIO and UART  *)
(* mode drivers: the registers of the Super I/O chip as a memory that      *)
(* every call reads or writes in one instant between its start and its     *)
(* end.                                                                    *)
(***************************************************************************)
CONSTANTS
    Contexts,  \* who calls: a thread or an interrupt handler
    Ldns,      \* logical devices of the chip
    Indexes,   \* register numbers in a logical device
    Vals,      \* register contents
    Nothing    \* no arguments, no result

VARIABLES
    regs,      \* the chip's registers
    status,    \* of each context: no call, one not done yet, one done
    call,      \* the arguments
    result     \* what superio_read returns

vars == <<regs, status, call, result>>

Calls ==
    [kind : {"read"}, dev : Ldns, index : Indexes]
        \cup [kind : {"write"}, dev : Ldns, index : Indexes, val : Vals]

Init ==
    /\ regs \in [Ldns -> [Indexes -> Vals]]
    /\ status = [x \in Contexts |-> "idle"]
    /\ call = [x \in Contexts |-> Nothing]
    /\ result = [x \in Contexts |-> Nothing]

Begin(x) ==
    /\ status[x] = "idle"
    /\ status' = [status EXCEPT ![x] = "called"]
    /\ \E a \in Calls : call' = [call EXCEPT ![x] = a]
    /\ UNCHANGED <<regs, result>>

Read(x) ==
    /\ status[x] = "called" /\ call[x].kind = "read"
    /\ status' = [status EXCEPT ![x] = "done"]
    /\ result' = [result EXCEPT ![x] = regs[call[x].dev][call[x].index]]
    /\ UNCHANGED <<regs, call>>

Write(x) ==
    /\ status[x] = "called" /\ call[x].kind = "write"
    /\ status' = [status EXCEPT ![x] = "done"]
    /\ regs' = [regs EXCEPT ![call[x].dev][call[x].index] = call[x].val]
    /\ UNCHANGED <<call, result>>

End(x) ==
    /\ status[x] = "done"
    /\ status' = [status EXCEPT ![x] = "idle"]
    /\ call' = [call EXCEPT ![x] = Nothing]
    /\ result' = [result EXCEPT ![x] = Nothing]
    /\ UNCHANGED regs

Next == \E x \in Contexts : Begin(x) \/ Read(x) \/ Write(x) \/ End(x)

Spec == Init /\ [][Next]_vars
=============================================================================
