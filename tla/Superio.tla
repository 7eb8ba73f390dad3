------------------------------ MODULE Superio ------------------------------
(***************************************************************************)
(* superio_read and superio_write (src/modules/moxa_v2100_superio), one    *)
(* step per access to the chip's index and data ports.  The ports are      *)
(* shared by every caller and so is the variable flags that keeps the      *)
(* interrupt state; superio_lock protects both.  Each CPU runs a thread    *)
(* that an interrupt handler, which calls the same functions, may          *)
(* interrupt while interrupts are enabled.                                 *)
(***************************************************************************)
CONSTANTS
    Cpus,      \* the CPUs
    IrqCpus,   \* the CPUs on which a handler that calls the functions may run
    Ldns,      \* logical devices of the chip
    Indexes,   \* register numbers in a logical device
    Vals,      \* register contents
    NoOne,     \* the holder of a free lock
    Nothing    \* no arguments, no result

ASSUME SuperioAssumption ==
    /\ IrqCpus \subseteq Cpus
    /\ NoOne \notin Cpus \X {"task", "irq"}
    /\ "LDN" \notin Indexes

\* A context is the thread or the interrupt handler of a CPU.
Contexts == Cpus \X {"task", "irq"}

VARIABLES
    lock, flags,     \* superio_lock, flags
    irqOn, inIrq,    \* per CPU: interrupts enabled, its handler is running
    saved,           \* per context: the state spin_lock_irqsave found
    pc, call,        \* per context: where it is, with which arguments
    result,          \* per context: val of superio_read
    latch, ldn,      \* the chip: the register the index port names, the
    regs             \* selected logical device, the registers

chip == <<latch, ldn, regs>>
cpu == <<irqOn, inIrq>>
vars == <<lock, flags, cpu, saved, pc, call, result, chip>>

\* The arguments of the two functions.
Calls ==
    [kind : {"read"}, dev : Ldns, index : Indexes]
        \cup [kind : {"write"}, dev : Ldns, index : Indexes, val : Vals]

\* A handler, while it runs, is what its CPU executes.
Runs(x) == (x[2] = "irq") = inIrq[x[1]]

Goto(x, label) == pc' = [pc EXCEPT ![x] = label]

Init ==
    /\ lock = NoOne /\ flags = TRUE
    /\ irqOn = [c \in Cpus |-> TRUE] /\ inIrq = [c \in Cpus |-> FALSE]
    /\ pc = [x \in Contexts |-> "idle"] /\ saved = [x \in Contexts |-> TRUE]
    /\ call = [x \in Contexts |-> Nothing]
    /\ result = [x \in Contexts |-> Nothing]
    /\ regs \in [Ldns -> [Indexes -> Vals]]
    /\ latch = "LDN" /\ ldn \in Ldns

\* External: an interrupt arrives where interrupts are enabled ...
IrqEnter(c) ==
    /\ c \in IrqCpus /\ irqOn[c] /\ ~inIrq[c]
    /\ inIrq' = [inIrq EXCEPT ![c] = TRUE]
    /\ irqOn' = [irqOn EXCEPT ![c] = FALSE]
    /\ UNCHANGED <<lock, flags, saved, pc, call, result, chip>>

\* External: ... and its handler returns.
IrqExit(c) ==
    /\ inIrq[c] /\ pc[<<c, "irq">>] = "idle"
    /\ inIrq' = [inIrq EXCEPT ![c] = FALSE]
    /\ irqOn' = [irqOn EXCEPT ![c] = TRUE]
    /\ UNCHANGED <<lock, flags, saved, pc, call, result, chip>>

\* Variant: spin_lock, which leaves interrupts enabled.
BeginEnabled(x) ==
    /\ Runs(x) /\ pc[x] = "idle"
    /\ \E a \in Calls : call' = [call EXCEPT ![x] = a]
    /\ saved' = [saved EXCEPT ![x] = irqOn[x[1]]]
    /\ Goto(x, "lock")
    /\ UNCHANGED <<lock, flags, cpu, result, chip>>

\* spin_lock_irqsave disables interrupts on this CPU before it spins ...
Begin(x) ==
    /\ Runs(x) /\ pc[x] = "idle"
    /\ \E a \in Calls : call' = [call EXCEPT ![x] = a]
    /\ saved' = [saved EXCEPT ![x] = irqOn[x[1]]]
    /\ irqOn' = [irqOn EXCEPT ![x[1]] = FALSE]
    /\ Goto(x, "lock")
    /\ UNCHANGED <<lock, flags, inIrq, result, chip>>

\* Variant: no lock is taken.
LockNothing(x) ==
    /\ Runs(x) /\ pc[x] = "lock"
    /\ flags' = saved[x]
    /\ Goto(x, "init")
    /\ UNCHANGED <<lock, cpu, saved, call, result, chip>>

\* ... and stores their former state in flags once the lock is held.
Lock(x) ==
    /\ Runs(x) /\ pc[x] = "lock"
    /\ lock = NoOne /\ lock' = x
    /\ flags' = saved[x]
    /\ Goto(x, "init")
    /\ UNCHANGED <<cpu, saved, call, result, chip>>

\* superio_init: the chip's entry keys, then the first access of
\* superio_select_dev: the index port names the logical device register.
SuperioInit(x) ==
    /\ Runs(x) /\ pc[x] = "init"
    /\ latch' = "LDN"
    /\ Goto(x, "select")
    /\ UNCHANGED <<lock, flags, cpu, saved, call, result, ldn, regs>>

\* superio_select_dev: the logical device goes to the register named.
SelectDev(x) ==
    /\ Runs(x) /\ pc[x] = "select"
    /\ IF latch = "LDN"
       THEN ldn' = call[x].dev /\ UNCHANGED regs
       ELSE \E v \in Vals :     \* the byte lands in another register
               regs' = [regs EXCEPT ![ldn][latch] = v] /\ UNCHANGED ldn
    /\ Goto(x, "index")
    /\ UNCHANGED <<lock, flags, cpu, saved, call, result, latch>>

\* The index port names the register asked for.
Index(x) ==
    /\ Runs(x) /\ pc[x] = "index"
    /\ latch' = call[x].index
    /\ Goto(x, "data")
    /\ UNCHANGED <<lock, flags, cpu, saved, call, result, ldn, regs>>

\* The data port, read or written: whatever register is selected by now.
ReadData(x) ==
    /\ Runs(x) /\ pc[x] = "data" /\ call[x].kind = "read"
    /\ IF latch = "LDN"
       THEN \E v \in Vals : result' = [result EXCEPT ![x] = v]
       ELSE result' = [result EXCEPT ![x] = regs[ldn][latch]]
    /\ Goto(x, "unlock")
    /\ UNCHANGED <<lock, flags, cpu, saved, call, chip>>

WriteData(x) ==
    /\ Runs(x) /\ pc[x] = "data" /\ call[x].kind = "write"
    /\ IF latch = "LDN"
       THEN \E d \in Ldns : ldn' = d /\ UNCHANGED regs
       ELSE regs' = [regs EXCEPT ![ldn][latch] = call[x].val] /\ UNCHANGED ldn
    /\ Goto(x, "unlock")
    /\ UNCHANGED <<lock, flags, cpu, saved, call, result, latch>>

\* Variant: spin_unlock_irq, which enables interrupts.
UnlockEnables(x) ==
    /\ Runs(x) /\ pc[x] = "unlock"
    /\ lock' = NoOne
    /\ irqOn' = [irqOn EXCEPT ![x[1]] = TRUE]
    /\ Goto(x, "idle")
    /\ call' = [call EXCEPT ![x] = Nothing]
    /\ result' = [result EXCEPT ![x] = Nothing]
    /\ UNCHANGED <<flags, inIrq, saved, chip>>

\* superio_release and spin_unlock_irqrestore.
Unlock(x) ==
    /\ Runs(x) /\ pc[x] = "unlock"
    /\ lock' = NoOne
    /\ irqOn' = [irqOn EXCEPT ![x[1]] = flags]
    /\ Goto(x, "idle")
    /\ call' = [call EXCEPT ![x] = Nothing]
    /\ result' = [result EXCEPT ![x] = Nothing]
    /\ UNCHANGED <<flags, inIrq, saved, chip>>

Access(x) ==
    SuperioInit(x) \/ SelectDev(x) \/ Index(x) \/ ReadData(x) \/ WriteData(x) \/ Unlock(x)

Next ==
    \/ \E c \in Cpus : IrqEnter(c) \/ IrqExit(c)
    \/ \E x \in Contexts : Begin(x) \/ Lock(x) \/ Access(x)

Spec == Init /\ [][Next]_vars

\* A CPU goes on with what it runs, a handler returns, and the ticket lock
\* passes over nobody who spins on it.
Fairness ==
    /\ \A x \in Contexts : WF_vars(Access(x)) /\ SF_vars(Lock(x))
    /\ \A c \in Cpus : SF_vars(IrqExit(c))

-----------------------------------------------------------------------------
(* Properties. *)

\* The types of the lock, the CPUs' state, the calls and the chip.
TypeOK ==
    /\ lock \in Contexts \cup {NoOne} /\ flags \in BOOLEAN
    /\ irqOn \in [Cpus -> BOOLEAN] /\ inIrq \in [Cpus -> BOOLEAN]
    /\ saved \in [Contexts -> BOOLEAN]
    /\ pc \in [Contexts -> {"idle", "lock", "init", "select", "index", "data", "unlock"}]
    /\ call \in [Contexts -> Calls \cup {Nothing}]
    /\ result \in [Contexts -> Vals \cup {Nothing}]
    /\ latch \in Indexes \cup {"LDN"} /\ ldn \in Ldns
    /\ regs \in [Ldns -> [Indexes -> Vals]]

\* A thread gets back from superio_read and superio_write with interrupts
\* enabled and a handler with interrupts disabled, although all callers keep
\* the state they found in one global variable.
IrqStateRestored ==
    \A c \in Cpus :
        IF inIrq[c] THEN ~irqOn[c]
        ELSE pc[<<c, "task">>] = "idle" => irqOn[c]

\* A handler never spins on a lock held by the thread it interrupted: every
\* call returns.
CallsReturn ==
    \A x \in Contexts : pc[x] # "idle" ~> pc[x] = "idle"

\* The call of x as the promise sees it.
AbsStatus(x) ==
    CASE pc[x] = "idle" -> "idle"
      [] pc[x] = "unlock" -> "done"
      [] OTHER -> "called"

Promise == INSTANCE SuperioRegs WITH status <- [x \in Contexts |-> AbsStatus(x)]

\* The sequences of port accesses implement a memory read or written in one
\* instant: no caller reads or writes a register another one selected.
AtomicRegisters == Promise!Spec

=============================================================================
