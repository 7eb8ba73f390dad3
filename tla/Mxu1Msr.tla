------------------------------ MODULE Mxu1Msr ------------------------------
(***************************************************************************)
(* Waiting for a modem line in the mxu11x0 driver                          *)
(* (src/modules/mxu11x0/driver/mxu11x0.c): the TIOCMIWAIT branch of        *)
(* mxu1_ioctl, run by any number of threads on one port, against           *)
(* mxu1_handle_new_msr, which counts line changes and clears the one wait  *)
(* flag the threads share.                                                 *)
(***************************************************************************)
EXTENDS Integers

CONSTANTS
    Lines,        \* CTS, DSR, CD, RI
    Waiters,      \* threads that may issue TIOCMIWAIT
    MaxChanges    \* bound: counted changes of one line

ASSUME MsrAssumption == MaxChanges \in Nat

VARIABLES
    icount,     \* mxp_icount's modem counters
    waitFlag,   \* mxp_msr_wait_flags
    wpc,        \* where each waiter stands
    mask,       \* the ioctl's argument: the lines waited for
    cprev,      \* a waiter's copy of the counters
    start,      \* history: the counters when the ioctl was issued
    result      \* what the ioctl returned last

msrVars == <<icount, waitFlag, wpc, mask, cprev, start, result>>

MsrInit ==
    /\ icount = [l \in Lines |-> 0]
    /\ waitFlag = FALSE
    /\ wpc = [w \in Waiters |-> "idle"]
    /\ mask = [w \in Waiters |-> {}]
    /\ cprev = [w \in Waiters |-> icount]
    /\ start = [w \in Waiters |-> icount]
    /\ result = [w \in Waiters |-> "none"]

Changed(old, new) == {l \in Lines : old[l] # new[l]}

\* mxu1_handle_new_msr's critical section for an interrupt report in which
\* the lines of delta changed.
HandleNewMsr(delta) ==
    /\ delta # {} /\ \A l \in delta : icount[l] < MaxChanges
    /\ icount' = [l \in Lines |-> IF l \in delta THEN icount[l] + 1 ELSE icount[l]]
    /\ waitFlag' = FALSE
    /\ UNCHANGED <<wpc, mask, cprev, start, result>>

\* TIOCMIWAIT: the counters are copied first ...
IwaitCopy(w, lines) ==
    /\ wpc[w] = "idle"
    /\ wpc' = [wpc EXCEPT ![w] = "copied"]
    /\ mask' = [mask EXCEPT ![w] = lines]
    /\ cprev' = [cprev EXCEPT ![w] = icount]
    /\ start' = [start EXCEPT ![w] = icount]
    /\ result' = [result EXCEPT ![w] = "none"]
    /\ UNCHANGED <<icount, waitFlag>>

\* ... then the shared flag is raised, once for the whole ioctl.
IwaitArm(w) ==
    /\ wpc[w] = "copied"
    /\ wpc' = [wpc EXCEPT ![w] = "waiting"]
    /\ waitFlag' = TRUE
    /\ UNCHANGED <<icount, mask, cprev, start, result>>

\* Variant: the copy of the counters is refreshed before the lines of the
\* mask are compared.
IwaitWakeRefreshed(w, timeout) ==
    /\ wpc[w] = "waiting"
    /\ ~waitFlag \/ timeout
    /\ cprev' = [cprev EXCEPT ![w] = icount]
    /\ result' = [result EXCEPT ![w] = "EIO"]
    /\ wpc' = [wpc EXCEPT ![w] = "idle"]
    /\ UNCHANGED <<icount, waitFlag, mask, start>>

\* Variant: the wait has no time-out.
IwaitWakeUntimed(w, timeout) ==
    /\ wpc[w] = "waiting"
    /\ ~waitFlag
    /\ result' = [result EXCEPT ![w] = IF Changed(cprev[w], icount) = {} THEN "EIO" ELSE "ok"]
    /\ wpc' = [wpc EXCEPT ![w] = "idle"]
    /\ UNCHANGED <<icount, waitFlag, mask, cprev, start>>

\* One turn of the loop: wake on the flag or after MXU1_MSR_WAIT_TIMEOUT,
\* fail when no counter moved since the last turn, succeed when a line of the
\* mask did, otherwise go round without raising the flag again.
IwaitWake(w, timeout) ==
    /\ wpc[w] = "waiting"
    /\ ~waitFlag \/ timeout
    /\ LET moved == Changed(cprev[w], icount)
       IN  /\ result' = [result EXCEPT ![w] =
                            IF moved = {} THEN "EIO"
                            ELSE IF moved \cap mask[w] # {} THEN "ok" ELSE "none"]
           /\ wpc' = [wpc EXCEPT ![w] =
                         IF moved # {} /\ moved \cap mask[w] = {} THEN "waiting" ELSE "idle"]
           /\ cprev' = [cprev EXCEPT ![w] = icount]
    /\ UNCHANGED <<icount, waitFlag, mask, start>>

\* A pending signal ends the ioctl with ERESTARTSYS.
IwaitSignal(w) ==
    /\ wpc[w] = "waiting"
    /\ wpc' = [wpc EXCEPT ![w] = "idle"]
    /\ result' = [result EXCEPT ![w] = "ERESTARTSYS"]
    /\ UNCHANGED <<icount, waitFlag, mask, cprev, start>>

WaiterStep(w) ==
    \/ IwaitArm(w)
    \/ \E timeout \in BOOLEAN : IwaitWake(w, timeout)

MsrNext ==
    \/ \E delta \in SUBSET Lines : HandleNewMsr(delta)
    \/ \E w \in Waiters :
          \/ \E lines \in (SUBSET Lines) \ {{}} : IwaitCopy(w, lines)
          \/ WaiterStep(w)
          \/ IwaitSignal(w)

MsrSpec == MsrInit /\ [][MsrNext]_msrVars

\* A thread that has issued the ioctl keeps running; its wait is timed.
MsrFairness == \A w \in Waiters : WF_msrVars(WaiterStep(w))

MsrFairSpec == MsrSpec /\ MsrFairness

-----------------------------------------------------------------------------
\* A change of a line of the mask after the ioctl was issued is never passed
\* over: as long as the ioctl waits, none has moved before its last copy, and
\* when it gives up with EIO none had moved by the time it looked.
NoChangeMissed ==
    \A w \in Waiters :
        wpc[w] = "waiting" \/ result[w] = "EIO" =>
            Changed(start[w], cprev[w]) \cap mask[w] = {}

\* The ioctl returns: a thread is never left asleep because another thread's
\* event, or an event between the copy and the flag, was consumed.
IwaitReturns == \A w \in Waiters : wpc[w] # "idle" ~> wpc[w] = "idle"
=============================================================================
