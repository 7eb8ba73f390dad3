----------------------------- MODULE MxserPort -----------------------------
(***************************************************************************)
(* Opening, closing and hanging up a port of the mxser driver              *)
(* (src/modules/mxser/mxser.c): mxser_open with mxser_startup and          *)
(* mxser_block_til_ready, mxser_close, mxser_hangup, mxser_shutdown, the   *)
(* carrier part of the interrupt handler, and CLOCAL in                    *)
(* mxser_change_speed.  The driver's own lock is held for single steps;    *)
(* what keeps two opens and closes apart is the tty core's lock.  The      *)
(* driver is written for kernels that give that lock up while a thread     *)
(* sleeps (the big kernel lock) and for kernels that hold it for the whole *)
(* call (tty_lock): both are modelled.                                     *)
(*                                                                         *)
(* The words flags and IER are sets of bits; CRTSCTS is off and the line   *)
(* DTR is left out.                                                        *)
(***************************************************************************)
EXTENDS Integers, FiniteSets

CONSTANTS
    Procs,    \* processes that open the port, one file each
    NoOne,    \* the holder of a free lock
    Hangup    \* the holder of the lock while the tty core hangs up

ASSUME PortAssumption ==
    IsFiniteSet(Procs) /\ {NoOne, Hangup} \cap Procs = {} /\ NoOne # Hangup

VARIABLES
    kernel,               \* "sleep" or "call": when the tty lock is given up
    present,              \* the port is configured, and a UART answers at its address
    lock, ttyCount,       \* the tty core's lock, tty->count
    pc, hung,             \* per process: where it is, tty_hung_up_p of its file
    woken, sig, doClocal, \* per process: TASK_RUNNING again, signal pending, do_clocal
    count, blocked,       \* info->count, info->blocked_open
    flags,                \* info->flags
    buf, infoTty,         \* info->xmit_buf and info->tty are not 0
    ier,                  \* info->IER, which the UART's register follows
    clocal, normalClocal, \* CLOCAL in tty->termios and in info->normal_termios
    untold,               \* history: CLOCAL was stored without mxser_change_speed since
    ioError,              \* TTY_IO_ERROR
    dcd, delta,           \* MSR: DCD, and DDCD
    isr,                  \* the interrupt handler
    event,                \* MXSER_EVENT_HANGUP, with the work item queued
    hangup                \* tty_hangup was called

world == <<kernel, present>>
core == <<lock, ttyCount, pc>>
wait == <<woken, sig, doClocal>>
info == <<count, blocked, flags, buf, infoTty, ier>>
termios == <<clocal, normalClocal, untold>>
line == <<dcd, delta, isr>>
softint == <<event, hangup>>
vars == <<world, core, hung, wait, info, termios, ioError, line, softint>>

Init ==
    /\ kernel \in {"sleep", "call"} /\ present \in BOOLEAN
    /\ lock = NoOne /\ ttyCount = 0
    /\ pc = [p \in Procs |-> "none"] /\ hung = [p \in Procs |-> FALSE]
    /\ woken = [p \in Procs |-> TRUE] /\ sig = [p \in Procs |-> FALSE]
    /\ doClocal = [p \in Procs |-> TRUE]
    /\ count = 0 /\ blocked = 0 /\ flags = {} /\ buf = FALSE /\ infoTty = FALSE /\ ier = {}
    /\ clocal = TRUE /\ normalClocal = TRUE /\ untold = FALSE /\ ioError = FALSE
    /\ dcd \in BOOLEAN /\ delta = FALSE /\ isr = "idle"
    /\ event = FALSE /\ hangup = FALSE

\* Where a thread may sleep, and where it is not inside the driver.
Sleeping == {"page", "asleep", "drain", "temt", "delay", "release"}
Outside == {"none", "open", "failed"}

\* Thread p runs up to the given label, under the tty core's lock.
Step(p, label) ==
    /\ lock \in {NoOne, p}
    /\ lock' = IF label \in Outside \/ (kernel = "sleep" /\ label \in Sleeping)
               THEN NoOne ELSE p
    /\ pc' = [pc EXCEPT ![p] = label]

\* wake_up_interruptible(&info->open_wait)
WakeOpeners == woken' = [p \in Procs |-> TRUE]

\* The locals of mxser_block_til_ready outside its loop.
Forget(p) ==
    /\ woken' = [woken EXCEPT ![p] = TRUE] /\ sig' = [sig EXCEPT ![p] = FALSE]
    /\ doClocal' = [doClocal EXCEPT ![p] = TRUE]

\* mxser_change_speed, as far as CLOCAL goes.
ChangeSpeed(local) ==
    IF ~infoTty THEN UNCHANGED <<flags, ier>>
    ELSE IF local
    THEN flags' = flags \ {"CHECK_CD"} /\ ier' = ier \ {"MSI"}
    ELSE flags' = flags \cup {"CHECK_CD"} /\ ier' = ier \cup {"MSI"}

\* mxser_shutdown
Shutdown ==
    IF "INITIALIZED" \notin flags THEN UNCHANGED <<buf, ier, flags, ioError>>
    ELSE /\ buf' = FALSE /\ ier' = {}
         /\ flags' = flags \ {"INITIALIZED"}
         /\ ioError' = (ioError \/ infoTty)

-----------------------------------------------------------------------------
(* mxser_open. *)

\* The file is entered in the tty's list, the port in the tty.
OpenBegin(p) ==
    /\ pc[p] = "none" /\ Step(p, "page")
    /\ ttyCount' = ttyCount + 1
    /\ infoTty' = TRUE /\ count' = count + 1
    /\ UNCHANGED <<world, hung, wait, blocked, flags, buf, ier, termios, ioError,
                   line, softint>>

\* mxser_startup: no page for the ring.
StartupNoMemory(p) ==
    /\ pc[p] = "page" /\ Step(p, "failed")
    /\ UNCHANGED <<world, ttyCount, hung, wait, info, termios, ioError, line, softint>>

\* A port that is initialized is left as it is.
StartupAgain(p) ==
    /\ pc[p] = "page" /\ "INITIALIZED" \in flags /\ Step(p, "ready")
    /\ UNCHANGED <<world, ttyCount, hung, wait, info, termios, ioError, line, softint>>

\* A port without an address or a type gets the error flag and no ring.
StartupUntyped(p) ==
    /\ pc[p] = "page" /\ "INITIALIZED" \notin flags /\ ~present /\ Step(p, "ready")
    /\ ioError' = (ioError \/ infoTty)
    /\ UNCHANGED <<world, ttyCount, hung, wait, info, termios, line, softint>>

\* No UART: ENODEV, but an administrator gets the port with an error flag.
StartupAbsent(p, admin) ==
    /\ pc[p] = "page" /\ "INITIALIZED" \notin flags /\ ~present
    /\ Step(p, IF admin THEN "ready" ELSE "failed")
    /\ buf' = TRUE
    /\ ioError' = (ioError \/ (admin /\ infoTty))
    /\ UNCHANGED <<world, ttyCount, hung, wait, count, blocked, flags, infoTty,
                   ier, termios, line, softint>>

\* The UART is set up under the lock (reading MSR clears DDCD) ...
Startup(p) ==
    /\ pc[p] = "page" /\ "INITIALIZED" \notin flags /\ present /\ Step(p, "init")
    /\ buf' = TRUE /\ ier' = {"MSI", "RLSI"} /\ delta' = FALSE
    /\ ioError' = (ioError /\ ~infoTty)
    /\ UNCHANGED <<world, ttyCount, hung, wait, count, blocked, flags, infoTty,
                   termios, dcd, isr, softint>>

\* ... and is said to be so after it.
StartupEnd(p) ==
    /\ pc[p] = "init" /\ Step(p, "ready")
    /\ flags' = flags \cup {"INITIALIZED"}
    /\ UNCHANGED <<world, ttyCount, hung, wait, count, blocked, buf, infoTty, ier,
                   termios, ioError, line, softint>>

\* mxser_block_til_ready: O_NONBLOCK, or the error flag, lets the file in.
ReadyNow(p) ==
    /\ pc[p] = "ready" /\ Step(p, "opened")
    /\ flags' = flags \cup {"NORMAL_ACTIVE"}
    /\ UNCHANGED <<world, ttyCount, hung, wait, count, blocked, buf, infoTty, ier,
                   termios, ioError, line, softint>>

\* Any other file is not counted while it waits.
ReadyWaits(p) ==
    /\ pc[p] = "ready" /\ ~ioError /\ Step(p, "block")
    /\ doClocal' = [doClocal EXCEPT ![p] = clocal]
    /\ count' = IF hung[p] THEN count ELSE count - 1
    /\ blocked' = blocked + 1
    /\ UNCHANGED <<world, ttyCount, hung, woken, sig, flags, buf, infoTty, ier,
                   termios, ioError, line, softint>>

\* The head of the loop: set_current_state(TASK_INTERRUPTIBLE).
Block(p) ==
    /\ pc[p] = "block" /\ Step(p, "test")
    /\ woken' = [woken EXCEPT ![p] = FALSE]
    /\ UNCHANGED <<world, ttyCount, hung, sig, doClocal, info, termios, ioError,
                   line, softint>>

\* The reasons to leave the loop, in the order of the code; the test of DCD
\* reads MSR, which clears DDCD.
Gone(p) == hung[p] \/ "INITIALIZED" \notin flags
ReadsMsr(p) == ~Gone(p) /\ "CLOSING" \notin flags /\ ~doClocal[p]
Ready(p) == ~Gone(p) /\ "CLOSING" \notin flags /\ (doClocal[p] \/ dcd)
Leaves(p) == Gone(p) \/ Ready(p) \/ sig[p]

\* Nothing to do but schedule().
TestSleeps(p) ==
    /\ pc[p] = "test" /\ ~Leaves(p) /\ Step(p, "asleep")
    /\ delta' = (delta /\ ~ReadsMsr(p))
    /\ UNCHANGED <<world, ttyCount, hung, wait, info, termios, ioError, dcd, isr, softint>>

\* Variant: the file is counted again even if it was hung up.
TestLeavesCounted(p) ==
    /\ pc[p] = "test" /\ Leaves(p)
    /\ Step(p, IF Ready(p) THEN "opened" ELSE "failed")
    /\ delta' = (delta /\ ~ReadsMsr(p))
    /\ count' = count + 1
    /\ blocked' = blocked - 1
    /\ Forget(p)
    /\ flags' = IF Ready(p) THEN flags \cup {"NORMAL_ACTIVE"} ELSE flags
    /\ UNCHANGED <<world, ttyCount, hung, buf, infoTty, ier, termios, ioError,
                   dcd, isr, softint>>

\* Out of the loop the file is counted again.
TestLeaves(p) ==
    /\ pc[p] = "test" /\ Leaves(p)
    /\ Step(p, IF Ready(p) THEN "opened" ELSE "failed")
    /\ delta' = (delta /\ ~ReadsMsr(p))
    /\ count' = IF hung[p] THEN count ELSE count + 1
    /\ blocked' = blocked - 1
    /\ Forget(p)
    /\ flags' = IF Ready(p) THEN flags \cup {"NORMAL_ACTIVE"} ELSE flags
    /\ UNCHANGED <<world, ttyCount, hung, buf, infoTty, ier, termios, ioError,
                   dcd, isr, softint>>

Wake(p) ==
    /\ pc[p] = "asleep" /\ (woken[p] \/ sig[p]) /\ Step(p, "block")
    /\ woken' = [woken EXCEPT ![p] = TRUE]
    /\ UNCHANGED <<world, ttyCount, hung, sig, doClocal, info, termios, ioError, line, softint>>

\* External: a signal for a thread that waits.
Signal(p) ==
    /\ pc[p] = "asleep" /\ ~sig[p]
    /\ sig' = [sig EXCEPT ![p] = TRUE]
    /\ UNCHANGED <<world, core, hung, woken, doClocal, info, termios, ioError, line, softint>>

\* The end of mxser_open: the first file gets the settings of the last one.
OpenEnd(p) ==
    /\ pc[p] = "opened" /\ Step(p, "open")
    /\ IF count = 1
       THEN clocal' = normalClocal /\ ChangeSpeed(normalClocal)
            /\ untold' = (untold /\ ~infoTty)
       ELSE UNCHANGED <<clocal, untold, flags, ier>>
    /\ UNCHANGED <<world, ttyCount, hung, wait, count, blocked, buf, infoTty,
                   normalClocal, ioError, line, softint>>

\* mxser_set_termios of a process that has the port open (not during a hang-up,
\* which waits for the line discipline's users): CLOCAL, or another setting that
\* mxser_change_speed is called for, changes.
SetTermios(p, local) ==
    /\ pc[p] = "open" /\ ~hung[p] /\ lock # Hangup
    /\ clocal' = local /\ ChangeSpeed(local)
    /\ untold' = (untold /\ ~infoTty)
    /\ UNCHANGED <<world, core, hung, wait, count, blocked, buf, infoTty,
                   normalClocal, ioError, line, softint>>

\* TIOCSSOFTCAR stores CLOCAL and nothing else: neither the flag that the handler
\* looks at nor IER follows.
SoftCarrier(p) ==
    /\ pc[p] = "open" /\ ~hung[p] /\ lock # Hangup
    /\ clocal' = ~clocal /\ untold' = TRUE
    /\ UNCHANGED <<world, core, hung, wait, info, normalClocal, ioError, line, softint>>

\* What a process that has the port open does to its settings.
Settings(p) == SoftCarrier(p) \/ \E local \in BOOLEAN : SetTermios(p, local)

-----------------------------------------------------------------------------
(* mxser_close, also called by the tty core for an open that failed. *)

\* The count as mxser_close corrects it.
Corrected == IF ttyCount = 1 THEN 1 ELSE count
Less == IF Corrected > 0 THEN Corrected - 1 ELSE 0

\* A file that was hung up, or is not the last one, changes nothing more.
CloseOther(p) ==
    /\ pc[p] \in {"open", "failed"} /\ (hung[p] \/ Less > 0) /\ Step(p, "release")
    /\ count' = IF hung[p] THEN count ELSE Less
    /\ UNCHANGED <<world, ttyCount, hung, wait, blocked, flags, buf, infoTty, ier,
                   termios, ioError, line, softint>>

\* Variant: every close shuts the port down.
CloseLastAny(p) ==
    /\ pc[p] \in {"open", "failed"} /\ ~hung[p] /\ Step(p, "drain")
    /\ count' = Less
    /\ flags' = flags \cup {"CLOSING"}
    /\ normalClocal' = IF "NORMAL_ACTIVE" \in flags THEN clocal ELSE normalClocal
    /\ UNCHANGED <<world, ttyCount, hung, wait, blocked, buf, infoTty, ier, clocal,
                   untold, ioError, line, softint>>

\* The last one saves its settings and lets the output drain ...
CloseLast(p) ==
    /\ pc[p] \in {"open", "failed"} /\ ~hung[p] /\ Less = 0 /\ Step(p, "drain")
    /\ count' = 0
    /\ flags' = flags \cup {"CLOSING"}
    /\ normalClocal' = IF "NORMAL_ACTIVE" \in flags THEN clocal ELSE normalClocal
    /\ UNCHANGED <<world, ttyCount, hung, wait, blocked, buf, infoTty, ier, clocal,
                   untold, ioError, line, softint>>

\* ... for a limited time, stops the input and lets the UART drain ...
CloseDrain(p) ==
    /\ pc[p] = "drain" /\ Step(p, "temt")
    /\ ier' = ier \ {"RLSI"}
    /\ UNCHANGED <<world, ttyCount, hung, wait, count, blocked, flags, buf, infoTty,
                   termios, ioError, line, softint>>

\* ... for at most a second; then the port is shut down,
CloseShut(p) ==
    /\ pc[p] = "temt" /\ Step(p, "clear")
    /\ Shutdown
    /\ UNCHANGED <<world, ttyCount, hung, wait, count, blocked, infoTty, termios,
                   line, softint>>

CloseClear(p) ==
    /\ pc[p] = "clear"
    /\ event' = FALSE /\ infoTty' = FALSE
    /\ Step(p, IF blocked > 0 THEN "delay" ELSE "end")
    /\ UNCHANGED <<world, ttyCount, hung, wait, count, blocked, flags, buf, ier,
                   termios, ioError, line, hangup>>

\* Variant: nobody is woken.
CloseEndSilent(p) ==
    /\ pc[p] \in {"delay", "end"} /\ Step(p, "release")
    /\ flags' = flags \ {"NORMAL_ACTIVE", "CLOSING"}
    /\ UNCHANGED <<world, ttyCount, hung, wait, count, blocked, buf, infoTty,
                   ier, termios, ioError, line, softint>>

\* Variant: all flags of the session are cleared.
CloseEndForgets(p) ==
    /\ pc[p] \in {"delay", "end"} /\ Step(p, "release")
    /\ IF pc[p] = "delay" THEN WakeOpeners ELSE UNCHANGED woken
    /\ flags' = {}
    /\ UNCHANGED <<world, ttyCount, hung, sig, doClocal, count, blocked, buf, infoTty,
                   ier, termios, ioError, line, softint>>

\* and who waits to open it is woken after close_delay.
CloseEnd(p) ==
    /\ pc[p] \in {"delay", "end"} /\ Step(p, "release")
    /\ IF pc[p] = "delay" THEN WakeOpeners ELSE UNCHANGED woken
    /\ flags' = flags \ {"NORMAL_ACTIVE", "CLOSING"}
    /\ UNCHANGED <<world, ttyCount, hung, sig, doClocal, count, blocked, buf, infoTty,
                   ier, termios, ioError, line, softint>>

\* External: the tty core drops the file, and the tty with the last one.
Release(p) ==
    /\ pc[p] = "release" /\ Step(p, "none")
    /\ ttyCount' = ttyCount - 1
    /\ hangup' = (hangup /\ ttyCount > 1) /\ ioError' = (ioError /\ ttyCount > 1)
    /\ hung' = [hung EXCEPT ![p] = FALSE]
    /\ UNCHANGED <<world, wait, info, termios, line, event>>

-----------------------------------------------------------------------------
(* Carrier changes and hang-ups. *)

\* External: the other side raises or drops the carrier.
Carrier ==
    /\ present /\ dcd' = ~dcd /\ delta' = TRUE
    /\ UNCHANGED <<world, core, hung, wait, info, termios, ioError, isr, softint>>

\* mxser_interrupt tests info->tty before it takes the lock: without a tty the
\* event is read away.
IsrEnter ==
    /\ isr = "idle" /\ delta /\ "MSI" \in ier
    /\ IF infoTty THEN isr' = "lock" /\ UNCHANGED delta
       ELSE delta' = FALSE /\ UNCHANGED isr
    /\ UNCHANGED <<world, core, hung, wait, info, termios, ioError, dcd, softint>>

\* mxser_check_modem_status: the carrier wakes who waits for it, its loss is
\* an event for the work item.
IsrModem ==
    /\ isr = "lock" /\ isr' = "idle" /\ delta' = FALSE
    /\ LET checks == delta /\ "CHECK_CD" \in flags IN
           /\ IF checks /\ dcd THEN WakeOpeners ELSE UNCHANGED woken
           /\ event' = (event \/ (checks /\ ~dcd))
    /\ UNCHANGED <<world, core, hung, sig, doClocal, info, termios, ioError, dcd, hangup>>

\* mxser_do_softint
SoftInt ==
    /\ event /\ event' = FALSE
    /\ hangup' = (hangup \/ infoTty)
    /\ UNCHANGED <<world, core, hung, wait, info, termios, ioError, line>>

\* External: somebody else asks for a hang-up.
TtyHangup ==
    /\ ttyCount > 0 /\ ~hangup /\ hangup' = TRUE
    /\ UNCHANGED <<world, core, hung, wait, info, termios, ioError, line, event>>

\* The tty core marks every file of the tty; mxser_hangup shuts the port down ...
HangupBegin ==
    /\ hangup /\ hangup' = FALSE
    /\ lock = NoOne /\ lock' = Hangup
    /\ hung' = [p \in Procs |-> hung[p] \/ pc[p] # "none"]
    /\ Shutdown
    /\ UNCHANGED <<world, ttyCount, pc, wait, count, blocked, infoTty, termios, line, event>>

\* ... and forgets its users.
HangupEnd ==
    /\ lock = Hangup /\ lock' = NoOne
    /\ event' = FALSE /\ count' = 0 /\ infoTty' = FALSE
    /\ flags' = flags \ {"NORMAL_ACTIVE"}
    /\ WakeOpeners
    /\ UNCHANGED <<world, ttyCount, pc, hung, sig, doClocal, blocked, buf, ier,
                   termios, ioError, line, hangup>>

-----------------------------------------------------------------------------
\* What a thread inside the driver does, and what brings it there.
Inside(p) ==
    \/ StartupNoMemory(p) \/ StartupAgain(p) \/ StartupUntyped(p)
    \/ (\E admin \in BOOLEAN : StartupAbsent(p, admin))
    \/ Startup(p) \/ StartupEnd(p) \/ ReadyNow(p) \/ ReadyWaits(p)
    \/ Block(p) \/ TestSleeps(p) \/ TestLeaves(p) \/ Wake(p) \/ OpenEnd(p)
    \/ CloseDrain(p) \/ CloseShut(p) \/ CloseClear(p) \/ CloseEnd(p) \/ Release(p)

Outer(p) == OpenBegin(p) \/ CloseOther(p) \/ CloseLast(p)

Kernel == IsrEnter \/ IsrModem \/ SoftInt \/ HangupBegin \/ HangupEnd

Next ==
    \/ \E p \in Procs : Inside(p) \/ Outer(p) \/ Signal(p) \/ Settings(p)
    \/ Kernel \/ Carrier \/ TtyHangup

Spec == Init /\ [][Next]_vars

-----------------------------------------------------------------------------
(* Properties. *)

Waiting(p) == pc[p] \in {"block", "test", "asleep"}

\* The types of the tty core's, the driver's and the UART's state; no counter
\* is negative or above the number of files.
TypeOK ==
    /\ kernel \in {"sleep", "call"} /\ present \in BOOLEAN
    /\ lock \in Procs \cup {NoOne, Hangup}
    /\ {ttyCount, count, blocked} \subseteq 0 .. Cardinality(Procs)
    /\ pc \in [Procs -> Outside \cup Sleeping \cup
                        {"init", "ready", "block", "test", "opened", "clear", "end"}]
    /\ {hung, woken, sig, doClocal} \subseteq [Procs -> BOOLEAN]
    /\ flags \subseteq {"INITIALIZED", "NORMAL_ACTIVE", "CLOSING", "CHECK_CD"}
    /\ ier \subseteq {"MSI", "RLSI"}
    /\ {buf, infoTty, clocal, normalClocal, untold, ioError, dcd, delta} \subseteq BOOLEAN
    /\ isr \in {"idle", "lock"} /\ {event, hangup} \subseteq BOOLEAN

\* info->count is the number of files that were not hung up and neither wait in
\* mxser_block_til_ready nor are being closed, whatever is hung up, closed or
\* interrupted meanwhile: mxser_close never has to correct it.
Counted(p) == ~hung[p] /\ pc[p] \in {"page", "init", "ready", "opened", "open", "failed"}
CountAgrees == lock # Hangup => count = Cardinality({p \in Procs : Counted(p)})

\* With the tty lock held for the whole call, the port is up for whoever has it
\* open and down for everybody else: no close of another file and no failed
\* open takes the ring, the UART or the tty away from a process that was not
\* hung up, and once nobody is left the interrupts are off, the ring is freed,
\* and no tty is left in info->tty.
PortFollowsUsers ==
    kernel = "call" /\ present /\ lock # Hangup =>
        /\ \A p \in Procs : pc[p] = "open" /\ ~hung[p] =>
               "INITIALIZED" \in flags /\ buf /\ infoTty /\ ~ioError
        /\ lock = NoOne /\ (\A p \in Procs : ~Counted(p)) =>
               "INITIALIZED" \notin flags /\ ier = {} /\ ~buf /\ ~infoTty /\ blocked = 0

\* With the tty lock held for the whole call, a thread that sleeps in open while
\* the carrier is there is woken or will be by a pending interrupt: the carrier
\* that comes between the test and schedule() is not missed, and the handler
\* looks at the carrier whenever the settings left by earlier users make open
\* wait for it.  Not claimed: after TIOCSSOFTCAR cleared CLOCAL, which the handler
\* is not told of, open waits for a carrier nobody announces, until the settings
\* are next applied; and a second user, count > 0, may set CLOCAL meanwhile.
NoLostCarrier ==
    \A p \in Procs :
        kernel = "call" /\ pc[p] = "asleep" /\ dcd /\ count = 0 /\ ~untold =>
            woken[p] \/ (delta /\ "MSI" \in ier /\ "CHECK_CD" \in flags)

\* A thread that sleeps in open on a port that was shut down under it, by a
\* hang-up or by the close of a file it waited beside, is woken or will be at
\* the end of that close or hang-up.
NoOrphan ==
    \A p \in Procs :
        pc[p] = "asleep" /\ "INITIALIZED" \notin flags =>
            woken[p] \/ lock = Hangup \/ \E q \in Procs : pc[q] \in {"clear", "delay"}

=============================================================================
