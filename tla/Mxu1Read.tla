------------------------------ MODULE Mxu1Read ------------------------------
(***************************************************************************)
(* Opening and closing a port of the mxu11x0 driver, its receive path and  *)
(* its interrupt URB (src/modules/mxu11x0/driver/mxu11x0.c): mxu1_open     *)
(* with its unwinding, mxu1_close, the read URB's state machine            *)
(* (RUNNING / STOPPING / STOPPED) driven by mxu1_stop_read,                *)
(* mxu1_restart_read and mxu1_bulk_in_callback, and                        *)
(* mxu1_interrupt_callback.  Every supported adapter has one port.         *)
(*                                                                         *)
(* Received data is abstracted away: what is kept is who has each URB.     *)
(***************************************************************************)
EXTENDS Integers

CONSTANT Restarters   \* threads that may call mxu1_restart_read: the tty's
                      \* unthrottle, mxu1_set_termios

VARIABLES
    ctl,         \* where the thread in mxu1_open or mxu1_close stands
    isOpen,      \* mxp_is_open
    count,       \* mxd_open_port_count
    connected,   \* the adapter is plugged in
    rstate,      \* mxp_read_urb_state
    ractive,     \* the read URB is queued at the host controller
    rstatus,     \* read_urb->status
    rpc,         \* where mxu1_bulk_in_callback stands
    rreject,     \* usb_kill_urb(read_urb) is in progress
    iactive, ipc, ireject,   \* the same for interrupt_in_urb
    tpc,         \* where each thread of Restarters stands
    urbErr,      \* mxd_urb_error
    readDied     \* history: a read URB failed since the last open

readVars == <<rstate, ractive, rstatus, rpc, rreject>>
intVars == <<iactive, ipc, ireject>>
vars == <<ctl, isOpen, count, connected, readVars, intVars, tpc, urbErr,
          readDied>>

Init ==
    /\ ctl = "closed" /\ isOpen = FALSE /\ count = 0 /\ connected = TRUE
    /\ rstate = "RUNNING"      \* kzalloc: MXU1_READ_URB_RUNNING is 0
    /\ ractive = FALSE /\ rstatus = "ok" /\ rpc = "idle" /\ rreject = FALSE
    /\ iactive = FALSE /\ ipc = "idle" /\ ireject = FALSE
    /\ tpc = [r \in Restarters |-> "idle"]
    /\ urbErr = FALSE /\ readDied = FALSE

-----------------------------------------------------------------------------
(* mxu1_open: "only one open on any port on a device at a time".           *)

\* The semaphore is taken and the counters are reset; the first open submits
\* the interrupt URB, and a failure there undoes nothing but the semaphore.
OpenInt(ok) ==
    /\ ctl = "closed" /\ connected
    /\ IF count = 0
       THEN IF ok
            THEN iactive' = TRUE /\ ctl' = "openCmds"
            ELSE UNCHANGED <<iactive, ctl>>
       ELSE ctl' = "openCmds" /\ UNCHANGED iactive
    /\ UNCHANGED <<isOpen, count, connected, readVars, ipc, ireject, tpc,
                   urbErr, readDied>>

\* mxu1_set_termios (its restart of the read is void, the port is not open),
\* then OPEN_PORT, START_PORT and the two PURGE_PORT commands.
OpenCmds(ok) ==
    /\ ctl = "openCmds"
    /\ ok => connected
    /\ ctl' = IF ok THEN "openRead" ELSE "unwind"
    /\ UNCHANGED <<isOpen, count, connected, readVars, intVars, tpc, urbErr,
                   readDied>>

\* The read URB is submitted ...
OpenRead(ok) ==
    /\ ctl = "openRead"
    /\ ok => connected /\ ~ractive
    /\ rstate' = "RUNNING"
    /\ ractive' = (ractive \/ ok)
    /\ ctl' = IF ok THEN "openMark" ELSE "unwind"
    /\ readDied' = FALSE
    /\ UNCHANGED <<isOpen, count, connected, rstatus, rpc, rreject, intVars,
                   tpc, urbErr>>

\* ... and only then is the port marked open.
OpenMark ==
    /\ ctl = "openMark"
    /\ isOpen' = TRUE
    /\ count' = count + 1
    /\ ctl' = "open"
    /\ UNCHANGED <<connected, readVars, intVars, tpc, urbErr, readDied>>

\* Variant: a failed open forgets the interrupt URB.
OpenUnwindNothing ==
    /\ ctl = "unwind"
    /\ ctl' = "closed"
    /\ UNCHANGED <<isOpen, count, connected, readVars, intVars, tpc, urbErr,
                   readDied>>

\* Variant: the open waits for the interrupt URB without unlinking it.
OpenUnwindNoUnlink ==
    /\ ctl = "unwind"
    /\ ctl' = "killInt"
    /\ UNCHANGED <<isOpen, count, connected, readVars, intVars, tpc, urbErr,
                   readDied>>

\* unlink_int_urb: a failed first open kills the interrupt URB.
OpenUnwind ==
    /\ ctl = "unwind"
    /\ IF count = 0
       THEN ireject' = TRUE /\ ctl' = "killInt"
       ELSE ctl' = "closed" /\ UNCHANGED ireject
    /\ UNCHANGED <<isOpen, count, connected, readVars, iactive, ipc, tpc,
                   urbErr, readDied>>

\* usb_kill_urb(interrupt_in_urb) returns; mxu1_close also resets the count.
IntKilled ==
    /\ ctl = "killInt"
    /\ ~iactive /\ ipc = "idle"
    /\ ireject' = FALSE
    /\ count' = 0
    /\ ctl' = "closed"
    /\ UNCHANGED <<isOpen, connected, readVars, iactive, ipc, tpc, urbErr,
                   readDied>>

-----------------------------------------------------------------------------
(* mxu1_close.  External: the tty core closes the port when no thread is   *)
(* in unthrottle or set_termios.                                           *)

\* The port is no longer open; the drain of Mxu1Write runs (its first act is
\* to reset the error flag) and then usb_kill_urb(read_urb) begins.
CloseBegin ==
    /\ ctl = "open" /\ \A r \in Restarters : tpc[r] = "idle"
    /\ isOpen' = FALSE
    /\ urbErr' = FALSE
    /\ ctl' = "drain"
    /\ UNCHANGED <<count, connected, readVars, intVars, tpc, readDied>>

CloseKillRead ==
    /\ ctl = "drain"
    /\ rreject' = TRUE
    /\ ctl' = "killRead"
    /\ UNCHANGED <<isOpen, count, connected, rstate, ractive, rstatus, rpc,
                   intVars, tpc, urbErr, readDied>>

\* The read URB is dead: the state becomes STOPPED, CLOSE_PORT is sent, and
\* the last port to close takes the interrupt URB down.  An interrupted
\* semaphore changes nothing on a one-port adapter.
CloseReadKilled ==
    /\ ctl = "killRead"
    /\ ~ractive /\ rpc = "idle"
    /\ rreject' = FALSE
    /\ rstate' = "STOPPED"
    /\ count' = count - 1
    /\ IF count' <= 0
       THEN ireject' = TRUE /\ ctl' = "killInt"
       ELSE ctl' = "closed" /\ UNCHANGED ireject
    /\ UNCHANGED <<isOpen, connected, ractive, rstatus, rpc, iactive, ipc,
                   tpc, urbErr, readDied>>

-----------------------------------------------------------------------------
(* Flow control: mxu1_throttle, mxu1_unthrottle and mxu1_set_termios.      *)

\* mxu1_stop_read, called by mxu1_throttle when IXOFF or CRTSCTS is set.
StopRead ==
    /\ ctl = "open"
    /\ rstate = "RUNNING"
    /\ rstate' = "STOPPING"
    /\ UNCHANGED <<ctl, isOpen, count, connected, ractive, rstatus, rpc,
                   rreject, intVars, tpc, urbErr, readDied>>

\* Variant: the new state is not recorded before the lock is released.
RestartReadLate(r) ==
    /\ ctl = "open" /\ tpc[r] = "idle" /\ isOpen
    /\ IF rstate = "STOPPED"
       THEN /\ tpc' = [tpc EXCEPT ![r] = "submit"]
            /\ UNCHANGED rstate
       ELSE /\ rstate' = "RUNNING"
            /\ UNCHANGED tpc
    /\ UNCHANGED <<ctl, isOpen, count, connected, ractive, rstatus, rpc,
                   rreject, intVars, urbErr, readDied>>

\* The critical section of mxu1_restart_read.  Only the thread that finds
\* the URB STOPPED goes on to submit it.
RestartRead(r) ==
    /\ ctl = "open" /\ tpc[r] = "idle" /\ isOpen
    /\ rstate' = "RUNNING"
    /\ tpc' = [tpc EXCEPT ![r] = IF rstate = "STOPPED" THEN "submit" ELSE "idle"]
    /\ UNCHANGED <<ctl, isOpen, count, connected, ractive, rstatus, rpc,
                   rreject, intVars, urbErr, readDied>>

\* usb_submit_urb outside the lock; a failure is only reported.
RestartSubmit(r, ok) ==
    /\ tpc[r] = "submit"
    /\ ok => ~ractive /\ ~rreject /\ connected
    /\ ractive' = (ractive \/ ok)
    /\ readDied' = (readDied \/ ~ok)
    /\ tpc' = [tpc EXCEPT ![r] = "idle"]
    /\ UNCHANGED <<ctl, isOpen, count, connected, rstate, rstatus, rpc,
                   rreject, intVars, urbErr>>

-----------------------------------------------------------------------------
(* The host controller and mxu1_bulk_in_callback.                          *)

ReadStatus == {"ok", "epipe", "error", "shutdown"}

\* A read URB completes.  A killed URB or a vanished adapter gives a shutdown
\* status, and nothing else once the adapter is gone.
ReadComplete(status) ==
    /\ ractive /\ rpc = "idle"
    /\ status = "shutdown" => rreject \/ ~connected
    /\ ~connected => status = "shutdown"
    /\ ractive' = FALSE
    /\ rstatus' = status
    /\ rpc' = "status"
    /\ UNCHANGED <<ctl, isOpen, count, connected, rstate, rreject, intVars,
                   tpc, urbErr, readDied>>

\* The switch on the status, then mxu1_recv: data is delivered if the port is
\* marked open and dropped otherwise.  A shutdown or an error other than
\* EPIPE ends the callback at once.
ReadCallback ==
    /\ rpc = "status"
    /\ rpc' = IF rstatus \in {"ok", "epipe"} THEN "exit" ELSE "idle"
    /\ urbErr' = (urbErr \/ rstatus # "ok")
    /\ readDied' = (readDied \/ rstatus \in {"error", "shutdown"})
    /\ UNCHANGED <<ctl, isOpen, count, connected, rstate, ractive, rstatus,
                   rreject, intVars, tpc>>

\* Variant: STOPPING is never turned into STOPPED.
ReadExitStaysStopping(ok) ==
    /\ rpc = "exit"
    /\ ok => ~rreject /\ connected
    /\ IF rstate = "RUNNING"
       THEN ractive' = ok /\ readDied' = (readDied \/ ~ok)
       ELSE UNCHANGED <<ractive, readDied>>
    /\ rpc' = "idle"
    /\ UNCHANGED <<ctl, isOpen, count, connected, rstate, rstatus, rreject,
                   intVars, tpc, urbErr>>

\* exit: under the lock, "continue to read unless stopping".
ReadExit(ok) ==
    /\ rpc = "exit"
    /\ ok => ~rreject /\ connected
    /\ IF rstate = "RUNNING"
       THEN /\ ractive' = ok
            /\ readDied' = (readDied \/ ~ok)
            /\ UNCHANGED rstate
       ELSE /\ rstate' = IF rstate = "STOPPING" THEN "STOPPED" ELSE rstate
            /\ UNCHANGED <<ractive, readDied>>
    /\ rpc' = "idle"
    /\ UNCHANGED <<ctl, isOpen, count, connected, rstatus, rreject, intVars,
                   tpc, urbErr>>

-----------------------------------------------------------------------------
(* The interrupt URB, and unplugging.                                      *)

IntComplete(status) ==
    /\ iactive /\ ipc = "idle"
    /\ status = "shutdown" => ireject \/ ~connected
    /\ ~connected => status = "shutdown"
    /\ iactive' = FALSE
    /\ ipc' = status
    /\ UNCHANGED <<ctl, isOpen, count, connected, readVars, ireject, tpc,
                   urbErr, readDied>>

\* mxu1_interrupt_callback: a shutdown ends it; after anything else (a modem
\* status, a bad packet, an error) it submits the URB again.
IntCallback(ok) ==
    /\ ipc # "idle"
    /\ urbErr' = (urbErr \/ ipc # "ok")
    /\ ok => ipc # "shutdown" /\ ~ireject /\ connected
    /\ iactive' = ok
    /\ ipc' = "idle"
    /\ UNCHANGED <<ctl, isOpen, count, connected, readVars, ireject, tpc,
                   readDied>>

Disconnect ==
    /\ connected
    /\ connected' = FALSE
    /\ UNCHANGED <<ctl, isOpen, count, readVars, intVars, tpc, urbErr,
                   readDied>>

-----------------------------------------------------------------------------
OpenStep ==
    \/ \E ok \in BOOLEAN : OpenInt(ok) \/ OpenCmds(ok) \/ OpenRead(ok)
    \/ OpenMark \/ OpenUnwind

CloseStep == CloseBegin \/ CloseKillRead \/ CloseReadKilled \/ IntKilled

ReadStep ==
    \/ \E status \in ReadStatus : ReadComplete(status)
    \/ ReadCallback
    \/ \E ok \in BOOLEAN : ReadExit(ok)

IntStep ==
    \/ \E status \in {"ok", "error", "shutdown"} : IntComplete(status)
    \/ \E ok \in BOOLEAN : IntCallback(ok)

RestartStep(r) ==
    RestartRead(r) \/ \E ok \in BOOLEAN : RestartSubmit(r, ok)

Next ==
    \/ OpenStep \/ CloseStep \/ ReadStep \/ IntStep
    \/ StopRead \/ Disconnect
    \/ \E r \in Restarters : RestartStep(r)

Spec == Init /\ [][Next]_vars

-----------------------------------------------------------------------------
(* Properties.                                                             *)

CtlPcs == {"closed", "openCmds", "openRead", "openMark", "open", "unwind",
           "drain", "killRead", "killInt"}

\* Every variable has its type.
TypeOK ==
    /\ ctl \in CtlPcs /\ isOpen \in BOOLEAN /\ count \in 0 .. 1
    /\ connected \in BOOLEAN
    /\ rstate \in {"RUNNING", "STOPPING", "STOPPED"}
    /\ ractive \in BOOLEAN /\ rstatus \in ReadStatus
    /\ rpc \in {"idle", "status", "exit"} /\ rreject \in BOOLEAN
    /\ iactive \in BOOLEAN /\ ipc \in {"idle", "ok", "error", "shutdown"}
    /\ ireject \in BOOLEAN
    /\ tpc \in [Restarters -> {"idle", "submit"}]
    /\ urbErr \in BOOLEAN /\ readDied \in BOOLEAN

Submitting(r) == tpc[r] = "submit"

\* The read URB has at most one user: the host controller, its callback, or
\* one thread about to submit it in mxu1_restart_read.  In particular two
\* restarts, or a restart and the callback, never submit it twice.  And
\* STOPPED means that it has none: that is what lets mxu1_restart_read submit
\* without looking further.
ReadUrbSingle ==
    /\ ractive => rpc = "idle"
    /\ ractive \/ rpc # "idle" => \A r \in Restarters : ~Submitting(r)
    /\ \A r, q \in Restarters : Submitting(r) /\ Submitting(q) => r = q
    /\ rstate = "STOPPED" =>
           ~ractive /\ rpc = "idle" /\ \A r \in Restarters : ~Submitting(r)

\* While the port is open and reading has not failed, RUNNING means that the
\* URB is with the host controller, in its callback, or about to be sent: no
\* order of throttle, unthrottle and completion loses the read.
RunningReads ==
    ctl = "open" /\ rstate # "STOPPED" /\ ~readDied =>
        ractive \/ rpc # "idle" \/ \E r \in Restarters : Submitting(r)

\* A closed port, after a close or a failed open, has no URB outstanding and
\* counts no open port, so unplugging or the next open find nothing running.
ClosedIsQuiet ==
    ctl = "closed" =>
        /\ ~isOpen /\ count = 0
        /\ ~ractive /\ rpc = "idle" /\ ~iactive /\ ipc = "idle"
        /\ \A r \in Restarters : ~Submitting(r)

-----------------------------------------------------------------------------
(* Liveness.  Callbacks run, a killed URB is given back, threads that have *)
(* begun to open, close or restart go on; data need never arrive and       *)
(* nobody needs to open, throttle or unplug.                               *)

Fairness ==
    /\ WF_vars(OpenStep /\ ctl # "closed")
    /\ WF_vars(CloseKillRead \/ CloseReadKilled \/ IntKilled)
    /\ WF_vars(ReadComplete("shutdown")) /\ WF_vars(IntComplete("shutdown"))
    /\ WF_vars(ReadCallback \/ \E ok \in BOOLEAN : ReadExit(ok))
    /\ WF_vars(\E ok \in BOOLEAN : IntCallback(ok))
    /\ \A r \in Restarters : WF_vars(\E ok \in BOOLEAN : RestartSubmit(r, ok))

FairSpec == Spec /\ Fairness

\* mxu1_open and mxu1_close return: usb_kill_urb is never defeated by a
\* callback that keeps resubmitting.
CtlReturns == (ctl \notin {"open", "closed"}) ~> (ctl \in {"open", "closed"})

=============================================================================
