----------------------------- MODULE Mxu1Write -----------------------------
(***************************************************************************)
(* The transmit path of the mxu11x0 USB-serial driver                      *)
(* (src/modules/mxu11x0/driver/mxu11x0.c): mxu1_write and mxu1_buf_put,    *)
(* which copy bytes into the circular buffer in three separate critical    *)
(* sections; mxu1_send, run by writers and by the completion callback,     *)
(* which moves bytes to the one write URB; mxu1_bulk_out_callback; and     *)
(* mxu1_drain with its callers mxu1_break and mxu1_close.                  *)
(*                                                                         *)
(* A byte is the number of its turn: 1 is the first byte ever put into the *)
(* buffer.  The tty core (one writer at a time, no write during close) and *)
(* the USB core (URB life cycle, usb_kill_urb) are modelled from how the   *)
(* driver uses them.                                                       *)
(***************************************************************************)
EXTENDS CircBuf, FiniteSets

CONSTANTS
    Writers,       \* threads that may be in the tty's write path
    Cb,            \* the write URB's completion callback
    OutputLock,    \* the tty core serialises the echo and write(2) paths
    BulkOutSize,   \* port->bulk_out_size
    MaxReq,        \* bound: bytes one write asks for
    MaxBytes       \* bound: bytes put into the buffer in a behaviour

ASSUME WriteAssumption ==
    /\ Cb \notin Writers
    /\ OutputLock \in BOOLEAN
    /\ BulkOutSize \in Nat \ {0}
    /\ MaxReq \in Nat \ {0}
    /\ MaxBytes \in Nat

VARIABLES
    buf, head, tail,   \* mxp_write_buf
    nput,              \* bytes put into the buffer so far
    inUse,             \* mxp_write_urb_in_use
    xfer,              \* write_urb->transfer_buffer (its valid bytes)
    active,            \* the write URB is queued at the host controller
    urbStatus,         \* write_urb->status
    reject,            \* usb_kill_urb forbids submission of the URB
    urbErr,            \* mxd_urb_error
    isOpen,            \* mxp_is_open
    connected,         \* the interface still has its driver data
    pc,                \* where each writer and the callback stands
    want, left, chunk, room,  \* a writer's request and locals
    ctl,               \* where the thread in open, close or break stands
    clean,             \* history: the drain never gave up
    devq, sent,        \* bytes in the adapter's FIFO, bytes on the line
    lost,              \* bytes dropped by a failure, a flush or a purge
    stalled            \* history: sending stopped on a failed or killed URB

bufVars == <<buf, head, tail, nput>>
urbVars == <<inUse, xfer, active, urbStatus, reject, urbErr>>
writerVars == <<want, left, chunk, room>>
ctlVars == <<ctl, clean>>
devVars == <<devq, sent>>
vars == <<bufVars, urbVars, writerVars, ctlVars, devVars, isOpen, connected,
          pc, lost, stalled>>

Actors == Writers \cup {Cb}

SendPcs == {"send", "submit"}

Init ==
    /\ buf = [s \in Slots |-> 0] /\ head = 0 /\ tail = 0 /\ nput = 0
    /\ inUse = FALSE /\ xfer = <<>> /\ active = FALSE /\ urbStatus = "ok"
    /\ reject = FALSE /\ urbErr = FALSE
    /\ isOpen = FALSE /\ connected = TRUE
    /\ pc = [a \in Actors |-> "idle"]
    /\ want = [w \in Writers |-> 0] /\ left = [w \in Writers |-> 0]
    /\ chunk = [w \in Writers |-> 0] /\ room = [w \in Writers |-> 0]
    /\ ctl = "closed" /\ clean = TRUE
    /\ devq = <<>> /\ sent = <<>> /\ lost = {} /\ stalled = FALSE

Range1(s) == {s[i] : i \in 1 .. Len(s)}

Goto(a, label) == pc' = [pc EXCEPT ![a] = label]

\* External: the tty core.  It never calls write while it runs the driver's
\* close, and current kernels hold an output lock around the room query and
\* the write; kernels before 3.15 let an echo overlap a write(2).
TtyWriteAllowed(w) ==
    /\ IF OutputLock THEN \A v \in Writers : pc[v] = "idle" ELSE pc[w] = "idle"
    /\ ctl \in {"open", "drainBreak", "lsrBreak", "broken"}

-----------------------------------------------------------------------------
(* Writers: mxu1_write_room, then mxu1_write of up to MaxReq bytes.        *)

\* mxu1_write_room, followed by mxu1_write's checks on entry.  The tty core
\* asks for the room under its output lock, so the answer belongs to the
\* write that follows.
WriteBegin(w, n) ==
    /\ TtyWriteAllowed(w)
    /\ isOpen
    /\ nput + n <= MaxBytes
    /\ room' = [room EXCEPT ![w] = CircSpace(head, tail)]
    /\ want' = [want EXCEPT ![w] = n]
    /\ left' = [left EXCEPT ![w] = n]
    /\ Goto(w, "space")
    /\ UNCHANGED <<bufVars, urbVars, ctlVars, devVars, isOpen, connected,
                   chunk, lost, stalled>>

\* First critical section of an iteration of mxu1_buf_put's loop.  When no
\* room or nothing to put is left mxu1_buf_put returns (its locals go back to
\* 0 here) and mxu1_write calls mxu1_send.
PutSpace(w) ==
    /\ pc[w] = "space"
    /\ LET c == Lesser(left[w], CircSpaceToEnd(head, tail))
       IN  IF c > 0
           THEN /\ chunk' = [chunk EXCEPT ![w] = c]
                /\ Goto(w, "copy")
                /\ UNCHANGED <<want, left, room>>
           ELSE /\ want' = [want EXCEPT ![w] = 0]
                /\ left' = [left EXCEPT ![w] = 0]
                /\ room' = [room EXCEPT ![w] = 0]
                /\ Goto(w, "send")
                /\ UNCHANGED chunk
    /\ UNCHANGED <<bufVars, urbVars, ctlVars, devVars, isOpen, connected,
                   lost, stalled>>

\* Second: memcpy at the head the buffer has now.
PutCopy(w) ==
    /\ pc[w] = "copy"
    /\ buf' = CopyIn(buf, head, [i \in 1 .. chunk[w] |-> nput + i], chunk[w])
    /\ Goto(w, "advance")
    /\ UNCHANGED <<head, tail, nput, urbVars, writerVars, ctlVars, devVars,
                   isOpen, connected, lost, stalled>>

\* Third: the head moves on, and the loop goes round.
PutAdvance(w) ==
    /\ pc[w] = "advance"
    /\ head' = Wrap(head + chunk[w])
    /\ nput' = nput + chunk[w]
    /\ left' = [left EXCEPT ![w] = @ - chunk[w]]
    /\ chunk' = [chunk EXCEPT ![w] = 0]
    /\ Goto(w, "space")
    /\ UNCHANGED <<buf, tail, urbVars, ctlVars, devVars, isOpen, connected,
                   want, room, lost, stalled>>

-----------------------------------------------------------------------------
(* mxu1_send, run by a writer after mxu1_buf_put or by the callback.       *)

\* Variant: the in-use flag is not tested.
SendTakeUnchecked(a) ==
    /\ pc[a] = "send"
    /\ CircCnt(head, tail) # 0
    /\ xfer' = BufGetBytes(buf, head, tail, BulkOutSize)
    /\ tail' = BufGetTail(head, tail, BulkOutSize)
    /\ inUse' = TRUE
    /\ stalled' = FALSE
    /\ Goto(a, "submit")
    /\ UNCHANGED <<buf, head, nput, active, urbStatus, reject, urbErr, writerVars,
                   ctlVars, devVars, isOpen, connected, lost>>

\* The critical section: nothing to do while the URB is in use or the buffer
\* is empty; otherwise fill the transfer buffer and claim the URB.
SendTake(a) ==
    /\ pc[a] = "send"
    /\ IF inUse \/ CircCnt(head, tail) = 0
       THEN /\ Goto(a, "idle")
            /\ UNCHANGED <<tail, xfer, inUse, stalled>>
       ELSE /\ xfer' = BufGetBytes(buf, head, tail, BulkOutSize)
            /\ tail' = BufGetTail(head, tail, BulkOutSize)
            /\ inUse' = TRUE
            /\ stalled' = FALSE
            /\ Goto(a, "submit")
    /\ UNCHANGED <<buf, head, nput, active, urbStatus, reject, urbErr, writerVars,
                   ctlVars, devVars, isOpen, connected, lost>>

\* usb_submit_urb accepts the URB.  The accounting and the wake-ups that follow
\* touch nothing of this state.
SendSubmit(a) ==
    /\ pc[a] = "submit"
    /\ ~active /\ ~reject /\ connected
    /\ active' = TRUE
    /\ urbStatus' = "inprogress"
    /\ Goto(a, "idle")
    /\ UNCHANGED <<bufVars, inUse, xfer, reject, urbErr, writerVars, ctlVars,
                   devVars, isOpen, connected, lost, stalled>>

\* usb_submit_urb fails: always if the URB is active, being killed or the
\* device gone, and now and then for want of memory.  The bytes taken from
\* the buffer are dropped and nobody is scheduled to send the rest.
SendSubmitFails(a) ==
    /\ pc[a] = "submit"
    /\ inUse' = FALSE
    /\ lost' = lost \cup Range1(xfer)
    /\ stalled' = TRUE
    /\ Goto(a, "idle")
    /\ UNCHANGED <<bufVars, xfer, active, urbStatus, reject, urbErr, writerVars,
                   ctlVars, devVars, isOpen, connected>>

-----------------------------------------------------------------------------
(* The host controller and mxu1_bulk_out_callback.                         *)

\* The transfer ends: the first k bytes reached the adapter.  A killed URB or
\* a vanished device gives a shutdown status, a bad transfer an error.
Complete(k, status) ==
    /\ active /\ pc[Cb] = "idle"
    /\ status = "ok" => k = Len(xfer)
    /\ status = "shutdown" => reject \/ ~connected
    /\ k > 0 => connected
    /\ active' = FALSE
    /\ urbStatus' = status
    /\ devq' = devq \o SubSeq(xfer, 1, k)
    /\ lost' = lost \cup Range1(SubSeq(xfer, k + 1, Len(xfer)))
    /\ Goto(Cb, "clear")
    /\ UNCHANGED <<bufVars, inUse, xfer, reject, urbErr, writerVars, ctlVars,
                   sent, isOpen, connected, stalled>>

\* The callback gives the URB up before it looks at its status.
CallbackClear ==
    /\ pc[Cb] = "clear"
    /\ inUse' = FALSE
    /\ Goto(Cb, "status")
    /\ UNCHANGED <<bufVars, xfer, active, urbStatus, reject, urbErr, writerVars,
                   ctlVars, devVars, isOpen, connected, lost, stalled>>

\* Variant: any error ends the callback.
CallbackStatusGivesUp ==
    /\ pc[Cb] = "status"
    /\ urbErr' = (urbErr \/ urbStatus # "ok")
    /\ stalled' = (stalled \/ urbStatus = "shutdown")
    /\ Goto(Cb, IF urbStatus = "ok" THEN "send" ELSE "idle")
    /\ UNCHANGED <<bufVars, inUse, xfer, active, urbStatus, reject, writerVars,
                   ctlVars, devVars, isOpen, connected, lost>>

\* A shutdown status ends the callback; any other goes on to mxu1_send, after
\* recording an error when it is not 0.  The status may by now be that of a
\* submission another thread has made.
CallbackStatus ==
    /\ pc[Cb] = "status"
    /\ urbErr' = (urbErr \/ urbStatus # "ok")
    /\ stalled' = (stalled \/ urbStatus = "shutdown")
    /\ Goto(Cb, IF urbStatus = "shutdown" THEN "idle" ELSE "send")
    /\ UNCHANGED <<bufVars, inUse, xfer, active, urbStatus, reject, writerVars,
                   ctlVars, devVars, isOpen, connected, lost>>

\* The adapter shifts a byte out on the line.
Transmit ==
    /\ devq # <<>>
    /\ sent' = Append(sent, Head(devq))
    /\ devq' = Tail(devq)
    /\ UNCHANGED <<bufVars, urbVars, writerVars, ctlVars, isOpen, connected,
                   pc, lost, stalled>>

\* The device is unplugged: mxu1_disconnect; what it held is gone.
Disconnect ==
    /\ connected
    /\ connected' = FALSE
    /\ lost' = lost \cup Range1(devq)
    /\ devq' = <<>>
    /\ UNCHANGED <<bufVars, urbVars, writerVars, ctlVars, sent, isOpen, pc,
                   stalled>>
-----------------------------------------------------------------------------
(* Open, close and break, run one at a time by the tty core.               *)

\* mxu1_open as far as it concerns transmission: the purge commands empty the
\* adapter, then the port is open.
Open ==
    /\ ctl = "closed" /\ connected
    /\ lost' = lost \cup Range1(devq)
    /\ devq' = <<>>
    /\ isOpen' = TRUE
    /\ ctl' = "open"
    /\ UNCHANGED <<bufVars, urbVars, writerVars, clean, sent,
                   connected, pc, stalled>>

DrainBegin ==
    /\ urbErr' = FALSE
    /\ clean' = TRUE

CloseBegin ==
    /\ ctl = "open" /\ \A w \in Writers : pc[w] = "idle"
    /\ isOpen' = FALSE
    /\ DrainBegin
    /\ ctl' = "drainClose"
    /\ UNCHANGED <<bufVars, inUse, xfer, active, urbStatus, reject, writerVars,
                   devVars, connected, pc, lost, stalled>>

BreakBegin ==
    /\ ctl = "open"
    /\ DrainBegin
    /\ ctl' = "drainBreak"
    /\ UNCHANGED <<bufVars, inUse, xfer, active, urbStatus, reject, writerVars,
                   devVars, isOpen, connected, pc, lost, stalled>>

\* Variant: mxu1_close does not flush what it could not send.
DrainBufferNoFlush(gaveUp) ==
    /\ ctl \in {"drainClose", "drainBreak"}
    /\ gaveUp \/ urbErr \/ ~connected \/ CircCnt(head, tail) = 0
    /\ clean' = (clean /\ ~gaveUp /\ ~urbErr /\ connected)
    /\ ctl' = IF ctl = "drainClose" THEN "lsrClose" ELSE "lsrBreak"
    /\ UNCHANGED <<bufVars, lost, urbVars, writerVars, devVars,
                   isOpen, connected, pc, stalled>>

\* Variant: the drain has no time-out.
DrainBufferUntimed(gaveUp) ==
    /\ ctl \in {"drainClose", "drainBreak"}
    /\ urbErr \/ ~connected \/ CircCnt(head, tail) = 0
    /\ ctl' = IF ctl = "drainClose" THEN "lsrClose" ELSE "lsrBreak"
    /\ UNCHANGED <<bufVars, lost, urbVars, writerVars, clean, devVars,
                   isOpen, connected, pc, stalled>>

\* First half of mxu1_drain: leave the wait when the buffer is empty, on an
\* URB error or a disconnection, or give up (time out or signal); with flush
\* clear what is left.
DrainBuffer(gaveUp) ==
    /\ ctl \in {"drainClose", "drainBreak"}
    /\ gaveUp \/ urbErr \/ ~connected \/ CircCnt(head, tail) = 0
    /\ clean' = (clean /\ ~gaveUp /\ ~urbErr /\ connected)
    /\ IF ctl = "drainClose"
       THEN /\ lost' = lost \cup Range1(Contents(buf, head, tail))
            /\ head' = 0 /\ tail' = 0
       ELSE UNCHANGED <<head, tail, lost>>
    /\ ctl' = IF ctl = "drainClose" THEN "lsrClose" ELSE "lsrBreak"
    /\ UNCHANGED <<buf, nput, urbVars, writerVars, devVars,
                   isOpen, connected, pc, stalled>>

\* Second half: poll the line status until the adapter's transmitter is
\* empty, or leave on an error, a disconnection, or giving up (time out,
\* signal, failed command).  mxu1_break then starts the break.
DrainDevice(gaveUp) ==
    /\ ctl \in {"lsrClose", "lsrBreak"}
    /\ gaveUp \/ urbErr \/ ~connected \/ devq = <<>>
    /\ clean' = (clean /\ ~gaveUp /\ ~urbErr /\ connected)
    /\ ctl' = IF ctl = "lsrClose" THEN "drained" ELSE "broken"
    /\ UNCHANGED <<bufVars, urbVars, writerVars, devVars,
                   isOpen, connected, pc, lost, stalled>>

\* The break command has been sent; the port goes on.
BreakEnd ==
    /\ ctl = "broken"
    /\ ctl' = "open"
    /\ clean' = TRUE
    /\ UNCHANGED <<bufVars, urbVars, writerVars, devVars,
                   isOpen, connected, pc, lost, stalled>>

\* usb_kill_urb(write_urb): refuse submission, unlink, and wait for the
\* callback to finish.
KillBegin ==
    /\ ctl = "drained"
    /\ reject' = TRUE
    /\ ctl' = "kill"
    /\ UNCHANGED <<bufVars, inUse, xfer, active, urbStatus, urbErr, writerVars,
                   clean, devVars, isOpen, connected, pc, lost,
                   stalled>>

\* ... after which mxu1_close resets the in-use flag and closes the port.
KillEnd ==
    /\ ctl = "kill"
    /\ ~active /\ pc[Cb] = "idle"
    /\ reject' = FALSE
    /\ inUse' = FALSE
    /\ ctl' = "closed"
    /\ clean' = TRUE
    /\ UNCHANGED <<bufVars, xfer, active, urbStatus, urbErr, writerVars,
                   devVars, isOpen, connected, pc, lost, stalled>>

-----------------------------------------------------------------------------
WriterStep(w) ==
    \/ \E n \in 1 .. MaxReq : WriteBegin(w, n)
    \/ PutSpace(w) \/ PutCopy(w) \/ PutAdvance(w)

SendStep(a) ==
    SendTake(a) \/ SendSubmit(a) \/ SendSubmitFails(a)

CompleteAny ==
    \E k \in 0 .. BulkOutSize, status \in {"ok", "error", "shutdown"} :
        k <= Len(xfer) /\ Complete(k, status)

CtlStep ==
    \/ Open \/ CloseBegin \/ BreakBegin \/ BreakEnd \/ KillBegin \/ KillEnd
    \/ \E gaveUp \in BOOLEAN : DrainBuffer(gaveUp) \/ DrainDevice(gaveUp)

Next ==
    \/ \E w \in Writers : WriterStep(w)
    \/ \E a \in Actors : SendStep(a)
    \/ CompleteAny \/ CallbackClear \/ CallbackStatus
    \/ CtlStep \/ Transmit \/ Disconnect

Spec == Init /\ [][Next]_vars

-----------------------------------------------------------------------------
(* Properties.                                                             *)

WriterPcs == {"idle", "space", "copy", "advance"} \cup SendPcs
CbPcs == {"idle", "clear", "status"} \cup SendPcs
CtlPcs == {"closed", "open", "drainClose", "lsrClose", "drained", "kill",
           "drainBreak", "lsrBreak", "broken"}

BufTypeOK ==
    /\ buf \in [Slots -> Nat] /\ head \in Slots /\ tail \in Slots
    /\ nput \in Nat

UrbTypeOK ==
    /\ inUse \in BOOLEAN /\ active \in BOOLEAN /\ xfer \in Seq(Nat)
    /\ urbStatus \in {"ok", "error", "shutdown", "inprogress"}
    /\ reject \in BOOLEAN /\ urbErr \in BOOLEAN

PcTypeOK ==
    /\ pc \in [Actors -> WriterPcs \cup CbPcs]
    /\ pc[Cb] \in CbPcs
    /\ \A w \in Writers : pc[w] \in WriterPcs

WriterTypeOK ==
    /\ want \in [Writers -> Nat] /\ left \in [Writers -> Nat]
    /\ chunk \in [Writers -> Nat] /\ room \in [Writers -> Nat]

CtlTypeOK ==
    /\ ctl \in CtlPcs /\ clean \in BOOLEAN
    /\ isOpen \in BOOLEAN /\ connected \in BOOLEAN /\ stalled \in BOOLEAN

DevTypeOK ==
    /\ devq \in Seq(Nat) /\ sent \in Seq(Nat) /\ lost \in SUBSET Nat

\* Every variable has its type; head and tail index the buffer's array.
TypeOK ==
    BufTypeOK /\ UrbTypeOK /\ PcTypeOK /\ WriterTypeOK /\ CtlTypeOK /\ DevTypeOK

\* The bytes that have left the buffer but not yet reached the adapter.
InTransfer == IF active \/ \E a \in Actors : pc[a] = "submit" THEN xfer ELSE <<>>

\* Every byte accepted and not lost, in the order in which it will reach or
\* has reached the line.
Pipe == sent \o devq \o InTransfer \o Contents(buf, head, tail)

\* Bytes leave on the line in the order in which mxu1_write accepted them,
\* none twice, and every accepted byte is on the line, on its way or counted
\* as lost: mxu1_buf_put's three critical sections, mxu1_send from two
\* contexts and the callback neither reorder, duplicate nor leak a byte.
FifoExactlyOnce ==
    /\ \A i, j \in 1 .. Len(Pipe) : i < j => Pipe[i] < Pipe[j]
    /\ Range1(Pipe) \cup lost = 1 .. nput
    /\ Range1(Pipe) \cap lost = {}

\* mxp_write_urb_in_use is a lock on the write URB: it is set exactly while
\* one thread is about to submit, the host controller owns the URB, or the
\* callback has not yet released it, and these three exclude each other.
UrbOwnership ==
    /\ inUse <=> \/ active
                 \/ pc[Cb] = "clear"
                 \/ \E a \in Actors : pc[a] = "submit"
    /\ \A a \in Actors : pc[a] = "submit" => ~active /\ pc[Cb] # "clear"
    /\ \A a, b \in Actors : pc[a] = "submit" /\ pc[b] = "submit" => a = b
    /\ active => pc[Cb] # "clear"

\* Data never waits in the buffer with nobody left to send it, unless a
\* submission failed or the URB was shut down: the test of the in-use flag
\* in mxu1_send cannot miss the callback that clears it.
NoSilentStall ==
    CircCnt(head, tail) # 0 =>
        \/ stalled \/ inUse
        \/ pc[Cb] \in {"status", "send"}
        \/ \E w \in Writers : pc[w] \in {"space", "copy", "advance", "send"}

\* A write accepts at least what mxu1_write_room promised: the wrap-around in
\* mxu1_buf_put's loop loses no room to a consumer running beside it.
RoomHonoured ==
    [][\A w \in Writers :
         pc[w] = "space" /\ pc'[w] = "send" =>
             want[w] - left[w] >= Lesser(want[w], room[w])]_vars

\* The memcpy of mxu1_buf_put, and the advance after it, use a chunk computed
\* in an earlier critical section: it still fits between the head and the end
\* of the array, and in the free space, when it is used.
PutStaysInBounds ==
    \A w \in Writers :
        pc[w] \in {"copy", "advance"} =>
            /\ head + chunk[w] <= BufSize
            /\ chunk[w] <= CircSpace(head, tail)

\* After mxu1_close the URB is idle and the flag clear, so the next open
\* starts from a state in which mxu1_send works; the buffer is empty.
ClosedIsQuiet ==
    ctl = "closed" => /\ ~inUse /\ ~active
                      /\ CircCnt(head, tail) = 0
                      /\ \A a \in Actors : pc[a] \notin SendPcs

\* mxu1_drain, when mxu1_close calls it and it does not give up, returns with
\* every accepted byte on the line.
DrainReachesLine ==
    ctl = "drained" /\ clean => 1 .. nput \subseteq Range1(sent) \cup lost

-----------------------------------------------------------------------------
(* Liveness.  Threads and the callback keep running, the host controller   *)
(* ends every transfer, the adapter transmits, and mxu1_drain's time-out   *)
(* ends its waits.  Nobody has to open, write, break, fail or unplug.      *)

Fairness ==
    /\ \A w \in Writers : WF_vars(PutSpace(w) \/ PutCopy(w) \/ PutAdvance(w))
    /\ \A a \in Actors : WF_vars(SendStep(a))
    /\ WF_vars(CompleteAny)
    /\ WF_vars(CallbackClear \/ CallbackStatus)
    /\ WF_vars(Transmit)
    /\ WF_vars(\E gaveUp \in BOOLEAN : DrainBuffer(gaveUp) \/ DrainDevice(gaveUp))
    /\ WF_vars(BreakEnd \/ KillBegin \/ KillEnd)

FairSpec == Spec /\ Fairness

\* Buffered data is sent, lost or flushed unless sending stalled on a failed
\* submission or a shutdown.
DataMoves == (CircCnt(head, tail) # 0) ~> (CircCnt(head, tail) = 0 \/ stalled)

\* mxu1_close and mxu1_break return: the drain ends and usb_kill_urb does not
\* wait for ever on a callback that resubmits the URB it is waiting for.
CtlReturns == (ctl \notin {"open", "closed"}) ~> (ctl \in {"open", "closed"})
=============================================================================
