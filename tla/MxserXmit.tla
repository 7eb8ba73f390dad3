----------------------------- MODULE MxserXmit -----------------------------
(***************************************************************************)
(* The data path of the mxser multiport driver                             *)
(* (src/modules/mxser/mxser.c): mxser_write, mxser_put_char and            *)
(* mxser_flush_chars feed a ring of SERIAL_XMIT_SIZE bytes; the interrupt  *)
(* handler empties it into the UART; stop, start, throttle, unthrottle and *)
(* flush_buffer run in other threads; the work item wakes a sleeping       *)
(* writer.  A section under info->slock is one step; what the code does    *)
(* outside it is a step of its own.  The handler drops the lock once,      *)
(* around tty_flip_buffer_push.                                            *)
(*                                                                         *)
(* A byte is the number of its turn.  The flow-control characters travel   *)
(* through the same FIFO as negative numbers.  The port has IXOFF and      *)
(* CRTSCTS set.                                                            *)
(***************************************************************************)
EXTENDS Integers, Sequences

CONSTANTS
    XmitSize,     \* SERIAL_XMIT_SIZE, 4096 in the driver
    FifoSize,     \* xmit_fifo_size
    WakeupChars,  \* WAKEUP_CHARS, 256 in the driver
    Chips,        \* the kinds of UART a port may have: records with
                  \* must (IsMoxaMustChipFlag, a Moxa UART) and auto (must, or
                  \* type = PORT_16550A: the UART itself obeys CTS)
    MaxReq,       \* bound: bytes one write asks for
    MaxBytes,     \* bound: bytes accepted in a behaviour
    Budgets       \* bound: how often output is stopped (stop), reception is
                  \* stopped (throttle) and the port flushed (flush): a
                  \* behaviour has one of these records

ASSUME XmitAssumption ==
    /\ XmitSize \in Nat /\ XmitSize >= 2
    /\ FifoSize \in Nat \ {0} /\ WakeupChars \in 1 .. XmitSize - 1
    /\ Chips \subseteq {c \in [must : BOOLEAN, auto : BOOLEAN] : c.must => c.auto}
    /\ MaxReq \in Nat \ {0} /\ MaxBytes \in Nat 
    /\ Budgets \subseteq [stop : Nat, throttle : Nat, flush : Nat]

VARIABLES
    chip,                    \* the port's UART
    xbuf, head, tail, cnt,   \* xmit_buf, xmit_head, xmit_tail, xmit_cnt
    accepted,                \* bytes accepted so far
    w,                       \* the writer: pc and locals
    woken,                   \* a wake-up reached the writer since it looked
    thri,                    \* IER's transmitter interrupt bit
    thrInt,                  \* the UART's latched transmitter interrupt
    fifo, fifoOn,            \* the UART's transmit FIFO, FCR's enable bit
    last,                    \* the last byte sent
    rxi,                     \* IER's receive bits (cleared on a Moxa UART only)
    xchar, rts, throttled,   \* x_char, MCR's RTS bit, TTY_THROTTLED
    stopped, hwStopped,      \* tty->stopped, tty->hw_stopped
    event, work,             \* MXSER_EVENT_TXLOW, the work item is queued
    spc, upc, fpc,           \* threads in stop/start, (un)throttle, flush_buffer
    isr,                     \* the interrupt handler, its IIR and its LSR
    budget,                  \* what is left of the behaviour's budget
    torn, lostInt            \* history: what a flush destroyed

ring == <<xbuf, head, tail, cnt, accepted>>
writer == <<w, woken>>
uart == <<thri, thrInt, fifo, fifoOn>>
wire == <<chip, last>>
recv == <<rxi, xchar, rts, throttled>>
tty == <<stopped, hwStopped, event, work>>
other == <<spc, upc, fpc, isr, budget>>
hist == <<torn, lostInt>>
vars == <<ring, writer, uart, wire, recv, tty, other, hist>>

Slots == 0 .. XmitSize - 1
None == 0
Xoff == -1
Xon == -2
Lesser(a, b) == IF a < b THEN a ELSE b

Idle == [pc |-> "idle", rem |-> 0, c |-> 0, got |-> FALSE]
NoIsr == [pc |-> "idle", iir |-> "none", lsr |-> FALSE]

Init ==
    /\ chip \in Chips
    /\ xbuf = [s \in Slots |-> 0] /\ head = 0 /\ tail = 0 /\ cnt = 0 /\ accepted = 0
    /\ w = Idle /\ woken = FALSE
    /\ thri = FALSE /\ thrInt = FALSE /\ fifo = <<>> /\ fifoOn = TRUE
    /\ last = 0
    /\ rxi = TRUE /\ xchar = None /\ rts = TRUE /\ throttled = FALSE
    /\ stopped = FALSE /\ hwStopped = FALSE /\ event = FALSE /\ work = FALSE
    /\ spc = "idle" /\ upc = "idle" /\ fpc = "idle" /\ isr = NoIsr /\ budget \in Budgets
    /\ torn = FALSE /\ lostInt = FALSE

-----------------------------------------------------------------------------
(* The writer. *)

\* Output may not move: nobody enables the transmitter interrupt.
Held == stopped \/ (hwStopped /\ ~chip.auto)

\* IER is written without and then with UART_IER_THRI: an empty transmitter
\* raises its interrupt again.
Kick ==
    /\ thri' = TRUE
    /\ thrInt' = (fifo = <<>>)
    /\ lostInt' = FALSE
    /\ UNCHANGED <<fifo, fifoOn, torn>>

WriteBegin(n) ==
    /\ w.pc = "idle" /\ accepted + n <= MaxBytes
    /\ w' = [Idle EXCEPT !.pc = "room", !.rem = n]
    /\ woken' = FALSE
    /\ UNCHANGED <<ring, uart, wire, recv, tty, other, hist>>

\* The size of the next chunk: what is left to write, the room, and the way
\* to the end of the ring.
WriteChunk == Lesser(w.rem, Lesser(XmitSize - cnt - 1, XmitSize - head))

WriteRoom ==
    /\ w.pc = "room"
    /\ w' = IF WriteChunk <= 0
            THEN [w EXCEPT !.pc = "test"]
            ELSE [w EXCEPT !.pc = "copy", !.c = WriteChunk]
    /\ UNCHANGED <<ring, woken, uart, wire, recv, tty, other, hist>>

\* memcpy, outside the lock, to where xmit_head points by now.
WriteCopy ==
    /\ w.pc = "copy"
    /\ xbuf' = [s \in Slots |-> IF s - head \in 0 .. w.c - 1
                                THEN accepted + 1 + s - head ELSE xbuf[s]]
    /\ w' = [w EXCEPT !.pc = "advance"]
    /\ UNCHANGED <<head, tail, cnt, accepted, woken, uart, wire, recv, tty, other, hist>>

WriteAdvance ==
    /\ w.pc = "advance"
    /\ head' = (head + w.c) % XmitSize
    /\ cnt' = cnt + w.c /\ accepted' = accepted + w.c
    /\ w' = [w EXCEPT !.pc = "room", !.rem = @ - w.c, !.c = 0, !.got = TRUE]
    /\ UNCHANGED <<xbuf, tail, woken, uart, wire, recv, tty, other, hist>>

\* mxser_put_char: the room is tested outside the lock, the byte stored and
\* counted inside it.
PutBegin ==
    /\ w.pc = "idle" /\ accepted < MaxBytes
    /\ cnt < XmitSize - 1
    /\ w' = [Idle EXCEPT !.pc = "put"]
    /\ UNCHANGED <<ring, woken, uart, wire, recv, tty, other, hist>>

PutInsert ==
    /\ w.pc = "put"
    /\ xbuf' = [xbuf EXCEPT ![head] = accepted + 1]
    /\ head' = (head + 1) % XmitSize
    /\ cnt' = cnt + 1 /\ accepted' = accepted + 1
    /\ w' = [w EXCEPT !.pc = "putTest"]
    /\ UNCHANGED <<tail, woken, uart, wire, recv, tty, other, hist>>

\* mxser_flush_chars, called by the line discipline after put_char.
FlushChars ==
    /\ w.pc = "idle" /\ cnt > 0 /\ ~Held
    /\ w' = [Idle EXCEPT !.pc = "kick"]
    /\ UNCHANGED <<ring, woken, uart, wire, recv, tty, other, hist>>

\* External: what the line discipline does with a short write.  A call that
\* took something is repeated, one that took nothing puts the caller to sleep.
WriteReturns ==
    IF w.rem = 0 THEN Idle
    ELSE IF w.got THEN [w EXCEPT !.pc = "room", !.got = FALSE]
    ELSE [w EXCEPT !.pc = "asleep"]

\* The test of the flow-control flags, outside the lock ...
WriteTest ==
    /\ w.pc \in {"test", "putTest"}
    /\ w' = IF (w.pc = "putTest" \/ cnt > 0) /\ ~Held
            THEN [w EXCEPT !.pc = "kick"] ELSE WriteReturns
    /\ UNCHANGED <<ring, woken, uart, wire, recv, tty, other, hist>>

\* Variant: the interrupt is not toggled when it is enabled already.
WriteKickOnce ==
    /\ w.pc = "kick"
    /\ IF thri THEN UNCHANGED <<uart, hist>> ELSE Kick
    /\ w' = WriteReturns
    /\ UNCHANGED <<ring, woken, wire, recv, tty, other>>

\* ... and the toggling of the interrupt, inside it.
WriteKick ==
    /\ w.pc = "kick"
    /\ Kick
    /\ w' = WriteReturns
    /\ UNCHANGED <<ring, woken, wire, recv, tty, other>>

\* External: the sleeping writer was woken and tries again.
WriteRetry ==
    /\ w.pc = "asleep" /\ woken
    /\ w' = [w EXCEPT !.pc = "room"]
    /\ woken' = FALSE
    /\ UNCHANGED <<ring, uart, wire, recv, tty, other, hist>>

-----------------------------------------------------------------------------
(* Other threads of the tty core. *)

\* mxser_flush_buffer resets the ring under the lock; bytes a write has
\* copied and not counted yet are no longer where the ring expects them ...
FlushRing ==
    /\ fpc = "idle" /\ fpc' = "read"
    /\ budget.flush > 0 /\ budget' = [budget EXCEPT !.flush = @ - 1]
    /\ cnt' = 0 /\ head' = 0 /\ tail' = 0
    /\ torn' = (torn \/ w.pc = "advance")
    /\ UNCHANGED <<xbuf, accepted, writer, uart, wire, recv, tty, spc, upc, isr, lostInt>>

\* ... reads, outside the lock, UART_FCR: what comes back is the interrupt
\* identification.  A pending transmitter interrupt is taken away by it, another
\* one (received data, the lines) that is reported instead is not ...
FlushRead ==
    /\ fpc = "read"
    /\ \/ ~thrInt /\ fpc' = "clearOn" /\ UNCHANGED <<thrInt, lostInt>>
       \/ thrInt /\ fpc' = "clearOff" /\ thrInt' = FALSE /\ lostInt' = TRUE
       \/ fpc' = "clearOff" /\ UNCHANGED <<thrInt, lostInt>>
    /\ UNCHANGED <<ring, writer, thri, fifo, fifoOn, wire, recv, tty, spc, upc, isr, budget, torn>>

\* Variant: the writer is not woken.
FlushFifoSilent ==
    /\ fpc \in {"clearOn", "clearOff"} /\ fpc' = "idle"
    /\ fifoOn' = (fpc = "clearOn") /\ fifo' = <<>>
    /\ thrInt' = (thrInt \/ (thri /\ fifo # <<>>))
    /\ lostInt' = (lostInt /\ fifo = <<>>)
    /\ UNCHANGED <<ring, writer, thri, wire, recv, tty, spc, upc, isr, budget, torn>>

\* ... clears the FIFOs with it, writes it back, its bit 0 ("no interrupt
\* pending") as the FIFO enable bit, and wakes the writer.
FlushFifo ==
    /\ fpc \in {"clearOn", "clearOff"} /\ fpc' = "idle"
    /\ fifoOn' = (fpc = "clearOn") /\ fifo' = <<>>
    /\ thrInt' = (thrInt \/ (thri /\ fifo # <<>>))
    /\ lostInt' = (lostInt /\ fifo = <<>>)
    /\ woken' = TRUE
    /\ UNCHANGED <<ring, w, thri, wire, recv, tty, spc, upc, isr, budget, torn>>

\* External: the tty core sets or clears tty->stopped and then calls
\* mxser_stop or mxser_start.
TtyFlow(on) ==
    /\ spc = "idle" /\ stopped # on /\ (on => budget.stop > 0)
    /\ budget' = IF on THEN [budget EXCEPT !.stop = @ - 1] ELSE budget
    /\ stopped' = on
    /\ spc' = IF on THEN "stop" ELSE "start"
    /\ UNCHANGED <<ring, writer, uart, wire, recv, hwStopped, event, work, upc, fpc, isr, hist>>

Stop ==
    /\ spc = "stop" /\ spc' = "idle"
    /\ thri' = FALSE /\ thrInt' = FALSE
    /\ UNCHANGED <<ring, writer, fifo, fifoOn, wire, recv, tty, upc, fpc, isr, budget, hist>>

\* Variant: output is resumed only for a writer that is still waiting.
StartForWriter ==
    /\ spc = "start" /\ spc' = "idle"
    /\ IF cnt > 0 /\ w.pc # "idle" THEN Kick ELSE UNCHANGED <<uart, hist>>
    /\ UNCHANGED <<ring, writer, wire, recv, tty, upc, fpc, isr, budget>>

Start ==
    /\ spc = "start" /\ spc' = "idle"
    /\ IF cnt > 0 THEN Kick ELSE UNCHANGED <<uart, hist>>
    /\ UNCHANGED <<ring, writer, wire, recv, tty, upc, fpc, isr, budget>>

\* The IXOFF part of mxser_stoprx: a Moxa UART stops receiving, another one
\* sends an XOFF, for which the transmitter interrupt is enabled.
StopRx ==
    IF chip.must THEN rxi' = FALSE /\ UNCHANGED <<xchar, uart, hist>>
            ELSE xchar' = Xoff /\ Kick /\ UNCHANGED rxi

\* External: the tty core sets TTY_THROTTLED and calls mxser_throttle ...
TtyThrottle ==
    /\ upc = "idle" /\ ~throttled /\ budget.throttle > 0
    /\ budget' = [budget EXCEPT !.throttle = @ - 1]
    /\ throttled' = TRUE /\ upc' = "stop"
    /\ UNCHANGED <<ring, writer, uart, wire, rxi, xchar, rts, tty, spc, fpc, isr, hist>>

\* ... which is mxser_stoprx: the XOFF in one locked section ...
Throttle ==
    /\ upc = "stop" /\ upc' = "rtsOff"
    /\ StopRx
    /\ UNCHANGED <<ring, writer, wire, rts, throttled, tty, spc, fpc, isr, budget>>

\* ... RTS in a second one, at the end of mxser_startrx as well.
SetRts ==
    /\ upc \in {"rtsOff", "rtsOn"} /\ upc' = "idle"
    /\ rts' = (upc = "rtsOn")
    /\ UNCHANGED <<ring, writer, uart, wire, rxi, xchar, throttled, tty, spc, fpc, isr, budget, hist>>

\* External: the tty core clears TTY_THROTTLED and calls mxser_unthrottle.
TtyUnthrottle ==
    /\ upc = "idle" /\ throttled
    /\ throttled' = FALSE /\ upc' = "start"
    /\ UNCHANGED <<ring, writer, uart, wire, rxi, xchar, rts, tty, spc, fpc, isr, budget, hist>>

\* mxser_startrx: x_char is tested outside the lock ...
UnthrottleTest ==
    /\ upc = "start"
    /\ upc' = IF xchar # None THEN "clear" ELSE "send"
    /\ UNCHANGED <<ring, writer, uart, wire, recv, tty, spc, fpc, isr, budget, hist>>

\* ... with none pending an XON is queued (a Moxa UART receives again) ...
UnthrottleSend ==
    /\ upc = "send" /\ upc' = "rtsOn"
    /\ IF chip.must THEN rxi' = TRUE /\ UNCHANGED <<xchar, uart, hist>>
               ELSE xchar' = Xon /\ Kick /\ UNCHANGED rxi
    /\ UNCHANGED <<ring, writer, wire, rts, throttled, tty, spc, fpc, isr, budget>>

\* Variant: with the XOFF taken back nothing else is thought necessary.
UnthrottleClearOnly ==
    /\ upc = "clear" /\ upc' = "idle"
    /\ xchar' = None
    /\ UNCHANGED <<ring, writer, uart, wire, rxi, rts, throttled, tty, spc, fpc, isr, budget, hist>>

\* ... otherwise x_char is cleared, outside the lock: the pending XOFF is
\* taken back.
UnthrottleClear ==
    /\ upc = "clear" /\ upc' = "rtsOn"
    /\ xchar' = None
    /\ UNCHANGED <<ring, writer, uart, wire, rxi, rts, throttled, tty, spc, fpc, isr, budget, hist>>

\* mxser_do_softint: the event bit is taken and the writer woken.
SoftInt ==
    /\ work /\ work' = FALSE
    /\ event' = FALSE
    /\ woken' = (woken \/ event)
    /\ UNCHANGED <<ring, w, uart, wire, recv, stopped, hwStopped, other, hist>>

-----------------------------------------------------------------------------
(* The interrupt handler. *)

\* IIR is read before the lock is taken.  Receive data comes first, then the
\* transmitter, whose interrupt the read clears, then the modem lines.
IsrIir(src) ==
    /\ isr.pc = "idle"
    /\ isr' = [NoIsr EXCEPT !.pc = "iir", !.iir = src]
    /\ CASE src = "rx" -> rxi /\ UNCHANGED thrInt
         [] src = "tx" -> thrInt /\ thrInt' = FALSE
         [] src = "msr" -> ~thrInt /\ UNCHANGED thrInt
    /\ UNCHANGED <<ring, writer, thri, fifo, fifoOn, wire, recv, tty, spc, upc, fpc, budget, hist>>

\* mxser_receive_chars: with little room left in the line discipline (low)
\* reception is stopped; then the lock is dropped to push the data.
ReceiveChars(low) ==
    /\ isr.pc = "iir" /\ (isr.iir = "rx" \/ ~chip.must)
    /\ IF low
       THEN /\ budget.throttle > 0 /\ budget' = [budget EXCEPT !.throttle = @ - 1]
            /\ StopRx /\ rts' = FALSE /\ throttled' = TRUE
       ELSE UNCHANGED <<recv, uart, hist, budget>>
    /\ isr' = [isr EXCEPT !.pc = "push", !.lsr = (fifo = <<>>)]
    /\ UNCHANGED <<ring, writer, wire, tty, spc, upc, fpc>>

\* mxser_check_modem_status, for CTS: what becomes of hw_stopped, and of the
\* interrupt of a UART that does not obey CTS by itself.
CtsHw(cts) == ~cts
CtsThri(cts) == IF chip.auto \/ cts = ~hwStopped THEN thri ELSE cts
CtsInt(cts) == IF chip.auto \/ cts = ~hwStopped THEN thrInt ELSE cts /\ fifo = <<>>
CtsEvent(cts) == hwStopped /\ cts

\* External: a transmitter whose FIFO is off keeps the last byte it is given.
FifoTakes(q) == IF fifoOn THEN q ELSE <<q[Len(q)]>>

\* What mxser_transmit_chars takes out of the ring (BurstBytesNext is a
\* variant that advances xmit_tail before it reads).
Burst == Lesser(FifoSize, cnt)
BurstBytesNext == [i \in 1 .. Burst |-> xbuf[(tail + i) % XmitSize]]
BurstBytes == [i \in 1 .. Burst |-> xbuf[(tail + i - 1) % XmitSize]]

\* mxser_transmit_chars (tx), after the modem lines: the flow character goes
\* first, an empty ring only raises the event, held output disables the
\* interrupt, otherwise the FIFO is filled and a ring that has run low raises
\* the event.
TransmitChars(tx, cts) ==
    LET heldNow == stopped \/ (~cts /\ ~chip.auto)
        data == tx /\ xchar = None /\ cnt > 0 /\ ~heldNow
        quiet == tx /\ xchar = None /\ cnt > 0 /\ heldNow
        low == tx /\ xchar = None /\ (cnt = 0 \/ (data /\ cnt - Burst < WakeupChars))
    IN  /\ fifo' = IF tx /\ xchar # None THEN FifoTakes(<<xchar>>)
                   ELSE IF data THEN FifoTakes(BurstBytes) ELSE fifo
        /\ xchar' = IF tx THEN None ELSE xchar
        /\ tail' = IF data THEN (tail + Burst) % XmitSize ELSE tail
        /\ cnt' = IF data THEN cnt - Burst ELSE cnt
        /\ thri' = (CtsThri(cts) /\ ~quiet)
        /\ thrInt' = (CtsInt(cts) /\ ~quiet /\ fifo' = <<>>)
        /\ hwStopped' = CtsHw(cts)
        /\ event' = (event \/ CtsEvent(cts) \/ low)
        /\ work' = (work \/ CtsEvent(cts) \/ low)
        /\ lostInt' = (lostInt /\ ~data /\ ~(CtsInt(cts) /\ ~thrInt))

\* The rest of a pass: the modem lines, then the transmitter, on a Moxa UART
\* only when IIR named it.
IsrPass(lsr, cts) ==
    /\ TransmitChars(lsr /\ (chip.must => isr.iir = "tx"), cts)
    /\ isr' = NoIsr
    /\ UNCHANGED <<xbuf, head, accepted, writer, fifoOn, wire, rxi, rts, throttled, stopped, spc, upc, fpc, budget, torn>>

\* A pass without receive data, all under the lock.
IsrDirect(cts) == isr.pc = "iir" /\ isr.iir # "rx" /\ IsrPass(fifo = <<>>, cts)

\* A pass goes on when the data is pushed and the lock taken again.
IsrPushed(cts) == isr.pc = "push" /\ IsrPass(isr.lsr, cts)

\* External: the UART sends what its FIFO holds; when that was the last the
\* enabled transmitter interrupt is raised.
UartSend ==
    /\ fifo # <<>>
    /\ fifo' = Tail(fifo)
    /\ last' = IF fifo[1] > 0 THEN fifo[1] ELSE last
    /\ thrInt' = (thrInt \/ (thri /\ fifo' = <<>>))
    /\ UNCHANGED <<chip, ring, writer, thri, fifoOn, recv, tty, other, hist>>

-----------------------------------------------------------------------------
Writer ==
    \/ \E n \in 1 .. MaxReq : WriteBegin(n)
    \/ WriteRoom \/ WriteCopy \/ WriteAdvance
    \/ PutBegin \/ PutInsert \/ FlushChars
    \/ WriteTest \/ WriteKick \/ WriteRetry

Threads ==
    \/ FlushRing \/ FlushRead \/ FlushFifo
    \/ (\E on \in BOOLEAN : TtyFlow(on)) \/ Stop \/ Start
    \/ TtyThrottle \/ Throttle \/ SetRts
    \/ TtyUnthrottle \/ UnthrottleTest \/ UnthrottleSend \/ UnthrottleClear
    \/ SoftInt

Interrupt ==
    \/ \E src \in {"rx", "tx", "msr"} : IsrIir(src)
    \/ \E low \in BOOLEAN : ReceiveChars(low)
    \/ \E cts \in BOOLEAN : IsrDirect(cts) \/ IsrPushed(cts)

Next == Writer \/ Threads \/ Interrupt \/ UartSend

Spec == Init /\ [][Next]_vars

\* A thread that is inside a driver routine goes on, the work queue runs what
\* is queued, the UART sends, and a transmitter interrupt is not passed over
\* for ever: the handler repeats its pass until IIR names none.
FairSpec ==
    /\ Spec
    /\ WF_vars(WriteRoom \/ WriteCopy \/ WriteAdvance \/ PutInsert
               \/ WriteTest \/ WriteKick \/ WriteRetry)
    /\ WF_vars(FlushRead \/ FlushFifo)
    /\ WF_vars(Stop \/ Start)
    /\ WF_vars(Throttle \/ SetRts \/ UnthrottleTest \/ UnthrottleSend \/ UnthrottleClear)
    /\ WF_vars(SoftInt)
    /\ WF_vars(UartSend)
    /\ WF_vars(\E cts \in BOOLEAN : IsrDirect(cts) \/ IsrPushed(cts))
    /\ WF_vars(ReceiveChars(FALSE))
    /\ SF_vars(IsrIir("tx"))

-----------------------------------------------------------------------------
(* Properties. *)

\* Bytes leave in the order they were accepted, each at most once, and the
\* ring holds exactly the newest xmit_cnt of them, the distance from xmit_tail
\* to xmit_head, whatever the interleaving of mxser_write's unlocked memcpy
\* with the interrupt handler (a flush that overtakes the memcpy is the
\* exception, torn).
RingHolds ==
    /\ cnt = (head - tail + XmitSize) % XmitSize
    /\ ~torn =>
         /\ \A i \in 0 .. cnt - 1 :
                xbuf[(tail + i) % XmitSize] = accepted - cnt + 1 + i
         /\ \A i \in 1 .. Len(fifo) :
                fifo[i] > 0 => fifo[i] \in last + 1 .. accepted - cnt
         /\ \A i, j \in 1 .. Len(fifo) :
                i < j /\ fifo[i] > 0 /\ fifo[j] > 0 => fifo[i] < fifo[j]
         /\ last <= accepted - cnt

\* Somebody is about to kick the transmitter, or to look whether it must.
WillKick ==
    \/ w.pc \in {"room", "copy", "advance", "test", "putTest", "kick"}
    \/ spc # "idle" \/ isr.pc # "idle"

\* Queued bytes whose output is not held are on their way: the interrupt is
\* enabled and pending or due when the FIFO runs empty.  Testing the flags
\* outside the lock loses no restart; a flush that reads the interrupt away
\* does (lostInt).
NoStall ==
    cnt > 0 /\ ~Held => WillKick \/ lostInt \/ (thri /\ (thrInt \/ fifo # <<>>))

\* A writer that sleeps because the ring was full is woken: either the ring
\* is not below WAKEUP_CHARS yet, or the wake-up is on its way.
NoLostWakeup ==
    w.pc = "asleep" =>
        woken \/ (work /\ event) \/ fpc # "idle" \/ cnt >= WakeupChars

\* When the tty core has let the port receive again, RTS is up and a Moxa
\* UART has its receive interrupts back, also when the handler stopped
\* reception in the middle of mxser_startrx.
ReceiverReleased == ~throttled /\ upc = "idle" => rts /\ rxi

\* With the output not held for good, queued bytes leave the ring.
DataMoves ==
    <>[](~stopped /\ ~hwStopped) => [](cnt > 0 => <>(cnt = 0 \/ lostInt))

=============================================================================
