---------------------------- MODULE MxupcieXmit ----------------------------
(***************************************************************************)
(* The data path of the PCI Express driver                                 *)
(* (src/modules/mxser/mxupcie.c).  The ring and its lock are mxser's; the  *)
(* handler moves a block into a UART FIFO that is memory, the UART obeys   *)
(* CTS and XOFF by itself, and on an RS-485 line the driver makes a break  *)
(* out of a divisor of 0 and a byte that is never sent.  A section under   *)
(* info->slock is one step; what the code does outside it is a step of its *)
(* own.                                                                    *)
(*                                                                         *)
(* A byte is the number of its turn, the byte of a break is 0.  CRTSCTS is *)
(* set.                                                                    *)
(***************************************************************************)
EXTENDS Integers, Sequences

CONSTANTS
    XmitSize,     \* SERIAL_XMIT_SIZE, 4096 in the driver
    FifoSize,     \* MX_TX_FIFO_SIZE, 128 in the driver
    WakeupChars,  \* WAKEUP_CHARS, 256 in the driver
    MaxReq,       \* bound: bytes one write asks for
    MaxBytes,     \* bound: bytes accepted in a behaviour
    Budgets       \* bound: how often each disturbance happens; a behaviour
                  \* has one of these records

Disturbances == {"stop", "cts", "flush", "break", "settings", "throttle"}

ASSUME PciAssumption ==
    /\ XmitSize \in Nat /\ XmitSize >= 2
    /\ FifoSize \in Nat \ {0} /\ WakeupChars \in 1 .. XmitSize - 1
    /\ MaxReq \in Nat \ {0} /\ MaxBytes \in Nat
    /\ Budgets \subseteq [Disturbances -> Nat]

VARIABLES
    xbuf, head, tail, cnt,   \* xmit_buf, xmit_head, xmit_tail, xmit_cnt
    accepted,   \* bytes accepted so far
    w, woken,   \* the writer; a wake-up reached it since it looked
    uart,       \* its registers: thri and rdi (IER), int (the latched
                \* transmitter interrupt), on (FCR's enable bit), runs (the
                \* divisor is not 0), force (SFR's FORCE_TX), sbc (LCR's break
                \* bit)
    fifo,       \* the UART's transmit FIFO
    cts, last,  \* the CTS line, the last byte sent
    tty,        \* stopped, hwStopped, throttled
    uir,        \* info->UIR: the interface
    rate,       \* info->speed is one that mx_set_baud writes a divisor for
    work,       \* MXUPCIE_EVENT_TXLOW is set and the work item queued
    pc,         \* where the other threads are: in stop or start (flow), in
                \* throttle or unthrottle (recv), flush_buffer, a break
    isr,        \* the interrupt the handler has read from IIR, or "none"
    budget,     \* what is left of the behaviour's budget
    hist        \* what a flush or a break destroyed: data, the interrupt;
                \* the interface was changed during a break

data == <<xbuf, head, tail, cnt, accepted>>
chip == <<uart, fifo>>
writer == <<w, woken>>
line == <<cts, last>>
vars == <<data, writer, chip, line, tty, uir, rate, work, pc, isr, budget, hist>>

Slots == 0 .. XmitSize - 1
Lesser(a, b) == IF a < b THEN a ELSE b
Idle == [pc |-> "idle", rem |-> 0, c |-> 0, got |-> FALSE]
Spend(d) == budget[d] > 0 /\ budget' = [budget EXCEPT ![d] = @ - 1]

Init ==
    /\ xbuf = [s \in Slots |-> 0] /\ head = 0 /\ tail = 0 /\ cnt = 0 /\ accepted = 0
    /\ w = Idle /\ woken = FALSE
    /\ uart = [thri |-> FALSE, rdi |-> TRUE, int |-> FALSE, on |-> TRUE, runs |-> TRUE,
               force |-> FALSE, sbc |-> FALSE]
    /\ fifo = <<>>
    /\ cts = TRUE /\ last = 0
    /\ tty = [stopped |-> FALSE, hwStopped |-> FALSE, throttled |-> FALSE]
    /\ uir \in {"RS232", "RS485"} /\ rate = TRUE /\ work = FALSE
    /\ pc = [flow |-> "idle", recv |-> "idle", flush |-> "idle", brk |-> "idle"]
    /\ isr = "none" /\ budget \in Budgets
    /\ hist = [data |-> FALSE, int |-> FALSE, switched |-> FALSE]

-----------------------------------------------------------------------------
(* The writer. *)

\* IER is written without and then with UART_IER_THRI: an empty transmitter
\* raises its interrupt again.
Kick ==
    /\ uart' = [uart EXCEPT !.thri = TRUE, !.int = (fifo = <<>>)]
    /\ hist' = [hist EXCEPT !.int = FALSE]
    /\ UNCHANGED fifo

WriteBegin(n) ==
    /\ w.pc = "idle" /\ accepted + n <= MaxBytes
    /\ w' = [Idle EXCEPT !.pc = "room", !.rem = n] /\ woken' = FALSE
    /\ UNCHANGED <<data, chip, line, tty, uir, rate, work, pc, isr, budget, hist>>

\* The size of the next chunk, computed outside the lock: what is left to
\* write, the room, and the way to the end of the ring.
WriteChunk == Lesser(w.rem, Lesser(XmitSize - cnt - 1, XmitSize - head))

WriteRoom ==
    /\ w.pc = "room"
    /\ w' = IF WriteChunk <= 0 THEN [w EXCEPT !.pc = "test"]
            ELSE [w EXCEPT !.pc = "copy", !.c = WriteChunk]
    /\ UNCHANGED <<data, woken, chip, line, tty, uir, rate, work, pc, isr, budget, hist>>

\* memcpy, outside the lock, to where xmit_head points by now; a flush may
\* have reset it since.
WriteCopy ==
    /\ w.pc = "copy"
    /\ xbuf' = [s \in Slots |-> IF s - head \in 0 .. w.c - 1
                                THEN accepted + 1 + s - head ELSE xbuf[s]]
    /\ w' = [w EXCEPT !.pc = "advance"]
    /\ UNCHANGED <<head, tail, cnt, accepted, woken, chip, line, tty, uir, rate, work, pc, isr,
                   budget, hist>>

WriteAdvance ==
    /\ w.pc = "advance"
    /\ head' = (head + w.c) % XmitSize /\ cnt' = cnt + w.c
    /\ accepted' = accepted + w.c
    /\ w' = [w EXCEPT !.pc = "room", !.rem = @ - w.c, !.c = 0, !.got = TRUE]
    /\ UNCHANGED <<xbuf, tail, woken, chip, line, tty, uir, rate, work, pc, isr, budget, hist>>

\* External: what the line discipline does with a short write.  A call that
\* took something is repeated, one that took nothing puts the caller to sleep.
WriteReturns ==
    IF w.rem = 0 THEN Idle
    ELSE IF w.got THEN [w EXCEPT !.pc = "room", !.got = FALSE]
    ELSE [w EXCEPT !.pc = "asleep"]

\* mxupcie_write tests tty->stopped alone, outside the lock ...
WriteTest ==
    /\ w.pc = "test"
    /\ w' = IF cnt > 0 /\ ~tty.stopped THEN [w EXCEPT !.pc = "kick"]
            ELSE WriteReturns
    /\ UNCHANGED <<data, woken, chip, line, tty, uir, rate, work, pc, isr, budget, hist>>

\* ... and toggles the interrupt inside it.
WriteKick ==
    /\ w.pc = "kick"
    /\ Kick /\ w' = WriteReturns
    /\ UNCHANGED <<data, woken, line, tty, uir, rate, work, pc, isr, budget>>

\* External: the sleeping writer was woken and tries again.
WriteRetry ==
    /\ w.pc = "asleep" /\ woken
    /\ w' = [w EXCEPT !.pc = "room"] /\ woken' = FALSE
    /\ UNCHANGED <<data, chip, line, tty, uir, rate, work, pc, isr, budget, hist>>

\* mxupcie_put_char: the room is tested outside the lock, the byte stored and
\* counted inside it ...
PutBegin ==
    /\ w.pc = "idle" /\ accepted < MaxBytes /\ cnt < XmitSize - 1
    /\ w' = [Idle EXCEPT !.pc = "put"]
    /\ UNCHANGED <<data, woken, chip, line, tty, uir, rate, work, pc, isr, budget, hist>>

PutInsert ==
    /\ w.pc = "put"
    /\ xbuf' = [xbuf EXCEPT ![head] = accepted + 1]
    /\ head' = (head + 1) % XmitSize /\ cnt' = cnt + 1
    /\ accepted' = accepted + 1
    /\ w' = [w EXCEPT !.pc = "putTest"]
    /\ UNCHANGED <<tail, woken, chip, line, tty, uir, rate, work, pc, isr, budget, hist>>

\* ... and the interrupt is toggled if neither flag holds the output.
PutTest ==
    /\ w.pc = "putTest"
    /\ w' = [w EXCEPT !.pc = IF tty.stopped \/ tty.hwStopped THEN "flush" ELSE "putKick"]
    /\ UNCHANGED <<data, woken, chip, line, tty, uir, rate, work, pc, isr, budget, hist>>

PutKick ==
    /\ w.pc = "putKick"
    /\ Kick /\ w' = [w EXCEPT !.pc = "flush"]
    /\ UNCHANGED <<data, woken, line, tty, uir, rate, work, pc, isr, budget>>

\* Variant: the output is thought to be held by CTS as well.
FlushCharsHeld ==
    /\ w.pc = "flush"
    /\ w' = IF cnt > 0 /\ ~tty.stopped /\ ~tty.hwStopped
            THEN [w EXCEPT !.pc = "kick"] ELSE Idle
    /\ UNCHANGED <<data, woken, chip, line, tty, uir, rate, work, pc, isr, budget, hist>>

\* mxupcie_flush_chars, which the line discipline calls after its put_chars:
\* it does not look at hw_stopped.
FlushChars ==
    /\ w.pc = "flush"
    /\ w' = IF cnt > 0 /\ ~tty.stopped THEN [w EXCEPT !.pc = "kick"] ELSE Idle
    /\ UNCHANGED <<data, woken, chip, line, tty, uir, rate, work, pc, isr, budget, hist>>

-----------------------------------------------------------------------------
(* Other threads of the tty core. *)

At(thread, label) == pc[thread] = label
Goto(thread, label) == pc' = [pc EXCEPT ![thread] = label]

\* mxupcie_flush_buffer resets the ring under the lock; bytes a write has
\* copied and not counted yet are no longer where the ring expects them ...
FlushRing ==
    /\ At("flush", "idle") /\ Goto("flush", "read") /\ Spend("flush")
    /\ head' = 0 /\ tail' = 0 /\ cnt' = 0
    /\ hist' = [hist EXCEPT !.data = TRUE]
    /\ UNCHANGED <<xbuf, accepted, writer, chip, line, tty, uir, rate, work, isr>>

\* ... reads, outside the lock, UART_FCR: what comes back is the interrupt
\* identification.  A pending transmitter interrupt is taken away by it, another
\* one (received data, the lines) that is reported instead is not ...
FlushRead ==
    /\ At("flush", "read")
    /\ \/ ~uart.int /\ Goto("flush", "clearOn") /\ UNCHANGED <<uart, hist>>
       \/ /\ uart.int /\ Goto("flush", "clearOff")
          /\ uart' = [uart EXCEPT !.int = FALSE] /\ hist' = [hist EXCEPT !.int = TRUE]
       \/ Goto("flush", "clearOff") /\ UNCHANGED <<uart, hist>>
    /\ UNCHANGED <<data, writer, fifo, line, tty, uir, rate, work, isr, budget>>

\* External: FCR is written, the FIFO emptied.  An enabled transmitter
\* interrupt is raised when bytes were in it.
Cleared(on) ==
    /\ uart' = [uart EXCEPT !.on = on, !.int = @ \/ (uart.thri /\ fifo # <<>>)]
    /\ fifo' = <<>>
    /\ hist' = [hist EXCEPT !.data = TRUE, !.int = @ /\ fifo = <<>>]

\* Variant: the writer is not woken.
FlushFifoSilent ==
    /\ pc.flush \in {"clearOn", "clearOff"} /\ Goto("flush", "idle")
    /\ Cleared(At("flush", "clearOn"))
    /\ UNCHANGED <<data, writer, line, tty, uir, rate, work, isr, budget>>

\* ... clears the FIFOs with it, writes it back, its bit 0 ("no interrupt
\* pending") as the FIFO enable bit, and wakes the writer.
FlushFifo ==
    /\ pc.flush \in {"clearOn", "clearOff"} /\ Goto("flush", "idle")
    /\ Cleared(At("flush", "clearOn"))
    /\ woken' = TRUE
    /\ UNCHANGED <<data, w, line, tty, uir, rate, work, isr, budget>>

\* External: the tty core sets or clears tty->stopped and then calls
\* mxupcie_stop or mxupcie_start; mxupcie_set_termios clears it the same way
\* when IXON is switched off.
TtyFlow(on) ==
    /\ At("flow", "idle") /\ tty.stopped # on
    /\ Goto("flow", IF on THEN "stop" ELSE "start")
    /\ IF on THEN Spend("stop") ELSE UNCHANGED budget
    /\ tty' = [tty EXCEPT !.stopped = on]
    /\ UNCHANGED <<data, writer, chip, line, uir, rate, work, isr, hist>>

Stop ==
    /\ At("flow", "stop") /\ Goto("flow", "idle")
    /\ uart' = [uart EXCEPT !.thri = FALSE, !.int = FALSE]
    /\ UNCHANGED <<data, writer, fifo, line, tty, uir, rate, work, isr, budget, hist>>

Start ==
    /\ At("flow", "start") /\ Goto("flow", "idle")
    /\ IF cnt > 0 THEN Kick ELSE UNCHANGED <<chip, hist>>
    /\ UNCHANGED <<data, writer, line, tty, uir, rate, work, isr, budget>>

\* External: the tty core sets or clears TTY_THROTTLED and calls
\* mxupcie_throttle or mxupcie_unthrottle ...
TtyThrottle(on) ==
    /\ At("recv", "idle") /\ tty.throttled # on
    /\ Goto("recv", IF on THEN "stoprx" ELSE "startrx")
    /\ IF on THEN Spend("throttle") ELSE UNCHANGED budget
    /\ tty' = [tty EXCEPT !.throttled = on]
    /\ UNCHANGED <<data, writer, chip, line, uir, rate, work, isr, hist>>

\* ... which are mx_stoprx and mx_startrx.
StopRx ==
    /\ At("recv", "stoprx") /\ Goto("recv", "idle")
    /\ uart' = [uart EXCEPT !.rdi = FALSE]
    /\ UNCHANGED <<data, writer, fifo, line, tty, uir, rate, work, isr, budget, hist>>

StartRx ==
    /\ At("recv", "startrx") /\ Goto("recv", "idle")
    /\ uart' = [uart EXCEPT !.rdi = TRUE]
    /\ UNCHANGED <<data, writer, fifo, line, tty, uir, rate, work, isr, budget, hist>>

\* mx_do_softint: the event bit is taken and the writer woken.
SoftInt ==
    /\ work /\ work' = FALSE
    /\ woken' = TRUE
    /\ UNCHANGED <<data, w, chip, line, tty, uir, rate, pc, isr, budget, hist>>

\* mx_set_baud: the divisor after it.  None is written for B0 or for a rate above
\* the UART's.
SetBaud(canSet) == uart.runs \/ canSet

\* mx_software_break_signal.  ON: the divisor becomes 0, a byte is put into the
\* FIFO, the transmitter forced on and the break bit set.  OFF: the FIFO is
\* cleared with a value of FCR that disables it, and mx_set_baud called with
\* info->speed.
SignalOn ==
    /\ uart' = [uart EXCEPT !.sbc = TRUE, !.force = TRUE, !.runs = FALSE, !.int = FALSE]
    /\ fifo' = IF Len(fifo) < FifoSize THEN Append(fifo, 0) ELSE fifo
SignalOff(runs) ==
    /\ uart' = [uart EXCEPT !.sbc = FALSE, !.force = FALSE, !.runs = runs, !.on = FALSE,
                            !.int = @ \/ (uart.thri /\ fifo # <<>>)]
    /\ fifo' = <<>>
    /\ hist' = [hist EXCEPT !.data = TRUE, !.int = @ /\ fifo = <<>>]

\* mx_send_break, and mxupcie_rs_break(-1).
BreakOn ==
    /\ At("brk", "idle") /\ Goto("brk", "on") /\ Spend("break")
    /\ IF uir = "RS232" THEN uart' = [uart EXCEPT !.sbc = TRUE] /\ UNCHANGED fifo
       ELSE SignalOn
    /\ UNCHANGED <<data, writer, line, tty, uir, rate, work, isr, hist>>

\* Variant: the divisor is left for the next change of the settings.
BreakOffStill ==
    /\ At("brk", "on") /\ Goto("brk", "idle")
    /\ IF uir = "RS232"
       THEN uart' = [uart EXCEPT !.sbc = FALSE] /\ UNCHANGED <<fifo, hist>>
       ELSE SignalOff(uart.runs)
    /\ UNCHANGED <<data, writer, line, tty, uir, rate, work, isr, budget>>

\* The end of it, after the interface was looked up again.
BreakOff ==
    /\ At("brk", "on") /\ Goto("brk", "idle")
    /\ IF uir = "RS232"
       THEN uart' = [uart EXCEPT !.sbc = FALSE] /\ UNCHANGED <<fifo, hist>>
       ELSE SignalOff(SetBaud(rate))
    /\ UNCHANGED <<data, writer, line, tty, uir, rate, work, isr, budget>>

\* MOXA_SET_INTERFACE, in mx_set_interface: info->UIR changes, under no lock.
SetInterface ==
    /\ Spend("settings")
    /\ uir' = IF uir = "RS232" THEN "RS485" ELSE "RS232"
    /\ hist' = [hist EXCEPT !.switched = @ \/ At("brk", "on")]
    /\ UNCHANGED <<data, writer, chip, line, tty, rate, work, pc, isr>>

\* mx_change_speed, as far as the transmitter goes: info->speed, the divisor,
\* then FCR with the FIFO enabled, then LCR without the break bit.  External: a
\* FIFO that is switched on is empty.
ChangeSpeed(newRate) ==
    /\ Spend("settings") /\ rate' = newRate
    /\ uart' = [uart EXCEPT !.runs = SetBaud(newRate), !.on = TRUE, !.sbc = FALSE,
                            !.int = @ \/ (uart.thri /\ ~uart.on /\ fifo # <<>>)]
    /\ fifo' = IF uart.on THEN fifo ELSE <<>>
    /\ UNCHANGED <<data, writer, line, tty, uir, work, pc, isr, hist>>

-----------------------------------------------------------------------------
(* The interrupt handler and the UART. *)

\* mx_interrupt reads IIR before it takes the lock; the read clears the
\* transmitter's interrupt.
IsrIir(src) ==
    /\ isr = "none" /\ isr' = src
    /\ src = "tx" => uart.int
    /\ src = "rx" => uart.rdi
    /\ uart' = IF src = "tx" THEN [uart EXCEPT !.int = FALSE] ELSE uart
    /\ UNCHANGED <<data, writer, fifo, line, tty, uir, rate, work, pc, budget, hist>>

\* What mx_transmit_chars moves: what is there, what the FIFO takes, and not
\* past the end of the ring (BurstLong forgets the end).
BurstLong == Lesser(cnt, FifoSize - Len(fifo))
Burst == Lesser(cnt, Lesser(FifoSize - Len(fifo), XmitSize - tail))

\* The block copy reads the memory behind the ring's last slot as 0.
BurstBytes == [i \in 1 .. Burst |->
                  IF tail + i - 1 \in Slots THEN xbuf[tail + i - 1] ELSE 0]

\* External: a transmitter whose FIFO is off keeps the last byte it is given.
FifoTakes(q) == IF uart.on \/ q = <<>> THEN fifo \o q ELSE <<q[Len(q)]>>

\* mx_transmit_chars, if it is called: stopped output disables the interrupt,
\* otherwise a block is moved.
Moves(called) == called /\ cnt > 0 /\ ~tty.stopped
TransmitChars(called) ==
    LET holds == called /\ cnt > 0 /\ tty.stopped
    IN  IF Moves(called)
        THEN /\ tail' = (tail + Burst) % XmitSize /\ cnt' = cnt - Burst
             /\ fifo' = FifoTakes(BurstBytes) /\ uart' = [uart EXCEPT !.int = FALSE]
             /\ hist' = [hist EXCEPT !.int = FALSE]
        ELSE /\ uart' = [uart EXCEPT !.thri = @ /\ ~holds, !.int = @ /\ ~holds]
             /\ UNCHANGED <<tail, cnt, fifo, hist>>

\* A ring that is empty or has run low raises the event.
RunsLow(called) ==
    called /\ (cnt = 0 \/ (Moves(called) /\ cnt - Burst < WakeupChars))

\* mx_receive_chars without room in the line discipline (full) sets
\* TTY_THROTTLED and reads nothing.
ReceiveChars(full) ==
    /\ full => isr \in {"rx", "rls"} /\ budget["throttle"] > 0
    /\ budget' = IF full THEN [budget EXCEPT !["throttle"] = @ - 1] ELSE budget

\* mx_check_modem_status: hw_stopped follows CTS, a release raises the event.
Released == tty.hwStopped /\ cts
CheckModemStatus(full) == tty' = [tty EXCEPT !.hwStopped = ~cts, !.throttled = @ \/ full]

\* A pass under the lock: received data, the modem lines, then, for a
\* transmitter or a line status interrupt with an empty FIFO, the transmitter.
IsrPass(full) ==
    LET called == isr \in {"tx", "rls"} /\ fifo = <<>>
    IN  /\ isr # "none" /\ isr' = "none"
        /\ ReceiveChars(full) /\ CheckModemStatus(full) /\ TransmitChars(called)
        /\ work' = (work \/ Released \/ RunsLow(called))
        /\ UNCHANGED <<xbuf, head, accepted, writer, line, uir, rate, pc>>

\* External: the other side raises or drops CTS.
Cts ==
    /\ cts' = ~cts
    /\ IF cts THEN Spend("cts") ELSE UNCHANGED budget
    /\ UNCHANGED <<data, writer, chip, last, tty, uir, rate, work, pc, isr, hist>>

\* External: the UART sends while its divisor is not 0 and CTS is up; when that
\* was the last byte the enabled transmitter interrupt is raised.
UartSend ==
    /\ fifo # <<>> /\ uart.runs /\ cts
    /\ fifo' = Tail(fifo)
    /\ uart' = [uart EXCEPT !.int = @ \/ (uart.thri /\ Len(fifo) = 1)]
    /\ last' = IF fifo[1] > 0 THEN fifo[1] ELSE last
    /\ UNCHANGED <<data, writer, cts, tty, uir, rate, work, pc, isr, budget, hist>>

-----------------------------------------------------------------------------
WriterGoesOn ==
    \/ WriteRoom \/ WriteCopy \/ WriteAdvance \/ WriteTest \/ WriteKick \/ WriteRetry
    \/ PutInsert \/ PutTest \/ PutKick \/ FlushChars

Next ==
    \/ (\E n \in 1 .. MaxReq : WriteBegin(n)) \/ PutBegin \/ WriterGoesOn
    \/ FlushRing \/ FlushRead \/ FlushFifo
    \/ (\E on \in BOOLEAN : TtyFlow(on) \/ TtyThrottle(on))
    \/ Stop \/ Start \/ StopRx \/ StartRx \/ SoftInt
    \/ BreakOn \/ BreakOff \/ SetInterface
    \/ (\E newRate \in BOOLEAN : ChangeSpeed(newRate))
    \/ (\E src \in {"rx", "tx", "rls", "msr"} : IsrIir(src))
    \/ (\E full \in BOOLEAN : IsrPass(full))
    \/ Cts \/ UartSend

Spec == Init /\ [][Next]_vars

-----------------------------------------------------------------------------
(* Properties. *)

\* The FIFO holds the n bytes that follow the last one sent, then those of
\* breaks.
FifoContinues(n) ==
    \A i \in 1 .. Len(fifo) : fifo[i] = IF i <= n THEN last + i ELSE 0

\* Until a flush or a break destroys some, the bytes leave in the order they
\* were accepted, each exactly once: those in the FIFO continue those sent,
\* those in the ring continue those in the FIFO, and the ring ends with the
\* newest, whatever the interleaving of mxupcie_write's unlocked memcpy with
\* the handler's block copies, also around the end of the ring.
BytesInOrder ==
    /\ cnt = (head - tail + XmitSize) % XmitSize
    /\ ~hist.data =>
         /\ \E n \in 0 .. Len(fifo) :
                FifoContinues(n) /\ last + n + cnt = accepted
         /\ \A i \in 0 .. cnt - 1 :
                xbuf[(tail + i) % XmitSize] = accepted - cnt + 1 + i

\* Somebody is about to toggle the interrupt, or to look whether it must.
WillKick ==
    \/ w.pc \in {"room", "copy", "advance", "test", "kick", "put", "putTest", "putKick", "flush"}
    \/ pc.flow # "idle" \/ isr # "none"

\* Queued bytes that are not stopped are on their way: the interrupt is enabled
\* and pending, or due when the FIFO runs empty.  No restart is lost although
\* the flags are tested outside the lock, and although nobody toggles the
\* interrupt when CTS comes back, because mxupcie_flush_chars does not look at
\* hw_stopped.  A flush that reads the interrupt away is the exception.
NoStall ==
    cnt > 0 /\ ~tty.stopped =>
        WillKick \/ hist.int \/ (uart.thri /\ (uart.int \/ fifo # <<>>))

\* A writer that sleeps because the ring was full is woken: either the ring
\* is not below WAKEUP_CHARS yet, or the wake-up is on its way.
NoLostWakeup ==
    w.pc = "asleep" =>
        woken \/ work \/ pc.flush # "idle" \/ cnt >= WakeupChars

\* A break leaves nothing behind: when none is under way the transmitter is not
\* forced on, the break bit is off, and the divisor is not 0 if info->speed is a
\* rate that can be set, also when the settings were changed meanwhile.  With B0
\* or a custom rate above the maximum mx_set_baud returns before it writes the
\* divisor, and an RS-485 break leaves it at 0 until a rate is set;
\* mx_software_break_signal undoes what was done for another interface only if
\* MOXA_SET_INTERFACE did not come between.
BreakEnds ==
    At("brk", "idle") /\ ~hist.switched =>
        ~uart.force /\ ~uart.sbc /\ (rate => uart.runs)

=============================================================================
