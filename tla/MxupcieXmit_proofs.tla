------------------------- MODULE MxupcieXmit_proofs -------------------------
(***************************************************************************)
(* Machine-checked facts about the data path of mxupcie, for every size of *)
(* the ring and of the FIFO, and any number of bytes, stops, throttles,    *)
(* flushes, breaks and changes of the settings.                            *)
(***************************************************************************)
EXTENDS MxupcieXmit, SequenceTheorems, TLAPS

USE DEF SetBaud

-----------------------------------------------------------------------------
(* Types. *)

WriterPcs == {"idle", "room", "copy", "advance", "test", "kick", "asleep",
              "put", "putTest", "putKick", "flush"}

RingType ==
    /\ xbuf \in [Slots -> Nat] /\ head \in Slots /\ tail \in Slots
    /\ cnt \in Slots /\ accepted \in Nat

WriterType ==
    /\ w \in [pc : WriterPcs, rem : Nat, c : Nat, got : BOOLEAN]
    /\ woken \in BOOLEAN

\* The steps of mxupcie_write, mxupcie_put_char and mxupcie_flush_chars.
Writes == (\E n \in 1 .. MaxReq : WriteBegin(n)) \/ PutBegin \/ WriterGoesOn

-----------------------------------------------------------------------------
(* The sizes: how much the ring holds, how much a write may still put. *)

\* An index into the ring, & (SERIAL_XMIT_SIZE - 1) in the code.
Round(x) == x % XmitSize

\* The remainder of an index that has passed the end of the ring at most once.
LEMMA OnceRound ==
    \A x \in Int : 0 <= x /\ x < 2 * XmitSize =>
        /\ x < XmitSize => Round(x) = x
        /\ x >= XmitSize => Round(x) = x - XmitSize
        /\ Round(x) \in Slots
<1> SUFFICES ASSUME NEW x \in Int, 0 <= x, x < 2 * XmitSize
    PROVE  /\ x < XmitSize => Round(x) = x
           /\ x >= XmitSize => Round(x) = x - XmitSize
           /\ Round(x) \in Slots
  OBVIOUS
<1>0. XmitSize \in Nat /\ XmitSize >= 2
  BY PciAssumption
<1>1. CASE x < XmitSize
  BY <1>0, <1>1 DEF Round, Slots
<1>2. CASE x >= XmitSize
  <2>1. x - XmitSize \in 0 .. XmitSize - 1
    BY <1>0, <1>2
  <2>2. x % XmitSize = (x - XmitSize) % XmitSize
    BY <1>0, <1>2
  <2> QED
    BY <1>0, <1>2, <2>1, <2>2 DEF Round, Slots
<1> QED
  BY <1>1, <1>2, <1>0

\* The ring's counters as integers.
LEMMA RingInts ==
    ASSUME RingType
    PROVE  /\ XmitSize \in Int /\ XmitSize >= 2
           /\ head \in Int /\ 0 <= head /\ head < XmitSize
           /\ tail \in Int /\ 0 <= tail /\ tail < XmitSize
           /\ cnt \in Int /\ 0 <= cnt /\ cnt < XmitSize
           /\ accepted \in Int /\ 0 <= accepted
  BY PciAssumption DEF RingType, Slots

\* xmit_cnt is the distance from xmit_tail to xmit_head.
Distance == head = tail + cnt \/ head = tail + cnt - XmitSize

\* A chunk that mxupcie_write or mxupcie_put_char has found room for still fits
\* when it is copied and counted: the handler only makes room, a flush all of
\* it.
RoomInv ==
    /\ w.pc \in {"copy", "advance"} =>
           w.c > 0 /\ w.c <= w.rem /\ w.c <= XmitSize - 1 - cnt /\ w.c <= XmitSize - head
    /\ w.pc \notin {"copy", "advance"} => w.c = 0
    /\ w.pc = "put" => cnt < XmitSize - 1
    /\ w.pc \in {"idle", "put", "putTest", "putKick", "flush"} => w.rem = 0 /\ ~w.got

SizeInv == RingType /\ WriterType /\ Distance /\ RoomInv

\* The empty ring.
LEMMA SizeInit == Init => SizeInv
<1> SUFFICES ASSUME Init PROVE SizeInv
  OBVIOUS
<1>1. RingType
  BY PciAssumption DEF Init, RingType, Slots
<1>2. WriterType
  BY DEF Init, WriterType, WriterPcs, Idle
<1>3. Distance /\ RoomInv
  BY PciAssumption DEF Init, Distance, RoomInv, Idle
<1> QED
  BY <1>1, <1>2, <1>3 DEF SizeInv

\* The writer puts no more than fits.
LEMMA SizeWriter == SizeInv /\ Writes => SizeInv'
<1> SUFFICES ASSUME SizeInv, Writes PROVE SizeInv'
  OBVIOUS
<1>0. /\ XmitSize \in Int /\ XmitSize >= 2
      /\ head \in Int /\ 0 <= head /\ head < XmitSize
      /\ tail \in Int /\ 0 <= tail /\ tail < XmitSize
      /\ cnt \in Int /\ 0 <= cnt /\ cnt < XmitSize
      /\ accepted \in Int /\ 0 <= accepted
      /\ Slots = 0 .. XmitSize - 1 /\ xbuf \in [Slots -> Nat]
  BY RingInts DEF SizeInv, RingType, Slots
<1> USE DEF SizeInv, WriterType, RoomInv, WriterPcs
<1>1. ASSUME NEW n \in 1 .. MaxReq, WriteBegin(n) PROVE SizeInv'
  <2>1. /\ w' = [pc |-> "room", rem |-> n, c |-> 0, got |-> FALSE]
        /\ woken' = FALSE
    BY <1>1 DEF WriteBegin, Idle
  <2>2. RingType' /\ Distance'
    BY <1>1 DEF WriteBegin, RingType, Distance, data
  <2>3. n \in Nat
    BY PciAssumption
  <2> QED
    BY <2>1, <2>2, <2>3
<1>2. CASE WriteRoom
  <2>1. RingType' /\ Distance' /\ UNCHANGED <<cnt, head, woken>>
    BY <1>2 DEF WriteRoom, RingType, Distance, data
  <2>3. /\ WriteChunk \in Nat /\ WriteChunk <= w.rem
        /\ WriteChunk <= XmitSize - 1 - cnt /\ WriteChunk <= XmitSize - head
    BY <1>0 DEF WriteChunk, Lesser
  <2>4. \/ w' = [w EXCEPT !.pc = "test"]
        \/ w' = [w EXCEPT !.pc = "copy", !.c = WriteChunk] /\ WriteChunk > 0
    BY <1>2, <2>3 DEF WriteRoom
  <2>5. w.pc = "room"
    BY <1>2 DEF WriteRoom
  <2> HIDE DEF WriteChunk
  <2> QED
    BY <1>0, <2>1, <2>3, <2>4, <2>5
<1>3. CASE WriteCopy
  <2>1. w.pc = "copy" /\ w' = [w EXCEPT !.pc = "advance"]
        /\ UNCHANGED <<head, tail, cnt, accepted, woken>>
    BY <1>3 DEF WriteCopy
  <2>2. ASSUME NEW s \in Slots, s - head \in 0 .. w.c - 1
        PROVE  accepted + 1 + s - head \in Nat
    BY <1>0, <2>2
  <2>3. xbuf' \in [Slots -> Nat]
    BY <1>0, <1>3, <2>2 DEF WriteCopy
  <2>4. RingType' /\ Distance'
    BY <2>1, <2>3 DEF RingType, Distance
  <2> QED
    BY <2>1, <2>4
<1>4. CASE WriteAdvance
  <2>1. PICK k \in Nat : k = w.c
    OBVIOUS
  <2>2. /\ w.pc = "advance" /\ woken' = woken
        /\ w' = [w EXCEPT !.pc = "room", !.rem = w.rem - w.c, !.c = 0, !.got = TRUE]
    BY <1>4 DEF WriteAdvance
  <2>3. /\ head' = Round(head + k) /\ cnt' = cnt + k
        /\ accepted' = accepted + k /\ xbuf' = xbuf /\ tail' = tail
    BY <1>4, <2>1 DEF WriteAdvance, Round
  <2>4. /\ k > 0 /\ k <= XmitSize - head /\ k <= XmitSize - 1 - cnt
        /\ w.rem - w.c \in Nat /\ Distance
    BY <1>0, <2>1, <2>2
  <2>5. RingType' /\ Distance'
    <3> HIDE DEF SizeInv
    <3>1. head + k \in Int /\ 0 <= head + k /\ head + k < 2 * XmitSize
      BY <1>0, <2>4
    <3>2. /\ head + k < XmitSize => Round(head + k) = head + k
          /\ head + k >= XmitSize => Round(head + k) = head + k - XmitSize
      BY <1>0, <3>1, OnceRound
    <3>3. \/ head' = head + k /\ head + k < XmitSize
          \/ head' = 0 /\ head + k = XmitSize
      BY <1>0, <2>3, <2>4, <3>1, <3>2
    <3>4. head' \in Int /\ 0 <= head' /\ head' < XmitSize
      BY <1>0, <2>4, <3>3
    <3>5. cnt' \in Int /\ 0 <= cnt' /\ cnt' < XmitSize
      BY <1>0, <2>3, <2>4
    <3>6. accepted' \in Nat
      BY <1>0, <2>3
    <3>7. RingType'
      BY <1>0, <2>3, <3>4, <3>5, <3>6 DEF RingType
    <3>8. Distance'
      BY <1>0, <2>3, <2>4, <3>3 DEF Distance
    <3> QED
      BY <3>7, <3>8
  <2> QED
    BY <2>2, <2>4, <2>5
<1>5. CASE PutBegin
  BY <1>0, <1>5 DEF PutBegin, Idle, RingType, Distance, data
<1>6. CASE PutInsert
  <2>1. /\ w.pc = "put" /\ w' = [w EXCEPT !.pc = "putTest"]
        /\ xbuf' = [xbuf EXCEPT ![head] = accepted + 1]
        /\ head' = Round(head + 1) /\ cnt' = cnt + 1
        /\ accepted' = accepted + 1 /\ UNCHANGED <<tail, woken>>
    BY <1>6 DEF PutInsert, Round
  <2>2. \/ head' = head + 1 /\ head + 1 < XmitSize
        \/ head' = 0 /\ head + 1 = XmitSize
    <3>1. head + 1 \in Int /\ 0 <= head + 1 /\ head + 1 < 2 * XmitSize
      BY <1>0
    <3>2. /\ head + 1 < XmitSize => Round(head + 1) = head + 1
          /\ head + 1 >= XmitSize => Round(head + 1) = head + 1 - XmitSize
      BY <1>0, <3>1, OnceRound
    <3>3. CASE head + 1 < XmitSize
      BY <1>0, <2>1, <3>1, <3>2, <3>3
    <3>4. CASE head + 1 >= XmitSize
      BY <1>0, <2>1, <3>2, <3>4
    <3> QED
      BY <1>0, <3>3, <3>4
  <2>3. RingType'
    <3>1. /\ head' \in Int /\ 0 <= head' /\ head' < XmitSize
          /\ cnt' \in Int /\ 0 <= cnt' /\ cnt' < XmitSize
          /\ accepted' \in Nat
      BY <1>0, <2>1, <2>2
    <3>2. xbuf' \in [Slots -> Nat]
      BY <1>0, <2>1
    <3> QED
      BY <1>0, <2>1, <3>1, <3>2 DEF RingType
  <2>4. Distance'
    <3>1. head = tail + cnt \/ head = tail + cnt - XmitSize
      BY DEF Distance
    <3> HIDE DEF SizeInv
    <3>2. cnt' = cnt + 1 /\ tail' = tail
      BY <2>1
    <3>3. head' = tail' + cnt' \/ head' = tail' + cnt' - XmitSize
      BY <1>0, <2>2, <3>1, <3>2
    <3> QED
      BY <3>3 DEF Distance
  <2> QED
    BY <2>1, <2>3, <2>4
<1>7. CASE FlushChars \/ PutTest \/ PutKick
  <2>1. RingType' /\ Distance' /\ woken' = woken
    BY <1>7 DEF FlushChars, PutTest, PutKick, RingType, Distance, data
  <2>2. w.pc \in {"flush", "putTest", "putKick"}
    BY <1>7 DEF FlushChars, PutTest, PutKick
  <2>3. \/ w' = Idle
        \/ \E l \in {"kick", "flush", "putKick"} : w' = [w EXCEPT !.pc = l]
    BY <1>7 DEF FlushChars, PutTest, PutKick
  <2>4. CASE w' = Idle
    BY <2>1, <2>4 DEF Idle
  <2>5. ASSUME NEW l \in {"kick", "flush", "putKick"}, w' = [w EXCEPT !.pc = l] PROVE SizeInv'
    BY <2>1, <2>2, <2>5
  <2> QED
    BY <2>3, <2>4, <2>5
<1>8. CASE WriteTest
  BY <1>8 DEF WriteTest, WriteReturns, Idle, RingType, Distance, data
<1>9. CASE WriteKick
  BY <1>9 DEF WriteKick, WriteReturns, Idle, RingType, Distance, data
<1>10. CASE WriteRetry
  BY <1>10 DEF WriteRetry, RingType, Distance, data
<1> QED
  BY <1>1, <1>2, <1>3, <1>4, <1>5, <1>6, <1>7, <1>8, <1>9, <1>10 DEF Writes, WriterGoesOn

\* Everybody else leaves the writer alone and takes bytes out of the ring only.
LEMMA SizeStep ==
    ASSUME fifo \in Seq(Nat), SizeInv, [Next]_vars PROVE SizeInv'
<1>0. /\ XmitSize \in Int /\ XmitSize >= 2
      /\ head \in Int /\ 0 <= head /\ head < XmitSize
      /\ tail \in Int /\ 0 <= tail /\ tail < XmitSize
      /\ cnt \in Int /\ 0 <= cnt /\ cnt < XmitSize
      /\ Slots = 0 .. XmitSize - 1
  BY RingInts DEF SizeInv, Slots
<1> USE DEF SizeInv
<1>1. CASE FlushRing
  <2>1. /\ cnt' = 0 /\ head' = 0 /\ tail' = 0 /\ UNCHANGED <<xbuf, accepted, w, woken>>
    BY <1>1 DEF FlushRing, writer
  <2>2. RingType' /\ Distance'
    BY <1>0, <2>1 DEF RingType, Distance
  <2>3. w.c \in Int /\ (w.c <= XmitSize - 1 - cnt => w.c <= XmitSize - 1)
    BY <1>0 DEF WriterType
  <2> QED
    BY <1>0, <2>1, <2>2, <2>3 DEF WriterType, RoomInv
<1>2. CASE FlushRead \/ (\E on \in BOOLEAN : TtyFlow(on) \/ TtyThrottle(on)) \/ Stop \/ Start
           \/ StopRx \/ StartRx \/ BreakOn \/ BreakOff \/ SetInterface
           \/ (\E newRate \in BOOLEAN : ChangeSpeed(newRate))
           \/ Cts \/ UartSend
           \/ (\E src \in {"rx", "tx", "rls", "msr"} : IsrIir(src)) \/ UNCHANGED vars
  <2>1. UNCHANGED <<data, writer>>
    BY <1>2 DEF FlushRead, TtyFlow, TtyThrottle, Stop, Start, StopRx, StartRx, BreakOn, BreakOff,
       SetInterface, ChangeSpeed, Cts, UartSend, IsrIir, vars
  <2> QED
    BY <2>1 DEF RingType, WriterType, Distance, RoomInv, data, writer
<1>3. CASE FlushFifo \/ SoftInt
  <2>1. UNCHANGED <<data, w>> /\ woken' = TRUE
    BY <1>3 DEF FlushFifo, SoftInt
  <2> QED
    BY <2>1 DEF RingType, WriterType, Distance, RoomInv, data
<1>4. ASSUME NEW full \in BOOLEAN, IsrPass(full) PROVE SizeInv'
  <2>1. /\ UNCHANGED <<xbuf, head, accepted, w, woken>>
        /\ \/ cnt' = cnt /\ tail' = tail
           \/ cnt' = cnt - Burst /\ tail' = Round(tail + Burst) /\ fifo = <<>>
    BY <1>4 DEF IsrPass, TransmitChars, Moves, Round, writer
  <2>2. fifo = <<>> => Burst \in Int /\ 0 <= Burst /\ Burst <= cnt
    BY PciAssumption, <1>0 DEF Burst, Lesser
  <2> HIDE DEF Burst
  <2>4. CASE cnt' = cnt /\ tail' = tail
    BY <2>1, <2>4 DEF RingType, WriterType, Distance, RoomInv
  <2>5. CASE cnt' = cnt - Burst /\ tail' = Round(tail + Burst) /\ fifo = <<>>
    <3>1. tail + Burst \in Int /\ 0 <= tail + Burst /\ tail + Burst < 2 * XmitSize
      BY <1>0, <2>2, <2>5
    <3>2. \/ tail' = tail + Burst /\ tail + Burst < XmitSize
          \/ tail' = tail + Burst - XmitSize /\ tail + Burst >= XmitSize
      <4>1. /\ tail + Burst < XmitSize => Round(tail + Burst) = tail + Burst
            /\ tail + Burst >= XmitSize => Round(tail + Burst) = tail + Burst - XmitSize
        BY <1>0, <2>2, <2>5, <3>1, OnceRound
      <4> QED
        BY <1>0, <2>5, <3>1, <4>1
    <3>3. /\ tail' \in Int /\ 0 <= tail' /\ tail' < XmitSize
          /\ cnt' \in Int /\ 0 <= cnt' /\ cnt' <= cnt
      BY <1>0, <2>2, <2>5, <3>2
    <3>4. RingType'
      BY <1>0, <2>1, <3>3 DEF RingType
    <3>5. Distance'
      BY <1>0, <2>1, <2>2, <2>5, <3>2 DEF Distance
    <3> QED
      BY <1>0, <2>1, <3>3, <3>4, <3>5 DEF WriterType, RoomInv
  <2> QED
    BY <2>1, <2>4, <2>5
<1> QED
  BY <1>1, <1>2, <1>3, <1>4, SizeWriter DEF Next, Writes, SizeInv

-----------------------------------------------------------------------------
(* The flags and the FIFO. *)

UartType ==
    uart \in [thri : BOOLEAN, rdi : BOOLEAN, int : BOOLEAN, on : BOOLEAN,
              runs : BOOLEAN, force : BOOLEAN, sbc : BOOLEAN]

HistType == hist \in [data : BOOLEAN, int : BOOLEAN, switched : BOOLEAN]

TtyType == tty \in [stopped : BOOLEAN, hwStopped : BOOLEAN, throttled : BOOLEAN]

PcType ==
    pc \in [flow : {"idle", "stop", "start"}, recv : {"idle", "stoprx", "startrx"},
            flush : {"idle", "read", "clearOn", "clearOff"}, brk : {"idle", "on"}]

LineType ==
    /\ cts \in BOOLEAN /\ rate \in BOOLEAN /\ last \in Nat /\ uir \in {"RS232", "RS485"}
    /\ work \in BOOLEAN /\ isr \in {"none", "rx", "tx", "rls", "msr"}

FifoType == fifo \in Seq(Nat)

FlagType == UartType /\ HistType /\ TtyType /\ PcType /\ LineType /\ FifoType

\* A port that was just opened.
LEMMA FlagInit == Init => FlagType
<1> SUFFICES ASSUME Init PROVE FlagType
  OBVIOUS
<1>1. UartType
  BY DEF Init, UartType
<1>2. HistType /\ TtyType
  BY DEF Init, HistType, TtyType
<1>3. PcType
  BY DEF Init, PcType
<1>4. FifoType /\ last \in Nat /\ uir \in {"RS232", "RS485"}
      /\ isr \in {"none", "rx", "tx", "rls", "msr"}
  BY DEF Init, FifoType
<1>5. cts \in BOOLEAN /\ work \in BOOLEAN /\ rate \in BOOLEAN
  BY Zenon DEF Init
<1> QED
  BY <1>1, <1>2, <1>3, <1>4, <1>5, Zenon DEF FlagType, LineType

\* What a toggle of the transmitter interrupt leaves.
LEMMA KickFacts ==
    ASSUME UartType, HistType, Kick
    PROVE  /\ UartType' /\ HistType' /\ fifo' = fifo
           /\ uart'.thri /\ (uart'.int <=> fifo = <<>>)
           /\ uart'.on = uart.on /\ uart'.runs = uart.runs
           /\ uart'.force = uart.force /\ uart'.sbc = uart.sbc
           /\ ~hist'.int /\ hist'.data = hist.data /\ hist'.switched = hist.switched
<1>1. PICK b \in BOOLEAN : b = (fifo = <<>>)
  BY Zenon
<1>2. uart' = [uart EXCEPT !.thri = TRUE, !.int = b]
  BY <1>1 DEF Kick
<1>3. hist' = [hist EXCEPT !.int = FALSE] /\ fifo' = fifo
  BY DEF Kick
<1> QED
  BY <1>1, <1>2, <1>3 DEF UartType, HistType

\* What a FIFO that is cleared leaves, by FCR (mxupcie_flush_buffer) or at the end
\* of a break.
LEMMA ClearedFacts ==
    ASSUME UartType, HistType, NEW on \in BOOLEAN, Cleared(on)
    PROVE  /\ UartType' /\ HistType' /\ fifo' = <<>>
           /\ uart'.thri = uart.thri
           /\ (uart'.int <=> (uart.int \/ (uart.thri /\ fifo # <<>>)))
           /\ uart'.runs = uart.runs
           /\ uart'.force = uart.force /\ uart'.sbc = uart.sbc
           /\ (hist'.int <=> (hist.int /\ fifo = <<>>))
           /\ hist'.data /\ hist'.switched = hist.switched
<1>1. PICK b \in BOOLEAN : b = (uart.int \/ (uart.thri /\ fifo # <<>>))
  BY Zenon
<1>2. PICK h \in BOOLEAN : h = (hist.int /\ fifo = <<>>)
  BY Zenon
<1>3. uart' = [uart EXCEPT !.on = on, !.int = b]
  BY <1>1 DEF Cleared
<1>4. hist' = [hist EXCEPT !.data = TRUE, !.int = h] /\ fifo' = <<>>
  BY <1>2 DEF Cleared
<1> QED
  BY <1>1, <1>2, <1>3, <1>4 DEF UartType, HistType

\* What the start of a break leaves on an RS-485 line.
LEMMA SignalOnFacts ==
    ASSUME UartType, FifoType, SignalOn
    PROVE  /\ UartType' /\ FifoType'
           /\ uart'.thri = uart.thri /\ ~uart'.int /\ uart'.on = uart.on
           /\ fifo' = fifo \/ fifo' = Append(fifo, 0)
           /\ fifo' # <<>>
<1>1. uart' = [uart EXCEPT !.sbc = TRUE, !.force = TRUE, !.runs = FALSE, !.int = FALSE]
  BY DEF SignalOn
<1>2. /\ UartType' /\ uart'.thri = uart.thri /\ ~uart'.int /\ uart'.on = uart.on
  BY <1>1 DEF UartType
<1>3. fifo' = IF Len(fifo) < FifoSize THEN Append(fifo, 0) ELSE fifo
  BY DEF SignalOn
<1>4. FifoType' /\ fifo' # <<>>
  BY <1>3, PciAssumption DEF FifoType
<1> QED
  BY <1>2, <1>3, <1>4

\* What the end of a break leaves on an RS-485 line.
LEMMA SignalOffFacts ==
    ASSUME UartType, HistType, SignalOff(uart.runs \/ rate)
    PROVE  /\ UartType' /\ HistType' /\ fifo' = <<>>
           /\ uart'.thri = uart.thri
           /\ (uart'.int <=> (uart.int \/ (uart.thri /\ fifo # <<>>)))
           /\ (uart'.runs <=> (uart.runs \/ rate)) /\ ~uart'.force /\ ~uart'.sbc
           /\ (hist'.int <=> (hist.int /\ fifo = <<>>))
           /\ hist'.data /\ hist'.switched = hist.switched
<1>1. PICK b \in BOOLEAN : b = (uart.int \/ (uart.thri /\ fifo # <<>>))
  BY Zenon
<1>2. PICK h \in BOOLEAN : h = (hist.int /\ fifo = <<>>)
  BY Zenon
<1>0. PICK r \in BOOLEAN : r = (uart.runs \/ rate)
  BY Zenon
<1>3. uart' = [uart EXCEPT !.sbc = FALSE, !.force = FALSE, !.runs = r, !.on = FALSE,
                           !.int = b]
  BY <1>0, <1>1 DEF SignalOff
<1>4. hist' = [hist EXCEPT !.data = TRUE, !.int = h] /\ fifo' = <<>>
  BY <1>2 DEF SignalOff
<1> QED
  BY <1>0, <1>1, <1>2, <1>3, <1>4 DEF UartType, HistType

\* What the handler takes from a ring that is not empty is not nothing.
LEMMA BurstSome ==
    ASSUME SizeInv, cnt > 0, fifo = <<>>
    PROVE  /\ Burst \in Int /\ 0 < Burst /\ Burst <= cnt /\ Burst <= XmitSize - tail
           /\ BurstBytes \in Seq(Nat) /\ BurstBytes # <<>> /\ Len(BurstBytes) = Burst
<1>0. /\ XmitSize \in Int /\ tail \in Int /\ 0 <= tail /\ tail < XmitSize
      /\ cnt \in Int /\ xbuf \in [Slots -> Nat]
  BY RingInts DEF SizeInv, RingType
<1>1. Burst \in Int /\ 0 < Burst /\ Burst <= cnt /\ Burst <= XmitSize - tail
  BY <1>0, PciAssumption DEF Burst, Lesser
<1> HIDE DEF Burst
<1>2. ASSUME NEW i \in 1 .. Burst
      PROVE  (IF tail + i - 1 \in Slots THEN xbuf[tail + i - 1] ELSE 0) \in Nat
  BY <1>0
<1>3. BurstBytes \in [1 .. Burst -> Nat] /\ Burst \in Nat
  BY <1>1, <1>2 DEF BurstBytes
<1>4. BurstBytes \in Seq(Nat) /\ Len(BurstBytes) = Burst
  BY <1>3
<1> QED
  BY <1>1, <1>4

\* The UART keeps at least the last of it.
LEMMA TakesSome ==
    ASSUME NEW q \in Seq(Nat), q # <<>>, fifo = <<>>
    PROVE  /\ FifoTakes(q) # <<>> /\ FifoTakes(q) \in Seq(Nat)
           /\ uart.on => FifoTakes(q) = q
<1>1. Len(q) \in 1 .. Len(q) /\ q[Len(q)] \in Nat
  OBVIOUS
<1>2. fifo \o q = q
  OBVIOUS
<1> QED
  BY <1>1, <1>2 DEF FifoTakes

\* What the handler decides in a pass: whether it serves the transmitter, whether
\* it sends, and whether it turns the interrupt off.
PassTx == isr \in {"tx", "rls"} /\ fifo = <<>>
PassData == PassTx /\ cnt > 0 /\ ~tty.stopped
PassHeld == PassTx /\ cnt > 0 /\ tty.stopped

\* What becomes of the FIFO, the ring and the flags in a pass.
LEMMA PassFacts ==
    ASSUME SizeInv, FlagType, NEW full \in BOOLEAN, IsrPass(full)
    PROVE  /\ UartType' /\ HistType' /\ TtyType' /\ FifoType'
           /\ PassData => /\ fifo' = FifoTakes(BurstBytes) /\ fifo' # <<>>
                           /\ cnt' = cnt - Burst /\ tail' = (tail + Burst) % XmitSize
                           /\ ~uart'.int /\ ~hist'.int
           /\ ~PassData => UNCHANGED <<fifo, cnt, tail, hist>>
           /\ PassHeld => ~uart'.thri /\ ~uart'.int
           /\ ~PassHeld => uart'.thri = uart.thri
           /\ ~PassHeld /\ ~PassData => uart'.int = uart.int
           /\ uart'.on = uart.on /\ uart'.runs = uart.runs
           /\ uart'.force = uart.force /\ uart'.sbc = uart.sbc
           /\ hist'.data = hist.data /\ hist'.switched = hist.switched
           /\ tty'.stopped = tty.stopped /\ isr' = "none" /\ isr # "none"
           /\ UNCHANGED <<xbuf, head, accepted, w, woken, cts, last, uir, rate, pc>>
<1> USE DEF PassTx, PassData, PassHeld, FlagType
<1>1. /\ isr' = "none" /\ isr # "none"
      /\ UNCHANGED <<xbuf, head, accepted, w, woken, cts, last, uir, rate, pc>>
      /\ TransmitChars(PassTx) /\ CheckModemStatus(full)
  BY DEF IsrPass, writer, line
<1>2. TtyType' /\ tty'.stopped = tty.stopped
  <2>1. PICK a \in BOOLEAN, b \in BOOLEAN : a = ~cts /\ b = (tty.throttled \/ full)
    BY Zenon
  <2>2. tty' = [tty EXCEPT !.hwStopped = a, !.throttled = b]
    BY <1>1, <2>1 DEF CheckModemStatus
  <2> QED
    BY <2>2 DEF TtyType
<1>3. CASE PassData
  <2>1. /\ tail' = (tail + Burst) % XmitSize /\ cnt' = cnt - Burst
        /\ fifo' = FifoTakes(BurstBytes) /\ uart' = [uart EXCEPT !.int = FALSE]
        /\ hist' = [hist EXCEPT !.int = FALSE]
    BY <1>1, <1>3 DEF TransmitChars, Moves
  <2>2. FifoTakes(BurstBytes) # <<>> /\ FifoTakes(BurstBytes) \in Seq(Nat)
    BY <1>3, BurstSome, TakesSome
  <2>3. /\ UartType' /\ ~uart'.int /\ uart'.thri = uart.thri
        /\ uart'.on = uart.on /\ uart'.runs = uart.runs
        /\ uart'.force = uart.force /\ uart'.sbc = uart.sbc
    BY <2>1 DEF UartType
  <2>4. /\ HistType' /\ ~hist'.int /\ hist'.data = hist.data /\ hist'.switched = hist.switched
    BY <2>1 DEF HistType
  <2> QED
    BY <1>1, <1>2, <1>3, <2>1, <2>2, <2>3, <2>4 DEF FifoType
<1>4. CASE ~PassData
  <2>1. PICK a \in BOOLEAN, b \in BOOLEAN :
            a = (uart.thri /\ ~PassHeld) /\ b = (uart.int /\ ~PassHeld)
    BY Zenon
  <2>2. uart' = [uart EXCEPT !.thri = a, !.int = b] /\ UNCHANGED <<fifo, cnt, tail, hist>>
    BY <1>1, <1>4, <2>1 DEF TransmitChars, Moves
  <2>3. /\ UartType' /\ uart'.int = b /\ uart'.thri = a
        /\ uart'.on = uart.on /\ uart'.runs = uart.runs
        /\ uart'.force = uart.force /\ uart'.sbc = uart.sbc
    BY <2>2 DEF UartType
  <2>4. uart.thri \in BOOLEAN /\ uart.int \in BOOLEAN
    BY DEF UartType
  <2> QED
    BY <1>1, <1>2, <1>4, <2>1, <2>2, <2>3, <2>4 DEF FifoType, HistType
<1> QED
  BY <1>3, <1>4

\* Every step keeps the types.
LEMMA FlagStep == SizeInv /\ FlagType /\ [Next]_vars => FlagType'
<1> SUFFICES ASSUME SizeInv, FlagType, [Next]_vars PROVE FlagType'
  OBVIOUS
<1> USE DEF FlagType
<1>0. ASSUME UNCHANGED <<uart, hist, tty, pc, cts, last, uir, rate, work, isr, fifo>>
      PROVE  FlagType'
  BY <1>0 DEF UartType, HistType, TtyType, PcType, LineType, FifoType
<1>1. CASE (\E n \in 1 .. MaxReq : WriteBegin(n)) \/ PutBegin \/ WriteRoom \/ WriteCopy
           \/ WriteAdvance \/ WriteTest \/ WriteRetry \/ PutInsert \/ PutTest \/ FlushChars
           \/ UNCHANGED vars
  <2>1. UNCHANGED <<uart, hist, tty, pc, cts, last, uir, rate, work, isr, fifo>>
    BY <1>1 DEF WriteBegin, PutBegin, WriteRoom, WriteCopy, WriteAdvance, WriteTest,
       WriteRetry, PutInsert, PutTest, FlushChars, vars, line, chip
  <2> QED
    BY <1>0, <2>1
<1>2. CASE WriteKick \/ PutKick
  <2>1. Kick /\ UNCHANGED <<tty, pc, cts, last, uir, rate, work, isr>>
    BY <1>2 DEF WriteKick, PutKick, line
  <2> QED
    BY <2>1, KickFacts DEF TtyType, PcType, LineType, FifoType
<1>3. CASE FlushRing
  <2>1. /\ UNCHANGED <<uart, tty, cts, last, uir, rate, work, isr, fifo>>
        /\ pc' = [pc EXCEPT !.flush = "read"] /\ hist' = [hist EXCEPT !.data = TRUE]
    BY <1>3 DEF FlushRing, Goto, line, chip
  <2>2. UartType'
    BY <2>1 DEF UartType
  <2>3. HistType' /\ TtyType'
    BY <2>1 DEF HistType, TtyType
  <2>4. PcType'
    BY <2>1 DEF PcType
  <2>5. LineType'
    BY <2>1 DEF LineType
  <2>6. FifoType'
    BY <2>1 DEF FifoType
  <2> QED
    BY <2>2, <2>3, <2>4, <2>5, <2>6
<1>4. CASE FlushRead
  <2>2. PICK l \in {"clearOff", "clearOn"} : pc' = [pc EXCEPT !.flush = l]
    BY <1>4 DEF FlushRead, Goto
  <2>3. /\ UNCHANGED <<tty, cts, last, uir, rate, work, isr, fifo>>
        /\ uart' = uart \/ uart' = [uart EXCEPT !.int = FALSE]
        /\ hist' = hist \/ hist' = [hist EXCEPT !.int = TRUE]
    BY <1>4 DEF FlushRead, line
  <2>4. UartType'
    BY <2>2, <2>3 DEF UartType
  <2>5. HistType' /\ TtyType'
    BY <2>2, <2>3 DEF HistType, TtyType
  <2>6. PcType'
    BY <2>2, <2>3 DEF PcType
  <2>7. LineType'
    BY <2>2, <2>3 DEF LineType
  <2>8. FifoType'
    BY <2>2, <2>3 DEF FifoType
  <2> QED
    BY <2>4, <2>5, <2>6, <2>7, <2>8
<1>5. CASE FlushFifo
  <2>1. PICK on \in BOOLEAN : on = (pc.flush = "clearOn")
    BY Zenon
  <2>2. /\ UNCHANGED <<tty, cts, last, uir, rate, work, isr>>
        /\ pc' = [pc EXCEPT !.flush = "idle"] /\ Cleared(on)
    BY <1>5, <2>1 DEF FlushFifo, At, Goto, line
  <2>3. UartType' /\ HistType' /\ fifo' = <<>>
    BY <2>2, ClearedFacts
  <2> QED
    BY <2>2, <2>3 DEF TtyType, PcType, LineType, FifoType
<1>6. ASSUME NEW on \in BOOLEAN, TtyFlow(on) \/ TtyThrottle(on) PROVE FlagType'
  <2>1. UNCHANGED <<uart, hist, cts, last, uir, rate, work, isr, fifo>>
    BY <1>6 DEF TtyFlow, TtyThrottle, line, chip
  <2>2. \/ \E l \in {"stop", "start"} : pc' = [pc EXCEPT !.flow = l]
        \/ \E l \in {"stoprx", "startrx"} : pc' = [pc EXCEPT !.recv = l]
    BY <1>6 DEF TtyFlow, TtyThrottle, Goto
  <2>3. PcType'
    BY <2>2 DEF PcType
  <2>4. \/ tty' = [tty EXCEPT !.stopped = on] \/ tty' = [tty EXCEPT !.throttled = on]
    BY <1>6 DEF TtyFlow, TtyThrottle
  <2>5. TtyType'
    BY <2>4 DEF TtyType
  <2> QED
    BY <2>1, <2>3, <2>5 DEF UartType, HistType, LineType, FifoType
<1>7. CASE Stop \/ StopRx \/ StartRx
  <2>1. UNCHANGED <<hist, tty, cts, last, uir, rate, work, isr, fifo>>
    BY <1>7 DEF Stop, StopRx, StartRx, line
  <2>2. \/ pc' = [pc EXCEPT !.flow = "idle"] \/ pc' = [pc EXCEPT !.recv = "idle"]
    BY <1>7 DEF Stop, StopRx, StartRx, Goto
  <2>3. PcType'
    BY <2>2 DEF PcType
  <2>4. \/ uart' = [uart EXCEPT !.thri = FALSE, !.int = FALSE]
        \/ uart' = [uart EXCEPT !.rdi = FALSE] \/ uart' = [uart EXCEPT !.rdi = TRUE]
    BY <1>7 DEF Stop, StopRx, StartRx
  <2>5. UartType'
    BY <2>4 DEF UartType
  <2> QED
    BY <2>1, <2>3, <2>5 DEF HistType, TtyType, LineType, FifoType
<1>8. CASE Start
  <2>1. /\ UNCHANGED <<tty, cts, last, uir, rate, work, isr>>
        /\ pc' = [pc EXCEPT !.flow = "idle"] /\ (Kick \/ UNCHANGED <<uart, fifo, hist>>)
    BY <1>8 DEF Start, Goto, line, chip
  <2>2. UartType' /\ HistType' /\ fifo' = fifo
    BY <2>1, KickFacts DEF UartType, HistType
  <2> QED
    BY <2>1, <2>2 DEF TtyType, PcType, LineType, FifoType
<1>9. CASE SoftInt
  <2>1. UNCHANGED <<uart, hist, tty, pc, cts, last, uir, rate, isr, fifo>> /\ work' = FALSE
    BY <1>9 DEF SoftInt, line, chip
  <2>2. UartType'
    BY <2>1 DEF UartType
  <2>3. HistType' /\ TtyType'
    BY <2>1 DEF HistType, TtyType
  <2>4. PcType'
    BY <2>1 DEF PcType
  <2>5. LineType'
    BY <2>1 DEF LineType
  <2>6. FifoType'
    BY <2>1 DEF FifoType
  <2> QED
    BY <2>2, <2>3, <2>4, <2>5, <2>6
<1>10. CASE BreakOn
  <2>1. /\ UNCHANGED <<hist, tty, cts, last, uir, rate, work, isr>>
        /\ pc' = [pc EXCEPT !.brk = "on"]
        /\ (uart' = [uart EXCEPT !.sbc = TRUE] /\ fifo' = fifo) \/ SignalOn
    BY <1>10 DEF BreakOn, Goto, line
  <2>2. UartType' /\ FifoType'
    BY <2>1, SignalOnFacts DEF UartType, FifoType
  <2> QED
    BY <2>1, <2>2 DEF HistType, TtyType, PcType, LineType
<1>11. CASE BreakOff
  <2>1. /\ UNCHANGED <<tty, cts, last, uir, rate, work, isr>>
        /\ pc' = [pc EXCEPT !.brk = "idle"]
        /\ \/ uart' = [uart EXCEPT !.sbc = FALSE] /\ UNCHANGED <<fifo, hist>>
           \/ SignalOff(uart.runs \/ rate)
    BY <1>11 DEF BreakOff, Goto, line
  <2>2. CASE SignalOff(uart.runs \/ rate)
    BY <2>2, SignalOffFacts, <2>1 DEF TtyType, PcType, LineType, FifoType
  <2>3. CASE uart' = [uart EXCEPT !.sbc = FALSE] /\ UNCHANGED <<fifo, hist>>
    <3>1. UartType'
      BY <2>3 DEF UartType
    <3>2. PcType'
      BY <2>1 DEF PcType
    <3> QED
      BY <2>1, <2>3, <3>1, <3>2 DEF HistType, TtyType, LineType, FifoType
  <2> QED
    BY <2>1, <2>2, <2>3
<1>12. CASE SetInterface
  <2>1. PICK h \in BOOLEAN : h = (hist.switched \/ pc.brk = "on")
    BY Zenon
  <2>2. /\ UNCHANGED <<uart, tty, pc, cts, last, rate, work, isr, fifo>>
        /\ hist' = [hist EXCEPT !.switched = h] /\ uir' \in {"RS232", "RS485"}
    BY <1>12, <2>1 DEF SetInterface, At, line, chip
  <2> QED
    BY <2>2 DEF UartType, HistType, TtyType, PcType, LineType, FifoType
<1>13. ASSUME NEW newRate \in BOOLEAN, ChangeSpeed(newRate) PROVE FlagType'
  <2>0. PICK r \in BOOLEAN : r = (uart.runs \/ newRate)
    BY Zenon
  <2>1. PICK b \in BOOLEAN : b = (uart.int \/ (uart.thri /\ ~uart.on /\ fifo # <<>>))
    BY Zenon
  <2>2. /\ UNCHANGED <<hist, tty, pc, cts, last, uir, work, isr>> /\ rate' = newRate
        /\ uart' = [uart EXCEPT !.runs = r, !.on = TRUE, !.sbc = FALSE, !.int = b]
        /\ fifo' = fifo \/ fifo' = <<>>
    BY <1>13, <2>0, <2>1 DEF ChangeSpeed, line
  <2>3. UartType'
    BY <2>2 DEF UartType
  <2>4. HistType' /\ TtyType'
    BY <2>2 DEF HistType, TtyType
  <2>5. PcType'
    BY <2>2 DEF PcType
  <2>6. LineType'
    BY <2>2 DEF LineType
  <2>7. FifoType'
    <3>1. <<>> \in Seq(Nat)
      OBVIOUS
    <3> QED
      BY <2>2, <3>1 DEF FifoType
  <2> QED
    BY <2>3, <2>4, <2>5, <2>6, <2>7
<1>14. ASSUME NEW src \in {"rx", "tx", "rls", "msr"}, IsrIir(src) PROVE FlagType'
  <2>1. /\ UNCHANGED <<hist, tty, pc, cts, last, uir, rate, work, fifo>> /\ isr' = src
        /\ uart' = [uart EXCEPT !.int = FALSE] \/ uart' = uart
    BY <1>14 DEF IsrIir, line
  <2>2. UartType'
    BY <2>1 DEF UartType
  <2>3. HistType' /\ TtyType'
    BY <2>1 DEF HistType, TtyType
  <2>4. PcType'
    BY <2>1 DEF PcType
  <2>5. LineType'
    BY <2>1 DEF LineType
  <2>6. FifoType'
    BY <2>1 DEF FifoType
  <2> QED
    BY <2>2, <2>3, <2>4, <2>5, <2>6
<1>15. ASSUME NEW full \in BOOLEAN, IsrPass(full) PROVE FlagType'
  <2>1. work' \in BOOLEAN
    BY <1>15, Zenon DEF IsrPass
  <2>2. UartType' /\ HistType' /\ TtyType' /\ FifoType' /\ isr' = "none"
        /\ UNCHANGED <<cts, last, uir, rate, pc>>
    BY <1>15, PassFacts
  <2> QED
    BY <2>1, <2>2 DEF PcType, LineType
<1>16. CASE Cts
  <2>1. cts' \in BOOLEAN
    BY <1>16, Zenon DEF Cts
  <2>2. UNCHANGED <<uart, hist, tty, pc, last, uir, rate, work, isr, fifo>>
    BY <1>16 DEF Cts, chip
  <2> QED
    BY <2>1, <2>2 DEF UartType, HistType, TtyType, PcType, LineType, FifoType
<1>17. CASE UartSend
  <2>1. PICK b \in BOOLEAN : b = (uart.int \/ (uart.thri /\ Len(fifo) = 1))
    BY Zenon
  <2>2. /\ UNCHANGED <<hist, tty, pc, cts, uir, rate, work, isr>>
        /\ uart' = [uart EXCEPT !.int = b] /\ fifo # <<>> /\ fifo' = Tail(fifo)
        /\ last' \in {fifo[1], last}
    BY <1>17, <2>1 DEF UartSend
  <2>3. FifoType' /\ fifo[1] \in Nat
    BY <2>2 DEF FifoType
  <2> QED
    BY <2>2, <2>3 DEF UartType, HistType, TtyType, PcType, LineType
<1> QED
  BY <1>1, <1>2, <1>3, <1>4, <1>5, <1>6, <1>7, <1>8, <1>9, <1>10, <1>11, <1>12, <1>13,
     <1>14, <1>15, <1>16, <1>17 DEF Next, WriterGoesOn

-----------------------------------------------------------------------------
(* The interrupt: queued bytes are on their way. *)

\* A latched transmitter interrupt is an enabled one, and the FIFO is empty.
IntInv == uart.int => uart.thri /\ fifo = <<>>

\* tty->stopped is what the thread in mxupcie_stop or mxupcie_start was called
\* for.
FlowInv ==
    /\ pc.flow = "stop" => tty.stopped
    /\ pc.flow = "start" => ~tty.stopped

Kicks ==
    \/ w.pc \in {"room", "copy", "advance", "test", "kick", "put", "putTest", "putKick", "flush"}
    \/ pc.flow # "idle"

\* With bytes queued and output not stopped, a thread is about to toggle the
\* interrupt, or it is enabled and on its way: latched, due when the FIFO runs
\* empty, in the handler's hands, or read away by a flush.
StallInv ==
    cnt > 0 /\ ~tty.stopped =>
        Kicks \/ (uart.thri /\ (hist.int \/ uart.int \/ fifo # <<>> \/ isr = "tx"))

CtlInv == IntInv /\ FlowInv /\ StallInv

\* No step leaves queued bytes behind.
LEMMA CtlStep == SizeInv /\ FlagType /\ CtlInv /\ [Next]_vars => CtlInv'
<1> SUFFICES ASSUME SizeInv, FlagType, CtlInv, [Next]_vars PROVE CtlInv'
  OBVIOUS
<1>0. /\ cnt \in Int /\ cnt >= 0 /\ w \in [pc : WriterPcs, rem : Nat, c : Nat, got : BOOLEAN]
      /\ UartType /\ HistType /\ TtyType /\ PcType /\ FifoType
  BY RingInts DEF SizeInv, WriterType, FlagType
<1> USE DEF CtlInv, IntInv, FlowInv, StallInv, Kicks
<1>1. CASE (\E n \in 1 .. MaxReq : WriteBegin(n)) \/ PutBegin \/ WriteRoom \/ WriteCopy
           \/ WriteAdvance \/ WriteRetry \/ PutInsert \/ PutTest
  <2>1. w'.pc \in {"room", "copy", "test", "advance", "put", "putTest", "putKick", "flush"}
    BY <1>0, <1>1 DEF WriteBegin, PutBegin, WriteRoom, WriteCopy, WriteAdvance, WriteRetry,
       PutInsert, PutTest, Idle
  <2>2. UNCHANGED <<uart, fifo, tty, pc>>
    BY <1>1 DEF WriteBegin, PutBegin, WriteRoom, WriteCopy, WriteAdvance, WriteRetry,
       PutInsert, PutTest, chip
  <2> QED
    BY <2>1, <2>2
<1>2. CASE WriteTest \/ FlushChars
  <2>1. UNCHANGED <<uart, fifo, tty, pc, cnt>>
    BY <1>2 DEF WriteTest, FlushChars, chip, data
  <2>2. cnt > 0 /\ ~tty.stopped => w'.pc = "kick"
    BY <1>0, <1>2 DEF WriteTest, FlushChars
  <2> QED
    BY <2>1, <2>2
<1>3. CASE WriteKick \/ PutKick
  <2>1. Kick /\ UNCHANGED <<tty, pc>>
    BY <1>3 DEF WriteKick, PutKick
  <2>2. fifo' = fifo /\ uart'.thri /\ (uart'.int <=> fifo = <<>>)
    BY <1>0, <2>1, KickFacts
  <2> QED
    BY <2>1, <2>2
<1>4. CASE FlushRing
  <2>1. UNCHANGED <<uart, fifo, tty>> /\ cnt' = 0 /\ pc'.flow = pc.flow
    BY <1>0, <1>4 DEF FlushRing, chip, Goto, PcType
  <2> QED
    BY <2>1
<1>5. CASE FlushRead
  <2>1. UNCHANGED <<fifo, tty, cnt, w, isr>> /\ pc'.flow = pc.flow
    BY <1>0, <1>5 DEF FlushRead, Goto, PcType, data, writer
  <2>2. CASE UNCHANGED <<uart, hist>>
    BY <2>1, <2>2
  <2>3. CASE uart' = [uart EXCEPT !.int = FALSE] /\ hist' = [hist EXCEPT !.int = TRUE]
    <3>1. ~uart'.int /\ uart'.thri = uart.thri /\ hist'.int
      BY <1>0, <2>3 DEF UartType, HistType
    <3> QED
      BY <2>1, <3>1
  <2> QED
    BY <1>5, <2>2, <2>3 DEF FlushRead
<1>6. CASE FlushFifo
  <2>1. PICK on \in BOOLEAN : on = (pc.flush = "clearOn")
    BY Zenon
  <2>2. UNCHANGED <<tty, cnt, w, isr>> /\ pc'.flow = pc.flow /\ Cleared(on)
    BY <1>0, <1>6, <2>1 DEF FlushFifo, At, Goto, PcType, data
  <2>3. /\ fifo' = <<>> /\ uart'.thri = uart.thri
        /\ (uart'.int <=> (uart.int \/ (uart.thri /\ fifo # <<>>)))
        /\ (hist'.int <=> (hist.int /\ fifo = <<>>))
    BY <1>0, <2>2, ClearedFacts
  <2> QED
    BY <2>2, <2>3
<1>7. ASSUME NEW on \in BOOLEAN, TtyFlow(on) PROVE CtlInv'
  <2>1. UNCHANGED <<uart, fifo, cnt, w, isr, hist>>
    BY <1>7 DEF TtyFlow, data, writer, chip
  <2>2. tty'.stopped = on /\ pc'.flow = IF on THEN "stop" ELSE "start"
    BY <1>0, <1>7 DEF TtyFlow, Goto, PcType, TtyType
  <2> QED
    BY <2>1, <2>2
<1>8. CASE Stop
  <2>1. UNCHANGED <<fifo, tty, cnt, w, isr, hist>> /\ tty.stopped
    BY <1>8 DEF Stop, At, data, writer
  <2>2. ~uart'.int /\ pc'.flow = "idle"
    BY <1>0, <1>8 DEF Stop, Goto, PcType, UartType
  <2> QED
    BY <2>1, <2>2
<1>9. CASE Start
  <2>1. UNCHANGED <<tty, cnt>> /\ pc'.flow = "idle"
    BY <1>0, <1>9 DEF Start, Goto, PcType, data
  <2>2. CASE cnt > 0
    <3>1. Kick
      BY <1>9, <2>2 DEF Start
    <3>2. fifo' = fifo /\ uart'.thri /\ (uart'.int <=> fifo = <<>>)
      BY <1>0, <3>1, KickFacts
    <3> QED
      BY <2>1, <3>2
  <2>3. CASE ~(cnt > 0)
    BY <2>1, <1>9, <2>3 DEF Start, chip
  <2> QED
    BY <2>2, <2>3
<1>10. CASE (\E on \in BOOLEAN : TtyThrottle(on)) \/ StopRx \/ StartRx
  <2>1. UNCHANGED <<fifo, cnt, w, isr, hist>>
    BY <1>10 DEF TtyThrottle, StopRx, StartRx, data, writer, chip
  <2>2. pc'.flow = pc.flow
    BY <1>0, <1>10 DEF TtyThrottle, StopRx, StartRx, Goto, PcType
  <2>3. tty'.stopped = tty.stopped
    BY <1>0, <1>10 DEF TtyThrottle, StopRx, StartRx, TtyType
  <2>4. uart'.thri = uart.thri /\ uart'.int = uart.int
    BY <1>0, <1>10 DEF TtyThrottle, StopRx, StartRx, UartType, chip
  <2> QED
    BY <2>1, <2>2, <2>3, <2>4
<1>11. CASE SoftInt \/ Cts \/ UNCHANGED vars
  <2>1. UNCHANGED <<uart, fifo, tty, pc, cnt, w, isr, hist>>
    BY <1>11 DEF SoftInt, Cts, data, writer, chip, vars
  <2> QED
    BY <2>1
<1>12. CASE BreakOn
  <2>1. UNCHANGED <<tty, cnt, w, isr, hist>> /\ pc'.flow = pc.flow
    BY <1>0, <1>12 DEF BreakOn, Goto, PcType, data, writer
  <2>2. CASE SignalOn
    <3>1. uart'.thri = uart.thri /\ ~uart'.int /\ fifo' # <<>>
      BY <1>0, <2>2, SignalOnFacts
    <3> QED
      BY <2>1, <3>1
  <2>3. CASE uart' = [uart EXCEPT !.sbc = TRUE] /\ fifo' = fifo
    <3>1. uart'.thri = uart.thri /\ uart'.int = uart.int
      BY <1>0, <2>3 DEF UartType
    <3> QED
      BY <2>1, <2>3, <3>1
  <2> QED
    BY <1>12, <2>2, <2>3 DEF BreakOn
<1>13. CASE BreakOff
  <2>1. UNCHANGED <<tty, cnt, w, isr>> /\ pc'.flow = pc.flow
    BY <1>0, <1>13 DEF BreakOff, Goto, PcType, data, writer
  <2>2. CASE SignalOff(uart.runs \/ rate)
    <3>1. /\ fifo' = <<>> /\ uart'.thri = uart.thri
          /\ (uart'.int <=> (uart.int \/ (uart.thri /\ fifo # <<>>)))
          /\ (hist'.int <=> (hist.int /\ fifo = <<>>))
      BY <1>0, <2>2, SignalOffFacts
    <3> QED
      BY <2>1, <3>1
  <2>3. CASE uart' = [uart EXCEPT !.sbc = FALSE] /\ UNCHANGED <<fifo, hist>>
    <3>1. uart'.thri = uart.thri /\ uart'.int = uart.int
      BY <1>0, <2>3 DEF UartType
    <3> QED
      BY <2>1, <2>3, <3>1
  <2> QED
    BY <1>13, <2>2, <2>3 DEF BreakOff
<1>14. CASE SetInterface
  <2>1. UNCHANGED <<uart, fifo, tty, pc, cnt, w, isr>> /\ hist'.int = hist.int
    BY <1>0, <1>14 DEF SetInterface, data, writer, chip, HistType
  <2> QED
    BY <2>1
<1>15. ASSUME NEW newRate \in BOOLEAN, ChangeSpeed(newRate) PROVE CtlInv'
  <2>0. PICK r \in BOOLEAN : r = (uart.runs \/ newRate)
    BY Zenon
  <2>1. PICK b \in BOOLEAN : b = (uart.int \/ (uart.thri /\ ~uart.on /\ fifo # <<>>))
    BY Zenon
  <2>2. /\ UNCHANGED <<hist, tty, pc, cnt, w, isr>>
        /\ uart' = [uart EXCEPT !.runs = r, !.on = TRUE, !.sbc = FALSE, !.int = b]
        /\ fifo' = IF uart.on THEN fifo ELSE <<>>
    BY <1>15, <2>0, <2>1 DEF ChangeSpeed, data, writer
  <2>3. uart'.thri = uart.thri /\ uart'.int = b
    BY <1>0, <2>2 DEF UartType
  <2> QED
    BY <2>1, <2>2, <2>3
<1>16. ASSUME NEW src \in {"rx", "tx", "rls", "msr"}, IsrIir(src) PROVE CtlInv'
  <2>1. UNCHANGED <<fifo, hist, tty, pc, cnt, w>> /\ isr = "none" /\ isr' = src
    BY <1>16 DEF IsrIir, data, writer
  <2>2. uart'.thri = uart.thri
        /\ (uart'.int = uart.int \/ (src = "tx" /\ uart.int /\ ~uart'.int))
    BY <1>0, <1>16 DEF IsrIir, UartType
  <2> QED
    BY <2>1, <2>2
<1>17. ASSUME NEW full \in BOOLEAN, IsrPass(full) PROVE CtlInv'
  <2>1. /\ PassData => fifo' # <<>> /\ ~uart'.int /\ ~hist'.int
        /\ ~PassData => UNCHANGED <<fifo, cnt, hist>>
        /\ PassHeld => ~uart'.thri /\ ~uart'.int
        /\ ~PassHeld => uart'.thri = uart.thri
        /\ ~PassHeld /\ ~PassData => uart'.int = uart.int
        /\ tty'.stopped = tty.stopped /\ UNCHANGED <<w, pc>>
    BY <1>17, PassFacts
  <2> QED
    BY <1>0, <2>1 DEF PassData, PassHeld, PassTx
<1>18. CASE UartSend
  <2>1. PICK b \in BOOLEAN : b = (uart.int \/ (uart.thri /\ Len(fifo) = 1))
    BY Zenon
  <2>2. /\ UNCHANGED <<hist, tty, pc, isr, cnt, w>>
        /\ uart' = [uart EXCEPT !.int = b] /\ fifo # <<>> /\ fifo' = Tail(fifo)
    BY <1>18, <2>1 DEF UartSend, data, writer
  <2>3. uart'.thri = uart.thri /\ uart'.int = b
    BY <1>0, <2>2 DEF UartType
  <2>4. Len(fifo) = 1 <=> fifo' = <<>>
    <3>1. /\ Len(fifo') = Len(fifo) - 1 /\ Len(fifo) \in Nat /\ fifo' \in Seq(Nat)
      BY <1>0, <2>2 DEF FifoType
    <3>2. fifo' = <<>> <=> Len(fifo') = 0
      BY <3>1, EmptySeq
    <3> QED
      BY <3>1, <3>2
  <2> QED
    BY <2>1, <2>2, <2>3, <2>4
<1> QED
  BY <1>1, <1>2, <1>3, <1>4, <1>5, <1>6, <1>7, <1>8, <1>9, <1>10, <1>11, <1>12, <1>13,
     <1>14, <1>15, <1>16, <1>17, <1>18 DEF Next, WriterGoesOn

\* The sizes and the types, together: what every theorem below starts from.
PciInv == SizeInv /\ FlagType

\* The sizes and the types hold when the port is opened.
LEMMA PciInit == Init => PciInv
  BY SizeInit, FlagInit DEF PciInv

\* Every step keeps them.
LEMMA PciStep == PciInv /\ [Next]_vars => PciInv'
  BY SizeStep, FlagStep DEF PciInv, FlagType, FifoType

\* Queued bytes that are not stopped never lie in the ring with nobody to fetch
\* them: mxupcie_write, mxupcie_put_char and mxupcie_start test the flags outside
\* the lock, a break and a change of the settings empty the FIFO, and no restart is
\* lost, unless a flush reads the interrupt away.
THEOREM NoStallHolds == Spec => []NoStall
<1>1. Init => CtlInv
  BY DEF Init, CtlInv, IntInv, FlowInv, StallInv
<1>2. PciInv /\ CtlInv /\ [Next]_vars => (PciInv /\ CtlInv)'
  BY PciStep, CtlStep DEF PciInv
<1>3. CtlInv => NoStall
  BY DEF CtlInv, StallInv, NoStall, Kicks, WillKick
<1> QED
  BY <1>1, <1>2, <1>3, PciInit, PTL DEF Spec

-----------------------------------------------------------------------------
(* The wake-up of a writer that found the ring full. *)

\* A writer that took nothing and is on its way to sleep found the ring full:
\* it is full enough still, or the wake-up is on its way.
WakeInv ==
    /\ w.pc = "asleep" => ~w.got /\ w.rem > 0
    /\ w.pc \in {"test", "kick", "asleep"} /\ ~w.got /\ w.rem > 0 =>
           woken \/ work \/ pc.flush # "idle" \/ cnt >= WakeupChars

\* No step takes the wake-up away from a writer that is about to sleep.
LEMMA WakeStep == PciInv /\ WakeInv /\ [Next]_vars => WakeInv'
<1> SUFFICES ASSUME PciInv, WakeInv, [Next]_vars PROVE WakeInv'
  OBVIOUS
<1>0. /\ cnt \in Int /\ cnt >= 0 /\ XmitSize \in Int /\ cnt < XmitSize
      /\ WakeupChars \in Int /\ WakeupChars < XmitSize
      /\ head \in Int /\ head < XmitSize /\ tail \in Int /\ tail < XmitSize
      /\ w \in [pc : WriterPcs, rem : Nat, c : Nat, got : BOOLEAN] /\ RoomInv
      /\ PcType
  BY RingInts, PciAssumption DEF PciInv, SizeInv, WriterType, FlagType
<1> USE DEF WakeInv
<1>1. CASE (\E n \in 1 .. MaxReq : WriteBegin(n)) \/ PutBegin \/ WriteRetry
           \/ WriteCopy \/ WriteAdvance \/ PutInsert \/ PutTest \/ PutKick
  <2>1. w'.pc \in {"room", "put", "advance", "putTest", "putKick", "flush"}
    BY <1>0, <1>1 DEF WriteBegin, PutBegin, WriteRetry, WriteCopy, WriteAdvance, PutInsert,
       PutTest, PutKick, Idle
  <2> QED
    BY <2>1
<1>2. CASE FlushChars
  <2>1. w.rem = 0 /\ (w' = Idle \/ w' = [w EXCEPT !.pc = "kick"])
    BY <1>0, <1>2 DEF FlushChars, RoomInv
  <2>2. w'.pc # "asleep" /\ w'.rem = 0
    BY <1>0, <2>1 DEF Idle
  <2> QED
    BY <2>2
<1>3. CASE WriteRoom
  <2>1. \/ w'.pc = "copy"
        \/ w' = [w EXCEPT !.pc = "test"] /\ WriteChunk <= 0
    BY <1>0, <1>3 DEF WriteRoom
  <2>2. WriteChunk <= 0 => w.rem = 0 \/ cnt >= WakeupChars
    BY <1>0 DEF WriteChunk, Lesser
  <2>3. cnt' = cnt
    BY <1>3 DEF WriteRoom, data
  <2> QED
    BY <1>0, <2>1, <2>2, <2>3
<1>4. CASE WriteTest \/ WriteKick
  <2>1. w' \in {[w EXCEPT !.pc = "kick"], WriteReturns} /\ w.pc \in {"test", "kick"}
    BY <1>4 DEF WriteTest, WriteKick
  <2>2. UNCHANGED <<cnt, woken, work, pc>>
    BY <1>4 DEF WriteTest, WriteKick, data
  <2>3. CASE w' = [w EXCEPT !.pc = "kick"]
    BY <1>0, <2>1, <2>2, <2>3
  <2>4. CASE w' = WriteReturns
    BY <1>0, <2>1, <2>2, <2>4 DEF WriteReturns, Idle
  <2> QED
    BY <2>1, <2>3, <2>4
<1>5. CASE FlushRing \/ FlushRead
  <2>1. UNCHANGED w
    BY <1>5 DEF FlushRing, FlushRead, writer
  <2>2. \E l \in {"read", "clearOff", "clearOn"} : pc' = [pc EXCEPT !.flush = l]
    BY <1>5 DEF FlushRing, FlushRead, Goto
  <2>3. pc'.flush # "idle"
    BY <1>0, <2>2 DEF PcType
  <2> QED
    BY <2>1, <2>3
<1>6. CASE FlushFifo \/ SoftInt
  <2>1. UNCHANGED w /\ woken' = TRUE
    BY <1>6 DEF FlushFifo, SoftInt
  <2> QED
    BY <2>1
<1>7. CASE (\E on \in BOOLEAN : TtyFlow(on) \/ TtyThrottle(on)) \/ Stop \/ Start
           \/ StopRx \/ StartRx \/ BreakOn \/ BreakOff \/ SetInterface
           \/ (\E newRate \in BOOLEAN : ChangeSpeed(newRate))
           \/ (\E src \in {"rx", "tx", "rls", "msr"} : IsrIir(src))
           \/ Cts \/ UartSend \/ UNCHANGED vars
  <2>1. UNCHANGED <<w, cnt, woken, work>>
    BY <1>7 DEF TtyFlow, TtyThrottle, Stop, Start, StopRx, StartRx, BreakOn, BreakOff,
       SetInterface, ChangeSpeed, IsrIir, Cts, UartSend, vars, data, writer
  <2>2. \/ pc' = pc
        \/ \E l \in {"idle", "stop", "start", "stoprx", "startrx", "on"} :
               \/ pc' = [pc EXCEPT !.flow = l] \/ pc' = [pc EXCEPT !.recv = l]
               \/ pc' = [pc EXCEPT !.brk = l]
    BY <1>7 DEF TtyFlow, TtyThrottle, Stop, Start, StopRx, StartRx, BreakOn, BreakOff,
       SetInterface, ChangeSpeed, IsrIir, Cts, UartSend, vars, Goto
  <2>3. pc'.flush = pc.flush
    BY <1>0, <2>2 DEF PcType
  <2> QED
    BY <2>1, <2>3
<1>8. ASSUME NEW full \in BOOLEAN, IsrPass(full) PROVE WakeInv'
  <2>1. /\ UNCHANGED <<w, woken, pc>>
        /\ cnt' = IF PassData THEN cnt - Burst ELSE cnt
    BY <1>8, PassFacts DEF PciInv
  <2>2. /\ PassData => (cnt - Burst < WakeupChars => work')
        /\ work => work'
    BY <1>8 DEF IsrPass, RunsLow, Moves, PassData, PassTx
  <2>3. PassData => Burst \in Int
    BY BurstSome DEF PassData, PassTx, PciInv
  <2> HIDE DEF Burst
  <2> QED
    BY <1>0, <2>1, <2>2, <2>3
<1> QED
  BY <1>1, <1>2, <1>3, <1>4, <1>5, <1>6, <1>7, <1>8 DEF Next, WriterGoesOn

\* A writer put to sleep by a full ring is woken, whatever the handler, the work
\* item and a flush do between its last look at the ring and its sleep.
THEOREM NoLostWakeupHolds == Spec => []NoLostWakeup
<1>1. Init => WakeInv
  BY DEF Init, WakeInv, Idle
<1>2. WakeInv => NoLostWakeup
  BY DEF WakeInv, NoLostWakeup
<1> QED
  BY <1>1, <1>2, PciInit, PciStep, WakeStep, PTL DEF Spec

-----------------------------------------------------------------------------
(* Breaks. *)

\* Without a break under way its registers are as before it; a break of an RS-232
\* port uses the break bit alone.
BreakInv ==
    ~hist.switched =>
        /\ pc.brk = "idle" => ~uart.force /\ ~uart.sbc /\ (rate => uart.runs)
        /\ uir = "RS232" => ~uart.force /\ (rate => uart.runs)

\* A break undoes what it has done, as long as the interface stays.
LEMMA BreakStep == PciInv /\ BreakInv /\ [Next]_vars => BreakInv'
<1> SUFFICES ASSUME PciInv, BreakInv, [Next]_vars PROVE BreakInv'
  OBVIOUS
<1>0. UartType /\ HistType /\ PcType /\ FifoType /\ uir \in {"RS232", "RS485"}
  BY DEF PciInv, FlagType, LineType
<1> USE DEF BreakInv
<1>1. ASSUME pc'.brk = pc.brk, hist'.switched = hist.switched, UNCHANGED <<uir, rate>>,
             uart'.runs = uart.runs, uart'.force = uart.force, uart'.sbc = uart.sbc
      PROVE  BreakInv'
  BY <1>1
<1>2. CASE (\E n \in 1 .. MaxReq : WriteBegin(n)) \/ PutBegin \/ WriteRoom \/ WriteCopy
           \/ WriteAdvance \/ WriteTest \/ WriteRetry \/ PutInsert \/ PutTest \/ FlushChars
           \/ SoftInt \/ Cts \/ UNCHANGED vars
  <2>1. UNCHANGED <<uart, hist, pc, uir, rate>>
    BY <1>2 DEF WriteBegin, PutBegin, WriteRoom, WriteCopy, WriteAdvance, WriteTest,
       WriteRetry, PutInsert, PutTest, FlushChars, SoftInt, Cts, vars, chip
  <2> QED
    BY <1>1, <2>1
<1>3. CASE WriteKick \/ PutKick
  <2>1. Kick /\ UNCHANGED <<pc, uir, rate>>
    BY <1>3 DEF WriteKick, PutKick
  <2> QED
    BY <1>0, <1>1, <2>1, KickFacts
<1>4. CASE FlushRing
  <2>1. UNCHANGED <<uart, uir, rate>> /\ pc'.brk = pc.brk /\ hist'.switched = hist.switched
    BY <1>0, <1>4 DEF FlushRing, Goto, PcType, HistType, chip
  <2> QED
    BY <1>1, <2>1
<1>5. CASE FlushRead
  <2>1. UNCHANGED <<uir, rate>> /\ pc'.brk = pc.brk
    BY <1>0, <1>5 DEF FlushRead, Goto, PcType
  <2>2. /\ hist'.switched = hist.switched
        /\ uart'.runs = uart.runs /\ uart'.force = uart.force /\ uart'.sbc = uart.sbc
    BY <1>0, <1>5 DEF FlushRead, HistType, UartType
  <2> QED
    BY <1>1, <2>1, <2>2
<1>6. CASE FlushFifo
  <2>1. PICK on \in BOOLEAN : on = (pc.flush = "clearOn")
    BY Zenon
  <2>2. UNCHANGED <<uir, rate>> /\ pc'.brk = pc.brk /\ Cleared(on)
    BY <1>0, <1>6, <2>1 DEF FlushFifo, At, Goto, PcType
  <2>3. /\ hist'.switched = hist.switched
        /\ uart'.runs = uart.runs /\ uart'.force = uart.force /\ uart'.sbc = uart.sbc
    BY <1>0, <2>2, ClearedFacts
  <2> QED
    BY <1>1, <2>2, <2>3
<1>7. CASE (\E on \in BOOLEAN : TtyFlow(on) \/ TtyThrottle(on)) \/ Stop \/ StopRx \/ StartRx
  <2>1. UNCHANGED <<uir, rate, hist>>
    BY <1>7 DEF TtyFlow, TtyThrottle, Stop, StopRx, StartRx
  <2>2. pc'.brk = pc.brk
    BY <1>0, <1>7 DEF TtyFlow, TtyThrottle, Stop, StopRx, StartRx, Goto, PcType
  <2>3. uart'.runs = uart.runs /\ uart'.force = uart.force /\ uart'.sbc = uart.sbc
    BY <1>0, <1>7 DEF TtyFlow, TtyThrottle, Stop, StopRx, StartRx, UartType, chip
  <2> QED
    BY <1>1, <2>1, <2>2, <2>3
<1>8. CASE Start
  <2>1. UNCHANGED <<uir, rate>> /\ pc'.brk = pc.brk
    BY <1>0, <1>8 DEF Start, Goto, PcType
  <2>2. Kick \/ UNCHANGED <<uart, hist>>
    BY <1>8 DEF Start, chip
  <2> QED
    BY <1>0, <1>1, <2>1, <2>2, KickFacts
<1>9. CASE BreakOn
  <2>1. UNCHANGED <<uir, rate, hist>> /\ pc'.brk = "on"
    BY <1>0, <1>9 DEF BreakOn, Goto, PcType
  <2>2. CASE uir = "RS232"
    <3>1. uart' = [uart EXCEPT !.sbc = TRUE]
      BY <1>9, <2>2 DEF BreakOn
    <3>2. uart'.runs = uart.runs /\ uart'.force = uart.force
      BY <1>0, <3>1 DEF UartType
    <3> QED
      BY <2>1, <3>2
  <2>3. CASE uir # "RS232"
    BY <2>1, <2>3
  <2> QED
    BY <2>2, <2>3
<1>10. CASE BreakOff
  <2>1. UNCHANGED <<uir, rate>> /\ pc'.brk = "idle"
    BY <1>0, <1>10 DEF BreakOff, Goto, PcType
  <2>2. CASE uir = "RS232"
    <3>1. uart' = [uart EXCEPT !.sbc = FALSE] /\ UNCHANGED hist
      BY <1>10, <2>2 DEF BreakOff
    <3>2. uart'.runs = uart.runs /\ uart'.force = uart.force /\ ~uart'.sbc
      BY <1>0, <3>1 DEF UartType
    <3> QED
      BY <2>1, <2>2, <3>1, <3>2
  <2>3. CASE uir # "RS232"
    <3>1. SignalOff(uart.runs \/ rate)
      BY <1>10, <2>3 DEF BreakOff
    <3>2. (rate => uart'.runs) /\ ~uart'.force /\ ~uart'.sbc
      BY <1>0, <3>1, SignalOffFacts
    <3> QED
      BY <2>1, <3>2
  <2> QED
    BY <2>2, <2>3
<1>11. CASE SetInterface
  <2>1. PICK h \in BOOLEAN : h = (hist.switched \/ pc.brk = "on")
    BY Zenon
  <2>2. UNCHANGED <<uart, pc, rate>> /\ hist' = [hist EXCEPT !.switched = h]
    BY <1>11, <2>1 DEF SetInterface, At, chip
  <2>3. hist'.switched = h /\ pc.brk \in {"idle", "on"}
    BY <1>0, <2>2 DEF HistType, PcType
  <2> QED
    BY <2>1, <2>2, <2>3
<1>12. ASSUME NEW newRate \in BOOLEAN, ChangeSpeed(newRate) PROVE BreakInv'
  <2>0. PICK r \in BOOLEAN : r = (uart.runs \/ newRate)
    BY Zenon
  <2>1. UNCHANGED <<hist, pc, uir>> /\ rate' = newRate
    BY <1>12 DEF ChangeSpeed
  <2>2. PICK b \in BOOLEAN : b = (uart.int \/ (uart.thri /\ ~uart.on /\ fifo # <<>>))
    BY Zenon
  <2>3. uart' = [uart EXCEPT !.runs = r, !.on = TRUE, !.sbc = FALSE, !.int = b]
    BY <1>12, <2>0, <2>2 DEF ChangeSpeed
  <2>4. (newRate => uart'.runs) /\ ~uart'.sbc /\ uart'.force = uart.force
    BY <1>0, <2>0, <2>3 DEF UartType
  <2> QED
    BY <2>1, <2>4
<1>13. CASE (\E src \in {"rx", "tx", "rls", "msr"} : IsrIir(src)) \/ UartSend
  <2>1. UNCHANGED <<hist, pc, uir, rate>>
    BY <1>13 DEF IsrIir, UartSend
  <2>2. uart' = uart \/ uart' = [uart EXCEPT !.int = uart'.int]
    <3>1. CASE UartSend
      BY <1>0, <3>1 DEF UartSend, UartType
    <3>2. CASE \E src \in {"rx", "tx", "rls", "msr"} : IsrIir(src)
      BY <1>0, <3>2 DEF IsrIir, UartType
    <3> QED
      BY <1>13, <3>1, <3>2
  <2>3. uart'.runs = uart.runs /\ uart'.force = uart.force /\ uart'.sbc = uart.sbc
    BY <1>0, <2>2 DEF UartType
  <2> QED
    BY <1>1, <2>1, <2>3
<1>14. ASSUME NEW full \in BOOLEAN, IsrPass(full) PROVE BreakInv'
  <2>1. /\ hist'.switched = hist.switched /\ UNCHANGED <<pc, uir, rate>>
        /\ uart'.runs = uart.runs /\ uart'.force = uart.force /\ uart'.sbc = uart.sbc
    BY <1>14, PassFacts DEF PciInv
  <2> QED
    BY <1>1, <2>1
<1> QED
  BY <1>2, <1>3, <1>4, <1>5, <1>6, <1>7, <1>8, <1>9, <1>10, <1>11, <1>12, <1>13, <1>14
  DEF Next, WriterGoesOn

\* A break leaves neither a forced transmitter nor the break bit behind, and no
\* divisor of 0 under a rate that mx_set_baud writes a divisor for, whatever
\* mx_change_speed, the handler and a flush do meanwhile, unless
\* MOXA_SET_INTERFACE changes the interface during it.
THEOREM BreakEndsHolds == Spec => []BreakEnds
<1>1. Init => BreakInv
  BY DEF Init, BreakInv
<1>2. BreakInv => BreakEnds
  BY DEF BreakInv, BreakEnds, At
<1> QED
  BY <1>1, <1>2, PciInit, PciStep, BreakStep, PTL DEF Spec

-----------------------------------------------------------------------------
(* The bytes: what the ring, the FIFO and the line hold. *)

\* How far behind xmit_tail a slot of the ring lies.
Index(s) == IF s >= tail THEN s - tail ELSE s - tail + XmitSize

\* The slots from xmit_tail on hold the newest xmit_cnt bytes in their order.
SlotInv == \A s \in Slots : Index(s) < cnt => xbuf[s] = accepted - cnt + 1 + Index(s)

\* What mxupcie_write has copied outside the lock lies where xmit_head points.
CopyInv ==
    w.pc = "advance" =>
        \A s \in Slots : s - head \in 0 .. w.c - 1 => xbuf[s] = accepted + 1 + s - head

\* The FIFO continues what was sent, the ring what is in the FIFO.
FifoInv == \E n \in 0 .. Len(fifo) : FifoContinues(n) /\ last + n + cnt = accepted

\* Only a flush and the end of a break switch the FIFO off.
ByteInv == ~hist.data => uart.on /\ SlotInv /\ CopyInv /\ FifoInv

\* The empty ring.
LEMMA ByteInit == Init => ByteInv
<1> SUFFICES ASSUME Init PROVE ByteInv
  OBVIOUS
<1>1. CopyInv
  BY DEF Init, CopyInv, Idle
<1>2. SlotInv
  BY PciAssumption DEF Init, SlotInv, Index, Slots
<1>3. FifoInv
  <2>1. Len(fifo) = 0 /\ last = 0 /\ cnt = 0 /\ accepted = 0
    BY DEF Init
  <2>2. 0 \in 0 .. Len(fifo) /\ FifoContinues(0) /\ last + 0 + cnt = accepted
    BY <2>1 DEF FifoContinues
  <2> QED
    BY <2>2 DEF FifoInv
<1>4. uart.on
  BY DEF Init
<1> QED
  BY <1>1, <1>2, <1>3, <1>4 DEF ByteInv

\* The FIFO's part depends on how many bytes have left the ring only.
LEMMA FifoSame ==
    ASSUME FifoInv, UNCHANGED <<fifo, last>>, last \in Int, cnt \in Int, accepted \in Int,
           cnt' \in Int, accepted' \in Int, accepted' - cnt' = accepted - cnt
    PROVE  FifoInv'
<1>1. PICK n \in 0 .. Len(fifo) : FifoContinues(n) /\ last + n + cnt = accepted
  BY DEF FifoInv
<1>2. n \in Int /\ last' = last /\ fifo' = fifo
  OBVIOUS
<1>3. last' + n + cnt' = accepted'
  <2>1. last \in Int /\ cnt \in Int /\ accepted \in Int /\ cnt' \in Int /\ accepted' \in Int
        /\ accepted' - cnt' = accepted - cnt
    OBVIOUS
  <2>2. PICK a \in Int, b \in Int, c \in Int, d \in Int, l \in Int :
            a = accepted' /\ b = cnt' /\ c = accepted /\ d = cnt /\ l = last
    BY <2>1
  <2>3. a - b = c - d /\ l + n + d = c
    BY <1>1, <2>1, <2>2
  <2>4. l + n + b = a
    BY <1>2, <2>3
  <2> QED
    BY <1>2, <2>2, <2>4
<1>4. n \in 0 .. Len(fifo') /\ FifoContinues(n)'
  BY <1>1, <1>2 DEF FifoContinues
<1> QED
  BY <1>3, <1>4 DEF FifoInv

\* The writer fills the slots behind xmit_head and counts them afterwards.
LEMMA ByteWriter == PciInv /\ ByteInv /\ Writes => ByteInv'
<1> SUFFICES ASSUME PciInv, ByteInv, Writes PROVE ByteInv'
  OBVIOUS
<1>0. /\ XmitSize \in Int /\ XmitSize >= 2
      /\ head \in Int /\ 0 <= head /\ head < XmitSize
      /\ tail \in Int /\ 0 <= tail /\ tail < XmitSize
      /\ cnt \in Int /\ 0 <= cnt /\ cnt < XmitSize
      /\ accepted \in Int /\ 0 <= accepted /\ Distance /\ last \in Int
      /\ Slots = 0 .. XmitSize - 1 /\ xbuf \in [Slots -> Nat]
      /\ w \in [pc : WriterPcs, rem : Nat, c : Nat, got : BOOLEAN] /\ RoomInv
  BY RingInts DEF PciInv, SizeInv, RingType, WriterType, FlagType, LineType, Slots
<1>1. PICK k \in Nat : k = w.c
  BY <1>0
<1>2. UNCHANGED <<fifo, last, tail>> /\ hist'.data = hist.data /\ uart'.on = uart.on
  <2>1. Kick => hist'.data = hist.data /\ uart'.on = uart.on
    BY KickFacts DEF PciInv, FlagType
  <2>2. UNCHANGED <<fifo, last, tail>> /\ (Kick \/ UNCHANGED <<hist, uart>>)
    BY DEF Writes, WriterGoesOn, WriteBegin, WriteRoom, WriteCopy, WriteAdvance, PutBegin,
       PutInsert, PutTest, PutKick, FlushChars, WriteTest, WriteKick, WriteRetry, Kick, data,
       chip, line
  <2> QED
    BY <2>1, <2>2
<1> SUFFICES ASSUME ~hist.data PROVE SlotInv' /\ CopyInv' /\ FifoInv'
  BY <1>2 DEF ByteInv
<1>4. SlotInv /\ CopyInv /\ FifoInv
  BY DEF ByteInv
<1>5. ASSUME UNCHANGED data, w'.pc # "advance" PROVE SlotInv' /\ CopyInv' /\ FifoInv'
  <2>1. SlotInv' /\ CopyInv'
    BY <1>2, <1>4, <1>5 DEF data, SlotInv, Index, CopyInv
  <2>2. UNCHANGED <<cnt, accepted>>
    BY <1>5 DEF data
  <2> QED
    BY <1>0, <1>2, <1>4, <2>1, <2>2, FifoSame
<1>6. CASE (\E n \in 1 .. MaxReq : WriteBegin(n)) \/ WriteRoom \/ PutBegin \/ FlushChars
           \/ WriteTest \/ WriteKick \/ WriteRetry \/ PutTest \/ PutKick
  <2>1. UNCHANGED data
    BY <1>6 DEF WriteBegin, WriteRoom, PutBegin, FlushChars, WriteTest, WriteKick, WriteRetry,
       PutTest, PutKick
  <2>2. w'.pc # "advance"
    <3>1. WriteReturns.pc # "advance"
      BY <1>0 DEF WriteReturns, Idle
    <3> HIDE DEF WriteReturns
    <3>2. CASE WriteTest \/ WriteKick
      BY <1>0, <3>1, <3>2 DEF WriteTest, WriteKick
    <3>3. CASE (\E n \in 1 .. MaxReq : WriteBegin(n)) \/ PutBegin
      BY <1>0, <3>3 DEF WriteBegin, PutBegin, Idle
    <3>6. CASE FlushChars
      <4>1. w' = [w EXCEPT !.pc = "kick"] \/ w' = Idle
        BY <3>6 DEF FlushChars
      <4> QED
        BY <1>0, <4>1 DEF Idle
    <3>5. CASE WriteRoom
      <4>1. \/ w' = [w EXCEPT !.pc = "test"]
            \/ w' = [w EXCEPT !.pc = "copy", !.c = WriteChunk]
        BY <3>5 DEF WriteRoom
      <4> QED
        BY <1>0, <4>1
    <3>4. CASE WriteRetry \/ PutTest \/ PutKick
      BY <1>0, <3>4 DEF WriteRetry, PutTest, PutKick
    <3> QED
      BY <1>6, <3>2, <3>3, <3>4, <3>5, <3>6
  <2> QED
    BY <1>5, <2>1, <2>2
<1>7. CASE WriteCopy
  <2>1. /\ xbuf' = [s \in Slots |-> IF s - head \in 0 .. k - 1
                                    THEN accepted + 1 + s - head ELSE xbuf[s]]
        /\ UNCHANGED <<head, cnt, accepted>>
    BY <1>1, <1>7 DEF WriteCopy
  <2>2. k <= XmitSize - 1 - cnt /\ k <= XmitSize - head /\ w'.c = k
    BY <1>0, <1>1, <1>7 DEF WriteCopy, RoomInv
  <2>3. ASSUME NEW s \in Slots, Index(s) < cnt PROVE ~(s - head \in 0 .. k - 1)
    BY <1>0, <2>2, <2>3 DEF Distance, Index
  <2>4. SlotInv'
    <3>1. \A s \in Slots : Index(s)' = Index(s)
      BY <1>2 DEF Index
    <3> QED
      BY <1>0, <1>2, <1>4, <2>1, <2>3, <3>1 DEF SlotInv
  <2>5. CopyInv'
    BY <1>0, <2>1, <2>2 DEF CopyInv
  <2>6. FifoInv'
    BY <1>0, <1>2, <1>4, <2>1, FifoSame
  <2> QED
    BY <2>4, <2>5, <2>6
<1>8. CASE WriteAdvance
  <2>1. /\ head' = Round(head + k) /\ cnt' = cnt + k
        /\ accepted' = accepted + k /\ xbuf' = xbuf
    BY <1>1, <1>8 DEF WriteAdvance, Round
  <2>2. k <= XmitSize - 1 - cnt /\ k <= XmitSize - head /\ w'.pc # "advance"
    BY <1>0, <1>1, <1>8 DEF WriteAdvance, RoomInv
  <2>3. \A s \in Slots : s - head \in 0 .. k - 1 => xbuf[s] = accepted + 1 + s - head
    BY <1>1, <1>4, <1>8 DEF WriteAdvance, CopyInv
  <2>4. ASSUME NEW s \in Slots, Index(s) < cnt + k
        PROVE  xbuf[s] = accepted - cnt + 1 + Index(s)
    <3>1. CASE Index(s) < cnt
      BY <1>4, <3>1 DEF SlotInv
    <3>2. CASE Index(s) >= cnt
      <4>1. s - head \in 0 .. k - 1 /\ Index(s) = s - head + cnt
        BY <1>0, <2>2, <2>4, <3>2 DEF Index, Distance
      <4>2. xbuf[s] = accepted + 1 + s - head
        BY <2>3, <4>1
      <4> QED
        BY <1>0, <4>1, <4>2
    <3>3. Index(s) \in Int
      BY <1>0 DEF Index
    <3> QED
      BY <1>0, <3>1, <3>2, <3>3
  <2>5. SlotInv'
    <3>1. \A s \in Slots : Index(s)' = Index(s)
      BY <1>2 DEF Index
    <3>2. accepted' - cnt' = accepted - cnt
      BY <1>0, <2>1
    <3> QED
      BY <1>0, <2>1, <2>4, <3>1, <3>2 DEF SlotInv
  <2>6. CopyInv'
    BY <2>2 DEF CopyInv
  <2>7. FifoInv'
    <3>1. accepted' - cnt' = accepted - cnt /\ cnt' \in Int /\ accepted' \in Int
      BY <1>0, <2>1
    <3> QED
      BY <1>0, <1>2, <1>4, <3>1, FifoSame
  <2> QED
    BY <2>5, <2>6, <2>7
<1>9. CASE PutInsert
  <2>1. /\ xbuf' = [xbuf EXCEPT ![head] = accepted + 1]
        /\ cnt' = cnt + 1 /\ accepted' = accepted + 1
    BY <1>9 DEF PutInsert
  <2>2. cnt < XmitSize - 1 /\ w'.pc # "advance"
    BY <1>0, <1>9 DEF PutInsert, RoomInv
  <2>3. accepted' - cnt' = accepted - cnt
    BY <1>0, <2>1
  <2>4. ASSUME NEW s \in Slots, Index(s) < cnt + 1
        PROVE  xbuf'[s] = accepted - cnt + 1 + Index(s)
    <3>1. CASE s = head
      <4>1. Index(s) = cnt
        BY <1>0, <2>2, <3>1 DEF Index, Distance
      <4> QED
        BY <1>0, <2>1, <3>1, <4>1
    <3>2. CASE s # head
      <4>1. Index(s) < cnt
        BY <1>0, <2>2, <2>4, <3>2 DEF Index, Distance
      <4>2. xbuf[s] = accepted - cnt + 1 + Index(s)
        BY <1>4, <4>1 DEF SlotInv
      <4> QED
        BY <1>0, <2>1, <3>2, <4>2
    <3> QED
      BY <3>1, <3>2
  <2>5. SlotInv'
    <3>1. \A s \in Slots : Index(s)' = Index(s)
      BY <1>2 DEF Index
    <3> QED
      BY <1>0, <2>1, <2>3, <2>4, <3>1 DEF SlotInv
  <2>6. CopyInv'
    BY <2>2 DEF CopyInv
  <2>7. FifoInv'
    <3>1. cnt' \in Int /\ accepted' \in Int
      BY <1>0, <2>1
    <3> QED
      BY <1>0, <1>2, <1>4, <2>3, <3>1, FifoSame
  <2> QED
    BY <2>5, <2>6, <2>7
<1> QED
  BY <1>6, <1>7, <1>8, <1>9 DEF Writes, WriterGoesOn

\* A pass of the handler that sends moves the oldest bytes of the ring to the
\* FIFO, which it found empty; a block never reaches past the end of the ring.
LEMMA ByteSend ==
    ASSUME PciInv, SlotInv, FifoInv, uart.on, cnt > 0, fifo = <<>>,
           fifo' = FifoTakes(BurstBytes), last' = last,
           cnt' = cnt - Burst, tail' = (tail + Burst) % XmitSize,
           UNCHANGED <<xbuf, head, accepted>>
    PROVE  SlotInv' /\ FifoInv'
<1>0. /\ XmitSize \in Int /\ XmitSize >= 2
      /\ tail \in Int /\ 0 <= tail /\ tail < XmitSize
      /\ cnt \in Int /\ 0 <= cnt /\ cnt < XmitSize
      /\ accepted \in Int /\ 0 <= accepted /\ last \in Int
      /\ Slots = 0 .. XmitSize - 1
  BY RingInts DEF PciInv, SizeInv, Slots, FlagType, LineType
<1>1. /\ Burst \in Int /\ 0 < Burst /\ Burst <= cnt /\ Burst <= XmitSize - tail
      /\ BurstBytes \in Seq(Nat) /\ BurstBytes # <<>> /\ Len(BurstBytes) = Burst
  BY BurstSome DEF PciInv
<1>2. last + cnt = accepted
  <2>1. PICK n \in 0 .. Len(fifo) : last + n + cnt = accepted
    BY DEF FifoInv
  <2>2. n = 0
    OBVIOUS
  <2> QED
    BY <1>0, <2>1, <2>2
<1>3. ASSUME NEW i \in 1 .. Burst PROVE BurstBytes[i] = last + i
  <2>1. PICK x \in Int : x = tail + i - 1
    BY <1>0, <1>1
  <2>2. x \in Slots /\ Index(x) = i - 1 /\ i - 1 < cnt
    BY <1>0, <1>1, <2>1 DEF Index
  <2>3. xbuf[x] = accepted - cnt + 1 + (i - 1)
    BY <2>2 DEF SlotInv
  <2>4. BurstBytes[i] = xbuf[x]
    BY <2>1, <2>2 DEF BurstBytes
  <2> QED
    BY <1>0, <1>2, <2>3, <2>4
<1>4. fifo' = BurstBytes
  BY <1>1, TakesSome
<1> HIDE DEF Burst, BurstBytes
<1>5. FifoInv'
  <2>0. PICK b \in Int : b = Burst
    BY <1>1
  <2>1. b \in 0 .. Len(fifo') /\ Len(fifo') = b
    BY <1>1, <1>4, <2>0
  <2>2. FifoContinues(b)'
    BY <1>1, <1>3, <1>4, <2>0, <2>1 DEF FifoContinues
  <2>3. last' + b + cnt' = accepted'
    BY <1>0, <1>1, <1>2, <2>0
  <2> QED
    BY <2>1, <2>2, <2>3 DEF FifoInv
<1>6. accepted' - cnt' = accepted - cnt + Burst
  BY <1>0, <1>1
<1>8. SlotInv'
  <2>1. PICK x \in Int : x = tail + Burst
    BY <1>0, <1>1
  <2>2. 0 <= x /\ x < 2 * XmitSize
    BY <1>0, <1>1, <2>1
  <2>3. /\ x < XmitSize => Round(x) = x
        /\ x >= XmitSize => Round(x) = x - XmitSize
    BY <2>2, OnceRound
  <2>4. tail' = Round(x)
    BY <2>1 DEF Round
  <2>5. ASSUME NEW s \in Slots, Index(s)' < cnt' PROVE Index(s) = Index(s)' + Burst
    BY <1>0, <1>1, <2>1, <2>2, <2>3, <2>4, <2>5 DEF Index
  <2>6. ASSUME NEW s \in Slots, Index(s)' < cnt'
        PROVE  xbuf'[s] = accepted' - cnt' + 1 + Index(s)'
    <3>1. Index(s) = Index(s)' + Burst
      BY <2>5, <2>6
    <3>2. Index(s)' \in Int
      BY <1>0, <1>1, <2>1, <2>2, <2>3, <2>4 DEF Index
    <3>3. xbuf[s] = accepted - cnt + 1 + Index(s)
      BY <1>0, <1>1, <2>6, <3>1, <3>2 DEF SlotInv
    <3> QED
      BY <1>0, <1>1, <1>6, <3>1, <3>2, <3>3
  <2> QED
    BY <2>6 DEF SlotInv
<1> QED
  BY <1>5, <1>8

\* No step disturbs the bytes, until a flush or the end of a break destroys some.
LEMMA ByteStep == PciInv /\ ByteInv /\ [Next]_vars => ByteInv'
<1> SUFFICES ASSUME PciInv, ByteInv, [Next]_vars PROVE ByteInv'
  OBVIOUS
<1>0. /\ cnt \in Int /\ 0 <= cnt /\ accepted \in Int /\ last \in Int /\ fifo \in Seq(Nat)
      /\ UartType /\ HistType /\ FifoType
  BY RingInts DEF PciInv, SizeInv, FlagType, LineType, FifoType
<1>1. ASSUME UNCHANGED <<data, w, fifo, last>>, hist'.data = hist.data, uart'.on = uart.on
      PROVE  ByteInv'
  <2>1. SlotInv => SlotInv'
    BY <1>1 DEF data, SlotInv, Index
  <2>2. CopyInv => CopyInv'
    BY <1>1 DEF data, CopyInv
  <2>3. UNCHANGED <<cnt, accepted>>
    BY <1>1 DEF data
  <2>4. FifoInv => FifoInv'
    BY <1>0, <1>1, <2>3, FifoSame
  <2> QED
    BY <1>1, <2>1, <2>2, <2>4 DEF ByteInv
<1>2. CASE SetInterface \/ SoftInt \/ Cts \/ UNCHANGED vars
           \/ (\E on \in BOOLEAN : TtyFlow(on) \/ TtyThrottle(on))
  <2>1. UNCHANGED <<data, w, fifo, last, uart>> /\ hist'.data = hist.data
    BY <1>0, <1>2 DEF SetInterface, SoftInt, Cts, TtyFlow, TtyThrottle, vars, writer, line,
       chip, HistType
  <2> QED
    BY <1>1, <2>1
<1>3. CASE Stop \/ StopRx \/ StartRx \/ (\E src \in {"rx", "tx", "rls", "msr"} : IsrIir(src))
           \/ FlushRead
  <2>1. UNCHANGED <<data, w, fifo, last>>
    BY <1>3 DEF Stop, StopRx, StartRx, IsrIir, FlushRead, writer, line
  <2>2. hist'.data = hist.data
    BY <1>0, <1>3 DEF Stop, StopRx, StartRx, IsrIir, FlushRead, HistType
  <2>3. uart'.on = uart.on
    BY <1>0, <1>3 DEF Stop, StopRx, StartRx, IsrIir, FlushRead, UartType
  <2> QED
    BY <1>1, <2>1, <2>2, <2>3
<1>4. CASE Start
  <2>1. UNCHANGED <<data, w, last>> /\ (Kick \/ UNCHANGED <<uart, fifo, hist>>)
    BY <1>4 DEF Start, writer, line, chip
  <2>2. fifo' = fifo /\ hist'.data = hist.data /\ uart'.on = uart.on
    BY <1>0, <2>1, KickFacts
  <2> QED
    BY <1>1, <2>1, <2>2
<1>5. CASE FlushRing
  <2>1. hist'.data
    BY <1>0, <1>5 DEF FlushRing, HistType
  <2> QED
    BY <2>1 DEF ByteInv
<1>6. CASE FlushFifo
  <2>1. PICK on \in BOOLEAN : on = (pc.flush = "clearOn")
    BY Zenon
  <2>2. Cleared(on)
    BY <1>6, <2>1 DEF FlushFifo, At
  <2>3. hist'.data
    BY <1>0, <2>2, ClearedFacts
  <2> QED
    BY <2>3 DEF ByteInv
<1>7. CASE BreakOff
  <2>1. CASE SignalOff(uart.runs \/ rate)
    <3>1. hist'.data
      BY <1>0, <2>1, SignalOffFacts
    <3> QED
      BY <3>1 DEF ByteInv
  <2>2. CASE uart' = [uart EXCEPT !.sbc = FALSE] /\ UNCHANGED <<fifo, hist>>
    <3>1. uart'.on = uart.on
      BY <1>0, <2>2 DEF UartType
    <3>2. UNCHANGED <<data, w, last>>
      BY <1>7 DEF BreakOff, writer, line
    <3> QED
      BY <1>1, <2>2, <3>1, <3>2
  <2> QED
    BY <1>7, <2>1, <2>2 DEF BreakOff
<1>8. CASE BreakOn
  <2>1. UNCHANGED <<data, w, last, hist>>
    BY <1>8 DEF BreakOn, writer, line
  <2>2. CASE uart' = [uart EXCEPT !.sbc = TRUE] /\ UNCHANGED fifo
    <3>1. uart'.on = uart.on
      BY <1>0, <2>2 DEF UartType
    <3> QED
      BY <1>1, <2>1, <2>2, <3>1
  <2>3. CASE SignalOn
    <3>1. uart'.on = uart.on /\ (fifo' = fifo \/ fifo' = Append(fifo, 0))
      BY <1>0, <2>3, SignalOnFacts
    <3>2. CASE fifo' = fifo
      BY <1>1, <2>1, <3>1, <3>2
    <3>3. CASE fifo' = Append(fifo, 0)
      <4>1. SlotInv => SlotInv'
        BY <2>1 DEF data, SlotInv, Index
      <4>2. CopyInv => CopyInv'
        BY <2>1 DEF data, CopyInv
      <4>3. ASSUME FifoInv PROVE FifoInv'
        <5>1. PICK n \in 0 .. Len(fifo) : FifoContinues(n) /\ last + n + cnt = accepted
          BY <4>3 DEF FifoInv
        <5>2. /\ Len(fifo) \in Nat /\ Len(fifo') = Len(fifo) + 1 /\ fifo'[Len(fifo) + 1] = 0
              /\ \A i \in 1 .. Len(fifo) : fifo'[i] = fifo[i]
          BY <1>0, <3>3
        <5>3. ASSUME NEW i \in 1 .. Len(fifo')
              PROVE  fifo'[i] = IF i <= n THEN last + i ELSE 0
          <6>1. i \in 1 .. Len(fifo) \/ (i = Len(fifo) + 1 /\ ~(i <= n))
            BY <5>2
          <6> QED
            BY <5>1, <5>2, <6>1 DEF FifoContinues
        <5>4. FifoContinues(n)' /\ n \in 0 .. Len(fifo')
          BY <2>1, <5>2, <5>3 DEF FifoContinues
        <5>5. last' + n + cnt' = accepted'
          BY <2>1, <5>1 DEF data
        <5> QED
          BY <5>4, <5>5 DEF FifoInv
      <4> QED
        BY <2>1, <3>1, <4>1, <4>2, <4>3 DEF ByteInv
    <3> QED
      BY <3>1, <3>2, <3>3
  <2> QED
    BY <1>8, <2>2, <2>3 DEF BreakOn
<1>9. ASSUME NEW newRate \in BOOLEAN, ChangeSpeed(newRate) PROVE ByteInv'
  <2>0. PICK r \in BOOLEAN : r = (uart.runs \/ newRate)
    BY Zenon
  <2>1. UNCHANGED <<data, w, last, hist>> /\ fifo' = IF uart.on THEN fifo ELSE <<>>
    BY <1>9 DEF ChangeSpeed, writer, line
  <2>2. PICK b \in BOOLEAN : b = (uart.int \/ (uart.thri /\ ~uart.on /\ fifo # <<>>))
    BY Zenon
  <2>3. uart' = [uart EXCEPT !.runs = r, !.on = TRUE, !.sbc = FALSE, !.int = b]
    BY <1>9, <2>0, <2>2 DEF ChangeSpeed
  <2>4. uart'.on = TRUE /\ uart.on \in BOOLEAN
    BY <1>0, <2>3 DEF UartType
  <2>5. CASE hist.data
    BY <2>1, <2>5 DEF ByteInv
  <2>6. CASE ~hist.data
    <3>1. uart.on = TRUE
      BY <2>4, <2>6 DEF ByteInv
    <3> QED
      BY <1>1, <2>1, <2>4, <3>1
  <2> QED
    BY <2>5, <2>6
<1>10. ASSUME NEW full \in BOOLEAN, IsrPass(full) PROVE ByteInv'
  <2>1. /\ PassData => /\ fifo' = FifoTakes(BurstBytes)
                       /\ cnt' = cnt - Burst /\ tail' = (tail + Burst) % XmitSize
        /\ ~PassData => UNCHANGED <<fifo, cnt, tail>>
        /\ uart'.on = uart.on /\ hist'.data = hist.data
        /\ UNCHANGED <<xbuf, head, accepted, w, last>>
    BY <1>10, PassFacts DEF PciInv
  <2>2. CASE ~PassData
    BY <1>1, <2>1, <2>2 DEF data
  <2>3. CASE PassData
    <3>1. cnt > 0 /\ fifo = <<>>
      BY <2>3 DEF PassData, PassTx
    <3>2. ~hist.data => SlotInv' /\ FifoInv'
      BY <2>1, <2>3, <3>1, ByteSend DEF ByteInv
    <3>3. CopyInv => CopyInv'
      BY <2>1 DEF CopyInv
    <3> QED
      BY <2>1, <3>2, <3>3 DEF ByteInv
  <2> QED
    BY <2>2, <2>3
<1>11. CASE UartSend
  <2>1. /\ fifo # <<>> /\ fifo' = Tail(fifo)
        /\ last' = IF fifo[1] > 0 THEN fifo[1] ELSE last
        /\ UNCHANGED <<data, w, hist>>
    BY <1>11 DEF UartSend, writer
  <2>2. uart'.on = uart.on
    BY <1>0, <1>11 DEF UartSend, UartType
  <2>3. /\ Len(fifo) \in Nat /\ Len(fifo) >= 1 /\ Len(fifo') = Len(fifo) - 1
        /\ \A i \in 1 .. Len(fifo') : fifo'[i] = fifo[i + 1] /\ i + 1 \in 1 .. Len(fifo)
    BY <1>0, <2>1
  <2>4. SlotInv => SlotInv'
    BY <2>1 DEF data, SlotInv, Index
  <2>5. CopyInv => CopyInv'
    BY <2>1 DEF data, CopyInv
  <2>6. ASSUME FifoInv PROVE FifoInv'
    <3>1. PICK n \in 0 .. Len(fifo) : FifoContinues(n) /\ last + n + cnt = accepted
      BY <2>6 DEF FifoInv
    <3>2. UNCHANGED <<cnt, accepted>> /\ n \in Int
      BY <2>1 DEF data
    <3>3. fifo[1] = IF 1 <= n THEN last + 1 ELSE 0
      BY <2>3, <3>1 DEF FifoContinues
    <3>4. CASE n >= 1
      <4>1. last' = last + 1 /\ n - 1 \in 0 .. Len(fifo')
        BY <1>0, <2>1, <2>3, <3>2, <3>3, <3>4, last \in Nat DEF PciInv, FlagType, LineType
      <4>2. ASSUME NEW i \in 1 .. Len(fifo')
            PROVE  fifo'[i] = IF i <= n - 1 THEN last' + i ELSE 0
        <5>1. fifo'[i] = IF i + 1 <= n THEN last + (i + 1) ELSE 0
          BY <2>3, <3>1 DEF FifoContinues
        <5> QED
          BY <1>0, <3>2, <4>1, <5>1
      <4>3. FifoContinues(n - 1)'
        BY <4>2 DEF FifoContinues
      <4>4. last' + (n - 1) + cnt' = accepted'
        BY <1>0, <3>1, <3>2, <4>1
      <4> QED
        BY <4>1, <4>3, <4>4 DEF FifoInv
    <3>5. CASE n = 0
      <4>1. last' = last /\ 0 \in 0 .. Len(fifo')
        BY <2>1, <2>3, <3>3, <3>5
      <4>2. ASSUME NEW i \in 1 .. Len(fifo')
            PROVE  fifo'[i] = IF i <= 0 THEN last' + i ELSE 0
        BY <2>3, <3>1, <3>5 DEF FifoContinues
      <4>3. FifoContinues(0)'
        BY <4>2 DEF FifoContinues
      <4>4. last' + 0 + cnt' = accepted'
        BY <3>1, <3>2, <3>5, <4>1
      <4> QED
        BY <4>1, <4>3, <4>4 DEF FifoInv
    <3> QED
      BY <3>4, <3>5
  <2> QED
    BY <2>1, <2>2, <2>4, <2>5, <2>6 DEF ByteInv
<1> QED
  BY <1>2, <1>3, <1>4, <1>5, <1>6, <1>7, <1>8, <1>9, <1>10, <1>11, ByteWriter
  DEF Next, Writes

\* The slots in their order from xmit_tail are BytesInOrder's view of the ring.
LEMMA ByteRing == PciInv /\ ByteInv => BytesInOrder
<1> SUFFICES ASSUME PciInv, ByteInv PROVE BytesInOrder
  OBVIOUS
<1>0. /\ XmitSize \in Int /\ XmitSize >= 2
      /\ head \in Int /\ 0 <= head /\ head < XmitSize
      /\ tail \in Int /\ 0 <= tail /\ tail < XmitSize
      /\ cnt \in Int /\ 0 <= cnt /\ cnt < XmitSize
      /\ accepted \in Int /\ 0 <= accepted /\ Distance
      /\ Slots = 0 .. XmitSize - 1
  BY RingInts DEF PciInv, SizeInv, Slots
<1>1. cnt = (head - tail + XmitSize) % XmitSize
  <2>1. PICK x \in Int : x = head - tail + XmitSize
    BY <1>0
  <2>2. 0 <= x /\ x < 2 * XmitSize
    BY <1>0, <2>1
  <2>3. /\ x < XmitSize => Round(x) = x
        /\ x >= XmitSize => Round(x) = x - XmitSize
    BY <2>2, OnceRound
  <2>4. cnt = Round(x)
    BY <1>0, <2>1, <2>2, <2>3 DEF Distance
  <2> QED
    BY <2>1, <2>4 DEF Round
<1>2. ASSUME ~hist.data, NEW i \in 0 .. cnt - 1
      PROVE  xbuf[(tail + i) % XmitSize] = accepted - cnt + 1 + i
  <2>1. PICK x \in Int : x = tail + i
    BY <1>0
  <2>2. 0 <= x /\ x < 2 * XmitSize
    BY <1>0, <2>1
  <2>3. /\ x < XmitSize => Round(x) = x
        /\ x >= XmitSize => Round(x) = x - XmitSize
        /\ Round(x) \in Slots
    BY <2>2, OnceRound
  <2>4. Index(Round(x)) = i /\ i < cnt
    BY <1>0, <2>1, <2>2, <2>3 DEF Index
  <2>5. xbuf[Round(x)] = accepted - cnt + 1 + i
    BY <1>2, <2>3, <2>4 DEF ByteInv, SlotInv
  <2> QED
    BY <2>1, <2>5 DEF Round
<1> QED
  BY <1>1, <1>2 DEF BytesInOrder, ByteInv, FifoInv

\* Until a flush or a break destroys some, the bytes leave in the order they were
\* accepted, each exactly once, whatever the interleaving of mxupcie_write's
\* unlocked memcpy with the handler's block copies, for a ring and a FIFO of any
\* size.
THEOREM BytesInOrderHolds == Spec => []BytesInOrder
  BY PciInit, PciStep, ByteInit, ByteStep, ByteRing, PTL DEF Spec

=============================================================================
