-------------------------- MODULE MxserXmit_proofs --------------------------
(***************************************************************************)
(* Machine-checked facts about the data path of mxser, for every size of   *)
(* the ring and of the FIFO, every kind of UART, any number of bytes and   *)
(* any number of stops, throttles and flushes.                             *)
(***************************************************************************)
EXTENDS MxserXmit, TLAPS

-----------------------------------------------------------------------------
(* Types. *)

WriterPcs == {"idle", "room", "copy", "advance", "put", "test", "putTest",
              "kick", "asleep"}

RingType ==
    /\ xbuf \in [Slots -> Nat] /\ head \in Slots /\ tail \in Slots
    /\ cnt \in Slots /\ accepted \in Nat

WriterType ==
    /\ w \in [pc : WriterPcs, rem : Nat, c : Nat, got : BOOLEAN]
    /\ woken \in BOOLEAN

RecvType ==
    /\ rxi \in BOOLEAN /\ xchar \in {None, Xoff, Xon} /\ rts \in BOOLEAN
    /\ throttled \in BOOLEAN
    /\ upc \in {"idle", "stop", "rtsOff", "rtsOn", "start", "clear", "send"}

-----------------------------------------------------------------------------
(* The receiver. *)

\* While mxser_stoprx runs the port is throttled; a UART that is not Moxa's
\* keeps its receive interrupts, Moxa's never has a flow character pending;
\* a port that is not throttled has them back before RTS is raised.
RxInv ==
    /\ upc \in {"stop", "rtsOff"} => throttled
    /\ ~chip.must => rxi
    /\ chip.must => xchar = None /\ upc # "clear"
    /\ upc \in {"idle", "rtsOn"} /\ ~throttled => rxi
    /\ upc = "idle" /\ ~throttled => rts

ChipType == chip \in [must : BOOLEAN, auto : BOOLEAN]

RecvInv == ChipType /\ RecvType /\ RxInv

\* A port that was just opened receives.
LEMMA RecvInit == Init => RecvInv
<1> SUFFICES ASSUME Init PROVE RecvInv
  OBVIOUS
<1>1. ChipType
  BY XmitAssumption DEF Init, ChipType
<1>2. RecvType
  BY DEF Init, RecvType
<1>3. RxInv
  BY DEF Init, RxInv
<1> QED
  BY <1>1, <1>2, <1>3 DEF RecvInv

\* No step leaves the receiver shut off behind an unthrottled port.
LEMMA RecvStep == RecvInv /\ [Next]_vars => RecvInv'
<1> SUFFICES ASSUME RecvInv, [Next]_vars PROVE RecvInv'
  OBVIOUS
<1> USE DEF RecvInv, ChipType, RecvType, RxInv, wire, recv
<1>1. CASE Writer \/ UartSend \/ SoftInt \/ FlushRing \/ FlushRead \/ FlushFifo
           \/ Stop \/ Start \/ UNCHANGED vars
  <2>1. UNCHANGED <<chip, recv, upc>>
    BY <1>1 DEF Writer, WriteBegin, WriteRoom, WriteCopy, WriteAdvance, PutBegin,
       PutInsert, FlushChars, WriteTest, WriteKick, WriteRetry, UartSend, SoftInt,
       FlushRing, FlushRead, FlushFifo, Stop, Start, vars, other
  <2> QED
    BY <2>1
<1>2. CASE \E on \in BOOLEAN : TtyFlow(on)
  BY <1>2 DEF TtyFlow
<1>3. CASE TtyThrottle
  BY <1>3 DEF TtyThrottle
<1>4. CASE Throttle
  BY <1>4 DEF Throttle, StopRx
<1>5. CASE SetRts
  BY <1>5 DEF SetRts
<1>6. CASE TtyUnthrottle
  BY <1>6 DEF TtyUnthrottle
<1>7. CASE UnthrottleTest
  BY <1>7 DEF UnthrottleTest
<1>8. CASE UnthrottleSend
  BY <1>8 DEF UnthrottleSend
<1>9. CASE UnthrottleClear
  BY <1>9 DEF UnthrottleClear
<1>10. CASE \E src \in {"rx", "tx", "msr"} : IsrIir(src)
  BY <1>10 DEF IsrIir
<1>11. CASE \E low \in BOOLEAN : ReceiveChars(low)
  BY <1>11 DEF ReceiveChars, StopRx
<1>12. CASE \E cts \in BOOLEAN : IsrDirect(cts) \/ IsrPushed(cts)
  BY <1>12 DEF IsrDirect, IsrPushed, IsrPass, TransmitChars
<1> QED
  BY <1>1, <1>2, <1>3, <1>4, <1>5, <1>6, <1>7, <1>8, <1>9, <1>10, <1>11, <1>12
  DEF Next, Threads, Interrupt

\* When the tty core has let the port receive again, RTS is up and a Moxa UART
\* has its receive interrupts back, whatever mxser_receive_chars does in the
\* middle of mxser_startrx.
THEOREM ReceiverCorrect == Spec => []ReceiverReleased
<1>1. RecvInv => ReceiverReleased
  BY DEF RecvInv, RxInv, ReceiverReleased
<1> QED
  BY <1>1, RecvInit, RecvStep, PTL DEF Spec

-----------------------------------------------------------------------------
(* The sizes: how much the ring holds, how much a write may still put. *)

\* An index into the ring, & (SERIAL_XMIT_SIZE - 1) in the code.
Round(x) == x % XmitSize

\* The remainder of an index that has passed the end of the ring at most once.
LEMMA OnceRound ==
    \A x \in Int : 0 <= x /\ x < 2 * XmitSize =>
        /\ x < XmitSize => Round(x) = x
        /\ x >= XmitSize => Round(x) = x - XmitSize
        /\ Round(x) \in Slots
<1> SUFFICES ASSUME NEW x \in Int, 0 <= x, x < 2 * XmitSize
    PROVE  /\ x < XmitSize => Round(x) = x
           /\ x >= XmitSize => Round(x) = x - XmitSize
           /\ Round(x) \in Slots
  OBVIOUS
<1>0. XmitSize \in Nat /\ XmitSize >= 2
  BY XmitAssumption
<1>1. CASE x < XmitSize
  BY <1>0, <1>1 DEF Round, Slots
<1>2. CASE x >= XmitSize
  <2>1. x - XmitSize \in 0 .. XmitSize - 1
    BY <1>0, <1>2
  <2>2. x % XmitSize = (x - XmitSize) % XmitSize
    BY <1>0, <1>2
  <2> QED
    BY <1>0, <1>2, <2>1, <2>2 DEF Round, Slots
<1> QED
  BY <1>1, <1>2, <1>0

\* The ring's counters as integers.
LEMMA RingInts ==
    ASSUME RingType
    PROVE  /\ XmitSize \in Int /\ XmitSize >= 2
           /\ head \in Int /\ 0 <= head /\ head < XmitSize
           /\ tail \in Int /\ 0 <= tail /\ tail < XmitSize
           /\ cnt \in Int /\ 0 <= cnt /\ cnt < XmitSize
           /\ accepted \in Int /\ 0 <= accepted
  BY XmitAssumption DEF RingType, Slots

\* xmit_cnt is the distance from xmit_tail to xmit_head.
Distance == head = tail + cnt \/ head = tail + cnt - XmitSize

\* A chunk that mxser_write or mxser_put_char has found room for still fits when
\* it is copied and counted: the handler only makes room, a flush all of it.
RoomInv ==
    /\ w.pc \in {"copy", "advance"} =>
           w.c > 0 /\ w.c <= w.rem /\ w.c <= XmitSize - 1 - cnt /\ w.c <= XmitSize - head
    /\ w.pc \notin {"copy", "advance"} => w.c = 0
    /\ w.pc = "put" => cnt < XmitSize - 1
    /\ w.pc \in {"idle", "put", "putTest"} => w.rem = 0 /\ ~w.got

SizeInv == RingType /\ WriterType /\ Distance /\ RoomInv

\* The empty ring.
LEMMA SizeInit == Init => SizeInv
<1> SUFFICES ASSUME Init PROVE SizeInv
  OBVIOUS
<1>1. RingType
  BY XmitAssumption DEF Init, RingType, Slots
<1>2. WriterType
  BY DEF Init, WriterType, WriterPcs, Idle
<1>3. Distance /\ RoomInv
  BY XmitAssumption DEF Init, Distance, RoomInv, Idle
<1> QED
  BY <1>1, <1>2, <1>3 DEF SizeInv

\* The writer puts no more than fits.
LEMMA SizeWriter == SizeInv /\ Writer => SizeInv'
<1> SUFFICES ASSUME SizeInv, Writer PROVE SizeInv'
  OBVIOUS
<1>0. /\ XmitSize \in Int /\ XmitSize >= 2
      /\ head \in Int /\ 0 <= head /\ head < XmitSize
      /\ tail \in Int /\ 0 <= tail /\ tail < XmitSize
      /\ cnt \in Int /\ 0 <= cnt /\ cnt < XmitSize
      /\ accepted \in Int /\ 0 <= accepted
      /\ Slots = 0 .. XmitSize - 1 /\ xbuf \in [Slots -> Nat]
  BY RingInts DEF SizeInv, RingType, Slots
<1> USE DEF SizeInv, WriterType, RoomInv, WriterPcs
<1>1. ASSUME NEW n \in 1 .. MaxReq, WriteBegin(n) PROVE SizeInv'
  <2>1. /\ w' = [pc |-> "room", rem |-> n, c |-> 0, got |-> FALSE]
        /\ woken' = FALSE
    BY <1>1 DEF WriteBegin, Idle
  <2>2. RingType' /\ Distance'
    BY <1>1 DEF WriteBegin, RingType, Distance, ring
  <2>3. n \in Nat
    BY XmitAssumption
  <2> QED
    BY <2>1, <2>2, <2>3
<1>2. CASE WriteRoom
  <2>1. RingType' /\ Distance' /\ UNCHANGED <<cnt, head, woken>>
    BY <1>2 DEF WriteRoom, RingType, Distance, ring
  <2>3. /\ WriteChunk \in Nat /\ WriteChunk <= w.rem
        /\ WriteChunk <= XmitSize - 1 - cnt /\ WriteChunk <= XmitSize - head
    BY <1>0 DEF WriteChunk, Lesser
  <2>4. \/ w' = [w EXCEPT !.pc = "test"]
        \/ w' = [w EXCEPT !.pc = "copy", !.c = WriteChunk] /\ WriteChunk > 0
    BY <1>2, <2>3 DEF WriteRoom
  <2>5. w.pc = "room"
    BY <1>2 DEF WriteRoom
  <2> HIDE DEF WriteChunk
  <2> QED
    BY <1>0, <2>1, <2>3, <2>4, <2>5
<1>3. CASE WriteCopy
  <2>1. w.pc = "copy" /\ w' = [w EXCEPT !.pc = "advance"]
        /\ UNCHANGED <<head, tail, cnt, accepted, woken>>
    BY <1>3 DEF WriteCopy
  <2>2. ASSUME NEW s \in Slots, s - head \in 0 .. w.c - 1
        PROVE  accepted + 1 + s - head \in Nat
    BY <1>0, <2>2
  <2>3. xbuf' \in [Slots -> Nat]
    BY <1>0, <1>3, <2>2 DEF WriteCopy
  <2>4. RingType' /\ Distance'
    BY <2>1, <2>3 DEF RingType, Distance
  <2> QED
    BY <2>1, <2>4
<1>4. CASE WriteAdvance
  <2>1. PICK k \in Nat : k = w.c
    OBVIOUS
  <2>2. /\ w.pc = "advance" /\ woken' = woken
        /\ w' = [w EXCEPT !.pc = "room", !.rem = w.rem - w.c, !.c = 0, !.got = TRUE]
    BY <1>4 DEF WriteAdvance
  <2>3. /\ head' = Round(head + k) /\ cnt' = cnt + k
        /\ accepted' = accepted + k /\ xbuf' = xbuf /\ tail' = tail
    BY <1>4, <2>1 DEF WriteAdvance, Round
  <2>4. /\ k > 0 /\ k <= XmitSize - head /\ k <= XmitSize - 1 - cnt
        /\ w.rem - w.c \in Nat /\ Distance
    BY <1>0, <2>1, <2>2
  <2>5. RingType' /\ Distance'
    <3> HIDE DEF SizeInv
    <3>1. head + k \in Int /\ 0 <= head + k /\ head + k < 2 * XmitSize
      BY <1>0, <2>4
    <3>2. /\ head + k < XmitSize => Round(head + k) = head + k
          /\ head + k >= XmitSize => Round(head + k) = head + k - XmitSize
      BY <1>0, <3>1, OnceRound
    <3>3. \/ head' = head + k /\ head + k < XmitSize
          \/ head' = 0 /\ head + k = XmitSize
      BY <1>0, <2>3, <2>4, <3>1, <3>2
    <3>4. head' \in Int /\ 0 <= head' /\ head' < XmitSize
      BY <1>0, <2>4, <3>3
    <3>5. cnt' \in Int /\ 0 <= cnt' /\ cnt' < XmitSize
      BY <1>0, <2>3, <2>4
    <3>6. accepted' \in Nat
      BY <1>0, <2>3
    <3>7. RingType'
      BY <1>0, <2>3, <3>4, <3>5, <3>6 DEF RingType
    <3>8. Distance'
      BY <1>0, <2>3, <2>4, <3>3 DEF Distance
    <3> QED
      BY <3>7, <3>8
  <2> QED
    BY <2>2, <2>4, <2>5
<1>5. CASE PutBegin
  BY <1>0, <1>5 DEF PutBegin, Idle, RingType, Distance, ring
<1>6. CASE PutInsert
  <2>1. /\ w.pc = "put" /\ w' = [w EXCEPT !.pc = "putTest"]
        /\ xbuf' = [xbuf EXCEPT ![head] = accepted + 1]
        /\ head' = Round(head + 1) /\ cnt' = cnt + 1
        /\ accepted' = accepted + 1 /\ UNCHANGED <<tail, woken>>
    BY <1>6 DEF PutInsert, Round
  <2>2. \/ head' = head + 1 /\ head + 1 < XmitSize
        \/ head' = 0 /\ head + 1 = XmitSize
    <3>1. head + 1 \in Int /\ 0 <= head + 1 /\ head + 1 < 2 * XmitSize
      BY <1>0
    <3>2. /\ head + 1 < XmitSize => Round(head + 1) = head + 1
          /\ head + 1 >= XmitSize => Round(head + 1) = head + 1 - XmitSize
      BY <1>0, <3>1, OnceRound
    <3>3. CASE head + 1 < XmitSize
      BY <1>0, <2>1, <3>1, <3>2, <3>3
    <3>4. CASE head + 1 >= XmitSize
      BY <1>0, <2>1, <3>2, <3>4
    <3> QED
      BY <1>0, <3>3, <3>4
  <2>3. RingType'
    <3>1. /\ head' \in Int /\ 0 <= head' /\ head' < XmitSize
          /\ cnt' \in Int /\ 0 <= cnt' /\ cnt' < XmitSize
          /\ accepted' \in Nat
      BY <1>0, <2>1, <2>2
    <3>2. xbuf' \in [Slots -> Nat]
      BY <1>0, <2>1
    <3> QED
      BY <1>0, <2>1, <3>1, <3>2 DEF RingType
  <2>4. Distance'
    BY <1>0, <2>1, <2>2 DEF Distance
  <2> QED
    BY <2>1, <2>3, <2>4
<1>7. CASE FlushChars
  BY <1>7 DEF FlushChars, Idle, RingType, Distance, ring
<1>8. CASE WriteTest
  BY <1>8 DEF WriteTest, WriteReturns, Idle, RingType, Distance, ring
<1>9. CASE WriteKick
  BY <1>9 DEF WriteKick, WriteReturns, Idle, RingType, Distance, ring
<1>10. CASE WriteRetry
  BY <1>10 DEF WriteRetry, RingType, Distance, ring
<1> QED
  BY <1>1, <1>2, <1>3, <1>4, <1>5, <1>6, <1>7, <1>8, <1>9, <1>10 DEF Writer

\* Everybody else leaves the writer alone and takes bytes out of the ring only.
LEMMA SizeStep == SizeInv /\ [Next]_vars => SizeInv'
<1> SUFFICES ASSUME SizeInv, [Next]_vars PROVE SizeInv'
  OBVIOUS
<1>0. /\ XmitSize \in Int /\ XmitSize >= 2
      /\ head \in Int /\ 0 <= head /\ head < XmitSize
      /\ tail \in Int /\ 0 <= tail /\ tail < XmitSize
      /\ cnt \in Int /\ 0 <= cnt /\ cnt < XmitSize
      /\ Slots = 0 .. XmitSize - 1
  BY RingInts DEF SizeInv, Slots
<1> USE DEF SizeInv
<1>1. CASE FlushRing
  <2>1. /\ cnt' = 0 /\ head' = 0 /\ tail' = 0 /\ UNCHANGED <<xbuf, accepted, w, woken>>
    BY <1>1 DEF FlushRing, writer
  <2>2. RingType' /\ Distance'
    BY <1>0, <2>1 DEF RingType, Distance
  <2>3. w.c \in Int /\ (w.c <= XmitSize - 1 - cnt => w.c <= XmitSize - 1)
    BY <1>0 DEF WriterType
  <2> QED
    BY <1>0, <2>1, <2>2, <2>3 DEF WriterType, RoomInv
<1>2. CASE FlushRead \/ (\E on \in BOOLEAN : TtyFlow(on)) \/ Stop \/ Start
           \/ TtyThrottle \/ Throttle \/ SetRts \/ TtyUnthrottle \/ UnthrottleTest
           \/ UnthrottleSend \/ UnthrottleClear \/ UartSend
           \/ (\E src \in {"rx", "tx", "msr"} : IsrIir(src))
           \/ (\E low \in BOOLEAN : ReceiveChars(low)) \/ UNCHANGED vars
  <2>1. UNCHANGED <<ring, writer>>
    BY <1>2 DEF FlushRead, TtyFlow, Stop, Start, TtyThrottle, Throttle, SetRts,
       TtyUnthrottle, UnthrottleTest, UnthrottleSend, UnthrottleClear, UartSend,
       IsrIir, ReceiveChars, vars
  <2> QED
    BY <2>1 DEF RingType, WriterType, Distance, RoomInv, ring, writer
<1>3. CASE FlushFifo \/ SoftInt
  <2>1. UNCHANGED <<ring, w>> /\ woken' \in {TRUE, woken \/ event}
    BY <1>3 DEF FlushFifo, SoftInt
  <2> QED
    BY <2>1 DEF RingType, WriterType, Distance, RoomInv, ring
<1>4. ASSUME NEW cts \in BOOLEAN, IsrDirect(cts) \/ IsrPushed(cts) PROVE SizeInv'
  <2>1. /\ UNCHANGED <<xbuf, head, accepted, w, woken>>
        /\ \/ cnt' = cnt /\ tail' = tail
           \/ cnt' = cnt - Burst /\ tail' = Round(tail + Burst)
    BY <1>4 DEF IsrDirect, IsrPushed, IsrPass, TransmitChars, Round, writer
  <2>2. Burst \in Int /\ 0 <= Burst /\ Burst <= cnt
    BY XmitAssumption, <1>0 DEF Burst, Lesser
  <2> HIDE DEF Burst
  <2>4. CASE cnt' = cnt /\ tail' = tail
    BY <2>1, <2>4 DEF RingType, WriterType, Distance, RoomInv
  <2>5. CASE cnt' = cnt - Burst /\ tail' = Round(tail + Burst)
    <3>1. tail + Burst \in Int /\ 0 <= tail + Burst /\ tail + Burst < 2 * XmitSize
      BY <1>0, <2>2
    <3>2. \/ tail' = tail + Burst /\ tail + Burst < XmitSize
          \/ tail' = tail + Burst - XmitSize /\ tail + Burst >= XmitSize
      <4>1. /\ tail + Burst < XmitSize => Round(tail + Burst) = tail + Burst
            /\ tail + Burst >= XmitSize => Round(tail + Burst) = tail + Burst - XmitSize
        BY <1>0, <2>2, <3>1, OnceRound
      <4> QED
        BY <1>0, <2>5, <3>1, <4>1
    <3>3. /\ tail' \in Int /\ 0 <= tail' /\ tail' < XmitSize
          /\ cnt' \in Int /\ 0 <= cnt' /\ cnt' <= cnt
      BY <1>0, <2>2, <2>5, <3>2
    <3>4. RingType'
      BY <1>0, <2>1, <3>3 DEF RingType
    <3>5. Distance'
      BY <1>0, <2>1, <2>2, <2>5, <3>2 DEF Distance
    <3> QED
      BY <1>0, <2>1, <3>3, <3>4, <3>5 DEF WriterType, RoomInv
  <2> QED
    BY <2>1, <2>4, <2>5
<1> QED
  BY <1>1, <1>2, <1>3, <1>4, SizeWriter DEF Next, Threads, Interrupt, SizeInv

-----------------------------------------------------------------------------
(* The interrupt: queued bytes are on their way. *)

\* An idle handler has read nothing; a transmitter interrupt, latched in the
\* UART or taken by the handler, means that the FIFO is empty, and nobody but
\* the handler fills it; tty->stopped is what the thread in mxser_stop or
\* mxser_start was called for.
IntInv ==
    /\ thrInt => fifo = <<>> /\ thri
    /\ isr.pc = "idle" => isr.iir = "none"
    /\ isr.iir = "tx" => fifo = <<>> /\ (isr.pc = "push" => isr.lsr)
    /\ isr.pc = "push" /\ isr.lsr => fifo = <<>>
    /\ spc = "stop" => stopped
    /\ spc = "start" => ~stopped

Kicks ==
    \/ w.pc \in {"room", "copy", "advance", "test", "putTest", "kick"}
    \/ spc # "idle"

\* With bytes queued and output not held, a thread is about to toggle the
\* interrupt, or it is enabled and on its way: latched, due when the FIFO runs
\* empty, in the handler's hands, or read away by a flush.
StallInv ==
    cnt > 0 /\ ~Held =>
        Kicks \/ (thri /\ (thrInt \/ fifo # <<>> \/ isr.iir = "tx" \/ lostInt))

FlagType ==
    /\ chip \in [must : BOOLEAN, auto : BOOLEAN]
    /\ thri \in BOOLEAN /\ thrInt \in BOOLEAN
    /\ stopped \in BOOLEAN /\ hwStopped \in BOOLEAN /\ lostInt \in BOOLEAN
    /\ spc \in {"idle", "stop", "start"}
    /\ isr \in [pc : {"idle", "iir", "push"}, iir : {"none", "rx", "tx", "msr"},
                lsr : BOOLEAN]

CtlInv == FlagType /\ IntInv /\ StallInv

\* An idle port has nothing queued.
LEMMA CtlInit == Init => CtlInv
<1> SUFFICES ASSUME Init PROVE CtlInv
  OBVIOUS
<1>1. FlagType
  BY XmitAssumption DEF Init, FlagType, NoIsr
<1>2. IntInv /\ StallInv
  BY DEF Init, IntInv, StallInv, NoIsr
<1> QED
  BY <1>1, <1>2 DEF CtlInv

\* What the handler takes from a ring that is not empty is not nothing, and
\* the UART keeps at least the last of it.
LEMMA TakesSome ==
    ASSUME NEW q \in Seq(Int), q # <<>>
    PROVE  FifoTakes(q) # <<>> /\ FifoTakes(q) \in Seq(Int)
<1>1. Len(q) \in 1 .. Len(q) /\ q[Len(q)] \in Int
  OBVIOUS
<1> QED
  BY <1>1 DEF FifoTakes

\* What the handler takes from a ring that is not empty is not nothing.
LEMMA BurstSome ==
    ASSUME SizeInv, cnt > 0
    PROVE  /\ Burst \in Int /\ 0 < Burst /\ Burst <= cnt
           /\ BurstBytes \in Seq(Int) /\ BurstBytes # <<>> /\ Len(BurstBytes) = Burst
<1>0. /\ XmitSize \in Nat /\ XmitSize > 0 /\ tail \in Int /\ 0 <= tail
      /\ cnt \in Int /\ xbuf \in [Slots -> Nat]
  BY RingInts DEF SizeInv, RingType
<1>1. Burst \in Int /\ 0 < Burst /\ Burst <= cnt
  BY <1>0, XmitAssumption DEF Burst, Lesser
<1> HIDE DEF Burst
<1>2. ASSUME NEW i \in 1 .. Burst
      PROVE  xbuf[(tail + i - 1) % XmitSize] \in Int
  <2>1. (tail + i - 1) \in Int
    BY <1>0, <1>1
  <2>2. (tail + i - 1) % XmitSize \in Slots
    BY <1>0, <2>1 DEF Slots
  <2> QED
    BY <1>0, <2>2
<1>3. BurstBytes \in [1 .. Burst -> Int] /\ Burst \in Nat
  BY <1>1, <1>2 DEF BurstBytes
<1>4. BurstBytes \in Seq(Int) /\ Len(BurstBytes) = Burst
  BY <1>3
<1> QED
  BY <1>1, <1>4

\* What the handler decides in a pass: whether it serves the transmitter, whether
\* it finds the output held, whether it sends data, and whether it turns the
\* interrupt off.
PassTx(lsr) == lsr /\ (chip.must => isr.iir = "tx")
PassHeld(cts) == stopped \/ (~cts /\ ~chip.auto)
PassData(lsr, cts) == PassTx(lsr) /\ xchar = None /\ cnt > 0 /\ ~PassHeld(cts)
PassQuiet(lsr, cts) == PassTx(lsr) /\ xchar = None /\ cnt > 0 /\ PassHeld(cts)

\* What becomes of the FIFO, the ring and the flags in a pass.
LEMMA PassFacts ==
    ASSUME SizeInv, NEW lsr \in BOOLEAN, NEW cts \in BOOLEAN, IsrPass(lsr, cts),
           xchar \in Int
    PROVE  /\ PassTx(lsr) /\ xchar # None => fifo' # <<>>
           /\ PassData(lsr, cts) => fifo' # <<>>
           /\ ~(PassTx(lsr) /\ xchar # None) /\ ~PassData(lsr, cts) => fifo' = fifo
           /\ ~PassData(lsr, cts) => cnt' = cnt
           /\ thri' <=> (CtsThri(cts) /\ ~PassQuiet(lsr, cts))
           /\ thrInt' <=> (CtsInt(cts) /\ ~PassQuiet(lsr, cts) /\ fifo' = <<>>)
           /\ hwStopped' <=> ~cts
           /\ lostInt' <=> (lostInt /\ ~PassData(lsr, cts) /\ ~(CtsInt(cts) /\ ~thrInt))
           /\ thri' \in BOOLEAN /\ thrInt' \in BOOLEAN /\ hwStopped' \in BOOLEAN
           /\ lostInt' \in BOOLEAN
           /\ isr' = [pc |-> "idle", iir |-> "none", lsr |-> FALSE]
           /\ UNCHANGED <<chip, w, stopped, spc>>
<1> USE DEF PassTx, PassData, PassQuiet, PassHeld
<1>1. FifoTakes(<<xchar>>) # <<>>
  <2>1. <<xchar>> \in Seq(Int) /\ <<xchar>> # <<>>
    OBVIOUS
  <2> QED
    BY <2>1, TakesSome
<1>2. cnt > 0 => FifoTakes(BurstBytes) # <<>>
  BY TakesSome, BurstSome
<1>3. fifo' = IF PassTx(lsr) /\ xchar # None THEN FifoTakes(<<xchar>>)
              ELSE IF PassData(lsr, cts) THEN FifoTakes(BurstBytes) ELSE fifo
  BY DEF IsrPass, TransmitChars
<1>4. cnt' = IF PassData(lsr, cts) THEN cnt - Burst ELSE cnt
  BY DEF IsrPass, TransmitChars
<1>5. thri' = (CtsThri(cts) /\ ~PassQuiet(lsr, cts))
  BY DEF IsrPass, TransmitChars
<1>6. thrInt' = (CtsInt(cts) /\ ~PassQuiet(lsr, cts) /\ fifo' = <<>>)
  BY DEF IsrPass, TransmitChars
<1>7. hwStopped' = ~cts
  BY DEF IsrPass, TransmitChars, CtsHw
<1>8. lostInt' = (lostInt /\ ~PassData(lsr, cts) /\ ~(CtsInt(cts) /\ ~thrInt))
  BY DEF IsrPass, TransmitChars
<1>9. isr' = [pc |-> "idle", iir |-> "none", lsr |-> FALSE] /\ UNCHANGED <<chip, w, stopped, spc>>
  BY DEF IsrPass, NoIsr, wire, writer
<1>10. /\ thri' \in BOOLEAN /\ thrInt' \in BOOLEAN /\ hwStopped' \in BOOLEAN
       /\ lostInt' \in BOOLEAN
  BY <1>5, <1>6, <1>7, <1>8, Zenon
<1> HIDE DEF PassTx, PassData, PassQuiet, PassHeld
<1>11. PassData(lsr, cts) => cnt > 0 /\ xchar = None
  BY DEF PassData
<1> QED
  BY <1>1, <1>2, <1>3, <1>4, <1>5, <1>6, <1>7, <1>8, <1>9, <1>10, <1>11

\* No step leaves queued bytes behind.
LEMMA CtlStep == SizeInv /\ RecvInv /\ CtlInv /\ [Next]_vars => CtlInv'
<1> SUFFICES ASSUME SizeInv, RecvInv, CtlInv, [Next]_vars PROVE CtlInv'
  OBVIOUS
<1>0. cnt \in Int /\ cnt >= 0 /\ w \in [pc : WriterPcs, rem : Nat, c : Nat, got : BOOLEAN]
  BY RingInts DEF SizeInv, WriterType
<1> USE DEF CtlInv, FlagType, IntInv, StallInv, Kicks, Held, wire, tty, uart, other, hist,
            ring, writer
<1>1. CASE (\E n \in 1 .. MaxReq : WriteBegin(n)) \/ WriteRoom \/ PutBegin \/ FlushChars
  <2>1. \/ w'.pc \in {"room", "copy", "test", "kick"}
        \/ w.pc = "idle" /\ w'.pc = "put"
    BY <1>0, <1>1 DEF WriteBegin, WriteRoom, PutBegin, FlushChars, Idle
  <2>2. UNCHANGED <<chip, thri, thrInt, fifo, stopped, hwStopped, lostInt, spc, isr, cnt>>
    BY <1>1 DEF WriteBegin, WriteRoom, PutBegin, FlushChars
  <2> QED
    BY <2>1, <2>2
<1>2. CASE WriteCopy \/ WriteAdvance \/ PutInsert \/ WriteRetry
  <2>1. w'.pc \in {"advance", "room", "putTest"}
    BY <1>0, <1>2 DEF WriteCopy, WriteAdvance, PutInsert, WriteRetry
  <2>2. UNCHANGED <<chip, thri, thrInt, fifo, stopped, hwStopped, lostInt, spc, isr>>
    BY <1>2 DEF WriteCopy, WriteAdvance, PutInsert, WriteRetry
  <2> QED
    BY <2>1, <2>2
<1>3. CASE WriteTest
  BY <1>3 DEF WriteTest, WriteReturns, Idle
<1>4. CASE WriteKick
  BY <1>4 DEF WriteKick, Kick
<1>5. CASE FlushRing
  BY <1>5 DEF FlushRing
<1>6. CASE FlushRead
  <2>1. UNCHANGED <<chip, thri, fifo, stopped, hwStopped, spc, isr, cnt, w>>
    BY <1>6 DEF FlushRead
  <2>2. CASE UNCHANGED <<thrInt, lostInt>>
    BY <2>1, <2>2
  <2>3. CASE thrInt' = FALSE /\ lostInt' = TRUE
    BY <2>1, <2>3
  <2> QED
    BY <1>6, <2>2, <2>3 DEF FlushRead
<1>7. CASE FlushFifo
  BY <1>7 DEF FlushFifo
<1>8. CASE \E on \in BOOLEAN : TtyFlow(on)
  BY <1>8 DEF TtyFlow
<1>9. CASE Stop
  BY <1>9 DEF Stop
<1>10. CASE Start
  BY <1>10 DEF Start, Kick
<1>11. CASE TtyThrottle \/ SetRts \/ TtyUnthrottle \/ UnthrottleTest \/ UnthrottleClear
            \/ SoftInt
  BY <1>11 DEF TtyThrottle, SetRts, TtyUnthrottle, UnthrottleTest, UnthrottleClear, SoftInt
<1>12. CASE Throttle \/ UnthrottleSend
  <2>1. UNCHANGED <<chip, w, cnt, stopped, hwStopped, spc, isr>>
    BY <1>12 DEF Throttle, UnthrottleSend
  <2>2. UNCHANGED <<uart, hist>> \/ Kick
    BY <1>12 DEF Throttle, UnthrottleSend, StopRx
  <2>3. CASE UNCHANGED <<uart, hist>>
    BY <2>1, <2>3
  <2>4. CASE Kick
    BY <2>1, <2>4 DEF Kick
  <2> QED
    BY <2>2, <2>3, <2>4
<1>13. CASE \E src \in {"rx", "tx", "msr"} : IsrIir(src)
  <2>1. PICK src \in {"rx", "tx", "msr"} : IsrIir(src)
    BY <1>13
  <2>2. /\ UNCHANGED <<chip, w, cnt, stopped, hwStopped, spc, thri, fifo, lostInt>>
        /\ isr.pc = "idle" /\ isr' = [pc |-> "iir", iir |-> src, lsr |-> FALSE]
    BY <2>1 DEF IsrIir, NoIsr
  <2>3. \/ src = "tx" /\ thrInt /\ ~thrInt'
        \/ src # "tx" /\ thrInt' = thrInt
    BY <2>1 DEF IsrIir
  <2>4. CASE src = "tx" /\ thrInt /\ ~thrInt'
    <3>1. thrInt' \in BOOLEAN
      BY <2>1, <2>4, Zenon DEF IsrIir
    <3> QED
      BY <2>2, <2>4, <3>1
  <2>5. CASE src # "tx" /\ thrInt' = thrInt
    BY <2>2, <2>5
  <2> QED
    BY <2>3, <2>4, <2>5
<1>14. CASE \E low \in BOOLEAN : ReceiveChars(low)
  <2>1. /\ UNCHANGED <<chip, w, cnt, stopped, hwStopped, spc>>
        /\ isr.pc = "iir" /\ isr' = [isr EXCEPT !.pc = "push", !.lsr = (fifo = <<>>)]
    BY <1>14 DEF ReceiveChars
  <2>2. UNCHANGED <<uart, hist>> \/ Kick
    BY <1>14 DEF ReceiveChars, StopRx
  <2>3. CASE UNCHANGED <<uart, hist>>
    BY <2>1, <2>3
  <2>4. CASE Kick
    BY <2>1, <2>4 DEF Kick
  <2> QED
    BY <2>2, <2>3, <2>4
<1>15. ASSUME NEW cts \in BOOLEAN, IsrDirect(cts) \/ IsrPushed(cts) PROVE CtlInv'
  <2>1. PICK lsr \in BOOLEAN : IsrPass(lsr, cts) /\ (lsr => fifo = <<>>)
                               /\ (isr.iir = "tx" => lsr)
    BY <1>15 DEF IsrDirect, IsrPushed
  <2>2. xchar \in Int
    BY DEF RecvInv, RecvType, None, Xoff, Xon
  <2>3. /\ PassTx(lsr) /\ xchar # None => fifo' # <<>>
        /\ PassData(lsr, cts) => fifo' # <<>>
        /\ ~(PassTx(lsr) /\ xchar # None) /\ ~PassData(lsr, cts) => fifo' = fifo
        /\ ~PassData(lsr, cts) => cnt' = cnt
        /\ thri' <=> (CtsThri(cts) /\ ~PassQuiet(lsr, cts))
        /\ thrInt' <=> (CtsInt(cts) /\ ~PassQuiet(lsr, cts) /\ fifo' = <<>>)
        /\ hwStopped' <=> ~cts
        /\ lostInt' <=> (lostInt /\ ~PassData(lsr, cts) /\ ~(CtsInt(cts) /\ ~thrInt))
        /\ thri' \in BOOLEAN /\ thrInt' \in BOOLEAN /\ hwStopped' \in BOOLEAN
        /\ lostInt' \in BOOLEAN
        /\ isr' = [pc |-> "idle", iir |-> "none", lsr |-> FALSE]
        /\ UNCHANGED <<chip, w, stopped, spc>>
    BY <2>1, <2>2, PassFacts
  <2>4. FlagType'
    BY <2>3
  <2>5. IntInv'
    BY <2>1, <2>3 DEF CtsThri, CtsInt
  <2>6. StallInv'
    BY <1>0, <2>1, <2>3 DEF CtsThri, CtsInt, PassTx, PassData, PassQuiet, PassHeld
  <2> QED
    BY <2>4, <2>5, <2>6
<1>16. CASE UartSend
  BY <1>16 DEF UartSend
<1>17. CASE UNCHANGED vars
  BY <1>17 DEF vars
<1> QED
  BY <1>1, <1>2, <1>3, <1>4, <1>5, <1>6, <1>7, <1>8, <1>9, <1>10, <1>11, <1>12, <1>13,
     <1>14, <1>15, <1>16, <1>17 DEF Next, Writer, Threads, Interrupt

\* Queued bytes whose output is not held never lie in the ring with nobody to
\* fetch them: mxser_write and mxser_start test the flags outside the lock and no
\* restart is lost, unless a flush reads the interrupt away.
THEOREM NoStallHolds == Spec => []NoStall
<1>1. Init => SizeInv /\ RecvInv /\ CtlInv
  BY SizeInit, RecvInit, CtlInit
<1>2. SizeInv /\ RecvInv /\ CtlInv /\ [Next]_vars => (SizeInv /\ RecvInv /\ CtlInv)'
  BY SizeStep, RecvStep, CtlStep
<1>3. CtlInv => NoStall
  BY DEF CtlInv, FlagType, IntInv, StallInv, NoStall, Kicks, WillKick
<1> QED
  BY <1>1, <1>2, <1>3, PTL DEF Spec

-----------------------------------------------------------------------------
(* The wake-up of a writer that found the ring full. *)

\* A writer that took nothing and is on its way to sleep found the ring full:
\* it is full enough still, or the wake-up is on its way.
WakeInv ==
    /\ w.pc = "asleep" => ~w.got /\ w.rem > 0
    /\ w.pc \in {"test", "kick", "asleep"} /\ ~w.got /\ w.rem > 0 =>
           woken \/ (work /\ event) \/ fpc # "idle" \/ cnt >= WakeupChars

\* No step takes the wake-up away from a writer that is about to sleep.
LEMMA WakeStep == SizeInv /\ WakeInv /\ [Next]_vars => WakeInv'
<1> SUFFICES ASSUME SizeInv, WakeInv, [Next]_vars PROVE WakeInv'
  OBVIOUS
<1>0. /\ cnt \in Int /\ cnt >= 0 /\ XmitSize \in Int /\ cnt < XmitSize
      /\ WakeupChars \in Int /\ WakeupChars < XmitSize
      /\ head \in Int /\ head < XmitSize
      /\ w \in [pc : WriterPcs, rem : Nat, c : Nat, got : BOOLEAN] /\ RoomInv
  BY RingInts, XmitAssumption DEF SizeInv, WriterType
<1> USE DEF WakeInv, tty, other, ring, writer
<1>1. CASE (\E n \in 1 .. MaxReq : WriteBegin(n)) \/ PutBegin \/ WriteRetry
           \/ WriteCopy \/ WriteAdvance \/ PutInsert
  <2>1. w'.pc \in {"room", "put", "advance", "putTest"}
    BY <1>0, <1>1 DEF WriteBegin, PutBegin, WriteRetry, WriteCopy, WriteAdvance, PutInsert, Idle
  <2> QED
    BY <2>1
<1>2. CASE FlushChars
  BY <1>2 DEF FlushChars, Idle
<1>3. CASE WriteRoom
  <2>1. \/ w'.pc = "copy"
        \/ w' = [w EXCEPT !.pc = "test"] /\ WriteChunk <= 0
    BY <1>0, <1>3 DEF WriteRoom
  <2>2. WriteChunk <= 0 => w.rem = 0 \/ cnt >= WakeupChars
    BY <1>0 DEF WriteChunk, Lesser
  <2>3. cnt' = cnt
    BY <1>3 DEF WriteRoom
  <2> QED
    BY <1>0, <2>1, <2>2, <2>3
<1>4. CASE WriteTest \/ WriteKick
  <2>1. w' \in {[w EXCEPT !.pc = "kick"], WriteReturns} /\ w.pc \in {"test", "putTest", "kick"}
    BY <1>4 DEF WriteTest, WriteKick
  <2>2. UNCHANGED <<cnt, woken, work, event, fpc>>
    BY <1>4 DEF WriteTest, WriteKick
  <2> QED
    <3>1. w.pc = "putTest" => w.rem = 0
      BY <1>0 DEF RoomInv
    <3>2. CASE w' = [w EXCEPT !.pc = "kick"]
      BY <1>0, <2>1, <2>2, <3>1, <3>2
    <3>3. CASE w' = WriteReturns
      BY <1>0, <2>1, <2>2, <3>1, <3>3 DEF WriteReturns, Idle
    <3> QED
      BY <2>1, <3>2, <3>3
<1>5. CASE FlushRing \/ FlushRead
  BY <1>5 DEF FlushRing, FlushRead
<1>6. CASE FlushFifo
  BY <1>6 DEF FlushFifo
<1>7. CASE SoftInt
  BY <1>7 DEF SoftInt
<1>8. CASE (\E on \in BOOLEAN : TtyFlow(on)) \/ Stop \/ Start \/ TtyThrottle \/ Throttle
           \/ SetRts \/ TtyUnthrottle \/ UnthrottleTest \/ UnthrottleSend \/ UnthrottleClear
           \/ (\E src \in {"rx", "tx", "msr"} : IsrIir(src))
           \/ (\E low \in BOOLEAN : ReceiveChars(low)) \/ UartSend \/ UNCHANGED vars
  <2>1. UNCHANGED <<w, cnt, woken, work, event, fpc>>
    BY <1>8 DEF TtyFlow, Stop, Start, TtyThrottle, Throttle, SetRts, TtyUnthrottle,
       UnthrottleTest, UnthrottleSend, UnthrottleClear, IsrIir, ReceiveChars, UartSend, vars
  <2> QED
    BY <2>1
<1>9. ASSUME NEW lsr, NEW cts \in BOOLEAN, IsrPass(lsr, cts) PROVE WakeInv'
  <2>1. UNCHANGED <<w, woken, fpc>>
    BY <1>9 DEF IsrPass
  <2>2. /\ cnt' = IF PassData(lsr, cts) THEN cnt - Burst ELSE cnt
        /\ PassData(lsr, cts) => /\ cnt - Burst < WakeupChars => event' /\ work'
        /\ (event => event') /\ (work => work')
    BY <1>9 DEF IsrPass, TransmitChars, PassData, PassTx, PassHeld
  <2>3. Burst \in Int
    BY <1>0, XmitAssumption DEF Burst, Lesser
  <2> HIDE DEF Burst
  <2> QED
    BY <1>0, <2>1, <2>2, <2>3
<1>10. CASE \E cts \in BOOLEAN : IsrDirect(cts) \/ IsrPushed(cts)
  <2>1. PICK cts \in BOOLEAN : IsrDirect(cts) \/ IsrPushed(cts)
    BY <1>10
  <2>2. CASE IsrDirect(cts)
    BY <2>2, <1>9 DEF IsrDirect
  <2>3. CASE IsrPushed(cts)
    BY <2>3, <1>9 DEF IsrPushed
  <2> QED
    BY <2>1, <2>2, <2>3
<1> QED
  BY <1>1, <1>2, <1>3, <1>4, <1>5, <1>6, <1>7, <1>8, <1>10
  DEF Next, Writer, Threads, Interrupt

\* A writer put to sleep by a full ring is woken, whatever the handler, the work
\* item and a flush do between its last look at the ring and its sleep.
THEOREM NoLostWakeupHolds == Spec => []NoLostWakeup
<1>1. Init => WakeInv
  BY DEF Init, WakeInv, Idle
<1>2. WakeInv => NoLostWakeup
  BY DEF WakeInv, NoLostWakeup
<1> QED
  BY <1>1, <1>2, SizeInit, SizeStep, WakeStep, PTL DEF Spec

-----------------------------------------------------------------------------
(* The bytes: what the ring, the FIFO and the wire hold. *)

\* How far behind xmit_tail a slot of the ring lies.
Index(s) == IF s >= tail THEN s - tail ELSE s - tail + XmitSize

\* The slots from xmit_tail on hold the newest xmit_cnt bytes in their order.
SlotInv == \A s \in Slots : Index(s) < cnt => xbuf[s] = accepted - cnt + 1 + Index(s)

\* What mxser_write has copied outside the lock lies where xmit_head points.
CopyInv ==
    w.pc = "advance" =>
        \A s \in Slots : s - head \in 0 .. w.c - 1 => xbuf[s] = accepted + 1 + s - head

\* The FIFO's data bytes are newer than what was sent, older than what the ring
\* holds, and in order.
FifoInv ==
    /\ last <= accepted - cnt
    /\ \A i \in 1 .. Len(fifo) : fifo[i] > 0 => last < fifo[i] /\ fifo[i] <= accepted - cnt
    /\ \A i, j \in 1 .. Len(fifo) :
           i < j /\ fifo[i] > 0 /\ fifo[j] > 0 => fifo[i] < fifo[j]

ByteType == fifo \in Seq(Int) /\ last \in Nat /\ torn \in BOOLEAN

ByteInv == ByteType /\ (~torn => SlotInv /\ CopyInv /\ FifoInv)

\* No byte was accepted yet.
LEMMA ByteInit == Init => ByteInv
<1> SUFFICES ASSUME Init PROVE ByteInv
  OBVIOUS
<1>0. fifo = <<>> /\ last = 0 /\ torn = FALSE /\ w.pc = "idle"
  BY DEF Init, Idle
<1>1. CopyInv
  BY <1>0 DEF CopyInv
<1>2. SlotInv
  BY XmitAssumption DEF Init, SlotInv, Index, Slots
<1>3. FifoInv
  BY DEF Init, FifoInv
<1>4. last \in Nat /\ fifo \in Seq(Int)
  BY <1>0
<1>5. torn \in BOOLEAN
  BY <1>0, Zenon
<1> QED
  BY <1>1, <1>2, <1>3, <1>4, <1>5, Zenon DEF ByteInv, ByteType

\* The writer fills the slots behind xmit_head and counts them afterwards.
LEMMA ByteWriter == SizeInv /\ ByteInv /\ Writer => ByteInv'
<1> SUFFICES ASSUME SizeInv, ByteInv, Writer PROVE ByteInv'
  OBVIOUS
<1>0. /\ XmitSize \in Int /\ XmitSize >= 2
      /\ head \in Int /\ 0 <= head /\ head < XmitSize
      /\ tail \in Int /\ 0 <= tail /\ tail < XmitSize
      /\ cnt \in Int /\ 0 <= cnt /\ cnt < XmitSize
      /\ accepted \in Int /\ 0 <= accepted /\ Distance
      /\ Slots = 0 .. XmitSize - 1 /\ xbuf \in [Slots -> Nat]
      /\ w \in [pc : WriterPcs, rem : Nat, c : Nat, got : BOOLEAN] /\ RoomInv
  BY RingInts DEF SizeInv, RingType, WriterType, Slots
<1>1. PICK k \in Nat : k = w.c
  BY <1>0
<1>2. UNCHANGED <<fifo, last, torn, tail>>
  BY DEF Writer, WriteBegin, WriteRoom, WriteCopy, WriteAdvance, PutBegin, PutInsert,
     FlushChars, WriteTest, WriteKick, WriteRetry, Kick, ring, uart, wire, hist
<1>3. ByteType'
  BY <1>2 DEF ByteInv, ByteType
<1> SUFFICES ASSUME ~torn PROVE SlotInv' /\ CopyInv' /\ FifoInv'
  BY <1>2, <1>3 DEF ByteInv
<1>4. SlotInv /\ CopyInv /\ FifoInv /\ ByteType
  BY DEF ByteInv
<1>5. ASSUME UNCHANGED ring, w'.pc # "advance" PROVE SlotInv' /\ CopyInv' /\ FifoInv'
  BY <1>2, <1>4, <1>5 DEF ring, SlotInv, Index, CopyInv, FifoInv
<1>6. CASE (\E n \in 1 .. MaxReq : WriteBegin(n)) \/ WriteRoom \/ PutBegin \/ FlushChars
           \/ WriteTest \/ WriteKick \/ WriteRetry
  <2>1. UNCHANGED ring
    BY <1>6 DEF WriteBegin, WriteRoom, PutBegin, FlushChars, WriteTest, WriteKick, WriteRetry
  <2>2. w'.pc # "advance"
    <3>1. WriteReturns.pc # "advance"
      BY <1>0 DEF WriteReturns, Idle
    <3> HIDE DEF WriteReturns
    <3> QED
      BY <1>0, <1>6, <3>1 DEF WriteBegin, WriteRoom, PutBegin, FlushChars, WriteTest,
         WriteKick, WriteRetry, Idle
  <2> QED
    BY <1>5, <2>1, <2>2
<1>7. CASE WriteCopy
  <2>1. /\ xbuf' = [s \in Slots |-> IF s - head \in 0 .. k - 1
                                    THEN accepted + 1 + s - head ELSE xbuf[s]]
        /\ UNCHANGED <<head, cnt, accepted>>
    BY <1>1, <1>7 DEF WriteCopy
  <2>2. k <= XmitSize - 1 - cnt /\ k <= XmitSize - head /\ w'.c = k
    BY <1>0, <1>1, <1>7 DEF WriteCopy, RoomInv
  <2>3. ASSUME NEW s \in Slots, Index(s) < cnt PROVE ~(s - head \in 0 .. k - 1)
    BY <1>0, <2>2, <2>3 DEF Distance, Index
  <2>4. SlotInv'
    <3>1. \A s \in Slots : Index(s)' = Index(s)
      BY <1>2 DEF Index
    <3> QED
      BY <1>0, <1>2, <1>4, <2>1, <2>3, <3>1 DEF SlotInv
  <2>5. CopyInv'
    BY <1>0, <2>1, <2>2 DEF CopyInv
  <2>6. FifoInv'
    BY <1>2, <1>4, <2>1 DEF FifoInv
  <2> QED
    BY <2>4, <2>5, <2>6
<1>8. CASE WriteAdvance
  <2>1. /\ head' = Round(head + k) /\ cnt' = cnt + k
        /\ accepted' = accepted + k /\ xbuf' = xbuf
    BY <1>1, <1>8 DEF WriteAdvance, Round
  <2>2. k <= XmitSize - 1 - cnt /\ k <= XmitSize - head /\ w'.pc # "advance"
    BY <1>0, <1>1, <1>8 DEF WriteAdvance, RoomInv
  <2>3. \A s \in Slots : s - head \in 0 .. k - 1 => xbuf[s] = accepted + 1 + s - head
    BY <1>1, <1>4, <1>8 DEF WriteAdvance, CopyInv
  <2>4. ASSUME NEW s \in Slots, Index(s) < cnt + k
        PROVE  xbuf[s] = accepted - cnt + 1 + Index(s)
    <3>1. CASE Index(s) < cnt
      BY <1>4, <3>1 DEF SlotInv
    <3>2. CASE Index(s) >= cnt
      <4>1. s - head \in 0 .. k - 1 /\ Index(s) = s - head + cnt
        BY <1>0, <2>2, <2>4, <3>2 DEF Index, Distance
      <4>2. xbuf[s] = accepted + 1 + s - head
        BY <2>3, <4>1
      <4> QED
        BY <1>0, <4>1, <4>2
    <3>3. Index(s) \in Int
      BY <1>0 DEF Index
    <3> QED
      BY <1>0, <3>1, <3>2, <3>3
  <2>5. SlotInv'
    <3>1. \A s \in Slots : Index(s)' = Index(s)
      BY <1>2 DEF Index
    <3>2. accepted' - cnt' = accepted - cnt
      BY <1>0, <2>1
    <3> QED
      BY <1>0, <2>1, <2>4, <3>1, <3>2 DEF SlotInv
  <2>6. CopyInv'
    BY <2>2 DEF CopyInv
  <2>7. FifoInv'
    <3>1. accepted' - cnt' = accepted - cnt
      BY <1>0, <2>1
    <3> QED
      BY <1>2, <1>4, <3>1 DEF FifoInv
  <2> QED
    BY <2>5, <2>6, <2>7
<1>9. CASE PutInsert
  <2>1. /\ xbuf' = [xbuf EXCEPT ![head] = accepted + 1]
        /\ cnt' = cnt + 1 /\ accepted' = accepted + 1
    BY <1>9 DEF PutInsert
  <2>2. cnt < XmitSize - 1 /\ w'.pc # "advance"
    BY <1>0, <1>9 DEF PutInsert, RoomInv
  <2>3. accepted' - cnt' = accepted - cnt
    BY <1>0, <2>1
  <2>4. ASSUME NEW s \in Slots, Index(s) < cnt + 1
        PROVE  xbuf'[s] = accepted - cnt + 1 + Index(s)
    <3>1. CASE s = head
      <4>1. Index(s) = cnt
        BY <1>0, <2>2, <3>1 DEF Index, Distance
      <4> QED
        BY <1>0, <2>1, <3>1, <4>1
    <3>2. CASE s # head
      <4>1. Index(s) < cnt
        BY <1>0, <2>2, <2>4, <3>2 DEF Index, Distance
      <4>2. xbuf[s] = accepted - cnt + 1 + Index(s)
        BY <1>4, <4>1 DEF SlotInv
      <4> QED
        BY <1>0, <2>1, <3>2, <4>2
    <3> QED
      BY <3>1, <3>2
  <2>5. SlotInv'
    <3>1. \A s \in Slots : Index(s)' = Index(s)
      BY <1>2 DEF Index
    <3> QED
      BY <1>0, <2>1, <2>3, <2>4, <3>1 DEF SlotInv
  <2>6. CopyInv'
    BY <2>2 DEF CopyInv
  <2>7. FifoInv'
    BY <1>2, <1>4, <2>3 DEF FifoInv
  <2> QED
    BY <2>5, <2>6, <2>7
<1> QED
  BY <1>6, <1>7, <1>8, <1>9 DEF Writer

\* A pass of the handler that sends data moves the oldest bytes of the ring to
\* the FIFO, which it found empty.
LEMMA ByteSend ==
    ASSUME SizeInv, ByteType, SlotInv, FifoInv, cnt > 0,
           fifo' = FifoTakes(BurstBytes), last' = last,
           cnt' = cnt - Burst, tail' = (tail + Burst) % XmitSize,
           UNCHANGED <<xbuf, head, accepted>>
    PROVE  SlotInv' /\ FifoInv' /\ fifo' \in Seq(Int)
<1>0. /\ XmitSize \in Int /\ XmitSize >= 2
      /\ tail \in Int /\ 0 <= tail /\ tail < XmitSize
      /\ cnt \in Int /\ 0 <= cnt /\ cnt < XmitSize
      /\ accepted \in Int /\ 0 <= accepted /\ last \in Int
      /\ Slots = 0 .. XmitSize - 1
  BY RingInts DEF SizeInv, Slots, ByteType
<1>1. /\ Burst \in Int /\ 0 < Burst /\ Burst <= cnt
      /\ BurstBytes \in Seq(Int) /\ BurstBytes # <<>> /\ Len(BurstBytes) = Burst
  BY BurstSome
<1>2. ASSUME NEW i \in 1 .. Burst PROVE BurstBytes[i] = accepted - cnt + i
  <2>1. PICK x \in Int : x = tail + i - 1
    BY <1>0, <1>1
  <2>2. 0 <= x /\ x < 2 * XmitSize
    BY <1>0, <1>1, <2>1
  <2>3. /\ x < XmitSize => Round(x) = x
        /\ x >= XmitSize => Round(x) = x - XmitSize
        /\ Round(x) \in Slots
    BY <2>2, OnceRound
  <2>4. Index(Round(x)) = i - 1 /\ i - 1 < cnt
    BY <1>0, <1>1, <2>1, <2>2, <2>3 DEF Index
  <2>5. xbuf[Round(x)] = accepted - cnt + 1 + (i - 1)
    BY <2>3, <2>4 DEF SlotInv
  <2>6. BurstBytes[i] = xbuf[Round(x)]
    BY <2>1 DEF BurstBytes, Round
  <2> QED
    BY <1>0, <2>5, <2>6
<1>3. fifo' \in Seq(Int)
  BY <1>1, TakesSome
<1> HIDE DEF Burst, BurstBytes
<1>4. \/ fifo' = BurstBytes
      \/ fifo' = <<BurstBytes[Burst]>>
  BY <1>1 DEF FifoTakes
<1>5. /\ \A i \in 1 .. Len(fifo') : fifo'[i] \in accepted - cnt + 1 .. accepted - cnt + Burst
      /\ \A i, j \in 1 .. Len(fifo') : i < j => fifo'[i] < fifo'[j]
  <2>1. CASE fifo' = BurstBytes
    <3>1. ASSUME NEW i \in 1 .. Len(fifo')
          PROVE  fifo'[i] = accepted - cnt + i /\ i \in Int /\ 1 <= i /\ i <= Burst
      BY <1>1, <1>2, <2>1
    <3> QED
      BY <1>0, <1>1, <3>1
  <2>2. CASE fifo' = <<BurstBytes[Burst]>>
    <3>1. Burst \in 1 .. Burst /\ Len(fifo') = 1 /\ fifo'[1] = BurstBytes[Burst]
      BY <1>1, <2>2
    <3>2. fifo'[1] = accepted - cnt + Burst
      BY <1>2, <3>1
    <3> QED
      BY <1>0, <1>1, <3>1, <3>2
  <2> QED
    BY <1>4, <2>1, <2>2
<1>6. accepted' - cnt' = accepted - cnt + Burst /\ last <= accepted - cnt
  BY <1>0, <1>1 DEF FifoInv
<1>7. FifoInv'
  BY <1>0, <1>1, <1>5, <1>6 DEF FifoInv
<1>8. SlotInv'
  <2>1. PICK x \in Int : x = tail + Burst
    BY <1>0, <1>1
  <2>2. 0 <= x /\ x < 2 * XmitSize
    BY <1>0, <1>1, <2>1
  <2>3. /\ x < XmitSize => Round(x) = x
        /\ x >= XmitSize => Round(x) = x - XmitSize
    BY <2>2, OnceRound
  <2>4. tail' = Round(x)
    BY <2>1 DEF Round
  <2>5. ASSUME NEW s \in Slots, Index(s)' < cnt' PROVE Index(s) = Index(s)' + Burst
    BY <1>0, <1>1, <2>1, <2>2, <2>3, <2>4, <2>5 DEF Index
  <2>6. ASSUME NEW s \in Slots, Index(s)' < cnt'
        PROVE  xbuf'[s] = accepted' - cnt' + 1 + Index(s)'
    <3>1. Index(s) = Index(s)' + Burst
      BY <2>5, <2>6
    <3>2. Index(s)' \in Int
      BY <1>0, <1>1, <2>1, <2>2, <2>3, <2>4 DEF Index
    <3>3. xbuf[s] = accepted - cnt + 1 + Index(s)
      BY <1>0, <1>1, <2>6, <3>1, <3>2 DEF SlotInv
    <3> QED
      BY <1>0, <1>1, <1>6, <3>1, <3>2, <3>3
  <2> QED
    BY <2>6 DEF SlotInv
<1> QED
  BY <1>3, <1>7, <1>8

\* No step disturbs the bytes, until a flush tears a copy apart.
LEMMA ByteStep == SizeInv /\ RecvInv /\ CtlInv /\ ByteInv /\ [Next]_vars => ByteInv'
<1> SUFFICES ASSUME SizeInv, RecvInv, CtlInv, ByteInv, [Next]_vars PROVE ByteInv'
  OBVIOUS
<1>0. /\ cnt \in Int /\ 0 <= cnt /\ accepted \in Int /\ 0 <= accepted
      /\ ByteType /\ fifo \in Seq(Int) /\ last \in Int
  BY RingInts DEF SizeInv, ByteInv, ByteType
<1>1. ASSUME UNCHANGED <<ring, w, fifo, last, torn>> PROVE ByteInv'
  BY <1>1 DEF ring, ByteInv, ByteType, SlotInv, Index, CopyInv, FifoInv
<1>2. CASE FlushRead \/ (\E on \in BOOLEAN : TtyFlow(on)) \/ Stop \/ Start
           \/ TtyThrottle \/ Throttle \/ SetRts \/ TtyUnthrottle \/ UnthrottleTest
           \/ UnthrottleSend \/ UnthrottleClear \/ SoftInt
           \/ (\E src \in {"rx", "tx", "msr"} : IsrIir(src))
           \/ (\E low \in BOOLEAN : ReceiveChars(low)) \/ UNCHANGED vars
  <2>1. UNCHANGED <<ring, w, fifo, last, torn>>
    BY <1>2 DEF FlushRead, TtyFlow, Stop, Start, TtyThrottle, Throttle, SetRts, StopRx, Kick,
       TtyUnthrottle, UnthrottleTest, UnthrottleSend, UnthrottleClear, SoftInt,
       IsrIir, ReceiveChars, vars, writer, wire, hist, uart
  <2> QED
    BY <1>1, <2>1
<1>3. CASE FlushRing
  <2>1. /\ cnt' = 0 /\ head' = 0 /\ tail' = 0 /\ torn' = (torn \/ w.pc = "advance")
        /\ UNCHANGED <<xbuf, accepted, w, fifo, last>>
    BY <1>3 DEF FlushRing, writer, uart, wire
  <2>2. torn' \in BOOLEAN
    BY <2>1, Zenon
  <2>3. ByteType'
    BY <1>0, <2>1, <2>2 DEF ByteType
  <2>4. ASSUME ~torn' PROVE SlotInv' /\ CopyInv' /\ FifoInv'
    <3>1. ~torn /\ w.pc # "advance" /\ FifoInv
      BY <2>1, <2>4 DEF ByteInv
    <3>2. SlotInv'
      BY <2>1, XmitAssumption DEF SlotInv, Index, Slots
    <3>3. CopyInv'
      BY <2>1, <3>1 DEF CopyInv
    <3>4. \A i \in 1 .. Len(fifo) : fifo[i] \in Int
      BY <1>0
    <3>5. FifoInv'
      BY <1>0, <2>1, <3>1, <3>4 DEF FifoInv
    <3> QED
      BY <3>2, <3>3, <3>5
  <2> QED
    BY <2>3, <2>4 DEF ByteInv
<1>4. CASE FlushFifo
  <2>1. fifo' = <<>> /\ UNCHANGED <<ring, w, last, torn>>
    BY <1>4 DEF FlushFifo, wire
  <2>2. fifo' \in Seq(Int) /\ Len(fifo') = 0
    BY <2>1
  <2> QED
    BY <2>1, <2>2 DEF ring, ByteInv, ByteType, SlotInv, Index, CopyInv, FifoInv
<1>5. CASE UartSend
  <2>1. /\ fifo # <<>> /\ fifo' = Tail(fifo)
        /\ last' = IF fifo[1] > 0 THEN fifo[1] ELSE last
        /\ UNCHANGED <<ring, w, torn>>
    BY <1>5 DEF UartSend, writer, hist
  <2>2. /\ Len(fifo) \in Nat /\ Len(fifo) >= 1 /\ Len(fifo') = Len(fifo) - 1
        /\ fifo' \in Seq(Int) /\ fifo[1] \in Int
    BY <1>0, <2>1
  <2>3. ASSUME NEW i \in 1 .. Len(fifo') PROVE fifo'[i] = fifo[i + 1] /\ i + 1 \in 1 .. Len(fifo)
    BY <1>0, <2>1, <2>2
  <2>4. ByteType'
    BY <1>0, <2>1, <2>2 DEF ByteType
  <2>5. ASSUME ~torn' PROVE SlotInv' /\ CopyInv' /\ FifoInv'
    <3>1. SlotInv /\ CopyInv /\ FifoInv
      BY <2>1, <2>5 DEF ByteInv
    <3>2. SlotInv' /\ CopyInv'
      BY <2>1, <3>1 DEF SlotInv, CopyInv, Index, ring
    <3>3. last' <= accepted - cnt
      BY <1>0, <2>1, <2>2, <3>1 DEF FifoInv
    <3>4. ASSUME NEW i \in 1 .. Len(fifo'), fifo'[i] > 0
          PROVE  last' < fifo'[i] /\ fifo'[i] <= accepted - cnt
      <4>1. fifo'[i] = fifo[i + 1] /\ i + 1 \in 1 .. Len(fifo) /\ 1 \in 1 .. Len(fifo) /\ 1 < i + 1
        BY <2>2, <2>3
      <4> QED
        BY <1>0, <2>1, <2>2, <3>1, <3>4, <4>1 DEF FifoInv
    <3>5. ASSUME NEW i \in 1 .. Len(fifo'), NEW j \in 1 .. Len(fifo'), i < j,
                 fifo'[i] > 0, fifo'[j] > 0
          PROVE  fifo'[i] < fifo'[j]
      <4>1. /\ fifo'[i] = fifo[i + 1] /\ i + 1 \in 1 .. Len(fifo)
            /\ fifo'[j] = fifo[j + 1] /\ j + 1 \in 1 .. Len(fifo) /\ i + 1 < j + 1
        BY <2>2, <2>3, <3>5
      <4> QED
        BY <3>1, <3>5, <4>1 DEF FifoInv
    <3>6. UNCHANGED <<accepted, cnt>>
      BY <2>1 DEF ring
    <3> QED
      BY <3>2, <3>3, <3>4, <3>5, <3>6 DEF FifoInv
  <2> QED
    BY <2>4, <2>5 DEF ByteInv
<1>6. ASSUME NEW lsr \in BOOLEAN, NEW cts \in BOOLEAN, IsrPass(lsr, cts), lsr => fifo = <<>>
      PROVE  ByteInv'
  <2>1. /\ UNCHANGED <<xbuf, head, accepted, w, last, torn>>
        /\ PassData(lsr, cts) => /\ fifo' = FifoTakes(BurstBytes)
                                 /\ cnt' = cnt - Burst /\ tail' = (tail + Burst) % XmitSize
        /\ ~PassData(lsr, cts) => cnt' = cnt /\ tail' = tail
        /\ PassTx(lsr) /\ xchar # None => fifo' = FifoTakes(<<xchar>>)
        /\ ~PassData(lsr, cts) /\ ~(PassTx(lsr) /\ xchar # None) => fifo' = fifo
        /\ PassData(lsr, cts) => xchar = None
    BY <1>6 DEF IsrPass, TransmitChars, PassData, PassTx, PassHeld, writer, wire
  <2>2. PassData(lsr, cts) => cnt > 0
    BY DEF PassData
  <2>3. CopyInv => CopyInv'
    BY <2>1 DEF CopyInv
  <2>4. CASE PassData(lsr, cts)
    <3>1. ~torn => SlotInv' /\ FifoInv' /\ fifo' \in Seq(Int)
      BY <1>0, <2>1, <2>2, <2>4, ByteSend DEF ByteInv
    <3>2. fifo' \in Seq(Int)
      BY <2>1, <2>2, <2>4, BurstSome, TakesSome
    <3> QED
      BY <2>1, <2>3, <3>1, <3>2 DEF ByteInv, ByteType
  <2>5. CASE PassTx(lsr) /\ xchar # None
    <3>1. xchar \in Int /\ ~(xchar > 0)
      BY DEF RecvInv, RecvType, None, Xoff, Xon
    <3>2. fifo' = <<xchar>>
      BY <2>1, <2>5 DEF FifoTakes
    <3>3. fifo' \in Seq(Int) /\ Len(fifo') = 1 /\ fifo'[1] = xchar
      BY <3>1, <3>2
    <3>4. cnt' = cnt /\ tail' = tail
      BY <2>1, <2>5
    <3>5. SlotInv => SlotInv'
      BY <2>1, <3>4 DEF SlotInv, Index
    <3>6. FifoInv => FifoInv'
      BY <2>1, <3>1, <3>3, <3>4 DEF FifoInv
    <3> QED
      BY <2>1, <2>3, <3>3, <3>5, <3>6 DEF ByteInv, ByteType
  <2>6. CASE ~PassData(lsr, cts) /\ ~(PassTx(lsr) /\ xchar # None)
    BY <1>1, <2>1, <2>6 DEF ring
  <2> QED
    BY <2>4, <2>5, <2>6
<1>7. CASE \E cts \in BOOLEAN : IsrDirect(cts) \/ IsrPushed(cts)
  <2>1. PICK cts \in BOOLEAN : IsrDirect(cts) \/ IsrPushed(cts)
    BY <1>7
  <2>2. CASE IsrDirect(cts)
    BY <2>2, <1>6 DEF IsrDirect
  <2>3. CASE IsrPushed(cts)
    <3>1. isr.lsr \in BOOLEAN /\ (isr.lsr => fifo = <<>>)
      BY <2>3 DEF IsrPushed, CtlInv, FlagType, IntInv
    <3> QED
      BY <2>3, <3>1, <1>6 DEF IsrPushed
  <2> QED
    BY <2>1, <2>2, <2>3
<1> QED
  BY <1>2, <1>3, <1>4, <1>5, <1>7, ByteWriter DEF Next, Threads, Interrupt

\* The slots in their order from xmit_tail are RingHolds's view of the ring.
LEMMA ByteRing == SizeInv /\ ByteInv => RingHolds
<1> SUFFICES ASSUME SizeInv, ByteInv PROVE RingHolds
  OBVIOUS
<1>0. /\ XmitSize \in Int /\ XmitSize >= 2
      /\ head \in Int /\ 0 <= head /\ head < XmitSize
      /\ tail \in Int /\ 0 <= tail /\ tail < XmitSize
      /\ cnt \in Int /\ 0 <= cnt /\ cnt < XmitSize
      /\ accepted \in Int /\ 0 <= accepted /\ Distance /\ fifo \in Seq(Int) /\ last \in Int
      /\ Slots = 0 .. XmitSize - 1
  BY RingInts DEF SizeInv, Slots, ByteInv, ByteType
<1>1. cnt = (head - tail + XmitSize) % XmitSize
  <2>1. PICK x \in Int : x = head - tail + XmitSize
    BY <1>0
  <2>2. 0 <= x /\ x < 2 * XmitSize
    BY <1>0, <2>1
  <2>3. /\ x < XmitSize => Round(x) = x
        /\ x >= XmitSize => Round(x) = x - XmitSize
    BY <2>2, OnceRound
  <2>4. cnt = Round(x)
    BY <1>0, <2>1, <2>2, <2>3 DEF Distance
  <2> QED
    BY <2>1, <2>4 DEF Round
<1>2. ASSUME ~torn, NEW i \in 0 .. cnt - 1
      PROVE  xbuf[(tail + i) % XmitSize] = accepted - cnt + 1 + i
  <2>1. PICK x \in Int : x = tail + i
    BY <1>0
  <2>2. 0 <= x /\ x < 2 * XmitSize
    BY <1>0, <2>1
  <2>3. /\ x < XmitSize => Round(x) = x
        /\ x >= XmitSize => Round(x) = x - XmitSize
        /\ Round(x) \in Slots
    BY <2>2, OnceRound
  <2>4. Index(Round(x)) = i /\ i < cnt
    BY <1>0, <2>1, <2>2, <2>3 DEF Index
  <2>5. xbuf[Round(x)] = accepted - cnt + 1 + i
    BY <1>2, <2>3, <2>4 DEF ByteInv, SlotInv
  <2> QED
    BY <2>1, <2>5 DEF Round
<1>3. ASSUME ~torn, NEW i \in 1 .. Len(fifo), fifo[i] > 0
      PROVE  fifo[i] \in last + 1 .. accepted - cnt
  <2>1. fifo[i] \in Int /\ last < fifo[i] /\ fifo[i] <= accepted - cnt
    BY <1>0, <1>3 DEF ByteInv, FifoInv
  <2> QED
    BY <1>0, <2>1
<1> QED
  BY <1>1, <1>2, <1>3 DEF RingHolds, ByteInv, FifoInv

\* Bytes leave in the order they were accepted, each at most once, and the ring
\* holds exactly the newest xmit_cnt of them, whatever the interleaving of
\* mxser_write's unlocked memcpy with the interrupt handler, for a ring and a FIFO
\* of any size.
THEOREM RingHoldsAlways == Spec => []RingHolds
<1>1. Init => SizeInv /\ RecvInv /\ CtlInv /\ ByteInv
  BY SizeInit, RecvInit, CtlInit, ByteInit
<1>2. SizeInv /\ RecvInv /\ CtlInv /\ ByteInv /\ [Next]_vars
      => (SizeInv /\ RecvInv /\ CtlInv /\ ByteInv)'
  BY SizeStep, RecvStep, CtlStep, ByteStep
<1> QED
  BY <1>1, <1>2, ByteRing, PTL DEF Spec

=============================================================================
