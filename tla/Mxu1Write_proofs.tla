-------------------------- MODULE Mxu1Write_proofs --------------------------
(***************************************************************************)
(* Machine-checked facts about the transmit path, for every buffer size,   *)
(* URB size and set of writers.  Types, ownership of the URB, the absence  *)
(* of a stall and the closed port need no serialisation of the writers;    *)
(* room, bounds and the order of the bytes assume the tty's output lock.   *)
(***************************************************************************)
EXTENDS Mxu1Write, SequenceTheorems, TLAPS

\* The remainder that stands for "& (MXU1_WRITE_BUF_SIZE-1)" is a slot.
LEMMA WrapIsSlot == \A x \in Int : Wrap(x) \in Slots
  BY BufSizeAssumption DEF Wrap, Slots

\* The data and the free space of a buffer are counts below its size.
LEMMA CircCntType ==
    \A h, t \in Slots : CircCnt(h, t) \in Slots /\ CircSpace(h, t) \in Slots
  <1> TAKE h, t \in Slots
  <1>1. h - t \in Int /\ t - (h + 1) \in Int
    BY BufSizeAssumption DEF Slots
  <1> QED
    BY <1>1, WrapIsSlot DEF CircCnt, CircSpace

\* The room mxu1_buf_put finds before the end of the array is a count.
LEMMA CircSpaceToEndType == \A h, t \in Slots : CircSpaceToEnd(h, t) \in Nat
  BY CircCntType, BufSizeAssumption DEF CircSpaceToEnd, Lesser, Slots

\* What the buffer holds is a sequence of bytes.
LEMMA ContentsType ==
    ASSUME NEW b \in [Slots -> Nat], NEW h \in Slots, NEW t \in Slots
    PROVE  Contents(b, h, t) \in Seq(Nat)
  <1>1. CircCnt(h, t) \in Nat
    BY CircCntType, BufSizeAssumption DEF Slots
  <1>2. \A i \in 1 .. CircCnt(h, t) : b[Wrap(t + i - 1)] \in Nat
    <2> TAKE i \in 1 .. CircCnt(h, t)
    <2>1. t + i - 1 \in Int
      BY <1>1 DEF Slots
    <2> QED
      BY <2>1, WrapIsSlot
  <1> QED
    BY <1>1, <1>2 DEF Contents

\* mxu1_buf_get returns bytes and leaves the tail at a slot.
LEMMA BufGetBytesType ==
    ASSUME NEW b \in [Slots -> Nat], NEW h \in Slots, NEW t \in Slots
    PROVE  /\ BufGetBytes(b, h, t, BulkOutSize) \in Seq(Nat)
           /\ BufGetTail(h, t, BulkOutSize) \in Slots
  <1>1. CircCnt(h, t) \in Nat
    BY CircCntType, BufSizeAssumption DEF Slots
  <1>2. BufGetCount(h, t, BulkOutSize) \in 0 .. CircCnt(h, t)
    BY <1>1, WriteAssumption DEF BufGetCount, Lesser
  <1>3. Contents(b, h, t) \in Seq(Nat) /\ Len(Contents(b, h, t)) = CircCnt(h, t)
    BY <1>1, ContentsType DEF Contents
  <1>4. BufGetBytes(b, h, t, BulkOutSize) \in Seq(Nat)
    BY <1>1, <1>2, <1>3, SubSeqProperties DEF BufGetBytes
  <1>5. t + BufGetCount(h, t, BulkOutSize) \in Int
    BY <1>1, <1>2 DEF Slots
  <1> QED
    BY <1>4, <1>5, WrapIsSlot DEF BufGetTail
-----------------------------------------------------------------------------
(* Type correctness.                                                       *)

\* A writer never advances the head by more than it still has to put, and
\* holds no chunk outside the iteration that computed it.
ChunkFits ==
    \A w \in Writers :
        /\ chunk[w] <= left[w]
        /\ pc[w] \notin {"copy", "advance"} => chunk[w] = 0

TypeInv == TypeOK /\ ChunkFits

\* The bytes of a sequence are bytes.
LEMMA RangeType == \A s \in Seq(Nat) : Range1(s) \subseteq Nat
  BY DEF Range1

\* Moving one actor to a label of its own kind keeps pc well typed.
LEMMA GotoType ==
    ASSUME PcTypeOK, NEW a \in Actors, NEW l \in WriterPcs \cup CbPcs, Goto(a, l),
           a = Cb => l \in CbPcs, a # Cb => l \in WriterPcs
    PROVE  PcTypeOK'
  BY WriteAssumption DEF PcTypeOK, Goto, Actors

\* The state after mxu1_startup is well typed.
LEMMA TypeInit == Init => TypeInv
  <1> SUFFICES ASSUME Init PROVE TypeInv
    OBVIOUS
  <1>1. BufTypeOK
    BY BufSizeAssumption DEF Init, Slots, BufTypeOK
  <1>2. UrbTypeOK /\ CtlTypeOK /\ DevTypeOK
    <2>1. <<>> \in Seq(Nat) /\ {} \in SUBSET Nat
      OBVIOUS
    <2>2. CtlTypeOK
      BY DEF Init, CtlTypeOK, CtlPcs
    <2>3. UrbTypeOK
      BY <2>1 DEF Init, UrbTypeOK
    <2>4. DevTypeOK
      BY <2>1 DEF Init, DevTypeOK
    <2> QED
      BY <2>2, <2>3, <2>4
  <1>3. WriterTypeOK /\ ChunkFits
    BY DEF Init, WriterTypeOK, ChunkFits
  <1>4. PcTypeOK
    BY DEF Init, PcTypeOK, Actors, WriterPcs, CbPcs, SendPcs
  <1> QED
    BY <1>1, <1>2, <1>3, <1>4 DEF TypeInv, TypeOK

\* A step of a writer in mxu1_write or mxu1_buf_put keeps the types.
LEMMA TypeWriter ==
    ASSUME TypeInv, NEW w \in Writers, WriterStep(w)
    PROVE  TypeInv'
  <1>0. /\ BufTypeOK /\ WriterTypeOK /\ PcTypeOK /\ ChunkFits
        /\ w \in Actors /\ w # Cb
    BY WriteAssumption DEF TypeInv, TypeOK, Actors
  <1>1. UrbTypeOK' /\ CtlTypeOK' /\ DevTypeOK'
    <2>1. UNCHANGED <<urbVars, ctlVars, devVars, isOpen, connected, lost, stalled>>
      BY DEF WriterStep, WriteBegin, PutSpace, PutCopy, PutAdvance
    <2> QED
      BY <2>1 DEF TypeInv, TypeOK, UrbTypeOK, CtlTypeOK, DevTypeOK,
         urbVars, ctlVars, devVars
  <1>2. PcTypeOK'
    <2>1. \E l \in {"space", "copy", "advance", "send"} : Goto(w, l)
      BY DEF WriterStep, WriteBegin, PutSpace, PutCopy, PutAdvance
    <2> QED
      BY <1>0, <2>1, GotoType DEF WriterPcs, SendPcs
  <1>3. ASSUME NEW n \in 1 .. MaxReq, WriteBegin(w, n)
        PROVE  BufTypeOK' /\ WriterTypeOK' /\ ChunkFits'
    <2>1. CircSpace(head, tail) \in Nat
      BY <1>0, CircCntType, BufSizeAssumption DEF BufTypeOK, Slots
    <2> QED
      BY <1>0, <1>3, <2>1, WriteAssumption
      DEF BufTypeOK, WriterTypeOK, PcTypeOK, ChunkFits, WriteBegin, Goto, TtyWriteAllowed, bufVars
  <1>4. ASSUME PutSpace(w)
        PROVE  BufTypeOK' /\ WriterTypeOK' /\ ChunkFits'
    <2>1. CircSpaceToEnd(head, tail) \in Nat
      BY <1>0, CircSpaceToEndType DEF BufTypeOK
    <2> DEFINE c == Lesser(left[w], CircSpaceToEnd(head, tail))
    <2>2. c \in Nat /\ c <= left[w]
      BY <1>0, <2>1 DEF Lesser, WriterTypeOK
    <2> HIDE DEF c
    <2>4. BufTypeOK'
      BY <1>0, <1>4 DEF PutSpace, BufTypeOK, bufVars
    <2>5. CASE c > 0
      <3>1. /\ chunk' = [chunk EXCEPT ![w] = c] /\ pc' = [pc EXCEPT ![w] = "copy"]
            /\ want' = want /\ left' = left /\ room' = room
        BY <1>4, <2>5 DEF PutSpace, c, Goto
      <3>2. WriterTypeOK'
        BY <1>0, <2>2, <3>1 DEF WriterTypeOK
      <3>3. ChunkFits'
        BY <1>0, <2>2, <3>1 DEF WriterTypeOK, PcTypeOK, ChunkFits
      <3> QED
        BY <2>4, <3>2, <3>3
    <2>6. CASE ~(c > 0)
      <3>1. /\ chunk' = chunk /\ pc' = [pc EXCEPT ![w] = "send"] /\ pc[w] = "space"
            /\ want' = [want EXCEPT ![w] = 0] /\ left' = [left EXCEPT ![w] = 0]
            /\ room' = [room EXCEPT ![w] = 0]
        BY <1>4, <2>6 DEF PutSpace, c, Goto
      <3>2. WriterTypeOK'
        BY <1>0, <3>1 DEF WriterTypeOK
      <3>3. ChunkFits'
        BY <1>0, <3>1 DEF WriterTypeOK, PcTypeOK, ChunkFits
      <3> QED
        BY <2>4, <3>2, <3>3
    <2> QED
      BY <2>5, <2>6
  <1>5. ASSUME PutCopy(w)
        PROVE  BufTypeOK' /\ WriterTypeOK' /\ ChunkFits'
    <2>1. buf' \in [Slots -> Nat]
      BY <1>0, <1>5, BufSizeAssumption
      DEF PutCopy, CopyIn, Slots, BufTypeOK, WriterTypeOK
    <2> QED
      BY <1>0, <1>5, <2>1 DEF PutCopy, Goto, BufTypeOK, WriterTypeOK, PcTypeOK, ChunkFits, writerVars
  <1>6. ASSUME PutAdvance(w)
        PROVE  BufTypeOK' /\ WriterTypeOK' /\ ChunkFits'
    <2>1. head + chunk[w] \in Int
      BY <1>0 DEF BufTypeOK, WriterTypeOK, Slots
    <2>2. head' \in Slots
      BY <1>6, <2>1, WrapIsSlot DEF PutAdvance
    <2>3. BufTypeOK'
      BY <1>0, <1>6, <2>2 DEF PutAdvance, BufTypeOK, WriterTypeOK
    <2>4. left[w] - chunk[w] \in Nat
      BY <1>0 DEF WriterTypeOK, ChunkFits
    <2>5. WriterTypeOK'
      BY <1>0, <1>6, <2>4 DEF PutAdvance, WriterTypeOK
    <2>6. ChunkFits'
      BY <1>0, <1>6, <2>4 DEF PutAdvance, Goto, WriterTypeOK, PcTypeOK, ChunkFits
    <2> QED
      BY <2>3, <2>5, <2>6
  <1> QED
    BY <1>1, <1>2, <1>3, <1>4, <1>5, <1>6 DEF WriterStep, TypeInv, TypeOK

\* A step of mxu1_send, in a writer or in the callback, keeps the types.
LEMMA TypeSend ==
    ASSUME TypeInv, NEW a \in Actors, SendStep(a)
    PROVE  TypeInv'
  <1>0. BufTypeOK /\ UrbTypeOK /\ PcTypeOK /\ DevTypeOK
    BY DEF TypeInv, TypeOK
  <1>1. WriterTypeOK' /\ ChunkFits' /\ CtlTypeOK'
    <2>1. /\ UNCHANGED <<writerVars, ctlVars, isOpen, connected>>
          /\ stalled' \in {stalled, TRUE, FALSE}
          /\ \E l \in {"idle", "submit"} : pc' = [pc EXCEPT ![a] = l]
          /\ pc[a] \notin {"copy", "advance"}
      BY DEF SendStep, SendTake, SendSubmit, SendSubmitFails, Goto
    <2>2. WriterTypeOK' /\ CtlTypeOK'
      BY <2>1 DEF TypeInv, TypeOK, WriterTypeOK, CtlTypeOK, writerVars, ctlVars
    <2>3. ChunkFits'
      BY <2>1 DEF TypeInv, TypeOK, PcTypeOK, ChunkFits, writerVars
    <2> QED
      BY <2>2, <2>3
  <1>2. PcTypeOK'
    <2>1. \E l \in {"idle", "submit"} : Goto(a, l)
      BY DEF SendStep, SendTake, SendSubmit, SendSubmitFails
    <2> QED
      BY <1>0, <2>1, GotoType DEF WriterPcs, CbPcs, SendPcs
  <1>3. ASSUME SendTake(a)
        PROVE  BufTypeOK' /\ UrbTypeOK' /\ DevTypeOK'
    BY <1>0, <1>3, BufGetBytesType DEF SendTake, BufTypeOK, UrbTypeOK, DevTypeOK, devVars
  <1>4. ASSUME SendSubmit(a)
        PROVE  BufTypeOK' /\ UrbTypeOK' /\ DevTypeOK'
    BY <1>0, <1>4 DEF SendSubmit, BufTypeOK, UrbTypeOK, DevTypeOK, bufVars, devVars
  <1>5. ASSUME SendSubmitFails(a)
        PROVE  BufTypeOK' /\ UrbTypeOK' /\ DevTypeOK'
    <2>1. Range1(xfer) \subseteq Nat
      BY <1>0, RangeType DEF UrbTypeOK
    <2> QED
      BY <1>0, <1>5, <2>1
      DEF SendSubmitFails, BufTypeOK, UrbTypeOK, DevTypeOK, bufVars, devVars
  <1> QED
    BY <1>1, <1>2, <1>3, <1>4, <1>5 DEF SendStep, TypeInv, TypeOK

\* A step of mxu1_bulk_out_callback keeps the types.
LEMMA TypeCallback ==
    ASSUME TypeInv, CompleteAny \/ CallbackClear \/ CallbackStatus
    PROVE  TypeInv'
  <1>0. UrbTypeOK /\ PcTypeOK /\ DevTypeOK /\ CtlTypeOK /\ Cb \in Actors
    BY DEF TypeInv, TypeOK, Actors
  <1>1. BufTypeOK' /\ WriterTypeOK' /\ ChunkFits'
    <2>1. /\ UNCHANGED <<bufVars, writerVars>>
          /\ \A w \in Writers : pc'[w] = pc[w]
      BY <1>0, WriteAssumption DEF CompleteAny, Complete, CallbackClear,
         CallbackStatus, Goto, PcTypeOK, Actors
    <2> QED
      BY <2>1 DEF TypeInv, TypeOK, BufTypeOK, WriterTypeOK, ChunkFits, bufVars, writerVars
  <1>2. PcTypeOK'
    <2>1. \E l \in CbPcs : Goto(Cb, l)
      BY DEF CompleteAny, Complete, CallbackClear, CallbackStatus, CbPcs, SendPcs
    <2> QED
      BY <1>0, <2>1, GotoType
  <1>3. ASSUME NEW k \in 0 .. BulkOutSize, k <= Len(xfer),
               NEW status \in {"ok", "error", "shutdown"}, Complete(k, status)
        PROVE  UrbTypeOK' /\ DevTypeOK' /\ CtlTypeOK'
    <2>1. SubSeq(xfer, 1, k) \in Seq(Nat) /\ SubSeq(xfer, k + 1, Len(xfer)) \in Seq(Nat)
      <3>1. xfer \in Seq(Nat) /\ k \in Int /\ Len(xfer) \in Nat
        BY <1>0, WriteAssumption DEF UrbTypeOK
      <3> QED
        BY <1>3, <3>1, SubSeqProperties
    <2>2. devq' \in Seq(Nat)
      BY <1>0, <1>3, <2>1 DEF Complete, DevTypeOK
    <2>3. Range1(SubSeq(xfer, k + 1, Len(xfer))) \subseteq Nat
      BY <2>1, RangeType
    <2>4. lost' \in SUBSET Nat
      BY <1>0, <1>3, <2>3 DEF Complete, DevTypeOK
    <2> QED
      BY <1>0, <1>3, <2>2, <2>4 DEF Complete, UrbTypeOK, DevTypeOK, CtlTypeOK, ctlVars, devVars
  <1>4. ASSUME CallbackClear \/ CallbackStatus
        PROVE  UrbTypeOK' /\ DevTypeOK' /\ CtlTypeOK'
    BY <1>0, <1>4 DEF CallbackClear, CallbackStatus, UrbTypeOK, DevTypeOK, CtlTypeOK,
       devVars, ctlVars
  <1> QED
    BY <1>1, <1>2, <1>3, <1>4 DEF CompleteAny, TypeInv, TypeOK

\* A step of the thread in open, close or break keeps the types.
LEMMA TypeCtl ==
    ASSUME TypeInv, CtlStep
    PROVE  TypeInv'
  <1>0. BufTypeOK /\ UrbTypeOK /\ CtlTypeOK /\ DevTypeOK /\ <<>> \in Seq(Nat)
    BY DEF TypeInv, TypeOK
  <1>1. WriterTypeOK' /\ ChunkFits' /\ PcTypeOK'
    BY DEF TypeInv, TypeOK, WriterTypeOK, ChunkFits, PcTypeOK, CtlStep, Open,
       CloseBegin, BreakBegin, BreakEnd, KillBegin, KillEnd, DrainBuffer,
       DrainDevice, writerVars
  <1>2. CASE Open
    <2>1. Range1(devq) \subseteq Nat
      BY <1>0, RangeType DEF DevTypeOK
    <2>2. DevTypeOK'
      BY <1>0, <1>2, <2>1 DEF Open, DevTypeOK
    <2>3. BufTypeOK' /\ UrbTypeOK' /\ CtlTypeOK'
      BY <1>0, <1>2 DEF Open, BufTypeOK, UrbTypeOK, CtlTypeOK, CtlPcs, bufVars, urbVars
    <2> QED
      BY <1>1, <2>2, <2>3 DEF TypeInv, TypeOK
  <1>3. CASE CloseBegin \/ BreakBegin
    <2>1. BufTypeOK' /\ UrbTypeOK' /\ DevTypeOK'
      BY <1>0, <1>3 DEF CloseBegin, BreakBegin, DrainBegin, BufTypeOK, UrbTypeOK,
         DevTypeOK, bufVars, devVars
    <2>2. CtlTypeOK'
      BY <1>0, <1>3 DEF CloseBegin, BreakBegin, DrainBegin, BufTypeOK, CtlTypeOK, CtlPcs
    <2> QED
      BY <1>1, <2>1, <2>2 DEF TypeInv, TypeOK
  <1>4. CASE BreakEnd \/ KillBegin \/ KillEnd
    <2>1. BufTypeOK' /\ DevTypeOK'
      BY <1>0, <1>4 DEF BreakEnd, KillBegin, KillEnd, BufTypeOK, DevTypeOK, bufVars, devVars
    <2>2. UrbTypeOK'
      BY <1>0, <1>4 DEF BreakEnd, KillBegin, KillEnd, UrbTypeOK, urbVars
    <2>3. CtlTypeOK'
      <3>1. ctl' \in CtlPcs
        BY <1>0, <1>4 DEF BreakEnd, KillBegin, KillEnd, CtlPcs, CtlTypeOK
      <3>3. clean' \in BOOLEAN
        BY <1>0, <1>4, Zenon DEF BreakEnd, KillBegin, KillEnd, CtlTypeOK
      <3>2. UNCHANGED <<isOpen, connected, stalled>>
        BY <1>4 DEF BreakEnd, KillBegin, KillEnd
      <3> QED
        BY <1>0, <3>1, <3>2, <3>3 DEF CtlTypeOK
    <2> QED
      BY <1>1, <2>1, <2>2, <2>3 DEF TypeInv, TypeOK
  <1>5. ASSUME NEW gaveUp \in BOOLEAN, DrainBuffer(gaveUp) \/ DrainDevice(gaveUp)
        PROVE  TypeInv'
    <2>1. /\ ctl' \in CtlPcs /\ isOpen' = isOpen
          /\ connected' = connected /\ stalled' = stalled /\ UrbTypeOK'
      BY <1>0, <1>5 DEF DrainBuffer, DrainDevice, UrbTypeOK, CtlTypeOK, CtlPcs, urbVars
    <2>2. clean' \in BOOLEAN
      <3>1. clean' = (clean /\ ~gaveUp /\ ~urbErr /\ connected)
        BY <1>5 DEF DrainBuffer, DrainDevice
      <3> QED
        BY <3>1, Zenon
    <2>3. Range1(Contents(buf, head, tail)) \subseteq Nat
      BY <1>0, ContentsType, RangeType DEF BufTypeOK
    <2>4. BufTypeOK'
      BY <1>0, <1>5, BufSizeAssumption DEF DrainBuffer, DrainDevice, BufTypeOK,
         bufVars, Slots
    <2>5. DevTypeOK'
      BY <1>0, <1>5, <2>3 DEF DrainBuffer, DrainDevice, DevTypeOK, devVars
    <2> QED
      BY <1>0, <1>1, <2>1, <2>2, <2>4, <2>5 DEF TypeInv, TypeOK, CtlTypeOK
  <1> QED
    BY <1>2, <1>3, <1>4, <1>5 DEF CtlStep

\* A step of the host controller or the adapter keeps the types.
LEMMA TypeDevice ==
    ASSUME TypeInv, Transmit \/ Disconnect
    PROVE  TypeInv'
  <1>1. /\ BufTypeOK' /\ UrbTypeOK' /\ CtlTypeOK' /\ PcTypeOK'
        /\ WriterTypeOK' /\ ChunkFits'
    <2>1. /\ UNCHANGED <<bufVars, urbVars, writerVars, ctlVars, isOpen, pc, stalled>>
          /\ connected' \in {connected, FALSE}
      BY DEF Transmit, Disconnect
    <2>2. BufTypeOK' /\ UrbTypeOK' /\ WriterTypeOK'
      BY <2>1 DEF TypeInv, TypeOK, BufTypeOK, UrbTypeOK, WriterTypeOK, bufVars,
         urbVars, writerVars
    <2>3. CtlTypeOK' /\ PcTypeOK' /\ ChunkFits'
      BY <2>1 DEF TypeInv, TypeOK, CtlTypeOK, PcTypeOK, ChunkFits, ctlVars, writerVars
    <2> QED
      BY <2>2, <2>3
  <1>2. DevTypeOK'
    <2>1. DevTypeOK /\ <<>> \in Seq(Nat)
      BY DEF TypeInv, TypeOK
    <2>2. Range1(devq) \subseteq Nat
      BY <2>1, RangeType DEF DevTypeOK
    <2>3. devq # <<>> => Head(devq) \in Nat /\ Tail(devq) \in Seq(Nat)
      BY <2>1, HeadTailProperties DEF DevTypeOK
    <2>4. CASE Transmit
      BY <2>1, <2>3, <2>4 DEF DevTypeOK, Transmit
    <2>5. CASE Disconnect
      BY <2>1, <2>2, <2>5 DEF DevTypeOK, Disconnect
    <2> QED
      BY <2>4, <2>5
  <1> QED
    BY <1>1, <1>2 DEF TypeInv, TypeOK

\* Every step keeps the types.
LEMMA TypeStep == TypeInv /\ [Next]_vars => TypeInv'
  <1> SUFFICES ASSUME TypeInv, [Next]_vars PROVE TypeInv'
    OBVIOUS
  <1>1. CASE UNCHANGED vars
    BY <1>1 DEF TypeInv, TypeOK, BufTypeOK, UrbTypeOK, CtlTypeOK, PcTypeOK,
       WriterTypeOK, DevTypeOK, ChunkFits, vars, bufVars, urbVars, writerVars,
       ctlVars, devVars
  <1> QED
    BY <1>1, TypeWriter, TypeSend, TypeCallback, TypeCtl, TypeDevice DEF Next

\* The variables of the transmit path keep their types; in particular head
\* and tail always index the buffer of mxu1_buf_alloc.
THEOREM TypeCorrect == Spec => []TypeOK
  <1>1. TypeInv => TypeOK
    BY DEF TypeInv
  <1> QED
    BY <1>1, TypeInit, TypeStep, PTL DEF Spec

-----------------------------------------------------------------------------
(* Ownership of the write URB.                                             *)

\* While mxu1_close runs, and until the next open, no thread is in mxu1_write.
ClosingPcs == {"closed", "drainClose", "lsrClose", "drained", "kill"}

WritersOut == ctl \in ClosingPcs => \A w \in Writers : pc[w] = "idle"

OwnInv == TypeInv /\ WritersOut /\ UrbOwnership

\* Putting bytes does not touch the write URB.
LEMMA OwnWriter ==
    ASSUME OwnInv, NEW w \in Writers, WriterStep(w)
    PROVE  WritersOut' /\ UrbOwnership'
  <1> USE WriteAssumption DEF OwnInv, TypeInv, TypeOK, UrbTypeOK, PcTypeOK, Actors
  <1>1. /\ inUse' = inUse /\ active' = active /\ ctl' = ctl
        /\ pc[w] \notin {"submit", "clear"} /\ ctl \notin ClosingPcs
        /\ \E l \in {"space", "copy", "advance", "send"} : pc' = [pc EXCEPT ![w] = l]
    BY DEF WriterStep, WriteBegin, PutSpace, PutCopy, PutAdvance, Goto,
       TtyWriteAllowed, urbVars, ctlVars, WritersOut, ClosingPcs
  <1> QED
    BY <1>1 DEF WritersOut, UrbOwnership

\* mxu1_send takes a free URB only, and hands it on or gives it back.
LEMMA OwnSend ==
    ASSUME OwnInv, NEW a \in Actors, SendStep(a)
    PROVE  WritersOut' /\ UrbOwnership'
  <1> USE WriteAssumption DEF OwnInv, TypeInv, TypeOK, UrbTypeOK, PcTypeOK, Actors
  <1>0. WritersOut'
    BY DEF SendStep, SendTake, SendSubmit, SendSubmitFails, Goto, WritersOut, ctlVars
  <1>1. CASE SendTake(a)
    BY <1>0, <1>1 DEF SendTake, Goto, UrbOwnership
  <1>2. CASE SendSubmit(a)
    BY <1>0, <1>2 DEF SendSubmit, Goto, UrbOwnership
  <1>3. CASE SendSubmitFails(a)
    BY <1>0, <1>3 DEF SendSubmitFails, Goto, UrbOwnership
  <1> QED
    BY <1>1, <1>2, <1>3 DEF SendStep

\* The callback releases the URB it was called for.
LEMMA OwnCallback ==
    ASSUME OwnInv, CompleteAny \/ CallbackClear \/ CallbackStatus
    PROVE  WritersOut' /\ UrbOwnership'
  <1> USE WriteAssumption DEF OwnInv, TypeInv, TypeOK, UrbTypeOK, PcTypeOK, Actors
  <1>0. WritersOut'
    BY DEF CompleteAny, Complete, CallbackClear, CallbackStatus, Goto, WritersOut, ctlVars
  <1>1. CASE CompleteAny
    BY <1>0, <1>1 DEF CompleteAny, Complete, Goto, UrbOwnership
  <1>2. CASE CallbackClear
    BY <1>0, <1>2 DEF CallbackClear, Goto, UrbOwnership
  <1>3. CASE CallbackStatus
    BY <1>0, <1>3 DEF CallbackStatus, Goto, UrbOwnership
  <1> QED
    BY <1>1, <1>2, <1>3

\* Open, close and break leave the URB with its owner or take it from none.
LEMMA OwnCtl ==
    ASSUME OwnInv, CtlStep
    PROVE  WritersOut' /\ UrbOwnership'
  <1> USE WriteAssumption DEF OwnInv, TypeInv, TypeOK, UrbTypeOK, PcTypeOK, Actors
  <1>1. WritersOut' /\ pc' = pc /\ active' = active
    BY DEF CtlStep, Open, CloseBegin, BreakBegin, BreakEnd, KillBegin, KillEnd,
       DrainBuffer, DrainDevice, DrainBegin, urbVars, WritersOut, ClosingPcs
  <1>2. CASE KillEnd
    BY <1>1, <1>2 DEF KillEnd, WritersOut, ClosingPcs, UrbOwnership
  <1>3. CASE ~KillEnd
    <2>1. inUse' = inUse
      BY <1>3 DEF CtlStep, Open, CloseBegin, BreakBegin, BreakEnd, KillBegin,
         DrainBuffer, DrainDevice, urbVars
    <2> QED
      BY <1>1, <2>1 DEF UrbOwnership
  <1> QED
    BY <1>2, <1>3

\* Every step keeps the ownership of the write URB.
LEMMA OwnStep == OwnInv /\ [Next]_vars => OwnInv'
  <1> SUFFICES ASSUME OwnInv, [Next]_vars PROVE WritersOut' /\ UrbOwnership'
    BY TypeStep DEF OwnInv
  <1>1. CASE Transmit \/ Disconnect
    BY <1>1 DEF OwnInv, WritersOut, UrbOwnership, Transmit, Disconnect, urbVars, ctlVars
  <1>2. CASE UNCHANGED vars
    BY <1>2 DEF OwnInv, WritersOut, UrbOwnership, vars, urbVars, ctlVars
  <1> QED
    BY <1>1, <1>2, OwnWriter, OwnSend, OwnCallback, OwnCtl DEF Next

\* mxp_write_urb_in_use excludes every second user of the write URB, however
\* many threads run mxu1_send beside the completion callback.
THEOREM UrbExclusive == Spec => []UrbOwnership
  <1>1. Init => OwnInv
    BY TypeInit DEF Init, OwnInv, WritersOut, UrbOwnership, Actors
  <1>2. OwnInv => UrbOwnership
    BY DEF OwnInv
  <1> QED
    BY <1>1, <1>2, OwnStep, PTL DEF Spec

-----------------------------------------------------------------------------
(* Nothing is left behind: stalls and close.                               *)

\* From the flush in mxu1_drain until the next open the buffer is empty; a
\* closed port has neither a URB under way nor a callback.
Flushed == ctl \in {"lsrClose", "drained", "kill", "closed"} => CircCnt(head, tail) = 0
UrbAtRest == ctl = "closed" => ~inUse /\ ~active /\ pc[Cb] = "idle"

QuietInv == OwnInv /\ Flushed /\ UrbAtRest /\ NoSilentStall

\* An index into itself is an empty buffer.
LEMMA NothingCounted == CircCnt(0, 0) = 0
  BY BufSizeAssumption DEF CircCnt, Wrap

\* A step of a writer in mxu1_write or mxu1_buf_put: it goes on to mxu1_send.
LEMMA QuietWriter ==
    ASSUME QuietInv, NEW w \in Writers, WriterStep(w)
    PROVE  Flushed' /\ UrbAtRest' /\ NoSilentStall'
  <1> USE WriteAssumption DEF QuietInv, OwnInv, TypeInv, TypeOK, PcTypeOK, Actors
  <1>1. /\ inUse' = inUse /\ active' = active /\ ctl' = ctl /\ stalled' = stalled
        /\ ctl \notin ClosingPcs
        /\ \E l \in {"space", "copy", "advance", "send"} : pc' = [pc EXCEPT ![w] = l]
    BY DEF WriterStep, WriteBegin, PutSpace, PutCopy, PutAdvance, Goto,
       TtyWriteAllowed, urbVars, ctlVars, WritersOut, ClosingPcs
  <1> QED
    BY <1>1 DEF Flushed, UrbAtRest, NoSilentStall, ClosingPcs

\* A step of mxu1_send: it returns only when there is nothing to send or
\* somebody else sends.
LEMMA QuietSend ==
    ASSUME QuietInv, NEW a \in Actors, SendStep(a)
    PROVE  Flushed' /\ UrbAtRest' /\ NoSilentStall'
  <1> USE WriteAssumption DEF QuietInv, OwnInv, TypeInv, TypeOK, UrbTypeOK, PcTypeOK, Actors
  <1>0. ctl' = ctl /\ head' = head
    BY DEF SendStep, SendTake, SendSubmit, SendSubmitFails, ctlVars, bufVars
  <1>1. UrbAtRest'
    BY <1>0 DEF SendStep, SendTake, SendSubmit, SendSubmitFails, Goto, UrbAtRest,
       WritersOut, ClosingPcs
  <1>2. CASE SendTake(a)
    BY <1>0, <1>1, <1>2 DEF SendTake, Goto, Flushed, NoSilentStall
  <1>3. CASE SendSubmit(a)
    BY <1>0, <1>1, <1>3 DEF SendSubmit, Goto, Flushed, NoSilentStall, UrbOwnership, bufVars
  <1>4. CASE SendSubmitFails(a)
    BY <1>0, <1>1, <1>4 DEF SendSubmitFails, Goto, Flushed, NoSilentStall, bufVars
  <1> QED
    BY <1>2, <1>3, <1>4 DEF SendStep

\* A step of the callback: it sends what is left unless the URB was shut down.
LEMMA QuietCallback ==
    ASSUME QuietInv, CompleteAny \/ CallbackClear \/ CallbackStatus
    PROVE  Flushed' /\ UrbAtRest' /\ NoSilentStall'
  <1> USE WriteAssumption DEF QuietInv, OwnInv, TypeInv, TypeOK, UrbTypeOK, PcTypeOK, Actors
  <1>0. ctl' = ctl /\ head' = head /\ tail' = tail
    BY DEF CompleteAny, Complete, CallbackClear, CallbackStatus, ctlVars, bufVars
  <1>1. Flushed' /\ UrbAtRest'
    BY <1>0 DEF CompleteAny, Complete, CallbackClear, CallbackStatus, Goto, Flushed, UrbAtRest
  <1>2. CASE CompleteAny
    <2>1. active /\ inUse' = inUse
      BY <1>2 DEF CompleteAny, Complete
    <2> QED
      BY <1>1, <2>1 DEF NoSilentStall, UrbOwnership
  <1>3. CASE CallbackClear
    <2>1. pc'[Cb] = "status"
      BY <1>3 DEF CallbackClear, Goto
    <2> QED
      BY <1>1, <2>1 DEF NoSilentStall
  <1>4. CASE CallbackStatus
    <2>1. stalled' \/ pc'[Cb] = "send"
      BY <1>4 DEF CallbackStatus, Goto
    <2> QED
      BY <1>1, <2>1 DEF NoSilentStall
  <1> QED
    BY <1>1, <1>2, <1>3, <1>4

\* Open, close and break: close flushes before it kills the URB.
LEMMA QuietCtl ==
    ASSUME QuietInv, CtlStep
    PROVE  Flushed' /\ UrbAtRest' /\ NoSilentStall'
  <1> USE WriteAssumption, NothingCounted DEF QuietInv, OwnInv, TypeInv, TypeOK, UrbTypeOK,
      PcTypeOK, Actors
  <1>0. pc' = pc /\ active' = active /\ stalled' = stalled
    BY DEF CtlStep, Open, CloseBegin, BreakBegin, BreakEnd, KillBegin, KillEnd,
       DrainBuffer, DrainDevice, urbVars
  <1>1. CASE Open \/ CloseBegin \/ BreakBegin \/ BreakEnd \/ KillBegin
    BY <1>0, <1>1 DEF Open, CloseBegin, BreakBegin, BreakEnd, KillBegin, Flushed, UrbAtRest,
       NoSilentStall, urbVars, bufVars
  <1>2. CASE KillEnd
    BY <1>0, <1>2 DEF KillEnd, Flushed, UrbAtRest, NoSilentStall, bufVars
  <1>3. CASE \E gaveUp \in BOOLEAN : DrainBuffer(gaveUp) \/ DrainDevice(gaveUp)
    BY <1>0, <1>3 DEF DrainBuffer, DrainDevice, Flushed, UrbAtRest, NoSilentStall, urbVars, bufVars
  <1> QED
    BY <1>1, <1>2, <1>3 DEF CtlStep

\* No step leaves buffered data without somebody to send it.
LEMMA QuietStep == QuietInv /\ [Next]_vars => QuietInv'
  <1> SUFFICES ASSUME QuietInv, [Next]_vars PROVE Flushed' /\ UrbAtRest' /\ NoSilentStall'
    BY OwnStep DEF QuietInv
  <1>1. CASE Transmit \/ Disconnect \/ UNCHANGED vars
    BY <1>1 DEF QuietInv, Flushed, UrbAtRest, NoSilentStall, Transmit, Disconnect, vars,
       bufVars, urbVars, ctlVars
  <1> QED
    BY <1>1, QuietWriter, QuietSend, QuietCallback, QuietCtl DEF Next

\* A closed port is quiet.
LEMMA QuietInit == Init => QuietInv
  BY TypeInit, NothingCounted DEF Init, QuietInv, OwnInv, WritersOut, UrbOwnership, Actors,
     Flushed, UrbAtRest, NoSilentStall

\* Buffered data always has somebody to send it, unless a submission failed or
\* the URB was shut down: mxu1_send's test of the in-use flag never misses the
\* callback that clears it, for any number of writers, serialised or not.
THEOREM NoSilentStallHolds == Spec => []NoSilentStall
  <1>1. QuietInv => NoSilentStall
    BY DEF QuietInv
  <1> QED
    BY <1>1, QuietInit, QuietStep, PTL DEF Spec

\* mxu1_close leaves an idle URB, a clear in-use flag and an empty buffer,
\* whatever made the drain give up and however the kill raced the callback.
THEOREM ClosedQuietly == Spec => []ClosedIsQuiet
  <1>1. QuietInv => ClosedIsQuiet
    BY DEF QuietInv, OwnInv, Flushed, UrbAtRest, WritersOut, ClosingPcs, ClosedIsQuiet,
       Actors, SendPcs
  <1> QED
    BY <1>1, QuietInit, QuietStep, PTL DEF Spec

-----------------------------------------------------------------------------
(* The circular buffer's counters without remainders.                      *)

\* The remainder of an index at most one buffer away from the buffer.
LEMMA WrapLinear ==
    \A x \in Int : - BufSize <= x /\ x < 2 * BufSize =>
        /\ x < 0 => Wrap(x) = x + BufSize
        /\ 0 <= x /\ x < BufSize => Wrap(x) = x
        /\ x >= BufSize => Wrap(x) = x - BufSize
        /\ Wrap(x) \in Int /\ 0 <= Wrap(x) /\ Wrap(x) < BufSize
  <1> SUFFICES ASSUME NEW x \in Int, - BufSize <= x, x < 2 * BufSize
               PROVE  /\ x < 0 => Wrap(x) = x + BufSize
                      /\ 0 <= x /\ x < BufSize => Wrap(x) = x
                      /\ x >= BufSize => Wrap(x) = x - BufSize
                      /\ Wrap(x) \in Int /\ 0 <= Wrap(x) /\ Wrap(x) < BufSize
    OBVIOUS
  <1>0. BufSize \in Nat /\ BufSize >= 2
    BY BufSizeAssumption
  <1>1. CASE x < 0
    <2>1. x + BufSize \in 0 .. BufSize - 1
      BY <1>0, <1>1
    <2>2. x % BufSize = (x + BufSize) % BufSize
      BY <1>0
    <2> QED
      BY <1>0, <1>1, <2>1, <2>2 DEF Wrap
  <1>2. CASE 0 <= x /\ x < BufSize
    BY <1>0, <1>2 DEF Wrap
  <1>3. CASE x >= BufSize
    <2>1. x - BufSize \in 0 .. BufSize - 1
      BY <1>0, <1>3
    <2>2. x % BufSize = (x - BufSize) % BufSize
      BY <1>0
    <2> QED
      BY <1>0, <1>3, <2>1, <2>2 DEF Wrap
  <1> QED
    BY <1>0, <1>1, <1>2, <1>3

\* CIRC_CNT and CIRC_SPACE: the distance from tail to head, and what remains
\* of the array with one slot kept free.
LEMMA CircLinear ==
    ASSUME NEW h \in Int, 0 <= h, h < BufSize, NEW t \in Int, 0 <= t, t < BufSize
    PROVE  /\ CircCnt(h, t) \in Int /\ 0 <= CircCnt(h, t) /\ CircCnt(h, t) < BufSize
           /\ h >= t => CircCnt(h, t) = h - t
           /\ h < t => CircCnt(h, t) = h - t + BufSize
           /\ CircSpace(h, t) = BufSize - 1 - CircCnt(h, t)
  <1>0. BufSize \in Int /\ BufSize >= 2
    BY BufSizeAssumption
  <1>1. PICK x \in Int : x = h - t
    OBVIOUS
  <1>2. PICK y \in Int : y = t - (h + 1)
    OBVIOUS
  <1>3. /\ x < 0 => Wrap(x) = x + BufSize
        /\ 0 <= x /\ x < BufSize => Wrap(x) = x
        /\ Wrap(x) \in Int /\ 0 <= Wrap(x) /\ Wrap(x) < BufSize
    BY <1>0, <1>1, WrapLinear
  <1>4. /\ y < 0 => Wrap(y) = y + BufSize
        /\ 0 <= y /\ y < BufSize => Wrap(y) = y
    BY <1>0, <1>2, WrapLinear
  <1>5. CircCnt(h, t) = Wrap(x) /\ CircSpace(h, t) = Wrap(y)
    BY <1>1, <1>2 DEF CircCnt, CircSpace
  <1> QED
    BY <1>0, <1>1, <1>2, <1>3, <1>4, <1>5

\* Putting c bytes that fit moves the head and counts c more.
LEMMA HeadMoves ==
    ASSUME NEW h \in Int, 0 <= h, h < BufSize, NEW t \in Int, 0 <= t, t < BufSize,
           NEW c \in Int, 0 <= c, c <= CircSpace(h, t)
    PROVE  /\ Wrap(h + c) \in Int /\ 0 <= Wrap(h + c) /\ Wrap(h + c) < BufSize
           /\ CircCnt(Wrap(h + c), t) = CircCnt(h, t) + c
           /\ CircSpace(Wrap(h + c), t) = CircSpace(h, t) - c
  <1>0. BufSize \in Int /\ BufSize >= 2
    BY BufSizeAssumption
  <1>1. /\ CircCnt(h, t) \in Int /\ 0 <= CircCnt(h, t) /\ CircCnt(h, t) < BufSize
        /\ h >= t => CircCnt(h, t) = h - t
        /\ h < t => CircCnt(h, t) = h - t + BufSize
        /\ CircSpace(h, t) = BufSize - 1 - CircCnt(h, t)
    BY CircLinear
  <1>2. PICK x \in Int : x = h + c
    OBVIOUS
  <1>3. /\ 0 <= x /\ x < BufSize => Wrap(x) = x
        /\ x >= BufSize => Wrap(x) = x - BufSize
        /\ 0 <= x /\ x < 2 * BufSize
        /\ Wrap(x) \in Int /\ 0 <= Wrap(x) /\ Wrap(x) < BufSize
    BY <1>0, <1>1, <1>2, WrapLinear
  <1>4. PICK g \in Int : g = Wrap(x)
    BY <1>3
  <1>5. /\ CircCnt(g, t) \in Int /\ 0 <= CircCnt(g, t) /\ CircCnt(g, t) < BufSize
        /\ g >= t => CircCnt(g, t) = g - t
        /\ g < t => CircCnt(g, t) = g - t + BufSize
        /\ CircSpace(g, t) = BufSize - 1 - CircCnt(g, t)
    BY <1>3, <1>4, CircLinear
  <1>6. CircCnt(g, t) = CircCnt(h, t) + c
    BY <1>0, <1>1, <1>2, <1>3, <1>4, <1>5
  <1> QED
    BY <1>0, <1>1, <1>2, <1>3, <1>4, <1>5, <1>6

\* Taking k of the bytes counted moves the tail and counts k fewer.
LEMMA TailMoves ==
    ASSUME NEW h \in Int, 0 <= h, h < BufSize, NEW t \in Int, 0 <= t, t < BufSize,
           NEW k \in Int, 0 <= k, k <= CircCnt(h, t)
    PROVE  /\ Wrap(t + k) \in Int /\ 0 <= Wrap(t + k) /\ Wrap(t + k) < BufSize
           /\ CircCnt(h, Wrap(t + k)) = CircCnt(h, t) - k
           /\ CircSpace(h, Wrap(t + k)) = CircSpace(h, t) + k
           /\ Wrap(t + k) \in {t + k, t + k - BufSize}
  <1>0. BufSize \in Int /\ BufSize >= 2
    BY BufSizeAssumption
  <1>1. /\ CircCnt(h, t) \in Int /\ 0 <= CircCnt(h, t) /\ CircCnt(h, t) < BufSize
        /\ h >= t => CircCnt(h, t) = h - t
        /\ h < t => CircCnt(h, t) = h - t + BufSize
        /\ CircSpace(h, t) = BufSize - 1 - CircCnt(h, t)
    BY CircLinear
  <1>2. PICK x \in Int : x = t + k
    OBVIOUS
  <1>3. /\ 0 <= x /\ x < BufSize => Wrap(x) = x
        /\ x >= BufSize => Wrap(x) = x - BufSize
        /\ 0 <= x /\ x < 2 * BufSize
        /\ Wrap(x) \in Int /\ 0 <= Wrap(x) /\ Wrap(x) < BufSize
    BY <1>0, <1>1, <1>2, WrapLinear
  <1>4. PICK g \in Int : g = Wrap(x)
    BY <1>3
  <1>5. /\ CircCnt(h, g) \in Int /\ 0 <= CircCnt(h, g) /\ CircCnt(h, g) < BufSize
        /\ h >= g => CircCnt(h, g) = h - g
        /\ h < g => CircCnt(h, g) = h - g + BufSize
        /\ CircSpace(h, g) = BufSize - 1 - CircCnt(h, g)
    BY <1>3, <1>4, CircLinear
  <1>6. CircCnt(h, g) = CircCnt(h, t) - k
    BY <1>0, <1>1, <1>2, <1>3, <1>4, <1>5
  <1> QED
    BY <1>0, <1>1, <1>2, <1>3, <1>4, <1>5, <1>6

-----------------------------------------------------------------------------
(* Room: what mxu1_write_room promises and mxu1_buf_put uses.              *)

\* The output lock admits one writer at a time.
OneWriter == \A v, w \in Writers : pc[v] # "idle" /\ pc[w] # "idle" => v = w

\* A chunk still fits when it is copied and when the head moves; what is left
\* of the promised room is still free.
RoomInv ==
    \A w \in Writers :
        /\ left[w] <= want[w]
        /\ pc[w] \in {"copy", "advance"} =>
               head + chunk[w] <= BufSize /\ chunk[w] <= CircSpace(head, tail)
        /\ pc[w] \in {"space", "copy", "advance"} =>
               room[w] + left[w] - want[w] <= CircSpace(head, tail)

LockInv == QuietInv /\ OneWriter /\ RoomInv

\* The buffer's counters as integers.
LEMMA BufInts ==
    ASSUME TypeInv
    PROVE  /\ BufSize \in Int /\ BufSize >= 2
           /\ head \in Int /\ 0 <= head /\ head < BufSize
           /\ tail \in Int /\ 0 <= tail /\ tail < BufSize
           /\ CircCnt(head, tail) \in Int /\ 0 <= CircCnt(head, tail)
           /\ CircCnt(head, tail) < BufSize
           /\ head >= tail => CircCnt(head, tail) = head - tail
           /\ head < tail => CircCnt(head, tail) = head - tail + BufSize
           /\ CircSpace(head, tail) = BufSize - 1 - CircCnt(head, tail)
           /\ nput \in Int /\ 0 <= nput
  <1>1. /\ BufSize \in Int /\ BufSize >= 2
        /\ head \in Int /\ 0 <= head /\ head < BufSize
        /\ tail \in Int /\ 0 <= tail /\ tail < BufSize
        /\ nput \in Int /\ 0 <= nput
    BY BufSizeAssumption DEF TypeInv, TypeOK, BufTypeOK, Slots
  <1> QED
    BY <1>1, CircLinear

\* A step that leaves the writers' locals alone and takes no room from them.
LEMMA RoomKept ==
    ASSUME TypeInv, RoomInv, UNCHANGED <<writerVars, head>>,
           CircSpace(head, tail)' \in Int, CircSpace(head, tail) <= CircSpace(head, tail)',
           \A w \in Writers : pc'[w] \in {"space", "copy", "advance"} => pc[w] = pc'[w]
    PROVE  RoomInv'
  <1>1. /\ CircSpace(head, tail) \in Int /\ head \in Int /\ BufSize \in Int
        /\ want \in [Writers -> Nat] /\ left \in [Writers -> Nat]
        /\ chunk \in [Writers -> Nat] /\ room \in [Writers -> Nat]
    BY BufInts DEF TypeInv, TypeOK, WriterTypeOK
  <1>2. PICK a \in Int, b \in Int : a = CircSpace(head, tail) /\ b = CircSpace(head, tail)'
    BY <1>1
  <1> QED
    BY <1>1, <1>2 DEF RoomInv, writerVars

\* The step of a writer.
LEMMA RoomWriter ==
    ASSUME OutputLock, LockInv, NEW w \in Writers, WriterStep(w)
    PROVE  OneWriter' /\ RoomInv'
  <1>0. /\ BufSize \in Int /\ BufSize >= 2
        /\ head \in Int /\ 0 <= head /\ head < BufSize
        /\ tail \in Int /\ 0 <= tail /\ tail < BufSize
        /\ want \in [Writers -> Nat] /\ left \in [Writers -> Nat]
        /\ chunk \in [Writers -> Nat] /\ room \in [Writers -> Nat]
        /\ ChunkFits /\ RoomInv /\ OneWriter /\ pc \in [Actors -> WriterPcs \cup CbPcs]
        /\ Writers \subseteq Actors /\ TypeInv
    BY BufInts DEF LockInv, QuietInv, OwnInv, TypeInv, TypeOK, WriterTypeOK, PcTypeOK, Actors
  <1>1. PICK sp \in Int : sp = CircSpace(head, tail) /\ 0 <= sp /\ sp < BufSize
    BY <1>0, BufInts
  <1>2. PICK l \in {"space", "copy", "advance", "send"} : pc' = [pc EXCEPT ![w] = l]
    BY DEF WriterStep, WriteBegin, PutSpace, PutCopy, PutAdvance, Goto
  <1>3. \A v \in Writers : v # w => pc[v] = "idle"
    BY <1>0 DEF OneWriter, WriterStep, WriteBegin, PutSpace, PutCopy, PutAdvance, TtyWriteAllowed
  <1>4. OneWriter'
    BY <1>0, <1>2, <1>3 DEF OneWriter
  <1>5. \A v \in Writers : v # w => pc'[v] = "idle"
    BY <1>0, <1>2, <1>3
  <1>6. \A v \in Writers : v # w => left'[v] = left[v] /\ want'[v] = want[v]
    BY <1>0 DEF WriterStep, WriteBegin, PutSpace, PutCopy, PutAdvance, writerVars
  <1>7. SUFFICES
            /\ left'[w] <= want'[w]
            /\ pc'[w] \in {"copy", "advance"} =>
                   head' + chunk'[w] <= BufSize /\ chunk'[w] <= CircSpace(head, tail)'
            /\ pc'[w] \in {"space", "copy", "advance"} =>
                   room'[w] + left'[w] - want'[w] <= CircSpace(head, tail)'
    BY <1>0, <1>4, <1>5, <1>6 DEF RoomInv
  <1>8. PICK c \in Nat, f \in Nat, g \in Nat, r \in Nat :
            c = chunk[w] /\ f = left[w] /\ g = want[w] /\ r = room[w] /\ c <= f /\ f <= g
    BY <1>0 DEF ChunkFits, RoomInv
  <1>9. /\ pc[w] \in {"copy", "advance"} => head + c <= BufSize /\ c <= sp
        /\ pc[w] \in {"space", "copy", "advance"} => r + f - g <= sp
    BY <1>0, <1>1, <1>8 DEF RoomInv
  <1>10. ASSUME NEW n \in 1 .. MaxReq, WriteBegin(w, n)
         PROVE  /\ left'[w] = n /\ want'[w] = n /\ room'[w] = sp /\ pc'[w] = "space"
                /\ head' = head /\ tail' = tail
    BY <1>0, <1>1, <1>10 DEF WriteBegin, Goto, bufVars
  <1>11. CASE \E n \in 1 .. MaxReq : WriteBegin(w, n)
    <2>1. PICK n \in 1 .. MaxReq : WriteBegin(w, n)
      BY <1>11
    <2>2. n \in Int
      OBVIOUS
    <2>3. CircSpace(head, tail)' = sp
      BY <1>1, <1>10, <2>1
    <2> QED
      BY <1>1, <1>10, <2>1, <2>2, <2>3
  <1>12. CASE PutSpace(w)
    <2>1. head' = head /\ tail' = tail /\ pc[w] = "space"
      BY <1>12 DEF PutSpace, bufVars
    <2>2. CircSpace(head, tail)' = sp
      BY <1>1, <2>1
    <2>3. PICK d \in Int : d = Lesser(left[w], CircSpaceToEnd(head, tail)) /\ d <= sp
                           /\ d <= BufSize - head
      BY <1>0, <1>1, <1>8 DEF CircSpaceToEnd, Lesser
    <2>4. CASE d > 0
      <3>1. /\ chunk'[w] = d /\ left'[w] = f /\ want'[w] = g /\ room'[w] = r
        BY <1>0, <1>8, <1>12, <2>3, <2>4 DEF PutSpace
      <3> QED
        BY <1>0, <1>8, <1>9, <2>1, <2>2, <2>3, <3>1
    <2>5. CASE ~(d > 0)
      <3>1. /\ left'[w] = 0 /\ want'[w] = 0 /\ pc'[w] = "send"
        BY <1>0, <1>12, <2>3, <2>5 DEF PutSpace, Goto
      <3> QED
        BY <3>1
    <2> QED
      BY <2>4, <2>5
  <1>13. CASE PutCopy(w)
    <2>1. /\ head' = head /\ tail' = tail /\ pc[w] = "copy"
          /\ chunk'[w] = c /\ left'[w] = f /\ want'[w] = g /\ room'[w] = r
      BY <1>8, <1>13 DEF PutCopy, writerVars
    <2>2. CircSpace(head, tail)' = sp
      BY <1>1, <2>1
    <2> QED
      BY <1>8, <1>9, <2>1, <2>2
  <1>14. CASE PutAdvance(w)
    <2>1. /\ head' = Wrap(head + c) /\ tail' = tail /\ pc[w] = "advance" /\ pc'[w] = "space"
          /\ left'[w] = f - c /\ want'[w] = g /\ room'[w] = r
      BY <1>0, <1>8, <1>14 DEF PutAdvance, Goto
    <2>2. CircSpace(Wrap(head + c), tail) = sp - c
      BY <1>0, <1>1, <1>9, <2>1, HeadMoves
    <2>3. CircSpace(head, tail)' = sp - c
      BY <2>1, <2>2
    <2> QED
      BY <1>8, <1>9, <2>1, <2>3
  <1> QED
    BY <1>11, <1>12, <1>13, <1>14 DEF WriterStep

\* mxu1_send takes bytes out of the buffer: the room only grows.
LEMMA SendRoom ==
    ASSUME TypeInv, NEW a \in Actors, SendStep(a)
    PROVE  /\ head' = head /\ buf' = buf /\ nput' = nput
           /\ CircSpace(head, tail)' \in Int /\ CircSpace(head, tail) <= CircSpace(head, tail)'
  <1>0. /\ BufSize \in Int /\ head \in Int /\ 0 <= head /\ head < BufSize
        /\ tail \in Int /\ 0 <= tail /\ tail < BufSize
        /\ CircCnt(head, tail) \in Int /\ 0 <= CircCnt(head, tail)
        /\ CircSpace(head, tail) = BufSize - 1 - CircCnt(head, tail)
    BY BufInts
  <1>1. head' = head /\ buf' = buf /\ nput' = nput
    BY DEF SendStep, SendTake, SendSubmit, SendSubmitFails, bufVars
  <1>2. tail' = tail \/ tail' = BufGetTail(head, tail, BulkOutSize)
    BY DEF SendStep, SendTake, SendSubmit, SendSubmitFails, bufVars
  <1>3. CASE tail' = tail
    BY <1>0, <1>1, <1>3
  <1>4. CASE tail' = BufGetTail(head, tail, BulkOutSize)
    <2>1. PICK k \in Int : k = BufGetCount(head, tail, BulkOutSize)
                           /\ 0 <= k /\ k <= CircCnt(head, tail)
      BY <1>0, WriteAssumption DEF BufGetCount, Lesser
    <2>2. tail' = Wrap(tail + k)
      BY <1>4, <2>1 DEF BufGetTail
    <2>3. CircSpace(head, Wrap(tail + k)) = CircSpace(head, tail) + k
      BY <1>0, <2>1, TailMoves
    <2>4. CircSpace(head, tail)' = CircSpace(head, tail) + k
      BY <1>1, <2>2, <2>3
    <2> QED
      BY <1>0, <1>1, <2>1, <2>4
  <1> QED
    BY <1>2, <1>3, <1>4

\* With the output lock one writer is in the driver, and its chunk keeps its room.
LEMMA LockStep == ASSUME OutputLock PROVE LockInv /\ [Next]_vars => LockInv'
  <1> SUFFICES ASSUME LockInv, [Next]_vars PROVE OneWriter' /\ RoomInv'
    BY QuietStep DEF LockInv
  <1>0. /\ TypeInv /\ QuietInv /\ OneWriter /\ RoomInv /\ CircSpace(head, tail) \in Int
        /\ pc \in [Actors -> WriterPcs \cup CbPcs] /\ Cb \notin Writers /\ WritersOut
    BY BufInts, WriteAssumption DEF LockInv, QuietInv, OwnInv, TypeInv, TypeOK, PcTypeOK
  <1>1. CASE \E a \in Actors : SendStep(a)
    <2>1. PICK a \in Actors : SendStep(a)
      BY <1>1
    <2>2. pc[a] # "idle" /\ \E l \in {"idle", "submit"} : pc' = [pc EXCEPT ![a] = l]
      BY <2>1 DEF SendStep, SendTake, SendSubmit, SendSubmitFails, Goto
    <2>3. UNCHANGED writerVars
      BY <2>1 DEF SendStep, SendTake, SendSubmit, SendSubmitFails
    <2>4. OneWriter'
      BY <1>0, <2>2 DEF OneWriter, Actors
    <2>5. \A w \in Writers : pc'[w] \in {"space", "copy", "advance"} => pc[w] = pc'[w]
      BY <1>0, <2>2 DEF Actors
    <2>6. RoomInv'
      BY <1>0, <2>1, <2>3, <2>5, SendRoom, RoomKept
    <2> QED
      BY <2>4, <2>6
  <1>2. ASSUME UNCHANGED <<writerVars, head, tail>>,
               \A w \in Writers : pc'[w] = pc[w]
        PROVE  OneWriter' /\ RoomInv'
    <2>1. CircSpace(head, tail)' = CircSpace(head, tail)
      BY <1>2
    <2>2. OneWriter'
      BY <1>0, <1>2 DEF OneWriter
    <2>3. RoomInv'
      BY <1>0, <1>2, <2>1, RoomKept
    <2> QED
      BY <2>2, <2>3
  <1>3. CASE CompleteAny \/ CallbackClear \/ CallbackStatus
    <2>1. /\ UNCHANGED <<writerVars, head, tail>>
          /\ \A w \in Writers : pc'[w] = pc[w]
      BY <1>0, <1>3 DEF CompleteAny, Complete, CallbackClear, CallbackStatus, Goto, Actors, bufVars
    <2> QED
      BY <1>2, <2>1
  <1>4. CASE Transmit \/ Disconnect \/ UNCHANGED vars \/ Open \/ CloseBegin \/ BreakBegin
             \/ BreakEnd \/ KillBegin \/ KillEnd \/ \E gaveUp \in BOOLEAN : DrainDevice(gaveUp)
    <2>1. UNCHANGED <<writerVars, head, tail, pc>>
      BY <1>4 DEF Transmit, Disconnect, vars, Open, CloseBegin, BreakBegin, BreakEnd,
         KillBegin, KillEnd, DrainDevice, bufVars
    <2> QED
      BY <1>2, <2>1
  <1>5. CASE \E gaveUp \in BOOLEAN : DrainBuffer(gaveUp)
    <2>1. UNCHANGED <<writerVars, pc>> /\ ctl \in {"drainClose", "drainBreak"}
      BY <1>5 DEF DrainBuffer
    <2>2. CASE ctl = "drainBreak"
      <3>1. UNCHANGED <<head, tail>>
        BY <1>5, <2>2 DEF DrainBuffer
      <3> QED
        BY <1>2, <2>1, <3>1
    <2>3. CASE ctl = "drainClose"
      <3>1. \A w \in Writers : pc'[w] = "idle"
        BY <1>0, <2>1, <2>3 DEF WritersOut, ClosingPcs
      <3> QED
        BY <1>0, <2>1, <3>1 DEF OneWriter, RoomInv, writerVars
    <2> QED
      BY <2>1, <2>2, <2>3
  <1> QED
    BY <1>1, <1>3, <1>4, <1>5, RoomWriter DEF Next, CtlStep

\* No writer is in the driver before the port is open.
LEMMA LockInit == Init => LockInv
  BY QuietInit DEF Init, LockInv, OneWriter, RoomInv, Actors

\* Where the tty core serialises its writers, the chunk that mxu1_buf_put
\* computed in one critical section still fits, before the end of the array and
\* in the free space, in the two critical sections that use it: the callback and
\* mxu1_send only make room, and a close waits until the writers are out.
THEOREM PutInBounds == ASSUME OutputLock PROVE Spec => []PutStaysInBounds
  <1>1. LockInv => PutStaysInBounds
    BY DEF LockInv, RoomInv, PutStaysInBounds
  <1> QED
    BY <1>1, LockInit, LockStep, PTL DEF Spec

\* ... and a write takes at least what mxu1_write_room promised it: the loop
\* gives up only when nothing is left to put or the whole buffer is full, not
\* when it has reached the end of the array.
THEOREM RoomIsHonoured == ASSUME OutputLock PROVE Spec => RoomHonoured
  <1> DEFINE Honest == \A w \in Writers :
                 pc[w] = "space" /\ pc'[w] = "send" =>
                     want[w] - left[w] >= Lesser(want[w], room[w])
  <1>1. LockInv /\ [Next]_vars => [Honest]_vars
    <2> SUFFICES ASSUME LockInv, [Next]_vars, NEW w \in Writers,
                        pc[w] = "space", pc'[w] = "send"
                 PROVE  want[w] - left[w] >= Lesser(want[w], room[w])
      OBVIOUS
    <2>0. /\ BufSize \in Int /\ head \in Int /\ head < BufSize
          /\ want \in [Writers -> Nat] /\ left \in [Writers -> Nat] /\ room \in [Writers -> Nat]
          /\ pc \in [Actors -> WriterPcs \cup CbPcs] /\ Cb \notin Writers /\ OneWriter
          /\ w \in Actors
      BY BufInts, WriteAssumption DEF LockInv, QuietInv, OwnInv, TypeInv, TypeOK,
         WriterTypeOK, PcTypeOK, Actors
    <2>1. PutSpace(w)
      <3>1. CASE \E v \in Writers : WriterStep(v)
        <4>1. PICK v \in Writers : WriterStep(v)
          BY <3>1
        <4>2. \E l \in {"space", "copy", "advance", "send"} : pc' = [pc EXCEPT ![v] = l]
          BY <4>1 DEF WriterStep, WriteBegin, PutSpace, PutCopy, PutAdvance, Goto
        <4>3. v = w
          BY <2>0, <4>2
        <4> QED
          BY <2>0, <4>1, <4>3 DEF WriterStep, WriteBegin, PutCopy, PutAdvance, Goto
      <3>2. CASE \E a \in Actors : SendStep(a)
        BY <2>0, <3>2 DEF SendStep, SendTake, SendSubmit, SendSubmitFails, Goto
      <3>3. CASE CompleteAny \/ CallbackClear \/ CallbackStatus
        BY <2>0, <3>3 DEF CompleteAny, Complete, CallbackClear, CallbackStatus, Goto
      <3>4. CASE CtlStep \/ Transmit \/ Disconnect \/ UNCHANGED vars
        <4>1. pc' = pc
          BY <3>4 DEF CtlStep, Open, CloseBegin, BreakBegin, BreakEnd, KillBegin, KillEnd,
             DrainBuffer, DrainDevice, Transmit, Disconnect, vars
        <4> QED
          BY <4>1
      <3> QED
        BY <3>1, <3>2, <3>3, <3>4 DEF Next
    <2>2. PICK sp \in Int : sp = CircSpace(head, tail)
      BY BufInts DEF LockInv, QuietInv, OwnInv
    <2>3. left[w] <= want[w] /\ room[w] + left[w] - want[w] <= sp
      BY <2>2 DEF LockInv, RoomInv
    <2>4. ~(Lesser(left[w], CircSpaceToEnd(head, tail)) > 0)
      BY <2>0, <2>1 DEF PutSpace, Goto
    <2>5. left[w] = 0 \/ sp <= 0
      BY <2>0, <2>2, <2>4 DEF Lesser, CircSpaceToEnd
    <2> QED
      BY <2>0, <2>3, <2>5 DEF Lesser
  <1> QED
    BY <1>1, LockInit, LockStep, PTL DEF Spec, RoomHonoured

-----------------------------------------------------------------------------
(* Sequences of bytes: order and contents of a concatenation.              *)

Increasing(s) == \A i, j \in 1 .. Len(s) : i < j => s[i] < s[j]
AllBelow(S, T) == \A x \in S, y \in T : x < y

\* The bytes of two sequences one after the other.
LEMMA CatRange ==
    ASSUME NEW a \in Seq(Nat), NEW b \in Seq(Nat)
    PROVE  Range1(a \o b) = Range1(a) \cup Range1(b)
  <1>1. /\ Len(a) \in Nat /\ Len(b) \in Nat /\ Len(a \o b) = Len(a) + Len(b)
        /\ \A i \in 1 .. Len(a) + Len(b) :
               (a \o b)[i] = IF i <= Len(a) THEN a[i] ELSE b[i - Len(a)]
    OBVIOUS
  <1>2. ASSUME NEW x \in Range1(a) PROVE x \in Range1(a \o b)
    <2>1. PICK i \in 1 .. Len(a) : x = a[i]
      BY DEF Range1
    <2>2. i \in 1 .. Len(a \o b) /\ (a \o b)[i] = x
      BY <1>1, <2>1
    <2> QED
      BY <2>2 DEF Range1
  <1>3. ASSUME NEW x \in Range1(b) PROVE x \in Range1(a \o b)
    <2>1. PICK i \in 1 .. Len(b) : x = b[i]
      BY DEF Range1
    <2>2. PICK j \in Int : j = Len(a) + i
      BY <1>1
    <2>3. j \in 1 .. Len(a \o b) /\ j - Len(a) = i /\ ~(j <= Len(a))
      BY <1>1, <2>2
    <2>4. (a \o b)[j] = x
      BY <1>1, <2>1, <2>3
    <2> QED
      BY <2>3, <2>4 DEF Range1
  <1>4. ASSUME NEW x \in Range1(a \o b) PROVE x \in Range1(a) \cup Range1(b)
    <2>1. PICK i \in 1 .. Len(a \o b) : x = (a \o b)[i]
      BY DEF Range1
    <2>2. CASE i <= Len(a)
      BY <1>1, <2>1, <2>2 DEF Range1
    <2>3. CASE ~(i <= Len(a))
      <3>1. i - Len(a) \in 1 .. Len(b) /\ x = b[i - Len(a)]
        BY <1>1, <2>1, <2>3
      <3> QED
        BY <3>1 DEF Range1
    <2> QED
      BY <2>2, <2>3
  <1> QED
    BY <1>2, <1>3, <1>4

\* When two sequences one after the other are in order.
LEMMA CatIncreasing ==
    ASSUME NEW a \in Seq(Nat), NEW b \in Seq(Nat)
    PROVE  Increasing(a \o b) <=>
               Increasing(a) /\ Increasing(b) /\ AllBelow(Range1(a), Range1(b))
  <1>1. /\ Len(a) \in Nat /\ Len(b) \in Nat /\ Len(a \o b) = Len(a) + Len(b)
        /\ \A i \in 1 .. Len(a) + Len(b) :
               (a \o b)[i] = IF i <= Len(a) THEN a[i] ELSE b[i - Len(a)]
    OBVIOUS
  <1>2. ASSUME Increasing(a \o b) PROVE Increasing(a)
    <2> SUFFICES ASSUME NEW i \in 1 .. Len(a), NEW j \in 1 .. Len(a), i < j PROVE a[i] < a[j]
      BY DEF Increasing
    <2>1. /\ i \in 1 .. Len(a \o b) /\ (a \o b)[i] = a[i]
          /\ j \in 1 .. Len(a \o b) /\ (a \o b)[j] = a[j]
      BY <1>1
    <2> QED
      BY <1>2, <2>1 DEF Increasing
  <1>3. ASSUME NEW i \in 1 .. Len(b)
        PROVE  Len(a) + i \in 1 .. Len(a \o b) /\ (a \o b)[Len(a) + i] = b[i]
    <2>1. PICK j \in Int : j = Len(a) + i
      BY <1>1
    <2>2. j \in 1 .. Len(a) + Len(b) /\ j - Len(a) = i /\ ~(j <= Len(a))
      BY <1>1, <2>1
    <2>3. (a \o b)[j] = b[i]
      BY <1>1, <2>2
    <2> QED
      BY <1>1, <2>1, <2>2, <2>3
  <1>4. ASSUME Increasing(a \o b) PROVE Increasing(b)
    <2> SUFFICES ASSUME NEW i \in 1 .. Len(b), NEW j \in 1 .. Len(b), i < j PROVE b[i] < b[j]
      BY DEF Increasing
    <2>1. Len(a) + i < Len(a) + j
      BY <1>1
    <2> QED
      BY <1>3, <1>4, <2>1 DEF Increasing
  <1>5. ASSUME Increasing(a \o b) PROVE AllBelow(Range1(a), Range1(b))
    <2> SUFFICES ASSUME NEW i \in 1 .. Len(a), NEW j \in 1 .. Len(b) PROVE a[i] < b[j]
      BY DEF AllBelow, Range1
    <2>1. i \in 1 .. Len(a \o b) /\ (a \o b)[i] = a[i] /\ i < Len(a) + j
      BY <1>1
    <2> QED
      BY <1>3, <1>5, <2>1 DEF Increasing
  <1>6. ASSUME Increasing(a), Increasing(b), AllBelow(Range1(a), Range1(b))
        PROVE  Increasing(a \o b)
    <2> SUFFICES ASSUME NEW i \in 1 .. Len(a \o b), NEW j \in 1 .. Len(a \o b), i < j
                 PROVE  (a \o b)[i] < (a \o b)[j]
      BY DEF Increasing
    <2>1. CASE j <= Len(a)
      BY <1>1, <1>6, <2>1 DEF Increasing
    <2>2. CASE ~(i <= Len(a))
      <3>1. /\ i - Len(a) \in 1 .. Len(b) /\ (a \o b)[i] = b[i - Len(a)]
            /\ j - Len(a) \in 1 .. Len(b) /\ (a \o b)[j] = b[j - Len(a)]
            /\ i - Len(a) < j - Len(a)
        BY <1>1, <2>2
      <3> QED
        BY <1>6, <3>1 DEF Increasing
    <2>3. CASE i <= Len(a) /\ ~(j <= Len(a))
      <3>1. /\ i \in 1 .. Len(a) /\ (a \o b)[i] = a[i]
            /\ j - Len(a) \in 1 .. Len(b) /\ (a \o b)[j] = b[j - Len(a)]
        BY <1>1, <2>3
      <3>2. a[i] \in Range1(a) /\ b[j - Len(a)] \in Range1(b)
        BY <3>1 DEF Range1
      <3> QED
        BY <1>6, <3>1, <3>2 DEF AllBelow
    <2> QED
      BY <1>1, <2>1, <2>2, <2>3
  <1> QED
    BY <1>2, <1>4, <1>5, <1>6

\* A sequence is its first k elements followed by the others.
LEMMA SplitAt ==
    ASSUME NEW s \in Seq(Nat), NEW k \in Int, 0 <= k, k <= Len(s)
    PROVE  /\ SubSeq(s, 1, k) \in Seq(Nat) /\ SubSeq(s, k + 1, Len(s)) \in Seq(Nat)
           /\ s = SubSeq(s, 1, k) \o SubSeq(s, k + 1, Len(s))
  <1>1. Len(s) \in Nat
    OBVIOUS
  <1>2. /\ SubSeq(s, 1, k) \in Seq(Nat) /\ Len(SubSeq(s, 1, k)) = k
        /\ SubSeq(s, k + 1, Len(s)) \in Seq(Nat)
        /\ Len(SubSeq(s, k + 1, Len(s))) = Len(s) - k
    BY <1>1, SubSeqProperties
  <1>3. /\ \A i \in 1 .. k : SubSeq(s, 1, k)[i] = s[i]
        /\ \A i \in 1 .. Len(s) - k : SubSeq(s, k + 1, Len(s))[i] = s[k + i]
    BY <1>1
  <1>4. PICK p \in Seq(Nat), q \in Seq(Nat) :
            p = SubSeq(s, 1, k) /\ q = SubSeq(s, k + 1, Len(s))
    BY <1>2
  <1>5. Len(p) = k /\ Len(q) = Len(s) - k
    BY <1>2, <1>4, Zenon
  <1>6. /\ p \o q \in Seq(Nat) /\ Len(p \o q) = Len(p) + Len(q)
        /\ \A i \in 1 .. Len(p) + Len(q) :
               (p \o q)[i] = IF i <= Len(p) THEN p[i] ELSE q[i - Len(p)]
    OBVIOUS
  <1>7. /\ p \o q \in Seq(Nat) /\ Len(p \o q) = Len(s)
        /\ \A i \in 1 .. Len(s) : (p \o q)[i] = IF i <= k THEN p[i] ELSE q[i - k]
    BY <1>1, <1>5, <1>6
  <1>8. ASSUME NEW i \in 1 .. Len(s) PROVE (p \o q)[i] = s[i]
    <2>1. CASE i <= k
      <3>1. i \in 1 .. k
        BY <2>1
      <3> QED
        BY <1>3, <1>4, <1>7, <2>1, <3>1
    <2>2. CASE ~(i <= k)
      <3>1. PICK j \in Int : j = i - k
        BY <1>1
      <3>2. j \in 1 .. Len(s) - k /\ k + j = i
        BY <1>1, <2>2, <3>1
      <3> QED
        BY <1>3, <1>4, <1>7, <2>2, <3>1, <3>2
    <2> QED
      BY <2>1, <2>2
  <1>9. p \o q = s
    BY <1>7, <1>8, SeqEqual
  <1> QED
    BY <1>2, <1>4, <1>9

-----------------------------------------------------------------------------
(* The bytes in the buffer.                                                *)

\* How far behind the tail a slot lies, and how many bytes have left the buffer.
Ahead(s) == IF s >= tail THEN s - tail ELSE s - tail + BufSize
Gone == nput - CircCnt(head, tail)

\* The slots from the tail on hold the newest bytes in their order.
SlotInv == \A s \in Slots : Ahead(s) < CircCnt(head, tail) => buf[s] = Gone + 1 + Ahead(s)

\* What mxu1_buf_put has copied and not yet counted lies at the head.
CopyInv ==
    \A w \in Writers : pc[w] = "advance" =>
        \A s \in Slots : s - head \in 0 .. chunk[w] - 1 => buf[s] = nput + 1 + s - head

RingInv == SlotInv /\ CopyInv /\ 0 <= Gone

\* The step of a writer: it copies behind the head, then counts what it copied.
LEMMA RingWriter ==
    ASSUME OutputLock, LockInv, RingInv, NEW w \in Writers, WriterStep(w)
    PROVE  RingInv' /\ Gone' = Gone /\ tail' = tail
  <1>0. /\ BufSize \in Int /\ BufSize >= 2
        /\ head \in Int /\ 0 <= head /\ head < BufSize
        /\ tail \in Int /\ 0 <= tail /\ tail < BufSize
        /\ nput \in Int /\ 0 <= nput /\ Slots = 0 .. BufSize - 1 /\ buf \in [Slots -> Nat]
        /\ chunk \in [Writers -> Nat] /\ RoomInv /\ OneWriter
        /\ pc \in [Actors -> WriterPcs \cup CbPcs]
        /\ Writers \subseteq Actors /\ TypeInv /\ SlotInv /\ CopyInv
    BY BufInts DEF LockInv, QuietInv, OwnInv, TypeInv, TypeOK, WriterTypeOK, BufTypeOK,
       PcTypeOK, Actors, Slots, RingInv
  <1>1. PICK n \in Int : /\ n = CircCnt(head, tail) /\ 0 <= n /\ n < BufSize
                         /\ head >= tail => n = head - tail
                         /\ head < tail => n = head - tail + BufSize
                         /\ CircSpace(head, tail) = BufSize - 1 - n
    BY <1>0, BufInts
  <1>2. PICK c \in Nat : c = chunk[w]
    BY <1>0
  <1>3. PICK l \in {"space", "copy", "advance", "send"} : pc' = [pc EXCEPT ![w] = l]
    BY DEF WriterStep, WriteBegin, PutSpace, PutCopy, PutAdvance, Goto
  <1>4. \A v \in Writers : v # w => pc'[v] = "idle"
    BY <1>0, <1>3 DEF OneWriter, WriterStep, WriteBegin, PutSpace, PutCopy, PutAdvance,
       TtyWriteAllowed
  <1>5. tail' = tail /\ \A s \in Slots : Ahead(s)' = Ahead(s) /\ Ahead(s) \in Int
    BY <1>0 DEF WriterStep, WriteBegin, PutSpace, PutCopy, PutAdvance, bufVars, Ahead
  <1>6. Gone = nput - n /\ 0 <= nput - n
    BY <1>1 DEF Gone, RingInv
  <1>7. CASE (\E m \in 1 .. MaxReq : WriteBegin(w, m)) \/ PutSpace(w)
    <2>1. UNCHANGED bufVars /\ pc'[w] # "advance"
      BY <1>0, <1>7 DEF WriteBegin, PutSpace, Goto
    <2>2. Gone' = Gone /\ CircCnt(head, tail)' = n
      BY <1>1, <2>1 DEF Gone, bufVars
    <2>3. SlotInv'
      BY <1>0, <1>1, <1>5, <2>1, <2>2 DEF SlotInv, bufVars
    <2>4. CopyInv'
      BY <1>4, <2>1 DEF CopyInv
    <2> QED
      BY <1>5, <1>6, <2>2, <2>3, <2>4 DEF RingInv
  <1>8. CASE PutCopy(w)
    <2>1. /\ head' = head /\ nput' = nput /\ chunk' = chunk /\ pc[w] = "copy"
          /\ buf' = [s \in Slots |-> IF s - head \in 0 .. c - 1
                                     THEN [i \in 1 .. c |-> nput + i][s - head + 1] ELSE buf[s]]
      BY <1>2, <1>8 DEF PutCopy, CopyIn, writerVars
    <2>2. head + c <= BufSize /\ c <= BufSize - 1 - n
      BY <1>0, <1>1, <1>2, <2>1 DEF RoomInv
    <2>3. ASSUME NEW s \in Slots
          PROVE  /\ s - head \in 0 .. c - 1 => buf'[s] = nput + 1 + s - head
                 /\ s - head \notin 0 .. c - 1 => buf'[s] = buf[s]
      <3>1. CASE s - head \in 0 .. c - 1
        <4>1. s - head + 1 \in 1 .. c
          BY <1>0, <3>1
        <4> QED
          BY <1>0, <2>1, <3>1, <4>1
      <3>2. CASE s - head \notin 0 .. c - 1
        BY <2>1, <3>2
      <3> QED
        BY <3>1, <3>2
    <2>4. Gone' = Gone /\ CircCnt(head, tail)' = n
      BY <1>1, <1>5, <2>1 DEF Gone
    <2>5. ASSUME NEW s \in Slots, Ahead(s) < n PROVE s - head \notin 0 .. c - 1
      BY <1>0, <1>1, <2>2, <2>5 DEF Ahead
    <2>6. SlotInv'
      BY <1>0, <1>1, <1>5, <2>3, <2>4, <2>5 DEF SlotInv
    <2>7. CopyInv'
      BY <1>2, <1>4, <2>1, <2>3 DEF CopyInv
    <2> QED
      BY <1>5, <1>6, <2>4, <2>6, <2>7 DEF RingInv
  <1>9. CASE PutAdvance(w)
    <2>1. /\ head' = Wrap(head + c) /\ nput' = nput + c /\ buf' = buf
          /\ pc[w] = "advance" /\ pc'[w] = "space"
      BY <1>0, <1>2, <1>9 DEF PutAdvance, Goto
    <2>2. head + c <= BufSize /\ c <= BufSize - 1 - n
      BY <1>0, <1>1, <1>2, <2>1 DEF RoomInv
    <2>3. CircCnt(Wrap(head + c), tail) = n + c
      BY <1>0, <1>1, <2>2, HeadMoves
    <2>4. CircCnt(head, tail)' = n + c /\ Gone' = Gone
      <3>1. CircCnt(head, tail)' = n + c
        BY <1>5, <2>1, <2>3
      <3> QED
        BY <1>0, <1>6, <2>1, <3>1 DEF Gone
    <2>5. ASSUME NEW s \in Slots, Ahead(s) < n + c PROVE buf[s] = nput - n + 1 + Ahead(s)
      <3>1. CASE Ahead(s) < n
        BY <1>0, <1>1, <1>6, <3>1 DEF SlotInv
      <3>2. CASE ~(Ahead(s) < n)
        <4>1. s - head \in 0 .. c - 1 /\ Ahead(s) = s - head + n
          <5>1. /\ s \in Int /\ 0 <= s /\ s < BufSize /\ BufSize \in Int
                /\ head \in Int /\ 0 <= head /\ head < BufSize
                /\ tail \in Int /\ 0 <= tail /\ tail < BufSize
            BY <1>0
          <5>2. CASE s >= tail
            BY <1>1, <2>2, <2>5, <3>2, <5>1, <5>2 DEF Ahead
          <5>3. CASE ~(s >= tail)
            BY <1>1, <2>2, <2>5, <3>2, <5>1, <5>3 DEF Ahead
          <5> QED
            BY <5>2, <5>3
        <4>2. buf[s] = nput + 1 + s - head
          BY <1>0, <1>2, <2>1, <4>1 DEF CopyInv
        <4> QED
          BY <1>0, <4>1, <4>2
      <3> QED
        BY <3>1, <3>2
    <2>6. SlotInv'
      BY <1>5, <1>6, <2>1, <2>4, <2>5 DEF SlotInv
    <2>7. CopyInv'
      BY <1>4, <2>1 DEF CopyInv
    <2> QED
      BY <1>5, <1>6, <2>4, <2>6, <2>7 DEF RingInv
  <1> QED
    BY <1>7, <1>8, <1>9 DEF WriterStep

\* What the buffer holds: the bytes after those that have left it.
LEMMA ContentsAre ==
    ASSUME TypeInv, SlotInv
    PROVE  /\ Contents(buf, head, tail) \in Seq(Nat)
           /\ Len(Contents(buf, head, tail)) = CircCnt(head, tail)
           /\ \A i \in 1 .. CircCnt(head, tail) : Contents(buf, head, tail)[i] = Gone + i
  <1>0. /\ BufSize \in Int /\ BufSize >= 2 /\ tail \in Int /\ 0 <= tail /\ tail < BufSize
        /\ Slots = 0 .. BufSize - 1 /\ nput \in Int
    BY BufInts DEF Slots
  <1>1. PICK n \in Nat : n = CircCnt(head, tail) /\ n < BufSize
    BY BufInts
  <1>2. /\ Contents(buf, head, tail) \in Seq(Nat)
        /\ Len(Contents(buf, head, tail)) = n
    BY <1>1, ContentsType DEF TypeInv, TypeOK, BufTypeOK, Contents
  <1>3. ASSUME NEW i \in 1 .. n PROVE Contents(buf, head, tail)[i] = Gone + i
    <2>1. PICK x \in Int : x = tail + i - 1
      BY <1>0
    <2>2. /\ 0 <= x /\ x < BufSize => Wrap(x) = x
          /\ x >= BufSize => Wrap(x) = x - BufSize
          /\ Wrap(x) \in Int /\ 0 <= Wrap(x) /\ Wrap(x) < BufSize
      BY <1>0, <1>1, <2>1, WrapLinear
    <2>3. Ahead(Wrap(x)) = i - 1 /\ i - 1 < n /\ Wrap(x) \in Slots
      BY <1>0, <1>1, <2>1, <2>2 DEF Ahead
    <2>4. buf[Wrap(x)] = Gone + 1 + (i - 1)
      BY <1>1, <2>3 DEF SlotInv
    <2>5. Gone \in Int
      BY <1>0, <1>1 DEF Gone
    <2>6. Contents(buf, head, tail)[i] = buf[Wrap(x)]
      BY <1>1, <2>1 DEF Contents
    <2> QED
      BY <2>4, <2>5, <2>6
  <1> QED
    BY <1>1, <1>2, <1>3

\* Consecutive bytes are in order and are the interval they span.
LEMMA RunOf ==
    ASSUME NEW s \in Seq(Nat), NEW g \in Int, \A i \in 1 .. Len(s) : s[i] = g + i
    PROVE  Increasing(s) /\ Range1(s) = g + 1 .. g + Len(s)
  <1>1. Len(s) \in Nat
    OBVIOUS
  <1>2. Increasing(s)
    BY <1>1 DEF Increasing
  <1>3. ASSUME NEW x \in g + 1 .. g + Len(s) PROVE x \in Range1(s)
    <2>1. x - g \in 1 .. Len(s) /\ g + (x - g) = x
      BY <1>1
    <2>2. s[x - g] = x
      BY <2>1
    <2> QED
      BY <2>1, <2>2 DEF Range1
  <1>4. ASSUME NEW x \in Range1(s) PROVE x \in g + 1 .. g + Len(s)
    BY <1>1 DEF Range1
  <1> QED
    BY <1>2, <1>3, <1>4

\* mxu1_send moves the oldest bytes from the buffer to the transfer buffer.
LEMMA RingTake ==
    ASSUME TypeInv, RingInv, CircCnt(head, tail) # 0,
           xfer' = BufGetBytes(buf, head, tail, BulkOutSize),
           tail' = BufGetTail(head, tail, BulkOutSize),
           UNCHANGED <<buf, head, nput>>
    PROVE  /\ SlotInv' /\ Gone \in Int /\ 0 <= Gone /\ Gone' = Gone + Len(xfer')
           /\ xfer' \in Seq(Nat)
           /\ Increasing(xfer') /\ Range1(xfer') = Gone + 1 .. Gone + Len(xfer')
  <1>0. /\ BufSize \in Int /\ BufSize >= 2
        /\ head \in Int /\ 0 <= head /\ head < BufSize
        /\ tail \in Int /\ 0 <= tail /\ tail < BufSize
        /\ nput \in Int /\ Slots = 0 .. BufSize - 1 /\ SlotInv
    BY BufInts DEF Slots, RingInv
  <1>1. PICK n \in Int : n = CircCnt(head, tail) /\ 0 <= n /\ n < BufSize
    BY BufInts
  <1>2. PICK k \in Int : k = BufGetCount(head, tail, BulkOutSize) /\ 0 <= k /\ k <= n
    BY <1>1, WriteAssumption DEF BufGetCount, Lesser
  <1>3. PICK C \in Seq(Nat) : /\ C = Contents(buf, head, tail) /\ Len(C) = n
                              /\ \A i \in 1 .. n : C[i] = Gone + i
    BY <1>0, <1>1, ContentsAre
  <1>4. xfer' = SubSeq(C, 1, k)
    BY <1>2, <1>3 DEF BufGetBytes
  <1>5. xfer' \in Seq(Nat) /\ Len(xfer') = k /\ \A i \in 1 .. k : xfer'[i] = C[i]
    BY <1>1, <1>2, <1>3, <1>4, SubSeqProperties
  <1>6. Gone \in Int /\ 0 <= Gone /\ Gone = nput - n
    BY <1>0, <1>1 DEF Gone, RingInv
  <1>7. \A i \in 1 .. Len(xfer') : xfer'[i] = Gone + i
    BY <1>1, <1>2, <1>3, <1>5
  <1>8. Increasing(xfer') /\ Range1(xfer') = Gone + 1 .. Gone + Len(xfer')
    BY <1>5, <1>6, <1>7, RunOf
  <1>9. tail' = Wrap(tail + k)
    BY <1>2 DEF BufGetTail
  <1>10. /\ Wrap(tail + k) \in Int /\ 0 <= Wrap(tail + k) /\ Wrap(tail + k) < BufSize
         /\ CircCnt(head, Wrap(tail + k)) = n - k
         /\ Wrap(tail + k) \in {tail + k, tail + k - BufSize}
    BY <1>0, <1>1, <1>2, TailMoves
  <1>11. /\ tail' \in Int /\ 0 <= tail' /\ tail' < BufSize
         /\ CircCnt(head, tail)' = n - k /\ tail' \in {tail + k, tail + k - BufSize}
    BY <1>9, <1>10
  <1>12. Gone' = Gone + k
    BY <1>0, <1>1, <1>2, <1>6, <1>11 DEF Gone
  <1>13. ASSUME NEW s \in Slots, Ahead(s)' < n - k
         PROVE  buf'[s] = Gone' + 1 + Ahead(s)'
    <2>1. s \in Int /\ 0 <= s /\ s < BufSize
      BY <1>0
    <2>2. Ahead(s)' \in Int /\ Ahead(s) = Ahead(s)' + k
      <3>1. /\ s >= tail => Ahead(s) = s - tail
            /\ ~(s >= tail) => Ahead(s) = s - tail + BufSize
            /\ s >= tail' => Ahead(s)' = s - tail'
            /\ ~(s >= tail') => Ahead(s)' = s - tail' + BufSize
        BY DEF Ahead
      <3>2. PICK t \in Int, u \in Int, x \in Int, y \in Int :
                t = tail /\ u = tail' /\ x = Ahead(s) /\ y = Ahead(s)'
        BY <1>0, <1>11, <2>1, <3>1
      <3>3. x = y + k
        <4>1. /\ s >= t => x = s - t
              /\ ~(s >= t) => x = s - t + BufSize
              /\ s >= u => y = s - u
              /\ ~(s >= u) => y = s - u + BufSize
              /\ y < n - k /\ u \in {t + k, t + k - BufSize}
              /\ 0 <= t /\ t < BufSize /\ 0 <= u /\ u < BufSize /\ BufSize \in Int
          BY <1>0, <1>11, <1>13, <3>1, <3>2
        <4>2. PICK N \in Int, v \in Int : N = BufSize /\ v = s
          BY <2>1, <4>1
        <4>3. /\ v >= t => x = v - t
              /\ ~(v >= t) => x = v - t + N
              /\ v >= u => y = v - u
              /\ ~(v >= u) => y = v - u + N
          BY <4>1, <4>2
        <4>4. /\ y < n - k /\ (u = t + k \/ u = t + k - N) /\ 0 <= v /\ v < N
              /\ 0 <= t /\ t < N /\ 0 <= u /\ u < N /\ 0 <= k /\ k <= n /\ n < N
          BY <1>1, <1>2, <2>1, <4>1, <4>2
        <4> QED
          BY <4>3, <4>4
      <3> QED
        BY <3>2, <3>3
    <2>3. buf[s] = Gone + 1 + Ahead(s)
      BY <1>0, <1>1, <1>2, <1>13, <2>2 DEF SlotInv
    <2> QED
      BY <1>2, <1>6, <1>12, <2>2, <2>3
  <1>14. SlotInv'
    BY <1>11, <1>13 DEF SlotInv
  <1> QED
    BY <1>5, <1>6, <1>8, <1>12, <1>14

-----------------------------------------------------------------------------
(* The bytes that have left the buffer.                                    *)

\* Bytes 1 .. g have left the buffer: they are on the line (s), in the adapter
\* (d), in the URB (x) or lost (l), in that order and each in one place.
Flow(s, d, x, l, g) ==
    /\ Increasing(s) /\ Increasing(d) /\ Increasing(x)
    /\ AllBelow(Range1(s), Range1(d)) /\ AllBelow(Range1(s), Range1(x))
    /\ AllBelow(Range1(d), Range1(x))
    /\ Range1(s) \cup Range1(d) \cup Range1(x) \cup l = 1 .. g
    /\ (Range1(s) \cup Range1(d) \cup Range1(x)) \cap l = {}

\* The empty sequence.
LEMMA NoBytes == <<>> \in Seq(Nat) /\ Increasing(<<>>) /\ Range1(<<>>) = {}
  BY DEF Increasing, Range1

\* Sets of which one lies below the other share nothing.
LEMMA Apart ==
    ASSUME NEW A \in SUBSET Nat, NEW B, AllBelow(A, B) PROVE A \cap B = {}
  <1> SUFFICES ASSUME NEW x \in A, x \in B PROVE FALSE
    OBVIOUS
  <1>1. x < x /\ x \in Nat
    BY DEF AllBelow
  <1> QED
    BY <1>1

\* mxu1_send fills the empty transfer buffer.
LEMMA FlowTake ==
    ASSUME NEW s \in Seq(Nat), NEW d \in Seq(Nat), NEW x \in Seq(Nat), NEW l,
           NEW g \in Int, 0 <= g, Flow(s, d, <<>>, l, g),
           Increasing(x), Range1(x) = g + 1 .. g + Len(x)
    PROVE  Flow(s, d, x, l, g + Len(x))
  <1>1. Range1(s) \subseteq 1 .. g /\ Range1(d) \subseteq 1 .. g /\ l \subseteq 1 .. g
    BY DEF Flow
  <1>2. \A y \in 1 .. g, z \in Range1(x) : y < z
    OBVIOUS
  <1>3. AllBelow(Range1(s), Range1(x)) /\ AllBelow(Range1(d), Range1(x))
    BY <1>1, <1>2 DEF AllBelow
  <1>4. Len(x) \in Nat
    OBVIOUS
  <1>5. Range1(s) \cup Range1(d) \cup l = 1 .. g
    BY NoBytes DEF Flow
  <1>6. (1 .. g) \cup Range1(x) = 1 .. g + Len(x)
    BY <1>4
  <1>7. Range1(s) \cup Range1(d) \cup Range1(x) \cup l = 1 .. g + Len(x)
    BY <1>5, <1>6
  <1>8. l \cap Range1(x) = {}
    BY <1>1, <1>4
  <1> QED
    BY <1>3, <1>7, <1>8, NoBytes DEF Flow

\* A failed submission loses what the URB carried.
LEMMA FlowFail ==
    ASSUME NEW s \in Seq(Nat), NEW d \in Seq(Nat), NEW x \in Seq(Nat), NEW l, NEW g,
           Flow(s, d, x, l, g)
    PROVE  Flow(s, d, <<>>, l \cup Range1(x), g)
  <1>1. Range1(s) \cap Range1(x) = {} /\ Range1(d) \cap Range1(x) = {}
    BY Apart, RangeType DEF Flow
  <1>2. AllBelow(Range1(s), {}) /\ AllBelow(Range1(d), {})
    BY DEF AllBelow
  <1> QED
    BY <1>1, <1>2, NoBytes DEF Flow

\* A transfer ends: its first part reaches the adapter, the rest is lost.
LEMMA FlowComplete ==
    ASSUME NEW s \in Seq(Nat), NEW d \in Seq(Nat), NEW p \in Seq(Nat), NEW q \in Seq(Nat),
           NEW l, NEW g, Flow(s, d, p \o q, l, g)
    PROVE  Flow(s, d \o p, <<>>, l \cup Range1(q), g)
  <1>1. Range1(p \o q) = Range1(p) \cup Range1(q) /\ Range1(d \o p) = Range1(d) \cup Range1(p)
    BY CatRange
  <1>2. Increasing(p) /\ AllBelow(Range1(p), Range1(q))
    BY CatIncreasing DEF Flow
  <1>3. /\ AllBelow(Range1(s), Range1(d) \cup Range1(p)) /\ AllBelow(Range1(d), Range1(p))
        /\ AllBelow(Range1(s), Range1(q)) /\ AllBelow(Range1(d), Range1(q))
    BY <1>1 DEF Flow, AllBelow
  <1>4. Increasing(d \o p)
    BY <1>2, <1>3, CatIncreasing DEF Flow
  <1>5. /\ Range1(s) \cap Range1(q) = {} /\ Range1(d) \cap Range1(q) = {}
        /\ Range1(p) \cap Range1(q) = {}
    BY <1>2, <1>3, Apart, RangeType
  <1>6. AllBelow(Range1(s), {}) /\ AllBelow(Range1(d \o p), {})
    BY DEF AllBelow
  <1>7. Range1(s) \cup Range1(d \o p) \cup {} \cup (l \cup Range1(q)) = 1 .. g
    BY <1>1 DEF Flow
  <1>8. (Range1(s) \cup Range1(d \o p) \cup {}) \cap (l \cup Range1(q)) = {}
    BY <1>1, <1>5 DEF Flow
  <1> QED
    BY <1>1, <1>3, <1>4, <1>6, <1>7, <1>8, NoBytes DEF Flow

\* The adapter shifts its oldest bytes out.
LEMMA FlowSend ==
    ASSUME NEW s \in Seq(Nat), NEW p \in Seq(Nat), NEW q \in Seq(Nat), NEW x \in Seq(Nat),
           NEW l, NEW g, Flow(s, p \o q, x, l, g)
    PROVE  Flow(s \o p, q, x, l, g)
  <1>1. Range1(p \o q) = Range1(p) \cup Range1(q) /\ Range1(s \o p) = Range1(s) \cup Range1(p)
    BY CatRange
  <1>2. Increasing(p) /\ Increasing(q) /\ AllBelow(Range1(p), Range1(q))
    BY CatIncreasing DEF Flow
  <1>3. /\ AllBelow(Range1(s), Range1(p)) /\ AllBelow(Range1(s) \cup Range1(p), Range1(q))
        /\ AllBelow(Range1(s) \cup Range1(p), Range1(x)) /\ AllBelow(Range1(q), Range1(x))
    BY <1>1, <1>2 DEF Flow, AllBelow
  <1>4. Increasing(s \o p)
    BY <1>2, <1>3, CatIncreasing DEF Flow
  <1> QED
    BY <1>1, <1>2, <1>3, <1>4 DEF Flow

\* The adapter is purged or unplugged.
LEMMA FlowPurge ==
    ASSUME NEW s \in Seq(Nat), NEW d \in Seq(Nat), NEW x \in Seq(Nat), NEW l, NEW g,
           Flow(s, d, x, l, g)
    PROVE  Flow(s, <<>>, x, l \cup Range1(d), g)
  <1>1. Range1(s) \cap Range1(d) = {} /\ Range1(d) \cap Range1(x) = {}
    BY Apart, RangeType DEF Flow
  <1>2. AllBelow(Range1(s), {}) /\ AllBelow({}, Range1(x))
    BY DEF AllBelow
  <1> QED
    BY <1>1, <1>2, NoBytes DEF Flow

\* The buffer is flushed: what it held is lost.
LEMMA FlowFlush ==
    ASSUME NEW s, NEW d, NEW x, NEW l, NEW g \in Int, 0 <= g,
           NEW m \in Int, g <= m, Flow(s, d, x, l, g)
    PROVE  Flow(s, d, x, l \cup (g + 1 .. m), m)
  <1>1. (1 .. g) \cup (g + 1 .. m) = 1 .. m
    OBVIOUS
  <1>2. (1 .. g) \cap (g + 1 .. m) = {}
    OBVIOUS
  <1> QED
    BY <1>1, <1>2 DEF Flow

FlowInv == Flow(sent, devq, InTransfer, lost, Gone)

ByteInv == LockInv /\ RingInv /\ FlowInv

\* The sequences of the pipe.
LEMMA PipeTypes ==
    ASSUME TypeInv
    PROVE  /\ sent \in Seq(Nat) /\ devq \in Seq(Nat) /\ xfer \in Seq(Nat)
           /\ InTransfer \in Seq(Nat) /\ lost \in SUBSET Nat
  BY NoBytes DEF TypeInv, TypeOK, DevTypeOK, UrbTypeOK, InTransfer

\* A step that leaves the pipe and the buffer alone.
LEMMA ByteKept ==
    ASSUME RingInv, FlowInv, UNCHANGED <<bufVars, devVars, lost, InTransfer, chunk>>,
           \A w \in Writers : pc'[w] = "advance" => pc[w] = "advance"
    PROVE  RingInv' /\ FlowInv'
  <1>1. Gone' = Gone /\ CircCnt(head, tail)' = CircCnt(head, tail)
    BY DEF Gone, bufVars
  <1>2. SlotInv'
    BY <1>1 DEF RingInv, SlotInv, Ahead, bufVars
  <1>3. CopyInv'
    BY DEF RingInv, CopyInv, bufVars
  <1>4. FlowInv'
    BY <1>1 DEF FlowInv, devVars
  <1> QED
    BY <1>1, <1>2, <1>3, <1>4 DEF RingInv

\* mxu1_send: from the buffer to the URB, or back to nothing.
LEMMA ByteSend ==
    ASSUME OutputLock, ByteInv, NEW a \in Actors, SendStep(a)
    PROVE  RingInv' /\ FlowInv'
  <1>0. /\ TypeInv /\ RingInv /\ FlowInv /\ UrbOwnership
        /\ pc \in [Actors -> WriterPcs \cup CbPcs] /\ Cb \in Actors /\ Writers \subseteq Actors
    BY DEF ByteInv, LockInv, QuietInv, OwnInv, TypeInv, TypeOK, PcTypeOK, Actors
  <1>1. /\ UNCHANGED <<devq, sent, chunk, buf, head, nput>> /\ pc[a] \in {"send", "submit"}
        /\ \E l \in {"idle", "submit"} : pc' = [pc EXCEPT ![a] = l]
    BY DEF SendStep, SendTake, SendSubmit, SendSubmitFails, Goto, writerVars, devVars, bufVars
  <1>2. \A w \in Writers : pc'[w] = "advance" => pc[w] = "advance"
    BY <1>0, <1>1
  <1>3. CASE SendTake(a) /\ (inUse \/ CircCnt(head, tail) = 0)
    <2>1. UNCHANGED <<tail, xfer, lost, active>> /\ pc' = [pc EXCEPT ![a] = "idle"]
          /\ pc[a] = "send"
      BY <1>3 DEF SendTake, Goto
    <2>2. InTransfer' = InTransfer
      BY <1>0, <2>1 DEF InTransfer
    <2> QED
      BY <1>0, <1>1, <1>2, <2>1, <2>2, ByteKept DEF bufVars, devVars
  <1>4. CASE SendTake(a) /\ ~(inUse \/ CircCnt(head, tail) = 0)
    <2>1. /\ xfer' = BufGetBytes(buf, head, tail, BulkOutSize)
          /\ tail' = BufGetTail(head, tail, BulkOutSize)
          /\ lost' = lost /\ active' = active /\ pc' = [pc EXCEPT ![a] = "submit"]
      BY <1>4 DEF SendTake, Goto
    <2>2. InTransfer = <<>> /\ InTransfer' = xfer'
      BY <1>0, <1>4, <2>1 DEF InTransfer, UrbOwnership
    <2>3. /\ SlotInv' /\ Gone \in Int /\ 0 <= Gone /\ Gone' = Gone + Len(xfer')
          /\ xfer' \in Seq(Nat)
          /\ Increasing(xfer') /\ Range1(xfer') = Gone + 1 .. Gone + Len(xfer')
      BY <1>0, <1>1, <1>4, <2>1, RingTake
    <2>4. Flow(sent, devq, xfer', lost, Gone + Len(xfer'))
      BY <1>0, <2>2, <2>3, FlowTake, PipeTypes DEF FlowInv
    <2>5. FlowInv'
      BY <1>1, <2>1, <2>2, <2>3, <2>4 DEF FlowInv
    <2>6. CopyInv'
      BY <1>0, <1>1, <1>2 DEF RingInv, CopyInv
    <2>7. Len(xfer') \in Nat
      BY <2>3
    <2>8. 0 <= Gone'
      BY <2>3, <2>7
    <2> QED
      BY <2>3, <2>5, <2>6, <2>8 DEF RingInv
  <1>5. CASE SendSubmit(a)
    <2>1. /\ UNCHANGED <<tail, xfer, lost>> /\ pc[a] = "submit" /\ active'
          /\ pc' = [pc EXCEPT ![a] = "idle"]
      BY <1>5 DEF SendSubmit, Goto, bufVars
    <2>2. InTransfer' = InTransfer
      BY <1>0, <2>1 DEF InTransfer
    <2> QED
      BY <1>0, <1>1, <1>2, <2>1, <2>2, ByteKept DEF bufVars, devVars
  <1>6. CASE SendSubmitFails(a)
    <2>1. /\ UNCHANGED <<tail, xfer, active>> /\ pc[a] = "submit"
          /\ lost' = lost \cup Range1(xfer)
          /\ pc' = [pc EXCEPT ![a] = "idle"]
      BY <1>6 DEF SendSubmitFails, Goto, bufVars
    <2>2. InTransfer = xfer /\ InTransfer' = <<>>
      BY <1>0, <2>1 DEF InTransfer, UrbOwnership
    <2>3. Flow(sent, devq, <<>>, lost \cup Range1(xfer), Gone)
      BY <1>0, <2>2, FlowFail, PipeTypes DEF FlowInv
    <2>4. Gone' = Gone /\ CircCnt(head, tail)' = CircCnt(head, tail)
      BY <1>1, <2>1 DEF Gone
    <2>5. FlowInv'
      BY <1>1, <2>1, <2>2, <2>3, <2>4 DEF FlowInv
    <2>6. SlotInv'
      BY <1>0, <1>1, <2>1, <2>4 DEF RingInv, SlotInv, Ahead
    <2>7. CopyInv'
      BY <1>0, <1>1, <1>2 DEF RingInv, CopyInv
    <2> QED
      BY <1>0, <2>4, <2>5, <2>6, <2>7 DEF RingInv
  <1> QED
    BY <1>3, <1>4, <1>5, <1>6 DEF SendStep

\* The host controller and the callback: from the URB to the adapter.
LEMMA ByteCallback ==
    ASSUME OutputLock, ByteInv, CompleteAny \/ CallbackClear \/ CallbackStatus
    PROVE  RingInv' /\ FlowInv'
  <1>0. /\ TypeInv /\ RingInv /\ FlowInv /\ UrbOwnership
        /\ pc \in [Actors -> WriterPcs \cup CbPcs] /\ Cb \in Actors /\ Writers \subseteq Actors
        /\ Cb \notin Writers
    BY WriteAssumption DEF ByteInv, LockInv, QuietInv, OwnInv, TypeInv, TypeOK, PcTypeOK, Actors
  <1>1. /\ UNCHANGED <<bufVars, chunk, sent, xfer>>
        /\ \E l \in {"clear", "status", "idle", "send"} : pc' = [pc EXCEPT ![Cb] = l]
    BY DEF CompleteAny, Complete, CallbackClear, CallbackStatus, Goto, writerVars, devVars
  <1>2. \A w \in Writers : pc'[w] = "advance" => pc[w] = "advance"
    BY <1>0, <1>1
  <1>3. CASE CallbackClear \/ CallbackStatus
    <2>1. UNCHANGED <<devq, lost, active>> /\ pc[Cb] # "submit"
      BY <1>3 DEF CallbackClear, CallbackStatus, devVars
    <2>2. InTransfer' = InTransfer
      BY <1>0, <1>1, <2>1 DEF InTransfer
    <2> QED
      BY <1>0, <1>1, <1>2, <2>1, <2>2, ByteKept DEF bufVars, devVars
  <1>4. CASE CompleteAny
    <2>1. PICK k \in 0 .. BulkOutSize, status \in {"ok", "error", "shutdown"} :
              k <= Len(xfer) /\ Complete(k, status)
      BY <1>4 DEF CompleteAny
    <2>2. /\ devq' = devq \o SubSeq(xfer, 1, k) /\ active /\ active' = FALSE
          /\ lost' = lost \cup Range1(SubSeq(xfer, k + 1, Len(xfer)))
      BY <2>1 DEF Complete
    <2>3. InTransfer = xfer /\ InTransfer' = <<>>
      BY <1>0, <1>1, <2>2 DEF InTransfer, UrbOwnership
    <2>4. PICK p \in Seq(Nat), q \in Seq(Nat) :
              /\ p = SubSeq(xfer, 1, k) /\ q = SubSeq(xfer, k + 1, Len(xfer)) /\ xfer = p \o q
      <3>1. InTransfer \in Seq(Nat)
        BY <1>0, PipeTypes
      <3>2. xfer \in Seq(Nat)
        BY <2>3, <3>1
      <3>3. k \in Int /\ 0 <= k /\ k <= Len(xfer)
        BY <2>1, WriteAssumption
      <3>4. /\ SubSeq(xfer, 1, k) \in Seq(Nat) /\ SubSeq(xfer, k + 1, Len(xfer)) \in Seq(Nat)
            /\ xfer = SubSeq(xfer, 1, k) \o SubSeq(xfer, k + 1, Len(xfer))
        BY <3>2, <3>3, SplitAt
      <3> QED
        BY <3>4
    <2>5. Flow(sent, devq \o p, <<>>, lost \cup Range1(q), Gone)
      BY <1>0, <2>3, <2>4, FlowComplete, PipeTypes DEF FlowInv
    <2>6. Gone' = Gone /\ CircCnt(head, tail)' = CircCnt(head, tail)
      BY <1>1 DEF Gone, bufVars
    <2>7. FlowInv'
      BY <1>1, <2>2, <2>3, <2>4, <2>5, <2>6 DEF FlowInv
    <2>8. SlotInv'
      BY <1>0, <1>1, <2>6 DEF RingInv, SlotInv, Ahead, bufVars
    <2>9. CopyInv'
      BY <1>0, <1>1, <1>2 DEF RingInv, CopyInv, bufVars
    <2> QED
      BY <1>0, <2>6, <2>7, <2>8, <2>9 DEF RingInv
  <1> QED
    BY <1>3, <1>4

\* The adapter, and the thread in open, close or break.
LEMMA ByteOthers ==
    ASSUME OutputLock, ByteInv, CtlStep \/ Transmit \/ Disconnect \/ UNCHANGED vars
    PROVE  RingInv' /\ FlowInv'
  <1>0. /\ TypeInv /\ RingInv /\ FlowInv /\ WritersOut
        /\ sent \in Seq(Nat) /\ devq \in Seq(Nat) /\ InTransfer \in Seq(Nat)
    BY PipeTypes DEF ByteInv, LockInv, QuietInv, OwnInv
  <1>1. UNCHANGED <<buf, nput, chunk, pc, xfer, active>> /\ InTransfer' = InTransfer
    <2>1. UNCHANGED <<buf, nput, chunk, pc, xfer, active>>
      BY DEF CtlStep, Open, CloseBegin, BreakBegin, BreakEnd, KillBegin, KillEnd, DrainBuffer,
         DrainDevice, Transmit, Disconnect, vars, bufVars, urbVars, writerVars
    <2> QED
      BY <2>1 DEF InTransfer
  <1>2. ASSUME UNCHANGED <<head, tail>> PROVE RingInv' /\ Gone' = Gone
    <2>1. Gone' = Gone /\ CircCnt(head, tail)' = CircCnt(head, tail)
      BY <1>1, <1>2 DEF Gone
    <2>2. SlotInv'
      BY <1>0, <1>1, <1>2, <2>1 DEF RingInv, SlotInv, Ahead
    <2>3. CopyInv'
      BY <1>0, <1>1, <1>2 DEF RingInv, CopyInv
    <2> QED
      BY <1>0, <2>1, <2>2, <2>3 DEF RingInv
  <1>3. CASE Transmit
    <2>1. devq # <<>> /\ sent' = Append(sent, Head(devq)) /\ devq' = Tail(devq)
          /\ UNCHANGED <<head, tail, lost>>
      BY <1>3 DEF Transmit, bufVars
    <2>2. PICK p \in Seq(Nat), q \in Seq(Nat) : p = <<Head(devq)>> /\ q = Tail(devq)
      <3>1. Head(devq) \in Nat /\ Tail(devq) \in Seq(Nat)
        BY <1>0, <2>1, HeadTailProperties
      <3>2. <<Head(devq)>> \in Seq(Nat)
        BY <3>1
      <3> QED
        BY <3>1, <3>2
    <2>3. devq = p \o q
      <3>1. PICK h \in Nat : h = Head(devq)
        BY <1>0, <2>1, HeadTailProperties
      <3>2. <<h>> \o q \in Seq(Nat) /\ Len(<<h>> \o q) = 1 + Len(q) /\ (<<h>> \o q)[1] = h
            /\ \A i \in 2 .. Len(q) + 1 : (<<h>> \o q)[i] = q[i - 1]
        OBVIOUS
      <3>3. Len(devq) = 1 + Len(q) /\ devq[1] = h /\ \A i \in 2 .. Len(q) + 1 : devq[i] = q[i - 1]
        <4>1. Len(devq) \in Nat /\ Len(q) = Len(devq) - 1 /\ devq[1] = Head(devq)
          BY <1>0, <2>1, <2>2
        <4>2. \A j \in 1 .. Len(q) : q[j] = devq[j + 1]
          BY <1>0, <2>1, <2>2, HeadTailProperties
        <4>3. ASSUME NEW i \in 2 .. Len(q) + 1 PROVE devq[i] = q[i - 1]
          <5>1. i - 1 \in 1 .. Len(q) /\ (i - 1) + 1 = i
            BY <4>1
          <5> QED
            BY <4>2, <5>1
        <4> QED
          BY <3>1, <4>1, <4>3
      <3>4. Len(q) \in Nat
        OBVIOUS
      <3>5. ASSUME NEW i \in 1 .. Len(devq) PROVE devq[i] = (<<h>> \o q)[i]
        <4>1. i = 1 \/ i \in 2 .. Len(q) + 1
          BY <3>3, <3>4
        <4> QED
          BY <3>2, <3>3, <4>1
      <3>6. devq = <<h>> \o q
        BY <1>0, <3>2, <3>3, <3>5, SeqEqual
      <3> QED
        BY <2>2, <3>1, <3>6
    <2>4. sent' = sent \o p
      BY <1>0, <2>1, <2>2, AppendIsConcat, HeadTailProperties
    <2>5. Flow(sent \o p, q, InTransfer, lost, Gone)
      BY <1>0, <2>3, FlowSend DEF FlowInv
    <2> QED
      BY <1>1, <1>2, <2>1, <2>2, <2>4, <2>5 DEF FlowInv
  <1>4. CASE Open \/ Disconnect
    <2>1. /\ lost' = lost \cup Range1(devq) /\ devq' = <<>>
          /\ UNCHANGED <<head, tail, sent>>
      BY <1>4 DEF Open, Disconnect, bufVars
    <2>2. Flow(sent, <<>>, InTransfer, lost \cup Range1(devq), Gone)
      BY <1>0, FlowPurge DEF FlowInv
    <2> QED
      BY <1>1, <1>2, <2>1, <2>2 DEF FlowInv
  <1>5. CASE \E gaveUp \in BOOLEAN : DrainBuffer(gaveUp) /\ ctl = "drainClose"
    <2>1. /\ lost' = lost \cup Range1(Contents(buf, head, tail)) /\ head' = 0 /\ tail' = 0
          /\ UNCHANGED <<sent, devq>> /\ ctl = "drainClose"
      BY <1>5 DEF DrainBuffer, devVars
    <2>2. PICK n \in Nat : n = CircCnt(head, tail)
      BY <1>0, BufInts
    <2>3. nput \in Int /\ Gone = nput - n /\ Gone \in Int /\ 0 <= Gone
      BY <1>0, <2>2, BufInts DEF Gone, RingInv
    <2>4. PICK C \in Seq(Nat) : /\ C = Contents(buf, head, tail) /\ Len(C) = n
                                /\ \A i \in 1 .. n : C[i] = Gone + i
      BY <1>0, <2>2, ContentsAre DEF RingInv
    <2>5. Range1(C) = Gone + 1 .. Gone + n
      BY <2>3, <2>4, RunOf
    <2>6. Gone + n = nput /\ Gone <= nput
      BY <2>3
    <2>7. Flow(sent, devq, InTransfer, lost \cup (Gone + 1 .. nput), nput)
      BY <1>0, <2>3, <2>6, FlowFlush DEF FlowInv
    <2>8. CircCnt(head, tail)' = 0 /\ Gone' = nput
      <3>1. CircCnt(head, tail)' = 0
        BY <2>1, NothingCounted
      <3> QED
        BY <1>1, <2>3, <3>1 DEF Gone
    <2>9. FlowInv'
      BY <1>1, <2>1, <2>4, <2>5, <2>6, <2>7, <2>8 DEF FlowInv
    <2>10. SlotInv'
      <3>1. \A s \in Slots : ~(Ahead(s)' < 0)
        BY <2>1, BufSizeAssumption DEF Ahead, Slots
      <3> QED
        BY <2>8, <3>1 DEF SlotInv
    <2>11. CopyInv'
      BY <1>0, <1>1, <2>1 DEF WritersOut, ClosingPcs, CopyInv
    <2> QED
      BY <2>3, <2>6, <2>8, <2>9, <2>10, <2>11 DEF RingInv
  <1>6. CASE UNCHANGED <<head, tail, devq, sent, lost>>
    BY <1>0, <1>1, <1>2, <1>6 DEF FlowInv
  <1>7. ASSUME ~(\E gaveUp \in BOOLEAN : DrainBuffer(gaveUp) /\ ctl = "drainClose"),
               ~Transmit, ~Open, ~Disconnect
        PROVE  UNCHANGED <<head, tail, devq, sent, lost>>
    BY <1>7 DEF CtlStep, CloseBegin, BreakBegin, BreakEnd, KillBegin, KillEnd, DrainBuffer,
       DrainDevice, vars, bufVars, devVars
  <1> QED
    BY <1>3, <1>4, <1>5, <1>6, <1>7

\* No step disturbs the bytes.
LEMMA ByteStep == ASSUME OutputLock PROVE ByteInv /\ [Next]_vars => ByteInv'
  <1> SUFFICES ASSUME ByteInv, [Next]_vars PROVE RingInv' /\ FlowInv'
    BY LockStep DEF ByteInv
  <1>1. CASE \E w \in Writers : WriterStep(w)
    <2>1. PICK w \in Writers : WriterStep(w)
      BY <1>1
    <2>2. RingInv' /\ Gone' = Gone
      BY <2>1, RingWriter DEF ByteInv
    <2>3. /\ UNCHANGED <<devq, sent, lost, xfer, active>> /\ pc[w] # "submit"
          /\ \E l \in {"space", "copy", "advance", "send"} : pc' = [pc EXCEPT ![w] = l]
      BY <2>1 DEF WriterStep, WriteBegin, PutSpace, PutCopy, PutAdvance, Goto, devVars, urbVars,
         TtyWriteAllowed
    <2>4. pc \in [Actors -> WriterPcs \cup CbPcs] /\ w \in Actors
      BY DEF ByteInv, LockInv, QuietInv, OwnInv, TypeInv, TypeOK, PcTypeOK, Actors
    <2>5. InTransfer' = InTransfer
      BY <2>3, <2>4 DEF InTransfer
    <2> QED
      BY <2>2, <2>3, <2>5 DEF ByteInv, FlowInv
  <1> QED
    BY <1>1, ByteSend, ByteCallback, ByteOthers DEF Next

\* No byte was accepted yet.
LEMMA ByteInit == Init => ByteInv
  <1> SUFFICES ASSUME Init PROVE RingInv /\ FlowInv
    BY LockInit DEF ByteInv
  <1>1. CircCnt(head, tail) = 0 /\ Gone = 0
    BY NothingCounted DEF Init, Gone
  <1>2. SlotInv
    BY <1>1, BufSizeAssumption DEF Init, SlotInv, Ahead, Slots
  <1>3. CopyInv
    BY DEF Init, CopyInv, Actors
  <1>4. sent = <<>> /\ devq = <<>> /\ InTransfer = <<>> /\ lost = {}
    BY DEF Init, InTransfer
  <1>5. Flow(<<>>, <<>>, <<>>, {}, 0)
    BY NoBytes DEF Flow, AllBelow
  <1> QED
    BY <1>1, <1>2, <1>3, <1>4, <1>5 DEF RingInv, FlowInv

\* The pipe of bytes, and the buffer behind it, are what was accepted.
LEMMA BytePipe == ByteInv => FifoExactlyOnce
  <1> SUFFICES ASSUME ByteInv PROVE FifoExactlyOnce
    OBVIOUS
  <1>0. /\ TypeInv /\ RingInv /\ FlowInv
        /\ sent \in Seq(Nat) /\ devq \in Seq(Nat) /\ InTransfer \in Seq(Nat)
    BY PipeTypes DEF ByteInv, LockInv, QuietInv, OwnInv
  <1>1. PICK n \in Nat : n = CircCnt(head, tail)
    BY <1>0, BufInts
  <1>2. nput \in Int /\ Gone = nput - n /\ Gone \in Int /\ 0 <= Gone
    BY <1>0, <1>1, BufInts DEF Gone, RingInv
  <1>3. PICK C \in Seq(Nat) : /\ C = Contents(buf, head, tail) /\ Len(C) = n
                              /\ \A i \in 1 .. n : C[i] = Gone + i
    BY <1>0, <1>1, ContentsAre DEF RingInv
  <1>4. Increasing(C) /\ Range1(C) = Gone + 1 .. nput
    <2>1. \A i \in 1 .. Len(C) : C[i] = Gone + i
      BY <1>3
    <2>2. Increasing(C) /\ Range1(C) = Gone + 1 .. Gone + Len(C)
      BY <1>2, <2>1, RunOf
    <2>3. Gone + n = nput
      BY <1>2
    <2> QED
      BY <1>3, <2>2, <2>3
  <1>5. PICK A \in Seq(Nat) : A = sent \o devq
    <2>1. sent \o devq \in Seq(Nat)
      BY <1>0, ConcatProperties
    <2> QED
      BY <2>1
  <1>6. Increasing(A) /\ Range1(A) = Range1(sent) \cup Range1(devq)
    BY <1>0, <1>5, CatRange, CatIncreasing DEF FlowInv, Flow
  <1>7. PICK B \in Seq(Nat) : B = A \o InTransfer
    <2>1. A \o InTransfer \in Seq(Nat)
      BY <1>0, ConcatProperties
    <2> QED
      BY <2>1
  <1>8. /\ Range1(B) = Range1(sent) \cup Range1(devq) \cup Range1(InTransfer)
        /\ Increasing(B)
    <2>1. Range1(B) = Range1(A) \cup Range1(InTransfer)
      BY <1>0, <1>7, CatRange
    <2>2. AllBelow(Range1(A), Range1(InTransfer))
      BY <1>0, <1>6 DEF FlowInv, Flow, AllBelow
    <2>3. Increasing(B)
      BY <1>0, <1>6, <1>7, <2>2, CatIncreasing DEF FlowInv, Flow
    <2> QED
      BY <1>6, <2>1, <2>3
  <1>9. Range1(B) \cup lost = 1 .. Gone /\ Range1(B) \cap lost = {}
    BY <1>0, <1>8 DEF FlowInv, Flow
  <1>10. AllBelow(Range1(B), Range1(C))
    <2>1. Range1(B) \subseteq 1 .. Gone
      BY <1>9
    <2> QED
      BY <1>2, <1>4, <2>1 DEF AllBelow
  <1>11. Pipe = B \o C
    BY <1>3, <1>5, <1>7 DEF Pipe
  <1>12. Increasing(Pipe) /\ Range1(Pipe) = Range1(B) \cup Range1(C)
    BY <1>4, <1>8, <1>10, <1>11, CatRange, CatIncreasing
  <1>13. (1 .. Gone) \cup (Gone + 1 .. nput) = 1 .. nput
         /\ (1 .. Gone) \cap (Gone + 1 .. nput) = {}
    <2>1. Gone <= nput
      BY <1>2
    <2> QED
      BY <1>2, <2>1
  <1>14. Range1(Pipe) \cup lost = 1 .. nput /\ Range1(Pipe) \cap lost = {}
    BY <1>4, <1>9, <1>12, <1>13
  <1> QED
    BY <1>12, <1>14 DEF FifoExactlyOnce, Increasing

\* Where the tty core serialises its writers, every byte mxu1_write accepted is
\* on the line, on its way there or counted as lost, in one place and in order,
\* for every size of the buffer and of the URB and whatever the submissions, the
\* transfers, the drain and the unplugging of the adapter do.
THEOREM FifoHolds == ASSUME OutputLock PROVE Spec => []FifoExactlyOnce
  BY ByteInit, ByteStep, BytePipe, PTL DEF Spec

=============================================================================
