--------------------------- MODULE Superio_proofs ---------------------------
(***************************************************************************)
(* Proofs about superio_read and superio_write, for any number of CPUs     *)
(* whose handlers also call them and any registers: the port sequences     *)
(* implement an atomic memory (the refinement of SuperioRegs), and one     *)
(* global variable is enough to restore every caller's interrupt state.    *)
(*                                                                         *)
(* The argument: superio_lock excludes two callers from the ports          *)
(* (Exclusion), so what a caller selected is still selected when it reads  *)
(* or writes the data port (Selected); and flags is written only by the    *)
(* holder of the lock, so it still holds what that caller found (Kept).    *)
(***************************************************************************)
EXTENDS Superio, TLAPS

Critical == {"init", "select", "index", "data", "unlock"}

\* Whoever is at the ports holds superio_lock.
Exclusion == \A x \in Contexts : pc[x] \in Critical => lock = x

\* The chip has selected what the holder asked for so far.
Selected ==
    \A x \in Contexts :
        /\ pc[x] # "idle" => call[x] \in Calls
        /\ pc[x] = "select" => latch = "LDN"
        /\ pc[x] \in {"index", "data"} => ldn = call[x].dev
        /\ pc[x] = "data" => latch = call[x].index

\* flags is the state its caller found: enabled for a thread, disabled for a
\* handler; a CPU in either has interrupts disabled.
Kept ==
    /\ \A x \in Contexts : pc[x] \in Critical => flags = saved[x]
    /\ \A c \in Cpus :
           /\ pc[<<c, "task">>] # "idle" => ~inIrq[c] /\ ~irqOn[c] /\ saved[<<c, "task">>] = TRUE
           /\ pc[<<c, "irq">>] # "idle" => inIrq[c] /\ ~irqOn[c] /\ saved[<<c, "irq">>] = FALSE

IInv == TypeOK /\ Exclusion /\ Selected /\ Kept /\ IrqStateRestored

USE SuperioAssumption

\* Initially no call is under way.
LEMMA InitIInv == Init => IInv
<1> SUFFICES ASSUME Init PROVE IInv
  OBVIOUS
<1> USE DEF Init, Contexts, Critical
<1>1. TypeOK
  BY DEF TypeOK
<1>2. Exclusion /\ Selected /\ Kept
  BY DEF Exclusion, Selected, Kept
<1>3. IrqStateRestored
  BY DEF IrqStateRestored
<1> QED
  BY <1>1, <1>2, <1>3 DEF IInv

\* Every step of a call, and every interrupt, preserves the types.
LEMMA StepType == IInv /\ [Next]_vars => TypeOK'
<1> SUFFICES ASSUME IInv, [Next]_vars PROVE TypeOK'
  OBVIOUS
<1> USE DEF IInv, TypeOK, Contexts, chip, cpu, Goto
<1>1. ASSUME NEW c \in Cpus, IrqEnter(c) \/ IrqExit(c) PROVE TypeOK'
  BY <1>1 DEF IrqEnter, IrqExit
<1>2. ASSUME NEW x \in Contexts, Begin(x) PROVE TypeOK'
  BY <1>2 DEF Begin
<1>3. ASSUME NEW x \in Contexts, Lock(x) PROVE TypeOK'
  BY <1>3 DEF Lock
<1>4. ASSUME NEW x \in Contexts, SuperioInit(x) PROVE TypeOK'
  BY <1>4 DEF SuperioInit
<1>5. ASSUME NEW x \in Contexts, SelectDev(x) PROVE TypeOK'
  BY <1>5 DEF SelectDev, Selected, Calls
<1>6. ASSUME NEW x \in Contexts, Index(x) PROVE TypeOK'
  BY <1>6 DEF Index, Selected, Calls
<1>7. ASSUME NEW x \in Contexts, ReadData(x) PROVE TypeOK'
  <2>1. latch # "LDN" => regs[ldn][latch] \in Vals
    OBVIOUS
  <2>2. \E v \in Vals : result' = [result EXCEPT ![x] = v]
    BY <1>7, <2>1 DEF ReadData
  <2>3. result' \in [Contexts -> Vals \cup {Nothing}]
    BY <2>2
  <2> QED
    BY <1>7, <2>3 DEF ReadData
<1>8. ASSUME NEW x \in Contexts, WriteData(x) PROVE TypeOK'
  <2>1. call[x].val \in Vals
    BY <1>8 DEF WriteData, Selected, Calls
  <2>2. regs' \in [Ldns -> [Indexes -> Vals]] /\ ldn' \in Ldns
    <3>1. CASE latch = "LDN"
      BY <1>8, <3>1 DEF WriteData
    <3>2. CASE latch # "LDN"
      <4> DEFINE written == [regs[ldn] EXCEPT ![latch] = call[x].val]
      <4>1. written \in [Indexes -> Vals]
        BY <2>1
      <4>2. regs' = [regs EXCEPT ![ldn] = written] /\ ldn' = ldn
        BY <1>8, <3>2 DEF WriteData
      <4> HIDE DEF written
      <4> QED
        BY <4>1, <4>2
    <3> QED
      BY <3>1, <3>2
  <2> QED
    BY <1>8, <2>2 DEF WriteData
<1>9. ASSUME NEW x \in Contexts, Unlock(x) PROVE TypeOK'
  BY <1>9 DEF Unlock
<1>10. CASE UNCHANGED vars
  BY <1>10 DEF vars
<1> QED
  BY <1>1, <1>2, <1>3, <1>4, <1>5, <1>6, <1>7, <1>8, <1>9, <1>10 DEF Next, Access

\* Every step preserves the exclusion and what the holder has selected.
LEMMA StepSelected == IInv /\ [Next]_vars => Exclusion' /\ Selected'
<1> SUFFICES ASSUME IInv, [Next]_vars PROVE Exclusion' /\ Selected'
  OBVIOUS
<1> USE DEF IInv, TypeOK, Exclusion, Selected, Critical, chip, cpu, Goto
<1>1. ASSUME NEW c \in Cpus, IrqEnter(c) \/ IrqExit(c) PROVE Exclusion' /\ Selected'
  BY <1>1 DEF IrqEnter, IrqExit
<1>2. ASSUME NEW x \in Contexts, Begin(x) PROVE Exclusion' /\ Selected'
  BY <1>2 DEF Begin
<1>3. ASSUME NEW x \in Contexts, Lock(x) PROVE Exclusion' /\ Selected'
  BY <1>3 DEF Lock, Contexts
<1>4. ASSUME NEW x \in Contexts, SuperioInit(x) PROVE Exclusion' /\ Selected'
  BY <1>4 DEF SuperioInit
<1>5. ASSUME NEW x \in Contexts, SelectDev(x) PROVE Exclusion' /\ Selected'
  BY <1>5 DEF SelectDev
<1>6. ASSUME NEW x \in Contexts, Index(x) PROVE Exclusion' /\ Selected'
  BY <1>6 DEF Index
<1>7. ASSUME NEW x \in Contexts, ReadData(x) PROVE Exclusion' /\ Selected'
  BY <1>7 DEF ReadData
<1>8. ASSUME NEW x \in Contexts, WriteData(x) PROVE Exclusion' /\ Selected'
  BY <1>8 DEF WriteData, Calls
<1>9. ASSUME NEW x \in Contexts, Unlock(x) PROVE Exclusion' /\ Selected'
  BY <1>9 DEF Unlock
<1>10. CASE UNCHANGED vars
  BY <1>10 DEF vars
<1> QED
  BY <1>1, <1>2, <1>3, <1>4, <1>5, <1>6, <1>7, <1>8, <1>9, <1>10 DEF Next, Access

\* Every step preserves what flags and saved say of the callers' interrupts.
LEMMA StepKept == IInv /\ [Next]_vars => Kept' /\ IrqStateRestored'
<1> SUFFICES ASSUME IInv, [Next]_vars PROVE Kept' /\ IrqStateRestored'
  OBVIOUS
<1> USE DEF IInv, TypeOK, Contexts, Exclusion, Kept, IrqStateRestored, Critical, chip, cpu, Goto
<1>1. ASSUME NEW c \in Cpus, IrqEnter(c) \/ IrqExit(c) PROVE Kept' /\ IrqStateRestored'
  <2>1. pc[<<c, "task">>] = "idle" /\ pc[<<c, "irq">>] = "idle"
    BY <1>1 DEF IrqEnter, IrqExit
  <2>2. /\ UNCHANGED <<pc, flags, saved>>
        /\ \/ inIrq'[c] = TRUE /\ irqOn'[c] = FALSE
           \/ inIrq'[c] = FALSE /\ irqOn'[c] = TRUE
    <3>1. CASE IrqEnter(c)
      BY <3>1 DEF IrqEnter
    <3>2. CASE IrqExit(c)
      BY <3>2 DEF IrqExit
    <3> QED
      BY <1>1, <3>1, <3>2
  <2>3. \A d \in Cpus \ {c} : inIrq'[d] = inIrq[d] /\ irqOn'[d] = irqOn[d]
    BY <1>1 DEF IrqEnter, IrqExit
  <2> QED
    BY <2>1, <2>2, <2>3
<1>2. ASSUME NEW x \in Contexts, Begin(x) PROVE Kept' /\ IrqStateRestored'
  BY <1>2 DEF Begin, Runs
<1>3. ASSUME NEW x \in Contexts, Lock(x) PROVE Kept' /\ IrqStateRestored'
  BY <1>3 DEF Lock
<1>4. ASSUME NEW x \in Contexts, SuperioInit(x) PROVE Kept' /\ IrqStateRestored'
  BY <1>4 DEF SuperioInit
<1>5. ASSUME NEW x \in Contexts, SelectDev(x) PROVE Kept' /\ IrqStateRestored'
  BY <1>5 DEF SelectDev
<1>6. ASSUME NEW x \in Contexts, Index(x) PROVE Kept' /\ IrqStateRestored'
  BY <1>6 DEF Index
<1>7. ASSUME NEW x \in Contexts, ReadData(x) PROVE Kept' /\ IrqStateRestored'
  BY <1>7 DEF ReadData
<1>8. ASSUME NEW x \in Contexts, WriteData(x) PROVE Kept' /\ IrqStateRestored'
  BY <1>8 DEF WriteData
<1>9. ASSUME NEW x \in Contexts, Unlock(x) PROVE Kept' /\ IrqStateRestored'
  <2>1. PICK c \in Cpus, k \in {"task", "irq"} : x = <<c, k>>
    OBVIOUS
  <2>2. /\ pc' = [pc EXCEPT ![x] = "idle"] /\ UNCHANGED <<flags, inIrq, saved>>
        /\ irqOn' = [irqOn EXCEPT ![c] = saved[x]] /\ pc[x] # "idle"
    BY <1>9, <2>1 DEF Unlock
  <2>3. Kept'
    BY <2>1, <2>2
  <2>4. IrqStateRestored'
    BY <2>1, <2>2
  <2> QED
    BY <2>3, <2>4
<1>10. CASE UNCHANGED vars
  BY <1>10 DEF vars
<1> QED
  BY <1>1, <1>2, <1>3, <1>4, <1>5, <1>6, <1>7, <1>8, <1>9, <1>10 DEF Next, Access

\* The inductive invariant holds in every state.
LEMMA Invariance == Spec => []IInv
<1>1. IInv /\ [Next]_vars => IInv'
  BY StepType, StepSelected, StepKept DEF IInv
<1> QED
  BY InitIInv, <1>1, PTL DEF Spec

\* The state of superio_read and superio_write keeps its types.
THEOREM TypeCorrect == Spec => []TypeOK
<1>1. IInv => TypeOK
  BY DEF IInv
<1> QED
  BY Invariance, <1>1, PTL

\* Every caller of superio_read and superio_write gets back the interrupt state
\* it came with, although the state is kept in one global variable.
THEOREM FlagsSuffice == Spec => []IrqStateRestored
<1>1. IInv => IrqStateRestored
  BY DEF IInv
<1> QED
  BY Invariance, <1>1, PTL

\* The status of each context, as the promise sees it.
Status == [x \in Contexts |-> AbsStatus(x)]

\* A step of one context that leaves its status alone is invisible.
LEMMA Invisible ==
    ASSUME NEW x \in Contexts, NEW label, TypeOK,
           Goto(x, label), pc[x] \notin {"idle", "unlock"}, label \notin {"idle", "unlock"},
           UNCHANGED <<regs, call, result>>
    PROVE  UNCHANGED Promise!vars
<1>1. \A y \in Contexts : AbsStatus(y)' = AbsStatus(y)
  BY DEF Goto, AbsStatus, TypeOK
<1> QED
  BY <1>1 DEF Promise!vars

\* A step of one context changes its status only.
LEMMA Visible ==
    ASSUME NEW x \in Contexts, NEW label, TypeOK, Goto(x, label)
    PROVE  Status' = [Status EXCEPT ![x] =
               IF label = "idle" THEN "idle" ELSE IF label = "unlock" THEN "done" ELSE "called"]
<1>1. pc'[x] = label /\ \A y \in Contexts \ {x} : pc'[y] = pc[y]
  BY DEF Goto, TypeOK
<1>2. AbsStatus(x)' = IF label = "idle" THEN "idle" ELSE IF label = "unlock" THEN "done" ELSE "called"
  BY <1>1 DEF AbsStatus
<1>3. \A y \in Contexts \ {x} : AbsStatus(y)' = AbsStatus(y)
  BY <1>1 DEF AbsStatus
<1> QED
  BY <1>2, <1>3 DEF Status

\* An initial state of the ports is one of the memory.
LEMMA InitPromise == Init => Promise!Init
BY DEF Init, Promise!Init, AbsStatus

\* Every step at the ports is a step of the memory, or invisible.
LEMMA StepPromise == IInv /\ [Next]_vars => [Promise!Next]_(Promise!vars)
<1> SUFFICES ASSUME IInv, [Next]_vars PROVE [Promise!Next]_(Promise!vars)
  OBVIOUS
<1>0. TypeOK
  BY DEF IInv
<1>1. ASSUME NEW c \in Cpus, IrqEnter(c) \/ IrqExit(c) PROVE UNCHANGED Promise!vars
  BY <1>1 DEF IrqEnter, IrqExit, Promise!vars, AbsStatus, chip
<1>2. ASSUME NEW x \in Contexts, Begin(x) PROVE Promise!Begin(x)
  <2>1. Status' = [Status EXCEPT ![x] = "called"] /\ Status[x] = "idle"
    BY <1>0, <1>2, Visible DEF Begin, Status, AbsStatus
  <2> QED
    BY <1>2, <2>1 DEF Begin, Promise!Begin, Status, Calls, Promise!Calls, chip
<1>3. ASSUME NEW x \in Contexts, Lock(x) \/ SuperioInit(x) \/ Index(x)
      PROVE UNCHANGED Promise!vars
  BY <1>0, <1>3, Invisible DEF Lock, SuperioInit, Index, chip
<1>4. ASSUME NEW x \in Contexts, SelectDev(x) PROVE UNCHANGED Promise!vars
  <2>1. latch = "LDN"
    BY <1>4 DEF SelectDev, IInv, Selected
  <2> QED
    BY <1>0, <1>4, <2>1, Invisible DEF SelectDev
<1>5. ASSUME NEW x \in Contexts, pc[x] = "data"
      PROVE  ldn = call[x].dev /\ latch = call[x].index /\ latch # "LDN"
  BY <1>5 DEF IInv, Selected, Calls
<1>6. ASSUME NEW x \in Contexts, ReadData(x) PROVE Promise!Read(x)
  <2>1. Status' = [Status EXCEPT ![x] = "done"] /\ Status[x] = "called"
    BY <1>0, <1>6, Visible DEF ReadData, Status, AbsStatus
  <2>2. result' = [result EXCEPT ![x] = regs[call[x].dev][call[x].index]]
    BY <1>5, <1>6 DEF ReadData
  <2> QED
    BY <1>6, <2>1, <2>2 DEF ReadData, Promise!Read, Status, chip
<1>7. ASSUME NEW x \in Contexts, WriteData(x) PROVE Promise!Write(x)
  <2>1. Status' = [Status EXCEPT ![x] = "done"] /\ Status[x] = "called"
    BY <1>0, <1>7, Visible DEF WriteData, Status, AbsStatus
  <2>2. regs' = [regs EXCEPT ![call[x].dev][call[x].index] = call[x].val]
    BY <1>5, <1>7 DEF WriteData
  <2> QED
    BY <1>7, <2>1, <2>2 DEF WriteData, Promise!Write, Status
<1>8. ASSUME NEW x \in Contexts, Unlock(x) PROVE Promise!End(x)
  <2>1. Status' = [Status EXCEPT ![x] = "idle"] /\ Status[x] = "done"
    BY <1>0, <1>8, Visible DEF Unlock, Status, AbsStatus
  <2> QED
    BY <1>8, <2>1 DEF Unlock, Promise!End, Status, chip
<1>9. CASE UNCHANGED vars
  BY <1>9 DEF vars, chip, Promise!vars, AbsStatus
<1> QED
  BY <1>1, <1>2, <1>3, <1>4, <1>6, <1>7, <1>8, <1>9 DEF Next, Access, Promise!Next

\* The sequences of port accesses under superio_lock implement the memory of
\* SuperioRegs: every read and every write happens in one instant of its call.
THEOREM Refinement == Spec => AtomicRegisters
BY InitPromise, StepPromise, Invariance, PTL DEF Spec, AtomicRegisters, Promise!Spec
=============================================================================
