-------------------------- MODULE MxserPort_proofs --------------------------
(***************************************************************************)
(* Opening, closing and hanging up a port (MxserPort), for any number of   *)
(* processes, and the settings of an open one (MxserLines), for any set of *)
(* formats, callers and number of changes of the inputs.                   *)
(***************************************************************************)
EXTENDS MxserPort, MxserLines, FiniteSetTheorems, TLAPS

Pcs == Outside \cup Sleeping \cup
       {"init", "ready", "block", "test", "opened", "clear", "end"}
ClosingPcs == {"drain", "temt", "clear", "delay", "end"}
UpPcs == {"ready", "block", "test", "asleep", "opened"}

PortType ==
    /\ lock \in Procs \cup {NoOne, Hangup} /\ kernel \in {"sleep", "call"}
    /\ pc \in [Procs -> Pcs]
    /\ hung \in [Procs -> BOOLEAN] /\ woken \in [Procs -> BOOLEAN]
    /\ sig \in [Procs -> BOOLEAN] /\ doClocal \in [Procs -> BOOLEAN]
    /\ count \in Int /\ blocked \in Int /\ ttyCount \in Int
    /\ clocal \in BOOLEAN /\ normalClocal \in BOOLEAN /\ untold \in BOOLEAN

\* A thread that runs inside the driver holds the tty core's lock, one that
\* sleeps there too unless the kernel gives the lock up.
LockInv ==
    \A p \in Procs :
        /\ pc[p] \notin Outside \cup Sleeping => lock = p
        /\ kernel = "call" /\ pc[p] \notin Outside => lock = p
        /\ lock = p => pc[p] \notin Outside

Files == {p \in Procs : pc[p] # "none"}
Blocked == {p \in Procs : Waiting(p)}
Users == {p \in Procs : Counted(p)}

\* Each counter is the number of what it counts; a hang-up leaves no user.
CountInv ==
    /\ ttyCount = Cardinality(Files) /\ blocked = Cardinality(Blocked)
    /\ IF lock = Hangup THEN Users = {} ELSE count = Cardinality(Users)
    /\ \A p \in Procs : pc[p] = "none" => ~hung[p]

\* A close that wakes nobody has nobody to wake.
OrphanInv ==
    /\ \A q \in Procs : pc[q] = "end" => Blocked = {}
    /\ NoOrphan

\* The port has a ring, interrupts and a tty, or none of them.
Up == "INITIALIZED" \in flags /\ buf /\ infoTty /\ ~ioError
Down == "INITIALIZED" \notin flags /\ ier = {} /\ ~buf

\* Where the thread in the driver is alone with the port (the kernel that holds
\* the tty lock for the whole call).
AloneInv ==
    /\ \A p \in Procs : pc[p] \notin Outside \cup {"release"} => ~hung[p]
    /\ \A p \in Procs : pc[p] \in ClosingPcs => Users = {}
    /\ "CLOSING" \in flags => \E p \in Procs : pc[p] \in ClosingPcs

UpInv ==
    /\ "INITIALIZED" \in flags => buf /\ ~ioError /\ lock # Hangup
    /\ \A p \in Procs :
        /\ pc[p] \in UpPcs \/ (pc[p] = "open" /\ ~hung[p] /\ lock # Hangup) => Up
        /\ pc[p] = "page" => infoTty
        /\ pc[p] = "init" => buf /\ infoTty /\ ~ioError
        /\ pc[p] = "clear" => "INITIALIZED" \notin flags

QuietPcs == Outside \cup {"delay", "end", "release"}
DownInv ==
    /\ "INITIALIZED" \in flags \/ Down \/ \E p \in Procs : pc[p] = "init"
    /\ lock # Hangup /\ Users = {}
       /\ (\A p \in Procs : pc[p] \in QuietPcs)
       => Down /\ ~infoTty

\* The settings, the flag and the interrupt agree on whether the carrier matters,
\* unless TIOCSSOFTCAR changed the settings since they were applied.
CarrierInv ==
    /\ untold \/ (clocal <=> "CHECK_CD" \notin flags)
    /\ "CHECK_CD" \in flags /\ ("INITIALIZED" \in flags \/ \E p \in Procs : pc[p] = "init")
       => "MSI" \in ier
    /\ \A p \in Procs :
        /\ Waiting(p) /\ count = 0 => (doClocal[p] <=> clocal)
        /\ pc[p] = "asleep" => ~doClocal[p]

CallInv ==
    kernel = "call" =>
        /\ AloneInv
        /\ present => UpInv /\ DownInv /\ CarrierInv
        /\ ~present => /\ "INITIALIZED" \notin flags
                       /\ \A p \in Procs : pc[p] \notin {"init", "asleep"}

PortInv == PortType /\ LockInv /\ CountInv /\ OrphanInv /\ CallInv /\ NoLostCarrier

-----------------------------------------------------------------------------
(* The tty core's lock. *)

\* A thread in the driver moves to a label under the lock.
LEMMA Moves ==
    ASSUME NEW p \in Procs, Inside(p) \/ Outer(p)
    PROVE  UNCHANGED world /\ \E l \in Pcs : Step(p, l)
  <1>1. CASE StartupNoMemory(p) \/ StartupAgain(p) \/ StartupUntyped(p) \/ (\E admin \in BOOLEAN : StartupAbsent(p, admin))
             \/ Startup(p) \/ StartupEnd(p) \/ ReadyNow(p) \/ ReadyWaits(p)
    BY <1>1 DEF StartupNoMemory, StartupAgain, StartupUntyped, StartupAbsent, Startup, StartupEnd, ReadyNow,
       ReadyWaits, Pcs, Outside, Sleeping
  <1>2. CASE Block(p) \/ TestSleeps(p) \/ TestLeaves(p) \/ Wake(p) \/ OpenEnd(p)
    BY <1>2 DEF Block, TestSleeps, TestLeaves, Wake, OpenEnd, Pcs, Outside, Sleeping
  <1>3. CASE CloseDrain(p) \/ CloseShut(p) \/ CloseClear(p) \/ CloseEnd(p) \/ Release(p) \/ Outer(p)
    BY <1>3 DEF CloseDrain, CloseShut, CloseClear, CloseEnd, Release, Outer, OpenBegin, CloseOther,
       CloseLast, Pcs, Outside, Sleeping
  <1> QED
    BY <1>1, <1>2, <1>3 DEF Inside

\* Everything else leaves the threads where they are, and takes or gives up the
\* lock only to hang up.
LEMMA Stays ==
    ASSUME (\E p \in Procs : Signal(p) \/ Settings(p)) \/ Kernel \/ Carrier \/ TtyHangup
           \/ UNCHANGED vars
    PROVE  /\ UNCHANGED <<world, pc, ttyCount, blocked>>
           /\ \/ UNCHANGED lock
              \/ HangupBegin /\ lock = NoOne /\ lock' = Hangup
              \/ HangupEnd /\ lock = Hangup /\ lock' = NoOne
  <1>1. CASE \E p \in Procs : Signal(p) \/ Settings(p)
    BY <1>1 DEF Signal, Settings, SetTermios, SoftCarrier, core, info
  <1>2. CASE Kernel
    BY <1>2 DEF Kernel, IsrEnter, IsrModem, SoftInt, HangupBegin, HangupEnd, core, info
  <1>3. CASE Carrier \/ TtyHangup \/ UNCHANGED vars
    BY <1>3 DEF Carrier, TtyHangup, vars, core, info
  <1> QED
    BY <1>1, <1>2, <1>3

\* A step is one of a process in a call, one of a process outside, or of the kernel.
LEMMA NextSplit ==
    ASSUME [Next]_vars
    PROVE  \/ \E p \in Procs : Inside(p) \/ Outer(p)
           \/ (\E p \in Procs : Signal(p) \/ Settings(p)) \/ Kernel \/ Carrier \/ TtyHangup
              \/ UNCHANGED vars
  BY DEF Next

\* The types are kept.
LEMMA TypeStep == PortType /\ [Next]_vars => PortType'
  <1> SUFFICES ASSUME PortType, [Next]_vars PROVE PortType'
    OBVIOUS
  <1>1. lock' \in Procs \cup {NoOne, Hangup} /\ kernel' \in {"sleep", "call"}
        /\ pc' \in [Procs -> Pcs]
    BY NextSplit, Moves, Stays DEF PortType, Step, world
  <1>2. hung' \in [Procs -> BOOLEAN]
    <2>1. CASE \E p \in Procs : Release(p)
      BY <2>1 DEF Release, PortType
    <2>2. CASE HangupBegin
      BY <2>2 DEF HangupBegin, PortType
    <2>3. CASE UNCHANGED hung
      BY <2>3 DEF PortType
    <2> QED
      BY <2>1, <2>2, <2>3 DEF Next, Inside, Outer, Kernel, StartupNoMemory, StartupAgain, StartupUntyped,
         StartupAbsent, Startup, StartupEnd, ReadyNow, ReadyWaits, Block, TestSleeps, TestLeaves,
         Wake, OpenEnd, CloseDrain, CloseShut, CloseClear, CloseEnd, OpenBegin, CloseOther,
         CloseLast, Signal, Settings, SetTermios, SoftCarrier, IsrEnter, IsrModem, SoftInt, HangupEnd, Carrier,
         TtyHangup, vars
  <1>3. woken' \in [Procs -> BOOLEAN]
    <2>1. CASE \E p \in Procs : Block(p) \/ TestLeaves(p) \/ Wake(p)
      BY <2>1 DEF Block, TestLeaves, Wake, Forget, PortType
    <2>2. CASE woken' = [p \in Procs |-> TRUE] \/ UNCHANGED woken
      BY <2>2 DEF PortType
    <2> QED
      BY <2>1, <2>2 DEF Next, Inside, Outer, Kernel, StartupNoMemory, StartupAgain, StartupUntyped,
         StartupAbsent, Startup, StartupEnd, ReadyNow, ReadyWaits, TestSleeps,
         OpenEnd, CloseDrain, CloseShut, CloseClear, CloseEnd, Release, OpenBegin, CloseOther,
         CloseLast, Signal, Settings, SetTermios, SoftCarrier, IsrEnter, IsrModem, SoftInt, HangupBegin, HangupEnd,
         Carrier, TtyHangup, vars, wait, WakeOpeners
  <1>4. sig' \in [Procs -> BOOLEAN] /\ doClocal' \in [Procs -> BOOLEAN]
    <2>1. CASE \E p \in Procs : TestLeaves(p) \/ Signal(p)
      BY <2>1 DEF TestLeaves, Signal, Forget, PortType
    <2>2. CASE \E p \in Procs : ReadyWaits(p)
      <3>1. PICK p \in Procs : doClocal' = [doClocal EXCEPT ![p] = clocal] /\ UNCHANGED sig
        BY <2>2 DEF ReadyWaits
      <3> QED
        BY <3>1 DEF PortType
    <2>3. CASE UNCHANGED <<sig, doClocal>>
      BY <2>3 DEF PortType
    <2> QED
      BY <2>1, <2>2, <2>3 DEF Next, Inside, Outer, Kernel, StartupNoMemory, StartupAgain, StartupUntyped,
         StartupAbsent, Startup, StartupEnd, ReadyNow, Block, TestSleeps, Wake,
         OpenEnd, CloseDrain, CloseShut, CloseClear, CloseEnd, Release, OpenBegin, CloseOther,
         CloseLast, Settings, SetTermios, SoftCarrier, IsrEnter, IsrModem, SoftInt, HangupBegin, HangupEnd,
         Carrier, TtyHangup, vars, wait
  <1>5. count' \in Int
    BY DEF PortType, Next, Inside, Outer, Kernel, StartupNoMemory, StartupAgain, StartupUntyped,
         StartupAbsent, Startup, StartupEnd, ReadyNow, ReadyWaits, Block, TestSleeps, TestLeaves,
         Wake, OpenEnd, CloseDrain, CloseShut, CloseClear, CloseEnd, OpenBegin, CloseOther,
         CloseLast, Signal, Settings, SetTermios, SoftCarrier, IsrEnter, IsrModem, SoftInt, HangupBegin, HangupEnd, Carrier,
         TtyHangup, vars, info, Release, Less, Corrected
  <1>6. blocked' \in Int /\ ttyCount' \in Int
    BY DEF PortType, Next, Inside, Outer, Kernel, StartupNoMemory, StartupAgain, StartupUntyped,
         StartupAbsent, Startup, StartupEnd, ReadyNow, ReadyWaits, Block, TestSleeps, TestLeaves,
         Wake, OpenEnd, CloseDrain, CloseShut, CloseClear, CloseEnd, OpenBegin, CloseOther,
         CloseLast, Signal, Settings, SetTermios, SoftCarrier, IsrEnter, IsrModem, SoftInt, HangupBegin, HangupEnd, Carrier,
         TtyHangup, vars, info, core, Release
  <1>7. clocal' \in BOOLEAN /\ normalClocal' \in BOOLEAN /\ untold' \in BOOLEAN
    <2>1. CASE \E p \in Procs : OpenEnd(p) \/ Settings(p) \/ CloseLast(p)
      BY <2>1 DEF OpenEnd, Settings, SetTermios, SoftCarrier, CloseLast, PortType
    <2>2. CASE UNCHANGED <<clocal, normalClocal, untold>>
      BY <2>2 DEF PortType
    <2> QED
      BY <2>1, <2>2 DEF Next, Inside, Outer, Kernel, StartupNoMemory, StartupAgain, StartupUntyped,
         StartupAbsent, Startup, StartupEnd, ReadyNow, ReadyWaits, Block, TestSleeps, TestLeaves,
         Wake, CloseDrain, CloseShut, CloseClear, CloseEnd, OpenBegin, CloseOther,
         Signal, IsrEnter, IsrModem, SoftInt, HangupBegin, HangupEnd, Carrier,
         TtyHangup, vars, termios, Release
  <1> QED
    BY <1>1, <1>2, <1>3, <1>4, <1>5, <1>6, <1>7 DEF PortType

\* The lock keeps the threads apart.
LEMMA LockStep == PortType /\ LockInv /\ [Next]_vars => LockInv'
  <1> SUFFICES ASSUME PortType, LockInv, [Next]_vars PROVE LockInv'
    OBVIOUS
  <1>1. ASSUME NEW p \in Procs, Inside(p) \/ Outer(p) PROVE LockInv'
    <2>1. PICK l \in Pcs : Step(p, l)
      BY <1>1, Moves
    <2>2. UNCHANGED kernel
      BY <1>1, Moves DEF world
    <2> QED
      BY <2>1, <2>2, PortAssumption DEF PortType, LockInv, Step
  <1>2. CASE \/ (\E p \in Procs : Signal(p) \/ Settings(p)) \/ Kernel \/ Carrier \/ TtyHangup
             \/ UNCHANGED vars
    BY <1>2, Stays, PortAssumption DEF LockInv, world
  <1> QED
    BY <1>1, <1>2, NextSplit

-----------------------------------------------------------------------------
(* The counters. *)

\* One process more, one process less.
LEMMA OneMore ==
    ASSUME NEW S, S \subseteq Procs, NEW p \in Procs
    PROVE  /\ Cardinality(S) \in Nat
           /\ p \notin S => Cardinality(S \cup {p}) = Cardinality(S) + 1
           /\ p \in S => Cardinality(S \ {p}) = Cardinality(S) - 1
           /\ p \in S => S \cup {p} = S
           /\ p \notin S => S \ {p} = S
  <1>1. IsFiniteSet(S)
    BY PortAssumption, FS_Subset
  <1>2. Cardinality(S) \in Nat
    BY <1>1, FS_CardinalityType
  <1>3. p \notin S => Cardinality(S \cup {p}) = Cardinality(S) + 1
    BY <1>1, FS_AddElement
  <1>4. p \in S => Cardinality(S \ {p}) = Cardinality(S) - 1
    BY <1>1, FS_RemoveElement
  <1> QED
    BY <1>2, <1>3, <1>4

\* A set of processes has a size, which is 0 only for the empty one.
LEMMA NobodyCounts ==
    ASSUME NEW S, S \subseteq Procs
    PROVE  Cardinality(S) \in Nat /\ (Cardinality(S) = 0 <=> S = {})
  <1>1. IsFiniteSet(S)
    BY PortAssumption, FS_Subset
  <1> QED
    BY <1>1, FS_CardinalityType, FS_EmptySet

\* What a process alone in a set leaves for a part of the set it is in.
LEMMA OnlyOne ==
    ASSUME NEW S, S \subseteq Procs, NEW T, T \subseteq S, NEW p \in T, Cardinality(S) = 1
    PROVE  Cardinality(T) = 1
  <1>1. IsFiniteSet(S)
    BY PortAssumption, FS_Subset
  <1>2. Cardinality(S \ {p}) = 0
    BY <1>1, FS_RemoveElement
  <1>3. S \ {p} = {}
    BY <1>2, NobodyCounts
  <1>4. T = {p}
    BY <1>3
  <1> QED
    BY <1>4, FS_Singleton

\* Who is counted after a thread moved.
CountedPcs == {"page", "init", "ready", "opened", "open", "failed"}
WaitPcs == {"block", "test", "asleep"}
\* How a process that moves changes who has a file, who waits and who is counted.
LEMMA Counts ==
    ASSUME PortType, NEW p \in Procs, NEW l \in Pcs, Step(p, l)
    PROVE  /\ Files' = IF l = "none" THEN Files \ {p} ELSE Files \cup {p}
           /\ Blocked' = IF l \in WaitPcs THEN Blocked \cup {p} ELSE Blocked \ {p}
           /\ UNCHANGED hung \/ (l \notin CountedPcs /\ hung' = [hung EXCEPT ![p] = FALSE]) =>
              Users' = IF l \in CountedPcs /\ ~hung[p] THEN Users \cup {p} ELSE Users \ {p}
  <1>1. pc' = [pc EXCEPT ![p] = l] /\ pc \in [Procs -> Pcs]
    BY DEF Step, PortType
  <1>2. Files' = IF l = "none" THEN Files \ {p} ELSE Files \cup {p}
    BY <1>1 DEF Files
  <1>3. Blocked' = IF l \in WaitPcs THEN Blocked \cup {p} ELSE Blocked \ {p}
    BY <1>1 DEF Blocked, Waiting, WaitPcs
  <1>4. ASSUME UNCHANGED hung \/ (l \notin CountedPcs /\ hung' = [hung EXCEPT ![p] = FALSE])
        PROVE  Users' = IF l \in CountedPcs /\ ~hung[p] THEN Users \cup {p} ELSE Users \ {p}
    <2>1. \A q \in Procs \ {p} : hung'[q] = hung[q] /\ pc'[q] = pc[q]
      BY <1>1, <1>4 DEF PortType
    <2>2. \A q \in Procs \ {p} : q \in Users' <=> q \in Users
      BY <2>1 DEF Users, Counted
    <2>3. p \in Users' <=> l \in CountedPcs /\ ~hung[p]
      BY <1>1, <1>4 DEF Users, Counted, CountedPcs, PortType
    <2>4. Users \subseteq Procs /\ Users' \subseteq Procs
      BY DEF Users
    <2> QED
      BY <2>2, <2>3, <2>4
  <1> QED
    BY <1>2, <1>3, <1>4

\* A close finds the count it leaves corrected already.
LEMMA CloseCounts ==
    ASSUME PortType, CountInv, NEW p \in Procs, pc[p] \in {"open", "failed"}, ~hung[p],
           lock # Hangup
    PROVE  p \in Users /\ count > 0 /\ Less = count - 1
  <1>1. p \in Users /\ Users \subseteq Files /\ Files \subseteq Procs /\ Users \subseteq Procs
    BY DEF Users, Counted, Files
  <1>2. count = Cardinality(Users) /\ count \in Nat /\ count # 0
    BY <1>1, NobodyCounts DEF CountInv
  <1>3. ttyCount = 1 => count = 1
    BY <1>1, <1>2, OnlyOne DEF CountInv
  <1> QED
    BY <1>1, <1>2, <1>3 DEF Less, Corrected

\* What a thread that moves does to the counters.
LEMMA CountMoves ==
    ASSUME PortType, LockInv, CountInv, NEW p \in Procs, Inside(p) \/ Outer(p)
    PROVE  CountInv'
  <1>0. /\ lock # Hangup /\ lock' # Hangup
        /\ ttyCount = Cardinality(Files) /\ blocked = Cardinality(Blocked)
        /\ count = Cardinality(Users) /\ count \in Int /\ blocked \in Int /\ ttyCount \in Int
    BY Moves, PortAssumption DEF Step, CountInv, PortType
  <1> DEFINE Moved(l, f, b, u) ==
                 /\ Step(p, l) /\ ttyCount' = ttyCount + f /\ blocked' = blocked + b
                 /\ count' = IF hung[p] THEN count ELSE count + u
  <1>1. ASSUME NEW l \in Pcs, NEW f \in Int, NEW b \in Int, NEW u \in Int, Moved(l, f, b, u),
               IF l = "none" THEN f = -1 /\ pc[p] # "none"
                             ELSE IF pc[p] = "none" THEN f = 1 ELSE f = 0,
               IF l \in WaitPcs THEN IF pc[p] \in WaitPcs THEN b = 0 ELSE b = 1
                                ELSE IF pc[p] \in WaitPcs THEN b = -1 ELSE b = 0,
               IF l \in CountedPcs THEN IF pc[p] \in CountedPcs THEN u = 0 ELSE u = 1
                                   ELSE IF pc[p] \in CountedPcs THEN u = -1 ELSE u = 0,
               IF l = "none" THEN hung' = [hung EXCEPT ![p] = FALSE] ELSE UNCHANGED hung
        PROVE  CountInv'
    <2>1. ttyCount' = Cardinality(Files')
      <3>1. Files' = IF l = "none" THEN Files \ {p} ELSE Files \cup {p}
        BY <1>1, Counts
      <3>2. Files \subseteq Procs /\ (p \in Files <=> pc[p] # "none")
        BY DEF Files
      <3>3. /\ p \notin Files => Cardinality(Files \cup {p}) = Cardinality(Files) + 1
            /\ p \in Files => Cardinality(Files \ {p}) = Cardinality(Files) - 1
            /\ p \in Files => Files \cup {p} = Files
        BY <3>2, OneMore
      <3>4. ttyCount' = ttyCount + f
        BY <1>1
      <3>5. IF l = "none" THEN f = -1 /\ p \in Files
                          ELSE IF p \notin Files THEN f = 1 ELSE f = 0
        BY <1>1, <3>2
      <3>6. PICK n \in Int : n = Cardinality(Files)
        BY <1>0
      <3>7. ttyCount' = n + f
        BY <1>0, <3>4, <3>6
      <3> QED
        BY <3>1, <3>3, <3>5, <3>6, <3>7
    <2>2. blocked' = Cardinality(Blocked')
      <3>1. Blocked' = IF l \in WaitPcs THEN Blocked \cup {p} ELSE Blocked \ {p}
        BY <1>1, Counts
      <3>2. Blocked \subseteq Procs /\ (p \in Blocked <=> pc[p] \in WaitPcs)
        BY DEF Blocked, Waiting, WaitPcs
      <3>3. /\ p \notin Blocked => Cardinality(Blocked \cup {p}) = Cardinality(Blocked) + 1
            /\ p \in Blocked => Cardinality(Blocked \ {p}) = Cardinality(Blocked) - 1
            /\ p \in Blocked => Blocked \cup {p} = Blocked
            /\ p \notin Blocked => Blocked \ {p} = Blocked
        BY <3>2, OneMore
      <3>4. blocked' = blocked + b
        BY <1>1
      <3>5. IF l \in WaitPcs THEN IF p \in Blocked THEN b = 0 ELSE b = 1
                             ELSE IF p \in Blocked THEN b = -1 ELSE b = 0
        BY <1>1, <3>2
      <3>6. PICK n \in Int : n = Cardinality(Blocked)
        BY <1>0
      <3>7. blocked' = n + b
        BY <1>0, <3>4, <3>6
      <3>8. CASE l \in WaitPcs /\ p \in Blocked
        <4>1. Blocked' = Blocked /\ b = 0
          BY <3>1, <3>3, <3>5, <3>8
        <4> QED
          BY <3>6, <3>7, <3>8, <4>1
      <3>9. CASE l \in WaitPcs /\ p \notin Blocked
        BY <3>1, <3>3, <3>5, <3>6, <3>7, <3>9
      <3>10. CASE l \notin WaitPcs /\ p \in Blocked
        BY <3>1, <3>3, <3>5, <3>6, <3>7, <3>10
      <3>11. CASE l \notin WaitPcs /\ p \notin Blocked
        <4>1. Blocked' = Blocked /\ b = 0
          BY <3>1, <3>3, <3>5, <3>11
        <4> QED
          BY <3>6, <3>7, <3>11, <4>1
      <3> QED
        BY <3>8, <3>9, <3>10, <3>11
    <2>3. count' = Cardinality(Users')
      <3>1. Users' = IF l \in CountedPcs /\ ~hung[p] THEN Users \cup {p} ELSE Users \ {p}
        <4>1. UNCHANGED hung \/ (l \notin CountedPcs /\ hung' = [hung EXCEPT ![p] = FALSE])
          BY <1>1 DEF CountedPcs
        <4>2. Step(p, l)
          BY <1>1
        <4> QED
          BY <4>1, <4>2, Counts
      <3>2. Users \subseteq Procs /\ (p \in Users <=> ~hung[p] /\ pc[p] \in CountedPcs)
        BY DEF Users, Counted, CountedPcs
      <3>3. /\ p \notin Users => Cardinality(Users \cup {p}) = Cardinality(Users) + 1
            /\ p \in Users => Cardinality(Users \ {p}) = Cardinality(Users) - 1
            /\ p \in Users => Users \cup {p} = Users
            /\ p \notin Users => Users \ {p} = Users
        BY <3>2, OneMore
      <3>4. count' = IF hung[p] THEN count ELSE count + u
        BY <1>1
      <3>5. ~hung[p] => IF l \in CountedPcs THEN IF p \in Users THEN u = 0 ELSE u = 1
                                            ELSE IF p \in Users THEN u = -1 ELSE u = 0
        BY <1>1, <3>2
      <3>6. PICK n \in Int : n = Cardinality(Users)
        BY <1>0
      <3>7. count' = IF hung[p] THEN n ELSE n + u
        BY <1>0, <3>4, <3>6
      <3>8. CASE l \in CountedPcs /\ p \in Users /\ ~hung[p]
        <4>1. Users' = Users /\ u = 0
          BY <3>1, <3>3, <3>5, <3>8
        <4> QED
          BY <3>6, <3>7, <3>8, <4>1
      <3>9. CASE l \in CountedPcs /\ p \notin Users /\ ~hung[p]
        BY <3>1, <3>3, <3>5, <3>6, <3>7, <3>9
      <3>10. CASE l \notin CountedPcs /\ p \in Users /\ ~hung[p]
        BY <3>1, <3>3, <3>5, <3>6, <3>7, <3>10
      <3>11. CASE (l \notin CountedPcs /\ p \notin Users) \/ hung[p]
        BY <3>1, <3>2, <3>3, <3>5, <3>6, <3>7, <3>11
      <3> QED
        BY <3>8, <3>9, <3>10, <3>11
    <2>4. ASSUME NEW q \in Procs, pc'[q] = "none" PROVE ~hung'[q]
      BY <1>1, <2>4 DEF Step, PortType, CountInv
    <2> QED
      BY <1>0, <2>1, <2>2, <2>3, <2>4 DEF CountInv
  <1>2. CASE OpenBegin(p)
    <2>1. pc[p] = "none" /\ Moved("page", 1, 0, 1) /\ UNCHANGED hung
      BY <1>0, <1>2 DEF OpenBegin, CountInv
    <2> QED
      BY <1>1, <2>1 DEF Pcs, Sleeping, WaitPcs, CountedPcs
  <1>3. CASE StartupNoMemory(p) \/ (\E admin \in BOOLEAN : StartupAbsent(p, admin))
             \/ StartupAgain(p) \/ StartupUntyped(p) \/ Startup(p) \/ StartupEnd(p) \/ ReadyNow(p) \/ OpenEnd(p)
    <2>1. /\ pc[p] \in CountedPcs /\ pc[p] \notin WaitPcs /\ pc[p] # "none"
          /\ UNCHANGED <<hung, count, blocked, ttyCount>>
          /\ \E l \in CountedPcs : l # "none" /\ l \notin WaitPcs /\ l \in Pcs /\ Step(p, l)
      BY <1>3 DEF StartupNoMemory, StartupAbsent, StartupAgain, StartupUntyped, Startup, StartupEnd, ReadyNow,
         OpenEnd, info, CountedPcs, WaitPcs, Pcs, Outside
    <2>2. PICK l \in CountedPcs : l # "none" /\ l \notin WaitPcs /\ l \in Pcs /\ Moved(l, 0, 0, 0)
      BY <1>0, <2>1
    <2> QED
      BY <1>1, <2>1, <2>2
  <1>4. CASE ReadyWaits(p)
    <2>1. pc[p] = "ready" /\ Moved("block", 0, 1, -1) /\ UNCHANGED hung
      BY <1>0, <1>4 DEF ReadyWaits
    <2> QED
      BY <1>1, <2>1 DEF Pcs, WaitPcs, CountedPcs
  <1>5. CASE Block(p) \/ TestSleeps(p) \/ Wake(p)
    <2>1. /\ pc[p] \in WaitPcs /\ UNCHANGED <<hung, count, blocked, ttyCount>>
          /\ \E l \in WaitPcs : Step(p, l)
      BY <1>5 DEF Block, TestSleeps, Wake, info, WaitPcs
    <2>2. PICK l \in WaitPcs : Moved(l, 0, 0, 0)
      BY <1>0, <2>1
    <2> QED
      BY <1>1, <2>1, <2>2 DEF Pcs, Sleeping, WaitPcs, CountedPcs
  <1>6. CASE TestLeaves(p)
    <2>1. pc[p] = "test" /\ UNCHANGED hung /\ \E l \in {"opened", "failed"} : Moved(l, 0, -1, 1)
      BY <1>0, <1>6 DEF TestLeaves
    <2> QED
      BY <1>1, <2>1 DEF Pcs, Outside, WaitPcs, CountedPcs
  <1>7. CASE CloseOther(p)
    <2>1. pc[p] \in {"open", "failed"} /\ UNCHANGED hung /\ Moved("release", 0, 0, -1)
      BY <1>0, <1>7, CloseCounts DEF CloseOther
    <2> QED
      BY <1>1, <2>1 DEF Pcs, Sleeping, WaitPcs, CountedPcs
  <1>8. CASE CloseLast(p)
    <2>1. pc[p] \in {"open", "failed"} /\ UNCHANGED hung /\ Moved("drain", 0, 0, -1)
      BY <1>0, <1>8, CloseCounts DEF CloseLast
    <2> QED
      BY <1>1, <2>1 DEF Pcs, Sleeping, WaitPcs, CountedPcs
  <1>9. CASE CloseDrain(p) \/ CloseShut(p) \/ CloseClear(p) \/ CloseEnd(p)
    <2>1. /\ pc[p] \in ClosingPcs /\ UNCHANGED <<hung, count, blocked, ttyCount>>
          /\ \E l \in ClosingPcs \cup {"release"} : Step(p, l)
      BY <1>9 DEF CloseDrain, CloseShut, CloseClear, CloseEnd, ClosingPcs
    <2>2. PICK l \in ClosingPcs \cup {"release"} : Moved(l, 0, 0, 0)
      BY <1>0, <2>1
    <2> QED
      BY <1>1, <2>1, <2>2 DEF Pcs, Sleeping, WaitPcs, CountedPcs, ClosingPcs
  <1>10. CASE Release(p)
    <2>1. /\ pc[p] = "release" /\ Moved("none", -1, 0, 0) /\ hung' = [hung EXCEPT ![p] = FALSE]
      BY <1>0, <1>10 DEF Release, info
    <2> QED
      BY <1>1, <2>1 DEF Pcs, Outside, WaitPcs, CountedPcs
  <1> QED
    BY <1>2, <1>3, <1>4, <1>5, <1>6, <1>7, <1>8, <1>9, <1>10 DEF Inside, Outer

\* The counters are right after every step.
LEMMA CountStep == PortType /\ LockInv /\ CountInv /\ [Next]_vars => CountInv'
  <1> SUFFICES ASSUME PortType, LockInv, CountInv, [Next]_vars PROVE CountInv'
    OBVIOUS
  <1>1. CASE \E p \in Procs : Inside(p) \/ Outer(p)
    BY <1>1, CountMoves
  <1>2. CASE \/ (\E p \in Procs : Signal(p) \/ Settings(p)) \/ Kernel \/ Carrier \/ TtyHangup
             \/ UNCHANGED vars
    <2>0. UNCHANGED <<world, pc, ttyCount, blocked>> /\ Files' = Files /\ Blocked' = Blocked
      BY <1>2, Stays DEF Files, Blocked, Waiting
    <2>1. CASE HangupBegin
      <3>1. lock' = Hangup /\ hung' = [p \in Procs |-> hung[p] \/ pc[p] # "none"]
        BY <2>1 DEF HangupBegin
      <3>2. Users' = {}
        BY <2>0, <3>1 DEF Users, Counted
      <3>3. ASSUME NEW p \in Procs, pc'[p] = "none" PROVE ~hung'[p]
        BY <2>0, <3>1, <3>3 DEF CountInv
      <3> QED
        BY <2>0, <3>1, <3>2, <3>3 DEF CountInv
    <2>2. CASE HangupEnd
      <3>1. lock = Hangup /\ lock' = NoOne /\ count' = 0 /\ UNCHANGED hung
        BY <2>2 DEF HangupEnd
      <3>2. Users' = Users /\ Users = {}
        BY <2>0, <3>1 DEF Users, Counted, CountInv
      <3> QED
        BY <2>0, <3>1, <3>2, PortAssumption, FS_EmptySet DEF CountInv
    <2>3. CASE ~HangupBegin /\ ~HangupEnd
      <3>1. UNCHANGED <<lock, hung, count>>
        BY <1>2, <2>3, Stays DEF Signal, Settings, SetTermios, SoftCarrier, Kernel, IsrEnter, IsrModem, SoftInt, Carrier,
           TtyHangup, vars, info, core
      <3>2. Users' = Users
        BY <2>0, <3>1 DEF Users, Counted
      <3> QED
        BY <2>0, <3>1, <3>2 DEF CountInv
    <2> QED
      BY <2>1, <2>2, <2>3
  <1> QED
    BY <1>1, <1>2, NextSplit

-----------------------------------------------------------------------------
(* Nobody sleeps on a port that is gone. *)

\* A sleeper whose port goes away is woken by the one that takes it away.
LEMMA OrphanStep == PortType /\ LockInv /\ CountInv /\ OrphanInv /\ [Next]_vars => OrphanInv'
  <1> SUFFICES ASSUME PortType, LockInv, CountInv, OrphanInv, [Next]_vars PROVE OrphanInv'
    OBVIOUS
  <1>0. /\ pc \in [Procs -> Pcs] /\ woken \in [Procs -> BOOLEAN]
        /\ blocked = Cardinality(Blocked) /\ Blocked \subseteq Procs
        /\ blocked \in Nat /\ (blocked = 0 <=> Blocked = {})
    <2>1. Blocked \subseteq Procs /\ blocked = Cardinality(Blocked)
      BY DEF Blocked, CountInv
    <2> QED
      BY <2>1, NobodyCounts DEF PortType
  <1>1. ASSUME NEW p \in Procs, Inside(p) \/ Outer(p) PROVE OrphanInv'
    <2>0. lock # Hangup /\ lock \in {NoOne, p} /\ \A q \in Procs \ {p} : pc'[q] = pc[q]
      BY <1>0, <1>1, Moves, PortAssumption DEF Step
    <2>1. CASE CloseClear(p)
      <3>1. /\ pc[p] = "clear" /\ pc' = [pc EXCEPT ![p] = IF blocked > 0 THEN "delay" ELSE "end"]
            /\ UNCHANGED <<woken, flags>>
        BY <2>1 DEF CloseClear, Step, wait
      <3>2. CASE blocked > 0
        <4>1. pc'[p] = "delay"
          BY <1>0, <3>1, <3>2
        <4>2. NoOrphan'
          BY <4>1 DEF NoOrphan
        <4>3. \A q \in Procs : pc'[q] # "end"
          BY <1>0, <2>0, <4>1, <3>2 DEF OrphanInv, LockInv, Outside, Sleeping
        <4> QED
          BY <4>2, <4>3 DEF OrphanInv
      <3>3. CASE ~(blocked > 0)
        <4>1. Blocked = {} /\ pc'[p] = "end"
          BY <1>0, <3>1, <3>3
        <4>2. \A r \in Procs : ~Waiting(r)'
          BY <2>0, <4>1 DEF Blocked, Waiting
        <4> QED
          BY <4>2 DEF OrphanInv, Blocked, NoOrphan, Waiting
      <3> QED
        BY <3>2, <3>3
    <2>2. CASE CloseEnd(p)
      <3>1. /\ pc[p] \in {"delay", "end"} /\ pc' = [pc EXCEPT ![p] = "release"]
            /\ pc[p] = "delay" => woken' = [q \in Procs |-> TRUE]
        BY <2>2 DEF CloseEnd, Step, WakeOpeners
      <3>2. \A q \in Procs : pc'[q] # "end"
        BY <1>0, <2>0, <3>1, PortAssumption DEF LockInv, Outside, Sleeping
      <3>3. CASE pc[p] = "delay"
        BY <3>1, <3>2, <3>3 DEF OrphanInv, NoOrphan
      <3>4. CASE pc[p] = "end"
        <4>1. \A r \in Procs : ~Waiting(r)
          BY <3>4 DEF OrphanInv, Blocked
        <4>2. \A r \in Procs : pc'[r] # "asleep"
          BY <1>0, <3>1, <4>1 DEF Waiting
        <4> QED
          BY <3>2, <4>2 DEF OrphanInv, NoOrphan
      <3> QED
        BY <3>1, <3>3, <3>4
    <2>3. CASE ~CloseClear(p) /\ ~CloseEnd(p)
      <3>1. pc'[p] # "end" /\ pc[p] \notin {"clear", "delay"}
        BY <1>0, <1>1, <2>3 DEF Inside, Outer, StartupNoMemory, StartupAgain, StartupUntyped,
           StartupAbsent, Startup, StartupEnd, ReadyNow, ReadyWaits, Block, TestSleeps, TestLeaves,
           Wake, OpenEnd, CloseDrain, CloseShut, OpenBegin, CloseOther, CloseLast, Release, Step
      <3>2. \A q \in Procs : pc'[q] # "end"
        BY <2>0, <3>1, <1>0, PortAssumption, Moves, <1>1 DEF LockInv, Outside, Sleeping
      <3>3. CASE CloseShut(p)
        <4>1. pc'[p] = "clear"
          BY <1>0, <3>3 DEF CloseShut, Step
        <4> QED
          BY <3>2, <4>1 DEF OrphanInv, NoOrphan
      <3>4. CASE ~CloseShut(p)
        <4>1. ASSUME NEW r \in Procs \ {p} PROVE woken'[r] = woken[r]
          BY <1>0, <1>1, <2>3, <3>4 DEF Inside, Outer, StartupNoMemory, StartupAgain, StartupUntyped,
             StartupAbsent, Startup, StartupEnd, ReadyNow, ReadyWaits, Block, TestSleeps, TestLeaves,
             Wake, OpenEnd, CloseDrain, OpenBegin, CloseOther, CloseLast, Release, Forget, wait
        <4>2. "INITIALIZED" \in flags => "INITIALIZED" \in flags'
          BY <1>1, <2>3, <3>4 DEF Inside, Outer, StartupNoMemory, StartupAgain, StartupUntyped,
             StartupAbsent, Startup, StartupEnd, ReadyNow, ReadyWaits, Block, TestSleeps, TestLeaves,
             Wake, OpenEnd, CloseDrain, OpenBegin, CloseOther, CloseLast, Release, info, ChangeSpeed
        <4>3. pc'[p] = "asleep" => "INITIALIZED" \in flags
          BY <1>0, <1>1, <2>3, <3>4 DEF Inside, Outer, StartupNoMemory, StartupAgain, StartupUntyped,
             StartupAbsent, Startup, StartupEnd, ReadyNow, ReadyWaits, Block, TestSleeps, TestLeaves,
             Wake, OpenEnd, CloseDrain, OpenBegin, CloseOther, CloseLast, Release, Step, Leaves, Gone
        <4>4. ASSUME NEW r \in Procs, pc'[r] = "asleep", "INITIALIZED" \notin flags'
              PROVE  woken'[r] \/ \E q \in Procs : pc'[q] \in {"clear", "delay"}
          <5>1. r # p /\ pc[r] = "asleep" /\ "INITIALIZED" \notin flags
            BY <2>0, <4>2, <4>3, <4>4
          <5>2. woken[r] \/ \E q \in Procs : pc[q] \in {"clear", "delay"}
            BY <2>0, <5>1 DEF OrphanInv, NoOrphan
          <5> QED
            BY <2>0, <3>1, <4>1, <5>1, <5>2
        <4> QED
          BY <3>2, <4>4 DEF OrphanInv, NoOrphan
      <3> QED
        BY <3>3, <3>4
    <2> QED
      BY <2>1, <2>2, <2>3
  <1>2. CASE \/ (\E p \in Procs : Signal(p) \/ Settings(p)) \/ Kernel \/ Carrier \/ TtyHangup
             \/ UNCHANGED vars
    <2>0. UNCHANGED pc /\ Blocked' = Blocked
      BY <1>2, Stays DEF Blocked, Waiting
    <2>1. CASE HangupBegin
      BY <2>0, <2>1 DEF HangupBegin, OrphanInv, NoOrphan
    <2>2. CASE HangupEnd
      BY <2>0, <2>2 DEF HangupEnd, WakeOpeners, OrphanInv, NoOrphan
    <2>3. CASE ~HangupBegin /\ ~HangupEnd
      <3>1. UNCHANGED lock
        BY <1>2, <2>3, Stays
      <3>3. "INITIALIZED" \in flags' <=> "INITIALIZED" \in flags
        BY <1>2, <2>3 DEF Signal, Settings, SetTermios, SoftCarrier, Kernel, IsrEnter, IsrModem, SoftInt, Carrier,
           TtyHangup, vars, info, ChangeSpeed
      <3>2. UNCHANGED woken \/ woken' = [p \in Procs |-> TRUE]
        BY <1>2, <2>3 DEF Signal, Settings, SetTermios, SoftCarrier, Kernel, IsrEnter, IsrModem, SoftInt, Carrier,
           TtyHangup, vars, wait, WakeOpeners
      <3> QED
        BY <2>0, <3>1, <3>2, <3>3 DEF OrphanInv, NoOrphan
    <2> QED
      BY <2>1, <2>2, <2>3
  <1> QED
    BY <1>1, <1>2, NextSplit

-----------------------------------------------------------------------------
(* The port follows its users. *)

\* With the tty lock held for the whole call, a thread that moves finds every
\* other one outside the driver.
LEMMA Alone ==
    ASSUME PortType, LockInv, kernel = "call", NEW p \in Procs, Inside(p) \/ Outer(p)
    PROVE  /\ lock \in {NoOne, p} /\ lock # Hangup /\ lock' # Hangup
           /\ \A q \in Procs \ {p} : pc[q] \in Outside /\ pc'[q] = pc[q]
           /\ lock' = NoOne <=> pc'[p] \in Outside
  <1>1. PICK l \in Pcs : Step(p, l)
    BY Moves
  <1> QED
    BY <1>1, PortAssumption DEF Step, PortType, LockInv

\* Where tty_lock is held for the whole call, a call in the driver is alone.
LEMMA AloneStep ==
    ASSUME PortType, LockInv, CountInv, kernel = "call", AloneInv, [Next]_vars PROVE AloneInv'
  <1>0. pc \in [Procs -> Pcs]
    BY DEF PortType
  <1>1. ASSUME NEW p \in Procs, Inside(p) \/ Outer(p) PROVE AloneInv'
    <2>0. \A q \in Procs \ {p} : pc[q] \in Outside /\ pc'[q] = pc[q]
      BY <1>1, Alone
    <2>1. CASE Release(p)
      <3>1. /\ pc' = [pc EXCEPT ![p] = "none"] /\ UNCHANGED flags /\ pc[p] = "release"
        BY <2>1 DEF Release, Step, info
      <3> QED
        BY <1>0, <2>0, <3>1 DEF AloneInv, ClosingPcs, Outside
    <2>2. CASE ~Release(p)
      <3>1. UNCHANGED hung
        BY <1>1, <2>2 DEF Inside, Outer, StartupNoMemory, StartupAgain, StartupUntyped, StartupAbsent, Startup,
           StartupEnd, ReadyNow, ReadyWaits, Block, TestSleeps, TestLeaves, Wake, OpenEnd,
           CloseDrain, CloseShut, CloseClear, CloseEnd, OpenBegin, CloseOther, CloseLast
      <3>2. \A q \in Procs : pc'[q] \notin Outside \cup {"release"} => ~hung'[q]
        <4>1. pc'[p] \notin Outside \cup {"release"} => ~hung[p]
          BY <1>0, <1>1, <2>2 DEF Inside, Outer, StartupNoMemory, StartupAgain, StartupUntyped, StartupAbsent, Startup,
             StartupEnd, ReadyNow, ReadyWaits, Block, TestSleeps, TestLeaves, Wake, OpenEnd,
             CloseDrain, CloseShut, CloseClear, CloseEnd, OpenBegin, CloseOther, CloseLast, Step,
             Outside, AloneInv, CountInv
        <4> QED
          BY <2>0, <3>1, <4>1
      <3>3. CASE CloseLast(p)
        <4>1. pc[p] \in {"open", "failed"} /\ ~hung[p] /\ Less = 0 /\ Step(p, "drain") /\ count' = 0
          BY <3>3 DEF CloseLast
        <4>2. Users = {p}
          <5>1. lock # Hangup
            BY <1>1, Alone
          <5>2. p \in Users /\ Less = count - 1 /\ count = Cardinality(Users) /\ count \in Int
            BY <4>1, <5>1, CloseCounts DEF CountInv, PortType
          <5>3. Cardinality(Users) = 1 /\ Users \subseteq Procs
            BY <4>1, <5>2 DEF Users
          <5>4. Cardinality(Users \ {p}) = 0
            BY <5>2, <5>3, OneMore
          <5>5. Users \ {p} = {}
            BY <5>3, <5>4, NobodyCounts
          <5> QED
            BY <5>2, <5>5
        <4>3. Users' = {}
          <5>1. Users' = Users \ {p}
            BY <3>1, <4>1, Counts DEF Pcs, Sleeping, CountedPcs
          <5> QED
            BY <4>2, <5>1
        <4>4. pc'[p] = "drain"
          BY <1>0, <4>1 DEF Step
        <4> QED
          BY <3>2, <4>3, <4>4 DEF AloneInv, ClosingPcs
      <3>4. CASE CloseDrain(p) \/ CloseShut(p) \/ CloseClear(p)
        <4>1. pc[p] \in ClosingPcs /\ pc'[p] \in ClosingPcs
          BY <1>0, <3>4 DEF CloseDrain, CloseShut, CloseClear, Step, ClosingPcs
        <4>2. Users' = Users
          BY <2>0, <3>1, <4>1 DEF Users, Counted, ClosingPcs
        <4> QED
          BY <3>2, <4>1, <4>2 DEF AloneInv
      <3>5. CASE CloseEnd(p)
        <4>1. pc'[p] = "release" /\ "CLOSING" \notin flags'
          BY <1>0, <3>5 DEF CloseEnd, Step
        <4> QED
          BY <2>0, <3>2, <4>1 DEF AloneInv, ClosingPcs, Outside
      <3>6. CASE ~(CloseLast(p) \/ CloseDrain(p) \/ CloseShut(p) \/ CloseClear(p) \/ CloseEnd(p))
        <4>1. pc[p] \notin ClosingPcs /\ pc'[p] \notin ClosingPcs
          BY <1>0, <1>1, <2>2, <3>6 DEF Inside, Outer, StartupNoMemory, StartupAgain, StartupUntyped, StartupAbsent,
             Startup, StartupEnd, ReadyNow, ReadyWaits, Block, TestSleeps, TestLeaves, Wake, OpenEnd,
             OpenBegin, CloseOther, Step, ClosingPcs
        <4>2. "CLOSING" \in flags' => "CLOSING" \in flags
          BY <1>1, <2>2, <3>6 DEF Inside, Outer, StartupNoMemory, StartupAgain, StartupUntyped, StartupAbsent,
             Startup, StartupEnd, ReadyNow, ReadyWaits, Block, TestSleeps, TestLeaves, Wake, OpenEnd,
             OpenBegin, CloseOther, info, ChangeSpeed
        <4> QED
          BY <2>0, <3>2, <4>1, <4>2 DEF AloneInv, ClosingPcs, Outside
      <3> QED
        BY <3>3, <3>4, <3>5, <3>6
    <2> QED
      BY <2>1, <2>2
  <1>2. CASE \/ (\E p \in Procs : Signal(p) \/ Settings(p)) \/ Kernel \/ Carrier \/ TtyHangup
             \/ UNCHANGED vars
    <2>0. UNCHANGED pc
      BY <1>2, Stays
    <2>1. "CLOSING" \in flags' => "CLOSING" \in flags
      BY <1>2 DEF Signal, Settings, SetTermios, SoftCarrier, Kernel, IsrEnter, IsrModem, SoftInt, Carrier,
         TtyHangup, vars, info, ChangeSpeed, HangupBegin, HangupEnd, Shutdown
    <2>2. CASE HangupBegin
      <3>1. \A q \in Procs : pc[q] \in Outside
        BY <1>0, <2>2, PortAssumption DEF HangupBegin, LockInv
      <3> QED
        BY <2>0, <2>1, <3>1 DEF AloneInv, ClosingPcs, Outside
    <2>3. CASE ~HangupBegin
      <3>1. UNCHANGED hung
        BY <1>2, <2>3 DEF Signal, Settings, SetTermios, SoftCarrier, Kernel, IsrEnter, IsrModem, SoftInt, Carrier,
           TtyHangup, vars, HangupEnd
      <3>2. Users' = Users
        BY <2>0, <3>1 DEF Users, Counted
      <3> QED
        BY <2>0, <2>1, <3>1, <3>2 DEF AloneInv
    <2> QED
      BY <2>2, <2>3
  <1> QED
    BY <1>1, <1>2, NextSplit

\* A counted user finds the port up.
LEMMA UpStep ==
    ASSUME PortType, LockInv, CountInv, AloneInv, UpInv, kernel = "call", present, [Next]_vars
    PROVE  UpInv'
  <1>0. pc \in [Procs -> Pcs] /\ hung \in [Procs -> BOOLEAN]
    BY DEF PortType
  <1>1. ASSUME NEW p \in Procs, Inside(p) \/ Outer(p) PROVE UpInv'
    <2>0. /\ lock # Hangup /\ lock' # Hangup
          /\ \A q \in Procs \ {p} : pc[q] \in Outside /\ pc'[q] = pc[q]
      BY <1>1, Alone
    <2>1. /\ "INITIALIZED" \in flags => buf /\ ~ioError
          /\ \A q \in Procs \ {p} : pc[q] = "open" /\ ~hung[q] => Up
      BY <2>0 DEF UpInv
    <2>2. ASSUME \A q \in Procs \ {p} : hung'[q] = hung[q],
                 "INITIALIZED" \in flags' => buf' /\ ~ioError',
                 Up /\ Users # {} => Up',
                 pc'[p] \in UpPcs \/ (pc'[p] = "open" /\ ~hung'[p]) => Up',
                 pc'[p] = "page" => infoTty',
                 pc'[p] = "init" => buf' /\ infoTty' /\ ~ioError',
                 pc'[p] = "clear" => "INITIALIZED" \notin flags'
          PROVE  UpInv'
      <3>1. \A q \in Procs \ {p} : pc[q] = "open" /\ ~hung[q] => q \in Users
        BY DEF Users, Counted
      <3>2. ASSUME NEW q \in Procs \ {p}
            PROVE  /\ pc'[q] \notin UpPcs /\ pc'[q] \notin {"page", "init", "clear"}
                   /\ pc'[q] = "open" /\ ~hung'[q] => Up'
        BY <2>0, <2>1, <2>2, <3>1 DEF UpPcs, Outside
      <3> QED
        BY <2>0, <2>2, <3>2 DEF UpInv
    <2>3. CASE OpenBegin(p)
      <3>1. /\ pc'[p] = "page" /\ infoTty' = TRUE /\ UNCHANGED <<hung, flags, buf, ioError>>
        BY <1>0, <2>3 DEF OpenBegin, Step
      <3> QED
        BY <2>1, <2>2, <3>1 DEF UpPcs, Up
    <2>4. CASE StartupNoMemory(p) \/ CloseOther(p) \/ CloseLast(p) \/ CloseDrain(p) \/ CloseEnd(p)
      <3>1. /\ pc'[p] \in {"failed", "release", "drain", "temt"}
            /\ UNCHANGED <<hung, buf, ioError, infoTty>>
            /\ "INITIALIZED" \in flags' <=> "INITIALIZED" \in flags
        BY <1>0, <2>4 DEF StartupNoMemory, CloseOther, CloseLast, CloseDrain, CloseEnd, Step, info
      <3> QED
        BY <2>1, <2>2, <3>1 DEF UpPcs, Up
    <2>5. CASE StartupAgain(p)
      <3>1. /\ pc[p] = "page" /\ "INITIALIZED" \in flags /\ pc'[p] = "ready"
            /\ UNCHANGED <<hung, buf, ioError, infoTty, flags>>
        BY <1>0, <2>5 DEF StartupAgain, Step, info
      <3>2. Up
        BY <2>1, <3>1 DEF UpInv, Up
      <3> QED
        BY <2>1, <2>2, <3>1, <3>2 DEF UpPcs, Up
    <2>6. CASE Startup(p)
      <3>1. /\ pc[p] = "page" /\ "INITIALIZED" \notin flags /\ pc'[p] = "init" /\ buf' = TRUE
            /\ ioError' = (ioError /\ ~infoTty) /\ UNCHANGED <<hung, infoTty, flags>>
        BY <1>0, <2>6 DEF Startup, Step
      <3>2. infoTty
        BY <3>1 DEF UpInv
      <3> QED
        BY <2>2, <3>1, <3>2 DEF UpPcs, Up
    <2>7. CASE StartupEnd(p)
      <3>1. /\ pc[p] = "init" /\ pc'[p] = "ready" /\ flags' = flags \cup {"INITIALIZED"}
            /\ UNCHANGED <<hung, buf, ioError, infoTty>>
        BY <1>0, <2>7 DEF StartupEnd, Step
      <3>2. buf /\ infoTty /\ ~ioError
        BY <3>1 DEF UpInv
      <3> QED
        BY <2>2, <3>1, <3>2 DEF UpPcs, Up
    <2>8. CASE ReadyNow(p) \/ ReadyWaits(p) \/ Block(p) \/ TestSleeps(p) \/ TestLeaves(p) \/ Wake(p)
               \/ OpenEnd(p)
      <3>1. /\ pc[p] \in UpPcs /\ pc'[p] \in UpPcs \cup {"open", "failed"}
            /\ UNCHANGED <<hung, buf, ioError, infoTty>>
        BY <1>0, <2>8 DEF ReadyNow, ReadyWaits, Block, TestSleeps, TestLeaves, Wake, OpenEnd, Step,
           info, UpPcs
      <3>2. "INITIALIZED" \in flags' <=> "INITIALIZED" \in flags
        BY <2>8 DEF ReadyNow, ReadyWaits, Block, TestSleeps, TestLeaves, Wake, OpenEnd,
           info, ChangeSpeed
      <3>3. Up
        BY <3>1 DEF UpInv
      <3> QED
        BY <2>1, <2>2, <3>1, <3>2, <3>3 DEF UpPcs, Up
    <2>9. CASE CloseShut(p)
      <3>1. /\ pc[p] = "temt" /\ pc'[p] = "clear" /\ UNCHANGED hung /\ "INITIALIZED" \notin flags'
        BY <1>0, <2>9 DEF CloseShut, Step, Shutdown
      <3>2. Users = {}
        BY <3>1 DEF AloneInv, ClosingPcs
      <3> QED
        BY <2>2, <3>1, <3>2 DEF UpPcs
    <2>10. CASE CloseClear(p)
      <3>1. /\ pc[p] = "clear" /\ pc'[p] \in {"delay", "end"} /\ UNCHANGED <<hung, flags>>
        BY <1>0, <2>10 DEF CloseClear, Step
      <3>2. Users = {} /\ "INITIALIZED" \notin flags
        BY <3>1 DEF AloneInv, ClosingPcs, UpInv
      <3> QED
        BY <2>2, <3>1, <3>2 DEF UpPcs
    <2>11. CASE Release(p)
      <3>1. /\ pc'[p] = "none" /\ UNCHANGED <<flags, buf, infoTty>> /\ (~ioError => ~ioError')
            /\ hung' = [hung EXCEPT ![p] = FALSE]
        BY <1>0, <2>11 DEF Release, Step, info
      <3> QED
        BY <1>0, <2>1, <2>2, <3>1 DEF UpPcs, Up
    <2> QED
      BY <1>1, <2>3, <2>4, <2>5, <2>6, <2>7, <2>8, <2>9, <2>10, <2>11 DEF Inside, Outer, StartupAbsent, StartupUntyped
  <1>2. CASE \/ (\E p \in Procs : Signal(p) \/ Settings(p)) \/ Kernel \/ Carrier \/ TtyHangup
             \/ UNCHANGED vars
    <2>0. UNCHANGED pc
      BY <1>2, Stays
    <2>1. CASE HangupBegin \/ HangupEnd
      <3>1. \A q \in Procs : pc'[q] \in Outside
        BY <1>0, <2>0, <2>1, PortAssumption DEF HangupBegin, HangupEnd, LockInv
      <3>2. "INITIALIZED" \notin flags'
        BY <2>1 DEF HangupBegin, HangupEnd, Shutdown, UpInv
      <3>3. \A q \in Procs : ~(pc'[q] = "open" /\ ~hung'[q] /\ lock' # Hangup)
        <4>1. CASE HangupBegin
          BY <4>1 DEF HangupBegin
        <4>2. CASE HangupEnd
          BY <2>0, <4>2 DEF HangupEnd, CountInv, Users, Counted
        <4> QED
          BY <2>1, <4>1, <4>2
      <3> QED
        BY <3>1, <3>2, <3>3 DEF UpInv, UpPcs, Outside
    <2>2. CASE ~HangupBegin /\ ~HangupEnd
      <3>1. UNCHANGED lock
        BY <1>2, <2>2, Stays
      <3>2. UNCHANGED <<hung, buf, infoTty, ioError>>
            /\ ("INITIALIZED" \in flags' <=> "INITIALIZED" \in flags)
        BY <1>2, <2>2 DEF Signal, Settings, SetTermios, SoftCarrier, Kernel, IsrEnter, IsrModem, SoftInt, Carrier,
           TtyHangup, vars, info, ChangeSpeed
      <3> QED
        BY <2>0, <3>1, <3>2 DEF UpInv, Up
    <2> QED
      BY <2>1, <2>2
  <1> QED
    BY <1>1, <1>2, NextSplit

\* The last one out shuts the port down.
LEMMA DownStep ==
    ASSUME PortType, LockInv, CountInv, CountInv', AloneInv, UpInv, UpInv', DownInv,
           kernel = "call", present, [Next]_vars
    PROVE  DownInv'
  <1>0. pc \in [Procs -> Pcs] /\ hung \in [Procs -> BOOLEAN]
    BY DEF PortType
  <1>1. ASSUME NEW p \in Procs, Inside(p) \/ Outer(p) PROVE DownInv'
    <2>0. /\ lock # Hangup /\ lock' # Hangup
          /\ \A q \in Procs \ {p} : pc[q] \in Outside /\ pc'[q] = pc[q]
      BY <1>1, Alone
    <2>1. "INITIALIZED" \in flags \/ Down \/ pc[p] = "init"
      BY <2>0 DEF DownInv, Outside
    <2>2. pc[p] \in QuietPcs /\ Users = {} => Down /\ ~infoTty
      BY <2>0 DEF DownInv, QuietPcs
    <2>3. ASSUME "INITIALIZED" \in flags' \/ Down' \/ pc'[p] = "init",
                 pc'[p] \in QuietPcs /\ Users' = {} => Down' /\ ~infoTty'
          PROVE  DownInv'
      BY <2>3 DEF DownInv
    <2>4. pc'[p] \in CountedPcs /\ ~hung'[p] => Users' # {}
      BY DEF Users, Counted, CountedPcs
    <2>5. CASE OpenBegin(p) \/ StartupNoMemory(p) \/ StartupAgain(p) \/ Startup(p) \/ StartupEnd(p)
      <3>1. /\ pc'[p] \in {"page", "failed", "ready", "init"} /\ UNCHANGED hung
            /\ pc'[p] = "failed" => ~hung[p]
        BY <1>0, <2>5 DEF OpenBegin, StartupNoMemory, StartupAgain, StartupUntyped, Startup, StartupEnd, Step,
           AloneInv, Outside
      <3>2. "INITIALIZED" \in flags' \/ Down' \/ pc'[p] = "init"
        BY <1>0, <2>1, <2>5 DEF OpenBegin, StartupNoMemory, StartupAgain, StartupUntyped, Startup, StartupEnd, Step,
           info, Down
      <3> QED
        BY <2>3, <2>4, <3>1, <3>2 DEF QuietPcs, CountedPcs, Outside
    <2>6. CASE ReadyNow(p) \/ ReadyWaits(p) \/ Block(p) \/ TestSleeps(p) \/ TestLeaves(p) \/ Wake(p)
               \/ OpenEnd(p)
      <3>1. /\ pc[p] \in UpPcs /\ pc'[p] \in UpPcs \cup {"open", "failed"} /\ UNCHANGED hung
        BY <1>0, <2>6 DEF ReadyNow, ReadyWaits, Block, TestSleeps, TestLeaves, Wake, OpenEnd, Step,
           UpPcs
      <3>2. "INITIALIZED" \in flags' <=> "INITIALIZED" \in flags
        BY <2>6 DEF ReadyNow, ReadyWaits, Block, TestSleeps, TestLeaves, Wake, OpenEnd,
           info, ChangeSpeed
      <3>3. Up /\ ~hung[p]
        BY <3>1 DEF UpInv, AloneInv, UpPcs, Outside
      <3> QED
        BY <2>3, <2>4, <3>1, <3>2, <3>3 DEF UpPcs, Up, QuietPcs, CountedPcs, Outside
    <2>7. CASE CloseOther(p)
      <3>1. /\ pc[p] \in {"open", "failed"} /\ (hung[p] \/ Less > 0) /\ Step(p, "release")
            /\ count' = IF hung[p] THEN count ELSE Less
            /\ UNCHANGED <<hung, flags, buf, infoTty, ier>>
        BY <2>7 DEF CloseOther
      <3>2. CASE hung[p]
        <4>1. Users' = Users
          <5>1. Users' = Users \ {p} /\ p \notin Users
            BY <3>1, <3>2, Counts DEF Pcs, Sleeping, CountedPcs, Users, Counted
          <5> QED
            BY <5>1
        <4> QED
          BY <2>1, <2>2, <2>3, <3>1, <4>1 DEF Down, QuietPcs, Outside
      <3>3. CASE ~hung[p]
        <4>1. count' = Cardinality(Users') /\ count' # 0
          BY <2>0, <3>1, <3>3 DEF CountInv
        <4>2. Users' # {}
          BY <4>1, FS_EmptySet
        <4> QED
          BY <2>1, <2>3, <3>1, <4>2 DEF Down
      <3> QED
        BY <3>2, <3>3
    <2>8. CASE CloseLast(p) \/ CloseDrain(p)
      <3>1. /\ pc[p] \in {"open", "failed", "drain"} /\ pc'[p] \in {"drain", "temt"}
            /\ UNCHANGED buf /\ ier' \subseteq ier
            /\ "INITIALIZED" \in flags' <=> "INITIALIZED" \in flags
        BY <1>0, <2>8 DEF CloseLast, CloseDrain, Step
      <3> QED
        BY <2>1, <2>3, <3>1 DEF Down, QuietPcs, Outside
    <2>9. CASE CloseShut(p)
      <3>1. pc[p] = "temt" /\ pc'[p] = "clear" /\ Shutdown
        BY <1>0, <2>9 DEF CloseShut, Step
      <3>2. Down'
        BY <2>1, <3>1 DEF Shutdown, Down
      <3> QED
        BY <2>3, <3>1, <3>2 DEF QuietPcs, Outside
    <2>10. CASE CloseClear(p)
      <3>1. pc[p] = "clear" /\ infoTty' = FALSE /\ UNCHANGED <<flags, buf, ier>>
        BY <2>10 DEF CloseClear
      <3>2. Down
        BY <2>1, <3>1 DEF UpInv
      <3> QED
        BY <2>3, <3>1, <3>2 DEF Down
    <2>11. CASE CloseEnd(p)
      <3>1. /\ pc[p] \in {"delay", "end"} /\ UNCHANGED <<buf, ier, infoTty>>
            /\ flags' = flags \ {"NORMAL_ACTIVE", "CLOSING"}
        BY <2>11 DEF CloseEnd
      <3>2. Down /\ ~infoTty
        BY <2>2, <3>1 DEF AloneInv, ClosingPcs, QuietPcs
      <3> QED
        BY <2>3, <3>1, <3>2 DEF Down
    <2>12. CASE Release(p)
      <3>1. /\ pc[p] = "release" /\ Step(p, "none") /\ UNCHANGED <<flags, buf, infoTty, ier>>
            /\ hung' = [hung EXCEPT ![p] = FALSE]
        BY <2>12 DEF Release, info
      <3>2. Users' = Users
        <4>1. Users' = Users \ {p} /\ p \notin Users
          BY <3>1, Counts DEF Pcs, Outside, CountedPcs, Users, Counted
        <4> QED
          BY <4>1
      <3> QED
        BY <2>1, <2>2, <2>3, <3>1, <3>2 DEF Down, QuietPcs
    <2> QED
      BY <1>1, <2>5, <2>6, <2>7, <2>8, <2>9, <2>10, <2>11, <2>12 DEF Inside, Outer, StartupAbsent, StartupUntyped
  <1>2. CASE \/ (\E p \in Procs : Signal(p) \/ Settings(p)) \/ Kernel \/ Carrier \/ TtyHangup
             \/ UNCHANGED vars
    <2>0. UNCHANGED pc
      BY <1>2, Stays
    <2>1. CASE HangupBegin \/ HangupEnd
      <3>1. \A q \in Procs : pc[q] # "init"
        BY <1>0, <2>1, PortAssumption DEF HangupBegin, HangupEnd, LockInv, Outside
      <3>2. Down'
        <4>1. "INITIALIZED" \in flags \/ Down
          BY <3>1 DEF DownInv
        <4>2. CASE HangupBegin
          BY <4>1, <4>2 DEF HangupBegin, Shutdown, Down
        <4>3. CASE HangupEnd
          BY <4>1, <4>3 DEF HangupEnd, UpInv, Down
        <4> QED
          BY <2>1, <4>2, <4>3
      <3>3. lock' = Hangup \/ ~infoTty'
        BY <2>1 DEF HangupBegin, HangupEnd
      <3> QED
        BY <3>2, <3>3 DEF DownInv
    <2>2. CASE \E p \in Procs : Settings(p)
      <3>1. PICK p \in Procs : Settings(p)
        BY <2>2
      <3>2. p \in Users' /\ Up
        BY <2>0, <3>1 DEF Settings, SetTermios, SoftCarrier, UpInv, Users, Counted, core
      <3>3. "INITIALIZED" \in flags'
        BY <3>1, <3>2 DEF Settings, SetTermios, SoftCarrier, ChangeSpeed, Up, info
      <3> QED
        BY <3>2, <3>3 DEF DownInv
    <2>3. CASE ~HangupBegin /\ ~HangupEnd /\ ~(\E p \in Procs : Settings(p))
      <3>1. UNCHANGED lock
        BY <1>2, <2>3, Stays
      <3>2. UNCHANGED <<hung, buf, infoTty, ioError, flags, ier>>
        BY <1>2, <2>3 DEF Signal, Kernel, IsrEnter, IsrModem, SoftInt, Carrier,
           TtyHangup, vars, info
      <3>3. Users' = Users
        BY <2>0, <3>2 DEF Users, Counted
      <3> QED
        BY <2>0, <3>1, <3>2, <3>3 DEF DownInv, Down
    <2> QED
      BY <2>1, <2>2, <2>3
  <1> QED
    BY <1>1, <1>2, NextSplit

-----------------------------------------------------------------------------
(* The carrier. *)

\* A process that may change the settings is counted.
LEMMA SetterCounts ==
    ASSUME PortType, CountInv, NEW p \in Procs, Settings(p)
    PROVE  count # 0
  <1>1. p \in Users /\ Users \subseteq Procs /\ lock # Hangup
    BY DEF Settings, SetTermios, SoftCarrier, Users, Counted
  <1> QED
    BY <1>1, NobodyCounts DEF CountInv

\* A thread that goes to sleep looked at the line and found no carrier.
LEMMA SleeperLooked ==
    ASSUME PortType, LockInv, kernel = "call", AloneInv, NEW p \in Procs, TestSleeps(p)
    PROVE  "INITIALIZED" \in flags /\ ~doClocal[p] /\ ~dcd
  <1>1. pc[p] = "test" /\ Inside(p)
    BY DEF TestSleeps, Inside
  <1>2. "CLOSING" \notin flags
    BY <1>1, Alone DEF AloneInv, ClosingPcs, Outside
  <1> QED
    BY <1>2 DEF TestSleeps, Leaves, Ready, Gone

\* The settings, the flag and the interrupt go on agreeing on the carrier.
LEMMA CarrierStep ==
    ASSUME PortType, LockInv, CountInv, AloneInv, UpInv, CarrierInv,
           kernel = "call", present, [Next]_vars
    PROVE  CarrierInv'
  <1>0. pc \in [Procs -> Pcs] /\ doClocal \in [Procs -> BOOLEAN]
        /\ clocal \in BOOLEAN /\ normalClocal \in BOOLEAN
    BY DEF PortType
  <1>1. ASSUME NEW p \in Procs, Inside(p) \/ Outer(p) PROVE CarrierInv'
    <2>0. /\ \A q \in Procs \ {p} : pc[q] \in Outside /\ pc'[q] = pc[q]
      BY <1>1, Alone
    <2>1. "CHECK_CD" \in flags /\ ("INITIALIZED" \in flags \/ pc[p] = "init") => "MSI" \in ier
      BY DEF CarrierInv
    <2>2. ASSUME untold' \/ (clocal' <=> "CHECK_CD" \notin flags'),
                 "CHECK_CD" \in flags' /\ ("INITIALIZED" \in flags' \/ pc'[p] = "init")
                     => "MSI" \in ier',
                 pc'[p] \in WaitPcs /\ count' = 0 => (doClocal'[p] <=> clocal'),
                 pc'[p] = "asleep" => ~doClocal'[p]
          PROVE  CarrierInv'
      <3>1. \A q \in Procs : q = p \/ pc'[q] \notin {"init", "block", "test", "asleep"}
        BY <2>0 DEF Outside
      <3> QED
        BY <2>2, <3>1 DEF CarrierInv, Waiting, WaitPcs
    <2>3. CASE OpenBegin(p) \/ StartupNoMemory(p) \/ StartupAgain(p) \/ StartupEnd(p) \/ ReadyNow(p)
               \/ TestLeaves(p)
      <3>1. /\ pc'[p] \notin WaitPcs /\ pc'[p] # "init" /\ UNCHANGED <<clocal, untold, ier>>
            /\ ("CHECK_CD" \in flags' <=> "CHECK_CD" \in flags)
            /\ ("INITIALIZED" \in flags' => "INITIALIZED" \in flags \/ pc[p] = "init")
        BY <1>0, <2>3 DEF OpenBegin, StartupNoMemory, StartupAgain, StartupUntyped, StartupEnd, ReadyNow, TestLeaves,
           Step, WaitPcs, info, termios
      <3> QED
        BY <2>1, <2>2, <3>1 DEF CarrierInv, WaitPcs
    <2>4. CASE Startup(p)
      <3>1. pc'[p] = "init" /\ ier' = {"MSI", "RLSI"} /\ UNCHANGED <<clocal, untold, flags>>
        BY <1>0, <2>4 DEF Startup, Step, termios
      <3> QED
        BY <2>2, <3>1 DEF CarrierInv, WaitPcs
    <2>5. CASE ReadyWaits(p)
      <3>1. /\ pc'[p] = "block" /\ UNCHANGED <<clocal, untold, flags, ier>>
            /\ doClocal' = [doClocal EXCEPT ![p] = clocal]
        BY <1>0, <2>5 DEF ReadyWaits, Step, termios
      <3> QED
        BY <1>0, <2>1, <2>2, <3>1 DEF CarrierInv
    <2>6. CASE Block(p) \/ Wake(p) \/ TestSleeps(p)
      <3>1. /\ pc[p] \in WaitPcs /\ pc'[p] \in WaitPcs
            /\ UNCHANGED <<clocal, untold, flags, ier, doClocal, count>>
        BY <1>0, <2>6 DEF Block, Wake, TestSleeps, Step, termios, info, wait, WaitPcs
      <3>2. pc'[p] = "asleep" => ~doClocal[p]
        BY <1>0, <2>6, SleeperLooked DEF Block, Wake, Step
      <3> QED
        BY <2>1, <2>2, <3>1, <3>2 DEF CarrierInv, Waiting, WaitPcs
    <2>7. CASE OpenEnd(p)
      <3>1. pc[p] = "opened" /\ pc'[p] = "open"
        BY <1>0, <2>7 DEF OpenEnd, Step
      <3>2. infoTty /\ "INITIALIZED" \in flags
        BY <3>1 DEF UpInv, UpPcs, Up
      <3>3. CASE count = 1
        <4>1. clocal' = normalClocal /\ ChangeSpeed(normalClocal)
          BY <2>7, <3>3 DEF OpenEnd
        <4> QED
          BY <1>0, <2>2, <3>1, <3>2, <4>1 DEF ChangeSpeed, WaitPcs
      <3>4. CASE count # 1
        <4>1. UNCHANGED <<clocal, untold, flags, ier>>
          BY <2>7, <3>4 DEF OpenEnd
        <4> QED
          BY <2>1, <2>2, <3>1, <4>1 DEF CarrierInv, WaitPcs
      <3> QED
        BY <3>3, <3>4
    <2>8. CASE CloseOther(p) \/ CloseLast(p) \/ CloseDrain(p) \/ CloseClear(p) \/ CloseEnd(p)
               \/ Release(p)
      <3>1. /\ pc'[p] \in {"release", "drain", "temt", "delay", "end", "none"} /\ UNCHANGED <<clocal, untold>>
            /\ "MSI" \in ier' <=> "MSI" \in ier
            /\ "CHECK_CD" \in flags' <=> "CHECK_CD" \in flags
            /\ "INITIALIZED" \in flags' <=> "INITIALIZED" \in flags
        BY <1>0, <2>8 DEF CloseOther, CloseLast, CloseDrain, CloseClear, CloseEnd, Release, Step,
           info, termios
      <3> QED
        BY <2>1, <2>2, <3>1 DEF CarrierInv, WaitPcs
    <2>9. CASE CloseShut(p)
      <3>1. /\ pc'[p] = "clear" /\ "INITIALIZED" \notin flags' /\ UNCHANGED <<clocal, untold>>
            /\ "CHECK_CD" \in flags' <=> "CHECK_CD" \in flags
        BY <1>0, <2>9 DEF CloseShut, Shutdown, Step, termios
      <3> QED
        BY <2>2, <3>1 DEF CarrierInv, WaitPcs
    <2> QED
      BY <1>1, <2>3, <2>4, <2>5, <2>6, <2>7, <2>8, <2>9 DEF Inside, Outer, StartupAbsent, StartupUntyped
  <1>2. CASE \/ (\E p \in Procs : Signal(p) \/ Settings(p)) \/ Kernel \/ Carrier \/ TtyHangup
             \/ UNCHANGED vars
    <2>0. UNCHANGED pc
      BY <1>2, Stays
    <2>1. CASE HangupBegin \/ HangupEnd
      <3>1. \A q \in Procs : pc'[q] \in Outside
        BY <1>0, <2>0, <2>1, PortAssumption DEF HangupBegin, HangupEnd, LockInv
      <3>2. /\ UNCHANGED <<clocal, untold>> /\ "INITIALIZED" \notin flags'
            /\ "CHECK_CD" \in flags' <=> "CHECK_CD" \in flags
        BY <2>1 DEF HangupBegin, HangupEnd, Shutdown, termios, UpInv
      <3> QED
        BY <3>1, <3>2 DEF CarrierInv, Waiting, Outside
    <2>2. CASE \E p \in Procs : Settings(p)
      <3>1. PICK p \in Procs : Settings(p)
        BY <2>2
      <3>2. count' # 0 /\ infoTty /\ UNCHANGED doClocal
        BY <3>1, SetterCounts DEF Settings, SetTermios, SoftCarrier, UpInv, Up, info, wait
      <3>3. CASE SoftCarrier(p)
        <4>1. untold' /\ UNCHANGED <<flags, ier>>
          BY <3>3 DEF SoftCarrier, info
        <4> QED
          BY <1>0, <2>0, <3>2, <4>1 DEF CarrierInv
      <3>4. ASSUME NEW local \in BOOLEAN, SetTermios(p, local) PROVE CarrierInv'
        <4>1. clocal' = local /\ ChangeSpeed(local)
          BY <3>4 DEF SetTermios
        <4> QED
          BY <1>0, <2>0, <3>2, <4>1 DEF CarrierInv, ChangeSpeed
      <3> QED
        BY <3>1, <3>3, <3>4 DEF Settings
    <2>3. CASE ~HangupBegin /\ ~HangupEnd /\ ~(\E p \in Procs : Settings(p))
      <3>1. UNCHANGED <<clocal, untold, flags, ier, doClocal, count>>
        BY <1>2, <2>3 DEF Signal, Kernel, IsrEnter, IsrModem, SoftInt, Carrier,
           TtyHangup, vars, info, wait, termios
      <3> QED
        BY <2>0, <3>1 DEF CarrierInv, Waiting
    <2> QED
      BY <2>1, <2>2, <2>3
  <1> QED
    BY <1>1, <1>2, NextSplit

\* A port without a UART is never initialized, and nobody waits for its carrier.
LEMMA AbsentStep ==
    ASSUME PortType, ~present, "INITIALIZED" \notin flags,
           \A p \in Procs : pc[p] \notin {"init", "asleep"}, [Next]_vars
    PROVE  "INITIALIZED" \notin flags' /\ \A p \in Procs : pc'[p] \notin {"init", "asleep"}
  <1>0. pc \in [Procs -> Pcs]
    BY DEF PortType
  <1>1. ASSUME NEW p \in Procs, Inside(p) \/ Outer(p)
        PROVE  "INITIALIZED" \notin flags' /\ pc'[p] \notin {"init", "asleep"}
    BY <1>0, <1>1 DEF Inside, Outer, StartupNoMemory, StartupAgain, StartupUntyped, StartupAbsent, Startup,
       StartupEnd, ReadyNow, ReadyWaits, Block, TestSleeps, TestLeaves, Wake, OpenEnd,
       CloseDrain, CloseShut, CloseClear, CloseEnd, OpenBegin, CloseOther, CloseLast, Release,
       Step, info, ChangeSpeed, Shutdown, Leaves, Gone
  <1>2. CASE \E p \in Procs : Inside(p) \/ Outer(p)
    <2>1. PICK p \in Procs : Inside(p) \/ Outer(p)
      BY <1>2
    <2>2. \A q \in Procs \ {p} : pc'[q] = pc[q]
      BY <1>0, <2>1, Moves DEF Step
    <2> QED
      BY <1>1, <2>1, <2>2
  <1>3. CASE \/ (\E p \in Procs : Signal(p) \/ Settings(p)) \/ Kernel \/ Carrier \/ TtyHangup
             \/ UNCHANGED vars
    <2>1. UNCHANGED pc
      BY <1>3, Stays
    <2>2. "INITIALIZED" \notin flags'
      BY <1>3 DEF Signal, Settings, SetTermios, SoftCarrier, Kernel, IsrEnter, IsrModem, SoftInt, Carrier,
         TtyHangup, vars, info, ChangeSpeed, HangupBegin, HangupEnd, Shutdown
    <2> QED
      BY <2>1, <2>2
  <1> QED
    BY <1>2, <1>3, NextSplit

\* No step takes the wake-up away from an open that waits for carrier.
LEMMA SleeperStep == PortInv /\ [Next]_vars => NoLostCarrier'
  <1> SUFFICES ASSUME PortInv, [Next]_vars, NEW r \in Procs, kernel' = "call",
                      pc'[r] = "asleep", dcd', count' = 0, ~untold'
               PROVE  woken'[r] \/ (delta' /\ "MSI" \in ier' /\ "CHECK_CD" \in flags')
    BY DEF NoLostCarrier
  <1>0. PortType /\ LockInv /\ CountInv /\ NoLostCarrier /\ CallInv
        /\ pc \in [Procs -> Pcs] /\ woken \in [Procs -> BOOLEAN]
    BY DEF PortInv, PortType
  <1>1. kernel = "call" /\ AloneInv
    <2>1. UNCHANGED world
      BY NextSplit, Moves, Stays
    <2> QED
      BY <1>0, <2>1 DEF world, CallInv
  <1>2. CASE \E p \in Procs : Inside(p) \/ Outer(p)
    <2>1. PICK p \in Procs : Inside(p) \/ Outer(p)
      BY <1>2
    <2>2. r = p
      BY <1>0, <1>1, <2>1, Alone DEF Outside
    <2>3. TestSleeps(p)
      BY <1>0, <2>1, <2>2 DEF Inside, Outer, StartupNoMemory, StartupAgain, StartupUntyped, StartupAbsent, Startup,
         StartupEnd, ReadyNow, ReadyWaits, Block, TestSleeps, TestLeaves, Wake, OpenEnd,
         CloseDrain, CloseShut, CloseClear, CloseEnd, OpenBegin, CloseOther, CloseLast, Release, Step
    <2>4. ~dcd /\ UNCHANGED dcd
      BY <1>0, <1>1, <2>3, SleeperLooked DEF TestSleeps
    <2> QED
      BY <2>4
  <1>3. CASE \/ (\E p \in Procs : Signal(p) \/ Settings(p)) \/ Kernel \/ Carrier \/ TtyHangup
             \/ UNCHANGED vars
    <2>1. pc[r] = "asleep" /\ lock = r
      BY <1>0, <1>1, <1>3, Stays DEF LockInv, Outside
    <2>2. present /\ UpInv /\ CarrierInv
      BY <1>0, <1>1, <2>1 DEF CallInv
    <2>3. Up /\ ~doClocal[r]
      BY <2>1, <2>2 DEF UpInv, UpPcs, CarrierInv
    <2>4. ~(\E p \in Procs : Settings(p)) /\ ~HangupBegin /\ ~HangupEnd
      <3>1. ~HangupBegin /\ ~HangupEnd
        BY <2>1, PortAssumption DEF HangupBegin, HangupEnd
      <3>2. ASSUME NEW p \in Procs, Settings(p) PROVE FALSE
        BY <1>0, <3>2, SetterCounts DEF Settings, SetTermios, SoftCarrier, info
      <3> QED
        BY <3>1, <3>2
    <2>5. UNCHANGED <<count, flags, ier, untold>>
      BY <1>3, <2>4 DEF Signal, Kernel, IsrEnter, IsrModem, SoftInt, Carrier, TtyHangup, vars, info,
         termios
    <2>6. "CHECK_CD" \in flags /\ "MSI" \in ier
      BY <2>1, <2>2, <2>3, <2>5 DEF CarrierInv, Waiting, Up
    <2>7. CASE Carrier
      BY <2>5, <2>6, <2>7 DEF Carrier
    <2>8. CASE IsrModem
      <3>1. dcd /\ (woken[r] \/ delta)
        BY <1>0, <1>1, <2>1, <2>5, <2>8 DEF IsrModem, NoLostCarrier
      <3> QED
        BY <1>0, <2>6, <2>8, <3>1 DEF IsrModem, WakeOpeners
    <2>9. CASE ~Carrier /\ ~IsrModem
      <3>1. UNCHANGED <<woken, dcd, delta>>
        BY <1>3, <2>3, <2>4, <2>9 DEF Signal, Kernel, IsrEnter, SoftInt, TtyHangup, vars, wait, line, Up
      <3> QED
        BY <1>0, <1>1, <2>1, <2>5, <2>6, <3>1 DEF NoLostCarrier
    <2> QED
      BY <2>7, <2>8, <2>9
  <1> QED
    BY <1>2, <1>3, NextSplit

-----------------------------------------------------------------------------
\* The invariant holds before the first open ...
LEMMA PortInitInv == Init => PortInv
  <1> SUFFICES ASSUME Init PROVE PortInv
    OBVIOUS
  <1>1. LockInv
    BY PortAssumption DEF Init, LockInv, Outside
  <1>0. PortType
    <2>1. /\ lock \in Procs \cup {NoOne, Hangup} /\ kernel \in {"sleep", "call"}
          /\ pc \in [Procs -> Pcs]
          /\ hung \in [Procs -> BOOLEAN] /\ woken \in [Procs -> BOOLEAN]
          /\ sig \in [Procs -> BOOLEAN] /\ doClocal \in [Procs -> BOOLEAN]
          /\ count \in Int /\ blocked \in Int /\ ttyCount \in Int
      BY DEF Init, Pcs, Outside
    <2>2. clocal \in BOOLEAN /\ normalClocal \in BOOLEAN /\ untold \in BOOLEAN
      BY DEF Init
    <2> QED
      BY <2>1, <2>2 DEF PortType
  <1>2. Files = {} /\ Blocked = {} /\ Users = {} /\ Cardinality({}) = 0
    BY FS_EmptySet DEF Init, Files, Blocked, Users, Waiting, Counted
  <1>3. CountInv
    BY <1>2, PortAssumption DEF Init, CountInv
  <1>4. OrphanInv /\ NoLostCarrier
    BY DEF Init, OrphanInv, NoOrphan, NoLostCarrier
  <1>5. CallInv
    BY <1>2 DEF Init, CallInv, AloneInv, UpInv, DownInv, CarrierInv, Down, Outside, UpPcs,
       ClosingPcs, Waiting
  <1> QED
    BY <1>0, <1>1, <1>3, <1>4, <1>5 DEF PortInv

\* ... and every step keeps it.
LEMMA PortStep == PortInv /\ [Next]_vars => PortInv'
  <1> SUFFICES ASSUME PortInv, [Next]_vars PROVE PortInv'
    OBVIOUS
  <1>0. PortType /\ LockInv /\ CountInv /\ OrphanInv /\ CallInv
    BY DEF PortInv
  <1>1. PortType' /\ LockInv' /\ CountInv' /\ OrphanInv'
    BY <1>0, TypeStep, LockStep, CountStep, OrphanStep
  <1>2. UNCHANGED <<kernel, present>>
    BY NextSplit, Moves, Stays DEF world
  <1>3. ASSUME kernel = "call" PROVE AloneInv'
    BY <1>0, <1>3, AloneStep DEF CallInv
  <1>4. ASSUME kernel = "call", present PROVE UpInv' /\ DownInv' /\ CarrierInv'
    <2>1. AloneInv /\ UpInv /\ DownInv /\ CarrierInv
      BY <1>0, <1>4 DEF CallInv
    <2>2. UpInv'
      BY <1>0, <1>4, <2>1, UpStep
    <2> QED
      BY <1>0, <1>1, <1>4, <2>1, <2>2, DownStep, CarrierStep
  <1>5. ASSUME kernel = "call", ~present
        PROVE  "INITIALIZED" \notin flags' /\ \A p \in Procs : pc'[p] \notin {"init", "asleep"}
    BY <1>0, <1>5, AbsentStep DEF CallInv
  <1>6. CallInv'
    BY <1>2, <1>3, <1>4, <1>5 DEF CallInv
  <1> QED
    BY <1>1, <1>6, SleeperStep DEF PortInv

\* What the invariant says of the port and its users.
LEMMA PortInvFollows == PortInv => PortFollowsUsers
  <1> SUFFICES ASSUME PortInv, kernel = "call", present, lock # Hangup
               PROVE  /\ \A p \in Procs : pc[p] = "open" /\ ~hung[p] => Up
                      /\ lock = NoOne /\ (\A p \in Procs : ~Counted(p)) =>
                             Down /\ ~infoTty /\ blocked = 0
    BY DEF PortFollowsUsers, Up, Down
  <1>1. PortType /\ LockInv /\ CountInv /\ UpInv /\ DownInv
    BY DEF PortInv, CallInv
  <1>2. \A p \in Procs : pc[p] = "open" /\ ~hung[p] => Up
    BY <1>1 DEF UpInv
  <1>3. ASSUME lock = NoOne, \A p \in Procs : ~Counted(p)
        PROVE  Down /\ ~infoTty /\ blocked = 0
    <2>1. \A p \in Procs : pc[p] \in Outside
      BY <1>1, <1>3, PortAssumption DEF LockInv
    <2>2. Users = {} /\ Blocked = {}
      BY <1>3, <2>1 DEF Users, Blocked, Waiting, Outside
    <2>3. blocked = 0
      BY <1>1, <2>2, FS_EmptySet DEF CountInv
    <2> QED
      BY <1>1, <2>1, <2>2, <2>3 DEF DownInv, QuietPcs
  <1> QED
    BY <1>2, <1>3

\* info->count is the number of files that were not hung up and neither wait nor
\* are being closed, whatever is hung up, closed or interrupted meanwhile: for
\* any number of processes, mxser_close never has to correct it.
THEOREM CountHolds == Spec => []CountAgrees
  <1>1. PortInv => CountAgrees
    BY DEF PortInv, CountInv, CountAgrees, Users
  <1> QED
    BY <1>1, PortInitInv, PortStep, PTL DEF Spec

\* With the tty lock held for the whole call, the port is up for whoever has it
\* open and down once nobody is left, for any number of processes.
THEOREM PortFollowsHolds == Spec => []PortFollowsUsers
  BY PortInitInv, PortStep, PortInvFollows, PTL DEF Spec

\* With the tty lock held for the whole call, a thread asleep in open while the
\* carrier is there is woken or will be by a pending interrupt, if the settings
\* were applied since CLOCAL was last stored (TIOCSSOFTCAR does not apply it).
THEOREM CarrierHolds == Spec => []NoLostCarrier
  <1>1. PortInv => NoLostCarrier
    BY DEF PortInv
  <1> QED
    BY <1>1, PortInitInv, PortStep, PTL DEF Spec

\* Nobody is left asleep in open on a port that was shut down.
THEOREM OrphanHolds == Spec => []NoOrphan
  <1>1. PortInv => NoOrphan
    BY DEF PortInv, OrphanInv
  <1> QED
    BY <1>1, PortInitInv, PortStep, PTL DEF Spec

-----------------------------------------------------------------------------
(* The settings: the byte format and the break. *)

SetterPcs == {"idle", "apply", "cts", "start", "ixon", "restart"}

LinesType ==
    /\ tios \in Termios
    /\ setter \in [pc : SetterPcs, old : Termios]
    /\ LCR \in [format : Formats, sbc : BOOLEAN]
    /\ breaker \in BOOLEAN /\ lost \in BOOLEAN
    /\ rmw.tios \subseteq Termios

\* Until set_termios applies the new settings the line has the old format, or
\* already the new one if another caller of mxser_change_speed was faster; settings
\* that are not applied are the old ones.
FormatInv ==
    ~lost => IF setter.pc = "apply"
             THEN LCR.format \in {setter.old.format, tios.format}
             ELSE LCR.format = tios.format

BreakInv == LCR.sbc => breaker

LinesInv == LinesType /\ FormatInv /\ BreakInv

-----------------------------------------------------------------------------
\* A port that was just opened has the format of its settings and no break.
LEMMA LinesInitInv == LinesInit => LinesInv
<1> SUFFICES ASSUME LinesInit PROVE LinesInv
  OBVIOUS
<1>1. PICK f \in Formats :
        /\ tios = [crtscts |-> FALSE, clocal |-> TRUE, ixon |-> TRUE, format |-> f]
        /\ LCR = [format |-> f, sbc |-> FALSE]
  BY DEF LinesInit
<1>2. tios \in Termios
  BY <1>1 DEF Termios
<1>3. setter = [pc |-> "idle", old |-> tios] /\ breaker = FALSE /\ lost = FALSE
      /\ rmw = [pc |-> "idle", flags |-> {}, tios |-> {}]
  BY DEF LinesInit, NoSetter, NoRmw
<1>4. LinesType
  BY <1>1, <1>2, <1>3 DEF LinesType, SetterPcs
<1>5. FormatInv /\ BreakInv
  BY <1>1, <1>3 DEF FormatInv, BreakInv
<1> QED
  BY <1>4, <1>5 DEF LinesInv

\* mxser_change_speed leaves the format of the settings and no break bit.
LEMMA ChangeSettingsLcr ==
    ASSUME LinesType, ChangeSettings
    PROVE  /\ LCR' \in [format : Formats, sbc : BOOLEAN]
           /\ LCR'.format = tios.format /\ LCR'.sbc = FALSE
<1>1. LCR' = [format |-> tios.format, sbc |-> FALSE]
  BY DEF ChangeSettings
<1>2. tios.format \in Formats
  BY DEF LinesType, Termios
<1> QED
  BY <1>1, <1>2

-----------------------------------------------------------------------------
\* One step per group of actions: set_termios, the other callers of
\* mxser_change_speed, the break, the unlocked words, and what touches none of
\* it.
LEMMA LinesStepInv == LinesInv /\ [LinesNext]_linesVars => LinesInv'
<1> SUFFICES ASSUME LinesInv, [LinesNext]_linesVars PROVE LinesInv'
  OBVIOUS
<1> USE DEF LinesInv
<1> DEFINE Rest == UNCHANGED <<tios, LCR, breaker>>
<1>a. ASSUME Rest, setter' = setter, rmw' = rmw, lost' \in BOOLEAN, lost => lost'
      PROVE  LinesInv'
  BY <1>a DEF LinesType, FormatInv, BreakInv
<1>b. ASSUME Rest, rmw' = rmw, lost' = lost, setter.pc # "apply", setter'.pc # "apply",
             setter' \in [pc : SetterPcs, old : Termios]
      PROVE  LinesInv'
  BY <1>b DEF LinesType, FormatInv, BreakInv
<1>1. ASSUME NEW t \in Termios, StoreTermios(t) PROVE LinesInv'
  <2>1. tios' = t /\ setter' = [pc |-> "apply", old |-> tios] /\ setter.pc = "idle"
        /\ LCR' = LCR /\ breaker' = breaker /\ lost' = lost /\ rmw' = rmw
    BY <1>1 DEF StoreTermios, others
  <2> QED
    BY <2>1 DEF LinesType, FormatInv, BreakInv, SetterPcs
<1>2. CASE ApplyTermios
  <2>1. setter.pc = "apply" /\ tios' = tios /\ breaker' = breaker /\ lost' = lost /\ rmw' = rmw
    BY <1>2 DEF ApplyTermios, others
  <2>2. CASE ChangeSettings /\ setter' = [setter EXCEPT !.pc = "cts"]
    BY <2>1, <2>2, ChangeSettingsLcr DEF LinesType, FormatInv, BreakInv, SetterPcs
  <2>3. CASE tios = setter.old /\ LCR' = LCR /\ setter' = [setter EXCEPT !.pc = "ixon"]
    BY <2>1, <2>3 DEF LinesType, FormatInv, BreakInv, SetterPcs
  <2> QED
    BY <1>2, <2>2, <2>3 DEF ApplyTermios
<1>3. CASE ReleaseCts
  BY <1>3, <1>b DEF ReleaseCts, others, LinesType, SetterPcs
<1>4. CASE ReleaseIxon
  <2>1. setter' \in [pc : SetterPcs, old : Termios] /\ setter'.pc # "apply"
    BY <1>4 DEF ReleaseIxon, NoSetter, LinesType, SetterPcs
  <2> QED
    BY <1>4, <1>b, <2>1 DEF ReleaseIxon, others
<1>5. CASE StartTx("start", "ixon") \/ StartTx("restart", "idle")
  BY <1>5, <1>b DEF StartTx, NoSetter, others, LinesType, SetterPcs
<1>6. CASE StoreRate("mask", "masked") \/ StoreRate("rate", "speed")
  <2>1. PICK t \in rmw.tios :
          /\ tios' = [t EXCEPT !.ixon = tios.ixon]
          /\ lost' = (lost \/ [t EXCEPT !.ixon = tios.ixon] # tios)
    BY <1>6 DEF StoreRate
  <2>2. t \in Termios /\ tios \in Termios
    BY DEF LinesType
  <2>3. tios' \in Termios
    BY <2>1, <2>2 DEF Termios
  <2>4. ~lost' => ~lost /\ tios' = tios
    BY <2>1
  <2>5. rmw'.tios = {} /\ lost' \in BOOLEAN /\ UNCHANGED <<setter, LCR, breaker>>
    BY <1>6, <2>1 DEF StoreRate, NoRmw, LinesType
  <2>6. LinesType'
    BY <2>3, <2>5 DEF LinesType
  <2> QED
    BY <2>4, <2>5, <2>6 DEF FormatInv, BreakInv
<1>7. CASE ApplySpeed
  <2>1. rmw' = [pc |-> "idle", flags |-> {}, tios |-> {}]
    BY <1>7 DEF ApplySpeed, NoRmw
  <2>2. ChangeSettings /\ tios' = tios /\ setter' = setter /\ breaker' = breaker /\ lost' = lost
    BY <1>7 DEF ApplySpeed
  <2> QED
    BY <2>1, <2>2, ChangeSettingsLcr DEF LinesType, FormatInv, BreakInv
<1>8. CASE BreakSet
  BY <1>8 DEF BreakSet, LinesType, FormatInv, BreakInv
<1>9. CASE BreakClear
  BY <1>9 DEF BreakClear, LinesType, FormatInv, BreakInv
<1>10. CASE LoadFlags \/ LoadCflag("softcar", "idle", "cflag") \/ LoadCflag("special", "idle", "mask")
            \/ LoadCflag("special", "masked", "rate")
  <2>1. rmw'.tios \subseteq Termios
    BY <1>10 DEF LoadFlags, LoadCflag, LinesType
  <2>2. Rest /\ setter' = setter /\ lost' = lost
    BY <1>10 DEF LoadFlags, LoadCflag
  <2> QED
    BY <2>1, <2>2 DEF LinesType, FormatInv, BreakInv
<1>11. ASSUME NEW newSpeed \in BOOLEAN, StoreFlags(newSpeed) PROVE LinesInv'
  <2>1. rmw'.tios = {}
    BY <1>11 DEF StoreFlags, NoRmw
  <2>2. Rest /\ setter' = setter /\ lost' \in BOOLEAN /\ (lost => lost')
    BY <1>11 DEF StoreFlags, LinesType
  <2> QED
    BY <2>1, <2>2 DEF LinesType, FormatInv, BreakInv
<1>12. ASSUME NEW local \in BOOLEAN, StoreCflag(local) PROVE LinesInv'
  <2>1. PICK t \in rmw.tios :
          /\ tios' = [t EXCEPT !.clocal = local, !.ixon = tios.ixon]
          /\ lost' = (lost \/ [t EXCEPT !.clocal = tios.clocal, !.ixon = tios.ixon] # tios)
    BY <1>12 DEF StoreCflag
  <2>2. t \in Termios /\ tios \in Termios
    BY DEF LinesType
  <2>3. tios' \in Termios /\ tios'.format = t.format
    BY <2>1, <2>2 DEF Termios
  <2>4. ~lost' => ~lost /\ tios'.format = tios.format
    BY <2>1, <2>2, <2>3 DEF Termios
  <2>5. /\ rmw' = [pc |-> "idle", flags |-> {}, tios |-> {}] /\ lost' \in BOOLEAN
        /\ UNCHANGED <<setter, LCR, breaker>>
    BY <1>12, <2>1 DEF StoreCflag, NoRmw, LinesType
  <2>6. LinesType'
    BY <2>3, <2>5 DEF LinesType
  <2> QED
    BY <2>4, <2>5, <2>6 DEF FormatInv, BreakInv
<1>13. CASE StopChar \/ StartChar \/ TransmitInterrupt
  BY <1>13, <1>a DEF StopChar, StartChar, TransmitInterrupt, others, LinesType
<1>14. ASSUME NEW l \in Inputs, InputChanges(l) PROVE LinesInv'
  BY <1>14, <1>a DEF InputChanges, others, LinesType
<1>15. CASE ModemInterrupt \/ TiocmGet
  BY <1>15, <1>a DEF ModemInterrupt, TiocmGet, CheckModemStatus, others, LinesType
<1>16. CASE MonRead
  BY <1>16, <1>a DEF MonRead, LinesType
<1>17. CASE MonCheck
  BY <1>17, <1>a DEF MonCheck, LinesType
<1>18. CASE MonIer
  BY <1>18, <1>a DEF MonIer, LinesType
<1>19. ASSUME NEW mask \in SUBSET Inputs \ {{}}, IwaitBegin(mask) PROVE LinesInv'
  BY <1>19, <1>a DEF IwaitBegin, others, LinesType
<1>20. CASE IwaitSleep \/ IwaitWakes \/ IwaitSignal
  BY <1>20, <1>a DEF IwaitSleep, IwaitWakes, IwaitSignal, others, LinesType
<1>21. CASE UNCHANGED linesVars
  BY <1>21, <1>a DEF linesVars, others, LinesType
<1> QED
  BY <1>1, <1>2, <1>3, <1>4, <1>5, <1>6, <1>7, <1>8, <1>9, <1>10, <1>11, <1>12, <1>13,
     <1>14, <1>15, <1>16, <1>17, <1>18, <1>19, <1>20, <1>21 DEF LinesNext

\* mxser_set_termios, the break and the other callers of mxser_change_speed
\* keep the format and the break bit of LCR right, whatever their order.
THEOREM FormatCorrect == LinesSpec => []FormatKept
<1>1. LinesInv => FormatKept
  BY DEF LinesInv, FormatInv, BreakInv, FormatKept
<1> QED
  BY <1>1, LinesInitInv, LinesStepInv, PTL DEF LinesSpec

-----------------------------------------------------------------------------
(* Hardware flow control. *)

Cts == "CTS_FLOW" \in asyncFlags

FlowType ==
    /\ hwStopped \in BOOLEAN /\ stopped \in BOOLEAN /\ autoFlow \in BOOLEAN
    /\ input \in [Inputs -> BOOLEAN]
    /\ monitor.pc \in {"idle", "check", "ier"} /\ monitor.cts \in BOOLEAN
    /\ monitor.pc = "ier" => ~autoFlow

\* ASYNC_CTS_FLOW follows CRTSCTS, up to a change that is not applied yet.
FlagInv ==
    /\ (Cts <=> tios.crtscts) \/ (setter.pc = "apply" /\ (Cts <=> setter.old.crtscts))
    /\ Cts => "MSI" \in IER

\* Output that stays held while CTS is no longer looked at is about to be let go.
HeldInv ==
    hwStopped => IF Cts THEN monitor.pc = "check" \/ (input["cts"] => CtsPending)
                 ELSE setter.pc \in {"apply", "cts"} /\ setter.old.crtscts /\ ~tios.crtscts

\* MOXA_ASPP_MON that has read MSR is still to apply it.
HaltInv ==
    Cts /\ ~autoFlow /\ ~input["cts"] => hwStopped \/ CtsPending \/ monitor.pc = "check"

\* Output that may run has its interrupt, or a caller is about to enable it.
RunInv ==
    ~stopped /\ (autoFlow \/ ~hwStopped) =>
        "THRI" \in IER \/ setter.pc \in {"start", "restart"} \/ monitor.pc = "ier"

FlowInv == FlowType /\ (~lost => FlagInv /\ HeldInv /\ HaltInv /\ RunInv)

\* A port that was just opened is not held.
LEMMA FlowInit == LinesInit => FlowInv
<1> SUFFICES ASSUME LinesInit PROVE FlowInv
  OBVIOUS
<1>1. tios.crtscts = FALSE /\ tios.clocal = TRUE
  BY DEF LinesInit
<1>2. asyncFlags = {} /\ IER = {"THRI"} /\ hwStopped = FALSE /\ stopped = FALSE
      /\ autoFlow \in BOOLEAN /\ input \in [Inputs -> BOOLEAN]
      /\ monitor.pc = "idle" /\ monitor.cts = FALSE
  BY <1>1 DEF LinesInit, FlagsOf, MsiOf, NoMonitor
<1>3. FlowType
  BY <1>2 DEF FlowType
<1>4. FlagInv /\ HeldInv /\ HaltInv /\ RunInv
  BY <1>1, <1>2 DEF FlagInv, HeldInv, HaltInv, RunInv, Cts
<1> QED
  BY <1>3, <1>4 DEF FlowInv

\* mxser_change_speed, whoever calls it.
LEMMA ChangeSettingsFlow ==
    ASSUME LinesInv, FlowInv, ChangeSettings,
           UNCHANGED <<tios, input, stopped, autoFlow, monitor, lost>>,
           \/ UNCHANGED setter
           \/ setter.pc = "apply" /\ setter' = [setter EXCEPT !.pc = "cts"]
    PROVE  FlowInv'
<1>0. /\ tios.crtscts \in BOOLEAN /\ tios.clocal \in BOOLEAN /\ input["cts"] \in BOOLEAN
      /\ hwStopped \in BOOLEAN /\ autoFlow \in BOOLEAN
      /\ setter \in [pc : SetterPcs, old : Termios]
  BY DEF LinesInv, LinesType, FlowInv, FlowType, Termios, Inputs
<1>1. hwStopped' \in BOOLEAN
  BY <1>0 DEF ChangeSettings
<1>2. FlowType'
  BY <1>1 DEF FlowInv, FlowType
<1>3. /\ Cts' <=> tios.crtscts
      /\ tios.crtscts => "MSI" \in IER'
  BY <1>0 DEF ChangeSettings, Cts, FlagsOf, MsiOf
<1>4. /\ setter'.old = setter.old
      /\ setter'.pc = setter.pc \/ (setter.pc = "apply" /\ setter'.pc = "cts")
  BY <1>0
<1> SUFFICES ASSUME ~lost PROVE FlagInv' /\ HeldInv' /\ HaltInv' /\ RunInv'
  BY <1>2 DEF FlowInv
<1>5. FlagInv /\ HeldInv /\ HaltInv /\ RunInv
  BY DEF FlowInv
<1>6. FlagInv'
  BY <1>3 DEF FlagInv
<1>7. CASE tios.crtscts /\ ~autoFlow
  <2>1. hwStopped' <=> ~input["cts"]
    BY <1>0, <1>7 DEF ChangeSettings
  <2>2. HeldInv' /\ HaltInv'
    BY <1>3, <1>7, <2>1 DEF HeldInv, HaltInv
  <2>3. input["cts"] /\ hwStopped => "THRI" \in IER'
    BY <1>7 DEF ChangeSettings
  <2>4. input["cts"] /\ ~hwStopped /\ "THRI" \in IER => "THRI" \in IER'
    BY <1>7 DEF ChangeSettings
  <2>5. RunInv'
    BY <1>0, <1>4, <1>5, <1>7, <2>1, <2>3, <2>4 DEF RunInv
  <2> QED
    BY <1>6, <2>2, <2>5
<1>8. CASE ~(tios.crtscts /\ ~autoFlow)
  <2>1. hwStopped' = hwStopped /\ deltas' = deltas /\ ("THRI" \in IER' <=> "THRI" \in IER)
    BY <1>0, <1>8 DEF ChangeSettings, MsiOf
  <2>2. HeldInv'
    <3>1. CASE tios.crtscts
      BY <1>3, <1>5, <2>1, <3>1 DEF HeldInv, CtsPending, Cts, FlagInv
    <3>2. CASE ~tios.crtscts
      BY <1>3, <1>4, <1>5, <2>1, <3>2 DEF HeldInv, FlagInv
    <3> QED
      BY <1>0, <3>1, <3>2
  <2>3. HaltInv'
    BY <1>3, <1>8 DEF HaltInv
  <2>4. RunInv'
    BY <1>4, <1>5, <2>1 DEF RunInv
  <2> QED
    BY <1>6, <2>2, <2>3, <2>4
<1> QED
  BY <1>7, <1>8

\* mxser_check_modem_status with the level it was given.
LEMMA FlowLevel ==
    ASSUME FlowType, NEW level \in BOOLEAN, NEW ier0, FlowHw(level)
    PROVE  /\ hwStopped' \in BOOLEAN
           /\ Cts => (hwStopped' <=> ~level)
           /\ ~Cts => hwStopped' = hwStopped /\ FlowIer(ier0, level) = ier0
           /\ autoFlow => FlowIer(ier0, level) = ier0
           /\ "MSI" \in FlowIer(ier0, level) <=> "MSI" \in ier0
           /\ ~autoFlow /\ ~hwStopped' =>
                  ("THRI" \in FlowIer(ier0, level) <=> hwStopped \/ "THRI" \in ier0)
<1>0. hwStopped \in BOOLEAN
  BY DEF FlowType
<1>1. hwStopped' = ((hwStopped /\ ~Runs(level)) \/ Halts(level))
  BY DEF FlowHw
<1>2. Runs(level) <=> Cts /\ hwStopped /\ level
  BY DEF Runs, Cts
<1>3. Halts(level) <=> Cts /\ ~hwStopped /\ ~level
  BY DEF Halts, Cts
<1>4. hwStopped' \in BOOLEAN /\ (Cts => (hwStopped' <=> ~level)) /\ (~Cts => hwStopped' = hwStopped)
  BY <1>0, <1>1, <1>2, <1>3
<1>5. (autoFlow => FlowIer(ier0, level) = ier0) /\ (~Cts => FlowIer(ier0, level) = ier0)
  BY <1>2, <1>3 DEF FlowIer
<1>6. "MSI" \in FlowIer(ier0, level) <=> "MSI" \in ier0
  BY DEF FlowIer
<1>7. ASSUME ~autoFlow, ~hwStopped'
      PROVE  "THRI" \in FlowIer(ier0, level) <=> hwStopped \/ "THRI" \in ier0
  BY <1>0, <1>1, <1>2, <1>3, <1>7 DEF FlowIer
<1> QED
  BY <1>4, <1>5, <1>6, <1>7

\* No step leaves output held, or let go, against what CTS says.
LEMMA FlowStep == LinesInv /\ FlowInv /\ [LinesNext]_linesVars => FlowInv'
<1> SUFFICES ASSUME LinesInv, FlowInv, [LinesNext]_linesVars PROVE FlowInv'
  OBVIOUS
<1>0. /\ FlowType /\ hwStopped \in BOOLEAN /\ stopped \in BOOLEAN /\ autoFlow \in BOOLEAN
      /\ setter \in [pc : SetterPcs, old : Termios] /\ tios \in Termios
      /\ input \in [Inputs -> BOOLEAN] /\ input["cts"] \in BOOLEAN /\ lost \in BOOLEAN
  BY DEF LinesInv, LinesType, FlowInv, FlowType, Inputs
<1> DEFINE Flow == <<hwStopped, stopped, autoFlow, monitor, asyncFlags, IER, deltas, input>>
<1>a. ASSUME UNCHANGED Flow, UNCHANGED <<tios, setter>>, lost => lost' PROVE FlowInv'
  BY <1>a DEF FlowInv, FlowType, FlagInv, HeldInv, HaltInv, RunInv, CtsPending, Cts
<1>1. ASSUME NEW t \in Termios, StoreTermios(t) PROVE FlowInv'
  <2>1. tios' = t /\ setter' = [pc |-> "apply", old |-> tios] /\ setter.pc = "idle"
        /\ UNCHANGED Flow /\ lost' = lost
    BY <1>1 DEF StoreTermios, others, world2, tx, msr
  <2>2. FlowType'
    BY <1>0, <2>1 DEF FlowType
  <2>3. ASSUME ~lost PROVE FlagInv' /\ HeldInv' /\ HaltInv' /\ RunInv'
    BY <2>1, <2>3 DEF FlowInv, FlagInv, HeldInv, HaltInv, RunInv, CtsPending, Cts
  <2> QED
    BY <2>1, <2>2, <2>3 DEF FlowInv
<1>2. CASE ApplyTermios
  <2>1. setter.pc = "apply" /\ UNCHANGED <<tios, stopped, input, lost, autoFlow, monitor>>
    BY <1>2 DEF ApplyTermios, others, world2
  <2>2. CASE ChangeSettings /\ setter' = [setter EXCEPT !.pc = "cts"]
    BY <2>1, <2>2, ChangeSettingsFlow
  <2>3. CASE tios = setter.old /\ UNCHANGED Flow /\ setter' = [setter EXCEPT !.pc = "ixon"]
    <3>1. UNCHANGED Flow
      BY <2>3
    <3>2. tios.crtscts = setter.old.crtscts /\ setter'.pc = "ixon"
      BY <1>0, <2>3
    <3>3. FlowType'
      BY <1>0, <3>1 DEF FlowType
    <3>4. ASSUME ~lost PROVE FlagInv' /\ HeldInv' /\ HaltInv' /\ RunInv'
      BY <2>1, <3>1, <3>2, <3>4 DEF FlowInv, FlagInv, HeldInv, HaltInv, RunInv, CtsPending, Cts
    <3> QED
      BY <2>1, <3>3, <3>4 DEF FlowInv
  <2> QED
    BY <1>2, <2>1, <2>2, <2>3 DEF ApplyTermios
<1>3. CASE ReleaseCts
  <2>1. setter.pc = "cts"
        /\ UNCHANGED <<stopped, autoFlow, monitor, asyncFlags, IER, deltas, input, tios, lost>>
    BY <1>3 DEF ReleaseCts, others, world2, msr
  <2>2. CASE setter.old.crtscts /\ ~tios.crtscts
    <3>1. hwStopped' = FALSE /\ setter' = [setter EXCEPT !.pc = "start"]
      BY <1>3, <2>2 DEF ReleaseCts
    <3>2. setter'.pc = "start" /\ setter'.old = setter.old
      BY <1>0, <3>1
    <3>3. FlowType'
      BY <1>0, <2>1, <3>1 DEF FlowType
    <3>4. ASSUME ~lost PROVE FlagInv' /\ HeldInv' /\ HaltInv' /\ RunInv'
      BY <2>1, <2>2, <3>1, <3>2, <3>4 DEF FlowInv, FlagInv, HeldInv, HaltInv, RunInv, CtsPending, Cts
    <3> QED
      BY <2>1, <3>3, <3>4 DEF FlowInv
  <2>3. CASE ~(setter.old.crtscts /\ ~tios.crtscts)
    <3>1. hwStopped' = hwStopped /\ setter' = [setter EXCEPT !.pc = "ixon"]
      BY <1>3, <2>3 DEF ReleaseCts
    <3>2. setter'.pc = "ixon"
      BY <1>0, <3>1
    <3>3. FlowType'
      BY <1>0, <2>1, <3>1 DEF FlowType
    <3>4. ASSUME ~lost PROVE FlagInv' /\ HeldInv' /\ HaltInv' /\ RunInv'
      BY <2>1, <2>3, <3>1, <3>2, <3>4 DEF FlowInv, FlagInv, HeldInv, HaltInv, RunInv, CtsPending, Cts
    <3> QED
      BY <2>1, <3>3, <3>4 DEF FlowInv
  <2> QED
    BY <2>2, <2>3
<1>4. CASE StartTx("start", "ixon") \/ StartTx("restart", "idle") \/ StartChar
  <2>0. setter.pc \notin {"apply", "cts"} /\ setter'.pc \notin {"apply", "cts"}
    <3>1. CASE StartTx("start", "ixon")
      BY <1>0, <3>1 DEF StartTx
    <3>2. CASE StartTx("restart", "idle")
      BY <3>2 DEF StartTx, NoSetter
    <3>3. CASE StartChar
      BY <3>3 DEF StartChar
    <3> QED
      BY <1>4, <3>1, <3>2, <3>3
  <2>1. /\ UNCHANGED <<hwStopped, autoFlow, monitor, asyncFlags, deltas, input, tios, lost>>
        /\ IER' = IER \cup {"THRI"} /\ stopped' \in BOOLEAN
    BY <1>0, <1>4 DEF StartTx, StartChar, others, world2, msr
  <2>2. FlowType'
    BY <1>0, <2>1 DEF FlowType
  <2>3. ASSUME ~lost PROVE FlagInv' /\ HeldInv' /\ HaltInv' /\ RunInv'
    BY <2>0, <2>1, <2>3 DEF FlowInv, FlagInv, HeldInv, HaltInv, RunInv, CtsPending, Cts
  <2> QED
    BY <2>1, <2>2, <2>3 DEF FlowInv
<1>5. CASE ReleaseIxon
  <2>1. /\ UNCHANGED <<hwStopped, autoFlow, monitor, asyncFlags, deltas, input, tios, lost, IER>>
        /\ setter.pc = "ixon" /\ setter'.pc \in {"restart", "idle"}
        /\ (stopped' = FALSE /\ setter'.pc = "restart") \/ stopped' = stopped
    BY <1>0, <1>5 DEF ReleaseIxon, NoSetter, others, world2, msr
  <2>2. FlowType'
    BY <1>0, <2>1 DEF FlowType
  <2>3. ASSUME ~lost PROVE FlagInv' /\ HeldInv' /\ HaltInv' /\ RunInv'
    BY <2>1, <2>3 DEF FlowInv, FlagInv, HeldInv, HaltInv, RunInv, CtsPending, Cts
  <2> QED
    BY <2>1, <2>2, <2>3 DEF FlowInv
<1>6. CASE StopChar \/ TransmitInterrupt
  <2>1. /\ UNCHANGED <<hwStopped, autoFlow, monitor, asyncFlags, deltas, input, tios, lost, setter>>
        /\ IER' = IER \ {"THRI"} /\ stopped' \in BOOLEAN
        /\ stopped' \/ (hwStopped /\ ~autoFlow)
    BY <1>0, <1>6 DEF StopChar, TransmitInterrupt, others, world2, msr
  <2>2. FlowType'
    BY <1>0, <2>1 DEF FlowType
  <2>3. ASSUME ~lost PROVE FlagInv' /\ HeldInv' /\ HaltInv' /\ RunInv'
    BY <2>1, <2>3 DEF FlowInv, FlagInv, HeldInv, HaltInv, RunInv, CtsPending, Cts
  <2> QED
    BY <2>1, <2>2, <2>3 DEF FlowInv
<1>7. CASE ApplySpeed
  BY <1>7, ChangeSettingsFlow DEF ApplySpeed, world2
<1>8. ASSUME NEW l \in Inputs, InputChanges(l) PROVE FlowInv'
  <2>1. /\ UNCHANGED <<hwStopped, stopped, autoFlow, monitor, asyncFlags, IER, tios, setter, lost>>
        /\ input' = [input EXCEPT ![l] = ~@] /\ deltas' = deltas \cup {l}
    BY <1>8 DEF InputChanges, others, world2, tx
  <2>2. input' \in [Inputs -> BOOLEAN] /\ (l = "cts" \/ input'["cts"] = input["cts"])
    BY <1>0, <2>1 DEF Inputs
  <2>3. FlowType'
    BY <1>0, <2>1, <2>2 DEF FlowType
  <2>4. ASSUME ~lost PROVE FlagInv' /\ HeldInv' /\ HaltInv' /\ RunInv'
    BY <2>1, <2>2, <2>4 DEF FlowInv, FlagInv, HeldInv, HaltInv, RunInv, CtsPending, Cts
  <2> QED
    BY <2>1, <2>3, <2>4 DEF FlowInv
<1>9. CASE ModemInterrupt \/ TiocmGet
  <2>1. /\ UNCHANGED <<stopped, autoFlow, monitor, asyncFlags, tios, setter, lost, input>>
        /\ FlowHw(input["cts"]) /\ IER' = FlowIer(IER, input["cts"])
    BY <1>9 DEF ModemInterrupt, TiocmGet, CheckModemStatus, others, world2
  <2>2. /\ hwStopped' \in BOOLEAN
        /\ Cts => (hwStopped' <=> ~input["cts"])
        /\ ~Cts => hwStopped' = hwStopped /\ IER' = IER
        /\ autoFlow => IER' = IER
        /\ "MSI" \in IER' <=> "MSI" \in IER
        /\ ~autoFlow /\ ~hwStopped' => ("THRI" \in IER' <=> hwStopped \/ "THRI" \in IER)
    BY <1>0, <2>1, FlowLevel
  <2>3. FlowType'
    BY <1>0, <2>1, <2>2 DEF FlowType
  <2>4. Cts' <=> Cts
    BY <2>1 DEF Cts
  <2>5. ASSUME ~lost PROVE FlagInv' /\ HeldInv' /\ HaltInv'
    BY <2>1, <2>2, <2>4, <2>5 DEF FlowInv, FlagInv, HeldInv, HaltInv
  <2>6. ASSUME ~lost PROVE RunInv'
    BY <1>0, <2>1, <2>2, <2>6 DEF FlowInv, RunInv
  <2> QED
    BY <2>1, <2>3, <2>5, <2>6 DEF FlowInv
<1>10. CASE MonRead
  <2>1. /\ UNCHANGED <<hwStopped, stopped, autoFlow, asyncFlags, IER, tios, setter, lost, input>>
        /\ monitor.pc = "idle" /\ monitor'.pc = "check" /\ monitor'.cts = input["cts"]
    BY <1>10 DEF MonRead, NoMonitor, world2, tx
  <2>2. FlowType'
    BY <1>0, <2>1 DEF FlowType
  <2>3. ASSUME ~lost PROVE FlagInv' /\ HeldInv' /\ HaltInv' /\ RunInv'
    BY <2>1, <2>3 DEF FlowInv, FlagInv, HeldInv, HaltInv, RunInv, CtsPending, Cts
  <2> QED
    BY <2>1, <2>2, <2>3 DEF FlowInv
<1>11. CASE MonCheck
  <2>1. /\ UNCHANGED <<stopped, autoFlow, asyncFlags, IER, tios, setter, input, deltas>>
        /\ monitor.pc = "check" /\ FlowHw(monitor.cts)
        /\ lost' = (lost \/ (monitor.cts # input["cts"] /\ "cts" \notin deltas))
    BY <1>11 DEF MonCheck, world2, msr
  <2>2. IF FlowIer(IER, monitor.cts) = IER
        THEN monitor'.pc = "idle" /\ monitor'.cts = FALSE
        ELSE monitor'.pc = "ier" /\ monitor'.cts = monitor.cts
    BY <1>11 DEF MonCheck, NoMonitor
  <2>3. /\ hwStopped' \in BOOLEAN
        /\ Cts => (hwStopped' <=> ~monitor.cts)
        /\ ~Cts => hwStopped' = hwStopped /\ FlowIer(IER, monitor.cts) = IER
        /\ autoFlow => FlowIer(IER, monitor.cts) = IER
        /\ ~autoFlow /\ ~hwStopped' =>
               ("THRI" \in FlowIer(IER, monitor.cts) <=> hwStopped \/ "THRI" \in IER)
    BY <1>0, <2>1, FlowLevel DEF FlowType
  <2>4. FlowType'
    BY <1>0, <2>1, <2>2, <2>3 DEF FlowType
  <2>5. Cts' <=> Cts
    BY <2>1 DEF Cts
  <2>6. ASSUME ~lost' PROVE FlagInv' /\ HeldInv' /\ HaltInv'
    <3>1. ~lost /\ (monitor.cts = input["cts"] \/ "cts" \in deltas)
      BY <2>1, <2>6
    <3>2. FlagInv'
      BY <2>1, <2>5, <3>1 DEF FlowInv, FlagInv
    <3>3. HeldInv'
      BY <1>0, <2>1, <2>3, <2>5, <3>1 DEF FlowInv, FlagInv, HeldInv, CtsPending, Cts
    <3>4. HaltInv'
      BY <1>0, <2>1, <2>3, <2>5, <3>1 DEF FlowInv, FlagInv, HaltInv, CtsPending, Cts
    <3> QED
      BY <3>2, <3>3, <3>4
  <2>7. ASSUME ~lost' PROVE RunInv'
    BY <1>0, <2>1, <2>2, <2>3, <2>7 DEF FlowInv, RunInv
  <2> QED
    BY <2>4, <2>6, <2>7 DEF FlowInv
<1>12. CASE MonIer
  <2>1. /\ UNCHANGED <<stopped, autoFlow, asyncFlags, tios, setter, input, deltas, hwStopped>>
        /\ monitor.pc = "ier" /\ monitor'.pc = "idle" /\ monitor'.cts = FALSE
        /\ IER' = IF monitor.cts THEN monitor.ier \cup {"THRI"} ELSE monitor.ier \ {"THRI"}
        /\ lost' = (lost \/ IER # monitor.ier \/ hwStopped = monitor.cts)
    BY <1>12 DEF MonIer, NoMonitor, world2, msr
  <2>2. FlowType'
    BY <1>0, <2>1 DEF FlowType
  <2>3. ASSUME ~lost' PROVE FlagInv' /\ HeldInv' /\ HaltInv' /\ RunInv'
    <3>1. ~lost /\ IER = monitor.ier /\ hwStopped # monitor.cts
      BY <2>1, <2>3
    <3>2. "MSI" \in IER' <=> "MSI" \in IER
      BY <2>1, <3>1
    <3>3. FlagInv' /\ HeldInv' /\ HaltInv'
      BY <2>1, <3>1, <3>2 DEF FlowInv, FlagInv, HeldInv, HaltInv, CtsPending, Cts
    <3>4. RunInv'
      BY <1>0, <2>1, <3>1 DEF RunInv, FlowType
    <3> QED
      BY <3>3, <3>4
  <2> QED
    BY <2>2, <2>3 DEF FlowInv
<1>13. ASSUME NEW newSpeed \in BOOLEAN, StoreFlags(newSpeed) PROVE FlowInv'
  <2>1. /\ UNCHANGED <<hwStopped, stopped, autoFlow, monitor, IER, deltas, input, tios, setter>>
        /\ lost' = (lost \/ asyncFlags' # asyncFlags)
    BY <1>13 DEF StoreFlags, world2, tx, msr
  <2>2. FlowType'
    BY <1>0, <2>1 DEF FlowType
  <2>3. ASSUME ~lost' PROVE FlagInv' /\ HeldInv' /\ HaltInv' /\ RunInv'
    BY <2>1, <2>3 DEF FlowInv, FlagInv, HeldInv, HaltInv, RunInv, CtsPending, Cts
  <2> QED
    BY <2>2, <2>3 DEF FlowInv
<1>14. ASSUME NEW local \in BOOLEAN, StoreCflag(local) PROVE FlowInv'
  <2>1. PICK t \in rmw.tios :
          /\ tios' = [t EXCEPT !.clocal = local, !.ixon = tios.ixon]
          /\ lost' = (lost \/ [t EXCEPT !.clocal = tios.clocal, !.ixon = tios.ixon] # tios)
    BY <1>14 DEF StoreCflag
  <2>2. t \in Termios
    BY DEF LinesInv, LinesType
  <2>3. ~lost' => ~lost /\ tios'.crtscts = tios.crtscts
    BY <1>0, <2>1, <2>2 DEF Termios
  <2>4. UNCHANGED Flow /\ setter' = setter
    BY <1>14 DEF StoreCflag, world2, tx, msr
  <2>5. FlowType'
    BY <1>0, <2>4 DEF FlowType
  <2>6. ASSUME ~lost' PROVE FlagInv' /\ HeldInv' /\ HaltInv' /\ RunInv'
    BY <2>3, <2>4, <2>6 DEF FlowInv, FlagInv, HeldInv, HaltInv, RunInv, CtsPending, Cts
  <2> QED
    BY <2>5, <2>6 DEF FlowInv
<1>15. ASSUME NEW mask \in SUBSET Inputs \ {{}}, IwaitBegin(mask) PROVE FlowInv'
  BY <1>15, <1>a DEF IwaitBegin, others, world2, tx, msr
<1>16. CASE IwaitSleep \/ IwaitWakes \/ IwaitSignal \/ BreakSet \/ BreakClear \/ LoadFlags
            \/ LoadCflag("softcar", "idle", "cflag") \/ LoadCflag("special", "idle", "mask")
            \/ LoadCflag("special", "masked", "rate")
            \/ UNCHANGED linesVars
  BY <1>16, <1>a DEF IwaitSleep, IwaitWakes, IwaitSignal, BreakSet, BreakClear, LoadFlags, LoadCflag,
     linesVars, others, world2, tx, msr
<1>17. CASE StoreRate("mask", "masked") \/ StoreRate("rate", "speed")
  <2>1. UNCHANGED Flow /\ setter' = setter /\ (~lost' => ~lost /\ tios' = tios)
    BY <1>17 DEF StoreRate, world2, tx, msr
  <2>2. FlowType'
    BY <1>0, <2>1 DEF FlowType
  <2>3. ASSUME ~lost' PROVE FlagInv' /\ HeldInv' /\ HaltInv' /\ RunInv'
    BY <2>1, <2>3 DEF FlowInv, FlagInv, HeldInv, HaltInv, RunInv, CtsPending, Cts
  <2> QED
    BY <2>2, <2>3 DEF FlowInv
<1> QED
  BY <1>1, <1>2, <1>3, <1>4, <1>5, <1>6, <1>7, <1>8, <1>9, <1>10, <1>11, <1>12, <1>13,
     <1>14, <1>15, <1>16, <1>17 DEF LinesNext

\* Output that hardware flow control holds back is output it should hold back,
\* and output that nothing holds back has its interrupt enabled, whatever
\* mxser_set_termios, the interrupt handler, MOXA_ASPP_MON and the other ioctls
\* do meanwhile.
THEOREM FlowCorrect == LinesSpec => []FlowFollowsCts
<1>1. LinesInv /\ FlowInv => FlowFollowsCts
  BY DEF LinesInv, LinesType, FlowInv, FlowType, FlagInv, HeldInv, HaltInv, RunInv, Cts,
     FlowFollowsCts, Termios
<1> QED
  BY <1>1, LinesInitInv, LinesStepInv, FlowInit, FlowStep, PTL DEF LinesSpec

=============================================================================
