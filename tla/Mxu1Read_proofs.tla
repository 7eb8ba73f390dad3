--------------------------- MODULE Mxu1Read_proofs ---------------------------
(***************************************************************************)
(* The parts of an mxu11x0 port that share no state: the read URB of       *)
(* Mxu1Read, for any number of threads that call mxu1_restart_read; the    *)
(* TIOCMIWAIT ioctl of Mxu1Msr, for any lines and any number of waiting    *)
(* threads; the modem control of Mxu1Modem.                                *)
(***************************************************************************)
EXTENDS Mxu1Read, Mxu1Msr, Mxu1Modem, TLAPS

\* mxu1_open and mxu1_close keep mxp_is_open and mxd_open_port_count in step
\* with where they stand, and only an open port has threads in
\* mxu1_restart_read.
OpenInv ==
    /\ isOpen <=> ctl = "open"
    /\ count = IF ctl \in {"open", "drain", "killRead"} THEN 1 ELSE 0
    /\ ctl # "open" => \A r \in Restarters : ~Submitting(r)

\* Before the read URB is submitted by mxu1_open, and once mxu1_close has
\* killed it, nobody has it; the interrupt URB is with nobody while the port
\* is closed.
QuietInv ==
    /\ ctl \in {"closed", "openCmds", "openRead", "unwind", "killInt"} =>
           ~ractive /\ rpc = "idle"
    /\ ctl = "closed" => ~iactive /\ ipc = "idle"

\* RunningReads, already true before mxu1_open marks the port open.
ReadingInv ==
    ctl \in {"openMark", "open"} /\ rstate # "STOPPED" /\ ~readDied =>
        ractive \/ rpc # "idle" \/ \E r \in Restarters : Submitting(r)

IInv == TypeOK /\ OpenInv /\ QuietInv /\ ReadUrbSingle /\ ReadingInv

-----------------------------------------------------------------------------
\* A port that was never opened: zeroed by kzalloc, no URB submitted.
LEMMA InitInv == Init => IInv
<1> SUFFICES ASSUME Init PROVE IInv
  OBVIOUS
<1>1. TypeOK
  <2>1. /\ isOpen \in BOOLEAN /\ connected \in BOOLEAN /\ ractive \in BOOLEAN
        /\ rreject \in BOOLEAN /\ iactive \in BOOLEAN /\ ireject \in BOOLEAN
        /\ urbErr \in BOOLEAN /\ readDied \in BOOLEAN
    BY Zenon DEF Init
  <2>2. /\ ctl \in CtlPcs /\ count \in 0 .. 1
        /\ rstate = "RUNNING" /\ rstatus \in ReadStatus /\ rpc = "idle"
        /\ ipc = "idle" /\ tpc = [r \in Restarters |-> "idle"]
    BY DEF Init, CtlPcs, ReadStatus
  <2> QED
    BY <2>1, <2>2 DEF TypeOK
<1>2. OpenInv /\ QuietInv
  BY DEF Init, OpenInv, QuietInv, Submitting
<1>3. ReadUrbSingle /\ ReadingInv
  BY DEF Init, ReadUrbSingle, ReadingInv, Submitting
<1> QED
  BY <1>1, <1>2, <1>3 DEF IInv

\* The steps of mxu1_open preserve the invariant: when the read URB is
\* submitted nobody else has it.
LEMMA OpenInvStep == IInv /\ OpenStep => IInv'
<1> SUFFICES ASSUME IInv, OpenStep PROVE IInv'
  OBVIOUS
<1> USE DEF IInv, TypeOK, OpenInv, QuietInv, ReadUrbSingle, ReadingInv,
            Submitting, CtlPcs, readVars, intVars
<1>1. ASSUME NEW ok \in BOOLEAN, OpenInt(ok) PROVE IInv'
  BY <1>1 DEF OpenInt
<1>2. ASSUME NEW ok \in BOOLEAN, OpenCmds(ok) PROVE IInv'
  BY <1>2 DEF OpenCmds
<1>3. ASSUME NEW ok \in BOOLEAN, OpenRead(ok) PROVE IInv'
  <2>1. TypeOK'
    BY <1>3 DEF OpenRead, ReadStatus
  <2>2. OpenInv' /\ QuietInv'
    BY <1>3 DEF OpenRead
  <2>3. ReadUrbSingle'
    BY <1>3 DEF OpenRead
  <2>4. ReadingInv'
    BY <1>3 DEF OpenRead
  <2> QED
    BY <2>1, <2>2, <2>3, <2>4
<1>4. CASE OpenMark
  BY <1>4 DEF OpenMark
<1>5. CASE OpenUnwind
  BY <1>5 DEF OpenUnwind
<1> QED
  BY <1>1, <1>2, <1>3, <1>4, <1>5 DEF OpenStep

\* The steps of mxu1_close preserve it: no thread is left in
\* mxu1_restart_read, and a killed URB is back before the port is closed.
LEMMA CloseInvStep == IInv /\ CloseStep => IInv'
<1> SUFFICES ASSUME IInv, CloseStep PROVE IInv'
  OBVIOUS
<1> USE DEF IInv, TypeOK, OpenInv, QuietInv, ReadUrbSingle, ReadingInv,
            Submitting, CtlPcs, readVars, intVars
<1>1. CASE CloseBegin
  BY <1>1 DEF CloseBegin
<1>2. CASE CloseKillRead
  BY <1>2 DEF CloseKillRead
<1>3. CASE CloseReadKilled
  <2>1. TypeOK'
    <3>1. count' = 0 /\ ctl' \in {"killInt", "closed"} /\ rstate' = "STOPPED"
      BY <1>3 DEF CloseReadKilled
    <3>2. rreject' \in BOOLEAN /\ ireject' \in BOOLEAN
      BY <1>3 DEF CloseReadKilled
    <3>3. UNCHANGED <<isOpen, connected, ractive, rstatus, rpc, iactive, ipc,
                      tpc, urbErr, readDied>>
      BY <1>3 DEF CloseReadKilled
    <3> QED
      BY <3>1, <3>2, <3>3
  <2>2. OpenInv' /\ QuietInv'
    BY <1>3 DEF CloseReadKilled
  <2>3. ReadUrbSingle'
    BY <1>3 DEF CloseReadKilled
  <2>4. ReadingInv'
    BY <1>3 DEF CloseReadKilled
  <2> QED
    BY <2>1, <2>2, <2>3, <2>4
<1>4. CASE IntKilled
  BY <1>4 DEF IntKilled
<1> QED
  BY <1>1, <1>2, <1>3, <1>4 DEF CloseStep

\* The completion and the callback of the read URB preserve it: a callback
\* that finds RUNNING submits the URB itself, and one that finds STOPPING
\* hands it to the next restart.
LEMMA ReadInvStep == IInv /\ ReadStep => IInv'
<1> SUFFICES ASSUME IInv, ReadStep PROVE IInv'
  OBVIOUS
<1> USE DEF IInv, TypeOK, OpenInv, QuietInv, ReadUrbSingle, ReadingInv,
            Submitting, CtlPcs, readVars, intVars
<1>1. ASSUME NEW status \in ReadStatus, ReadComplete(status) PROVE IInv'
  <2>1. TypeOK'
    <3>1. ractive' \in BOOLEAN /\ rstatus' \in ReadStatus /\ rpc' = "status"
      BY <1>1 DEF ReadComplete
    <3>2. UNCHANGED <<ctl, isOpen, count, connected, rstate, rreject, iactive,
                      ipc, ireject, tpc, urbErr, readDied>>
      BY <1>1 DEF ReadComplete
    <3> QED
      BY <3>1, <3>2
  <2>2. OpenInv' /\ QuietInv'
    BY <1>1 DEF ReadComplete
  <2>3. ReadUrbSingle'
    BY <1>1 DEF ReadComplete
  <2>4. ReadingInv'
    BY <1>1 DEF ReadComplete
  <2> QED
    BY <2>1, <2>2, <2>3, <2>4
<1>2. CASE ReadCallback
  <2>1. TypeOK'
    BY <1>2 DEF ReadCallback, ReadStatus
  <2>2. OpenInv' /\ QuietInv'
    BY <1>2 DEF ReadCallback
  <2>3. ReadUrbSingle'
    BY <1>2 DEF ReadCallback
  <2>4. ReadingInv'
    <3>1. rpc' # "idle" \/ readDied'
      BY <1>2 DEF ReadCallback, ReadStatus
    <3> QED
      BY <3>1
  <2> QED
    BY <2>1, <2>2, <2>3, <2>4
<1>3. ASSUME NEW ok \in BOOLEAN, ReadExit(ok) PROVE IInv'
  <2>1. TypeOK'
    <3>1. ractive' \in BOOLEAN /\ readDied' \in BOOLEAN
      BY <1>3 DEF ReadExit
    <3>2. rstate' \in {"RUNNING", "STOPPING", "STOPPED"} /\ rpc' = "idle"
      BY <1>3 DEF ReadExit
    <3>3. UNCHANGED <<ctl, isOpen, count, connected, rstatus, rreject, iactive,
                      ipc, ireject, tpc, urbErr>>
      BY <1>3 DEF ReadExit
    <3> QED
      BY <3>1, <3>2, <3>3
  <2>2. OpenInv' /\ QuietInv'
    BY <1>3 DEF ReadExit
  <2>3. ReadUrbSingle'
    BY <1>3 DEF ReadExit
  <2>4. ReadingInv'
    BY <1>3 DEF ReadExit
  <2> QED
    BY <2>1, <2>2, <2>3, <2>4
<1> QED
  BY <1>1, <1>2, <1>3 DEF ReadStep

\* The interrupt URB does not touch the read URB, and a closed port has none
\* that could complete.
LEMMA IntInvStep == IInv /\ IntStep => IInv'
<1> SUFFICES ASSUME IInv, IntStep PROVE IInv'
  OBVIOUS
<1> USE DEF IInv, TypeOK, OpenInv, QuietInv, ReadUrbSingle, ReadingInv,
            Submitting, CtlPcs, readVars, intVars
<1>1. ASSUME NEW status \in {"ok", "error", "shutdown"}, IntComplete(status)
      PROVE  IInv'
  <2>1. iactive' \in BOOLEAN /\ ipc' = status /\ ctl # "closed"
    BY <1>1 DEF IntComplete
  <2>2. UNCHANGED <<ctl, isOpen, count, connected, rstate, ractive, rstatus,
                    rpc, rreject, ireject, tpc, urbErr, readDied>>
    BY <1>1 DEF IntComplete
  <2> QED
    BY <2>1, <2>2
<1>2. ASSUME NEW ok \in BOOLEAN, IntCallback(ok) PROVE IInv'
  <2>1. TypeOK'
    BY <1>2 DEF IntCallback, ReadStatus
  <2>2. OpenInv' /\ QuietInv'
    BY <1>2 DEF IntCallback
  <2>3. ReadUrbSingle'
    BY <1>2 DEF IntCallback
  <2>4. ReadingInv'
    BY <1>2 DEF IntCallback
  <2> QED
    BY <2>1, <2>2, <2>3, <2>4
<1> QED
  BY <1>1, <1>2 DEF IntStep

\* mxu1_restart_read preserves it: the thread that turns STOPPED into RUNNING
\* under the lock is the only one to submit.
LEMMA RestartInvStep ==
    ASSUME NEW r \in Restarters, IInv, RestartStep(r) PROVE IInv'
<1> USE DEF IInv, TypeOK, OpenInv, QuietInv, ReadUrbSingle, ReadingInv,
            Submitting, CtlPcs, readVars, intVars
<1>1. CASE RestartRead(r)
  BY <1>1 DEF RestartRead
<1>2. ASSUME NEW ok \in BOOLEAN, RestartSubmit(r, ok) PROVE IInv'
  BY <1>2 DEF RestartSubmit
<1> QED
  BY <1>1, <1>2 DEF RestartStep

\* Every step preserves the invariant.
LEMMA StepInv == IInv /\ [Next]_vars => IInv'
<1> SUFFICES ASSUME IInv, [Next]_vars PROVE IInv'
  OBVIOUS
<1>1. CASE StopRead
  BY <1>1 DEF StopRead, IInv, TypeOK, OpenInv, QuietInv, ReadUrbSingle,
              ReadingInv, Submitting, intVars
<1>2. CASE Disconnect
  <2>1. connected' \in BOOLEAN
    BY <1>2 DEF Disconnect
  <2>2. UNCHANGED <<ctl, isOpen, count, rstate, ractive, rstatus, rpc, rreject,
                    iactive, ipc, ireject, tpc, urbErr, readDied>>
    BY <1>2 DEF Disconnect, readVars, intVars
  <2> QED
    BY <2>1, <2>2 DEF IInv, TypeOK, OpenInv, QuietInv, ReadUrbSingle,
                      ReadingInv, Submitting
<1>3. CASE UNCHANGED vars
  BY <1>3 DEF vars, IInv, TypeOK, OpenInv, QuietInv, ReadUrbSingle,
              ReadingInv, Submitting, readVars, intVars
<1> QED
  BY <1>1, <1>2, <1>3, OpenInvStep, CloseInvStep, ReadInvStep, IntInvStep,
     RestartInvStep DEF Next

-----------------------------------------------------------------------------
\* The inductive invariant holds in every reachable state.
LEMMA InvCorrect == Spec => []IInv
<1>1. Init => IInv
  BY InitInv
<1>2. IInv /\ [Next]_vars => IInv'
  BY StepInv
<1> QED
  BY <1>1, <1>2, PTL DEF Spec

\* The read URB never has two users, whatever the number of threads in
\* mxu1_unthrottle and mxu1_set_termios and however they interleave with
\* mxu1_bulk_in_callback, open, close and unplugging; and STOPPED means that
\* it has none.
THEOREM ReadUrbCorrect == Spec => []ReadUrbSingle
<1>1. IInv => ReadUrbSingle
  BY DEF IInv
<1> QED
  BY <1>1, InvCorrect, PTL

\* An open port whose reads have not failed is reading unless it was stopped.
THEOREM ReadingCorrect == Spec => []RunningReads
<1>1. IInv => RunningReads
  BY DEF IInv, ReadingInv, RunningReads
<1> QED
  BY <1>1, InvCorrect, PTL

\* A closed port has no URB outstanding, after mxu1_close and after every
\* failure of mxu1_open alike.
THEOREM ClosedCorrect == Spec => []ClosedIsQuiet
<1>1. IInv => ClosedIsQuiet
  BY DEF IInv, OpenInv, QuietInv, ClosedIsQuiet
<1> QED
  BY <1>1, InvCorrect, PTL

-----------------------------------------------------------------------------
(* TIOCMIWAIT. *)

Counters == [Lines -> Int]

MsrType ==
    /\ icount \in Counters /\ cprev \in [Waiters -> Counters] /\ start \in [Waiters -> Counters]
    /\ wpc \in [Waiters -> {"idle", "copied", "waiting"}]
    /\ mask \in [Waiters -> SUBSET Lines]
    /\ result \in [Waiters -> {"none", "ok", "EIO", "ERESTARTSYS"}]

\* Between the copy of the counters and the flag the copy is the one the ioctl
\* started with.
CopiedInv == \A x \in Waiters : wpc[x] = "copied" => cprev[x] = start[x]

MsrInv == MsrType /\ CopiedInv /\ NoChangeMissed

\* What one step leaves alone: every other waiter.
LEMMA MsrOthers ==
    ASSUME MsrInv, NEW x \in Waiters,
           \A y \in Waiters \ {x} :
               /\ wpc'[y] = wpc[y] /\ mask'[y] = mask[y] /\ cprev'[y] = cprev[y]
               /\ start'[y] = start[y] /\ result'[y] = result[y],
           MsrType',
           wpc'[x] = "copied" => cprev'[x] = start'[x],
           wpc'[x] = "waiting" \/ result'[x] = "EIO" =>
               \A l \in mask'[x] : start'[x][l] = cprev'[x][l]
    PROVE  MsrInv'
  <1>1. CopiedInv'
    BY DEF MsrInv, CopiedInv
  <1>2. ASSUME NEW y \in Waiters, (wpc[y] = "waiting" \/ result[y] = "EIO")'
        PROVE  (Changed(start[y], cprev[y]) \cap mask[y])' = {}
    <2>1. CASE y = x
      BY <1>2, <2>1 DEF Changed
    <2>2. CASE y # x
      BY <1>2, <2>2 DEF Changed, MsrInv, NoChangeMissed
    <2> QED
      BY <2>1, <2>2
  <1> QED
    BY <1>1, <1>2 DEF MsrInv, NoChangeMissed

\* Each step of the handler or of a waiter.
LEMMA MsrStep == MsrInv /\ [MsrNext]_msrVars => MsrInv'
  <1> SUFFICES ASSUME MsrInv, [MsrNext]_msrVars PROVE MsrInv'
    OBVIOUS
  <1>0. MsrType /\ CopiedInv /\ NoChangeMissed
    BY DEF MsrInv
  <1>1. CASE UNCHANGED msrVars
    BY <1>0, <1>1 DEF msrVars, MsrInv, MsrType, CopiedInv, NoChangeMissed, Changed
  <1>2. CASE \E delta \in SUBSET Lines : HandleNewMsr(delta)
    <2>1. /\ UNCHANGED <<wpc, mask, cprev, start, result>>
          /\ icount' \in Counters
      BY <1>0, <1>2 DEF HandleNewMsr, MsrType, Counters
    <2> QED
      BY <1>0, <2>1 DEF MsrInv, MsrType, CopiedInv, NoChangeMissed, Changed
  <1>3. ASSUME NEW x \in Waiters,
               (\E lines \in (SUBSET Lines) \ {{}} : IwaitCopy(x, lines)) \/ IwaitSignal(x)
                   \/ IwaitArm(x) \/ \E timeout \in BOOLEAN : IwaitWake(x, timeout)
        PROVE  MsrInv'
    <2>1. CASE \E lines \in (SUBSET Lines) \ {{}} : IwaitCopy(x, lines)
      <3>1. MsrType'
        BY <1>0, <2>1 DEF IwaitCopy, MsrType
      <3> QED
        BY <1>0, <2>1, <3>1, MsrOthers DEF IwaitCopy, MsrType
    <2>2. CASE IwaitSignal(x)
      <3>1. MsrType'
        BY <1>0, <2>2 DEF IwaitSignal, MsrType
      <3> QED
        BY <1>0, <2>2, <3>1, MsrOthers DEF IwaitSignal, MsrType
    <2>3. CASE IwaitArm(x)
      <3>1. MsrType'
        BY <1>0, <2>3 DEF IwaitArm, MsrType
      <3> QED
        BY <1>0, <2>3, <3>1, MsrOthers DEF IwaitArm, MsrType, CopiedInv
    <2>4. CASE \E timeout \in BOOLEAN : IwaitWake(x, timeout)
      <3>1. /\ wpc[x] = "waiting"
            /\ result' = [result EXCEPT ![x] =
                             IF Changed(cprev[x], icount) = {} THEN "EIO"
                             ELSE IF Changed(cprev[x], icount) \cap mask[x] # {} THEN "ok" ELSE "none"]
            /\ wpc' = [wpc EXCEPT ![x] =
                          IF Changed(cprev[x], icount) # {} /\ Changed(cprev[x], icount) \cap mask[x] = {}
                          THEN "waiting" ELSE "idle"]
            /\ cprev' = [cprev EXCEPT ![x] = icount]
            /\ UNCHANGED <<icount, mask, start>>
        BY <2>4 DEF IwaitWake
      <3>2. MsrType'
        BY <1>0, <3>1 DEF MsrType
      <3>3. \A l \in mask[x] : start[x][l] = cprev[x][l]
        BY <1>0, <3>1 DEF NoChangeMissed, Changed, MsrType
      <3>4. wpc'[x] = "waiting" \/ result'[x] = "EIO" =>
               \A l \in mask'[x] : start'[x][l] = cprev'[x][l]
        BY <1>0, <3>1, <3>3 DEF Changed, MsrType
      <3> QED
        BY <1>0, <3>1, <3>2, <3>4, MsrOthers DEF MsrType
    <2> QED
      BY <1>3, <2>1, <2>2, <2>3, <2>4
  <1> QED
    BY <1>1, <1>2, <1>3 DEF MsrNext, WaiterStep

\* A waiter compares with the counters it copied before it raised the flag, so
\* however the threads share that flag, no change of a line it asked about is
\* passed over: for any lines, any number of threads and of changes.
THEOREM NoChangeMissedHolds == MsrSpec => []NoChangeMissed
  <1>1. MsrInit => MsrInv
    BY DEF MsrInit, MsrInv, MsrType, CopiedInv, NoChangeMissed, Changed, Counters
  <1>2. MsrInv => NoChangeMissed
    BY DEF MsrInv
  <1> QED
    BY <1>1, <1>2, MsrStep, PTL DEF MsrSpec

-----------------------------------------------------------------------------
(* Modem control. *)

ModemType ==
    /\ pc \in [Threads -> {"idle", "config", "send", "mcr", "shadow"}]
    /\ mcr \in [Threads -> SUBSET Bits] /\ shadow \in SUBSET Bits
    /\ DOMAIN config = Threads

\* The copy a thread is about to send is what is recorded.
CopyInv ==
    \A t \in Threads :
        pc[t] = "send" => config[t].mode = uartMode /\ config[t].brk = sendBreak

\* A setting that is recorded and not sent has a thread that is about to send
\* it; an adapter that was not configured yet is not open.
SentInv ==
    ~failed => \/ opened = "closed" /\ devMode = "none"
               \/ \E t \in Threads : pc[t] \in {"config", "send"}
               \/ devMode = uartMode /\ devBreak = sendBreak

SettingsInv == CopyInv /\ SentInv

\* The lines of an adapter in use differ from the shadow only while a thread
\* has more to write: the value it is about to record is the one it wrote.
LinesInv ==
    ~failed =>
        /\ opened # "closed" /\ (\A t \in Threads : pc[t] = "idle") => devMcr = shadow
        /\ \A t \in Threads : pc[t] = "shadow" => devMcr = mcr[t]

ModemInv == ModemType /\ SettingsInv /\ LinesInv

\* One request at a time: nothing moves a setting, the shadow or the register
\* between a thread's reads of them and its last write.
OneThread == \A t, u \in Threads : t = u

\* The types, for any number of threads.
LEMMA ModemTypeStep == ASSUME ModemType, [ModemNext]_modemVars PROVE ModemType'
  <1>1. CASE UNCHANGED modemVars
    BY <1>1 DEF modemVars, settings, locals, ModemType
  <1>2. CASE (\E ok \in BOOLEAN : Opened(ok)) \/ Close
    BY <1>2 DEF Opened, Close, locals, ModemType
  <1>3. ASSUME NEW t \in Threads, Request(t) PROVE ModemType'
    <2>1. CASE \E set, clear \in SUBSET Bits : TiocmSet(t, set, clear)
      <3>1. PICK set \in SUBSET Bits, clear \in SUBSET Bits : TiocmSet(t, set, clear)
        BY <2>1
      <3> QED
        BY <3>1 DEF TiocmSet, Goto, settings, ModemType
    <2>2. CASE Open(t) \/ OpenRefused(t)
      BY <2>2 DEF Open, OpenRefused, Goto, locals, ModemType, Bits
    <2>3. CASE \/ \E on \in BOOLEAN : SetTermios(t, on) \/ Break(t, on)
               \/ \E i \in Interfaces : SetInterface(t, i) \/ SetSerialInfo(t, i)
      BY <2>3 DEF SetTermios, Break, SetInterface, SetSerialInfo, Goto, locals, ModemType
    <2> QED
      BY <1>3, <2>1, <2>2, <2>3 DEF Request
  <1>4. ASSUME NEW t \in Threads, Progress(t) PROVE ModemType'
    <2>1. CASE \E ok \in BOOLEAN : Fill(t, ok)
      BY <2>1 DEF Fill, Goto, settings, ModemType
    <2>2. CASE \E ok \in BOOLEAN : Config(t, ok)
      <3>1. PICK ok \in BOOLEAN : Config(t, ok)
        BY <2>2
      <3>2. (IF config[t].b0 THEN shadow \ {"RTS", "DTR"}
             ELSE IF setB0 THEN shadow \cup {"DTR"} ELSE shadow) \in SUBSET Bits
        BY DEF ModemType, Bits
      <3> QED
        BY <3>1, <3>2 DEF Config, Goto, ModemType
    <2>3. CASE \E ok \in BOOLEAN : McrWrite(t, ok)
      BY <2>3 DEF McrWrite, Return, Goto, settings, ModemType
    <2>4. CASE McrShadow(t)
      BY <2>4 DEF McrShadow, Return, Goto, ModemType
    <2> QED
      BY <1>4, <2>1, <2>2, <2>3, <2>4 DEF Progress
  <1> QED
    BY <1>1, <1>2, <1>3, <1>4 DEF ModemNext

\* The mode and the break, for one thread.
LEMMA SettingsStep ==
    ASSUME OneThread, ModemType, SettingsInv, [ModemNext]_modemVars
    PROVE  SettingsInv'
  <1> USE DEF SettingsInv, CopyInv, SentInv
  <1>1. CASE UNCHANGED modemVars
    BY <1>1 DEF modemVars, settings, device, locals
  <1>2. CASE (\E ok \in BOOLEAN : Opened(ok)) \/ Close
    BY <1>2 DEF Opened, Close, device, locals
  <1>3. ASSUME NEW t \in Threads, Request(t) PROVE SettingsInv'
    <2>1. ASSUME pc' = [pc EXCEPT ![t] = "config"] PROVE SettingsInv'
      <3>1. \A u \in Threads : pc'[u] = "config"
        BY <2>1 DEF OneThread, ModemType
      <3> QED
        BY <3>1
    <2>2. CASE \E set, clear \in SUBSET Bits : TiocmSet(t, set, clear)
      <3>1. /\ opened = "open" /\ pc[t] = "idle" /\ pc' = [pc EXCEPT ![t] = "mcr"]
            /\ UNCHANGED <<opened, devMode, devBreak, uartMode, sendBreak, failed>>
        BY <2>2 DEF TiocmSet, Goto, settings, device
      <3>2. \A u \in Threads : pc[u] = "idle" /\ pc'[u] = "mcr"
        BY <3>1 DEF OneThread, ModemType
      <3> QED
        BY <3>1, <3>2
    <2>3. CASE OpenRefused(t)
      BY <2>3 DEF OpenRefused, device, locals
    <2> QED
      BY <1>3, <2>1, <2>2, <2>3
         DEF Request, Open, SetTermios, Break, SetInterface, SetSerialInfo, Goto
  <1>4. ASSUME NEW t \in Threads, Progress(t) PROVE SettingsInv'
    <2>1. CASE \E ok \in BOOLEAN : Fill(t, ok)
      <3>1. \/ failed' /\ pc' = [pc EXCEPT ![t] = "idle"]
            \/ /\ pc' = [pc EXCEPT ![t] = "send"]
               /\ config' = [config EXCEPT ![t] =
                               [mode |-> uartMode, brk |-> sendBreak, b0 |-> b0]]
               /\ UNCHANGED <<uartMode, sendBreak>>
        BY <2>1 DEF Fill, Goto, settings
      <3> QED
        BY <3>1 DEF OneThread, ModemType
    <2>2. CASE \E ok \in BOOLEAN : Config(t, ok)
      <3>1. /\ pc[t] = "send" /\ pc' = [pc EXCEPT ![t] = "mcr"] /\ UNCHANGED <<uartMode, sendBreak>>
            /\ failed' \/ (devMode' = config[t].mode /\ devBreak' = config[t].brk)
        BY <2>2 DEF Config, Goto
      <3>2. \A u \in Threads : pc'[u] = "mcr"
        BY <3>1 DEF OneThread, ModemType
      <3> QED
        BY <3>1, <3>2
    <2>3. CASE (\E ok \in BOOLEAN : McrWrite(t, ok)) \/ McrShadow(t)
      <3>1. /\ pc[t] \in {"mcr", "shadow"}
            /\ pc' = [pc EXCEPT ![t] = "shadow"] \/ pc' = [pc EXCEPT ![t] = "idle"]
            /\ UNCHANGED <<opened, devMode, devBreak, uartMode, sendBreak>>
            /\ (failed' = failed) \/ failed'
        BY <2>3 DEF McrWrite, McrShadow, Return, Goto, settings, device
      <3>2. \A u \in Threads : pc[u] \in {"mcr", "shadow"} /\ pc'[u] \in {"shadow", "idle"}
        BY <3>1 DEF OneThread, ModemType
      <3> QED
        BY <3>1, <3>2
    <2> QED
      BY <1>4, <2>1, <2>2, <2>3 DEF Progress
  <1> QED
    BY <1>1, <1>2, <1>3, <1>4 DEF ModemNext

\* The modem control register, for one thread.
LEMMA LinesStep ==
    ASSUME OneThread, ModemType, LinesInv, [ModemNext]_modemVars
    PROVE  LinesInv'
  <1>1. CASE UNCHANGED modemVars
    BY <1>1 DEF modemVars, settings, device, locals, LinesInv
  <1>2. CASE (\E ok \in BOOLEAN : Opened(ok)) \/ Close
    BY <1>2 DEF Opened, Close, device, locals, LinesInv
  <1>3. ASSUME NEW t \in Threads,
               \E l \in {"config", "send", "mcr"} : pc' = [pc EXCEPT ![t] = l]
        PROVE  LinesInv'
    <2>1. \A u \in Threads : pc'[u] \in {"config", "send", "mcr"}
      BY <1>3 DEF OneThread, ModemType
    <2> QED
      BY <2>1 DEF LinesInv
  <1>4. ASSUME NEW t \in Threads, OpenRefused(t) PROVE LinesInv'
    BY <1>4 DEF OpenRefused, device, locals, LinesInv
  <1>5. ASSUME NEW t \in Threads,
               \/ Request(t) /\ ~OpenRefused(t)
               \/ \E ok \in BOOLEAN : Fill(t, ok) \/ Config(t, ok)
        PROVE  LinesInv'
    <2>1. failed' \/ \E l \in {"config", "send", "mcr"} : pc' = [pc EXCEPT ![t] = l]
      BY <1>5 DEF Request, Open, SetTermios, Break, SetInterface, SetSerialInfo, TiocmSet,
         Fill, Config, Goto
    <2>2. CASE failed'
      BY <2>2 DEF LinesInv
    <2> QED
      BY <1>3, <2>1, <2>2
  <1>6. ASSUME NEW t \in Threads, \E ok \in BOOLEAN : McrWrite(t, ok)
        PROVE  LinesInv'
    <2>1. failed' \/ (devMcr' = mcr[t] /\ pc' = [pc EXCEPT ![t] = "shadow"] /\ UNCHANGED <<mcr, failed>>)
      BY <1>6 DEF McrWrite, Goto
    <2> QED
      BY <2>1 DEF LinesInv, OneThread, ModemType
  <1>7. ASSUME NEW t \in Threads, McrShadow(t) PROVE LinesInv'
    <2>1. /\ pc[t] = "shadow" /\ shadow' = mcr[t] /\ pc' = [pc EXCEPT ![t] = "idle"]
          /\ UNCHANGED <<devMcr, failed>>
      BY <1>7 DEF McrShadow, Return, Goto, device
    <2>2. ~failed => devMcr = mcr[t]
      BY <2>1 DEF LinesInv
    <2>3. \A u \in Threads : pc'[u] = "idle"
      BY <2>1 DEF OneThread, ModemType
    <2> QED
      BY <2>1, <2>2, <2>3 DEF LinesInv
  <1> QED
    BY <1>1, <1>2, <1>4, <1>5, <1>6, <1>7 DEF ModemNext, Progress

\* mxu1_startup's settings.
LEMMA ModemInitInv == ModemInit => ModemInv
  BY DEF ModemInit, ModemInv, ModemType, SettingsInv, CopyInv, SentInv, LinesInv

\* With one request at a time the adapter has the mode, the break and the
\* modem control on record whenever the driver is quiet, although a failed
\* open leaves the shadow raised and SET_CONFIG raises RTS and DTR by itself,
\* for every model of the adapter.  (Two threads can leave them different:
\* mxu1_set_termios copies the settings, and mxu1_tiocmset reads the shadow,
\* without a lock.)
THEOREM AdapterAgreesHolds == ASSUME OneThread PROVE ModemSpec => []AdapterAgrees
  <1>1. ModemInv => AdapterAgrees
    BY DEF ModemInv, SettingsInv, SentInv, LinesInv, Quiet, AdapterAgrees
  <1>2. ModemInv /\ [ModemNext]_modemVars => ModemInv'
    BY ModemTypeStep, SettingsStep, LinesStep DEF ModemInv
  <1> QED
    BY <1>1, <1>2, ModemInitInv, PTL DEF ModemSpec

=============================================================================
