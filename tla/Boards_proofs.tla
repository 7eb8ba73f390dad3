---------------------------- MODULE Boards_proofs ----------------------------
(***************************************************************************)
(* The board components, for any number of calls and events: the IRIG-B    *)
(* card (IrigB), the single-bit port drivers (BoardPorts) and the hot-swap *)
(* slots with their daemon (Hotswap).                                      *)
(***************************************************************************)
EXTENDS BoardPorts, Hotswap, IrigB, TLAPS

-----------------------------------------------------------------------------
(* The IRIG-B card. *)

ProbePcs == {"misc", "region", "enable", "irq", "unmask", "timer"}
Things == {"misc", "region", "map", "pci", "msi", "irq"}

IrigType ==
    /\ useIrq \in BOOLEAN /\ bound \in BOOLEAN
    /\ held \subseteq Things
    /\ ppc \in ProbePcs \cup {"idle", "mask", "stop", "unmap"}
    /\ handler \in [at : {"idle", "status", "write"}, msk : SUBSET IntBits, sts : SUBSET IntBits]
    /\ intsts \subseteq IntBits
    /\ timer \in {"none", "pending", "running"}

\* What the driver holds at each step of probe and remove.
HeldInv ==
    /\ ppc \in ProbePcs => ~ilog.hollow
    /\ ppc \in {"misc"} \/ (ppc = "idle" /\ ~bound) => held \subseteq {"msi"}
    /\ ppc \in {"mask", "stop"} \/ (ppc = "idle" /\ bound) =>
           IF ilog.hollow THEN held \subseteq {"msi"} ELSE "map" \in held
    /\ ppc = "region" => held \subseteq {"misc", "msi"}
    /\ ppc = "enable" => "map" \in held /\ held \subseteq {"misc", "region", "map", "msi"}
    /\ ppc \in {"irq", "timer"} => "map" \in held /\ "irq" \notin held
    /\ ppc = "unmask" => "map" \in held
    /\ ppc = "unmap" => held \subseteq {"misc", "region", "map", "pci"} /\ "misc" \notin held
    /\ ppc \in {"irq", "unmask"} => useIrq
    /\ ppc = "timer" => ~useIrq
    /\ ppc \in {"mask", "stop"} => "misc" \notin held

\* The handler runs only while its interrupt is requested, the timer only with
\* the registers mapped or after a remove that did not find it pending.
ActiveInv ==
    /\ handler.at # "idle" => useIrq /\ "irq" \in held
    /\ timer # "none" => ~useIrq
    /\ timer # "none" /\ ~ilog.ranOn =>
           bound /\ ~ilog.hollow /\ ppc \in {"idle", "mask", "stop"}

StrayInv ==
    /\ ilog.stray \subseteq {"poll", "ioctl", "hollow"}
    /\ "poll" \in ilog.stray => ilog.ranOn

\* Before INTMSK is first written everything is masked; afterwards the handler
\* works on the mask that is in the register.
MaskInv ==
    useIrq /\ ~ilog.touched =>
        /\ ppc \in {"irq", "unmask"} => intmsk = IntBits /\ handler.at = "idle"
        /\ bound /\ ppc = "idle" /\ ~ilog.hollow =>
              /\ handler.at # "idle" => handler.msk = IntBits \ intmsk
              /\ \A s \in Sources : <<s, "off">> \in intmsk => <<s, "off">> \in timeStatus

OneStatus == ~useIrq => \A s \in Sources : \A b, c \in timeStatus \cap Group(s) : b = c

Whos == {"irq", "poll", "ioctl", "hollow", "remove", "probe"}
LogType == ilog \in [events : Int, touched : BOOLEAN, stray : SUBSET Whos,
                     ranOn : BOOLEAN, hollow : BOOLEAN]

IrigInv == IrigType /\ LogType /\ HeldInv /\ ActiveInv /\ StrayInv /\ MaskInv /\ OneStatus

\* An access is recorded if the registers are not mapped.
LEMMA AccessLogged ==
    ASSUME LogType, NEW who \in Whos, Accesses(who)
    PROVE  /\ LogType'
           /\ ilog'.touched = ilog.touched /\ ilog'.ranOn = ilog.ranOn /\ ilog'.hollow = ilog.hollow
           /\ ilog'.stray = IF "map" \in held THEN ilog.stray ELSE ilog.stray \cup {who}
  BY DEF Accesses, LogType, Whos

\* The card, the handler, the timer and the ioctl.
LEMMA IrigRuns ==
    ASSUME IrigInv, \/ (\E b \in IntBits : SourceEvent(b) \/ SetClrWrite(b))
                    \/ IrqReadMask \/ IrqReadStatus \/ IrqWriteMask \/ TimerFires \/ Poll \/ SetClrRead
                    \/ UNCHANGED irigVars
    PROVE  IrigInv'
  <1>0. IrigType /\ LogType /\ HeldInv /\ ActiveInv /\ StrayInv /\ MaskInv /\ OneStatus
    BY DEF IrigInv
  <1>1. UNCHANGED <<useIrq, held, bound, ppc>>
    BY DEF SourceEvent, SetClrWrite, IrqReadMask, IrqReadStatus, IrqWriteMask, TimerFires, Poll,
       SetClrRead, irigVars
  <1>3. "irq" \in held => "map" \in held
    BY <1>0 DEF HeldInv, IrigType, ProbePcs
  <1>2. handler.at # "idle" \/ (timer = "running" /\ ~ilog.ranOn) => "map" \in held
    <2>1. handler.at # "idle" => "map" \in held
      BY <1>0, <1>3 DEF ActiveInv
    <2>2. timer = "running" /\ ~ilog.ranOn => "map" \in held
      BY <1>0 DEF HeldInv, ActiveInv
    <2> QED
      BY <2>1, <2>2
  <1>a. ASSUME IrigType', LogType', ilog'.hollow = ilog.hollow, ActiveInv', StrayInv', MaskInv', OneStatus'
        PROVE  IrigInv'
    BY <1>0, <1>1, <1>a DEF IrigInv, HeldInv
  <1>4. CASE \E b \in IntBits : SourceEvent(b)
    <2>1. PICK b \in IntBits : intsts' = intsts \cup {b} /\ ilog' = [ilog EXCEPT !.events = @ + 1]
                               /\ UNCHANGED <<intmsk, timeStatus, handler, timer>>
      BY <1>4 DEF SourceEvent, Counted
    <2>2. /\ LogType' /\ ilog'.touched = ilog.touched /\ ilog'.ranOn = ilog.ranOn
          /\ ilog'.hollow = ilog.hollow /\ ilog'.stray = ilog.stray
      BY <1>0, <2>1 DEF LogType
    <2> QED
      BY <1>0, <1>1, <1>a, <2>1, <2>2 DEF IrigType, ActiveInv, StrayInv, MaskInv, OneStatus
  <1>5. CASE \E b \in IntBits : SetClrWrite(b)
    <2>1. /\ UNCHANGED <<intsts, timeStatus, handler, timer>>
          /\ ilog' = [ilog EXCEPT !.touched = TRUE,
                                  !.stray = IF "map" \in held THEN @ ELSE @ \cup {"ioctl"}]
      BY <1>5 DEF SetClrWrite
    <2>2. /\ LogType' /\ ilog'.touched /\ ilog'.ranOn = ilog.ranOn
          /\ ilog'.hollow = ilog.hollow /\ ilog'.stray \subseteq ilog.stray \cup {"ioctl"}
      BY <1>0, <2>1 DEF LogType, Whos
    <2> QED
      BY <1>0, <1>1, <1>a, <2>1, <2>2 DEF IrigType, ActiveInv, StrayInv, MaskInv, OneStatus
  <1>6. CASE SetClrRead
    <2>1. /\ UNCHANGED <<intsts, timeStatus, handler, timer, intmsk>>
          /\ ilog' = [[ilog EXCEPT !.stray = IF "map" \in held THEN @ ELSE @ \cup {"ioctl"}]
                         EXCEPT !.events = @ + 1]
      BY <1>6 DEF SetClrRead, Counted
    <2>2. /\ LogType' /\ ilog'.touched = ilog.touched /\ ilog'.ranOn = ilog.ranOn
          /\ ilog'.hollow = ilog.hollow /\ ilog'.stray \subseteq ilog.stray \cup {"ioctl"}
      <3>1. PICK m : m = [ilog EXCEPT !.stray = IF "map" \in held THEN @ ELSE @ \cup {"ioctl"}]
        OBVIOUS
      <3>2. /\ m \in [events : Int, touched : BOOLEAN, stray : SUBSET Whos, ranOn : BOOLEAN,
                      hollow : BOOLEAN]
            /\ m.touched = ilog.touched /\ m.ranOn = ilog.ranOn
            /\ m.hollow = ilog.hollow /\ m.stray \subseteq ilog.stray \cup {"ioctl"}
        BY <1>0, <3>1 DEF LogType, Whos
      <3>3. ilog' = [m EXCEPT !.events = @ + 1]
        BY <2>1, <3>1
      <3> QED
        BY <3>2, <3>3 DEF LogType
    <2> QED
      BY <1>0, <1>1, <1>a, <2>1, <2>2 DEF IrigType, ActiveInv, StrayInv, MaskInv, OneStatus
  <1>7. CASE IrqReadMask
    <2>1. /\ useIrq /\ "irq" \in held /\ handler.at = "idle" /\ Accesses("irq")
          /\ handler' = IF intmsk = IntBits THEN IdleHandler
                        ELSE [at |-> "status", msk |-> IntBits \ intmsk, sts |-> {}]
          /\ UNCHANGED <<intsts, intmsk, timeStatus, timer>>
      BY <1>7 DEF IrqReadMask
    <2>2. /\ LogType' /\ ilog'.touched = ilog.touched /\ ilog'.ranOn = ilog.ranOn
          /\ ilog'.hollow = ilog.hollow /\ ilog'.stray = ilog.stray
      BY <1>0, <1>3, <2>1, AccessLogged DEF Whos
    <2>3. /\ handler' \in [at : {"idle", "status", "write"}, msk : SUBSET IntBits, sts : SUBSET IntBits]
          /\ handler'.at # "idle" => intmsk # IntBits /\ handler'.msk = IntBits \ intmsk
      BY <2>1 DEF IdleHandler
    <2> QED
      BY <1>0, <1>1, <1>a, <2>1, <2>2, <2>3 DEF IrigType, ActiveInv, StrayInv, MaskInv, OneStatus
  <1>8. CASE IrqReadStatus
    <2>1. /\ handler.at = "status" /\ Accesses("irq") /\ intsts' \in {intsts, {}}
          /\ handler' = IF handler.msk \cap intsts = {} THEN IdleHandler
                        ELSE [handler EXCEPT !.at = "write", !.sts = intsts]
          /\ UNCHANGED <<intmsk, timeStatus, timer>>
      BY <1>8 DEF IrqReadStatus, ReadIntSts
    <2>2. /\ LogType' /\ ilog'.touched = ilog.touched /\ ilog'.ranOn = ilog.ranOn
          /\ ilog'.hollow = ilog.hollow /\ ilog'.stray = ilog.stray
      BY <1>0, <1>2, <2>1, AccessLogged DEF Whos
    <2>3. /\ handler' \in [at : {"idle", "status", "write"}, msk : SUBSET IntBits, sts : SUBSET IntBits]
          /\ handler'.at # "idle" => handler'.msk = handler.msk
      BY <1>0, <2>1 DEF IdleHandler, IrigType
    <2> QED
      BY <1>0, <1>1, <1>a, <2>1, <2>2, <2>3 DEF IrigType, ActiveInv, StrayInv, MaskInv, OneStatus
  <1>9. CASE IrqWriteMask
    <2>1. /\ handler.at = "write" /\ Accesses("irq") /\ handler' = IdleHandler
          /\ timeStatus' = NewStatus(handler.sts)
          /\ intmsk' = IntBits \ NewMask(handler.msk, handler.sts)
          /\ UNCHANGED <<intsts, timer>>
      BY <1>9 DEF IrqWriteMask
    <2>2. /\ LogType' /\ ilog'.touched = ilog.touched /\ ilog'.ranOn = ilog.ranOn
          /\ ilog'.hollow = ilog.hollow /\ ilog'.stray = ilog.stray
      BY <1>0, <1>2, <2>1, AccessLogged DEF Whos
    <2>3. /\ handler' \in [at : {"idle", "status", "write"}, msk : SUBSET IntBits, sts : SUBSET IntBits]
          /\ handler'.at = "idle"
      BY <2>1 DEF IdleHandler
    <2>4. ASSUME useIrq, ~ilog.touched, bound, ppc = "idle", ~ilog.hollow,
                 NEW s \in Sources, <<s, "off">> \in intmsk'
          PROVE  <<s, "off">> \in timeStatus'
      <3>1. handler.msk = IntBits \ intmsk /\ (<<s, "off">> \in intmsk => <<s, "off">> \in timeStatus)
        BY <1>0, <2>1, <2>4 DEF MaskInv
      <3>2. <<s, "off">> \in Group(s) /\ <<s, "off">> \in IntBits
        BY DEF Group, EventsOf, IntBits
      <3>3. <<s, "off">> \notin NewMask(handler.msk, handler.sts)
        BY <2>1, <2>4
      <3>4. CASE s \in Named(handler.sts)
        <4>1. <<s, "off">> \in handler.sts
          BY <3>3, <3>4 DEF NewMask
        <4> QED
          BY <2>1, <4>1 DEF NewStatus
      <3>5. CASE s \notin Named(handler.sts)
        <4>1. <<s, "off">> \notin {<<t, "off">> : t \in Named(handler.sts)}
          BY <3>5
        <4>2. <<s, "off">> \notin handler.msk
          BY <3>3, <4>1 DEF NewMask
        <4>3. <<s, "off">> \in timeStatus
          BY <3>1, <3>2, <4>2
        <4>4. \A t \in Named(handler.sts) : <<s, "off">> \notin Group(t)
          BY <3>5 DEF Group
        <4> QED
          BY <2>1, <4>3, <4>4 DEF NewStatus
      <3> QED
        BY <3>4, <3>5
    <2>5. MaskInv'
      <3>1. ppc \notin {"irq", "unmask"} \/ ~useIrq \/ ilog.touched
        BY <1>0, <2>1 DEF MaskInv
      <3> QED
        BY <1>1, <2>2, <2>3, <2>4, <3>1 DEF MaskInv
    <2>6. ActiveInv' /\ StrayInv' /\ OneStatus'
      BY <1>0, <1>1, <2>1, <2>2, <2>3 DEF ActiveInv, StrayInv, OneStatus
    <2>7. IrigType'
      BY <1>0, <1>1, <2>1, <2>3 DEF IrigType
    <2> QED
      BY <1>a, <2>2, <2>5, <2>6, <2>7
  <1>10. CASE TimerFires
    BY <1>0, <1>1, <1>a, <1>10 DEF TimerFires, IrigType, LogType, ActiveInv, StrayInv, MaskInv, OneStatus
  <1>11. CASE Poll
    <2>1. /\ timer = "running" /\ Accesses("poll") /\ intsts' \in {intsts, {}} /\ timer' = "pending"
          /\ timeStatus' = (timeStatus \ UNION {Group(s) : s \in Named(intsts)})
                              \cup {First(intsts, s) : s \in Named(intsts)}
          /\ UNCHANGED <<intmsk, handler>>
      BY <1>11 DEF Poll, ReadIntSts
    <2>2. /\ LogType' /\ ilog'.touched = ilog.touched /\ ilog'.ranOn = ilog.ranOn
          /\ ilog'.hollow = ilog.hollow
          /\ ilog'.stray = IF "map" \in held THEN ilog.stray ELSE ilog.stray \cup {"poll"}
      BY <1>0, <2>1, AccessLogged DEF Whos
    <2>3. ~useIrq
      BY <1>0, <2>1 DEF ActiveInv
    <2>4. StrayInv'
      BY <1>0, <1>2, <2>1, <2>2 DEF StrayInv
    <2>5. ASSUME NEW s \in Sources, NEW b \in timeStatus' \cap Group(s)
          PROVE  IF s \in Named(intsts) THEN b = First(intsts, s) ELSE b \in timeStatus
      <3>1. \A t \in Sources : \E e \in {"off", "err", "done"} : First(intsts, t) = <<t, e>>
        BY DEF First
      <3>2. \E e \in EventsOf(s) : b = <<s, e>>
        BY DEF Group
      <3>3. Named(intsts) \subseteq Sources
        BY DEF Named
      <3>4. CASE b \in {First(intsts, t) : t \in Named(intsts)}
        <4>1. PICK t \in Named(intsts) : b = First(intsts, t)
          BY <3>4
        <4>2. t = s
          BY <3>1, <3>2, <3>3, <4>1
        <4> QED
          BY <4>1, <4>2
      <3>5. CASE b \notin {First(intsts, t) : t \in Named(intsts)}
        BY <2>1, <3>5
      <3> QED
        BY <3>4, <3>5
    <2>6. OneStatus'
      <3> SUFFICES ASSUME NEW s \in Sources, NEW b \in timeStatus' \cap Group(s),
                          NEW c \in timeStatus' \cap Group(s)
                   PROVE  b = c
        BY DEF OneStatus
      <3>1. CASE s \in Named(intsts)
        BY <2>5, <3>1
      <3>2. CASE s \notin Named(intsts)
        BY <1>0, <2>3, <2>5, <3>2 DEF OneStatus
      <3> QED
        BY <3>1, <3>2
    <2>7. IrigType' /\ ActiveInv' /\ MaskInv'
      BY <1>0, <1>1, <2>1, <2>2, <2>3 DEF IrigType, ActiveInv, MaskInv
    <2> QED
      BY <1>a, <2>2, <2>4, <2>6, <2>7
  <1>12. CASE UNCHANGED irigVars
    BY <1>0, <1>1, <1>a, <1>12 DEF irigVars, IrigType, LogType, ActiveInv, StrayInv, MaskInv, OneStatus
  <1> QED
    BY <1>4, <1>5, <1>6, <1>7, <1>8, <1>9, <1>10, <1>11, <1>12

\* probe, each step of which may fail, and remove.
LEMMA IrigProbes ==
    ASSUME IrigInv, \/ ProbeStart \/ ProbeMisc \/ ProbeRegion \/ ProbeEnable \/ ProbeIrq
                    \/ ProbeUnmask \/ ProbeTimer \/ RemoveStart \/ RemoveMask \/ RemoveStop
                    \/ RemoveUnmap
    PROVE  IrigInv'
  <1>0. IrigType /\ LogType /\ HeldInv /\ ActiveInv /\ StrayInv /\ MaskInv /\ OneStatus
    BY DEF IrigInv
  <1>1. UNCHANGED <<useIrq, timeStatus, handler>> /\ OneStatus'
    <2>1. UNCHANGED <<useIrq, timeStatus, handler>>
      BY DEF ProbeStart, ProbeMisc, ProbeRegion, ProbeEnable, ProbeIrq, ProbeUnmask, ProbeTimer,
         RemoveStart, RemoveMask, RemoveStop, RemoveUnmap, ProbeTakes, ProbeFails, ProbeReset
    <2> QED
      BY <1>0, <2>1 DEF OneStatus
  <1>2. "irq" \notin held => handler.at = "idle"
    BY <1>0 DEF ActiveInv
  <1>a. ASSUME IrigType', LogType', HeldInv', ActiveInv', StrayInv', MaskInv' PROVE IrigInv'
    BY <1>1, <1>a DEF IrigInv
  <1>3. CASE ProbeStart
    <2>1. /\ ppc = "idle" /\ ~bound /\ ppc' = "misc" /\ UNCHANGED <<intsts, intmsk, held, bound, timer>>
          /\ ilog' = [[ilog EXCEPT !.touched = FALSE, !.hollow = FALSE] EXCEPT !.events = @ + 1]
      BY <1>3 DEF ProbeStart, Counted
    <2>3. LogType' /\ ilog'.ranOn = ilog.ranOn /\ ilog'.hollow = FALSE /\ ilog'.stray = ilog.stray
      <3>1. PICK m : m = [ilog EXCEPT !.touched = FALSE, !.hollow = FALSE]
        OBVIOUS
      <3>2. /\ m \in [events : Int, touched : BOOLEAN, stray : SUBSET Whos, ranOn : BOOLEAN,
                      hollow : BOOLEAN]
            /\ m.ranOn = ilog.ranOn /\ m.hollow = FALSE /\ m.stray = ilog.stray
        BY <1>0, <3>1 DEF LogType
      <3>3. ilog' = [m EXCEPT !.events = @ + 1]
        BY <2>1, <3>1
      <3> QED
        BY <3>2, <3>3 DEF LogType
    <2>4. HeldInv' /\ ActiveInv'
      BY <1>0, <1>1, <2>1, <2>3 DEF HeldInv, ActiveInv, ProbePcs
    <2>5. IrigType' /\ StrayInv' /\ MaskInv'
      BY <1>0, <1>1, <2>1, <2>3 DEF IrigType, StrayInv, MaskInv, ProbePcs
    <2> QED
      BY <1>a, <2>3, <2>4, <2>5
  <1>4. ASSUME NEW undone, NEW retval, ProbeFails(undone, retval),
               ppc \in {"misc", "region", "enable", "irq"},
               held \ undone \subseteq {"msi"}
        PROVE  IrigInv'
    <2>1. /\ ppc' = "idle" /\ UNCHANGED <<intsts, intmsk, timer>>
          /\ held' \subseteq {"msi"} /\ bound' = (retval = 0)
          /\ ilog' = [ilog EXCEPT !.hollow = bound']
      BY <1>4 DEF ProbeFails
    <2>2. bound' \in BOOLEAN
      BY <2>1
    <2>3. /\ LogType' /\ ilog'.ranOn = ilog.ranOn /\ ilog'.hollow = bound' /\ ilog'.stray = ilog.stray
          /\ ilog'.touched = ilog.touched
      BY <1>0, <2>1, <2>2 DEF LogType
    <2>4. HeldInv'
      BY <2>1, <2>2, <2>3 DEF HeldInv, ProbePcs
    <2>5. handler.at = "idle"
      BY <1>0, <1>2, <1>4 DEF HeldInv
    <2>6. ActiveInv'
      BY <1>0, <1>1, <1>4, <2>1, <2>3, <2>5 DEF ActiveInv, ProbePcs
    <2>7. IrigType' /\ StrayInv' /\ MaskInv'
      BY <1>0, <1>1, <2>1, <2>2, <2>3, <2>5 DEF IrigType, StrayInv, MaskInv, Things
    <2> QED
      BY <1>a, <2>3, <2>4, <2>6, <2>7
  <1>5. CASE ProbeMisc \/ ProbeRegion \/ ProbeIrq
    <2>1. ASSUME NEW what \in SUBSET Things, NEW next \in {"region", "enable", "unmask"},
                 ppc \in {"misc", "region", "irq"}, ProbeTakes(what, next),
                 /\ ppc = "misc" => what = {"misc"} /\ next = "region"
                 /\ ppc = "region" => what = {"region", "map"} /\ next = "enable"
                 /\ ppc = "irq" => what = {"irq"} /\ next = "unmask"
          PROVE  IrigInv'
      <3>1. held' = held \cup what /\ ppc' = next /\ UNCHANGED <<intsts, intmsk, bound, timer, ilog>>
        BY <2>1 DEF ProbeTakes
      <3>2. HeldInv'
        BY <1>0, <1>1, <2>1, <3>1 DEF HeldInv, ProbePcs
      <3>3. ActiveInv'
        BY <1>0, <1>1, <2>1, <3>1 DEF ActiveInv
      <3>4. IrigType' /\ LogType' /\ StrayInv'
        BY <1>0, <1>1, <2>1, <3>1 DEF IrigType, LogType, StrayInv, ProbePcs
      <3>5. MaskInv'
        BY <1>0, <1>1, <2>1, <3>1 DEF MaskInv
      <3> QED
        BY <1>a, <3>2, <3>3, <3>4, <3>5
    <2>2. CASE ProbeMisc
      <3>1. ppc = "misc" /\ held \subseteq {"msi"}
        BY <1>0, <2>2 DEF ProbeMisc, HeldInv
      <3> QED
        BY <1>4, <2>1, <2>2, <3>1 DEF ProbeMisc, Things
    <2>3. CASE ProbeRegion
      <3>1. ppc = "region" /\ held \ {"misc"} \subseteq {"msi"}
        BY <1>0, <2>3 DEF ProbeRegion, HeldInv
      <3> QED
        BY <1>4, <2>1, <2>3, <3>1 DEF ProbeRegion, Things
    <2>4. CASE ProbeIrq
      <3>1. ppc = "irq" /\ held \ {"pci", "region", "map", "misc"} \subseteq {"msi"}
        BY <1>0, <2>4 DEF ProbeIrq, HeldInv, IrigType, Things
      <3> QED
        BY <1>4, <2>1, <2>4, <3>1 DEF ProbeIrq, Things
    <2> QED
      BY <1>5, <2>2, <2>3, <2>4
  <1>6. CASE ProbeEnable
    <2>0. ppc = "enable" /\ "map" \in held /\ held \subseteq {"misc", "region", "map", "msi"}
          /\ handler.at = "idle"
      BY <1>0, <1>2, <1>6 DEF ProbeEnable, HeldInv
    <2>1. CASE ProbeFails({"region", "map", "misc"}, 0)
      BY <1>4, <2>0, <2>1
    <2>2. CASE ProbeReset
      <3>1. /\ intmsk' = IntBits /\ intsts' = {} /\ Accesses("probe") /\ UNCHANGED <<bound, timer>>
            /\ held' = held \cup {"pci"} \cup (IF useIrq THEN {"msi"} ELSE {})
            /\ ppc' = IF useIrq THEN "irq" ELSE "timer"
        BY <2>2 DEF ProbeReset
      <3>2. /\ LogType' /\ ilog'.touched = ilog.touched /\ ilog'.ranOn = ilog.ranOn
            /\ ilog'.hollow = ilog.hollow /\ ilog'.stray = ilog.stray
        BY <1>0, <2>0, <3>1, AccessLogged DEF Whos
      <3>3. HeldInv' /\ ActiveInv'
        BY <1>0, <1>1, <2>0, <3>1, <3>2 DEF HeldInv, ActiveInv, ProbePcs
      <3>4. IrigType' /\ StrayInv' /\ MaskInv'
        BY <1>0, <1>1, <2>0, <3>1, <3>2 DEF IrigType, StrayInv, MaskInv, ProbePcs, Things
      <3> QED
        BY <1>a, <3>2, <3>3, <3>4
    <2> QED
      BY <1>6, <2>1, <2>2 DEF ProbeEnable
  <1>7. CASE ProbeUnmask
    <2>1. /\ ppc = "unmask" /\ Accesses("probe") /\ intmsk' = {} /\ bound' = TRUE /\ ppc' = "idle"
          /\ UNCHANGED <<intsts, held, timer>>
      BY <1>7 DEF ProbeUnmask
    <2>2. /\ LogType' /\ ilog'.touched = ilog.touched /\ ilog'.ranOn = ilog.ranOn
          /\ ilog'.hollow = ilog.hollow /\ ilog'.stray = ilog.stray
      BY <1>0, <2>1, AccessLogged DEF Whos, HeldInv
    <2>3. HeldInv' /\ ActiveInv'
      BY <1>0, <1>1, <2>1, <2>2 DEF HeldInv, ActiveInv, ProbePcs
    <2>4. IrigType' /\ StrayInv' /\ MaskInv'
      BY <1>0, <1>1, <2>1, <2>2 DEF IrigType, StrayInv, MaskInv, HeldInv
    <2> QED
      BY <1>a, <2>2, <2>3, <2>4
  <1>8. CASE ProbeTimer
    <2>1. /\ ppc = "timer" /\ Accesses("probe") /\ bound' = TRUE /\ ppc' = "idle"
          /\ timer' = "pending" /\ UNCHANGED <<intsts, held>>
      BY <1>8 DEF ProbeTimer
    <2>2. /\ LogType' /\ ilog'.touched = ilog.touched /\ ilog'.ranOn = ilog.ranOn
          /\ ilog'.hollow = ilog.hollow /\ ilog'.stray = ilog.stray
      BY <1>0, <2>1, AccessLogged DEF Whos, HeldInv
    <2>3. ~useIrq /\ ~ilog.hollow
      BY <1>0, <2>1 DEF HeldInv, ProbePcs
    <2>4. HeldInv' /\ ActiveInv'
      BY <1>0, <1>1, <2>1, <2>2, <2>3 DEF HeldInv, ActiveInv, ProbePcs
    <2>5. IrigType' /\ StrayInv' /\ MaskInv'
      BY <1>0, <1>1, <2>1, <2>2, <2>3 DEF IrigType, StrayInv, MaskInv
    <2> QED
      BY <1>a, <2>2, <2>4, <2>5
  <1>9. CASE RemoveStart
    <2>1. /\ ppc = "idle" /\ bound /\ held' = held \ {"misc"} /\ ppc' = "mask"
          /\ ilog' = [ilog EXCEPT !.events = @ + 1] /\ UNCHANGED <<intsts, intmsk, bound, timer>>
      BY <1>9 DEF RemoveStart, Counted
    <2>2. /\ LogType' /\ ilog'.touched = ilog.touched /\ ilog'.ranOn = ilog.ranOn
          /\ ilog'.hollow = ilog.hollow /\ ilog'.stray = ilog.stray
      BY <1>0, <2>1 DEF LogType
    <2>3. HeldInv' /\ ActiveInv'
      BY <1>0, <1>1, <2>1, <2>2 DEF HeldInv, ActiveInv, ProbePcs
    <2>4. IrigType' /\ StrayInv' /\ MaskInv'
      BY <1>0, <1>1, <2>1, <2>2 DEF IrigType, StrayInv, MaskInv
    <2> QED
      BY <1>a, <2>2, <2>3, <2>4
  <1>10. CASE RemoveMask
    <2>1. /\ ppc = "mask" /\ Accesses(IF ilog.hollow THEN "hollow" ELSE "remove") /\ ppc' = "stop"
          /\ UNCHANGED <<intsts, held, bound, timer>>
      BY <1>10 DEF RemoveMask
    <2>2. /\ LogType' /\ ilog'.touched = ilog.touched /\ ilog'.ranOn = ilog.ranOn
          /\ ilog'.hollow = ilog.hollow /\ ilog'.stray \subseteq ilog.stray \cup {"hollow"}
      <3>1. CASE ilog.hollow
        BY <1>0, <2>1, <3>1, AccessLogged DEF Whos
      <3>2. CASE ~ilog.hollow
        BY <1>0, <2>1, <3>2, AccessLogged DEF Whos, HeldInv
      <3> QED
        BY <3>1, <3>2
    <2>3. HeldInv' /\ ActiveInv'
      BY <1>0, <1>1, <2>1, <2>2 DEF HeldInv, ActiveInv, ProbePcs
    <2>4. IrigType' /\ StrayInv' /\ MaskInv'
      BY <1>0, <1>1, <2>1, <2>2 DEF IrigType, StrayInv, MaskInv
    <2> QED
      BY <1>a, <2>2, <2>3, <2>4
  <1>11. CASE RemoveStop
    <2>1. /\ ppc = "stop" /\ ppc' = "unmap" /\ (useIrq => handler.at = "idle")
          /\ held' = held \ {"irq", "msi"}
          /\ timer' = IF ~useIrq /\ timer = "pending" THEN "none" ELSE timer
          /\ ilog' = [ilog EXCEPT !.ranOn = @ \/ (~useIrq /\ timer = "running")]
          /\ UNCHANGED <<intsts, intmsk, bound>>
      BY <1>11 DEF RemoveStop
    <2>2. /\ LogType' /\ ilog'.touched = ilog.touched
          /\ (ilog'.ranOn <=> ilog.ranOn \/ (~useIrq /\ timer = "running"))
          /\ ilog'.hollow = ilog.hollow /\ ilog'.stray = ilog.stray
      BY <1>0, <2>1 DEF LogType
    <2>3. HeldInv'
      BY <1>0, <1>1, <2>1, <2>2 DEF HeldInv, IrigType, ProbePcs, Things
    <2>4. ActiveInv'
      BY <1>0, <1>1, <2>1, <2>2 DEF ActiveInv, IrigType
    <2>5. IrigType' /\ StrayInv' /\ MaskInv'
      BY <1>0, <1>1, <2>1, <2>2 DEF IrigType, StrayInv, MaskInv
    <2> QED
      BY <1>a, <2>2, <2>3, <2>4, <2>5
  <1>12. CASE RemoveUnmap
    <2>1. /\ ppc = "unmap" /\ held' = held \ {"pci", "region", "map"} /\ bound' = FALSE
          /\ ppc' = "idle" /\ UNCHANGED <<intsts, intmsk, timer, ilog>>
      BY <1>12 DEF RemoveUnmap
    <2>2. handler.at = "idle"
      BY <1>0, <1>2, <2>1 DEF HeldInv
    <2>3. HeldInv' /\ ActiveInv'
      BY <1>0, <1>1, <2>1, <2>2 DEF HeldInv, ActiveInv, ProbePcs
    <2>4. IrigType' /\ LogType' /\ StrayInv' /\ MaskInv'
      BY <1>0, <1>1, <2>1, <2>2 DEF IrigType, LogType, StrayInv, MaskInv
    <2> QED
      BY <1>a, <2>3, <2>4
  <1> QED
    BY <1>3, <1>5, <1>6, <1>7, <1>8, <1>9, <1>10, <1>11, <1>12

\* Before the card is probed.
LEMMA IrigInitInv == IrigInit => IrigInv
  <1> SUFFICES ASSUME IrigInit PROVE IrigInv
    OBVIOUS
  <1>0. /\ useIrq \in BOOLEAN /\ intsts = {} /\ held = {} /\ bound = FALSE /\ ppc = "idle"
        /\ handler = [at |-> "idle", msk |-> {}, sts |-> {}] /\ timer = "none"
        /\ ilog = [events |-> 0, touched |-> FALSE, stray |-> {}, ranOn |-> FALSE, hollow |-> FALSE]
    BY DEF IrigInit, IdleHandler
  <1>4. LogType
    BY <1>0 DEF LogType
  <1>5. handler \in [at : {"idle", "status", "write"}, msk : SUBSET IntBits, sts : SUBSET IntBits]
    BY <1>0
  <1>6. bound \in BOOLEAN
    BY <1>0
  <1>1. IrigType /\ LogType
    BY <1>0, <1>4, <1>5, <1>6 DEF IrigType
  <1>2. HeldInv /\ ActiveInv /\ StrayInv /\ MaskInv /\ OneStatus
    BY DEF IrigInit, IdleHandler, HeldInv, ActiveInv, StrayInv, MaskInv, OneStatus, ProbePcs
  <1> QED
    BY <1>1, <1>2 DEF IrigInv

\* No step of the card, the driver or the PCI core breaks the invariant.
LEMMA IrigStep == IrigInv /\ [IrigNext]_irigVars => IrigInv'
  BY IrigRuns, IrigProbes DEF IrigNext

\* The handler, which masks the "off" event of a source that is off, and the
\* timer never leave a source overlooked, for any sources and any order of
\* events, ioctls, probes and removes.
THEOREM OffNoticedHolds == IrigSpec => []OffNoticed
  <1>1. IrigInv => OffNoticed
    BY DEF IrigInv, MaskInv, OneStatus, OffNoticed
  <1> QED
    BY <1>1, IrigInitInv, IrigStep, PTL DEF IrigSpec

\* What irigb_probe took and did not keep is given back, and after irigb_remove
\* only the known latecomers touch the unmapped registers.
THEOREM RemoveIsCleanHolds == IrigSpec => []RemoveIsClean
  <1>1. IrigInv => RemoveIsClean
    BY DEF IrigInv, HeldInv, StrayInv, RemoveIsClean
  <1> QED
    BY <1>1, IrigInitInv, IrigStep, PTL DEF IrigSpec

-----------------------------------------------------------------------------
(* The hot-swap slots and their daemon. *)

SlotPcs == ({"plugged", "busy", "button"} \X Disks) \cup ({"second", "checked", "stopped"} \X {0})

Info == [plugged : BOOLEAN, last : BOOLEAN, event : BOOLEAN, ledOn : BOOLEAN, warn : BOOLEAN,
         lastWarn : BOOLEAN, first : BOOLEAN]

HotLog == [events : Int, ago : [Disks -> Int], active : SUBSET Disks, moved : SUBSET Disks]

SlotType ==
    /\ act \in [Disks -> Int]
    /\ disk \in [Disks -> [status : Int, busy : BOOLEAN, idle : Int]]
    /\ info \in [Disks -> Info]
    /\ hlog \in HotLog
    /\ hpc \in SlotPcs

\* The driver's busy flag says that there was activity in the last IdleTicks
\* ticks: idle_cnt counts them.
BusyInv ==
    \A d \in Disks :
        /\ disk[d].idle \in 0 .. IdleLimit + 1
        /\ hlog.ago[d] = IF disk[d].busy THEN disk[d].idle ELSE IdleTicks

\* A sample that will differ has its reason.
MovedInv == \A d \in Disks : Register(d) # disk[d].status => d \in hlog.moved

\* Half-way through a pass, and after it, the LED has its reason.
LitInv ==
    /\ 1 \in lamp => info[1].ledOn \/ info[2].ledOn
    /\ hpc \in {<<"button", 1>>, <<"plugged", 2>>, <<"busy", 2>>} /\ 1 \in lamp =>
           info[1].warn \/ 1 \in hlog.active \/ info[2].ledOn
    /\ hpc \in {<<"button", 2>>, <<"second", 0>>} =>
           /\ 1 \in lamp => \E n \in Disks : info[n].warn \/ n \in hlog.active
           /\ 2 \in hlog.active /\ ~info[2].warn => 1 \in lamp
    /\ hpc = <<"stopped", 0>> => lamp = {}

SlotInv == SlotType /\ BusyInv /\ MovedInv /\ LitInv

\* What a tick adds to the ticks since the last activity.
LEMMA MinOfTwo ==
    ASSUME NEW a \in Int, NEW b \in Int
    PROVE  Min({a, b}) = IF a <= b THEN a ELSE b
  <1>1. PICK m : m = Min({a, b})
    OBVIOUS
  <1>2. \E x \in {a, b} : \A y \in {a, b} : x <= y
    OBVIOUS
  <1>3. m \in {a, b} /\ \A y \in {a, b} : m <= y
    BY <1>1, <1>2 DEF Min
  <1> QED
    BY <1>1, <1>3

\* The timer of the driver.
LEMMA TickStep ==
    ASSUME SlotInv, CheckDisk PROVE SlotInv'
  <1>0. SlotType /\ BusyInv /\ MovedInv /\ LitInv /\ IdleLimit \in Int /\ IdleLimit >= 0
    BY HotswapAssumption DEF SlotInv
  <1>1. /\ disk' = [d \in Disks |-> Sampled(disk[d], Register(d))]
        /\ hlog' = [hlog EXCEPT
               !.ago = [d \in Disks |->
                   IF d \in hlog.moved /\ Register(d) # disk[d].status THEN 0
                   ELSE Min({IdleTicks, hlog.ago[d] + 1})],
               !.moved = {}]
        /\ UNCHANGED <<act, plug, lamp, info, hpc>>
    BY DEF CheckDisk, outside
  <1>8. \A d \in Disks : d \in hlog.moved /\ Register(d) # disk[d].status <=> Register(d) # disk[d].status
    BY <1>0 DEF MovedInv
  <1>7. PICK Reg \in [Disks -> Int] : \A d \in Disks : Reg[d] = Register(d)
    <2>1. \A d \in Disks : Register(d) \in Int
      BY <1>0 DEF SlotType, Register, Unplugged
    <2>2. [d \in Disks |-> Register(d)] \in [Disks -> Int]
      BY <2>1
    <2> QED
      BY <2>2
  <1>2. ASSUME NEW d \in Disks
        PROVE  /\ disk'[d] \in [status : Int, busy : BOOLEAN, idle : Int]
               /\ disk'[d].idle \in 0 .. IdleLimit + 1
               /\ hlog'.ago[d] \in Int
               /\ hlog'.ago[d] = IF disk'[d].busy THEN disk'[d].idle ELSE IdleTicks
    <2>1. /\ Reg[d] \in Int /\ disk[d] \in [status : Int, busy : BOOLEAN, idle : Int]
          /\ hlog.ago[d] \in Int /\ disk[d].idle \in 0 .. IdleLimit + 1
          /\ hlog.ago[d] = IF disk[d].busy THEN disk[d].idle ELSE IdleTicks
          /\ IdleTicks = IdleLimit + 2 /\ IdleTicks \in Int
      BY <1>0, <1>7 DEF SlotType, BusyInv, IdleTicks
    <2>2. Min({IdleTicks, hlog.ago[d] + 1}) =
              IF IdleTicks <= hlog.ago[d] + 1 THEN IdleTicks ELSE hlog.ago[d] + 1
      BY <2>1, MinOfTwo
    <2>3. /\ disk'[d] = Sampled(disk[d], Reg[d])
          /\ hlog'.ago[d] = IF Reg[d] # disk[d].status THEN 0 ELSE Min({IdleTicks, hlog.ago[d] + 1})
      BY <1>0, <1>1, <1>7, <1>8 DEF SlotType
    <2>4. CASE Reg[d] # disk[d].status
      BY <1>0, <2>1, <2>3, <2>4 DEF Sampled
    <2>5. CASE Reg[d] = disk[d].status /\ disk[d].idle > IdleLimit
      <3>1. disk'[d] = [disk[d] EXCEPT !.busy = FALSE, !.idle = 0]
        BY <2>3, <2>5 DEF Sampled
      <3>5. disk'[d] = [status |-> disk[d].status, busy |-> FALSE, idle |-> 0]
        BY <2>1, <3>1
      <3>2. /\ disk'[d] \in [status : Int, busy : BOOLEAN, idle : Int]
            /\ disk'[d].busy = FALSE /\ disk'[d].idle = 0
        BY <2>1, <3>5
      <3>3. IdleTicks <= hlog.ago[d] + 1
        BY <1>0, <2>1, <2>5
      <3>4. hlog'.ago[d] = IdleTicks
        BY <2>2, <2>3, <2>5, <3>3
      <3> QED
        BY <1>0, <2>1, <3>2, <3>4
    <2>6. CASE Reg[d] = disk[d].status /\ ~(disk[d].idle > IdleLimit)
      BY <1>0, <2>1, <2>2, <2>3, <2>6 DEF Sampled
    <2> QED
      BY <2>4, <2>5, <2>6
  <1>3. BusyInv'
    BY <1>2 DEF BusyInv, IdleTicks
  <1>4. hlog' \in HotLog /\ hlog'.active = hlog.active /\ hlog'.moved = {}
    <2>1. PICK f \in [Disks -> Int] : f = [d \in Disks |->
                       IF Reg[d] # disk[d].status THEN 0 ELSE Min({IdleTicks, hlog.ago[d] + 1})]
      <3>1. \A d \in Disks : (IF Reg[d] # disk[d].status THEN 0
                              ELSE Min({IdleTicks, hlog.ago[d] + 1})) \in Int
        BY <1>0, <1>1, <1>2, <1>7, <1>8 DEF SlotType, HotLog
      <3> QED
        BY <3>1
    <2>2. hlog' = [hlog EXCEPT !.ago = f, !.moved = {}]
      BY <1>1, <1>7, <1>8, <2>1
    <2> QED
      BY <1>0, <2>2 DEF SlotType, HotLog
  <1>5. SlotType'
    BY <1>0, <1>1, <1>2, <1>4 DEF SlotType
  <1>6. LitInv'
    BY <1>0, <1>1, <1>4 DEF LitInv
  <1>9. MovedInv'
    <2>1. ASSUME NEW d \in Disks PROVE Register(d)' = disk'[d].status
      <3>1. Register(d)' = Reg[d] /\ disk'[d] = Sampled(disk[d], Reg[d])
        BY <1>1, <1>7 DEF Register
      <3>2. disk[d] \in [status : Int, busy : BOOLEAN, idle : Int]
        BY <1>0 DEF SlotType
      <3>3. CASE Reg[d] # disk[d].status
        BY <3>1, <3>3 DEF Sampled
      <3>4. CASE Reg[d] = disk[d].status
        BY <3>1, <3>2, <3>4 DEF Sampled
      <3> QED
        BY <3>3, <3>4
    <2> QED
      BY <2>1 DEF MovedInv
  <1> QED
    BY <1>3, <1>5, <1>6, <1>9 DEF SlotInv

\* What happens outside the daemon and the driver.
LEMMA SlotEventStep ==
    ASSUME SlotInv, NEW S \in SUBSET Disks, SlotEvent(S), act' \in [Disks -> Int],
           \A d \in Disks \ S : Register(d)' = Register(d)
    PROVE  SlotInv'
  <1>1. /\ hlog' = [hlog EXCEPT !.events = @ + 1, !.moved = @ \cup S]
        /\ UNCHANGED <<disk, lamp, info, hpc>>
    BY DEF SlotEvent
  <1>0. hlog \in HotLog
    BY DEF SlotInv, SlotType
  <1>2. /\ hlog' \in HotLog /\ hlog'.moved = hlog.moved \cup S
        /\ hlog'.ago = hlog.ago /\ hlog'.active = hlog.active
    <2>1. PICK m \in SUBSET Disks : m = hlog.moved \cup S
      BY <1>0 DEF HotLog
    <2>2. hlog' = [events |-> hlog.events + 1, ago |-> hlog.ago, active |-> hlog.active, moved |-> m]
      BY <1>0, <1>1, <2>1 DEF HotLog
    <2> QED
      BY <1>0, <2>1, <2>2 DEF HotLog
  <1>3. SlotType'
    BY <1>1, <1>2 DEF SlotInv, SlotType
  <1>4. MovedInv'
    BY <1>1, <1>2 DEF SlotInv, MovedInv
  <1> QED
    BY <1>1, <1>2, <1>3, <1>4 DEF SlotInv, BusyInv, LitInv, IdleTicks

\* A handler of the daemon that leaves the disks and their ticks alone.
LEMMA DaemonStep ==
    ASSUME SlotInv, UNCHANGED <<act, plug, disk, hlog>>, hpc' \in SlotPcs,
           info' \in [Disks -> Info],
           LitInv'
    PROVE  SlotInv'
  <1>1. SlotType'
    BY DEF SlotInv, SlotType
  <1>2. BusyInv'
    BY DEF SlotInv, BusyInv, IdleTicks
  <1>3. MovedInv'
    BY DEF SlotInv, MovedInv, Register
  <1> QED
    BY <1>1, <1>2, <1>3 DEF SlotInv

\* check_disk_busy, for either disk.
LEMMA BusyStep ==
    ASSUME SlotInv, NEW n \in Disks, HandleDiskBusy(n) PROVE SlotInv'
  <1>0. SlotType /\ BusyInv /\ MovedInv /\ LitInv /\ IdleLimit \in Int /\ IdleLimit >= 0
    BY HotswapAssumption DEF SlotInv
  <1>1. /\ hpc = <<"busy", n>> /\ hpc' = <<"button", n>> /\ UNCHANGED <<act, plug, disk>>
        /\ hlog' = [hlog EXCEPT !.active = (@ \ {n}) \cup {d \in {n} : hlog.ago[d] < IdleTicks}]
    BY DEF HandleDiskBusy, AtHandler, outside
  <1>2. /\ hlog' \in HotLog
        /\ hlog'.ago = hlog.ago /\ hlog'.moved = hlog.moved
        /\ \A m \in Disks \ {n} : m \in hlog'.active <=> m \in hlog.active
        /\ n \in hlog'.active <=> hlog.ago[n] < IdleTicks
    BY <1>0, <1>1 DEF SlotType, HotLog
  <1>3. n \in hlog'.active <=> disk[n].busy
    <2>1. /\ hlog.ago[n] \in Int /\ disk[n].idle \in 0 .. IdleLimit + 1 /\ disk[n].busy \in BOOLEAN
          /\ hlog.ago[n] = IF disk[n].busy THEN disk[n].idle ELSE IdleLimit + 2
          /\ IdleTicks = IdleLimit + 2
      BY <1>0 DEF SlotType, BusyInv, IdleTicks
    <2> QED
      BY <1>0, <1>2, <2>1
  <1>4. /\ info' \in [Disks -> Info]
        /\ \A d \in Disks : info'[d].warn = info[d].warn
        /\ \A d \in Disks \ {n} : info'[d].ledOn = info[d].ledOn
        /\ IF info[n].warn \/ ~(disk[n].busy \/ info[n].ledOn)
           THEN lamp' = lamp /\ info'[n].ledOn = info[n].ledOn
           ELSE (1 \in lamp' <=> disk[n].busy) /\ info'[n].ledOn = disk[n].busy
    <2>1. CASE info[n].warn \/ ~(disk[n].busy \/ info[n].ledOn)
      BY <1>0, <2>1 DEF SlotType, HandleDiskBusy
    <2>2. CASE ~(info[n].warn \/ ~(disk[n].busy \/ info[n].ledOn))
      <3>1. LedControl(disk[n].busy) /\ info' = [info EXCEPT ![n].ledOn = disk[n].busy]
        BY <2>2 DEF HandleDiskBusy
      <3>2. disk[n].busy \in BOOLEAN
        BY <1>0 DEF SlotType
      <3>3. 1 \in lamp' <=> disk[n].busy
        BY <3>1, <3>2 DEF LedControl
      <3> QED
        BY <1>0, <2>2, <3>1, <3>2, <3>3 DEF SlotType, Info
    <2> QED
      BY <2>1, <2>2
  <1>5. SlotType'
    <2>1. hpc' \in SlotPcs
      BY <1>1 DEF SlotPcs
    <2> QED
      BY <1>0, <1>1, <1>2, <1>4, <2>1 DEF SlotType
  <1>6. BusyInv' /\ MovedInv'
    BY <1>0, <1>1, <1>2 DEF BusyInv, IdleTicks, MovedInv, Register
  <1>7. CASE n = 1
    <2>1. 1 \in Disks \ {2} /\ 2 \in Disks \ {1}
      BY DEF Disks
    <2>2. /\ hpc = <<"busy", 1>> /\ hpc' = <<"button", 1>>
          /\ 1 \in hlog'.active <=> disk[1].busy
          /\ info'[1].warn = info[1].warn /\ info'[2].ledOn = info[2].ledOn
          /\ IF info[1].warn \/ ~(disk[1].busy \/ info[1].ledOn)
             THEN lamp' = lamp /\ info'[1].ledOn = info[1].ledOn
             ELSE (1 \in lamp' <=> disk[1].busy) /\ info'[1].ledOn = disk[1].busy
      BY <1>1, <1>3, <1>4, <1>7, <2>1
    <2>3. 1 \in lamp' => info'[1].ledOn \/ info'[2].ledOn
      BY <1>0, <2>2 DEF LitInv
    <2>4. 1 \in lamp' => info'[1].warn \/ 1 \in hlog'.active \/ info'[2].ledOn
      BY <1>0, <2>2 DEF LitInv
    <2>5. LitInv'
      BY <2>2, <2>3, <2>4 DEF LitInv
    <2> QED
      BY <1>5, <1>6, <2>5 DEF SlotInv
  <1>8. CASE n = 2
    <2>1. 1 \in Disks \ {2} /\ 2 \in Disks \ {1}
      BY DEF Disks
    <2>2. /\ hpc = <<"busy", 2>> /\ hpc' = <<"button", 2>>
          /\ 2 \in hlog'.active <=> disk[2].busy
          /\ 1 \in hlog'.active <=> 1 \in hlog.active
          /\ info'[2].warn = info[2].warn /\ info'[1].warn = info[1].warn
          /\ info'[1].ledOn = info[1].ledOn
          /\ IF info[2].warn \/ ~(disk[2].busy \/ info[2].ledOn)
             THEN lamp' = lamp /\ info'[2].ledOn = info[2].ledOn
             ELSE (1 \in lamp' <=> disk[2].busy) /\ info'[2].ledOn = disk[2].busy
      BY <1>1, <1>2, <1>3, <1>4, <1>8, <2>1
    <2>3. 1 \in lamp' => info'[1].ledOn \/ info'[2].ledOn
      BY <1>0, <2>2 DEF LitInv
    <2>4. 1 \in lamp' => info'[1].warn \/ 1 \in hlog'.active \/ info'[2].warn \/ 2 \in hlog'.active
      BY <1>0, <2>2 DEF LitInv
    <2>5. 2 \in hlog'.active /\ ~info'[2].warn => 1 \in lamp'
      BY <2>2
    <2>6. LitInv'
      BY <2>1, <2>2, <2>3, <2>4, <2>5 DEF LitInv
    <2> QED
      BY <1>5, <1>6, <2>6 DEF SlotInv
  <1> QED
    BY <1>7, <1>8 DEF Disks

\* The handlers of a plugged disk and of a button; the loop.
LEMMA LoopStep ==
    ASSUME SlotInv,
           \/ \E n \in Disks : HandleDiskPlugged(n) \/ ButtonDown(n) \/ ButtonUp(n)
           \/ NoCheckYet \/ AfterCheck
    PROVE  SlotInv'
  <1>0. SlotType /\ LitInv
    BY DEF SlotInv
  <1> DEFINE Infos == [Disks -> Info]
  <1>a. ASSUME UNCHANGED <<act, plug, disk, hlog, lamp>>, hpc' \in SlotPcs, info' \in Infos,
               \A d \in Disks : info'[d].ledOn = info[d].ledOn /\ info'[d].warn = info[d].warn,
               \/ hpc = <<"plugged", 1>> /\ hpc' = <<"busy", 1>>
               \/ hpc = <<"plugged", 2>> /\ hpc' = <<"busy", 2>>
               \/ hpc = <<"button", 1>> /\ hpc' = <<"plugged", 2>>
               \/ hpc = <<"button", 2>> /\ hpc' = <<"second", 0>>
               \/ hpc \in {<<"second", 0>>, <<"checked", 0>>} /\ hpc' = <<"plugged", 1>>
        PROVE  SlotInv'
    <2>1. 1 \in Disks /\ 2 \in Disks
      BY DEF Disks
    <2>2. LitInv'
      BY <1>0, <1>a, <2>1 DEF LitInv
    <2> QED
      BY <1>a, <2>2, DaemonStep
  <1>2. CASE \E n \in Disks : HandleDiskPlugged(n)
    <2>1. PICK n \in Disks : HandleDiskPlugged(n)
      BY <1>2
    <2>2. /\ hpc = <<"plugged", n>> /\ hpc' = <<"busy", n>> /\ UNCHANGED <<act, plug, disk, lamp, hlog>>
          /\ info' = [info EXCEPT ![n].plugged = n \in plug,
                                  ![n].first = @ \/ (n \in plug /\ ~info[n].plugged)]
      BY <2>1 DEF HandleDiskPlugged, AtHandler, outside
    <2>3. info' \in Infos /\ \A d \in Disks : info'[d].ledOn = info[d].ledOn /\ info'[d].warn = info[d].warn
      <3>0. info[n] \in Info
        BY <1>0 DEF SlotType
      <3>6. (n \in plug) \in BOOLEAN
        OBVIOUS
      <3>4. PICK b \in BOOLEAN : b = (n \in plug)
        BY <3>6, Zenon
      <3>5. PICK c \in BOOLEAN : c = (info[n].first \/ (n \in plug /\ ~info[n].plugged))
        OBVIOUS
      <3>1. PICK i : i = [info[n] EXCEPT !.plugged = b, !.first = c]
        OBVIOUS
      <3>2. i \in Info /\ i.ledOn = info[n].ledOn /\ i.warn = info[n].warn
        BY <3>0, <3>1 DEF Info
      <3>3. info' = [info EXCEPT ![n] = i]
        BY <1>0, <2>2, <3>0, <3>1, <3>4, <3>5 DEF SlotType, Info
      <3> QED
        BY <1>0, <3>2, <3>3 DEF SlotType
    <2>4. hpc' \in SlotPcs
      BY <2>2 DEF SlotPcs
    <2> QED
      BY <1>a, <2>2, <2>3, <2>4 DEF Disks
  <1>3. CASE \E n \in Disks : ButtonDown(n)
    <2>1. PICK n \in Disks : ButtonDown(n)
      BY <1>3
    <2>2. /\ hpc = <<"button", n>> /\ AfterButton(n) /\ UNCHANGED <<act, plug, disk, lamp, hlog>>
          /\ info' = [info EXCEPT ![n].event = @ \/ ~info[n].last, ![n].last = TRUE]
      BY <2>1 DEF ButtonDown, AtHandler, outside
    <2>3. info' \in Infos /\ \A d \in Disks : info'[d].ledOn = info[d].ledOn /\ info'[d].warn = info[d].warn
      BY <1>0, <2>2 DEF SlotType, Info
    <2>4. hpc' \in SlotPcs
      BY <2>2 DEF SlotPcs, AfterButton, Disks
    <2> QED
      BY <1>a, <2>2, <2>3, <2>4 DEF Disks, AfterButton
  <1>4. CASE \E n \in Disks : ButtonUp(n)
    <2>1. PICK n \in Disks : ButtonUp(n)
      BY <1>4
    <2>2. /\ hpc = <<"button", n>> /\ AfterButton(n) /\ UNCHANGED <<act, plug, disk, lamp, hlog>>
          /\ info' = [info EXCEPT ![n].event = @ /\ ~(info[n].event /\ ~info[n].first),
                                  ![n].last = FALSE, ![n].first = FALSE]
      BY <2>1 DEF ButtonUp, AtHandler, outside
    <2>3. info' \in Infos /\ \A d \in Disks : info'[d].ledOn = info[d].ledOn /\ info'[d].warn = info[d].warn
      <3>1. PICK i : i = [info[n] EXCEPT !.event = @ /\ ~(info[n].event /\ ~info[n].first),
                                         !.last = FALSE, !.first = FALSE]
        OBVIOUS
      <3>2. i \in Info /\ i.ledOn = info[n].ledOn /\ i.warn = info[n].warn
        BY <1>0, <3>1 DEF SlotType, Info
      <3>3. info' = [info EXCEPT ![n] = i]
        BY <1>0, <2>2, <3>1 DEF SlotType
      <3> QED
        BY <1>0, <3>2, <3>3 DEF SlotType
    <2>4. hpc' \in SlotPcs
      BY <2>2 DEF SlotPcs, AfterButton, Disks
    <2> QED
      BY <1>a, <2>2, <2>3, <2>4 DEF Disks, AfterButton
  <1>5. CASE NoCheckYet \/ AfterCheck
    <2>1. /\ hpc \in {<<"second", 0>>, <<"checked", 0>>} /\ hpc' = <<"plugged", 1>>
          /\ UNCHANGED <<act, plug, disk, lamp, hlog, info>>
      BY <1>5 DEF NoCheckYet, AfterCheck, AtHandler, outside
    <2>2. hpc' \in SlotPcs
      BY <2>1 DEF SlotPcs, Disks
    <2>3. info' \in Infos
      BY <1>0, <2>1 DEF SlotType
    <2> QED
      BY <1>a, <2>1, <2>2, <2>3
  <1> QED
    BY <1>2, <1>3, <1>4, <1>5

\* check_part_usage, and the end of the daemon.
LEMMA CheckStep ==
    ASSUME SlotInv, CheckPartUsage \/ DaemonExit PROVE SlotInv'
  <1>0. SlotType /\ LitInv
    BY DEF SlotInv
  <1>1. CASE DaemonExit
    <2>1. /\ hpc' = <<"stopped", 0>> /\ lamp' = {} /\ UNCHANGED <<act, plug, disk, info, hlog>>
      BY <1>1 DEF DaemonExit, outside
    <2>2. hpc' \in SlotPcs
      BY <2>1 DEF SlotPcs
    <2>3. LitInv'
      BY <2>1 DEF LitInv
    <2> QED
      BY <1>0, <2>1, <2>2, <2>3, DaemonStep DEF SlotType
  <1>2. CASE CheckPartUsage
    <2>9. PICK warn : warn = [d \in Disks |->
                                 IF (IF hctl.force THEN DelayCheck ELSE hctl.chk) + 1 > ChkPart
                                 THEN Warned(d) ELSE info[d].warn]
      OBVIOUS
    <2>1. /\ info' = [d \in Disks |-> [info[d] EXCEPT !.warn = warn[d],
                                                      !.ledOn = @ \/ (d = 1 /\ warn[2]),
                                                      !.lastWarn = @ \/ (d = 1 /\ warn[2])]]
          /\ IF warn[2] THEN LedControl(TRUE)
             ELSE IF info[2].lastWarn THEN LedControl(FALSE) ELSE UNCHANGED lamp
          /\ hpc' = <<"checked", 0>>
          /\ UNCHANGED <<act, plug, disk, hlog>>
      BY <1>2, <2>9 DEF CheckPartUsage, outside
    <2>2. \A d \in Disks : warn[d] \in BOOLEAN
      BY <1>0, <2>9 DEF SlotType, Warned, Info
    <2>3. ASSUME NEW d \in Disks
          PROVE  /\ info'[d] \in Info
                 /\ info'[d].ledOn = (info[d].ledOn \/ (d = 1 /\ warn[2]))
      <3>1. info[d] \in Info
        BY <1>0 DEF SlotType
      <3>2. info'[d] = [info[d] EXCEPT !.warn = warn[d], !.ledOn = @ \/ (d = 1 /\ warn[2]),
                                       !.lastWarn = @ \/ (d = 1 /\ warn[2])]
        BY <2>1
      <3> QED
        BY <2>2, <3>1, <3>2 DEF Info
    <2>4. 1 \in lamp' => 1 \in lamp \/ warn[2]
      BY <2>1 DEF LedControl
    <2>5. 1 \in lamp' => info'[1].ledOn \/ info'[2].ledOn
      <3>1. 1 \in Disks /\ 2 \in Disks
        BY DEF Disks
      <3> QED
        BY <1>0, <2>3, <2>4, <3>1 DEF LitInv
    <2>6. LitInv'
      BY <2>1, <2>5 DEF LitInv
    <2>7. hpc' \in SlotPcs
      BY <2>1 DEF SlotPcs
    <2>8. info' \in [Disks -> Info]
      <3>1. info' = [d \in Disks |-> info'[d]]
        BY <2>1
      <3> QED
        BY <2>3, <3>1
    <2> QED
      BY <2>1, <2>6, <2>7, <2>8, DaemonStep
  <1> QED
    BY <1>1, <1>2

\* Every step of the slots.
LEMMA SlotStep == SlotInv /\ [HotswapNext]_slotVars => SlotInv'
  <1> SUFFICES ASSUME SlotInv, [HotswapNext]_slotVars PROVE SlotInv'
    OBVIOUS
  <1>1. CASE UNCHANGED slotVars
    <2>1. UNCHANGED <<act, plug, disk, lamp, info, hpc, hlog>>
      BY <1>1 DEF slotVars
    <2> QED
      BY <2>1 DEF SlotInv, SlotType, BusyInv, MovedInv, Register, LitInv, IdleTicks
  <1>0. act \in [Disks -> Int]
    BY DEF SlotInv, SlotType
  <1>2. CASE \E d \in Disks : Transfer(d)
    <2>1. PICK d \in Disks : Transfer(d)
      BY <1>2
    <2>2. SlotEvent({d}) /\ act' = [act EXCEPT ![d] = 1 - @] /\ UNCHANGED plug
      BY <2>1 DEF Transfer
    <2>3. act' \in [Disks -> Int] /\ {d} \in SUBSET Disks
      BY <1>0, <2>2
    <2>4. \A e \in Disks \ {d} : Register(e)' = Register(e)
      BY <1>0, <2>2 DEF Register
    <2> QED
      BY <2>2, <2>3, <2>4, SlotEventStep
  <1>3. CASE \E d \in Disks : PlugOrPull(d)
    <2>1. PICK d \in Disks : PlugOrPull(d)
      BY <1>3
    <2>2. /\ SlotEvent({d} \cap {2}) /\ UNCHANGED act
          /\ plug' = IF d \in plug THEN plug \ {d} ELSE plug \cup {d}
      BY <2>1 DEF PlugOrPull
    <2>3. act' \in [Disks -> Int] /\ {d} \cap {2} \in SUBSET Disks
      BY <1>0, <2>2
    <2>4. \A e \in Disks \ ({d} \cap {2}) : Register(e)' = Register(e)
      BY <2>2 DEF Register
    <2> QED
      BY <2>2, <2>3, <2>4, SlotEventStep
  <1>4. CASE \/ \E d \in Disks : PressOrRelease(d)
             \/ \E k \in DOMAIN conf : \E u \in Usages \ {usage[k]} : UsageChanges(k, u)
             \/ SigHandler
    <2>1. SlotEvent({}) /\ UNCHANGED <<act, plug>>
      BY <1>4 DEF PressOrRelease, UsageChanges, SigHandler, outside
    <2>2. act' \in [Disks -> Int] /\ {} \in SUBSET Disks /\ \A e \in Disks \ {} : Register(e)' = Register(e)
      BY <1>0, <2>1 DEF Register
    <2> QED
      BY <2>1, <2>2, SlotEventStep
  <1> QED
    BY <1>1, <1>2, <1>3, <1>4, TickStep, BusyStep, LoopStep, CheckStep DEF HotswapNext

\* The start of the driver and of the daemon.
LEMMA SlotInit == HotswapInit => SlotInv
  <1> SUFFICES ASSUME HotswapInit PROVE SlotInv
    OBVIOUS
  <1>0. IdleLimit \in Int /\ IdleLimit >= 0
    BY HotswapAssumption
  <1>1. /\ act = [d \in Disks |-> 0] /\ lamp = {} /\ info = [d \in Disks |-> Zeroed]
        /\ hpc = <<"plugged", 1>>
        /\ hlog = [events |-> 0, ago |-> [d \in Disks |-> IdleTicks], active |-> {}, moved |-> {2}]
    BY DEF HotswapInit
  <1>2. PICK s \in {0, 1} : disk = [d \in Disks |->
            [status |-> IF d = 2 THEN s ELSE act[d], busy |-> FALSE, idle |-> 0]]
    BY DEF HotswapInit
  <1>3. hpc \in SlotPcs
    BY <1>1 DEF SlotPcs, Disks
  <1>4. SlotType
    BY <1>0, <1>1, <1>2, <1>3 DEF SlotType, Zeroed, IdleTicks, Info, HotLog, Disks
  <1>5. BusyInv
    BY <1>0, <1>1, <1>2 DEF BusyInv, IdleTicks
  <1>6. LitInv
    BY <1>1 DEF LitInv
  <1>7. MovedInv
    BY <1>1, <1>2 DEF MovedInv, Register, Disks
  <1> QED
    BY <1>4, <1>5, <1>6, <1>7 DEF SlotInv

\* The LED has its reason after every pass of the daemon, for any limits of
\* the driver's and of the daemon's counters, any configuration file and any
\* order of transfers, plugs, presses and ticks.
THEOREM LedHolds == HotswapSpec => []LedMeansActivity
  <1>1. SlotInv => LedMeansActivity
    BY DEF SlotInv, LitInv, LedMeansActivity, AtHandler
  <1> QED
    BY <1>1, SlotInit, SlotStep, PTL DEF HotswapSpec

-----------------------------------------------------------------------------
(* Ports shared by several drivers. *)

PortLabels == {"idle", "read", "modify", "write", "opRead", "opStore", "dir"}
Hows == {"direct", "fresh", "cached", "blind"}

\* The calls of a board, as far as their fields have types.
ReqType(b) ==
    [mask : SUBSET PortBits(b), set : SUBSET PortBits(b), how : Hows,
     copy : CopyNames(b) \cup {"all"}, locked : BOOLEAN, ofPled : BOOLEAN,
     next : PortLabels, dir : Uarts \cup {"none"}, on : BOOLEAN, odd : BOOLEAN]

PortLog(b) ==
    [want : SUBSET PortBits(b), raced : BOOLEAN, unlocked : BOOLEAN,
     given : SUBSET PortBits(b), odd : Nat]
USE DEF PortLog

PortType ==
    /\ board \in PortBoards
    /\ port \in SUBSET PortBits(board)
    /\ keep \in [CopyNames(board) -> SUBSET PortBits(board)]
    /\ caller \in [PortProcs -> [at : PortLabels, req : ReqType(board),
                                 val : SUBSET PortBits(board)]]
    /\ phist \in PortLog(board)

\* A request that gives a UART a mode, and one that leaves it at most one.
ForMode(r) ==
    \E u \in Uarts, m \in UartModes :
        /\ r.mask = ModeBits(u) /\ r.set = {<<u, m>>}
        /\ r.dir = u /\ (r.on <=> m = "RS485")
OfOneUart(r) ==
    /\ \A x, y \in r.set : x = y
    /\ r.set \subseteq r.mask
    /\ r.mask = {} \/ \E u \in Uarts : r.mask = ModeBits(u)

\* How a board's drivers carry out their calls: which of them build the byte in
\* a copy, which bits a call replaces, and what follows the write.
WellMade(b, r) ==
    /\ r.how = "cached" <=> b = "V2403"
    /\ r.how = "blind" <=> b = "DA681A"
    /\ r.how = "fresh" => b \in {"DA682B", "MC7100"}
    /\ r.how \in Copied => r.copy \in CopyNames(b)
    /\ b = "DA682B" => (r.how = "fresh" <=> ~r.ofPled)
    /\ b = "MC7100" => r.how = "fresh" /\ r.mask = {r.copy}
    /\ b = "DA681A" => r.mask = {"relay"}
    /\ b = "V2403" => r.mask # {}
    /\ r.locked => b \in {"DA820USB", "V2616A"}
    /\ b \notin UartBoards => r.set \subseteq r.mask /\ "other" \notin r.mask
    /\ b \in UartBoards /\ ~r.odd => ForMode(r)
    /\ b = "V2200" => OfOneUart(r)
    /\ r.next = IF b = "DA820" THEN "dir" ELSE IF b = "V2200" THEN "opRead" ELSE "idle"

\* A call under way is one the board offers; where it stands fits the board.
CallerInv ==
    \A p \in PortProcs : ~InPort(p, "idle") =>
        /\ WellMade(board, caller[p].req)
        /\ InPort(p, "modify") => caller[p].req.how \in Copied
        /\ caller[p].at \in {"opRead", "opStore"} => board = "V2200"
        /\ InPort(p, "dir") => board \in UartBoards
        /\ caller[p].req.odd => phist.odd # 0
        /\ caller[p].req.ofPled => pled # "absent"

\* moxa_pled is loaded on two boards only, auto direction is a matter of UARTs.
BoardInv ==
    /\ pled # "absent" => board \in {"DA682B", "V2201"}
    /\ autodir \subseteq IF board \in UartBoards THEN Uarts ELSE {}

CallsInv == PortType /\ CallerInv /\ BoardInv

\* One mode per UART in a byte; the bits nobody means to change in it.
OneMode(byte) == \A u \in Uarts : \E m \in UartModes : byte \cap ModeBits(u) = {<<u, m>>}
NotTwo(byte) ==
    \A u \in Uarts, m, n \in UartModes : <<u, m>> \in byte /\ <<u, n>> \in byte => m = n
KeepsOther(byte) == "other" \in byte <=> "other" \in phist.want

\* What a driver is about to write is as sane as the port, and so is the copy it
\* may be built in.
SaneInv ==
    /\ board \in UartBoards /\ phist.odd = 0 =>
          /\ OneMode(port)
          /\ \A p \in PortProcs : InPort(p, "write") => OneMode(caller[p].val)
    /\ board = "V2200" =>
          /\ NotTwo(port)
          /\ \A p \in PortProcs : InPort(p, "write") => NotTwo(caller[p].val)
    /\ board \notin UartBoards /\ pled # "ready" =>
          /\ KeepsOther(port)
          /\ board \in {"DA682B", "V2403", "MC7100"} =>
                \A c \in CopyNames(board) : KeepsOther(keep[c])
          /\ \A p \in PortProcs :
                caller[p].at \in {"modify", "write"} => KeepsOther(caller[p].val)

\* A mutex has one holder; without a call that does not take it, every call has.
MutexInv ==
    /\ \A p \in PortProcs : ~InPort(p, "idle") /\ caller[p].req.locked => mutex = p
    /\ ~phist.unlocked => \A p \in PortProcs : ~InPort(p, "idle") => caller[p].req.locked
    /\ phist.raced => phist.unlocked

\* The only call that has read a byte and not written it back.
Alone(p) == caller[p].at \in {"modify", "write"} /\ ~InBetween(p)

\* Without a race, what the only such call has read is still in the port.
FreshInv ==
    /\ port = phist.want
    /\ \A p \in PortProcs : Alone(p) =>
          /\ InPort(p, "modify") => caller[p].val = port /\ keep[caller[p].req.copy] = port
          /\ InPort(p, "write") =>
                /\ caller[p].val = Changed(caller[p].req, port)
                /\ caller[p].req.how \in Copied => keep[caller[p].req.copy] = caller[p].val

\* The V2403's copy leads the port, which follows with the write.
CacheInv ==
    /\ \A p \in PortProcs : Alone(p) => caller[p].val = keep["all"]
    /\ phist.given # {} /\ (\A p \in PortProcs : ~InPort(p, "write")) => port = keep["all"]

\* DA-682B's copy, while moxa_pled is not loaded, and the MC boards' copy of each
\* output that was given a value lead the port in the same way.
LedCopyInv ==
    pled = "absent" /\ (\A p \in PortProcs : ~InPort(p, "write")) => port = keep["all"]
OutCopyInv ==
    \A x \in phist.given :
        (\A p \in PortProcs : ~(InPort(p, "write") /\ caller[p].req.copy = x)) =>
            (x \in keep[x] <=> x \in port)

\* A call for UART u, and the only one.
OnUart(p, u) == ~InPort(p, "idle") /\ caller[p].req.mask = ModeBits(u)
OnlyOn(p, u) == OnUart(p, u) /\ \A q \in PortProcs \ {p} : ~OnUart(q, u)

\* Auto direction and keep_opmode agree with the mode bits of u.
Settled(u) ==
    /\ phist.odd = 0 => (u \in autodir <=> <<u, "RS485">> \in port)
    /\ board = "V2200" => \A x \in phist.given \cap ModeBits(u) : x \in keep["all"] <=> x \in port

\* A UART nobody configures is settled, one that a single call configures is
\* settled up to the steps the call has yet to take.
ModeInv ==
    /\ \A u \in Uarts : (\A p \in PortProcs : ~OnUart(p, u)) => Settled(u)
    /\ \A p \in PortProcs, u \in Uarts : OnlyOn(p, u) =>
          /\ caller[p].at \in {"read", "write"} => Settled(u)
          /\ caller[p].at \in {"opRead", "opStore", "dir"} =>
                port \cap ModeBits(u) = caller[p].req.set
          /\ InPort(p, "dir") /\ board = "V2200" =>
                keep["all"] \cap ModeBits(u) = caller[p].req.set
    /\ \A p \in PortProcs : InPort(p, "opStore") => caller[p].val = keep["all"]

UpdateInv ==
    /\ MutexInv
    /\ ~phist.raced =>
          /\ board # "V2403" => FreshInv
          /\ board = "V2403" => CacheInv
          /\ board = "DA682B" => LedCopyInv
          /\ board = "MC7100" => OutCopyInv
          /\ board = "V2200" \/ (board = "DA820" /\ phist.odd = 0) => ModeInv

-----------------------------------------------------------------------------
(* The calls each board offers. *)

\* A call that replaces one of some bits.
LEMMA OneBit ==
    ASSUME NEW bits, NEW r \in SetsOneBit(bits)
    PROVE  /\ r = Request(r.mask, r.set)
           /\ \E x \in bits : r.mask = {x}
           /\ r.set \subseteq r.mask
           /\ r.mask \subseteq bits
  BY DEF SetsOneBit, Request, UartRequest

\* A call that sets the mode of one UART.
LEMMA OneModeOnly ==
    ASSUME NEW r \in SetsMode
    PROVE  \E u \in Uarts, m \in UartModes :
              r = UartRequest(ModeBits(u), {<<u, m>>}, u, m = "RS485", FALSE)
  BY DEF SetsMode, UartRequest

\* Every call has the types of its board and is made as WellMade says.
LEMMA CallShape ==
    ASSUME NEW b \in PortBoards, NEW r \in Requests(b)
    PROVE  r \in ReqType(b) /\ WellMade(b, r)
  <1> DEFINE Made(m, t, h, c, l, o, n) ==
        [mask |-> m, set |-> t, how |-> h, copy |-> c, locked |-> l, ofPled |-> o, next |-> n,
         dir |-> "none", on |-> FALSE, odd |-> FALSE]
  <1>0. ASSUME NEW m, NEW t, NEW h \in Hows, NEW c \in CopyNames(b) \cup {"all"},
               NEW l \in BOOLEAN, NEW o \in BOOLEAN, NEW n \in PortLabels,
               m \subseteq PortBits(b), t \subseteq m, r = Made(m, t, h, c, l, o, n)
        PROVE  r \in ReqType(b)
    BY <1>0 DEF ReqType
  <1> HIDE DEF Made
  <1> USE DEF PortBoards, UartBoards, Copied, Hows, PortLabels
  <1>1. CASE b = "DA682B"
    <2>1. PICK s \in SetsOneBit({"do0", "led"}) \cup SetsOneBit({"led"}) :
              r = [s EXCEPT !.how = "fresh"] \/ r = [s EXCEPT !.ofPled = TRUE]
      BY <1>1 DEF Requests, DA_682B_DO_dio_outb, pled_write
    <2>2. PICK m, t : /\ s = Request(m, t) /\ t \subseteq m
                      /\ m \subseteq {"do0", "led"}
      BY OneBit
    <2>3. \/ r = Made(m, t, "fresh", "all", FALSE, FALSE, "idle")
          \/ r = Made(m, t, "direct", "all", FALSE, TRUE, "idle")
      BY <2>1, <2>2 DEF Request, UartRequest, Made
    <2>4. r \in ReqType(b)
      <3>1. m \subseteq PortBits(b)
        BY <1>1, <2>2 DEF PortBits
      <3> QED
        BY <3>1, <2>2, <2>3, <1>0
    <2>5. WellMade(b, r)
      <3>1. "other" \notin m
        BY <2>2
      <3>2. CASE r = Made(m, t, "fresh", "all", FALSE, FALSE, "idle")
        BY <1>1, <2>2, <3>1, <3>2 DEF Made, WellMade, CopyNames
      <3>3. CASE r = Made(m, t, "direct", "all", FALSE, TRUE, "idle")
        BY <1>1, <2>2, <3>1, <3>3 DEF Made, WellMade, CopyNames
      <3> QED
        BY <2>3, <3>2, <3>3
    <2> QED
      BY <2>4, <2>5
  <1>2. CASE b = "V2403"
    <2>1. PICK s \in SetsOneBit({"do0", "do1"}) : r = [s EXCEPT !.how = "cached"]
      BY <1>2 DEF Requests, V2403_dio_outb
    <2>2. PICK m, t : /\ s = Request(m, t) /\ t \subseteq m
                      /\ \E x \in {"do0", "do1"} : m = {x}
      BY OneBit
    <2>3. r = Made(m, t, "cached", "all", FALSE, FALSE, "idle")
      BY <2>1, <2>2 DEF Request, UartRequest, Made
    <2>4. r \in ReqType(b)
      <3>1. m \subseteq PortBits(b)
        BY <1>2, <2>2 DEF PortBits
      <3> QED
        BY <3>1, <2>2, <2>3, <1>0
    <2>5. WellMade(b, r)
      BY <1>2, <2>2, <2>3 DEF Made, WellMade, CopyNames
    <2> QED
      BY <2>4, <2>5
  <1>3. CASE b = "MC7100"
    <2>1. PICK s \in SetsOneBit({"do0", "do1"}) :
              r = [s EXCEPT !.how = "fresh", !.copy = CHOOSE x \in s.mask : TRUE]
      <3>1. PICK s \in SetsOneBit({"do0", "do1"}) :
                r = [s EXCEPT !.how = "fresh", !.copy = CHOOSE x \in s.mask : TRUE]
        BY <1>3 DEF Requests, MC_7130_MP_dio_outb
      <3> QED
        BY <3>1
    <2>2. PICK m, t : /\ s = Request(m, t) /\ t \subseteq m
                      /\ \E x \in {"do0", "do1"} : m = {x}
      BY OneBit
    <2> DEFINE c == CHOOSE x \in s.mask : TRUE
    <2>c. c \in {"do0", "do1"} /\ c \in CopyNames(b)
      BY <1>3, <2>2 DEF CopyNames, PortBits, Request, UartRequest
    <2>d. r = [s EXCEPT !.how = "fresh", !.copy = c]
      BY <2>1
    <2> HIDE DEF c
    <2>3. r = Made(m, t, "fresh", c, FALSE, FALSE, "idle")
      BY <2>2, <2>d DEF Request, UartRequest, Made
    <2>4. r \in ReqType(b)
      <3>1. m \subseteq PortBits(b)
        BY <1>3, <2>2 DEF PortBits
      <3> QED
        BY <3>1, <2>2, <2>3, <1>0, <2>c
    <2>5. m = {c}
      BY <2>2 DEF c, Request, UartRequest
    <2>6. WellMade(b, r)
      BY <1>3, <2>2, <2>3, <2>c, <2>5 DEF Made, WellMade, CopyNames
    <2> QED
      BY <2>4, <2>6
  <1>4. CASE b = "V2201"
    <2>1. PICK s \in SetsOneBit({"led"}) \cup SetsOneBit({"slot"}) :
              r = [s EXCEPT !.ofPled = TRUE]
      BY <1>4 DEF Requests, pled_write, pled_slot_ioctl
    <2>2. PICK m, t : /\ s = Request(m, t) /\ t \subseteq m
                      /\ m \subseteq {"slot", "led"}
      BY OneBit
    <2>3. r = Made(m, t, "direct", "all", FALSE, TRUE, "idle")
      BY <2>1, <2>2 DEF Request, UartRequest, Made
    <2>4. r \in ReqType(b)
      <3>1. m \subseteq PortBits(b)
        BY <1>4, <2>2 DEF PortBits
      <3> QED
        BY <3>1, <2>2, <2>3, <1>0
    <2>5. WellMade(b, r)
      BY <1>4, <2>2, <2>3 DEF Made, WellMade, CopyNames
    <2> QED
      BY <2>4, <2>5
  <1>5. CASE b = "V2400A"
    <2>1. r = Request({}, {}) \/ r \in SetsOneBit({"slot"})
      BY <1>5 DEF Requests, power_control_ioctl, dkcontrol_ioctl
    <2>2. /\ r = Request(r.mask, r.set) /\ r.set \subseteq r.mask
          /\ r.mask \subseteq {"slot"}
      BY <2>1, OneBit DEF Request, UartRequest
    <2>3. r = Made(r.mask, r.set, "direct", "all", FALSE, FALSE, "idle")
      BY <2>2 DEF Request, UartRequest, Made
    <2>4. r \in ReqType(b)
      <3>1. r.mask \subseteq PortBits(b)
        BY <1>5, <2>2 DEF PortBits
      <3> QED
        BY <3>1, <2>2, <2>3, <1>0
    <2>5. WellMade(b, r)
      BY <1>5, <2>2, <2>3 DEF Made, WellMade, CopyNames
    <2> QED
      BY <2>4, <2>5
  <1>6. CASE b = "DA820USB" \/ b = "V2616A"
    <2>1. PICK s \in SetsOneBit({"front", "rear"}) \cup SetsOneBit({"front"})
                       \cup SetsOneBit({"rear"}) :
              r = s \/ r = [s EXCEPT !.locked = TRUE]
      BY <1>6 DEF Requests, usb_power_ioctl, usb_gpio_ioctl,
                  proc_write_front_end_usb_power, proc_write_rear_end_usb_power
    <2>2. PICK m, t : /\ s = Request(m, t) /\ t \subseteq m
                      /\ m \subseteq {"front", "rear"}
      BY OneBit
    <2>3. \/ r = Made(m, t, "direct", "all", FALSE, FALSE, "idle")
          \/ r = Made(m, t, "direct", "all", TRUE, FALSE, "idle")
      BY <2>1, <2>2 DEF Request, UartRequest, Made
    <2>4. r \in ReqType(b)
      <3>1. m \subseteq PortBits(b)
        BY <1>6, <2>2 DEF PortBits
      <3> QED
        BY <3>1, <2>2, <2>3, <1>0
    <2>5. WellMade(b, r)
      <3>1. "other" \notin m
        BY <2>2
      <3>2. CASE r = Made(m, t, "direct", "all", FALSE, FALSE, "idle")
        BY <1>6, <2>2, <3>1, <3>2 DEF Made, WellMade, CopyNames
      <3>3. CASE r = Made(m, t, "direct", "all", TRUE, FALSE, "idle")
        BY <1>6, <2>2, <3>1, <3>3 DEF Made, WellMade, CopyNames
      <3> QED
        BY <2>3, <3>2, <3>3
    <2> QED
      BY <2>4, <2>5
  <1>7. CASE b = "V2416A"
    <2>1. r \in SetsOneBit({"led1", "led2"})
      BY <1>7 DEF Requests, hotswap_led_control
    <2>2. /\ r = Request(r.mask, r.set) /\ r.set \subseteq r.mask
          /\ r.mask \subseteq {"led1", "led2"}
      BY <2>1, OneBit
    <2>3. r = Made(r.mask, r.set, "direct", "all", FALSE, FALSE, "idle")
      BY <2>2 DEF Request, UartRequest, Made
    <2>4. r \in ReqType(b)
      <3>1. r.mask \subseteq PortBits(b)
        BY <1>7, <2>2 DEF PortBits
      <3> QED
        BY <3>1, <2>2, <2>3, <1>0
    <2>5. WellMade(b, r)
      BY <1>7, <2>2, <2>3 DEF Made, WellMade, CopyNames
    <2> QED
      BY <2>4, <2>5
  <1>8. CASE b = "DA681A"
    <2>1. PICK s \in SetsOneBit({"relay"}) : r = [s EXCEPT !.how = "blind"]
      BY <1>8 DEF Requests, relay_write
    <2>2. PICK m, t : /\ s = Request(m, t) /\ t \subseteq m
                      /\ m = {"relay"}
      BY OneBit
    <2>3. r = Made(m, t, "blind", "all", FALSE, FALSE, "idle")
      BY <2>1, <2>2 DEF Request, UartRequest, Made
    <2>4. r \in ReqType(b)
      <3>1. m \subseteq PortBits(b)
        BY <1>8, <2>2 DEF PortBits
      <3> QED
        BY <3>1, <2>2, <2>3, <1>0
    <2>5. WellMade(b, r)
      BY <1>8, <2>2, <2>3 DEF Made, WellMade, CopyNames
    <2> QED
      BY <2>4, <2>5
  <1>9. CASE b \in UartBoards
    <2> DEFINE Uart(m, t, n, d, o, x) ==
          [mask |-> m, set |-> t, how |-> "direct", copy |-> "all", locked |-> FALSE,
           ofPled |-> FALSE, next |-> n, dir |-> d, on |-> o, odd |-> x]
               after == IF b = "DA820" THEN "dir" ELSE "opRead"
    <2>0. PortBits(b) = UNION {ModeBits(u) : u \in Uarts}
      BY <1>9 DEF PortBits
    <2>1. PICK s : /\ \/ s \in SetsMode
                      \/ b = "DA820" /\ s \in UnknownType \cup UnknownPort
                      \/ b = "V2200" /\ s \in UnknownMode \cup BeyondPorts
                   /\ r = [s EXCEPT !.next = after]
      BY <1>9 DEF Requests, uart8250_mode_ioctl, v2200_io_ioctl
    <2>2. ASSUME s \in SetsMode PROVE r \in ReqType(b) /\ WellMade(b, r)
      <3>1. PICK u \in Uarts, x \in UartModes :
                s = UartRequest(ModeBits(u), {<<u, x>>}, u, x = "RS485", FALSE)
        BY <2>2, OneModeOnly
      <3>2. r = Uart(ModeBits(u), {<<u, x>>}, after, u, x = "RS485", FALSE)
        BY <2>1, <3>1 DEF Request, UartRequest
      <3>3. ModeBits(u) \subseteq PortBits(b) /\ {<<u, x>>} \subseteq PortBits(b)
        BY <2>0 DEF ModeBits
      <3>4. r \in ReqType(b)
        BY <3>2, <3>3 DEF ReqType
      <3>5. ForMode(r) /\ OfOneUart(r)
        <4>1. {<<u, x>>} \subseteq ModeBits(u)
          BY DEF ModeBits
        <4>2. ForMode(r)
          BY <3>2 DEF ForMode
        <4>3. OfOneUart(r)
          BY <3>2, <4>1 DEF OfOneUart
        <4> QED
          BY <4>2, <4>3
      <3> QED
        BY <1>9, <3>2, <3>4, <3>5 DEF WellMade
    <2>3. ASSUME b = "DA820", s \in UnknownType \cup UnknownPort
          PROVE  r \in ReqType(b) /\ WellMade(b, r)
      <3>1. PICK m \in {{}} \cup {ModeBits(u) : u \in Uarts}, t \in AnyBit,
                 d \in Uarts \cup {"none"}, o \in BOOLEAN :
                s = UartRequest(m, t, d, o, TRUE)
        <4>1. CASE s \in UnknownType
          <5>1. PICK u \in Uarts, t \in AnyBit : s = UartRequest(ModeBits(u), t, u, FALSE, TRUE)
            BY <4>1 DEF UnknownType, UartRequest
          <5> QED
            BY <5>1
        <4>2. CASE s \in UnknownPort
          BY <4>2 DEF UnknownPort, UartRequest
        <4> QED
          BY <2>3, <4>1, <4>2
      <3>2. r = Uart(m, t, "dir", d, o, TRUE)
        BY <2>1, <2>3, <3>1 DEF Request, UartRequest
      <3>3. m \subseteq PortBits(b)
        BY <2>0, <3>1
      <3>4. t \subseteq PortBits(b)
        BY <2>0, <3>1 DEF AnyBit, ModeBits
      <3>5. r \in ReqType(b)
        BY <3>2, <3>3, <3>4 DEF ReqType
      <3> QED
        BY <1>9, <2>3, <3>2, <3>5 DEF WellMade
    <2>4. ASSUME b = "V2200", s \in UnknownMode \cup BeyondPorts
          PROVE  r \in ReqType(b) /\ WellMade(b, r)
      <3>1. PICK m \in {{}} \cup {ModeBits(u) : u \in Uarts}, t \in SUBSET PortBits(b),
                 d \in Uarts \cup {"none"} :
               s = UartRequest(m, t, d, FALSE, TRUE) /\ t \subseteq m /\ \A x, y \in t : x = y
        <4>1. CASE s \in UnknownMode
          <5>1. PICK u \in Uarts : s = UartRequest(ModeBits(u), {}, u, FALSE, TRUE)
            BY <4>1 DEF UnknownMode
          <5>2. {} \in SUBSET PortBits(b) /\ {} \subseteq ModeBits(u) /\ \A x, y \in {} : x = y
            OBVIOUS
          <5> QED
            BY <5>1, <5>2
        <4>2. CASE s \in BeyondPorts
          <5>1. CASE s = UartRequest({}, {}, "none", FALSE, TRUE)
            <6>1. /\ {} \in {{}} \cup {ModeBits(u) : u \in Uarts} /\ {} \in SUBSET PortBits(b)
                  /\ \A x, y \in {} : x = y
              OBVIOUS
            <6> QED
              BY <5>1, <6>1
          <5>2. ASSUME NEW u \in Uarts, NEW x \in UartModes,
                       s = UartRequest(ModeBits(u), {<<u, x>>}, "none", FALSE, TRUE)
                PROVE  \E m \in {{}} \cup {ModeBits(v) : v \in Uarts}, t \in SUBSET PortBits(b),
                          d \in Uarts \cup {"none"} :
                          /\ s = UartRequest(m, t, d, FALSE, TRUE) /\ t \subseteq m
                          /\ \A y, z \in t : y = z
            <6>1. /\ {<<u, x>>} \in SUBSET PortBits(b) /\ {<<u, x>>} \subseteq ModeBits(u)
                  /\ \A y, z \in {<<u, x>>} : y = z
              BY <2>0 DEF ModeBits
            <6> QED
              BY <5>2, <6>1
          <5>3. \/ s = UartRequest({}, {}, "none", FALSE, TRUE)
                \/ \E u \in Uarts, x \in UartModes :
                      s = UartRequest(ModeBits(u), {<<u, x>>}, "none", FALSE, TRUE)
            BY <4>2 DEF BeyondPorts, UartRequest
          <5> QED
            BY <5>1, <5>2, <5>3
        <4> QED
          BY <2>4, <4>1, <4>2
      <3>2. r = Uart(m, t, "opRead", d, FALSE, TRUE)
        BY <2>1, <2>4, <3>1 DEF Request, UartRequest
      <3>3. m \subseteq PortBits(b) /\ t \subseteq PortBits(b)
        BY <2>0, <3>1
      <3>4. r \in ReqType(b)
        BY <3>2, <3>3 DEF ReqType
      <3>5. OfOneUart(r)
        BY <3>1, <3>2 DEF OfOneUart
      <3> QED
        BY <1>9, <2>4, <3>2, <3>4, <3>5 DEF WellMade
    <2> QED
      BY <2>1, <2>2, <2>3, <2>4
  <1> QED
    BY <1>1, <1>2, <1>3, <1>4, <1>5, <1>6, <1>7, <1>8, <1>9

-----------------------------------------------------------------------------
(* Types, and what a call under way is. *)

\* The record of an idle process is a caller of every board.
LEMMA IdleTyped ==
    ASSUME NEW b \in PortBoards
    PROVE  IdleCaller \in [at : PortLabels, req : ReqType(b), val : SUBSET PortBits(b)]
  BY DEF IdleCaller, Request, UartRequest, ReqType, PortLabels, Hows

\* Nobody is in a driver at first.
LEMMA CallsInit == PortInit => CallsInv
  <1> SUFFICES ASSUME PortInit PROVE CallsInv
    OBVIOUS
  <1>1. board \in PortBoards
    BY DEF PortInit
  <1>2. port \in SUBSET PortBits(board)
    <2>1. CASE board \in UartBoards
      <3>1. PortBits(board) = ModeBits("com1") \cup ModeBits("com2")
        BY <2>1 DEF PortBits, UartBoards, Uarts
      <3>2. PICK m \in UartModes : port = {<<"com1", "RS232">>, <<"com2", m>>}
        BY <2>1 DEF PortInit
      <3> QED
        BY <3>1, <3>2 DEF ModeBits, UartModes
    <2> QED
      BY <2>1 DEF PortInit
  <1>3. keep \in [CopyNames(board) -> SUBSET PortBits(board)]
    <2>1. {<<u, "RS232">> : u \in Uarts} \subseteq UNION {ModeBits(u) : u \in Uarts}
      BY DEF ModeBits, UartModes
    <2>2. board = "V2200" => {<<u, "RS232">> : u \in Uarts} \subseteq PortBits(board)
      BY <2>1 DEF PortBits
    <2> QED
      BY <1>2, <2>2 DEF PortInit
  <1>4. caller \in [PortProcs -> [at : PortLabels, req : ReqType(board),
                                  val : SUBSET PortBits(board)]]
    BY <1>1, IdleTyped DEF PortInit
  <1>5. phist \in PortLog(board)
    BY <1>2 DEF PortInit
  <1>6. CallerInv
    BY DEF PortInit, CallerInv, InPort, IdleCaller
  <1>7. BoardInv
    BY DEF PortInit, BoardInv, InRS485
  <1> QED
    BY <1>1, <1>2, <1>3, <1>4, <1>5, <1>6, <1>7 DEF CallsInv, PortType

\* A mask of mode bits tells its UART.
LEMMA UartFound ==
    ASSUME NEW u \in Uarts, NEW w \in Uarts, ModeBits(w) = ModeBits(u) PROVE w = u
  <1>1. <<u, "RS232">> \in ModeBits(w)
    BY DEF ModeBits, UartModes
  <1> QED
    BY <1>1 DEF ModeBits

\* What a driver makes of a byte is a byte of the board.
LEMMA ChangedTyped ==
    ASSUME NEW b, NEW r \in ReqType(b), NEW byte \in SUBSET PortBits(b)
    PROVE  Changed(r, byte) \in SUBSET PortBits(b)
  BY DEF Changed, ReqType

\* Every step of a call keeps the types and leaves the call where its board
\* lets it stand.
LEMMA CallsStep == CallsInv /\ [PortNext]_portVars => CallsInv'
  <1> SUFFICES ASSUME CallsInv, [PortNext]_portVars PROVE CallsInv'
    OBVIOUS
  <1> USE DEF CallsInv
  <1> DEFINE Caller == [at : PortLabels, req : ReqType(board), val : SUBSET PortBits(board)]
  <1>0. /\ board \in PortBoards /\ caller \in [PortProcs -> Caller] /\ IdleCaller \in Caller
        /\ \A p \in PortProcs : caller[p].req \in ReqType(board)
    BY IdleTyped DEF PortType
  <1>1. ASSUME NEW p \in PortProcs, NEW r \in Requests(board), PortBegin(p, r) PROVE CallsInv'
    <2>1. r \in ReqType(board) /\ WellMade(board, r)
      BY <1>0, CallShape
    <2>2. PortType'
      <3>1. caller' \in [PortProcs -> Caller]
        <4>1. [at |-> "read", req |-> r, val |-> {}] \in Caller
          BY <2>1 DEF PortLabels
        <4> QED
          BY <1>0, <1>1, <4>1 DEF PortBegin
      <3>2. phist' \in PortLog(board)
        <4>1. /\ (phist.unlocked \/ ~r.locked) \in BOOLEAN
              /\ (IF r.odd THEN phist.odd + 1 ELSE phist.odd) \in Nat
          BY DEF PortType
        <4>2. phist' = [phist EXCEPT !.unlocked = phist.unlocked \/ ~r.locked,
                                     !.odd = IF r.odd THEN phist.odd + 1 ELSE phist.odd]
          BY <1>1 DEF PortBegin
        <4> QED
          BY <4>1, <4>2 DEF PortType
      <3> QED
        BY <1>1, <3>1, <3>2 DEF PortType, PortBegin
    <2>3. CallerInv'
      BY <1>0, <1>1, <2>1 DEF PortType, CallerInv, PortBegin, InPort, Copied
    <2> QED
      BY <1>1, <2>2, <2>3 DEF BoardInv, PortBegin
  <1>2. ASSUME NEW p \in PortProcs, PortRead(p) PROVE CallsInv'
    <2> DEFINE r == caller[p].req
               byte == IF r.how = "cached" THEN keep["all"] ELSE port
    <2>1. WellMade(board, r)
      BY <1>2 DEF PortRead, CallerInv, InPort
    <2>2. byte \in SUBSET PortBits(board)
      BY <2>1 DEF PortType, WellMade, Copied, CopyNames
    <2>3. Changed(r, byte) \in SUBSET PortBits(board)
      BY <1>0, <2>2, ChangedTyped
    <2>4. PortType'
      <3>1. keep' = IF r.how = "fresh" THEN [keep EXCEPT ![r.copy] = byte] ELSE keep
        BY <1>2 DEF PortRead
      <3>2. caller' = [caller EXCEPT ![p].at = IF r.how \in Copied THEN "modify" ELSE "write",
                                     ![p].val = IF r.how \in Copied THEN byte
                                                ELSE Changed(r, byte)]
        BY <1>2 DEF PortRead
      <3> HIDE DEF r, byte
      <3>3. keep' \in [CopyNames(board) -> SUBSET PortBits(board)]
        BY <2>2, <3>1 DEF PortType
      <3>4. caller' \in [PortProcs -> Caller]
        BY <1>0, <2>2, <2>3, <3>2 DEF PortLabels
      <3> QED
        BY <1>2, <3>3, <3>4 DEF PortType, PortRead
    <2>5. CallerInv'
      BY <1>0, <1>2, <2>1 DEF PortType, CallerInv, PortRead, InPort, Copied
    <2> QED
      BY <1>2, <2>4, <2>5 DEF BoardInv, PortRead
  <1>3. ASSUME NEW p \in PortProcs, PortModify(p) PROVE CallsInv'
    <2> DEFINE r == caller[p].req
    <2>1. WellMade(board, r) /\ r.how \in Copied
      BY <1>3 DEF PortModify, CallerInv, InPort
    <2>2. keep[r.copy] \in SUBSET PortBits(board) /\ caller[p].val \in SUBSET PortBits(board)
      BY <1>0, <2>1 DEF PortType, WellMade
    <2>3. PICK byte \in {caller[p].val, keep[r.copy]} :
              /\ keep' = [keep EXCEPT ![r.copy] = Changed(r, byte)]
              /\ caller' = [caller EXCEPT ![p].at = "write", ![p].val = Changed(r, byte)]
      BY <1>3 DEF PortModify
    <2>4. Changed(r, byte) \in SUBSET PortBits(board)
      BY <1>0, <2>2, <2>3, ChangedTyped
    <2>5. PortType'
      BY <1>0, <1>3, <2>3, <2>4 DEF PortType, PortModify, PortLabels
    <2>6. CallerInv'
      BY <1>0, <1>3, <2>1, <2>3 DEF PortType, CallerInv, PortModify, InPort, Copied
    <2> QED
      BY <1>3, <2>5, <2>6 DEF BoardInv, PortModify
  <1>4. ASSUME NEW p \in PortProcs, PortWrite(p) PROVE CallsInv'
    <2> DEFINE r == caller[p].req
    <2>1. WellMade(board, r)
      BY <1>4 DEF PortWrite, CallerInv, InPort
    <2>2. /\ r.how \in Copied => keep[r.copy] \in SUBSET PortBits(board)
          /\ caller[p].val \in SUBSET PortBits(board)
      BY <1>0, <2>1 DEF PortType, WellMade
    <2>3. port' \in SUBSET PortBits(board)
      BY <1>4, <2>2 DEF PortWrite
    <2>4. phist' \in PortLog(board)
      <3>1. /\ r.mask \in SUBSET PortBits(board) /\ r.set \in SUBSET PortBits(board)
            /\ (phist.raced \/ InBetween(p)) \in BOOLEAN
        BY <1>0 DEF ReqType, PortType, InBetween
      <3>2. phist' = [phist EXCEPT !.want = (phist.want \ r.mask) \cup r.set,
                                   !.raced = phist.raced \/ InBetween(p),
                                   !.given = phist.given \cup r.mask]
        BY <1>4 DEF PortWrite
      <3> HIDE DEF r
      <3> QED
        BY <3>1, <3>2 DEF PortType
    <2>5. r.next \in PortLabels
      BY <1>0 DEF ReqType
    <2>6. caller' \in [PortProcs -> Caller]
      BY <1>0, <1>4, <2>5 DEF PortWrite, GoesTo
    <2>7. PortType'
      BY <1>4, <2>3, <2>4, <2>6 DEF PortType, PortWrite
    <2>8. CallerInv'
      <3>1. r.next = IF board = "DA820" THEN "dir" ELSE IF board = "V2200" THEN "opRead" ELSE "idle"
        BY <2>1 DEF WellMade
      <3>2. board' = board
        BY <1>4 DEF PortWrite
      <3>3. ASSUME NEW q \in PortProcs, q # p PROVE caller'[q] = caller[q]
        BY <1>0, <1>4, <3>3 DEF PortWrite, GoesTo
      <3>4. caller'[p] = IF r.next = "idle" THEN IdleCaller ELSE [caller[p] EXCEPT !.at = r.next]
        BY <1>0, <1>4 DEF PortWrite, GoesTo
      <3>5. r.next # "idle" => caller'[p].req = r /\ caller'[p].at = r.next
        BY <1>0, <3>4
      <3> HIDE DEF r
      <3> SUFFICES ASSUME NEW q \in PortProcs, ~InPort(q, "idle")'
                   PROVE  /\ WellMade(board, caller'[q].req)
                          /\ caller'[q].at = "modify" => caller'[q].req.how \in Copied
                          /\ caller'[q].at \in {"opRead", "opStore"} => board = "V2200"
                          /\ caller'[q].at = "dir" => board \in UartBoards
                          /\ caller'[q].req.odd => phist.odd # 0
                          /\ caller'[q].req.ofPled => pled # "absent"
        <4>1. phist'.odd = phist.odd /\ pled' = pled
          BY <1>4 DEF PortWrite, PortType
        <4> QED
          BY <3>2, <4>1 DEF CallerInv, InPort
      <3>6. CASE q = p
        <4>1. r.next # "idle"
          BY <3>4, <3>6 DEF InPort, IdleCaller
        <4> QED
          BY <1>4, <2>1, <3>1, <3>5, <3>6, <4>1 DEF UartBoards, CallerInv, PortWrite, InPort, r
      <3>7. CASE q # p
        BY <3>3, <3>7 DEF CallerInv, InPort
      <3> QED
        BY <3>6, <3>7
    <2> QED
      BY <1>4, <2>7, <2>8 DEF BoardInv, PortWrite
  <1>5. ASSUME NEW p \in PortProcs, OpmodeRead(p) PROVE CallsInv'
    <2>1. board = "V2200"
      BY <1>5 DEF OpmodeRead, CallerInv, InPort
    <2>2. keep["all"] \in SUBSET PortBits(board)
      BY <2>1 DEF PortType, CopyNames
    <2>3. PortType'
      BY <1>0, <1>5, <2>2 DEF PortType, OpmodeRead, PortLabels
    <2>4. CallerInv'
      BY <1>0, <1>5 DEF CallerInv, OpmodeRead, InPort
    <2> QED
      BY <1>5, <2>3, <2>4 DEF BoardInv, OpmodeRead
  <1>6. ASSUME NEW p \in PortProcs, OpmodeStore(p) PROVE CallsInv'
    <2>1. board = "V2200"
      BY <1>6 DEF OpmodeStore, CallerInv, InPort
    <2>2. Changed(caller[p].req, caller[p].val) \in SUBSET PortBits(board)
      BY <1>0, ChangedTyped
    <2>3. PortType'
      BY <1>0, <1>6, <2>2 DEF PortType, OpmodeStore, PortLabels, GoesTo
    <2>4. CallerInv'
      BY <1>0, <1>6, <2>1 DEF CallerInv, OpmodeStore, InPort, GoesTo, UartBoards
    <2> QED
      BY <1>6, <2>3, <2>4 DEF BoardInv, OpmodeStore
  <1>7. ASSUME NEW p \in PortProcs, AutoDirection(p) PROVE CallsInv'
    <2>1. board \in UartBoards /\ caller[p].req.dir \in Uarts \cup {"none"}
      BY <1>0, <1>7 DEF AutoDirection, CallerInv, InPort, ReqType
    <2>2. PortType'
      BY <1>0, <1>7 DEF PortType, AutoDirection, GoesTo, SameBits
    <2>3. CallerInv'
      BY <1>0, <1>7 DEF CallerInv, AutoDirection, InPort, GoesTo, IdleCaller
    <2> QED
      BY <1>7, <2>1, <2>2, <2>3 DEF BoardInv, AutoDirection
  <1>8. CASE PledRegister
    BY <1>8 DEF PledRegister, PortType, CallerInv, BoardInv, InPort
  <1>9. CASE PledInit
    <2>1. board \in {"DA682B", "V2201"} /\ {"led"} \in SUBSET PortBits(board)
      BY <1>9 DEF PledInit, BoardInv, PortBits
    <2>2. PortType'
      BY <1>9, <2>1 DEF PledInit, PortType, InBetween
    <2> QED
      BY <1>9, <2>1, <2>2 DEF PledInit, CallerInv, BoardInv, InPort
  <1>10. CASE UNCHANGED portVars
    BY <1>10 DEF portVars, PortType, CallerInv, BoardInv, InPort
  <1> QED
    BY <1>1, <1>2, <1>3, <1>4, <1>5, <1>6, <1>7, <1>8, <1>9, <1>10 DEF PortNext

-----------------------------------------------------------------------------
(* Modes and foreign bits. *)

\* Setting the mode of one UART gives it that mode and leaves the other alone.
LEMMA ModeSet ==
    ASSUME NEW r, NEW byte, NEW u \in Uarts,
           r.mask = ModeBits(u), r.set \subseteq r.mask, r.how # "blind"
    PROVE  /\ Changed(r, byte) \cap ModeBits(u) = r.set
           /\ \A w \in Uarts : w # u => Changed(r, byte) \cap ModeBits(w) = byte \cap ModeBits(w)
  <1>1. \A w \in Uarts : w # u => ModeBits(w) \cap ModeBits(u) = {}
    BY DEF ModeBits
  <1> QED
    BY <1>1 DEF Changed

\* A request that leaves a UART at most one mode changes that UART's bits only.
LEMMA OfOneUartOnly ==
    ASSUME NEW r, OfOneUart(r)
    PROVE  \/ r.mask = {} /\ r.set = {}
           \/ \E u \in Uarts : r.mask = ModeBits(u) /\ r.set \subseteq r.mask
  BY DEF OfOneUart

\* A call for a mode there is keeps one mode per UART.
LEMMA StillOneMode ==
    ASSUME NEW b \in UartBoards, NEW r, WellMade(b, r), ~r.odd, NEW byte, OneMode(byte)
    PROVE  OneMode(Changed(r, byte))
  <1>1. PICK u \in Uarts, m \in UartModes : r.mask = ModeBits(u) /\ r.set = {<<u, m>>}
    BY DEF WellMade, ForMode
  <1>2. r.how # "blind" /\ r.set \subseteq r.mask
    BY <1>1 DEF WellMade, UartBoards, ModeBits
  <1> QED
    BY <1>1, <1>2, ModeSet DEF OneMode

\* No call of the V2200 gives a UART a second mode.
LEMMA StillNotTwo ==
    ASSUME NEW r, WellMade("V2200", r), NEW byte, NotTwo(byte)
    PROVE  NotTwo(Changed(r, byte))
  <1>1. r.how # "blind" /\ OfOneUart(r)
    BY DEF WellMade
  <1>2. CASE r.mask = {} /\ r.set = {}
    BY <1>1, <1>2 DEF Changed
  <1>3. ASSUME NEW u \in Uarts, r.mask = ModeBits(u) PROVE NotTwo(Changed(r, byte))
    <2>1. \A m \in UartModes : <<u, m>> \in r.mask
      BY <1>3 DEF ModeBits
    <2>2. \A w \in Uarts, m \in UartModes : <<w, m>> \in r.set => w = u
      BY <1>1, <1>3 DEF OfOneUart, ModeBits
    <2>3. \A m, n \in UartModes : <<u, m>> \in r.set /\ <<u, n>> \in r.set => m = n
      BY <1>1 DEF OfOneUart
    <2> QED
      BY <1>1, <2>1, <2>2, <2>3 DEF NotTwo, Changed
  <1> QED
    BY <1>1, <1>2, <1>3 DEF OfOneUart

\* A call keeps the foreign bits of the byte it changes; the relay's board has
\* none.
LEMMA OtherKept ==
    ASSUME NEW b \in PortBoards \ UartBoards, NEW r, WellMade(b, r), NEW byte,
           byte \subseteq PortBits(b)
    PROVE  "other" \in Changed(r, byte) <=> "other" \in byte
  BY DEF WellMade, Changed, PortBits

\* The ports start with one mode per UART, and the copies that will be written
\* agree with the port on the foreign bits.
LEMMA SaneInit == PortInit => SaneInv
  <1> SUFFICES ASSUME PortInit PROVE SaneInv
    OBVIOUS
  <1>1. ASSUME board \in UartBoards PROVE OneMode(port)
    <2>1. PICK m \in UartModes : port = {<<"com1", "RS232">>, <<"com2", m>>}
      BY <1>1 DEF PortInit
    <2>2. port \cap ModeBits("com1") = {<<"com1", "RS232">>} /\ "RS232" \in UartModes
      BY <2>1 DEF ModeBits, UartModes
    <2>3. port \cap ModeBits("com2") = {<<"com2", m>>}
      BY <2>1 DEF ModeBits
    <2> QED
      BY <2>2, <2>3 DEF OneMode, Uarts
  <1>5. ASSUME board = "V2200" PROVE NotTwo(port)
    <2>1. PICK m \in UartModes : port = {<<"com1", "RS232">>, <<"com2", m>>}
      BY <1>5 DEF PortInit, UartBoards
    <2> QED
      BY <2>1 DEF NotTwo, Uarts
  <1>2. \A p \in PortProcs : caller[p].at = "idle"
    BY DEF PortInit, IdleCaller
  <1>3. phist.want = port
    BY DEF PortInit
  <1>4. ASSUME board \in {"DA682B", "V2403", "MC7100"}, NEW c \in CopyNames(board)
        PROVE  KeepsOther(keep[c])
    <2>1. CASE board = "DA682B"
      BY <1>3, <1>4, <2>1 DEF PortInit, KeepsOther
    <2>2. CASE board \in {"V2403", "MC7100"}
      <3>1. "other" \notin PortBits(board) /\ port \subseteq PortBits(board)
        BY <2>2, CallsInit DEF PortBits, CallsInv, PortType
      <3>2. keep[c] \subseteq PortBits(board)
        BY <1>4, CallsInit DEF CallsInv, PortType
      <3> QED
        BY <1>3, <3>1, <3>2 DEF KeepsOther
    <2> QED
      BY <1>4, <2>1, <2>2
  <1> QED
    BY <1>1, <1>2, <1>3, <1>4, <1>5 DEF SaneInv, KeepsOther, InPort

\* What is read, from the port or a copy, is sane, so is what a call makes of
\* it, and so what is written.
LEMMA SaneStep == CallsInv /\ SaneInv /\ [PortNext]_portVars => SaneInv'
  <1> SUFFICES ASSUME CallsInv, SaneInv, [PortNext]_portVars PROVE SaneInv'
    OBVIOUS
  <1> DEFINE Caller == [at : PortLabels, req : ReqType(board), val : SUBSET PortBits(board)]
  <1>0. /\ board \in PortBoards /\ caller \in [PortProcs -> Caller]
        /\ port \in SUBSET PortBits(board)
        /\ keep \in [CopyNames(board) -> SUBSET PortBits(board)]
    BY DEF CallsInv, PortType
  <1>1. ASSUME NEW p \in PortProcs, NEW r \in Requests(board), PortBegin(p, r) PROVE SaneInv'
    <2>1. /\ \A q \in PortProcs : q # p => caller'[q] = caller[q]
          /\ caller'[p].at = "read" /\ phist'.want = phist.want
          /\ phist'.odd = 0 => phist.odd = 0
      BY <1>0, <1>1 DEF PortBegin, CallsInv, PortType
    <2>2. UNCHANGED <<board, port, keep, pled>>
      BY <1>1 DEF PortBegin
    <2> QED
      BY <2>1, <2>2 DEF SaneInv, KeepsOther, InPort
  <1>2. ASSUME NEW p \in PortProcs, PortRead(p) PROVE SaneInv'
    <2> DEFINE r == caller[p].req
               byte == IF r.how = "cached" THEN keep["all"] ELSE port
    <2>1. WellMade(board, r)
      BY <1>2 DEF PortRead, CallsInv, CallerInv, InPort
    <2>2. /\ \A q \in PortProcs : q # p => caller'[q] = caller[q]
          /\ caller'[p].at = IF r.how \in Copied THEN "modify" ELSE "write"
          /\ caller'[p].val = IF r.how \in Copied THEN byte ELSE Changed(r, byte)
      BY <1>0, <1>2 DEF PortRead
    <2>3. /\ keep' = IF r.how = "fresh" THEN [keep EXCEPT ![r.copy] = byte] ELSE keep
          /\ UNCHANGED <<board, port, pled, phist>>
      BY <1>2 DEF PortRead
    <2>4. CASE board \in UartBoards
      <3>1. r.how \notin Copied /\ byte = port
        BY <2>1, <2>4 DEF WellMade, UartBoards, Copied
      <3>2. phist.odd = 0 => OneMode(Changed(r, byte))
        <4>1. phist.odd = 0 => ~r.odd
          BY <1>2 DEF PortRead, CallsInv, CallerInv, InPort
        <4> QED
          BY <2>1, <2>4, <3>1, <4>1, StillOneMode DEF SaneInv
      <3>3. board = "V2200" => NotTwo(Changed(r, byte))
        BY <2>1, <3>1, StillNotTwo DEF SaneInv
      <3> QED
        BY <2>2, <2>3, <2>4, <3>1, <3>2, <3>3 DEF SaneInv, InPort
    <2>5. CASE board \notin UartBoards
      <3>1. byte \in SUBSET PortBits(board)
        BY <1>0, <2>1 DEF WellMade, CopyNames, Copied
      <3>2. pled # "ready" => KeepsOther(byte)
        BY <2>1, <2>5 DEF SaneInv, WellMade, CopyNames
      <3>3. "other" \in Changed(r, byte) <=> "other" \in byte
        BY <1>0, <2>1, <2>5, <3>1, OtherKept
      <3> HIDE DEF r, byte
      <3>4. pled # "ready" =>
               \A c \in CopyNames(board) : keep'[c] = keep[c] \/ KeepsOther(keep'[c])
        BY <1>0, <2>3, <3>2
      <3> QED
        BY <2>2, <2>3, <2>5, <3>2, <3>3, <3>4 DEF SaneInv, KeepsOther, InPort, UartBoards
    <2> QED
      BY <2>4, <2>5
  <1>3. ASSUME NEW p \in PortProcs, PortModify(p) PROVE SaneInv'
    <2> DEFINE r == caller[p].req
    <2>1. WellMade(board, r) /\ r.how \in Copied
      BY <1>3 DEF PortModify, CallsInv, CallerInv, InPort
    <2>2. board \notin UartBoards /\ board \in {"DA682B", "V2403", "MC7100"}
      BY <2>1 DEF WellMade, UartBoards, Copied
    <2>3. PICK byte \in {caller[p].val, keep[r.copy]} :
              /\ keep' = [keep EXCEPT ![r.copy] = Changed(r, byte)]
              /\ caller' = [caller EXCEPT ![p].at = "write", ![p].val = Changed(r, byte)]
      BY <1>3 DEF PortModify
    <2>4. byte \in SUBSET PortBits(board) /\ r.copy \in CopyNames(board)
      BY <1>0, <2>1, <2>3 DEF WellMade
    <2>5. pled # "ready" => KeepsOther(byte)
      BY <1>3, <2>2, <2>3, <2>4 DEF SaneInv, PortModify, InPort
    <2>6. "other" \in Changed(r, byte) <=> "other" \in byte
      BY <1>0, <2>1, <2>2, <2>4, OtherKept
    <2>7. UNCHANGED <<board, port, pled, phist>>
      BY <1>3 DEF PortModify
    <2>8. /\ \A q \in PortProcs : q # p => caller'[q] = caller[q]
          /\ caller'[p].val = Changed(r, byte)
      BY <1>0, <2>3
    <2>9. \A c \in CopyNames(board) : keep'[c] = keep[c] \/ keep'[c] = Changed(r, byte)
      BY <1>0, <2>3
    <2> HIDE DEF r
    <2> QED
      BY <2>2, <2>5, <2>6, <2>7, <2>8, <2>9 DEF SaneInv, KeepsOther, UartBoards
  <1>4. ASSUME NEW p \in PortProcs, PortWrite(p) PROVE SaneInv'
    <2> DEFINE r == caller[p].req
    <2>1. WellMade(board, r) /\ caller[p].at = "write"
      BY <1>4 DEF PortWrite, CallsInv, CallerInv, InPort
    <2>2. port' = caller[p].val \/ (r.how \in Copied /\ port' = keep[r.copy])
      BY <1>4 DEF PortWrite
    <2>3. /\ UNCHANGED <<board, keep, pled>> /\ phist'.want = (phist.want \ r.mask) \cup r.set
          /\ phist'.odd = phist.odd
      BY <1>4 DEF PortWrite, CallsInv, PortType
    <2>4. /\ \A q \in PortProcs : q # p => caller'[q] = caller[q]
          /\ caller'[p].at \notin {"modify", "write"}
      BY <1>0, <1>4, <2>1 DEF PortWrite, GoesTo, IdleCaller, WellMade
    <2>5. CASE board \in UartBoards
      <3>1. /\ phist.odd = 0 => OneMode(port')
            /\ board = "V2200" => NotTwo(port')
        BY <2>1, <2>2, <2>5 DEF SaneInv, WellMade, UartBoards, Copied, InPort
      <3> QED
        BY <2>3, <2>4, <2>5, <3>1 DEF SaneInv, InPort
    <2>6. CASE board \notin UartBoards
      <3>1. "other" \in phist'.want <=> "other" \in phist.want
        BY <2>1, <2>3, <2>6 DEF WellMade
      <3>2. r.how \in Copied =>
               board \in {"DA682B", "V2403", "MC7100"} /\ r.copy \in CopyNames(board)
        BY <2>1 DEF WellMade, Copied
      <3>3. pled # "ready" => KeepsOther(port')
        BY <2>1, <2>2, <2>6, <3>2 DEF SaneInv
      <3> HIDE DEF r
      <3> QED
        BY <2>3, <2>4, <2>6, <3>1, <3>3 DEF SaneInv, KeepsOther, InPort, UartBoards
    <2> QED
      BY <2>5, <2>6
  <1>5. ASSUME NEW p \in PortProcs, OpmodeRead(p) \/ OpmodeStore(p) \/ AutoDirection(p)
        PROVE  SaneInv'
    <2>1. board \in UartBoards /\ UNCHANGED <<board, port, pled>> /\ phist'.odd = phist.odd
      BY <1>5 DEF OpmodeRead, OpmodeStore, AutoDirection, CallsInv, CallerInv, InPort, UartBoards,
                  PortType
    <2>2. /\ \A q \in PortProcs : q # p => caller'[q] = caller[q]
          /\ caller'[p].at # "write"
      BY <1>0, <1>5 DEF OpmodeRead, OpmodeStore, AutoDirection, GoesTo, IdleCaller
    <2> QED
      BY <2>1, <2>2 DEF SaneInv, InPort
  <1>6. CASE PledRegister
    BY <1>6 DEF PledRegister, SaneInv, KeepsOther, InPort
  <1>7. CASE PledInit
    <2>1. board \notin UartBoards /\ board' = board /\ pled' = "ready"
      BY <1>7 DEF PledInit, CallsInv, BoardInv, UartBoards
    <2> QED
      BY <2>1 DEF SaneInv, UartBoards
  <1>8. CASE UNCHANGED portVars
    BY <1>8 DEF portVars, SaneInv, KeepsOther, InPort
  <1> QED
    BY <1>1, <1>2, <1>3, <1>4, <1>5, <1>6, <1>7, <1>8 DEF PortNext

\* Whatever calls of however many processes overlap: no transceiver is told two
\* modes or none as long as the requests name modes and ports there are, the
\* V2200's is never told two, and no driver changes a bit that is not its own
\* before moxa_pled is loaded.
THEOREM PortSaneHolds == PortSpec => []PortSane
  <1>1. SaneInv => PortSane
    BY DEF SaneInv, OneMode, NotTwo, KeepsOther, PortSane
  <1>2. PortInit => CallsInv /\ SaneInv
    BY CallsInit, SaneInit
  <1>3. (CallsInv /\ SaneInv) /\ [PortNext]_portVars => (CallsInv /\ SaneInv)'
    BY CallsStep, SaneStep
  <1> QED
    BY <1>1, <1>2, <1>3, PTL DEF PortSpec

-----------------------------------------------------------------------------
(* Updates. *)

\* One holder of the mutex, and no race between calls that take it.
LEMMA MutexStep == CallsInv /\ MutexInv /\ [PortNext]_portVars => MutexInv'
  <1> SUFFICES ASSUME CallsInv, MutexInv, [PortNext]_portVars PROVE MutexInv'
    OBVIOUS
  <1> DEFINE Caller == [at : PortLabels, req : ReqType(board), val : SUBSET PortBits(board)]
  <1>0. /\ board \in PortBoards /\ caller \in [PortProcs -> Caller]
        /\ phist \in PortLog(board)
    BY DEF CallsInv, PortType
  <1>a. NoProc \notin PortProcs
    BY PortAssumption
  <1>1. ASSUME NEW p \in PortProcs, NEW r \in Requests(board), PortBegin(p, r) PROVE MutexInv'
    <2>1. /\ \A q \in PortProcs : q # p => caller'[q] = caller[q]
          /\ caller'[p].at = "read" /\ caller'[p].req = r
      BY <1>0, <1>1 DEF PortBegin
    <2>2. /\ phist'.unlocked = (phist.unlocked \/ ~r.locked) /\ phist'.raced = phist.raced
          /\ r.locked => mutex = NoProc /\ mutex' = p
          /\ ~r.locked => mutex' = mutex
      BY <1>0, <1>1 DEF PortBegin
    <2> QED
      BY <1>a, <2>1, <2>2 DEF MutexInv, InPort
  <1>2. ASSUME NEW p \in PortProcs, PortRead(p) \/ PortModify(p) \/ OpmodeRead(p) PROVE MutexInv'
    <2>1. /\ \A q \in PortProcs : q # p => caller'[q] = caller[q]
          /\ caller'[p].req = caller[p].req /\ caller[p].at # "idle"
      BY <1>0, <1>2 DEF PortRead, PortModify, OpmodeRead, InPort
    <2>2. UNCHANGED <<mutex, phist>>
      BY <1>2 DEF PortRead, PortModify, OpmodeRead
    <2> QED
      BY <2>1, <2>2 DEF MutexInv, InPort
  <1>3. ASSUME NEW p \in PortProcs, PortWrite(p) PROVE MutexInv'
    <2>1. WellMade(board, caller[p].req) /\ caller[p].at = "write"
      BY <1>3 DEF PortWrite, CallsInv, CallerInv, InPort
    <2>2. /\ \A q \in PortProcs : q # p => caller'[q] = caller[q]
          /\ caller[p].req.next = "idle" => caller'[p].at = "idle"
          /\ caller[p].req.next # "idle" => caller'[p].req = caller[p].req
      BY <1>0, <1>3 DEF PortWrite, GoesTo, IdleCaller
    <2>3. caller[p].req.locked => caller[p].req.next = "idle"
      BY <2>1 DEF WellMade
    <2>4. /\ mutex' = IF caller[p].req.locked THEN NoProc ELSE mutex
          /\ phist'.unlocked = phist.unlocked
          /\ phist'.raced = (phist.raced \/ InBetween(p))
      BY <1>0, <1>3 DEF PortWrite
    <2>5. InBetween(p) => phist.unlocked
      BY <2>1 DEF InBetween, MutexInv, InPort
    <2> QED
      BY <1>a, <2>1, <2>2, <2>3, <2>4, <2>5 DEF MutexInv, InPort
  <1>4. ASSUME NEW p \in PortProcs, OpmodeStore(p) \/ AutoDirection(p) PROVE MutexInv'
    <2>1. ~caller[p].req.locked /\ caller[p].at # "idle"
      BY <1>4 DEF OpmodeStore, AutoDirection, CallsInv, CallerInv, InPort, WellMade, UartBoards
    <2>2. phist.unlocked
      BY <2>1 DEF MutexInv, InPort
    <2>3. mutex' = mutex /\ phist'.unlocked = phist.unlocked
      BY <1>0, <1>4 DEF OpmodeStore, AutoDirection
    <2>4. /\ \A q \in PortProcs : q # p => caller'[q] = caller[q]
          /\ caller'[p].at = "idle" \/ caller'[p].req = caller[p].req
      BY <1>0, <1>4 DEF OpmodeStore, AutoDirection, GoesTo, IdleCaller
    <2> QED
      BY <2>1, <2>2, <2>3, <2>4 DEF MutexInv, InPort
  <1>5. CASE PledRegister
    BY <1>5 DEF PledRegister, MutexInv, InPort
  <1>6. CASE PledInit
    <2>1. board \in {"DA682B", "V2201"}
      BY <1>6 DEF PledInit, CallsInv, BoardInv
    <2>2. InBetween(NoProc) => phist.unlocked
      BY <2>1 DEF InBetween, MutexInv, InPort, CallsInv, CallerInv, WellMade
    <2>3. /\ phist'.raced = (phist.raced \/ InBetween(NoProc))
          /\ phist'.unlocked = phist.unlocked
      BY <1>0, <1>6 DEF PledInit
    <2> QED
      BY <1>6, <2>2, <2>3 DEF PledInit, MutexInv, InPort
  <1>7. CASE UNCHANGED portVars
    BY <1>7 DEF portVars, MutexInv, InPort
  <1> QED
    BY <1>1, <1>2, <1>3, <1>4, <1>5, <1>6, <1>7 DEF PortNext

\* Without a race the port follows the calls: what the only call between its
\* read and its write has is still what it read.
LEMMA FreshStep ==
    ASSUME CallsInv, [PortNext]_portVars, board # "V2403", ~phist.raced => FreshInv
    PROVE  ~phist'.raced => FreshInv'
  <1> SUFFICES ASSUME ~phist'.raced PROVE FreshInv'
    OBVIOUS
  <1> DEFINE Caller == [at : PortLabels, req : ReqType(board), val : SUBSET PortBits(board)]
  <1>0. /\ board \in PortBoards /\ caller \in [PortProcs -> Caller]
        /\ keep \in [CopyNames(board) -> SUBSET PortBits(board)]
        /\ port \in SUBSET PortBits(board)
        /\ phist \in PortLog(board)
    BY DEF CallsInv, PortType
  <1>1. ASSUME NEW p \in PortProcs, NEW r \in Requests(board), PortBegin(p, r) PROVE FreshInv'
    <2>1. /\ \A q \in PortProcs : q # p => caller'[q] = caller[q]
          /\ caller'[p].at = "read" /\ caller[p].at = "idle"
      BY <1>0, <1>1 DEF PortBegin, InPort
    <2>2. /\ UNCHANGED <<port, keep>> /\ phist'.want = phist.want
          /\ phist'.raced = phist.raced
      BY <1>0, <1>1 DEF PortBegin
    <2> QED
      BY <2>1, <2>2 DEF FreshInv, Alone, InBetween, InPort
  <1>2. ASSUME NEW p \in PortProcs, PortRead(p) PROVE FreshInv'
    <2> DEFINE r == caller[p].req
    <2>1. WellMade(board, r) /\ r.how # "cached" /\ caller[p].at = "read"
      BY <1>2 DEF PortRead, CallsInv, CallerInv, InPort, WellMade
    <2>2. /\ \A q \in PortProcs : q # p => caller'[q] = caller[q]
          /\ caller'[p].req = r
          /\ r.how \in Copied => caller'[p].at = "modify" /\ caller'[p].val = port
          /\ r.how \notin Copied => caller'[p].at = "write" /\ caller'[p].val = Changed(r, port)
      BY <1>0, <1>2, <2>1 DEF PortRead
    <2>3. /\ keep' = IF r.how = "fresh" THEN [keep EXCEPT ![r.copy] = port] ELSE keep
          /\ UNCHANGED <<port, phist>>
      BY <1>2, <2>1 DEF PortRead
    <2>4. r.how \in Copied => keep'[r.copy] = port
      BY <1>0, <2>1, <2>3 DEF WellMade, Copied
    <2>5. \A q \in PortProcs : Alone(q)' => q = p
      BY <2>2 DEF Alone, InBetween
    <2> HIDE DEF r
    <2> QED
      BY <2>2, <2>3, <2>4, <2>5 DEF FreshInv, InPort
  <1>3. ASSUME NEW p \in PortProcs, PortModify(p) PROVE FreshInv'
    <2> DEFINE r == caller[p].req
    <2>1. WellMade(board, r) /\ r.how \in Copied /\ caller[p].at = "modify"
      BY <1>3 DEF PortModify, CallsInv, CallerInv, InPort
    <2>2. PICK byte \in {caller[p].val, keep[r.copy]} :
              /\ keep' = [keep EXCEPT ![r.copy] = Changed(r, byte)]
              /\ caller' = [caller EXCEPT ![p].at = "write", ![p].val = Changed(r, byte)]
      BY <1>3 DEF PortModify
    <2>3. /\ \A q \in PortProcs : q # p => caller'[q] = caller[q]
          /\ caller'[p].at = "write" /\ caller'[p].val = Changed(r, byte) /\ caller'[p].req = r
          /\ keep'[r.copy] = Changed(r, byte) /\ UNCHANGED <<port, phist>>
      BY <1>0, <1>3, <2>1, <2>2 DEF PortModify, WellMade
    <2>4. \A q \in PortProcs : Alone(q)' => q = p /\ Alone(p)
      BY <2>1, <2>3 DEF Alone, InBetween
    <2>5. Alone(p) => byte = port
      BY <2>1, <2>2, <2>3 DEF FreshInv, InPort
    <2> HIDE DEF r
    <2> QED
      BY <2>3, <2>4, <2>5 DEF FreshInv, InPort
  <1>4. ASSUME NEW p \in PortProcs, PortWrite(p) PROVE FreshInv'
    <2> DEFINE r == caller[p].req
    <2>1. WellMade(board, r) /\ caller[p].at = "write"
      BY <1>4 DEF PortWrite, CallsInv, CallerInv, InPort
    <2>2. /\ port' = caller[p].val \/ (r.how \in Copied /\ port' = keep[r.copy])
          /\ phist'.want = (phist.want \ r.mask) \cup r.set
          /\ phist'.raced = (phist.raced \/ InBetween(p))
      BY <1>0, <1>4 DEF PortWrite
    <2>3. /\ \A q \in PortProcs : q # p => caller'[q] = caller[q]
          /\ caller'[p].at \notin {"modify", "write"}
      BY <1>0, <1>4, <2>1 DEF PortWrite, GoesTo, IdleCaller, WellMade
    <2>4. ~phist.raced /\ Alone(p)
      BY <2>1, <2>2 DEF Alone
    <2>5. port' = Changed(r, port) /\ port = phist.want
      BY <2>1, <2>2, <2>4 DEF FreshInv, InPort
    <2>6. Changed(r, port) = (port \ r.mask) \cup r.set
      <3>1. CASE r.how = "blind"
        <4>1. board = "DA681A" /\ r.mask = {"relay"}
          BY <2>1, <3>1 DEF WellMade
        <4>2. port \subseteq r.mask
          BY <1>0, <4>1 DEF PortBits
        <4> QED
          BY <3>1, <4>2 DEF Changed
      <3>2. CASE r.how # "blind"
        BY <3>2 DEF Changed
      <3> QED
        BY <3>1, <3>2
    <2>7. \A q \in PortProcs : ~Alone(q)'
      BY <2>3, <2>4 DEF Alone, InBetween
    <2> HIDE DEF r
    <2> QED
      BY <2>2, <2>5, <2>6, <2>7 DEF FreshInv
  <1>5. ASSUME NEW p \in PortProcs, OpmodeRead(p) \/ OpmodeStore(p) \/ AutoDirection(p)
        PROVE  FreshInv'
    <2>1. board \in UartBoards /\ port' = port /\ phist'.want = phist.want /\ ~phist.raced
      BY <1>0, <1>5 DEF OpmodeRead, OpmodeStore, AutoDirection, CallsInv, CallerInv, InPort, UartBoards
    <2>2. /\ \A q \in PortProcs : q # p => caller'[q] = caller[q]
          /\ caller'[p].at \notin {"modify", "write"} /\ caller[p].at \notin {"modify", "write"}
      BY <1>0, <1>5 DEF OpmodeRead, OpmodeStore, AutoDirection, GoesTo, IdleCaller, InPort
    <2>3. \A q \in PortProcs : Alone(q)' => q # p /\ Alone(q)
      BY <2>2 DEF Alone, InBetween
    <2>4. \A q \in PortProcs : Alone(q) => caller[q].req.how \notin Copied /\ caller[q].at = "write"
      BY <2>1 DEF Alone, CallsInv, CallerInv, WellMade, Copied, UartBoards, InPort
    <2> QED
      BY <2>1, <2>2, <2>3, <2>4 DEF FreshInv, InPort
  <1>6. CASE PledRegister
    BY <1>6 DEF PledRegister, FreshInv, Alone, InBetween, InPort
  <1>7. CASE PledInit
    <2>1. /\ ~InBetween(NoProc) /\ phist'.want = port' /\ caller' = caller
      BY <1>0, <1>7 DEF PledInit
    <2>2. \A q \in PortProcs : ~Alone(q)'
      BY <2>1, PortAssumption DEF Alone, InBetween
    <2> QED
      BY <2>1, <2>2 DEF FreshInv
  <1>8. CASE UNCHANGED portVars
    BY <1>8 DEF portVars, FreshInv, Alone, InBetween, InPort
  <1> QED
    BY <1>1, <1>2, <1>3, <1>4, <1>5, <1>6, <1>7, <1>8 DEF PortNext

\* The same for the driver that builds the byte in its copy and never reads the
\* port.
LEMMA CacheStep ==
    ASSUME CallsInv, [PortNext]_portVars, board = "V2403", ~phist.raced => CacheInv
    PROVE  ~phist'.raced => CacheInv'
  <1> SUFFICES ASSUME ~phist'.raced PROVE CacheInv'
    OBVIOUS
  <1> DEFINE Caller == [at : PortLabels, req : ReqType(board), val : SUBSET PortBits(board)]
  <1>0. /\ caller \in [PortProcs -> Caller]
        /\ keep \in [{"all"} -> SUBSET PortBits(board)]
        /\ phist \in PortLog(board)
    BY DEF CallsInv, PortType, CopyNames
  <1>a. \A p \in PortProcs : caller[p].at # "idle" =>
            caller[p].req.how = "cached" /\ caller[p].req.copy = "all"
            /\ caller[p].req.next = "idle"
    BY DEF CallsInv, CallerInv, InPort, WellMade, Copied, CopyNames
  <1>1. ASSUME NEW p \in PortProcs, NEW r \in Requests(board), PortBegin(p, r) PROVE CacheInv'
    <2>1. /\ \A q \in PortProcs : q # p => caller'[q] = caller[q]
          /\ caller'[p].at = "read" /\ caller[p].at = "idle"
      BY <1>0, <1>1 DEF PortBegin, InPort
    <2>2. /\ UNCHANGED <<port, keep>> /\ phist'.given = phist.given
          /\ phist'.raced = phist.raced
      BY <1>0, <1>1 DEF PortBegin
    <2> QED
      BY <2>1, <2>2 DEF CacheInv, Alone, InBetween, InPort
  <1>2. ASSUME NEW p \in PortProcs, PortRead(p) PROVE CacheInv'
    <2>1. /\ \A q \in PortProcs : q # p => caller'[q] = caller[q]
          /\ caller'[p].at = "modify" /\ caller'[p].val = keep["all"] /\ caller[p].at = "read"
      BY <1>0, <1>2, <1>a DEF PortRead, InPort, Copied
    <2>2. UNCHANGED <<port, phist, keep>>
      BY <1>2, <1>a DEF PortRead, InPort
    <2>3. \A q \in PortProcs : Alone(q)' => q = p
      BY <2>1 DEF Alone, InBetween
    <2> QED
      BY <2>1, <2>2, <2>3 DEF CacheInv, InPort
  <1>3. ASSUME NEW p \in PortProcs, PortModify(p) PROVE CacheInv'
    <2>1. /\ \A q \in PortProcs : q # p => caller'[q] = caller[q]
          /\ caller'[p].at = "write" /\ caller'[p].val = keep'["all"]
      BY <1>0, <1>3, <1>a DEF PortModify, InPort
    <2>2. UNCHANGED phist
      BY <1>3 DEF PortModify
    <2>3. \A q \in PortProcs : Alone(q)' => q = p
      BY <2>1 DEF Alone, InBetween
    <2> QED
      BY <2>1, <2>2, <2>3 DEF CacheInv, InPort
  <1>4. ASSUME NEW p \in PortProcs, PortWrite(p) PROVE CacheInv'
    <2>1. caller[p].at = "write" /\ keep' = keep /\ phist'.raced = (phist.raced \/ InBetween(p))
      BY <1>0, <1>4 DEF PortWrite, InPort
    <2>2. ~phist.raced /\ Alone(p)
      BY <2>1 DEF Alone
    <2>3. port' = keep["all"]
      BY <1>4, <1>a, <2>1, <2>2 DEF PortWrite, CacheInv
    <2>4. /\ \A q \in PortProcs : q # p => caller'[q] = caller[q]
          /\ caller'[p].at = "idle"
      BY <1>0, <1>4, <1>a, <2>1 DEF PortWrite, GoesTo, IdleCaller
    <2>5. \A q \in PortProcs : ~Alone(q)'
      BY <2>2, <2>4 DEF Alone, InBetween
    <2> QED
      BY <2>1, <2>3, <2>5 DEF CacheInv
  <1>5. ASSUME NEW p \in PortProcs, OpmodeRead(p) \/ OpmodeStore(p) \/ AutoDirection(p)
        PROVE  FALSE
    BY <1>5 DEF OpmodeRead, OpmodeStore, AutoDirection, CallsInv, CallerInv, InPort, UartBoards
  <1>6. CASE PledRegister \/ PledInit
    BY <1>6 DEF PledRegister, PledInit, CallsInv, BoardInv
  <1>7. CASE UNCHANGED portVars
    BY <1>7 DEF portVars, CacheInv, Alone, InBetween, InPort
  <1> QED
    BY <1>1, <1>2, <1>3, <1>4, <1>5, <1>6, <1>7 DEF PortNext

\* What a call does to the bits of each UART.
LEMMA ModeChange ==
    ASSUME NEW r, NEW byte, r.how # "blind", NEW w \in Uarts,
           \/ r.mask = {} /\ r.set = {}
           \/ \E u \in Uarts : r.mask = ModeBits(u) /\ r.set \subseteq r.mask
    PROVE  /\ r.mask = ModeBits(w) => Changed(r, byte) \cap ModeBits(w) = r.set
           /\ r.mask # ModeBits(w) => /\ Changed(r, byte) \cap ModeBits(w) = byte \cap ModeBits(w)
                                     /\ r.mask \cap ModeBits(w) = {}
  <1>1. CASE r.mask = {} /\ r.set = {}
    BY <1>1 DEF Changed, ModeBits, UartModes
  <1>2. ASSUME NEW u \in Uarts, r.mask = ModeBits(u), r.set \subseteq r.mask
        PROVE  /\ r.mask = ModeBits(w) => Changed(r, byte) \cap ModeBits(w) = r.set
               /\ r.mask # ModeBits(w) =>
                     /\ Changed(r, byte) \cap ModeBits(w) = byte \cap ModeBits(w)
                     /\ r.mask \cap ModeBits(w) = {}
    <2>1. w # u => ModeBits(w) \cap ModeBits(u) = {}
      BY DEF ModeBits
    <2> QED
      BY <1>2, <2>1, ModeSet
  <1> QED
    BY <1>1, <1>2

\* The UART drivers: mode bits, auto direction and keep_opmode, one after the
\* other, against calls for the same and for the other UART.
LEMMA ModeStep ==
    ASSUME CallsInv, [PortNext]_portVars, board \in UartBoards,
           ~phist.raced /\ (board = "V2200" \/ phist.odd = 0) => FreshInv /\ ModeInv
    PROVE  ~phist'.raced /\ (board = "V2200" \/ phist'.odd = 0) => ModeInv'
  <1> SUFFICES ASSUME ~phist'.raced, board = "V2200" \/ phist'.odd = 0 PROVE ModeInv'
    OBVIOUS
  <1> DEFINE Caller == [at : PortLabels, req : ReqType(board), val : SUBSET PortBits(board)]
  <1>0. /\ caller \in [PortProcs -> Caller]
        /\ keep \in [{"all"} -> SUBSET PortBits(board)]
        /\ phist \in PortLog(board)
    BY DEF CallsInv, PortType, CopyNames, UartBoards
  <1>a. \A p \in PortProcs : caller[p].at # "idle" =>
            /\ caller[p].req.how \notin Copied \cup {"blind"}
            /\ caller[p].req.next = IF board = "DA820" THEN "dir" ELSE "opRead"
            /\ board = "V2200" => OfOneUart(caller[p].req)
            /\ phist.odd = 0 => ForMode(caller[p].req)
    BY DEF CallsInv, CallerInv, InPort, WellMade, Copied, UartBoards
  <1>b. phist'.odd = 0 => phist.odd = 0
    <2>1. ASSUME NEW p \in PortProcs, NEW r \in Requests(board), PortBegin(p, r)
          PROVE  phist'.odd \in {phist.odd, phist.odd + 1}
      BY <1>0, <2>1 DEF PortBegin
    <2>2. ASSUME NEW p \in PortProcs,
                 PortRead(p) \/ PortModify(p) \/ PortWrite(p) \/ OpmodeRead(p)
                   \/ OpmodeStore(p) \/ AutoDirection(p)
          PROVE  phist'.odd = phist.odd
      BY <1>0, <2>2 DEF PortRead, PortModify, PortWrite, OpmodeRead, OpmodeStore, AutoDirection
    <2>3. PledRegister \/ PledInit \/ UNCHANGED portVars => phist'.odd = phist.odd
      BY <1>0 DEF PledRegister, PledInit, portVars
    <2>4. phist'.odd \in {phist.odd, phist.odd + 1} /\ phist.odd \in Nat
      BY <1>0, <2>1, <2>2, <2>3 DEF PortNext
    <2> QED
      BY <2>4
  <1>c. \A p \in PortProcs : caller[p].at # "idle" =>
            \/ caller[p].req.mask = {} /\ caller[p].req.set = {}
            \/ \E u \in Uarts : /\ caller[p].req.mask = ModeBits(u)
                               /\ caller[p].req.set \subseteq caller[p].req.mask
    BY <1>a, <1>b, OfOneUartOnly DEF ForMode, ModeBits
  <1>d. \A u \in Uarts : ModeBits(u) # {}
    BY DEF ModeBits, UartModes
  <1>1. ASSUME NEW p \in PortProcs, NEW r \in Requests(board), PortBegin(p, r) PROVE ModeInv'
    <2>1. /\ \A q \in PortProcs : q # p => caller'[q] = caller[q]
          /\ caller'[p].at = "read" /\ caller[p].at = "idle"
      BY <1>0, <1>1 DEF PortBegin, InPort
    <2>2. /\ UNCHANGED <<board, port, keep, autodir>> /\ phist'.given = phist.given
          /\ phist'.raced = phist.raced
      BY <1>0, <1>1 DEF PortBegin
    <2>3. ModeInv
      BY <1>b, <2>2
    <2>4. \A u \in Uarts : Settled(u) => Settled(u)'
      BY <1>b, <2>2 DEF Settled
    <2>5. \A u \in Uarts, q \in PortProcs : q # p => OnUart(q, u)' = OnUart(q, u)
      BY <2>1 DEF OnUart, InPort
    <2>6. \A u \in Uarts : ~OnUart(p, u)
      BY <2>1 DEF OnUart, InPort
    <2> QED
      BY <2>1, <2>2, <2>3, <2>4, <2>5, <2>6 DEF ModeInv, OnlyOn, InPort
  <1>2. ASSUME NEW p \in PortProcs, PortRead(p) \/ OpmodeRead(p) PROVE ModeInv'
    <2>1. /\ \A q \in PortProcs : q # p => caller'[q] = caller[q]
          /\ caller'[p].req = caller[p].req
          /\ \/ caller[p].at = "read" /\ caller'[p].at = "write"
             \/ /\ caller[p].at = "opRead" /\ caller'[p].at = "opStore"
                /\ caller'[p].val = keep["all"]
      BY <1>0, <1>2, <1>a DEF PortRead, OpmodeRead, InPort
    <2>2. UNCHANGED <<board, port, keep, autodir, phist>>
      BY <1>2, <1>a DEF PortRead, OpmodeRead, InPort, Copied
    <2>3. ModeInv
      BY <1>b, <2>2
    <2>4. \A u \in Uarts : Settled(u)' = Settled(u)
      BY <2>2 DEF Settled
    <2>5. \A u \in Uarts, q \in PortProcs : OnUart(q, u)' = OnUart(q, u)
      BY <2>1 DEF OnUart, InPort
    <2> QED
      BY <2>1, <2>2, <2>3, <2>4, <2>5 DEF ModeInv, OnlyOn, InPort
  <1>3. ASSUME NEW p \in PortProcs, PortModify(p) PROVE FALSE
    BY <1>3, <1>a DEF PortModify, CallsInv, CallerInv, InPort
  <1>4. ASSUME NEW p \in PortProcs, PortWrite(p) PROVE ModeInv'
    <2> DEFINE r == caller[p].req
    <2>1. /\ caller[p].at = "write" /\ phist'.raced = (phist.raced \/ InBetween(p))
          /\ phist'.given = phist.given \cup r.mask /\ phist'.odd = phist.odd
          /\ UNCHANGED <<board, keep, autodir>>
      BY <1>0, <1>4 DEF PortWrite, InPort
    <2>3. ~phist.raced /\ Alone(p)
      BY <2>1 DEF Alone
    <2>11. ModeInv /\ FreshInv
      BY <1>b, <2>3
    <2>4. port' = Changed(r, port)
      BY <1>4, <1>a, <2>1, <2>3, <2>11 DEF PortWrite, FreshInv, InPort
    <2>5. \A w \in Uarts :
             /\ r.mask = ModeBits(w) => port' \cap ModeBits(w) = r.set
             /\ r.mask # ModeBits(w) => /\ port' \cap ModeBits(w) = port \cap ModeBits(w)
                                       /\ r.mask \cap ModeBits(w) = {}
      BY <1>a, <1>c, <2>1, <2>4, ModeChange
    <2>6. /\ \A q \in PortProcs : q # p => caller'[q] = caller[q]
          /\ caller'[p].at = IF board = "DA820" THEN "dir" ELSE "opRead"
          /\ caller'[p].req = r
      BY <1>0, <1>4, <1>a, <2>1 DEF PortWrite, GoesTo
    <2>9. \A w \in Uarts : OnUart(p, w) <=> r.mask = ModeBits(w)
      BY <2>1 DEF OnUart, InPort
    <2>7. \A w \in Uarts : ~OnUart(p, w) /\ Settled(w) => Settled(w)'
      <3> SUFFICES ASSUME NEW w \in Uarts, ~OnUart(p, w), Settled(w) PROVE Settled(w)'
        OBVIOUS
      <3>1. <<w, "RS485">> \in ModeBits(w)
        BY DEF ModeBits, UartModes
      <3>2. phist'.given \cap ModeBits(w) = phist.given \cap ModeBits(w)
        BY <2>1, <2>5, <2>9
      <3>3. \A x \in ModeBits(w) : x \in port' <=> x \in port
        BY <2>5, <2>9
      <3> QED
        BY <2>1, <3>1, <3>2, <3>3 DEF Settled
    <2>8. \A u \in Uarts, q \in PortProcs : OnUart(q, u)' = OnUart(q, u)
      BY <2>1, <2>6 DEF OnUart, InPort
    <2> HIDE DEF r
    <2>12. ASSUME NEW u \in Uarts, \A q \in PortProcs : ~OnUart(q, u)' PROVE Settled(u)'
      BY <2>7, <2>8, <2>11, <2>12 DEF ModeInv
    <2>13. ASSUME NEW q \in PortProcs, NEW u \in Uarts, OnlyOn(q, u)'
           PROVE  /\ caller'[q].at \in {"read", "write"} => Settled(u)'
                  /\ caller'[q].at \in {"opRead", "opStore", "dir"} =>
                        port' \cap ModeBits(u) = caller'[q].req.set
                  /\ caller'[q].at = "dir" /\ board' = "V2200" =>
                        keep'["all"] \cap ModeBits(u) = caller'[q].req.set
      <3>1. OnlyOn(q, u)
        BY <2>8, <2>13 DEF OnlyOn
      <3>2. CASE q = p
        <4>1. r.mask = ModeBits(u)
          BY <2>9, <3>1, <3>2 DEF OnlyOn
        <4> QED
          BY <2>1, <2>5, <2>6, <3>2, <4>1
      <3>3. CASE q # p
        <4>1. ~OnUart(p, u)
          BY <3>1, <3>3 DEF OnlyOn
        <4> QED
          BY <2>1, <2>5, <2>6, <2>7, <2>9, <2>11, <3>1, <3>3, <4>1 DEF ModeInv, InPort
      <3> QED
        BY <3>2, <3>3
    <2>14. ASSUME NEW q \in PortProcs, caller'[q].at = "opStore" PROVE caller'[q].val = keep'["all"]
      BY <2>1, <2>6, <2>11, <2>14 DEF ModeInv, InPort
    <2> QED
      BY <2>12, <2>13, <2>14 DEF ModeInv, InPort
  <1>5. ASSUME NEW p \in PortProcs, OpmodeStore(p) PROVE ModeInv'
    <2> DEFINE r == caller[p].req
    <2>1. /\ caller[p].at = "opStore"
          /\ UNCHANGED <<board, port, autodir>> /\ phist'.given = phist.given
          /\ keep' = [keep EXCEPT !["all"] = Changed(r, caller[p].val)]
          /\ phist'.raced = (phist.raced \/ \E q \in PortProcs \ {p} : caller[q].at = "opStore")
          /\ phist'.odd = phist.odd
      BY <1>0, <1>5 DEF OpmodeStore, InPort
    <2>3. ~phist.raced /\ \A q \in PortProcs : q # p => caller[q].at # "opStore"
      BY <2>1
    <2>11. ModeInv
      BY <1>b, <2>3
    <2>4. keep'["all"] = Changed(r, keep["all"])
      BY <1>0, <2>1, <2>11 DEF ModeInv, InPort
    <2>5. \A w \in Uarts :
             /\ r.mask = ModeBits(w) => keep'["all"] \cap ModeBits(w) = r.set
             /\ r.mask # ModeBits(w) => keep'["all"] \cap ModeBits(w) = keep["all"] \cap ModeBits(w)
      BY <1>a, <1>c, <2>1, <2>4, ModeChange
    <2>6. /\ \A q \in PortProcs : q # p => caller'[q] = caller[q]
          /\ caller'[p].at = "dir" /\ caller'[p].req = r
      BY <1>0, <1>5 DEF OpmodeStore, GoesTo
    <2>9. \A w \in Uarts : OnUart(p, w) <=> r.mask = ModeBits(w)
      BY <2>1 DEF OnUart, InPort
    <2>7. \A w \in Uarts : ~OnUart(p, w) /\ Settled(w) => Settled(w)'
      <3> SUFFICES ASSUME NEW w \in Uarts, ~OnUart(p, w), Settled(w) PROVE Settled(w)'
        OBVIOUS
      <3>1. \A x \in ModeBits(w) : x \in keep'["all"] <=> x \in keep["all"]
        BY <2>5, <2>9
      <3> QED
        BY <2>1, <3>1 DEF Settled
    <2>8. \A u \in Uarts, q \in PortProcs : OnUart(q, u)' = OnUart(q, u)
      BY <2>1, <2>6 DEF OnUart, InPort
    <2>10. \A u \in Uarts : OnlyOn(p, u) => port \cap ModeBits(u) = r.set
      BY <2>1, <2>11 DEF ModeInv
    <2> HIDE DEF r
    <2>12. ASSUME NEW u \in Uarts, \A q \in PortProcs : ~OnUart(q, u)' PROVE Settled(u)'
      BY <2>7, <2>8, <2>11, <2>12 DEF ModeInv
    <2>13. ASSUME NEW q \in PortProcs, NEW u \in Uarts, OnlyOn(q, u)'
           PROVE  /\ caller'[q].at \in {"read", "write"} => Settled(u)'
                  /\ caller'[q].at \in {"opRead", "opStore", "dir"} =>
                        port' \cap ModeBits(u) = caller'[q].req.set
                  /\ caller'[q].at = "dir" /\ board' = "V2200" =>
                        keep'["all"] \cap ModeBits(u) = caller'[q].req.set
      <3>1. OnlyOn(q, u)
        BY <2>8, <2>13 DEF OnlyOn
      <3>2. CASE q = p
        <4>1. r.mask = ModeBits(u)
          BY <2>9, <3>1, <3>2 DEF OnlyOn
        <4>2. port \cap ModeBits(u) = r.set
          BY <2>10, <3>1, <3>2
        <4> QED
          BY <2>1, <2>5, <2>6, <3>2, <4>1, <4>2
      <3>3. CASE q # p
        <4>1. ~OnUart(p, u)
          BY <3>1, <3>3 DEF OnlyOn
        <4> QED
          BY <2>1, <2>5, <2>6, <2>7, <2>9, <2>11, <3>1, <3>3, <4>1 DEF ModeInv, InPort
      <3> QED
        BY <3>2, <3>3
    <2>14. \A q \in PortProcs : caller'[q].at # "opStore"
      BY <2>3, <2>6
    <2> QED
      BY <2>12, <2>13, <2>14 DEF ModeInv, InPort
  <1>6. ASSUME NEW p \in PortProcs, AutoDirection(p) PROVE ModeInv'
    <2> DEFINE r == caller[p].req
    <2>1. /\ caller[p].at = "dir"
          /\ UNCHANGED <<board, port, keep>> /\ phist'.given = phist.given
          /\ phist'.raced = (phist.raced \/ SameBits(p)) /\ phist'.odd = phist.odd
          /\ autodir' = IF r.on THEN autodir \cup ({r.dir} \cap Uarts) ELSE autodir \ {r.dir}
      BY <1>0, <1>6 DEF AutoDirection, InPort
    <2>2. ModeInv /\ ~SameBits(p)
      BY <1>b, <2>1
    <2>3. \A w \in Uarts : OnUart(p, w) <=> r.mask = ModeBits(w)
      BY <2>1 DEF OnUart, InPort
    <2>4. \A w \in Uarts : OnUart(p, w) => OnlyOn(p, w)
      BY <1>d, <2>2, <2>3 DEF OnlyOn, OnUart, SameBits, InPort
    <2>5. \A w \in Uarts : OnUart(p, w) =>
             /\ port \cap ModeBits(w) = r.set
             /\ board = "V2200" => keep["all"] \cap ModeBits(w) = r.set
      BY <2>1, <2>2, <2>4 DEF ModeInv, InPort
    <2>6. /\ \A q \in PortProcs : q # p => caller'[q] = caller[q]
          /\ caller'[p].at = "idle"
      BY <1>0, <1>6 DEF AutoDirection, GoesTo, IdleCaller
    <2>a. phist.odd = 0 => ForMode(r)
      BY <1>a, <2>1
    <2> HIDE DEF r
    <2>7. ASSUME NEW w \in Uarts, OnUart(p, w) PROVE Settled(w)'
      <3>1. <<w, "RS485">> \in ModeBits(w)
        BY DEF ModeBits, UartModes
      <3>2. ASSUME phist.odd = 0 PROVE w \in autodir' <=> <<w, "RS485">> \in port
        <4>1. PICK u \in Uarts, m \in UartModes :
                  /\ r.mask = ModeBits(u) /\ r.set = {<<u, m>>}
                  /\ r.dir = u /\ (r.on <=> m = "RS485")
          BY <2>a, <3>2 DEF ForMode
        <4>2. u = w
          BY <2>3, <2>7, <4>1, UartFound
        <4>3. <<w, "RS485">> \in port <=> m = "RS485"
          BY <2>5, <2>7, <3>1, <4>1, <4>2
        <4> QED
          BY <2>1, <4>1, <4>2, <4>3
      <3>3. board = "V2200" =>
               \A x \in phist.given \cap ModeBits(w) : x \in keep["all"] <=> x \in port
        BY <2>5, <2>7
      <3> QED
        BY <2>1, <3>2, <3>3 DEF Settled
    <2>8. ASSUME NEW w \in Uarts, ~OnUart(p, w), Settled(w) PROVE Settled(w)'
      <3>1. ASSUME phist.odd = 0 PROVE w \in autodir' <=> w \in autodir
        <4>1. PICK u \in Uarts : r.mask = ModeBits(u) /\ r.dir = u
          BY <2>a, <3>1 DEF ForMode
        <4>2. u # w
          BY <2>3, <2>8, <4>1
        <4> QED
          BY <2>1, <4>1, <4>2
      <3> QED
        BY <2>1, <2>8, <3>1 DEF Settled
    <2>9. \A u \in Uarts, q \in PortProcs : q # p => OnUart(q, u)' = OnUart(q, u)
      BY <2>6 DEF OnUart, InPort
    <2>10. \A u \in Uarts : ~OnUart(p, u)'
      BY <2>6 DEF OnUart, InPort
    <2>11. ASSUME NEW u \in Uarts, \A q \in PortProcs : ~OnUart(q, u)' PROVE Settled(u)'
      BY <2>2, <2>7, <2>8, <2>9, <2>11 DEF ModeInv
    <2>12. ASSUME NEW q \in PortProcs, NEW u \in Uarts, OnlyOn(q, u)'
           PROVE  q # p /\ ~OnUart(p, u) /\ OnlyOn(q, u)
      <3>1. q # p /\ OnUart(q, u)
        BY <2>9, <2>10, <2>12 DEF OnlyOn
      <3>2. ~OnUart(p, u)
        BY <2>4, <3>1 DEF OnlyOn
      <3> QED
        BY <2>9, <2>12, <3>1, <3>2 DEF OnlyOn
    <2> QED
      BY <2>1, <2>2, <2>6, <2>8, <2>11, <2>12 DEF ModeInv, InPort
  <1>7. CASE PledRegister \/ PledInit
    BY <1>7 DEF PledRegister, PledInit, CallsInv, BoardInv, UartBoards
  <1>8. CASE UNCHANGED portVars
    BY <1>8 DEF portVars, ModeInv, Settled, OnlyOn, OnUart, InPort
  <1> QED
    BY <1>1, <1>2, <1>3, <1>4, <1>5, <1>6, <1>7, <1>8 DEF PortNext

\* DA-682B without moxa_pled: every call builds the byte in the copy it has just
\* read, and writes what is in it.
LEMMA LedCopyStep ==
    ASSUME CallsInv, [PortNext]_portVars, board = "DA682B",
           ~phist.raced => FreshInv /\ LedCopyInv
    PROVE  ~phist'.raced => LedCopyInv'
  <1> SUFFICES ASSUME ~phist'.raced, pled' = "absent",
                      \A p \in PortProcs : caller'[p].at # "write"
               PROVE  port' = keep'["all"]
    BY DEF LedCopyInv, InPort
  <1> DEFINE Caller == [at : PortLabels, req : ReqType(board), val : SUBSET PortBits(board)]
  <1>0. /\ caller \in [PortProcs -> Caller]
        /\ keep \in [{"all"} -> SUBSET PortBits(board)]
        /\ phist \in PortLog(board)
    BY DEF CallsInv, PortType, CopyNames
  <1>a. \A p \in PortProcs : caller[p].at # "idle" /\ pled = "absent" =>
            caller[p].req.how = "fresh" /\ caller[p].req.copy = "all"
    BY DEF CallsInv, CallerInv, InPort, WellMade, Copied, CopyNames
  <1>1. ASSUME NEW p \in PortProcs, NEW r \in Requests(board), PortBegin(p, r)
        PROVE  port' = keep'["all"]
    <2>1. \A q \in PortProcs : caller'[q] = caller[q] \/ caller[q].at = "idle"
      BY <1>0, <1>1 DEF PortBegin, InPort
    <2>2. UNCHANGED <<port, keep, pled>> /\ phist'.raced = phist.raced
      BY <1>0, <1>1 DEF PortBegin
    <2> QED
      BY <2>1, <2>2 DEF LedCopyInv, InPort
  <1>2. ASSUME NEW p \in PortProcs, PortRead(p) PROVE port' = keep'["all"]
    BY <1>0, <1>2, <1>a DEF PortRead, InPort
  <1>3. ASSUME NEW p \in PortProcs, PortModify(p) PROVE FALSE
    BY <1>0, <1>3 DEF PortModify
  <1>4. ASSUME NEW p \in PortProcs, PortWrite(p) PROVE port' = keep'["all"]
    <2>1. /\ caller[p].at = "write" /\ phist'.raced = (phist.raced \/ InBetween(p))
          /\ UNCHANGED <<keep, pled>>
      BY <1>0, <1>4 DEF PortWrite, InPort
    <2>2. FreshInv /\ Alone(p)
      BY <2>1 DEF Alone
    <2>3. caller[p].req.how \in Copied /\ caller[p].req.copy = "all"
      BY <1>a, <2>1 DEF Copied
    <2>4. keep["all"] = caller[p].val
      BY <2>1, <2>2, <2>3 DEF FreshInv, InPort
    <2> QED
      BY <1>4, <2>1, <2>3, <2>4 DEF PortWrite
  <1>5. ASSUME NEW p \in PortProcs, OpmodeRead(p) \/ OpmodeStore(p) \/ AutoDirection(p)
        PROVE  FALSE
    BY <1>5 DEF OpmodeRead, OpmodeStore, AutoDirection, CallsInv, CallerInv, InPort, UartBoards
  <1>6. CASE PledRegister \/ PledInit
    BY <1>6 DEF PledRegister, PledInit
  <1>7. CASE UNCHANGED portVars
    BY <1>7 DEF portVars, LedCopyInv, InPort
  <1> QED
    BY <1>1, <1>2, <1>3, <1>4, <1>5, <1>6, <1>7 DEF PortNext

\* The MC boards: a call for an output reads, changes and writes the byte in that
\* output's copy, and changes no other output.
LEMMA OutCopyStep ==
    ASSUME CallsInv, [PortNext]_portVars, board = "MC7100",
           ~phist.raced => FreshInv /\ OutCopyInv
    PROVE  ~phist'.raced => OutCopyInv'
  <1> SUFFICES ASSUME ~phist'.raced, NEW x \in phist'.given,
                      \A p \in PortProcs : ~(caller'[p].at = "write" /\ caller'[p].req.copy = x)
               PROVE  x \in keep'[x] <=> x \in port'
    BY DEF OutCopyInv, InPort
  <1> DEFINE Caller == [at : PortLabels, req : ReqType(board), val : SUBSET PortBits(board)]
             Free == \A p \in PortProcs : ~(caller[p].at = "write" /\ caller[p].req.copy = x)
  <1>0. /\ caller \in [PortProcs -> Caller]
        /\ keep \in [PortBits(board) -> SUBSET PortBits(board)]
        /\ phist \in PortLog(board)
    BY DEF CallsInv, PortType, CopyNames
  <1>a. \A p \in PortProcs : caller[p].at # "idle" =>
            /\ caller[p].req.how = "fresh" /\ caller[p].req.mask = {caller[p].req.copy}
            /\ caller[p].req.copy \in PortBits(board) /\ caller[p].req.set \subseteq caller[p].req.mask
    BY DEF CallsInv, CallerInv, InPort, WellMade, Copied, CopyNames, UartBoards
  <1>b. ASSUME ~phist.raced, x \in phist.given, Free PROVE x \in keep[x] <=> x \in port
    BY <1>b DEF OutCopyInv, InPort
  <1>1. ASSUME NEW p \in PortProcs, NEW r \in Requests(board), PortBegin(p, r)
        PROVE  x \in keep'[x] <=> x \in port'
    <2>1. \A q \in PortProcs : caller'[q] = caller[q] \/ caller[q].at = "idle"
      BY <1>0, <1>1 DEF PortBegin, InPort
    <2>2. UNCHANGED <<port, keep>> /\ phist'.raced = phist.raced /\ phist'.given = phist.given
      BY <1>0, <1>1 DEF PortBegin
    <2> QED
      BY <1>b, <2>1, <2>2
  <1>2. ASSUME NEW p \in PortProcs, PortRead(p) PROVE x \in keep'[x] <=> x \in port'
    <2>1. /\ caller[p].at = "read" /\ keep' = [keep EXCEPT ![caller[p].req.copy] = port]
          /\ UNCHANGED <<port, phist>>
      BY <1>2, <1>a DEF PortRead, InPort
    <2>2. \A q \in PortProcs : q # p => caller'[q] = caller[q]
      BY <1>0, <1>2 DEF PortRead
    <2>3. CASE x = caller[p].req.copy
      BY <1>0, <1>a, <2>1, <2>3
    <2>4. CASE x # caller[p].req.copy
      <3>1. keep'[x] = keep[x]
        BY <1>0, <2>1, <2>4
      <3>2. Free
        BY <2>1, <2>2
      <3> QED
        BY <1>b, <2>1, <3>1, <3>2
    <2> QED
      BY <2>3, <2>4
  <1>3. ASSUME NEW p \in PortProcs, PortModify(p) PROVE x \in keep'[x] <=> x \in port'
    <2>1. PICK byte : /\ keep' = [keep EXCEPT ![caller[p].req.copy] = Changed(caller[p].req, byte)]
                      /\ caller' = [caller EXCEPT ![p].at = "write",
                                                  ![p].val = Changed(caller[p].req, byte)]
      BY <1>3 DEF PortModify
    <2>2. /\ UNCHANGED <<port, phist>> /\ caller[p].at = "modify"
          /\ \A q \in PortProcs : q # p => caller'[q] = caller[q]
          /\ caller'[p].at = "write" /\ caller'[p].req = caller[p].req
      BY <1>0, <1>3, <2>1 DEF PortModify, InPort
    <2>3. x # caller[p].req.copy
      BY <2>2
    <2>4. keep'[x] = keep[x] /\ Free
      BY <1>0, <2>1, <2>2, <2>3
    <2> QED
      BY <1>b, <2>2, <2>4
  <1>4. ASSUME NEW p \in PortProcs, PortWrite(p) PROVE x \in keep'[x] <=> x \in port'
    <2> DEFINE r == caller[p].req
    <2>1. /\ caller[p].at = "write" /\ phist'.raced = (phist.raced \/ InBetween(p))
          /\ phist'.given = phist.given \cup r.mask /\ keep' = keep
      BY <1>0, <1>4 DEF PortWrite, InPort
    <2>2. ~phist.raced /\ FreshInv /\ Alone(p)
      BY <2>1 DEF Alone
    <2>3. /\ r.how = "fresh" /\ r.how \in Copied /\ r.mask = {r.copy} /\ r.set \subseteq r.mask
      BY <1>a, <2>1 DEF Copied
    <2>4. keep[r.copy] = caller[p].val /\ caller[p].val = Changed(r, port)
      BY <2>1, <2>2, <2>3 DEF FreshInv, InPort
    <2>5. port' = caller[p].val
      BY <1>4, <2>3, <2>4 DEF PortWrite
    <2> HIDE DEF r
    <2>6. CASE x = r.copy
      BY <2>1, <2>4, <2>5, <2>6
    <2>7. CASE x # r.copy
      <3>1. x \in phist.given /\ (x \in port' <=> x \in port)
        BY <2>1, <2>3, <2>4, <2>5, <2>7 DEF Changed
      <3>2. Free
        BY <2>2, <2>7 DEF Alone, InBetween, r
      <3> QED
        BY <1>b, <2>1, <2>2, <3>1, <3>2
    <2> QED
      BY <2>6, <2>7
  <1>5. ASSUME NEW p \in PortProcs, OpmodeRead(p) \/ OpmodeStore(p) \/ AutoDirection(p)
        PROVE  FALSE
    BY <1>5 DEF OpmodeRead, OpmodeStore, AutoDirection, CallsInv, CallerInv, InPort, UartBoards
  <1>6. CASE PledRegister \/ PledInit
    BY <1>6 DEF PledRegister, PledInit, CallsInv, BoardInv
  <1>7. CASE UNCHANGED portVars
    BY <1>7, <1>b DEF portVars
  <1> QED
    BY <1>1, <1>2, <1>3, <1>4, <1>5, <1>6, <1>7 DEF PortNext

\* Nothing was given yet and nobody raced.
LEMMA UpdateInit == PortInit => UpdateInv
  <1> SUFFICES ASSUME PortInit PROVE UpdateInv
    OBVIOUS
  <1>1. \A p \in PortProcs : caller[p].at = "idle"
    BY DEF PortInit, IdleCaller
  <1>2. phist.want = port /\ ~phist.raced /\ ~phist.unlocked /\ phist.given = {}
    BY DEF PortInit
  <1>3. MutexInv
    BY <1>1, <1>2 DEF MutexInv, InPort
  <1>4. FreshInv
    BY <1>1, <1>2 DEF FreshInv, Alone
  <1>5. CacheInv
    BY <1>1, <1>2 DEF CacheInv, Alone
  <1>7. LedCopyInv \/ board # "DA682B"
    BY DEF LedCopyInv, PortInit, CopyNames
  <1>8. OutCopyInv
    BY <1>2 DEF OutCopyInv
  <1>6. board \in UartBoards => ModeInv
    <2>1. autodir = InRS485
      BY DEF PortInit
    <2> QED
      BY <1>1, <1>2, <2>1 DEF ModeInv, Settled, OnlyOn, OnUart, InPort, InRS485
  <1> QED
    BY <1>3, <1>4, <1>5, <1>6, <1>7, <1>8 DEF UpdateInv, UartBoards

\* The parts, together: which of them a behaviour is about is its board's.
LEMMA UpdateStep == CallsInv /\ UpdateInv /\ [PortNext]_portVars => UpdateInv'
  <1> SUFFICES ASSUME CallsInv, UpdateInv, [PortNext]_portVars PROVE UpdateInv'
    OBVIOUS
  <1>1. board' = board
    BY DEF PortNext, portVars, PortBegin, PortRead, PortModify, PortWrite, OpmodeRead,
           OpmodeStore, AutoDirection, PledRegister, PledInit
  <1>2. MutexInv'
    BY MutexStep DEF UpdateInv
  <1>3. board # "V2403" => (~phist'.raced => FreshInv')
    BY FreshStep DEF UpdateInv
  <1>4. board = "V2403" => (~phist'.raced => CacheInv')
    BY CacheStep DEF UpdateInv
  <1>5. board \in UartBoards =>
            (~phist'.raced /\ (board = "V2200" \/ phist'.odd = 0) => ModeInv')
    BY ModeStep DEF UpdateInv, UartBoards
  <1>6. board = "DA682B" => (~phist'.raced => LedCopyInv')
    BY LedCopyStep DEF UpdateInv
  <1>7. board = "MC7100" => (~phist'.raced => OutCopyInv')
    BY OutCopyStep DEF UpdateInv
  <1> QED
    BY <1>1, <1>2, <1>3, <1>4, <1>5, <1>6, <1>7 DEF UpdateInv, UartBoards

\* Calls under the mutex never race; without a race every bit holds what it was
\* last given, and the copies and the auto direction agree with it, for any
\* number of processes and calls.
THEOREM NoLostUpdateHolds == PortSpec => []NoLostUpdate
  <1>1. CallsInv /\ UpdateInv => NoLostUpdate
    <2> SUFFICES ASSUME CallsInv, UpdateInv PROVE NoLostUpdate
      OBVIOUS
    <2>1. phist.raced => phist.unlocked
      BY DEF UpdateInv, MutexInv
    <2> SUFFICES ASSUME PortQuiet, ~phist.raced
                 PROVE  /\ board # "V2403" => port = phist.want
                        /\ board = "V2403" /\ phist.given # {} => port = keep["all"]
                        /\ board = "DA682B" /\ pled = "absent" => port = keep["all"]
                        /\ board = "MC7100" =>
                              \A x \in phist.given : x \in keep[x] <=> x \in port
                        /\ board = "V2200" =>
                              keep["all"] \cap phist.given = port \cap phist.given
                        /\ phist.odd = 0 => autodir = InRS485
      BY <2>1 DEF NoLostUpdate
    <2>2. board # "V2403" => port = phist.want
      BY DEF UpdateInv, FreshInv
    <2>3. board = "V2403" /\ phist.given # {} => port = keep["all"]
      BY DEF UpdateInv, CacheInv, PortQuiet, InPort
    <2>4. board = "V2200" \/ (board = "DA820" /\ phist.odd = 0) => \A u \in Uarts : Settled(u)
      BY DEF UpdateInv, ModeInv, PortQuiet, OnUart
    <2>7. board = "DA682B" /\ pled = "absent" => port = keep["all"]
      BY DEF UpdateInv, LedCopyInv, PortQuiet, InPort
    <2>8. board = "MC7100" => \A x \in phist.given : x \in keep[x] <=> x \in port
      BY DEF UpdateInv, OutCopyInv, PortQuiet, InPort
    <2>5. board = "V2200" => keep["all"] \cap phist.given = port \cap phist.given
      <3> SUFFICES ASSUME board = "V2200"
                   PROVE  \A x \in phist.given : x \in keep["all"] <=> x \in port
        OBVIOUS
      <3>1. phist.given \subseteq UNION {ModeBits(u) : u \in Uarts}
        BY DEF CallsInv, PortType, PortBits
      <3> QED
        BY <2>4, <3>1 DEF Settled, UartBoards
    <2>6. phist.odd = 0 => autodir = InRS485
      BY <2>4 DEF Settled, InRS485, CallsInv, BoardInv, UartBoards
    <2> QED
      BY <2>2, <2>3, <2>5, <2>6, <2>7, <2>8
  <1>2. PortInit => CallsInv /\ UpdateInv
    BY CallsInit, UpdateInit
  <1>3. (CallsInv /\ UpdateInv) /\ [PortNext]_portVars => (CallsInv /\ UpdateInv)'
    BY CallsStep, UpdateStep
  <1> QED
    BY <1>1, <1>2, <1>3, PTL DEF PortSpec

=============================================================================
