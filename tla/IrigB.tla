------------------------------- MODULE IrigB -------------------------------
(***************************************************************************)
(* The IRIG-B time-code card (src/modules/moxa_IRIG-B/moxa_irigb.c): the   *)
(* interrupt handler that masks a source's "off" event while the source is *)
(* off, the polling timer used instead of it, the ioctls on the card's     *)
(* registers, probe with its unwinding, and remove.                        *)
(*                                                                         *)
(* The bits of INTSTS, INTMSK and TimeStatus are pairs <<source, event>>;  *)
(* "off" is IRIGxDE_OFF or PPSDE_TIMEOUT, "err" the two error events.      *)
(* INTMSK is the set of the bits that are masked.                          *)
(***************************************************************************)
EXTENDS Integers

CONSTANTS
    Sources,      \* a subset of {"irig0", "irig1", "pps"}
    MaxIrigEvents \* bound: events of the sources, calls, probes

ASSUME IrigAssumption == Sources \subseteq {"irig0", "irig1", "pps"} /\ MaxIrigEvents \in Nat

EventsOf(s) == IF s = "pps" THEN {"off", "done"} ELSE {"off", "err", "done"}
Group(s) == {s} \X EventsOf(s)
IntBits == UNION {Group(s) : s \in Sources}

VARIABLES
    useIrq,       \* enable_irigb_irq # 0
    intsts,       \* INTSTS
    intmsk,       \* INTMSK
    timeStatus,   \* IRIG_B.TimeStatus
    held,         \* what the driver has registered, mapped, enabled
    bound,        \* the PCI core holds the device as bound to the driver
    ppc,          \* probe, remove: where it is
    handler,      \* irigb_interrupt: where it is, intMsk, intSts
    timer,        \* irigb_timer: none, pending, running
    user,         \* IOCTL_SETCLR_REGISTER_BIT on INTMSK: where it is, val
    ilog          \* history

irigVars == <<useIrq, intsts, intmsk, timeStatus, held, bound, ppc, handler, timer, user, ilog>>

IdleHandler == [at |-> "idle", msk |-> {}, sts |-> {}]

IrigInit ==
    /\ useIrq \in BOOLEAN /\ intsts = {} /\ intmsk = IntBits /\ timeStatus = {}
    /\ held = {} /\ bound = FALSE /\ ppc = "idle"
    /\ handler = IdleHandler /\ timer = "none" /\ user = [at |-> "idle", val |-> {}]
    /\ ilog = [events |-> 0, touched |-> FALSE, stray |-> {}, ranOn |-> FALSE, hollow |-> FALSE]

\* An access to the registers: it must find them mapped.
Accesses(who) == ilog' = [ilog EXCEPT !.stray = IF "map" \in held THEN @ ELSE @ \cup {who}]

Counted(log) == [log EXCEPT !.events = @ + 1]

-----------------------------------------------------------------------------
(* The card. *)

SourceEvent(b) ==
    /\ ilog.events < MaxIrigEvents /\ b \notin intsts
    /\ intsts' = intsts \cup {b} /\ ilog' = Counted(ilog)
    /\ UNCHANGED <<useIrq, intmsk, timeStatus, held, bound, ppc, handler, timer, user>>

\* The driver never writes INTSTS: whether reading it clears it is the card's
\* business.
ReadIntSts == intsts' \in {intsts, {}}

-----------------------------------------------------------------------------
(* irigb_interrupt; other devices may share its line. *)

IrqReadMask ==
    /\ useIrq /\ "irq" \in held /\ handler.at = "idle" /\ Accesses("irq")
    /\ handler' = IF intmsk = IntBits THEN IdleHandler
                  ELSE [at |-> "status", msk |-> IntBits \ intmsk, sts |-> {}]
    /\ UNCHANGED <<useIrq, intsts, intmsk, timeStatus, held, bound, ppc, timer, user>>

IrqReadStatus ==
    /\ handler.at = "status" /\ Accesses("irq") /\ ReadIntSts
    /\ handler' = IF handler.msk \cap intsts = {} THEN IdleHandler
                  ELSE [handler EXCEPT !.at = "write", !.sts = intsts]
    /\ UNCHANGED <<useIrq, intmsk, timeStatus, held, bound, ppc, timer, user>>

\* The sources the status names.
Named(sts) == {s \in Sources : sts \cap Group(s) # {}}
NewStatus(sts) == (timeStatus \ UNION {Group(s) : s \in Named(sts)}) \cup sts

\* Variant: the "off" event is not enabled again.
NewMaskSticks(msk, sts) == msk \ {<<s, "off">> : s \in {t \in Named(sts) : <<t, "off">> \in sts}}

\* The enabled events: "off" of each named source, unless it is off now.
NewMask(msk, sts) ==
    (msk \ {<<s, "off">> : s \in Named(sts)})
       \cup {<<s, "off">> : s \in {t \in Named(sts) : <<t, "off">> \notin sts}}

IrqWriteMask ==
    /\ handler.at = "write" /\ Accesses("irq") /\ handler' = IdleHandler
    /\ timeStatus' = NewStatus(handler.sts)
    /\ intmsk' = IntBits \ NewMask(handler.msk, handler.sts)
    /\ UNCHANGED <<useIrq, intsts, held, bound, ppc, timer, user>>

-----------------------------------------------------------------------------
(* irigb_poll. *)

TimerFires ==
    /\ timer = "pending" /\ timer' = "running"
    /\ UNCHANGED <<useIrq, intsts, intmsk, timeStatus, held, bound, ppc, handler, user, ilog>>

\* Of a source's events the first counts: off, error, done.
First(sts, s) ==
    IF <<s, "off">> \in sts THEN <<s, "off">>
    ELSE IF <<s, "err">> \in sts THEN <<s, "err">> ELSE <<s, "done">>

Poll ==
    /\ timer = "running" /\ Accesses("poll") /\ ReadIntSts
    /\ timeStatus' = (timeStatus \ UNION {Group(s) : s \in Named(intsts)})
                        \cup {First(intsts, s) : s \in Named(intsts)}
    /\ timer' = "pending"
    /\ UNCHANGED <<useIrq, intmsk, held, bound, ppc, handler, user>>

-----------------------------------------------------------------------------
(* irigb_ioctl on INTMSK, through a file that may outlive the device node. *)

\* IOCTL_SETCLR_REGISTER_BIT reads, then writes.
SetClrRead ==
    /\ user.at = "idle" /\ ilog.events < MaxIrigEvents
    /\ "misc" \in held
    /\ ilog' = Counted([ilog EXCEPT !.stray = IF "map" \in held THEN @ ELSE @ \cup {"ioctl"}])
    /\ user' = [at |-> "write", val |-> intmsk]
    /\ UNCHANGED <<useIrq, intsts, intmsk, timeStatus, held, bound, ppc, handler, timer>>

SetClrWrite(b) ==
    /\ user.at = "write" /\ user' = [at |-> "idle", val |-> {}]
    /\ ilog' = [ilog EXCEPT !.touched = TRUE,
                            !.stray = IF "map" \in held THEN @ ELSE @ \cup {"ioctl"}]
    /\ intmsk' \in {user.val \cup {b}, user.val \ {b}}
    /\ UNCHANGED <<useIrq, intsts, timeStatus, held, bound, ppc, handler, timer>>

-----------------------------------------------------------------------------
(* irigb_probe: each step may fail and undoes the ones before it.  ioremap is  *)
(* taken to succeed: its result is not checked.                                 *)

ProbeStart ==
    /\ ppc = "idle" /\ ~bound /\ ilog.events < MaxIrigEvents
    /\ ppc' = "misc" /\ ilog' = Counted([ilog EXCEPT !.touched = FALSE, !.hollow = FALSE])
    /\ UNCHANGED <<useIrq, intsts, intmsk, timeStatus, held, bound, handler, timer, user>>

\* A failure: retval is set only for request_mem_region and request_irq; after
\* the others probe returns 0 and the core binds a device that has nothing.
ProbeFails(undone, retval) ==
    /\ held' = held \ undone /\ bound' = (retval = 0) /\ ppc' = "idle"
    /\ ilog' = [ilog EXCEPT !.hollow = bound']
    /\ UNCHANGED <<useIrq, intsts, intmsk, timeStatus, handler, timer, user>>

ProbeTakes(what, next) ==
    /\ held' = held \cup what /\ ppc' = next
    /\ UNCHANGED <<useIrq, intsts, intmsk, timeStatus, bound, handler, timer, user, ilog>>

ProbeMisc ==
    /\ ppc = "misc"
    /\ ProbeTakes({"misc"}, "region") \/ ProbeFails({}, 0)

ProbeRegion ==
    /\ ppc = "region"
    /\ ProbeTakes({"region", "map"}, "enable") \/ ProbeFails({"misc"}, -1)

\* The chip is reset, which masks everything; then MSI is tried.
ProbeReset ==
    /\ intmsk' = IntBits /\ intsts' = {} /\ Accesses("probe")
    /\ held' = held \cup {"pci"} \cup (IF useIrq THEN {"msi"} ELSE {})
    /\ ppc' = IF useIrq THEN "irq" ELSE "timer"
    /\ UNCHANGED <<useIrq, timeStatus, bound, handler, timer, user>>

ProbeEnable ==
    /\ ppc = "enable"
    /\ ProbeReset \/ ProbeFails({"region", "map", "misc"}, 0)

ProbeIrq ==
    /\ ppc = "irq"
    /\ ProbeTakes({"irq"}, "unmask") \/ ProbeFails({"pci", "region", "map", "misc"}, -1)

\* writel(intMsk, reg + INTMSK); return 0.
ProbeUnmask ==
    /\ ppc = "unmask" /\ Accesses("probe")
    /\ intmsk' = {} /\ bound' = TRUE /\ ppc' = "idle"
    /\ UNCHANGED <<useIrq, intsts, timeStatus, held, handler, timer, user>>

ProbeTimer ==
    /\ ppc = "timer" /\ Accesses("probe")
    /\ intmsk' = IntBits /\ timer' = "pending" /\ bound' = TRUE /\ ppc' = "idle"
    /\ UNCHANGED <<useIrq, intsts, timeStatus, held, handler, user>>

-----------------------------------------------------------------------------
(* irigb_remove, also of a device that probe left with nothing. *)

RemoveStart ==
    /\ ppc = "idle" /\ bound /\ ilog.events < MaxIrigEvents
    /\ held' = held \ {"misc"} /\ ppc' = "mask"
    /\ ilog' = Counted(ilog)
    /\ UNCHANGED <<useIrq, intsts, intmsk, timeStatus, bound, handler, timer, user>>

\* The write meant to mask all the interrupts: vaddr is a void pointer, so it
\* goes to byte INTMSK of the registers, an output port's configuration, not to
\* word INTMSK as everywhere else.  The mask stays.
RemoveMask ==
    /\ ppc = "mask" /\ Accesses(IF ilog.hollow THEN "hollow" ELSE "remove")
    /\ ppc' = "stop"
    /\ UNCHANGED <<useIrq, intsts, intmsk, timeStatus, held, bound, handler, timer, user>>

\* Variant: the interrupt is not waited for.
RemoveStopNoWait ==
    /\ ppc = "stop" /\ ppc' = "unmap"
    /\ held' = held \ {"irq", "msi"}
    /\ timer' = IF ~useIrq /\ timer = "pending" THEN "none" ELSE timer
    /\ ilog' = [ilog EXCEPT !.ranOn = @ \/ (~useIrq /\ timer = "running")]
    /\ UNCHANGED <<useIrq, intsts, intmsk, timeStatus, bound, handler, user>>

\* free_irq waits for the handler; a timer that is not pending is not deleted,
\* and its callback, if it runs now, arms it again.
RemoveStop ==
    /\ ppc = "stop" /\ ppc' = "unmap"
    /\ useIrq => handler.at = "idle"
    /\ held' = held \ {"irq", "msi"}
    /\ timer' = IF ~useIrq /\ timer = "pending" THEN "none" ELSE timer
    /\ ilog' = [ilog EXCEPT !.ranOn = @ \/ (~useIrq /\ timer = "running")]
    /\ UNCHANGED <<useIrq, intsts, intmsk, timeStatus, bound, handler, user>>

RemoveUnmap ==
    /\ ppc = "unmap" /\ held' = held \ {"pci", "region", "map"}
    /\ bound' = FALSE /\ ppc' = "idle"
    /\ UNCHANGED <<useIrq, intsts, intmsk, timeStatus, handler, timer, user, ilog>>

IrigNext ==
    \/ \E b \in IntBits : SourceEvent(b) \/ SetClrWrite(b)
    \/ IrqReadMask \/ IrqReadStatus \/ IrqWriteMask
    \/ TimerFires \/ Poll \/ SetClrRead
    \/ ProbeStart \/ ProbeMisc \/ ProbeRegion \/ ProbeEnable \/ ProbeIrq
    \/ ProbeUnmask \/ ProbeTimer
    \/ RemoveStart \/ RemoveMask \/ RemoveStop \/ RemoveUnmap

IrigSpec == IrigInit /\ [][IrigNext]_irigVars

-----------------------------------------------------------------------------
(* Properties. *)

\* A source that goes off is never overlooked: while the handler alone writes
\* INTMSK, the "off" event of a source is masked only if TimeStatus already
\* says that it is off; and TimeStatus never says that a polled source is off
\* and done at once.
OffNoticed ==
    /\ useIrq /\ bound /\ ppc = "idle" /\ ~ilog.touched /\ ~ilog.hollow
          /\ handler.at = "idle" /\ user.at = "idle" =>
       \A s \in Sources : <<s, "off">> \in intmsk => <<s, "off">> \in timeStatus
    /\ ~useIrq => \A s \in Sources : \A b, c \in timeStatus \cap Group(s) : b = c

\* What probe took and did not keep is given back, except that MSI stays
\* enabled when request_irq fails.  After remove nothing touches the unmapped
\* registers but a polling callback that was running when remove looked for a
\* pending timer, a call on a file that was still open, and the remove of a
\* device whose failed probe returned 0.
RemoveIsClean ==
    /\ ppc = "idle" /\ ~bound => held \subseteq {"msi"}
    /\ ilog.stray \subseteq {"poll", "ioctl", "hollow"}
    /\ "poll" \in ilog.stray => ilog.ranOn

=============================================================================
