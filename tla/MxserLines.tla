----------------------------- MODULE MxserLines -----------------------------
(***************************************************************************)
(* The settings of an open mxser port (src/modules/mxser/mxser.c):         *)
(* mxser_set_termios with mxser_change_speed, TIOCMIWAIT, TIOCMGET,        *)
(* MOXA_ASPP_MON, TIOCSSOFTCAR, TIOCSSERIAL, the special baud rate ioctl   *)
(* and the break, each called by a thread of its own, against the modem    *)
(* status part of the interrupt handler.  A section under info->slock is   *)
(* one step; a read and a write outside it are two.                        *)
(*                                                                         *)
(* The port always has bytes to send.  Baud rates, MCR and the masks for   *)
(* received bytes are left out; a change of theirs is a call that leaves   *)
(* the settings kept here as they are.  Of the unlocked changes of a word  *)
(* one at a time is under way.                                             *)
(***************************************************************************)
EXTENDS Integers

CONSTANTS
    Formats,      \* byte sizes and parities: what CSIZE and PARENB choose
    MaxChanges,   \* bound: changes of the modem inputs
    Casts         \* bound: the callers a behaviour has besides set_termios, a
                  \* set of sets of "break", "wait", "get", "mon", "special",
                  \* "softcar", "serial", "flow".  The format changes only
                  \* beside a break, IXON only beside flow-control characters

Inputs == {"cts", "dcd"}

ASSUME LinesAssumption ==
    /\ MaxChanges \in Nat
    /\ Casts \subseteq SUBSET {"break", "wait", "get", "mon", "special", "softcar",
                               "serial", "flow"}

VARIABLES
    cast,             \* the behaviour's callers
    autoFlow,         \* the UART obeys CTS by itself (16550A or Moxa's own)
    tios,             \* tty->termios: crtscts, clocal, ixon, format
    setter,           \* the thread in mxser_set_termios, and its old_termios
    asyncFlags,       \* ASYNC_CTS_FLOW and ASYNC_CHECK_CD in info->flags
    IER, LCR,         \* info->IER, which the register follows; the register LCR
    hwStopped,        \* tty->hw_stopped
    stopped,          \* tty->stopped
    input, deltas,    \* MSR: the levels, and the inputs whose delta bit is set
    icount,           \* info->icount
    breaker,          \* a thread holds the line in break
    iwait,            \* the thread in TIOCMIWAIT
    monitor,          \* the thread in MOXA_ASPP_MON
    rmw,              \* a thread between the read and the write of a word
    changes,          \* number of changes of the inputs
    lost              \* history: an unlocked caller wrote back what was stale

world2 == <<cast, autoFlow>>
tx == <<IER, hwStopped, stopped>>
msr == <<input, deltas, changes>>
others == <<breaker, monitor, rmw>>
linesVars == <<world2, tios, setter, asyncFlags, tx, LCR, msr, icount, iwait,
               others, lost>>

Termios == [crtscts : BOOLEAN, clocal : BOOLEAN, ixon : BOOLEAN, format : Formats]
NoCounts == [l \in Inputs |-> 0]
NoSetter(t) == [pc |-> "idle", old |-> t]
NoWait == [pc |-> "idle", mask |-> {}, cprev |-> NoCounts, woken |-> FALSE]
NoMonitor == [pc |-> "idle", cts |-> FALSE, deltas |-> {}, ier |-> {}]
NoRmw == [pc |-> "idle", flags |-> {}, tios |-> {}]

\* What mxser_change_speed makes of the flags and of the interrupts.
FlagsOf(t) == (IF t.crtscts THEN {"CTS_FLOW"} ELSE {}) \cup (IF t.clocal THEN {} ELSE {"CHECK_CD"})
MsiOf(t) == IF t.crtscts \/ ~t.clocal THEN {"MSI"} ELSE {}

\* A port that was just opened: its output runs.
LinesInit ==
    /\ cast \in Casts /\ autoFlow \in BOOLEAN
    /\ \E f \in Formats :
           /\ tios = [crtscts |-> FALSE, clocal |-> TRUE, ixon |-> TRUE, format |-> f]
           /\ LCR = [format |-> f, sbc |-> FALSE]
    /\ setter = NoSetter(tios)
    /\ asyncFlags = FlagsOf(tios) /\ IER = {"THRI"} \cup MsiOf(tios)
    /\ hwStopped = FALSE /\ stopped = FALSE
    /\ input \in [Inputs -> BOOLEAN] /\ deltas = {} /\ icount = NoCounts
    /\ breaker = FALSE /\ iwait = NoWait /\ monitor = NoMonitor /\ rmw = NoRmw
    /\ changes = 0 /\ lost = FALSE

-----------------------------------------------------------------------------
(* mxser_set_termios.  The tty core admits one caller at a time. *)

\* External: the tty core stores the new settings and keeps the old ones.
StoreTermios(t) ==
    /\ setter.pc = "idle"
    /\ t.ixon # tios.ixon => "flow" \in cast          \* bounds
    /\ t.format # tios.format => "break" \in cast
    /\ tios' = t /\ setter' = [pc |-> "apply", old |-> tios]
    /\ UNCHANGED <<world2, asyncFlags, tx, LCR, msr, icount, iwait, others, lost>>

\* mxser_change_speed.  With CRTSCTS on a UART that does not obey CTS by itself
\* the level of CTS is looked at, by a read of MSR that clears every delta bit.
ChangeSettings ==
    LET looks == tios.crtscts /\ ~autoFlow
        runs == looks /\ hwStopped /\ input["cts"]
        halts == looks /\ ~hwStopped /\ ~input["cts"]
    IN  /\ asyncFlags' = FlagsOf(tios)
        /\ hwStopped' = ((hwStopped /\ ~runs) \/ halts)
        /\ IER' = ((IER \ {"MSI"}) \ (IF halts THEN {"THRI"} ELSE {}))
                  \cup (IF runs THEN {"THRI"} ELSE {}) \cup MsiOf(tios)
        /\ deltas' = IF looks THEN {} ELSE deltas
        /\ LCR' = [format |-> tios.format, sbc |-> FALSE]

\* Every change of c_cflag and of the flags in RELEVANT_IFLAG, IXON among them, is
\* applied; settings that are as before (TIOCSSOFTCAR came between) may not be.
ApplyTermios ==
    /\ setter.pc = "apply"
    /\ \/ ChangeSettings /\ setter' = [setter EXCEPT !.pc = "cts"]
       \/ /\ tios = setter.old /\ setter' = [setter EXCEPT !.pc = "ixon"]
          /\ UNCHANGED <<asyncFlags, hwStopped, IER, deltas, LCR>>
    /\ UNCHANGED <<world2, tios, stopped, input, changes, icount, iwait, others, lost>>

\* Variant: hw_stopped stays as it is.
ReleaseCtsNot ==
    /\ setter.pc = "cts" /\ setter' = [setter EXCEPT !.pc = "ixon"]
    /\ UNCHANGED <<world2, tios, asyncFlags, tx, LCR, msr, icount, iwait, others, lost>>

\* Without the lock again: hw_stopped is cleared if CRTSCTS is gone.
ReleaseCts ==
    /\ setter.pc = "cts"
    /\ IF setter.old.crtscts /\ ~tios.crtscts
       THEN hwStopped' = FALSE /\ setter' = [setter EXCEPT !.pc = "start"]
       ELSE UNCHANGED hwStopped /\ setter' = [setter EXCEPT !.pc = "ixon"]
    /\ UNCHANGED <<world2, tios, asyncFlags, IER, stopped, LCR, msr, icount, iwait,
                   others, lost>>

\* mxser_start, after CRTSCTS and after IXON.
StartTx(label, next) ==
    /\ setter.pc = label
    /\ setter' = IF next = "idle" THEN NoSetter(tios) ELSE [setter EXCEPT !.pc = next]
    /\ IER' = IER \cup {"THRI"}
    /\ UNCHANGED <<world2, tios, asyncFlags, hwStopped, stopped, LCR, msr, icount,
                   iwait, others, lost>>

ReleaseIxon ==
    /\ setter.pc = "ixon"
    /\ IF setter.old.ixon /\ ~tios.ixon
       THEN stopped' = FALSE /\ setter' = [setter EXCEPT !.pc = "restart"]
       ELSE UNCHANGED stopped /\ setter' = NoSetter(tios)
    /\ UNCHANGED <<world2, tios, asyncFlags, IER, hwStopped, LCR, msr, icount, iwait,
                   others, lost>>

\* External: the tty core stops the output on a stop character, ...
StopChar ==
    /\ "flow" \in cast /\ tios.ixon /\ ~stopped /\ setter.pc = "idle"
    /\ stopped' = TRUE /\ IER' = IER \ {"THRI"}
    /\ UNCHANGED <<world2, tios, setter, asyncFlags, hwStopped, LCR, msr, icount,
                   iwait, others, lost>>

\* ... and starts it with the next start character (mxser_stop, mxser_start).
StartChar ==
    /\ stopped /\ setter.pc = "idle"
    /\ stopped' = FALSE /\ IER' = IER \cup {"THRI"}
    /\ UNCHANGED <<world2, tios, setter, asyncFlags, hwStopped, LCR, msr, icount,
                   iwait, others, lost>>

-----------------------------------------------------------------------------
(* Modem status. *)

\* External: a modem input changes.
InputChanges(l) ==
    /\ changes < MaxChanges /\ changes' = changes + 1
    /\ input' = [input EXCEPT ![l] = ~@] /\ deltas' = deltas \cup {l}
    /\ UNCHANGED <<world2, tios, setter, asyncFlags, tx, LCR, icount, iwait, others, lost>>

\* mxser_check_modem_status counts what changed and wakes TIOCMIWAIT.
CountDeltas(d) ==
    /\ icount' = [l \in Inputs |-> icount[l] + (IF l \in d THEN 1 ELSE 0)]
    /\ iwait' = [iwait EXCEPT !.woken = TRUE]

\* The rest of it: with ASYNC_CTS_FLOW hw_stopped follows CTS.
Runs(level) == "CTS_FLOW" \in asyncFlags /\ hwStopped /\ level
Halts(level) == "CTS_FLOW" \in asyncFlags /\ ~hwStopped /\ ~level
FlowHw(level) == hwStopped' = ((hwStopped /\ ~Runs(level)) \/ Halts(level))
FlowIer(ier0, level) ==
    IF autoFlow THEN ier0
    ELSE IF Runs(level) THEN ier0 \cup {"THRI"}
    ELSE IF Halts(level) THEN ier0 \ {"THRI"} ELSE ier0

\* Under the lock: MSR is read, which clears the delta bits, and checked.
CheckModemStatus ==
    /\ deltas # {} /\ deltas' = {}
    /\ CountDeltas(deltas)
    /\ FlowHw(input["cts"]) /\ IER' = FlowIer(IER, input["cts"])
    /\ UNCHANGED <<world2, tios, setter, asyncFlags, stopped, LCR, input, changes,
                   others, lost>>

\* The interrupt handler reads MSR in every pass, whatever brought it there.
ModemInterrupt == IER \cap {"MSI", "THRI"} # {} /\ CheckModemStatus

TiocmGet == "get" \in cast /\ CheckModemStatus

\* mxser_transmit_chars gives up while output is held.
TransmitInterrupt ==
    /\ "THRI" \in IER /\ (stopped \/ (hwStopped /\ ~autoFlow))
    /\ IER' = IER \ {"THRI"}
    /\ UNCHANGED <<world2, tios, setter, asyncFlags, hwStopped, stopped, LCR, msr,
                   icount, iwait, others, lost>>

\* MOXA_ASPP_MON reads MSR outside the lock ...
MonRead ==
    /\ "mon" \in cast /\ monitor.pc = "idle"
    /\ monitor' = [NoMonitor EXCEPT !.pc = "check", !.cts = input["cts"], !.deltas = deltas]
    /\ deltas' = {}
    /\ UNCHANGED <<world2, tios, setter, asyncFlags, tx, LCR, input, changes, icount,
                   iwait, breaker, rmw, lost>>

\* ... and checks what it read, which is stale if the handler came between, ...
MonCheck ==
    /\ monitor.pc = "check"
    /\ CountDeltas(monitor.deltas)
    /\ FlowHw(monitor.cts)
    /\ monitor' = IF FlowIer(IER, monitor.cts) = IER THEN NoMonitor
                  ELSE [NoMonitor EXCEPT !.pc = "ier", !.ier = IER, !.cts = monitor.cts]
    /\ lost' = (lost \/ (monitor.cts # input["cts"] /\ "cts" \notin deltas))
    /\ UNCHANGED <<world2, tios, setter, asyncFlags, IER, stopped, LCR, msr, breaker, rmw>>

\* ... and writes the IER it loaded before.
MonIer ==
    /\ monitor.pc = "ier" /\ monitor' = NoMonitor
    /\ IER' = IF monitor.cts THEN monitor.ier \cup {"THRI"} ELSE monitor.ier \ {"THRI"}
    /\ lost' = (lost \/ IER # monitor.ier \/ hwStopped = monitor.cts)
    /\ UNCHANGED <<world2, tios, setter, asyncFlags, hwStopped, stopped, LCR, msr,
                   icount, iwait, breaker, rmw>>

-----------------------------------------------------------------------------
(* TIOCMIWAIT. *)

IwaitBegin(mask) ==
    /\ "wait" \in cast /\ iwait.pc = "idle"
    /\ iwait' = [pc |-> "queue", mask |-> mask, cprev |-> icount, woken |-> FALSE]
    /\ UNCHANGED <<world2, tios, setter, asyncFlags, tx, LCR, msr, icount, others, lost>>

\* add_wait_queue, TASK_INTERRUPTIBLE and schedule, with no test in between.
IwaitSleep ==
    /\ iwait.pc = "queue"
    /\ iwait' = [iwait EXCEPT !.pc = "asleep", !.woken = FALSE]
    /\ UNCHANGED <<world2, tios, setter, asyncFlags, tx, LCR, msr, icount, others, lost>>

IwaitWakes ==
    /\ iwait.pc = "asleep" /\ iwait.woken
    /\ iwait' = IF \E l \in iwait.mask : icount[l] # iwait.cprev[l]
                THEN NoWait
                ELSE [iwait EXCEPT !.pc = "queue", !.cprev = icount]
    /\ UNCHANGED <<world2, tios, setter, asyncFlags, tx, LCR, msr, icount, others, lost>>

IwaitSignal ==
    /\ iwait.pc = "asleep" /\ iwait' = NoWait
    /\ UNCHANGED <<world2, tios, setter, asyncFlags, tx, LCR, msr, icount, others, lost>>

-----------------------------------------------------------------------------
(* The break, and the words changed outside the lock. *)

\* Variant: LCR is rebuilt from the settings in force before the last change.
BreakClearOld ==
    /\ breaker /\ breaker' = FALSE
    /\ LCR' = [format |-> setter.old.format, sbc |-> FALSE]
    /\ UNCHANGED <<world2, tios, setter, asyncFlags, tx, msr, icount, iwait, monitor,
                   rmw, lost>>

\* mxser_send_break, or mxser_rs_break twice: LCR is read again after the sleep.
BreakSet ==
    /\ "break" \in cast /\ ~breaker /\ breaker' = TRUE
    /\ LCR' = [LCR EXCEPT !.sbc = TRUE]
    /\ UNCHANGED <<world2, tios, setter, asyncFlags, tx, msr, icount, iwait, monitor,
                   rmw, lost>>

BreakClear ==
    /\ breaker /\ breaker' = FALSE
    /\ LCR' = [LCR EXCEPT !.sbc = FALSE]
    /\ UNCHANGED <<world2, tios, setter, asyncFlags, tx, msr, icount, iwait, monitor,
                   rmw, lost>>

\* TIOCSSERIAL loads info->flags, TIOCSSOFTCAR loads c_cflag, ...
LoadFlags ==
    /\ "serial" \in cast /\ rmw.pc = "idle"
    /\ rmw' = [pc |-> "flags", flags |-> asyncFlags, tios |-> {}]
    /\ UNCHANGED <<world2, tios, setter, asyncFlags, tx, LCR, msr, icount, iwait,
                   breaker, monitor, lost>>

\* MOXA_SET_SPECIAL_BAUD_RATE too, once to clear the rate and once to set it.
LoadCflag(caller, from, label) ==
    /\ caller \in cast /\ rmw.pc = from
    /\ rmw' = [pc |-> label, flags |-> {}, tios |-> {tios}]
    /\ UNCHANGED <<world2, tios, setter, asyncFlags, tx, LCR, msr, icount, iwait,
                   breaker, monitor, lost>>

\* ... and stores it with its own bits changed, none of them kept here.
StoreFlags(newSpeed) ==
    /\ rmw.pc = "flags" /\ rmw' = IF newSpeed THEN [NoRmw EXCEPT !.pc = "speed"] ELSE NoRmw
    /\ asyncFlags' = rmw.flags
    /\ lost' = (lost \/ rmw.flags # asyncFlags)
    /\ UNCHANGED <<world2, tios, setter, tx, LCR, msr, icount, iwait, breaker, monitor>>

\* TIOCSSERIAL with other ASYNC_SPD_MASK bits (the type of the UART is kept), and
\* the special rate, are applied under the lock.
ApplySpeed ==
    /\ rmw.pc = "speed" /\ rmw' = NoRmw
    /\ ChangeSettings
    /\ UNCHANGED <<world2, tios, setter, stopped, input, changes, icount, iwait, breaker,
                   monitor, lost>>

\* CLOCAL changes in the settings only: nothing is applied.
StoreCflag(local) ==
    /\ rmw.pc = "cflag" /\ rmw' = NoRmw
    /\ \E t \in rmw.tios :
           /\ tios' = [t EXCEPT !.clocal = local, !.ixon = tios.ixon]
           /\ lost' = (lost \/ [t EXCEPT !.clocal = tios.clocal, !.ixon = tios.ixon] # tios)
    /\ UNCHANGED <<world2, setter, asyncFlags, tx, LCR, msr, icount, iwait, breaker,
                   monitor>>

\* The rate is not kept here: what is stored is what was loaded.
StoreRate(label, next) ==
    /\ rmw.pc = label /\ rmw' = [NoRmw EXCEPT !.pc = next]
    /\ \E t \in rmw.tios :
           /\ tios' = [t EXCEPT !.ixon = tios.ixon]
           /\ lost' = (lost \/ [t EXCEPT !.ixon = tios.ixon] # tios)
    /\ UNCHANGED <<world2, setter, asyncFlags, tx, LCR, msr, icount, iwait, breaker,
                   monitor>>

-----------------------------------------------------------------------------
LinesNext ==
    \/ \E t \in Termios : StoreTermios(t)
    \/ ApplyTermios \/ ReleaseCts \/ ReleaseIxon
    \/ StartTx("start", "ixon") \/ StartTx("restart", "idle")
    \/ StopChar \/ StartChar
    \/ \E l \in Inputs : InputChanges(l)
    \/ ModemInterrupt \/ TiocmGet \/ TransmitInterrupt
    \/ MonRead \/ MonCheck \/ MonIer
    \/ \E mask \in SUBSET Inputs \ {{}} : IwaitBegin(mask)
    \/ IwaitSleep \/ IwaitWakes \/ IwaitSignal
    \/ BreakSet \/ BreakClear
    \/ LoadFlags \/ ApplySpeed \/ LoadCflag("softcar", "idle", "cflag")
    \/ LoadCflag("special", "idle", "mask") \/ StoreRate("mask", "masked")
    \/ LoadCflag("special", "masked", "rate") \/ StoreRate("rate", "speed")
    \/ \E newSpeed \in BOOLEAN : StoreFlags(newSpeed)
    \/ \E local \in BOOLEAN : StoreCflag(local)

LinesSpec == LinesInit /\ [][LinesNext]_linesVars

-----------------------------------------------------------------------------
(* Properties. *)

\* Outside mxser_set_termios, output that hardware flow control holds back is
\* output it should hold back: CRTSCTS is on and CTS is low, or the interrupt
\* that will let it go is pending and enabled; output that nothing holds back
\* has its interrupt enabled; and with CRTSCTS a UART that does not obey CTS by
\* itself is held while CTS is low, or will be by a pending interrupt.  Unlocked
\* callers that wrote back a stale word (lost) are excepted.
CtsPending == "cts" \in deltas /\ "MSI" \in IER /\ "CTS_FLOW" \in asyncFlags
FlowFollowsCts ==
    ~lost /\ setter.pc = "idle" /\ monitor.pc = "idle" =>
        /\ hwStopped => tios.crtscts /\ (input["cts"] => CtsPending)
        /\ tios.crtscts /\ ~autoFlow /\ ~input["cts"] => hwStopped \/ CtsPending
        /\ ~stopped /\ (autoFlow \/ ~hwStopped) => "THRI" \in IER

\* The line has the byte size and parity of the settings whenever no caller is
\* changing them, and no break when no caller holds it: a break does not bring
\* back the LCR it found, though the settings change while the caller sleeps.
FormatKept ==
    ~lost /\ setter.pc # "apply" =>
        LCR.format = tios.format /\ (LCR.sbc => breaker)

\* A thread that sleeps in TIOCMIWAIT has seen every change counted since it
\* noted the counters on entry.
ChangeEndsWait ==
    iwait.pc = "asleep" /\ ~iwait.woken =>
        \A l \in iwait.mask : icount[l] = iwait.cprev[l]

=============================================================================
