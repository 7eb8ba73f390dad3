------------------------------ MODULE Hotswap ------------------------------
(***************************************************************************)
(* The hot-swap slots of the V2616A: the driver                            *)
(* (src/modules/moxa_v2616A_hotswap/main.c), whose timer turns changes of  *)
(* a register of each disk into a busy flag, and the daemon                *)
(* (src/user/mxhtspd/mxhtspd.c), which polls the driver for both disks,    *)
(* lights the disk LED, and runs scripts for plugging and for buttons.     *)
(*                                                                         *)
(* "CONFIG_PRODUCT == V2616A" compares two names the preprocessor does not *)
(* know, so the branch for one LED is the one compiled for every product.  *)
(* The daemon is the only writer of LED 1 here; that two writers of the    *)
(* LED register can undo each other is shown in BoardPorts.                *)
(***************************************************************************)
EXTENDS Integers, FiniteSetsExt

CONSTANTS
    IdleLimit,     \* idle_cnt is compared with it (10 in the code)
    PassLimit,     \* passes without a check of the partitions (10: one second)
    ChkPart,       \* time_chk_part (60, or the option -i)
    DelayCheck,    \* TIME_DELAY_CHECK_USAGE (10)
    MaxConf,       \* bound: lines of mxhtspd.conf
    MaxSlotEvents  \* bound: plugs, presses, transfers, usage changes

ASSUME HotswapAssumption ==
    {IdleLimit, PassLimit, ChkPart, DelayCheck, MaxConf, MaxSlotEvents} \subseteq Nat

Disks == {1, 2}
Usages == {"ok", "bad"}     \* bad: over its limit, or it does not exist

VARIABLES
    act,           \* external: what transfers change in each disk's register
    plug,          \* external: the disks in their slots
    btn,           \* external: the buttons held down
    conf,          \* mxhtspd.conf: the disk each line's partition is on
    usage,         \* external: what df says of each line's partition
    disk,          \* driver: d1, d2
    lamp,          \* driver: the LEDs that are on
    info,          \* daemon: info[]
    hctl,          \* daemon: force_chk_part, cnt, cnt_chk_part, exit
    hpc,           \* daemon: the handler and the disk it is at
    hlog           \* history

slotVars == <<act, plug, btn, conf, usage, disk, lamp, info, hctl, hpc, hlog>>
outside == <<act, plug, btn, usage>>

\* The register the timer samples for a disk.  For disk 2 it is the one that
\* also tells whether the disk is there: 0x7f for an empty slot.
Unplugged == 127
Register(d) == IF d = 2 /\ d \notin plug THEN Unplugged ELSE act[d]

\* The tick after which a disk with no new activity is no longer busy.
IdleTicks == IdleLimit + 2

Zeroed == [plugged |-> FALSE, last |-> FALSE, event |-> FALSE, ledOn |-> FALSE,
           warn |-> FALSE, lastWarn |-> FALSE, first |-> FALSE]

\* hotswap_init_module and the start of main.  The status of disk 2 is taken
\* from another register than the timer's, so that its first sample may differ
\* without activity.
HotswapInit ==
    /\ act = [d \in Disks |-> 0] /\ plug \in SUBSET Disks /\ btn = {}
    /\ conf \in UNION {[1..k -> Disks] : k \in 0..MaxConf}
    /\ usage = [k \in DOMAIN conf |-> "ok"]
    /\ \E s \in {0, 1} :
          disk = [d \in Disks |-> [status |-> IF d = 2 THEN s ELSE act[d], busy |-> FALSE, idle |-> 0]]
    /\ lamp = {}
    /\ info = [d \in Disks |-> Zeroed]
    /\ hctl = [force |-> FALSE, cnt |-> 0, chk |-> 0, exit |-> FALSE]
    /\ hpc = <<"plugged", 1>>
    /\ hlog = [events |-> 0, ago |-> [d \in Disks |-> IdleTicks], active |-> {},
               moved |-> {2}]

-----------------------------------------------------------------------------
(* The disks, their users, the partitions; sig_handler. *)

\* Something happens, to the sampled registers of the disks S among others.
SlotEvent(S) ==
    /\ hlog.events < MaxSlotEvents
    /\ hlog' = [hlog EXCEPT !.events = @ + 1, !.moved = @ \cup S]
    /\ UNCHANGED <<conf, disk, lamp, info, hpc>>

Transfer(d) ==
    /\ d \in plug /\ SlotEvent({d}) /\ act' = [act EXCEPT ![d] = 1 - @]
    /\ UNCHANGED <<plug, btn, usage, hctl>>

PlugOrPull(d) ==
    /\ SlotEvent({d} \cap {2})
    /\ plug' = IF d \in plug THEN plug \ {d} ELSE plug \cup {d}
    /\ UNCHANGED <<act, btn, usage, hctl>>

PressOrRelease(d) ==
    /\ SlotEvent({}) /\ btn' = IF d \in btn THEN btn \ {d} ELSE btn \cup {d}
    /\ UNCHANGED <<act, plug, usage, hctl>>

UsageChanges(k, u) ==
    /\ SlotEvent({}) /\ usage' = [usage EXCEPT ![k] = u]
    /\ UNCHANGED <<act, plug, btn, hctl>>

SigHandler ==
    /\ SlotEvent({}) /\ ~hctl.exit /\ hctl' = [hctl EXCEPT !.exit = TRUE]
    /\ UNCHANGED outside

-----------------------------------------------------------------------------
(* The driver. *)

\* Variant: the counter is reset but the disk stays busy.
SampledBusy(d, now) ==
    IF now # d.status THEN [status |-> now, busy |-> TRUE, idle |-> 0]
    ELSE IF d.idle > IdleLimit THEN [d EXCEPT !.idle = 0]
    ELSE [d EXCEPT !.idle = @ + 1]

\* What one tick makes of a disk, given its register.
Sampled(d, now) ==
    IF now # d.status THEN [status |-> now, busy |-> TRUE, idle |-> 0]
    ELSE IF d.idle > IdleLimit THEN [d EXCEPT !.busy = FALSE, !.idle = 0]
    ELSE [d EXCEPT !.idle = @ + 1]

\* hotswap_check_disk; the timer is armed again.
CheckDisk ==
    /\ disk' = [d \in Disks |-> Sampled(disk[d], Register(d))]
    /\ hlog' = [hlog EXCEPT
           !.ago = [d \in Disks |->
               IF d \in hlog.moved /\ Register(d) # disk[d].status THEN 0
               ELSE Min({IdleTicks, @[d] + 1})],
           !.moved = {}]
    /\ UNCHANGED <<outside, conf, lamp, info, hctl, hpc>>

\* hotswap_led_control for LED 1.
LedControl(on) == lamp' = IF on THEN lamp \cup {1} ELSE lamp \ {1}

-----------------------------------------------------------------------------
(* The daemon's loop, one step per handler. *)

AtHandler(h, n) == hpc = <<h, n>>

\* The top of the loop tests ctrl->exit, once for both disks.
HandleDiskPlugged(n) ==
    /\ AtHandler("plugged", n) /\ (n = 1 => ~hctl.exit)
    /\ hctl' = [hctl EXCEPT !.force = @ \/ info[n].plugged # (n \in plug)]
    /\ info' = [info EXCEPT ![n].plugged = n \in plug,
                            ![n].first = @ \/ (n \in plug /\ ~info[n].plugged)]
    /\ hpc' = <<"busy", n>>
    /\ UNCHANGED <<outside, conf, disk, lamp, hlog>>

\* Left alone while the disk has a warning.
HandleDiskBusy(n) ==
    /\ AtHandler("busy", n) /\ hpc' = <<"button", n>>
    /\ IF info[n].warn \/ ~(disk[n].busy \/ info[n].ledOn) THEN UNCHANGED <<lamp, info>>
       ELSE LedControl(disk[n].busy) /\ info' = [info EXCEPT ![n].ledOn = disk[n].busy]
    /\ hlog' = [hlog EXCEPT !.active = (@ \ {n}) \cup {d \in {n} : hlog.ago[d] < IdleTicks}]
    /\ UNCHANGED <<outside, conf, disk, hctl>>

AfterButton(n) == hpc' = IF n = 1 THEN <<"plugged", 2>> ELSE <<"second", 0>>

\* Down: a new press starts an event.
ButtonDown(n) ==
    /\ AtHandler("button", n) /\ n \in btn /\ AfterButton(n)
    /\ info' = [info EXCEPT ![n].event = @ \/ ~info[n].last, ![n].last = TRUE]
    /\ UNCHANGED <<outside, conf, disk, lamp, hctl, hlog>>

\* Up: the script runs for an event unless the disk was just inserted; the
\* event of a disk that was is not cleared.
ButtonUp(n) ==
    LET runs == info[n].event /\ ~info[n].first
    IN  /\ AtHandler("button", n) /\ n \notin btn /\ AfterButton(n)
        /\ info' = [info EXCEPT ![n].event = @ /\ ~runs, ![n].last = FALSE, ![n].first = FALSE]
        /\ UNCHANGED <<outside, conf, disk, lamp, hctl, hlog>>

\* Less than a second since the last check: sleep.
NoCheckYet ==
    /\ AtHandler("second", 0) /\ hctl.cnt + 1 <= PassLimit
    /\ hctl' = [hctl EXCEPT !.cnt = @ + 1] /\ hpc' = <<"plugged", 1>>
    /\ UNCHANGED <<outside, conf, disk, lamp, info, hlog>>

\* A later line of mxhtspd.conf overwrites what an earlier one found.
Warned(d) ==
    LET lines == {k \in DOMAIN conf : conf[k] = d}
    IN  IF lines = {} THEN info[d].warn ELSE usage[Max(lines)] # "ok"

\* check_part_usage: the counters, the partitions when it is time, the LED.
\* i is 1: info[i] is disk 2, info[i - 1] is disk 1.
CheckPartUsage ==
    LET cnt == (IF hctl.force THEN DelayCheck ELSE hctl.chk) + 1
        due == cnt > ChkPart
        warn == [d \in Disks |-> IF due THEN Warned(d) ELSE info[d].warn]
    IN  /\ AtHandler("second", 0) /\ hctl.cnt + 1 > PassLimit
        /\ hctl' = [hctl EXCEPT !.force = FALSE, !.cnt = 0, !.chk = IF due THEN 0 ELSE cnt]
        /\ info' = [d \in Disks |->
                       [info[d] EXCEPT !.warn = warn[d],
                                       !.ledOn = @ \/ (d = 1 /\ warn[2]),
                                       !.lastWarn = @ \/ (d = 1 /\ warn[2])]]
        /\ IF warn[2] THEN LedControl(TRUE)
           ELSE IF info[2].lastWarn THEN LedControl(FALSE) ELSE UNCHANGED lamp
        /\ hpc' = <<"checked", 0>>
        /\ UNCHANGED <<outside, conf, disk, hlog>>

AfterCheck ==
    /\ AtHandler("checked", 0) /\ hpc' = <<"plugged", 1>>
    /\ UNCHANGED <<outside, conf, disk, lamp, info, hctl, hlog>>

\* The loop is left: the LEDs are switched off.
DaemonExit ==
    /\ AtHandler("plugged", 1) /\ hctl.exit
    /\ lamp' = {} /\ hpc' = <<"stopped", 0>>
    /\ UNCHANGED <<outside, conf, disk, info, hctl, hlog>>

HotswapNext ==
    \/ \E d \in Disks : Transfer(d) \/ PlugOrPull(d) \/ PressOrRelease(d)
    \/ \E k \in DOMAIN conf : \E u \in Usages \ {usage[k]} : UsageChanges(k, u)
    \/ SigHandler \/ CheckDisk
    \/ \E n \in Disks :
          HandleDiskPlugged(n) \/ HandleDiskBusy(n) \/ ButtonDown(n) \/ ButtonUp(n)
    \/ NoCheckYet \/ CheckPartUsage \/ AfterCheck \/ DaemonExit

HotswapSpec == HotswapInit /\ [][HotswapNext]_slotVars

-----------------------------------------------------------------------------
(* Properties. *)

\* The LED is never left on for nothing: after both disks were polled it is on
\* only if one of them has a warning or one of the last IdleTicks samples before
\* it was polled showed a transfer or, for disk 2, whose sampled register is the
\* one of the plug test, that it was plugged or pulled or had only just been
\* found by the driver.  Such a sample of disk 2, polled last and without a
\* warning, does light it; a stopped daemon leaves it dark.
LedMeansActivity ==
    /\ AtHandler("second", 0) /\ 1 \in lamp =>
          \E n \in Disks : info[n].warn \/ n \in hlog.active
    /\ AtHandler("second", 0) /\ 2 \in hlog.active /\ ~info[2].warn => 1 \in lamp
    /\ AtHandler("stopped", 0) => lamp = {}

\* mxhtspd.c:303, "When one of the disk usage full, we should turn the LED
\* on": after a check, a warning for either disk has the LED on.  The code
\* looks at disk 2 only.
LedWarns ==
    AtHandler("checked", 0) /\ (\E n \in Disks : info[n].warn) => 1 \in lamp

=============================================================================
