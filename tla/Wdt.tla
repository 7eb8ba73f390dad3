-------------------------------- MODULE Wdt --------------------------------
(***************************************************************************)
(* The watchdog driver (src/modules/moxa_v2100_wdt/moxa_v2100_wdt.c).      *)
(* Processes open, ping, configure and close /dev/watchdog; the bits of    *)
(* wdt_status are changed one atomic operation at a time and under no      *)
(* lock, the timer under moxawdt_lock.  A section under that lock is one   *)
(* step.  The module parameters are writable in sysfs: both may change at  *)
(* any time, and nothing examines what is written there.                   *)
(***************************************************************************)
EXTENDS Integers

CONSTANTS
    Procs,     \* processes that use /dev/watchdog
    MinTime,   \* WATCHDOG_MIN_TIME
    MaxTime,   \* WATCHDOG_MAX_TIME
    Byte,      \* 2^8: the timer register is a byte wide
    Times      \* values given for the timeout, in range or not

ASSUME WdtAssumption ==
    /\ MinTime \in Nat /\ MaxTime \in Nat /\ MinTime < MaxTime
    /\ Byte = MaxTime + 1
    /\ Times \subseteq Int

VARIABLES
    loaded, notifier, misc,  \* the module, its notifier and its device are there
    nowayout, timeout,       \* the module parameters
    inUse, okToClose,        \* WDT_IN_USE, WDT_OK_TO_CLOSE
    counter,                 \* the value last put into the timer, 0: stopped
    wdtPc,                   \* per process: where it is
    asked,                   \* per process: the last write examined held a 'V'
    off,                     \* history: stopped by an ioctl or a reboot
    raw,                     \* history: timeout was last written in sysfs
    unchecked,               \* history: counter was loaded from such a timeout
    switched                 \* history: nowayout changed since the last open

module == <<loaded, notifier, misc>>
params == <<nowayout, timeout, raw, switched>>
bits == <<inUse, okToClose>>
timer == <<counter, off, unchecked>>
wdtVars == <<module, params, bits, timer, wdtPc, asked>>

WdtGoto(p, label) == wdtPc' = [wdtPc EXCEPT ![p] = label]

\* The (u8) conversion of the timeout.
Truncated(t) == t % Byte

\* moxawdt_enable and moxawdt_ack load the timer, moxawdt_disable stops it.
Rearm == counter' = Truncated(timeout) /\ off' = FALSE /\ unchecked' = raw
Disable == counter' = 0 /\ unchecked' = FALSE

\* The test of moxawdt_init and of WDIOC_SETTIMEOUT.
InRange(t) == t > MinTime /\ t <= MaxTime

WdtInit ==
    /\ loaded = FALSE /\ notifier = FALSE /\ misc = FALSE
    /\ nowayout \in BOOLEAN /\ timeout \in Times
    /\ inUse = FALSE /\ okToClose = FALSE /\ counter = 0
    /\ wdtPc = [p \in Procs |-> "closed"] /\ asked = [p \in Procs |-> FALSE]
    /\ off = FALSE /\ raw = FALSE /\ unchecked = FALSE /\ switched = FALSE

-----------------------------------------------------------------------------
(* The module. *)

\* moxawdt_init with the parameters given to it: the notifier, then the range
\* of the timeout, then the device.  A timeout out of range ends it with the
\* value 0: the module stays, without a device.
Load(n, t, notifierOk, miscOk) ==
    /\ ~loaded
    /\ nowayout' = n /\ timeout' = t
    /\ notifier' = (notifierOk /\ (InRange(t) => miscOk))
    /\ misc' = (notifierOk /\ InRange(t) /\ miscOk)
    /\ loaded' = (notifierOk /\ (InRange(t) => miscOk))
    /\ UNCHANGED <<raw, switched, bits, timer, wdtPc, asked>>

\* moxawdt_exit, which the module loader calls once, when no file is open.
\* After a load that registered no device misc_deregister unlinks what was
\* never linked: it may fault, and the module then stays for ever.
Unload ==
    /\ loaded /\ notifier /\ \A p \in Procs : wdtPc[p] = "closed"
    /\ notifier' = FALSE /\ misc' = FALSE
    /\ loaded' \in (IF misc THEN {FALSE} ELSE BOOLEAN)
    /\ raw' = FALSE /\ switched' = FALSE
    /\ UNCHANGED <<nowayout, timeout, bits, timer, wdtPc, asked>>

\* A write to /sys/module/.../parameters/timeout or nowayout: any value is
\* stored, whoever has the device open.
SetParamTimeout(t) ==
    /\ loaded
    /\ timeout' = t /\ raw' = TRUE
    /\ UNCHANGED <<module, nowayout, switched, bits, timer, wdtPc, asked>>

SetParamNowayout ==
    /\ loaded
    /\ nowayout' = ~nowayout /\ switched' = TRUE
    /\ UNCHANGED <<module, timeout, raw, bits, timer, wdtPc, asked>>

\* wdt_notify_sys, on the way to a restart or a halt.
NotifySys ==
    /\ notifier
    /\ Disable /\ off' = TRUE
    /\ UNCHANGED <<module, params, bits, wdtPc, asked>>

-----------------------------------------------------------------------------
(* The file operations. *)

\* moxawdt_open: one user at a time (the others get EBUSY) ...
OpenTake(p) ==
    /\ wdtPc[p] = "closed" /\ misc /\ ~inUse
    /\ inUse' = TRUE /\ switched' = FALSE
    /\ WdtGoto(p, "openClear")
    /\ UNCHANGED <<module, nowayout, timeout, raw, okToClose, timer, asked>>

OpenClear(p) ==
    /\ wdtPc[p] = "openClear"
    /\ okToClose' = FALSE
    /\ asked' = [asked EXCEPT ![p] = FALSE]
    /\ WdtGoto(p, "enable")
    /\ UNCHANGED <<module, params, inUse, timer>>

\* ... and the timer runs; WDIOS_ENABLECARD ends here too.
Enable(p) ==
    /\ wdtPc[p] = "enable"
    /\ Rearm
    /\ WdtGoto(p, "open")
    /\ UNCHANGED <<module, params, bits, asked>>

\* Variant: a write forgets nothing.
WriteBeginKeeps(p) ==
    /\ wdtPc[p] = "open"
    /\ WdtGoto(p, IF nowayout THEN "ack" ELSE "scan")
    /\ UNCHANGED <<module, params, bits, timer, asked>>

\* moxawdt_write of at least one byte: WDT_OK_TO_CLOSE is taken back, unless
\* nowayout keeps the data from being examined ...
WriteBegin(p) ==
    /\ wdtPc[p] = "open"
    /\ okToClose' = (okToClose /\ nowayout)
    /\ WdtGoto(p, IF nowayout THEN "ack" ELSE "scan")
    /\ UNCHANGED <<module, params, inUse, timer, asked>>

\* ... and set by a 'V' anywhere in the data.  The data may turn out to be
\* unreadable, before the 'V' or after it: then the timer is not loaded.
WriteScan(p, v, fault) ==
    /\ wdtPc[p] = "scan"
    /\ okToClose' = (okToClose \/ v)
    /\ asked' = [asked EXCEPT ![p] = v]
    /\ WdtGoto(p, IF fault THEN "open" ELSE "ack")
    /\ UNCHANGED <<module, params, inUse, timer>>

\* moxawdt_ack, after a write or a change of the timeout, and by itself for
\* WDIOC_KEEPALIVE.
Ack(p) ==
    /\ wdtPc[p] \in {"ack", "open"}
    /\ Rearm
    /\ WdtGoto(p, "open")
    /\ UNCHANGED <<module, params, bits, asked>>

\* WDIOC_SETTIMEOUT, EINVAL for a value out of range.
SetTimeout(p, t) ==
    /\ wdtPc[p] = "open" /\ InRange(t)
    /\ timeout' = t /\ raw' = FALSE
    /\ WdtGoto(p, "ack")
    /\ UNCHANGED <<module, nowayout, switched, bits, timer, asked>>

\* WDIOC_SETOPTIONS: the card is disabled, then enabled, if so asked.
SetOptions(p, disable, enable) ==
    /\ wdtPc[p] = "open" /\ (disable \/ enable)
    /\ IF disable THEN Disable /\ off' = TRUE ELSE UNCHANGED timer
    /\ WdtGoto(p, IF enable THEN "enable" ELSE "open")
    /\ UNCHANGED <<module, params, bits, asked>>

\* Variant: the device is given back before the timer is stopped.
ReleaseTestEarly(p) ==
    /\ wdtPc[p] = "open"
    /\ WdtGoto(p, IF okToClose THEN "stop" ELSE "relUse")
    /\ inUse' = FALSE
    /\ UNCHANGED <<module, params, okToClose, timer, asked>>

\* moxawdt_release: the timer is stopped if WDT_OK_TO_CLOSE is set ...
ReleaseTest(p) ==
    /\ wdtPc[p] = "open"
    /\ WdtGoto(p, IF okToClose THEN "stop" ELSE "relUse")
    /\ UNCHANGED <<module, params, bits, timer, asked>>

ReleaseStop(p) ==
    /\ wdtPc[p] = "stop"
    /\ Disable
    /\ WdtGoto(p, "relUse")
    /\ UNCHANGED <<module, params, bits, asked, off>>

\* ... then the bits are cleared, WDT_IN_USE first.
ReleaseInUse(p) ==
    /\ wdtPc[p] = "relUse"
    /\ inUse' = FALSE
    /\ WdtGoto(p, "relOk")
    /\ UNCHANGED <<module, params, okToClose, timer, asked>>

ReleaseOk(p) ==
    /\ wdtPc[p] = "relOk"
    /\ okToClose' = FALSE
    /\ WdtGoto(p, "closed")
    /\ UNCHANGED <<module, params, inUse, timer, asked>>

File(p) ==
    \/ OpenTake(p) \/ OpenClear(p) \/ Enable(p)
    \/ WriteBegin(p) \/ (\E v, fault \in BOOLEAN : WriteScan(p, v, fault))
    \/ Ack(p) \/ (\E t \in Times : SetTimeout(p, t))
    \/ (\E disable, enable \in BOOLEAN : SetOptions(p, disable, enable))
    \/ ReleaseTest(p) \/ ReleaseStop(p) \/ ReleaseInUse(p) \/ ReleaseOk(p)

WdtNext ==
    \/ \E n, notifierOk, miscOk \in BOOLEAN, t \in Times : Load(n, t, notifierOk, miscOk)
    \/ Unload \/ NotifySys
    \/ (\E t \in Times : SetParamTimeout(t)) \/ SetParamNowayout
    \/ \E p \in Procs : File(p)

WdtSpec == WdtInit /\ [][WdtNext]_wdtVars

-----------------------------------------------------------------------------
(* Properties. *)

\* The types of the parameters, the bits, the timer's byte and the processes.
WdtTypeOK ==
    /\ loaded \in BOOLEAN /\ notifier \in BOOLEAN /\ misc \in BOOLEAN
    /\ nowayout \in BOOLEAN /\ inUse \in BOOLEAN /\ okToClose \in BOOLEAN
    /\ off \in BOOLEAN /\ raw \in BOOLEAN /\ unchecked \in BOOLEAN /\ switched \in BOOLEAN
    /\ timeout \in Times /\ counter \in 0 .. Byte - 1
    /\ wdtPc \in [Procs -> {"closed", "openClear", "enable", "open", "scan", "ack",
                         "stop", "relUse", "relOk"}]
    /\ asked \in [Procs -> BOOLEAN]

\* Between a successful open and the clearing of WDT_IN_USE no second process
\* is inside the driver.
Owner(p) == wdtPc[p] \notin {"closed", "relOk"}
OneOwner == \A p, q \in Procs : Owner(p) /\ Owner(q) => p = q

\* While somebody has the device open the timer runs with a time the driver
\* accepts, unless WDIOS_DISABLECARD or a reboot stopped it or the value last
\* loaded was written to the parameter in sysfs, which no test examines: a
\* release that is still under way does not stop the timer of the next user,
\* and a timeout set by WDIOC_SETTIMEOUT ends the effect of one set in sysfs.
ArmedWhileOpen ==
    \A p \in Procs :
        wdtPc[p] \in {"open", "scan", "ack"} /\ ~off /\ ~unchecked => counter \in MinTime + 1 .. MaxTime

\* A close stops the timer only if, of the writes of this very user that the
\* driver examined (all of them without nowayout, none with it), the last held
\* a 'V'; and with nowayout set only if nowayout was switched on in sysfs
\* while the device was open.
SilentCloseRuns ==
    \A p \in Procs : wdtPc[p] = "stop" => asked[p] /\ (nowayout => switched)

\* A module that is not loaded has left no notifier and no device behind.
NoDangling == loaded \/ (~notifier /\ ~misc)

=============================================================================
