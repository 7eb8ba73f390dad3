----------------------------- MODULE Wdt_proofs -----------------------------
(***************************************************************************)
(* Proofs about the watchdog driver, for any number of processes and any   *)
(* range of the timeout that fits the timer's byte.                        *)
(*                                                                         *)
(* The argument: test_and_set_bit makes the process between open and the   *)
(* clearing of WDT_IN_USE the only one in the driver (Exclusive); while it *)
(* is there the device is registered, so a timeout that sysfs did not      *)
(* overwrite passed the range test (Registered) and the byte does not cut  *)
(* it; and WDT_OK_TO_CLOSE belongs to it alone (Permission), so the timer  *)
(* is stopped by its own 'V' or not at all.                                *)
(***************************************************************************)
EXTENDS Wdt, TLAPS

\* A process in the driver holds WDT_IN_USE, and the device is there.
Exclusive ==
    /\ OneOwner
    /\ \A p \in Procs : Owner(p) => inUse /\ misc

\* A registered device has a timeout in range, or one written in sysfs.
Registered == misc /\ ~raw => InRange(timeout)

\* What WDT_OK_TO_CLOSE means for the process in the driver.
Permission ==
    \A p \in Procs :
        /\ wdtPc[p] = "scan" => ~okToClose /\ (nowayout => switched)
        /\ wdtPc[p] \in {"enable", "open", "ack"} /\ okToClose
              => asked[p] /\ (nowayout => switched)

IInv == WdtTypeOK /\ Exclusive /\ Registered /\ Permission
            /\ ArmedWhileOpen /\ SilentCloseRuns /\ NoDangling

USE WdtAssumption

\* The timer's byte, and what it is for a timeout in range.
LEMMA TruncatedInRange ==
    ASSUME NEW t \in Int
    PROVE  /\ Truncated(t) \in 0 .. Byte - 1
           /\ InRange(t) => Truncated(t) \in MinTime + 1 .. MaxTime
<1>1. Byte \in Nat \ {0}
  OBVIOUS
<1>2. t % Byte \in 0 .. Byte - 1
  BY <1>1
<1>3. ASSUME InRange(t) PROVE t % Byte = t /\ t \in MinTime + 1 .. MaxTime
  <2>1. t \in 0 .. Byte - 1 /\ t \in MinTime + 1 .. MaxTime
    BY <1>3 DEF InRange
  <2> QED
    BY <1>1, <2>1
<1> QED
  BY <1>2, <1>3 DEF Truncated

\* A stopped timer holds a byte as well.
LEMMA ZeroIsByte == 0 \in 0 .. Byte - 1
OBVIOUS

\* The invariant holds before the module is loaded.
LEMMA InitIInv == WdtInit => IInv
<1> SUFFICES ASSUME WdtInit PROVE IInv
  OBVIOUS
<1>1. WdtTypeOK
  BY ZeroIsByte DEF WdtInit, WdtTypeOK
<1>2. Exclusive /\ Registered /\ Permission /\ ArmedWhileOpen /\ SilentCloseRuns /\ NoDangling
  BY DEF WdtInit, Exclusive, OneOwner, Owner, Registered, Permission, ArmedWhileOpen,
         SilentCloseRuns, NoDangling
<1> QED
  BY <1>1, <1>2 DEF IInv

\* What the owner of the driver loads into the timer.
LEMMA RearmLoads ==
    ASSUME IInv, NEW p \in Procs, Owner(p), Rearm
    PROVE  /\ counter' \in 0 .. Byte - 1 /\ off' = FALSE /\ unchecked' \in BOOLEAN
           /\ ~unchecked' => counter' \in MinTime + 1 .. MaxTime
<1>1. timeout \in Int /\ (~raw => InRange(timeout)) /\ raw \in BOOLEAN
  BY DEF IInv, WdtTypeOK, Exclusive, Registered
<1> QED
  BY <1>1, TruncatedInRange DEF Rearm

\* Every operation of the driver preserves it: the ones that load the timer by
\* RearmLoads, the others by what they leave alone.
LEMMA StepIInv == IInv /\ [WdtNext]_wdtVars => IInv'
<1> SUFFICES ASSUME IInv, [WdtNext]_wdtVars PROVE IInv'
  OBVIOUS
<1> USE DEF IInv, WdtTypeOK, Exclusive, OneOwner, Owner, Registered, Permission,
            ArmedWhileOpen, SilentCloseRuns, NoDangling, module, params, bits, timer, WdtGoto
<1>1. ASSUME NEW n \in BOOLEAN, NEW t \in Times, NEW notifierOk \in BOOLEAN,
              NEW miscOk \in BOOLEAN, Load(n, t, notifierOk, miscOk)
       PROVE  IInv'
  BY <1>1 DEF Load
<1>2. ASSUME Unload PROVE IInv'
  BY <1>2 DEF Unload
<1>3. ASSUME NotifySys PROVE IInv'
  BY <1>3, ZeroIsByte DEF NotifySys, Disable
<1>4. ASSUME NEW p \in Procs, OpenTake(p) PROVE IInv'
  BY <1>4 DEF OpenTake
<1>5. ASSUME NEW p \in Procs, OpenClear(p) PROVE IInv'
  BY <1>5 DEF OpenClear
<1>6. ASSUME NEW p \in Procs, Enable(p) PROVE IInv'
  <2>1. /\ counter' \in 0 .. Byte - 1 /\ off' = FALSE /\ unchecked' \in BOOLEAN
        /\ ~unchecked' => counter' \in MinTime + 1 .. MaxTime
    BY <1>6, RearmLoads DEF Enable
  <2> QED
    BY <1>6, <2>1 DEF Enable
<1>7. ASSUME NEW p \in Procs, WriteBegin(p) PROVE IInv'
  BY <1>7 DEF WriteBegin
<1>8. ASSUME NEW p \in Procs, NEW v \in BOOLEAN, NEW fault \in BOOLEAN, WriteScan(p, v, fault) PROVE IInv'
  BY <1>8 DEF WriteScan
<1>9. ASSUME NEW p \in Procs, Ack(p) PROVE IInv'
  <2>1. /\ counter' \in 0 .. Byte - 1 /\ off' = FALSE /\ unchecked' \in BOOLEAN
        /\ ~unchecked' => counter' \in MinTime + 1 .. MaxTime
    BY <1>9, RearmLoads DEF Ack
  <2> QED
    BY <1>9, <2>1 DEF Ack
<1>10. ASSUME NEW p \in Procs, NEW t \in Times, SetTimeout(p, t) PROVE IInv'
  BY <1>10 DEF SetTimeout
<1>11. ASSUME NEW p \in Procs, NEW disable \in BOOLEAN, NEW enable \in BOOLEAN, SetOptions(p, disable, enable) PROVE IInv'
  <2>1. CASE disable
    BY <1>11, <2>1, ZeroIsByte DEF SetOptions, Disable
  <2>2. CASE ~disable
    BY <1>11, <2>2 DEF SetOptions
  <2> QED
    BY <2>1, <2>2
<1>12. ASSUME NEW p \in Procs, ReleaseTest(p) PROVE IInv'
  BY <1>12 DEF ReleaseTest
<1>13. ASSUME NEW p \in Procs, ReleaseStop(p) PROVE IInv'
  BY <1>13, ZeroIsByte DEF ReleaseStop, Disable
<1>14. ASSUME NEW p \in Procs, ReleaseInUse(p) PROVE IInv'
  BY <1>14 DEF ReleaseInUse
<1>15. ASSUME NEW p \in Procs, ReleaseOk(p) PROVE IInv'
  BY <1>15 DEF ReleaseOk
<1>16. ASSUME NEW t \in Times, SetParamTimeout(t) PROVE IInv'
  BY <1>16 DEF SetParamTimeout
<1>17. ASSUME SetParamNowayout PROVE IInv'
  BY <1>17 DEF SetParamNowayout
<1>18. CASE UNCHANGED wdtVars
  BY <1>18 DEF wdtVars, InRange
<1> QED
  BY <1>1, <1>2, <1>3, <1>4, <1>5, <1>6, <1>7, <1>8, <1>9, <1>10, <1>11, <1>12, <1>13, <1>14, <1>15, <1>16, <1>17, <1>18 DEF WdtNext, File

\* The inductive invariant holds in every state.
LEMMA Invariance == WdtSpec => []IInv
BY InitIInv, StepIInv, PTL DEF WdtSpec

\* The variables of the watchdog driver keep their types; whatever timeout comes
\* from the ioctl or from sysfs, the timer is loaded with a byte.
THEOREM TypeCorrect == WdtSpec => []WdtTypeOK
<1>1. IInv => WdtTypeOK
  BY DEF IInv
<1> QED
  BY Invariance, <1>1, PTL

\* moxawdt_open admits one process at a time, however opens and releases overlap.
THEOREM SingleOwner == WdtSpec => []OneOwner
<1>1. IInv => OneOwner
  BY DEF IInv, Exclusive
<1> QED
  BY Invariance, <1>1, PTL

\* The timer runs while the device is open, unless an ioctl or a reboot stopped it
\* or it was loaded from a timeout written in sysfs.
THEOREM Armed == WdtSpec => []ArmedWhileOpen
<1>1. IInv => ArmedWhileOpen
  BY DEF IInv
<1> QED
  BY Invariance, <1>1, PTL

\* A release stops the timer only after a 'V' in the last write of the same user
\* that was examined, and without nowayout unless sysfs switched it meanwhile.
THEOREM MagicClose == WdtSpec => []SilentCloseRuns
<1>1. IInv => SilentCloseRuns
  BY DEF IInv
<1> QED
  BY Invariance, <1>1, PTL
=============================================================================
