------------------------------ MODULE MC_V2100 ------------------------------
(***************************************************************************)
(* The two drivers of the V2100: the super-I/O functions and the watchdog, *)
(* whose sections under moxawdt_lock are single steps.  A behaviour        *)
(* exercises one of them; the other stays as it started.                   *)
(***************************************************************************)
EXTENDS Superio, Wdt

VARIABLE driver   \* the driver this behaviour exercises

v2100Vars == <<driver, vars, wdtVars>>

V2100Init ==
    /\ driver \in {"superio", "watchdog"}
    /\ Init /\ WdtInit
    /\ driver = "superio" => nowayout /\ timeout = MaxTime

V2100Next ==
    /\ UNCHANGED driver
    /\ \/ driver = "superio" /\ Next /\ UNCHANGED wdtVars
       \/ driver = "watchdog" /\ WdtNext /\ UNCHANGED vars

V2100Spec == V2100Init /\ [][V2100Next]_v2100Vars /\ Fairness

=============================================================================
