-------------------------- MODULE MC_MxupcieXmit --------------------------
(* Values of MxupcieXmit's constants for TLC. *)
EXTENDS MxupcieXmit

\* One of the disturbances, or two that meet.
Only(ds) == [d \in Disturbances |-> IF d \in ds THEN 1 ELSE 0]
MCBudgets == {Only(ds) : ds \in {{"stop"}, {"cts"}, {"flush"}, {"throttle"},
                                {"break", "settings"}, {"break", "flush"}}}

VARIABLE most   \* bound: bytes asked for in this behaviour

\* A behaviour with a break, which does more than the others, writes one byte
\* less; the interface matters to a break alone, so that one of them is enough
\* in the others.
MCInit ==
    /\ Init
    /\ IF budget["break"] > 0 THEN most = MaxBytes - 1
       ELSE most = MaxBytes /\ uir = "RS232"

MCNext ==
    /\ Next
    /\ accepted' + w'.rem + (IF w'.pc = "put" THEN 1 ELSE 0) <= most
    /\ UNCHANGED most

MCSpec == MCInit /\ [][MCNext]_<<vars, most>>

=============================================================================
