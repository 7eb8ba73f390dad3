---------------------------- MODULE MC_Mxu1Port ----------------------------
(***************************************************************************)
(* Three parts of an mxu11x0 port that share no state: the receive path    *)
(* with open and close, the modem status, the modem control.  A behaviour  *)
(* exercises one of them; the others stay as they started.                 *)
(***************************************************************************)
EXTENDS Mxu1Read, Mxu1Msr, Mxu1Modem

VARIABLE part     \* the part this behaviour exercises

allVars == <<part, vars, msrVars, modemVars>>

AllInit ==
    /\ part \in {"read", "status", "control"}
    /\ Init /\ MsrInit /\ ModemInit
    /\ part # "control" => model = CHOOSE m \in Models : TRUE

AllNext ==
    /\ UNCHANGED part
    /\ \/ part = "read" /\ Next /\ UNCHANGED <<msrVars, modemVars>>
       \/ part = "status" /\ MsrNext /\ UNCHANGED <<vars, modemVars>>
       \/ part = "control" /\ ModemNext /\ UNCHANGED <<vars, msrVars>>

AllSpec == AllInit /\ [][AllNext]_allVars /\ Fairness /\ MsrFairness

=============================================================================
