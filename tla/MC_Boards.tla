----------------------------- MODULE MC_Boards -----------------------------
(***************************************************************************)
(* Three board components that share no state: the single-bit port         *)
(* drivers, the hot-swap slots with their daemon, the IRIG-B card.  A      *)
(* behaviour exercises one of them; the others stay as they started.       *)
(***************************************************************************)
EXTENDS BoardPorts, Hotswap, IrigB

VARIABLE chosen   \* the component this behaviour exercises

boardVars == <<chosen, portVars, slotVars, irigVars>>

\* One start state of a component that is not exercised.
PortAtRest == board = "DA681A" /\ port = {} /\ keep["all"] = {}
SlotsAtRest == plug = {} /\ conf = << >> /\ disk[2].status = 0

BoardsInit ==
    /\ chosen \in {"ports", "slots", "irig"}
    /\ PortInit /\ HotswapInit /\ IrigInit
    /\ chosen # "ports" => PortAtRest
    /\ chosen # "slots" => SlotsAtRest
    /\ chosen # "irig" => ~useIrq

BoardsNext ==
    /\ UNCHANGED chosen
    /\ \/ chosen = "ports" /\ PortNext /\ UNCHANGED <<slotVars, irigVars>>
       \/ chosen = "slots" /\ HotswapNext /\ UNCHANGED <<portVars, irigVars>>
       \/ chosen = "irig" /\ IrigNext /\ UNCHANGED <<portVars, slotVars>>

BoardsSpec == BoardsInit /\ [][BoardsNext]_boardVars

=============================================================================
