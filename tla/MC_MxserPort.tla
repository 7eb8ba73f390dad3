---------------------------- MODULE MC_MxserPort ----------------------------
(***************************************************************************)
(* A port of the mxser driver as its users reach it: opened, closed and    *)
(* hung up (MxserPort), and set up while it is open (MxserLines).  A       *)
(* behaviour exercises one of the two; the other stays as it started.      *)
(***************************************************************************)
EXTENDS MxserPort, MxserLines, TLC

VARIABLE side   \* the part this behaviour exercises

portVars == <<side, vars, linesVars>>

\* The processes are interchangeable.
ProcSymmetry == Permutations(Procs)

\* The formats are too, so that it is enough to start with one of them.
\* Variables the other part never changes start with one value.
PortInit ==
    /\ side \in {"open", "settings"}
    /\ Init /\ LinesInit
    /\ tios.format = CHOOSE f \in Formats : TRUE
    /\ side = "open" => autoFlow /\ cast = {} /\ input = [l \in Inputs |-> TRUE]
    /\ side = "settings" => kernel = "call" /\ present /\ dcd

PortNext ==
    /\ UNCHANGED side
    /\ \/ side = "open" /\ Next /\ UNCHANGED linesVars
       \/ side = "settings" /\ LinesNext /\ UNCHANGED vars

PortSpec == PortInit /\ [][PortNext]_portVars

=============================================================================
