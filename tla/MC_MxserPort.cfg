CONSTANTS
    Procs = {p1, p2}
    NoOne = NoOne
    Hangup = Hangup
    Formats = {cs7, cs8}
    MaxChanges = 2
    Casts = {{}, {"break", "get"}, {"wait"}, {"special"}, {"mon"}, {"softcar"}, {"serial"}, {"flow"}}
SYMMETRY ProcSymmetry
SPECIFICATION PortSpec
INVARIANTS CountAgrees PortFollowsUsers NoLostCarrier NoOrphan FlowFollowsCts FormatKept
CHECK_DEADLOCK FALSE
