CONSTANTS
    PortProcs = {pA, pB}
    MaxPortCalls = 3
    MaxOddCalls = 1
    NoProc = NoProc
    IdleLimit = 0
    PassLimit = 1
    ChkPart = 1
    DelayCheck = 1
    MaxConf = 1
    MaxSlotEvents = 2
    Sources = {"irig0", "pps"}
    MaxIrigEvents = 5
SPECIFICATION BoardsSpec
INVARIANTS
    PortSane NoLostUpdate
    LedMeansActivity
    OffNoticed RemoveIsClean
CHECK_DEADLOCK FALSE
