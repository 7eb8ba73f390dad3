CONSTANTS
    IdleLimit = 0
    PassLimit = 1
    ChkPart = 1
    DelayCheck = 1
    MaxConf = 1
    MaxSlotEvents = 3
SPECIFICATION HotswapSpec
INVARIANT LedWarns
CHECK_DEADLOCK FALSE
