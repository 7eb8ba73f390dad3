CONSTANTS
    XmitSize = 2
    FifoSize = 1
    WakeupChars = 1
    Chips <- MCPlain
    MaxReq = 2
    MaxBytes = 2
    Budgets <- MCStop
SPECIFICATION FairSpec
PROPERTY DataMoves
CHECK_DEADLOCK FALSE
