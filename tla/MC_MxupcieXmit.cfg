CONSTANTS
    XmitSize = 4
    FifoSize = 2
    WakeupChars = 2
    MaxReq = 4
    MaxBytes = 5
    Budgets <- MCBudgets
SPECIFICATION MCSpec
INVARIANTS BytesInOrder NoStall NoLostWakeup BreakEnds
CHECK_DEADLOCK FALSE
