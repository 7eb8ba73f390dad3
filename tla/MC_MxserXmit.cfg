CONSTANTS
    XmitSize = 4
    FifoSize = 2
    WakeupChars = 2
    Chips <- MCChips
    MaxReq = 4
    MaxBytes = 4
    Budgets <- MCBudgets
SPECIFICATION MCSpec
INVARIANTS RingHolds NoStall NoLostWakeup ReceiverReleased
CHECK_DEADLOCK FALSE
