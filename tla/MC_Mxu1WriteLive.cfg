CONSTANTS
    BufSize = 2
    BulkOutSize = 1
    Writers = {w1}
    Cb = cb
    OutputLock = TRUE
    MaxReq = 2
    MaxBytes = 3
SPECIFICATION FairSpec
PROPERTIES DataMoves CtlReturns
CHECK_DEADLOCK FALSE
