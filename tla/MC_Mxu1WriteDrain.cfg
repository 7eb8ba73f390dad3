CONSTANTS
    BufSize = 4
    BulkOutSize = 2
    Writers = {w1}
    Cb = cb
    OutputLock = TRUE
    MaxReq = 2
    MaxBytes = 2
SPECIFICATION Spec
INVARIANT DrainReachesLine
CHECK_DEADLOCK FALSE
