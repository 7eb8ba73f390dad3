CONSTANTS
    BufSize = 4
    BulkOutSize = 2
    Writers = {w1}
    Cb = cb
    OutputLock = TRUE
    MaxReq = 4
    MaxBytes = 5
SPECIFICATION Spec
INVARIANTS FifoExactlyOnce UrbOwnership NoSilentStall PutStaysInBounds ClosedIsQuiet
PROPERTY RoomHonoured
CHECK_DEADLOCK FALSE
