CONSTANTS
    Restarters = {unthrottle, termios}
    Lines = {cts, dsr}
    Waiters = {w1, w2}
    MaxChanges = 2
    Threads = {t1}
    Models = {"1110", "1130", "1150"}
SPECIFICATION AllSpec
INVARIANTS
    ReadUrbSingle RunningReads ClosedIsQuiet
    NoChangeMissed AdapterAgrees
PROPERTIES CtlReturns IwaitReturns
CHECK_DEADLOCK FALSE
