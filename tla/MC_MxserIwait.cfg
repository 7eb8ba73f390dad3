CONSTANTS
    Formats = {cs7, cs8}
    MaxChanges = 2
    Casts = {{"wait"}}
SPECIFICATION LinesSpec
INVARIANT ChangeEndsWait
CHECK_DEADLOCK FALSE
