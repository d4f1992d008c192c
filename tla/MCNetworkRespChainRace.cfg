SPECIFICATION FairSpec
CONSTANTS
    Levels = {3, 4}
    Full = 4
    MaxChanges = 2
INVARIANT
    ClosedWhenOffline
CHECK_DEADLOCK FALSE
