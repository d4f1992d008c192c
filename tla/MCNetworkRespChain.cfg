SPECIFICATION FairSpec
CONSTANTS
    Levels = {1, 3, 4}
    Full = 4
    MaxChanges = 3
INVARIANTS
    NeverStuckClosed
PROPERTIES
    OpensAtStart
    OnceRightStaysRight
CHECK_DEADLOCK FALSE
