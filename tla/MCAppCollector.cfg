SPECIFICATION Spec
CONSTANTS
    Entries = {e1, e2, e3}
    Packaged = {e1, e2}
    MaxSignals = 3
INVARIANTS
    NothingKept
    OnlyLateMonitored
    
    
CHECK_DEADLOCK FALSE
