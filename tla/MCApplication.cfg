SPECIFICATION FairSpec
CONSTANTS
    MaxStops = 2
    MaxSignals = 2
    MaxProcesses = 2
INVARIANTS
    GoneInOrder
    ReadsConnected
    PlanIsForgotten
PROPERTIES
    StuckStays
    StoppedGoes
CHECK_DEADLOCK FALSE
