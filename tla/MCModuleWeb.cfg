SPECIFICATION WebFairSpec
CONSTANTS
    Writer = writer
    WriterSets = writerSets
    Callers = {writer}
    Setters = {s1, writerSets}
    Producers = {p1, p2}
    SystemInfo = {p2}
    MaxPush = 1
    N = 3
    Owns = {0, 3}
    Rules = {TRUE, FALSE}
    NoThread = NoThread
INVARIANTS
    PopsOnlyAfterOpen
    PopHoldsNoGate
    NeverPops
PROPERTIES
    ReachesSend
CHECK_DEADLOCK FALSE
