SPECIFICATION WebSpec
CONSTANTS
    Writer = writer
    WriterSets = writerSets
    Callers = {writer}
    Setters = {s1, writerSets}
    Producers = {p1, p2}
    SystemInfo = {p2}
    MaxPush = 1
    N = 3
    Owns = {3}
    Rules = {FALSE}
    NoThread = NoThread
INVARIANTS
    SendsOnlyWhenOpen
CHECK_DEADLOCK FALSE
