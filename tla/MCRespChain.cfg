SPECIFICATION FairSpec
CONSTANTS
    N = 3
    Callers = {c1, c2}
    Setters = {s1, s2}
    NoThread = NoThread
INVARIANTS
    PassedStayOpen
    NoMissedWakeup
PROPERTIES
    ReturnsWhenOpen
    NotAllLeftAsleep
