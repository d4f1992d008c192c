SPECIFICATION MCSpec
CONSTANTS
    Producers = {p1, p2}
    Consumers = {c1, c2}
    TheReader = c1
    MaxPush = 2
    NoThread = NoThread
INVARIANTS
    WakeupCredit
    Conservation
PROPERTIES
    ImplementsMailbox
    ImplementsFifo
CHECK_DEADLOCK FALSE
