CONSTANTS
    Ids = {i1, i2}
    Owners = {o1}
    Watched = i1
    MaxRunning = 1
    MaxProgress = 1
    MaxFaults = 2
SPECIFICATION Spec
INVARIANTS
    NeverStranded
PROPERTIES
    Frozen
    EveryJobEnds
    PageLearnsEnd
CHECK_DEADLOCK FALSE
