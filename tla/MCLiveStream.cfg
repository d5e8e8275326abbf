SPECIFICATION FairStreamSpec
CONSTANTS
    Topics = {t1, t2}
    Clients = {c1}
    Streams = {s1, s2}
    MaxStreams = 1
    MaxSeq = 1
    MaxBoots = 2
    MaxCuts = 1
INVARIANTS
    NoLostWake
    SkipsNothing
    TwoWritesAfterClose
PROPERTIES
    EveryoneIsTold
    CloseDrains
CHECK_DEADLOCK FALSE
