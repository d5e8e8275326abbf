SPECIFICATION FairProcessSpec
CONSTANTS
    Work = {w1}
    Timers = {t1}
    Loops = {l1}
    Stoppers = {main, s1}
    Main = main
    Requests = {}
    Streams = {x1}
    Topics = {x}
    Moments = {0, 1, 2}
    MaxPending = 1
    MaxForward = 1
    MaxFires = 1
INVARIANTS
    StopOutlastsWork
    RaisedInTime
PROPERTIES
    DatabaseOutlivesWork
    ShutdownEnds
