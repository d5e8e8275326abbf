SPECIFICATION EventLogSpec
CONSTANTS
    Edges = {e1, e2}
    Requests = {q1, q2}
    Writers = {w1, w2}
    Nobody = Nobody
    MaxStreams = 1
    MaxEvents = 3
    MaxFailures = 1
SYMMETRY EventLogSymmetry
INVARIANTS
    OneContent
    HomeComplete
PROPERTIES
    MergesOnly
    WritesOnLive
CHECK_DEADLOCK FALSE
