SPECIFICATION Spec
CONSTANTS
    h1 = h1
    h2 = h2
    h3 = h3
    s = s
    r1 = r1
    r2 = r2
    tick = tick
    a = a
    b = b
    Hosts = {h1, h2, h3}
    Signup = s
    Refreshers = {r1, r2}
    Callers = {s, r1, r2}
    Tick = tick
    Publishers = {tick, r1, r2}
    Slug = a
    Steady = b
    Slugs = {a, b}
    MaxLost = 1
    MaxPuts = 1
    MaxTaken = 2
    MaxRelabels = 2
    MaxFaults = 1
SYMMETRY MCSymmetry
INVARIANTS
    OneKept
    OwnInstance
PROPERTIES
    PrefixStays
CHECK_DEADLOCK FALSE
