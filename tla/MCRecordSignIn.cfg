SPECIFICATION Spec
CONSTANTS
    Tokens = {t1}
    Calls = {c1, c2}
    DayLength = 2
    LinkTTL = 1
    MaxStall = 0
    MaxClock = 4
    Ops = {o1, o2}
    Old = Old
    NoClaim = NoClaim
    Blind = TRUE
    Lifetime = 1
    TTL = 3
    MaxEnds = 1
    MaxCookies = 2
SYMMETRY RequestSymmetry
INVARIANTS
    OneRedemption
    OneUserPerAddress
    EndsInOneLifetime
PROPERTIES
    RecordKept
    RefusedForCause
CHECK_DEADLOCK FALSE
