SPECIFICATION Spec
CONSTANTS
    Requests = {q1, q2}
    Halves = {h1}
    Secrets = {s1, s2}
    RecoveryCodes = {}
    Wrong = Wrong
    Signature = Signature
    None = None
    PasskeyHeld = FALSE
    CodesPerSet = 0
    MaxAttempts = 1
    PendingTTL = 1
    Skew = 0
    LimitFailures = 1
    LimitWindow = 1
    MaxClock = 2
    MaxLost = 0
SYMMETRY DrawSymmetry
INVARIANTS
    CodeOnce
    ProvenUnlessCrossed
    LimiterBudget
CHECK_DEADLOCK FALSE
