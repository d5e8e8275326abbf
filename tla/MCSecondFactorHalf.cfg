SPECIFICATION Spec
CONSTANTS
    Requests = {q1, q2}
    Halves = {h1, h2}
    Secrets = {}
    RecoveryCodes = {c1, c2}
    Wrong = Wrong
    Signature = Signature
    None = None
    PasskeyHeld = TRUE
    CodesPerSet = 1
    MaxAttempts = 2
    PendingTTL = 0
    Skew = 0
    LimitFailures = 1
    LimitWindow = 1
    MaxClock = 2
    MaxLost = 1
SYMMETRY DrawSymmetry
INVARIANTS
    OneSessionPerHalf
    RecoveryCodeOnce
    StrikeBudget
CHECK_DEADLOCK FALSE
