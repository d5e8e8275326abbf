SPECIFICATION FairMigrateSpec
CONSTANTS
    Instances = {i1, i2}
    None = None
    N = 4
    DataOnly = {2}
    PostAdoption = {4}
    Rebuilds = {4}
    MaxFaults = 2
INVARIANTS
    LedgerIsTrue
    CleanReturn
PROPERTIES
    RunsInOrder
    Converges
CHECK_DEADLOCK FALSE
