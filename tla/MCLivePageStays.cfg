SPECIFICATION PageSpec
CONSTANTS
    Topics = {t1}
    Regions = {r1}
    Forms = {f1}
    Requests = {r1, f1}
    Outcomes = {"unknown", "stay"}
    MaxTries = 1
    MaxFaults = 1
    MaxSeq = 2
    MaxBoots = 2
    MaxCommits = 2
INVARIANTS
    NothingMissed
CHECK_DEADLOCK FALSE
