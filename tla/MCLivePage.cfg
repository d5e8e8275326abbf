SPECIFICATION FairPageSpec
CONSTANTS
    Topics = {t1}
    Regions = {r1}
    Forms = {f1}
    Requests = {r1, f1}
    Outcomes = {"regions", "unknown", "stay"}
    MaxTries = 1
    MaxFaults = 1
    MaxSeq = 1
    MaxBoots = 2
    MaxCommits = 1
INVARIANTS
    CurrentMeansComplete
    FreshMeansCurrent
    NothingMissedBySwaps
PROPERTIES
    NeverBackwards
    CatchesUp
CHECK_DEADLOCK FALSE
