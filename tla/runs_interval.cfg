SPECIFICATION FairSpec
CONSTANTS
    Task = {a, b}
    Shared = {}
    Disabled = {b}
    Persistent = {a, b}
    Inv = {i1, i2}
    MaxTime = 3
    Schedule = "interval"
    Interval = 1
    KeepRuns = 1
    Kills = TRUE
INVARIANT LastTruthful
PROPERTIES NotDueIsCovered RunLockComesFree
CHECK_DEADLOCK FALSE
