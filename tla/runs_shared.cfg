SPECIFICATION Spec
CONSTANTS
    Task = {a, b}
    Shared = {a, b}
    Disabled = {}
    Persistent = {a}
    Inv = {i1, i2, i3}
    MaxTime = 2
    Schedule = "calendar"
    Interval = 1
    KeepRuns = 3
    Kills = TRUE
INVARIANTS TypeOK Exclusive SomeoneRuns
PROPERTIES NotDueIsCovered
SYMMETRY Symmetry
CHECK_DEADLOCK FALSE
