SPECIFICATION Spec
CONSTANTS
    Task = {a}
    Catchup = sweep
    Ctl = {c1, c2}
    Backend = "launchd"
    Ops = {"install", "remove", "pause", "resume"}
    Faults = {}
    Overlap = TRUE
INVARIANTS NoOrphanTrigger
SYMMETRY Symmetry
