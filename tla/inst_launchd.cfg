SPECIFICATION Spec
CONSTANTS
    Task = {a}
    Catchup = sweep
    Ctl = {c1, c2}
    Backend = "launchd"
    Ops = {"install", "remove", "pause", "resume"}
    Faults = {"refuse", "unknown", "crash"}
    Overlap = FALSE
INVARIANTS NoOrphanTrigger InstallHolds CatchupArmed
PROPERTIES NoClobber
SYMMETRY Symmetry
