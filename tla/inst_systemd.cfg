SPECIFICATION Spec
CONSTANTS
    Task = {a, b}
    Catchup = sweep
    Ctl = {c1}
    Backend = "systemd"
    Ops = {"install", "remove", "pause", "resume"}
    Faults = {"refuse", "crash"}
    Overlap = FALSE
INVARIANTS TypeOK NoOrphanTrigger InstallHolds LoadedIsCurrent CatchupKept
SYMMETRY Symmetry
