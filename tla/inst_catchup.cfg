SPECIFICATION Spec
CONSTANTS
    Task = {a, b}
    Catchup = sweep
    Ctl = {c1}
    Backend = "systemd"
    Ops = {"install", "remove", "pause", "resume"}
    Faults = {"refuse"}
    Overlap = FALSE
INVARIANTS CatchupArmed
SYMMETRY Symmetry
