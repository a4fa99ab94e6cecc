SPECIFICATION Spec
CONSTANTS
    Backend = "systemd"
    Delayed = FALSE
    Ctl = {c1}
    EarlyControl = TRUE
    LateRegistration = FALSE
    Commands = {"reconcile", "cancel", "prune"}
    Faults = {}
INVARIANT TerminalMeansOver
