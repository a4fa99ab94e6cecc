SPECIFICATION FairSpec
CONSTANTS
    Backend = "systemd"
    Delayed = TRUE
    Ctl = {c1}
    EarlyControl = FALSE
    LateRegistration = TRUE
    Commands = {"reconcile", "cancel", "prune"}
    Faults = {"wrapper"}
INVARIANT CancelStops
PROPERTIES AcceptedSettles CancelClosesGate
