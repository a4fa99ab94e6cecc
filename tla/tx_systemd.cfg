SPECIFICATION Spec
CONSTANTS
    Backend = "systemd"
    Delayed = TRUE
    Ctl = {c1, c2}
    EarlyControl = FALSE
    LateRegistration = FALSE
    Commands = {"cancel", "prune"}
    Faults = {"wrapper", "hook"}
SYMMETRY Symmetry
INVARIANTS TypeOK AtMostOnce NeverEarly TerminalMeansOver CancelStops CollectedMeansGone OutcomeKept
PROPERTIES ImplementsOneShot PruneRemovesDead
