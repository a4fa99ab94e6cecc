SPECIFICATION Spec
CONSTANTS
    Backend = "launchd"
    Delayed = TRUE
    Ctl = {c1, c2}
    EarlyControl = FALSE
    LateRegistration = FALSE
    Commands = {"cancel", "prune"}
    Faults = {"submit", "wrapper", "manager"}
SYMMETRY Symmetry
INVARIANTS CancelStops CollectedMeansGone
PROPERTIES ImplementsOneShot
