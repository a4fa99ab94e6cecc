CONSTANTS
    Modes = {"plain", "cancellable", "supervised"}
    Child = {k1, k2}
    k1 = k1
    k2 = k2
    Faults = {"wrapper", "supervisor"}
SPECIFICATION FairSpec
INVARIANTS TypeOK RecordedMeansOver OutcomeTruthful
PROPERTIES WorkloadIsOneShot OrphansDie WaitEnds
