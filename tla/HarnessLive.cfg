SPECIFICATION Spec
CONSTANTS
    Services <- TwoMapped
    Targets <- TwoTargets
    CycleIds = {c1}
    Requests = {r1, r2}
    Mode = "live"
    None = None
    MaxStoreFailures = 1
    MaxCrashes = 1
SYMMETRY Symmetry
INVARIANTS
    ApprovedBeforeDispatch
    DecisionOnRecord
    RecoveredSawUp
PROPERTIES
    OneDecision
