SPECIFICATION Spec
CONSTANTS
    Services <- OneService
    Targets <- OneTarget
    CycleIds = {c1}
    Requests = {r1}
    Mode = "live"
    None = None
    MaxStoreFailures = 0
    MaxCrashes = 0
SYMMETRY Symmetry
INVARIANTS
    AckedIsNotExpired
