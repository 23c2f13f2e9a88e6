SPECIFICATION FairSpec
CONSTANTS
    Services <- OneService
    Targets <- OneTarget
    CycleIds = {c1}
    Requests = {r1, r2}
    Mode = "live"
    None = None
    MaxStoreFailures = 1
    MaxCrashes = 2
PROPERTIES
    CycleTerminates
    PendingIsResolved
