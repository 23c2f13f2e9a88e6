SPECIFICATION Spec
CONSTANTS
    Services <- OneService
    Targets <- OneTarget
    CycleIds = {c1, c2}
    Requests = {r1}
    Mode = "live"
    None = None
    MaxStoreFailures = 0
    MaxCrashes = 2
SYMMETRY Symmetry
INVARIANTS
    SingleFlight
    DispatchAtMostOnce
    NoOrphanPending
    IInv
PROPERTIES
    TerminalIsFinal
    ImplementsGate
