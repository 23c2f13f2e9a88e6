SPECIFICATION Spec
CONSTANTS
    Bodies = {a, b}
    DockerBodies = {b}
    ProposalIds = {p1}
    GrantIds = {g1}
    Callers = {c1, c2}
    Evidence <- ReadableEvidence
    HostSandboxes = TRUE
    None = None
    MaxCalls = 4
    MaxStoreFailures = 1
    MaxCancels = 1
    MaxCrashes = 1
CHECK_DEADLOCK FALSE
SYMMETRY Symmetry
INVARIANTS
    TransientIsOwned
    AuditedUnlessLost
    RevokedIsRefused
    GrantedWasApproved
    RegistryInv
PROPERTIES
    ImplementsHashGate
