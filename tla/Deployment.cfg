SPECIFICATION Spec
CONSTANTS
    DashboardNames = {"web", "db", "harness", "box", "app"}
    ContainerNames = {"web", "db", "harness", "box", "app"}
    Configs <- AllConfigs
    Edits <- AllEdits
    Times = {1, 2}
    MaxEdits = 2
    MaxCrashes = 1
    Clicks = {k1}
    Containers = {"app", "db"}
INVARIANTS
    BootIsWired
    InSync
    NoLostPoll
    RestartsAreAudited
PROPERTY KnobsSettle
CHECK_DEADLOCK FALSE
