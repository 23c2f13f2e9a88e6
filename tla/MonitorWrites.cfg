SPECIFICATION Spec
CONSTANTS
    Services = {media}
    Hosts = {}
    DebounceNs = {0, 1, 2}
    StartN = 2
    Answers <- AllAnswers
    HostStates <- HostMeasures
    MaxFaults <- WritesFail
INVARIANTS
    NoReAlert
    SinkTracksStore
