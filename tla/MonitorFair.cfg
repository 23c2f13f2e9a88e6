SPECIFICATION FairSpec
CONSTANTS
    Services = {media}
    Hosts = {tower}
    DebounceNs = {1, 2}
    StartN = 2
    Answers <- UpOrDown
    HostStates <- TCPStates
    MaxFaults <- Outages
INVARIANTS
    OneBlindResult
    MonitorInv
PROPERTIES
    BlindShowsUnknown
    SettledIsCommitted
