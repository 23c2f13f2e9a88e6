SPECIFICATION Spec
CONSTANTS
    DeviceOf <- MCDeviceOf
    Counters <- MCCounters
    Fields <- MCFields
    Shares = {"media"}
    ArrayStates = {"STARTED", "STOPPED"}
    NoReading <- MCNoReading
    Temperatures <- MCTemperatures
    Retention = 1
    MaxWindow = 3
    MaxCycles = 3
    MaxCount = 1
    MaxFaults = 1
INVARIANTS
    TransitionLog
    NoFalseDecline
    EveryDiskAccounted
    SamplerInv
CHECK_DEADLOCK FALSE
