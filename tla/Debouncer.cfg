SPECIFICATION Spec
CONSTANTS
    DebounceNs = {0, 1, 2, 3}
    MaxProbes = 7
INVARIANT CommittedIsLastStable
