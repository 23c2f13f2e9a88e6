SPECIFICATION Spec
CONSTANTS
    Services = {s1}
    Host = host
    Statuses <- UpOrDown
    Tabs = {t1}
    Buffer = 2
INVARIANTS
    TabIsCurrent
    TabInv
PROPERTY TabCatchesUp
