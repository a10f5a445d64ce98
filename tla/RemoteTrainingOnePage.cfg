SPECIFICATION Spec
CONSTANTS
    p1 = p1
    Pages = {p1}
    None = None
    MaxStep = 2
    MaxId = 1
    Limits = {0, 2}
    Capacity = 1
    MaxFaults = 2
    MaxRuns = 1
    SyncEvery = 1
INVARIANTS
    SessionsFreed
PROPERTIES
    EveryCallAnswered
    NeverBack
CHECK_DEADLOCK FALSE
