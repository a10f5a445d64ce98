SPECIFICATION Spec
CONSTANTS
    p1 = p1
    p2 = p2
    Pages = {p1, p2}
    None = None
    MaxStep = 1
    MaxId = 2
    Limits = {0}
    Capacity = 1
    MaxFaults = 0
    MaxRuns = 2
    SyncEvery = 2
PROPERTIES
    StopIsHeeded
    HeardToTheEnd
CHECK_DEADLOCK FALSE
