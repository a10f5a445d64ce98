SPECIFICATION Spec
CONSTANTS
    p1 = p1
    p2 = p2
    Pages = {p1, p2}
    None = None
    MaxStep = 1
    MaxId = 2
    Limits = {0, 1}
    Capacity = 1
    MaxFaults = 0
    MaxRuns = 2
    SyncEvery = 1
SYMMETRY Symmetry
INVARIANTS
    RemoteInv
    CheckpointsCarryTheirStep
    NoOrphanRun
    OwnModel
CHECK_DEADLOCK FALSE
