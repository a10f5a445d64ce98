SPECIFICATION Spec
CONSTANTS
    None = None
    Settings <- FewSettings
    Rates = {4}
    Patience = 2
    CutAfter = 2
    MaxStep = 5
INVARIANTS
    RateFallsAfterWarmup
    RunFollowsItsSettings
    CutsAreAskedFor
CHECK_DEADLOCK FALSE
