SPECIFICATION MCSpec
CONSTANTS
    c1 = c1
    Calls = {c1}
    None = None
    Settings <- PlainOrDense
    MaxStep = 3
    MaxClicks = 3
INVARIANTS
    LoopInv
    GuardIsAtWork
    SamplesKept
PROPERTIES
    NoStepTooMany
    OneRunAtATime
    RunsEnd
    StopIsHeard
CHECK_DEADLOCK FALSE
