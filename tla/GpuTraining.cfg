SPECIFICATION Spec
CONSTANTS
    Layers = 2
    Inputs <- MCInputs
    TLen = 3
    PerSubmit = {0, 7}
    Capacity = 2
    MaxCalls = 2
    MaxTokens = 4
    Idle = Idle
INVARIANTS
    GradientsAreTheHosts
    LogitsAreTheModels
    UpdatesAreTheHosts
PROPERTIES
    SubmissionsAreBounded
CHECK_DEADLOCK FALSE
