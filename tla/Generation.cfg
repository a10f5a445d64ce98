SPECIFICATION Spec
CONSTANTS
    None = None
    Shapes <- SmallShapes
    Pieces <- SmallPieces
    Prompts = {0, 2, 3, 5}
    Targets = {None, 1, 3}
    Budgets = {3}
INVARIANTS
    HostAttendsAsTrained
    RingIsTheWindow
    SameAsBlocking
    ShownIsTheAnswer
CHECK_DEADLOCK FALSE
