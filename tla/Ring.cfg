SPECIFICATION Spec
CONSTANTS
    None = None
    Shapes <- SmallShapes
    Pieces <- SmallPieces
    Prompts = {0, 2, 3, 5}
    Targets = {None}
    Budgets = {3}
INVARIANTS
    RingIsAlwaysTheWindow
CHECK_DEADLOCK FALSE
