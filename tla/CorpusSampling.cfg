SPECIFICATION Spec
CONSTANTS
    None = None
    a = a
    b = b
    c = c
    long = long
    short = short
    bytes = bytes
    merged = merged
    Sources = {a, b, c}
    Texts = {long, short}
    Vocabularies = {bytes, merged}
    Length <- TokenCount
    Shuffle <- Rotated
    Context = 2
    HeldDivisor = 3
    MinSlice = 2
    BatchSize = 1
    MaxDraws = 4
    MaxEdits = 1
    MaxReloads = 1
SYMMETRY Interchangeable
INVARIANTS
    WindowsStayInside
    PassesAreWhole
    TurnsAreShared
CHECK_DEADLOCK FALSE
