SPECIFICATION SessionSpec
CONSTANTS
    c1 = c1
    c2 = c2
    c3 = c3
    Callers = {c1, c2, c3}
    NoWeights = NoWeights
    MaxVersion = 4
    MaxStep = 4
SYMMETRY Symmetry
INVARIANTS
    NewestNeverLost
    DecodesNewest
    IInv
PROPERTIES
    ExportsNewest
    LearningLosesNothing
    KeepsPromise
