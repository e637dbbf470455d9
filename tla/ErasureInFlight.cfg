CONSTANTS
    ann = ann
    bob = bob
    c1 = c1
    c2 = c2
    w1 = w1
    w2 = w2
    g1 = g1
    NoOwner = NoOwner
    Person = {ann}
    Caller = {c1}
    Worker = {w1}
    FirstWorker = w1
    GenesisAnchor = {g1}
    CheckpointEveryN = 1
    InsightMax = 1
    Limit <- EraseLimit

SPECIFICATION Spec
SYMMETRY Interchangeable
INVARIANTS
    ErasedStaysOut
CHECK_DEADLOCK FALSE
