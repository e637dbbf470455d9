CONSTANTS
    ann = ann
    bob = bob
    c1 = c1
    c2 = c2
    w1 = w1
    w2 = w2
    g1 = g1
    NoOwner = NoOwner
    Person = {}
    Caller = {c1}
    Worker = {w1, w2}
    FirstWorker = w1
    GenesisAnchor = {g1}
    CheckpointEveryN = 1
    InsightMax = 1
    Limit <- ControlLimit

SPECIFICATION Spec
SYMMETRY Interchangeable
INVARIANTS
    GenesisKept
CHECK_DEADLOCK FALSE
