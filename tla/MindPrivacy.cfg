CONSTANTS
    ann = ann
    bob = bob
    c1 = c1
    c2 = c2
    w1 = w1
    w2 = w2
    g1 = g1
    NoOwner = NoOwner
    Person = {ann, bob}
    Caller = {c1, c2}
    Worker = {w1}
    FirstWorker = w1
    GenesisAnchor = {g1}
    CheckpointEveryN = 1
    InsightMax = 1
    Limit <- PrivacyLimit

SPECIFICATION Spec
SYMMETRY Interchangeable
INVARIANTS
    NeverToldToOthers
    ScopesNeverMerge
    QuietErasureIsFinal
    SummarisedOnce
PROPERTIES
    FollowsFate
CHECK_DEADLOCK FALSE
