CONSTANTS
    alice = alice
    bob = bob
    s1 = s1
    h1 = h1
    h2 = h2
    m1 = m1
    m2 = m2
    Nobody = Nobody
    NoHash = NoHash
    NoModel = NoModel
    Address = {alice, bob}
    Salt = {s1}
    Hash = {h1, h2}
    Model = {m1}
    Number = {0, 101}
    MaxTransactions = 4
    MaxTime = 1

SPECIFICATION Spec
SYMMETRY Interchangeable
INVARIANTS
    NobodyTakesAnothersId
    EventsTellTheState
    RecentAnchorsAreNewest
PROPERTIES
    OnlyTheGuardianWrites
    MemoryLogIsALedger
    BatchLogIsALedger
CHECK_DEADLOCK FALSE
