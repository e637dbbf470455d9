CONSTANTS
    Request = {r1}
    Leaves = {h}
    NotHex = NotHex
    BatchSize = 4
    Guardian = Guardian
    Salt = Salt
    Nobody = Nobody
    Model = Model
    Nothing = Nothing
    Torn = Torn
    MaxCalls = 8
    MaxBatches = 2
    MaxRetries = 2
    MaxFaults = 1
    MaxRestarts = 1
    MaxTransactions = 3
    MaxQueue = 8
    MaxCopies = 2

SPECIFICATION Spec
INVARIANTS
    QueuedIsKept
    LoggedOnce
    BatchesTellTheirLeaves
PROPERTIES
    RetryEnds
CHECK_DEADLOCK FALSE
