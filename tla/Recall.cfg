CONSTANTS
    i1 = i1
    i2 = i2
    i3 = i3
    p = p
    w1 = w1
    w2 = w2
    Mind = Mind
    Owner = {p}
    Pool = 1
    MaxFaults = 1
    Id = {i1, i2, i3}
    Wiper = {w1, w2}
    Limit = 2
    FadedAt = 1
    MaxAge = 1

SPECIFICATION Spec
CONSTRAINT RacesAreSmall
SYMMETRY Interchangeable
INVARIANTS
    ActiveIsFindable
    VectorsHaveRecords
PROPERTIES
    CollectionReachesLimit
    CollectionIsGentle
    AnchorsOutlast
