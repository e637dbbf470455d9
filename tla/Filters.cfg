CONSTANTS
    t1 = t1
    t2 = t2
    Thread = {t1, t2}
    Intensity = {90}
    Source = {"user_stated"}
    MaxMemories = 9

SPECIFICATION Spec
SYMMETRY Interchangeable
INVARIANTS
    VividMemoriesAreFew
    HighRecordsArePaidFor
PROPERTIES
    BuildsUp
CHECK_DEADLOCK FALSE
