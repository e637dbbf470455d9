CONSTANTS
    Browser = {s1, s2}
    Name = {ann, root}
    Admin = {root}
    NoName = NoName
    Absent = Absent
    MaxOpened = 2
    MaxScripts = 3
    MaxFaults = 1
    MaxRestarts = 1
    MaxCheckpoints = 1

SPECIFICATION WebSpec
CONSTRAINT Undisturbed
SYMMETRY Interchangeable
INVARIANTS
    NamesStartEmpty
    DeletedIsGone
CHECK_DEADLOCK FALSE
