CONSTANTS
    MaxSessionLog = 1
    ShortTermLimit = 3
    Kept = 1
    MinMessages = 2
    MaxSaid = 6
    MaxSessions = 3
    MaxCommands = 2

SPECIFICATION FairSpec
INVARIANTS
    WindowIsBounded
    DeletedStaysDeleted
    SessionsAreKept
PROPERTIES
    MessagesAreAnswered
CHECK_DEADLOCK FALSE
