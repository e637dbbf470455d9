CONSTANTS
    u1 = u1
    u2 = u2
    u3 = u3
    s1 = s1
    s2 = s2
    NoUser = NoUser
    Username = {u1, u2, u3}
    Session = {s1, s2}
    MaxFailedLogins = 2
    Lockout = 2
    MaxWait = 1
    DailyLimit = 1
    GlobalLimit = 2
    MaxAccounts = 1
    DayLength = 2
    LastDay = 1
    MaxDepartures = 1
    MaxLockouts = 2

SPECIFICATION Spec
SYMMETRY Interchangeable
CONSTRAINT Bounded
INVARIANTS
    WithinDailyLimits
    BillIsBounded
    GuessesAreBounded
    AccountsAreBounded
CHECK_DEADLOCK FALSE
