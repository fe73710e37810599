\* Two tabs of one user: expiring tokens, crossing refreshes, a failing one, logouts.
SPECIFICATION FairSpec
CONSTANTS
    t1 = t1
    t2 = t2
    u1 = u1
    Tabs = {t1, t2}
    Users = {u1}
    Working = {t1}
    Leaving = {t1}
    MaxRefreshes = 2
    MaxTokens = 3
    MaxSessions = 1
    MaxFaults = 1
INVARIANTS
    TypeOK
    WaiterHasCall
PROPERTIES
    NotThrownOut
    RequestsEnd
CHECK_DEADLOCK FALSE
