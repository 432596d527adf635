SPECIFICATION FairSpec
CONSTANTS
    t1 = t1
    t2 = t2
    window = window
    daily = daily
    Threads = {t1, t2}
    Counters = {window, daily}
    Window = window
    Order <- Visits
    Limit <- Limits
    Stores = {"redis", "memory"}
    None = None
    MaxCalls = 3
    MaxOthers = 1
    MaxFailures = 1
INVARIANT TypeOK
INVARIANT NeverOvercounts
INVARIANT OvershootOnRedis
INVARIANT EndlessOnlyIfLost
PROPERTY WindowEnds
CHECK_DEADLOCK FALSE
