SPECIFICATION Spec
CONSTANTS
    t1 = t1
    t2 = t2
    window = window
    daily = daily
    Threads = {t1, t2}
    Counters = {window}
    Window = window
    Order <- Visits
    Limit <- TwoAtMost
    Stores = {"redis", "memory"}
    None = None
    MaxCalls = 5
    MaxOthers = 0
    MaxFailures = 0
INVARIANT OvershootInFlight
CHECK_DEADLOCK FALSE
