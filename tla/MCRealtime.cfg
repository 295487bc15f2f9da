SPECIFICATION AllSpec
CONSTANTS
    k1 = k1
    k2 = k2
    f1 = f1
    f2 = f2
    p1 = p1
    p2 = p2
    Keys = {k1, k2}
    Flushers = {f1, f2}
    BadKey = bad
    Bucket = 2
    MaxEvents = 4
    MaxTime = 2
    MaxFaults = 2
    Procs = {p1, p2}
    Lower <- Lowered
    Upper <- Uppered
    Names <- Requests
    LatestTTL = 3
    MaxAge = 2
    Ages = {0}
    MaxClock = 6
    MaxWrites = 2
    MaxTroubles = 1
    MaxResolves = 1
    HeartbeatInterval = 2
    StaleAfter = 3
    BackoffMin = 2
    BackoffMax = 3
    StateTTL = 4
    LastTime = 9
    MaxLosses = 1
    MaxAttempt = 2
SYMMETRY Symmetry
INVARIANTS
    NeverForgotten
    LatestReachesSink
    StoreAndStreamTypeOK
    OutageExpires
    StreamStateIsTrue
PROPERTY RESTOnlyWhenStale
CHECK_DEADLOCK FALSE
