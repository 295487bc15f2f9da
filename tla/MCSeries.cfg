SPECIFICATION AllSpec
CONSTANTS
    Nil = Nil
    Exchanges = {"okx", "gate"}
    Rows <- Answers
    Deltas = {0, 1}
    Periods = {1, 2}
    MaxAge = 1
    Windows <- TwoWindows
    Backoff = 1
    MaxRetry = 2
    MaxTime = 4
    MaxRows = 3
    MaxFaults = 1
    Interval = 2
    Lookback = 7
    MaxClock = 8
INVARIANTS
    SeriesTypeOK
    CVDIsRunningSum
    Recalculable
    SucceededIsComplete
    TradesCountPerPeriod
PROPERTIES
    TotalsLoseOnlyToCuts
    GapsAreExact
CHECK_DEADLOCK FALSE
