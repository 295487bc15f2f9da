CONSTANTS
    Planners = {p1, p2}
    Policies <- Overlapping
    Endpoints = {"ticker", "open_interest", "liquidation", "orderbook", "funding_history"}
    Symbols = {1, 2, 3}
    Listed = {2, 3}
    Watched = {2}
    TopLimit = 1
    CronEvery = 1
    BackfillInterval = 1
    MaxJobs = 2
    MaxTime = 4
    MaxChanges = 2
    MaxFailures = 2
    MaxBackfills = 1
    Skew = 1
    Catalogue <- Everything
    Answers <- AnyAnswer
    FirstRequest = 2
    MaxRetry = 3
    MaxClock = 3
    MaxFaults = 2
SPECIFICATION PipelineSpec
INVARIANTS
    PipelineTypeOK
    BestPriorityWins
    EveryBucketPlanned
    OneViewPerTier
    OnlyValidStored
    SucceededAccounted
    IdempotentIngestion
CHECK_DEADLOCK FALSE
