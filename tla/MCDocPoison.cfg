CONSTANTS
    Skew = 1
    FirstRequest = 2
    MaxRetry = 3
    MaxClock = 3
    MaxFaults = 2
    Catalogue <- Ratios
    Answers <- RatioAnswer
SPECIFICATION FairIngest
PROPERTIES EveryJobEnds
CHECK_DEADLOCK FALSE
