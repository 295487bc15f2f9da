CONSTANTS
    Targets = {"book"}
    Interval <- MCInterval
    Priority <- MCPriority
    MaxRetry <- MCMaxRetry
    Workers = {w1, w2}
    BatchSize = 1
    Timeout = 1
    BackoffBase = 1
    BackoffMax = 2
    BackoffJitterMax = 1
    Horizon = 0
    MaxCrashes = 1
SPECIFICATION QueueSpec
PROPERTY DocStatusFlow
CHECK_DEADLOCK FALSE
