CONSTANTS
    Callers = {c1, c2, c3}
    FailureThreshold = 2
    Cooldown = 3
    HalfOpenMaxPasses = 2
    Targets = {"book", "funding"}
    Interval <- TargetInterval
    Priority <- TargetPriority
    MaxRetry <- TargetMaxRetry
    Workers = {w1, w2}
    BatchSize = 2
    Timeout = 1
    BackoffBase = 1
    BackoffMax = 2
    BackoffJitterMax = 1
    Horizon = 0
    MaxCrashes = 2
    DataTypes = {"open_interest", "funding", "open_interest_history"}
    Executors = {"*", "aggregated_snapshot"}
    Responses <- Results
    Texts <- Said
    JobMaxRetry = 2
    MaxDeaths = 1
    MaxWriteFailures = 1
    w1 = w1
    w2 = w2
SPECIFICATION AllSpec
INVARIANTS
    ExclusiveClaim
    DeadLetterRecorded
    EndingIsEarned
    RejectedAreQuarantined
PROPERTIES
    TerminalIsFinal
    ImplementsLifecycle
    QuietAfterTrip
    OpenIsProbed
    EventuallyTerminal
    ExecutionEnds
CHECK_DEADLOCK FALSE
