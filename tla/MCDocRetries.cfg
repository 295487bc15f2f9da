CONSTANTS
    DataTypes = {"funding"}
    Executors = {"*", "aggregated_snapshot"}
    Responses <- Answer
    Texts <- Said
    JobMaxRetry = 2
    MaxDeaths = 0
    MaxWriteFailures = 2
SPECIFICATION CollectorSpec
PROPERTY RetriesWhileBelow
CHECK_DEADLOCK FALSE
