SPECIFICATION SceneSpec
CONSTANTS
    Width <- Widths
    klineRollups <- Rollups
    Collected = {"1m"}
    Policies <- AllPolicies
    Tables <- BothTables
    MinRetentionDays = 1
    Partitions <- OnePartition
    OptionMaxRows = 3
    DiskPressureCritical = FALSE
    MaxTime = 4
    MaxRuns = 2
    MaxFaults = 1
    MaxLate = 2
INVARIANT TypeOK
PROPERTIES PolicyScoped CountedWhenRemoved SucceededMeansDone
CHECK_DEADLOCK FALSE
