SPECIFICATION Spec
CONSTANTS
    Width <- Widths
    klineRollups <- Rollups
    Collected = {"1m"}
    Policies <- OnePolicy
    Tables <- OneTable
    MinRetentionDays = 1
    Partitions = {}
    OptionMaxRows = 0
    DiskPressureCritical = FALSE
    MaxTime = 4
    MaxRuns = 2
    MaxFaults = 0
    MaxLate = 1
PROPERTY RollupKeepsHistory
CHECK_DEADLOCK FALSE
