SPECIFICATION Spec
CONSTANTS
    v1 = v1
    v2 = v2
    Validators = {v1, v2}
    FirstCheckpoint = 1
    LastCheckpoint = 4
    EventBlock <- MCEventBlock
    Tracked <- MCTracked
    Missed <- MCMissed
    BelowBenchmark <- MCBelowBenchmark
    StartBlock = 1
    BlockHandleChunk = 3
    InRowLimit = 2
    MonitoringPeriod = 2
    BatchSize = 2
    StaleAfter = 2
    DryRun = TRUE
    DryRunWindow = 2
    FirstHead = 3
    MaxBlock = 7
    MaxLag = 1
INVARIANTS
    AnnouncedOnce
    DryRunOnce
PROPERTIES
    DryRunInWindow
CHECK_DEADLOCK FALSE
