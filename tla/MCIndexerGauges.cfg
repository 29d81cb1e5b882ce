SPECIFICATION Spec
CONSTANTS
    v1 = v1
    v2 = v2
    Validators = {v1}
    FirstCheckpoint = 1
    LastCheckpoint = 5
    EventBlock <- MCEventBlock
    Tracked <- MCTrackedOne
    Missed <- MCMissedOne
    BelowBenchmark <- MCBelowBenchmarkOne
    StartBlock = 1
    BlockHandleChunk = 4
    InRowLimit = 2
    MonitoringPeriod = 1
    BatchSize = 2
    StaleAfter = 3
    DryRun = FALSE
    DryRunWindow = 2
    FirstHead = 6
    MaxBlock = 8
    MaxLag = 0
INVARIANTS
    StrikeFaithful
