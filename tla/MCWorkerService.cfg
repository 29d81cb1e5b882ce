SPECIFICATION ServiceSpec
CONSTANTS
    v1 = v1
    Validators = {v1}
    FirstCheckpoint = 8
    LastCheckpoint = 11
    EventBlock <- MCEventBlock
    Tracked <- MCTracked
    Missed <- MCMissed
    BelowBenchmark <- MCBelowBenchmark
    StartBlock = 1
    BlockHandleChunk = 3
    InRowLimit = 2
    MonitoringPeriod = 1
    BatchSize = 4
    StaleAfter = 9
    DryRun = FALSE
    DryRunWindow = 2
    CheckpointsToKeep = 0
    FirstHead = 6
    MaxBlock = 7
    MaxLag = 0
INVARIANTS
    ServiceTypeOK
    AnnouncedOnce
    AlarmIsAGap
    LastingGapReported
PROPERTIES
    KeepsRecent
    RemovesOutdatedSameDigits
    NeverScansBack
