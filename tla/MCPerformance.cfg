SPECIFICATION Spec
CONSTANTS
    A = A
    Anonymous = Anonymous
    LastCheckpoint = 3
    Ids = {1, 2, 3, 4}
    Last = 3
    Later = 4
    Active <- MCActive
    Tracked <- MCTracked
    Files <- MCFiles
    MonitoringPeriod = 1
    Scale = 2
INVARIANTS
    TypeOK
    OneName
PROPERTIES
    RatesFaithful
    BenchmarkIsMedianOdd
    BenchmarkNeverTooLow
