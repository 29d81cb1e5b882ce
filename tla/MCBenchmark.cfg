SPECIFICATION Spec
CONSTANTS
    A = A
    Anonymous = Anonymous
    LastCheckpoint = 1
    Ids = {1, 2, 3, 4, 5}
    Last = 5
    Later = 5
    Active <- MCActive
    Tracked <- MCTracked
    Files <- MCFiles
    MonitoringPeriod = 1
    Scale = 2
PROPERTIES
    BenchmarkIsMedian
