SPECIFICATION FairSpec
CONSTANTS
    m1 = m1
    m2 = m2
    m3 = m3
    b1 = b1
    b2 = b2
    Events = {m1, m2, m3, b1, b2}
    EventBlock <- MCEventBlock
    EventType <- MCEventType
    StartBlock = 1
    DryRun = FALSE
    FirstHead = 2
    MaxBlock = 5
INVARIANTS
    TypeOK
    NeverFetchedAgain
    PassedOnlyWhenHit
PROPERTIES
    EventuallyStored
