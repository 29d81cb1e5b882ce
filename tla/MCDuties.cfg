SPECIFICATION Spec
CONSTANTS
    a1 = a1
    b1 = b1
    a2 = a2
    Checkpoints = {1, 2, 3}
    Ids = {1, 2}
    Signers = {a1, b1, a2}
    Block <- MCBlock
    Signed <- MCSigned
    SignerToValidator <- MCSignerToValidator
    Info <- MCInfo
    Registered <- MCRegistered
    ActiveOperator <- MCActiveOperator
    StaticIds = {}
    V2Block = 3
    StopsAt = 3
    CacheSize = 2
    FirstHead = 1
    MaxBlock = 4
INVARIANTS TypeOK DutiesFaithful TrackedFaithful
CHECK_DEADLOCK FALSE
