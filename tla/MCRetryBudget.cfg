SPECIFICATION Spec
CONSTANTS
    t1 = t1
    t2 = t2
    t3 = t3
    Threads <- MCThreads
    BUCKETS = 2
    MaxEpoch = 2
    MaxStall = 1
    MaxRecords = 3
    MaxOps = 6
    percent = 50
    minimum = 1
    max_attempts = 2
SYMMETRY Symmetry
INVARIANTS NothingErased GrantsStayCounted BurstWithinAllowance
CHECK_DEADLOCK FALSE
