SPECIFICATION FairSpec
PROPERTIES Drains
CONSTANTS
    s1 = s1
    s2 = s2
    s3 = s3
    s4 = s4
    Shares = {s1, s2, s3}
    BatchSize = 2
    RetryCount = 1
    BreakAfter = 2
    ImportSize = 2
    MaxLostAcks = 1
    MaxFaults = 2
INVARIANTS
    TypeOK
    NothingLost
    NeverTwice
    RecoveryComplete
CHECK_DEADLOCK FALSE
