CONSTANTS
    p1 = p1
    p2 = p2
    alice = alice
    bob = bob
    fee = fee
    PoolSeq <- OnePool
    Finders = {f1, f2}
    Addrs = {alice, fee}
    NoAddr = NoAddr
    Recipients = {fee}
    Credit <- MCCredit
    Base <- SameBase
    MaxBlocks = 3
    MinConf = 2
    MinPayment = 1
    Word = 16
    MaxLag = 0
    ReorgDepth = 1
    RecordDelay = 1
    MaxRetry = 1
    MaxFaults = 2
    AckLoss = FALSE
SPECIFICATION Spec
INVARIANTS TypeOK BooksBalance SettledRight TransfersRecorded
PROPERTY ImplementsLedger
