CONSTANTS
    p1 = p1
    p2 = p2
    alice = alice
    bob = bob
    fee = fee
    PoolSeq <- TwoPools
    Finders = {f1}
    Addrs = {alice, fee}
    NoAddr = NoAddr
    Recipients = {fee}
    Credit <- MCCredit
    Base <- SameBase
    MaxBlocks = 2
    MinConf = 1
    MinPayment = 2
    Word = 16
    MaxLag = 0
    ReorgDepth = 0
    RecordDelay = 0
    MaxRetry = 1
    MaxFaults = 1
    AckLoss = FALSE
SPECIFICATION Spec
PROPERTY PoolsIndependent
