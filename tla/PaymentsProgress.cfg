CONSTANTS
    p1 = p1
    p2 = p2
    alice = alice
    bob = bob
    fee = fee
    PoolSeq <- OnePool
    Finders = {f1}
    Addrs = {alice}
    NoAddr = NoAddr
    Recipients = {}
    Credit <- MCCredit
    Base <- SameBase
    MaxBlocks = 2
    MinConf = 1
    MinPayment = 1
    Word = 16
    MaxLag = 1
    ReorgDepth = 1
    RecordDelay = 1
    MaxRetry = 1
    MaxFaults = 2
    AckLoss = TRUE
SPECIFICATION FairSpec
INVARIANTS CreditedOnce BooksBalance
PROPERTIES SettledStays MatureSettles BalancesPaid
