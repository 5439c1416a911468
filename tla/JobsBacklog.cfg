SPECIFICATION Spec
CONSTANTS
    w1 = w1
    r1 = r1
    r2 = r2
    r3 = r3
    n1 = n1
    n2 = n2
    bad = bad
    weak = weak
    fair = fair
    strong = strong
    Workers = {w1}
    Requests = {r1, r2}
    Nonces = {n1}
    Solutions = {weak, strong}
    Quality <- SolutionQuality
    BlockQuality = 4
    Diffs = {2, 6}
    StartDiff = 2
    VarDiffs = {w1}
    NetDiffs = {4}
    MaxBlockBacklog = 1
    MaxHeaders = 3
    MaxJump = 2
    MaxJobs = 3
    MaxLag = 0
    StatsFail = TRUE
    Overlap = TRUE
SYMMETRY RequestSymmetry
INVARIANTS
    TypeOK
    WorkIsOpen
    StaleIsOld
    CandidateIsMinted
    LowIsLow
    CreditIsProven
CHECK_DEADLOCK FALSE
