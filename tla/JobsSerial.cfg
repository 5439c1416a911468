SPECIFICATION FairSpec
CONSTANTS
    w1 = w1
    r1 = r1
    r2 = r2
    r3 = r3
    n1 = n1
    n2 = n2
    bad = bad
    weak = weak
    fair = fair
    strong = strong
    Workers = {w1}
    Requests = {r1, r2}
    Nonces = {n1, n2}
    Solutions = {bad, fair, strong}
    Quality <- SolutionQuality
    BlockQuality = 4
    Diffs = {}
    StartDiff = 2
    VarDiffs = {}
    NetDiffs = {8}
    MaxBlockBacklog = 1
    MaxHeaders = 3
    MaxJump = 1
    MaxJobs = 3
    MaxLag = 0
    StatsFail = TRUE
    Overlap = FALSE
INVARIANTS
    ShareCountedOnce
PROPERTIES BlockIsRecorded WorkIsAnnounced
CHECK_DEADLOCK FALSE
