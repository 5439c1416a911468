SPECIFICATION FairSpec
CONSTANTS
    c1 = c1
    c2 = c2
    r1 = r1
    r2 = r2
    r3 = r3
    r4 = r4
    Clients = {c1}
    Requests = {r1, r2, r3}
    StartDiff = 2
    StaticDiffs = {4}
    Retargets = {3}
    MaxJobs = 3
    Bans = TRUE
INVARIANTS
    BroadcastReaches
PROPERTIES
    InitialWorkOnce
    WorkArrives
CHECK_DEADLOCK FALSE
