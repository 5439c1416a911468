SPECIFICATION FairSpec
CONSTANTS
    alice = alice
    bob = bob
    Shares = {1, 2, 3, 4}
    Miners = {alice, bob}
    MaxTime = 3
    MaxScore = 3
    Window = 3
    PageSize = 2
    NumBlocks = 2
    Logs <- MCLogs
    Finds <- MCFinds
    MaxLate = 1
    MaxFaults = 1
INVARIANTS
    RewardsFollowWindow
    WindowsAreKept
PROPERTY
    BlocksAreCredited
CHECK_DEADLOCK FALSE
