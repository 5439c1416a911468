SPECIFICATION FairSpec
CONSTANTS
    TargetTime = 3
    Variance = 1
    RetargetTime = 3
    MinDiff = 2
    MaxDiff = 8
    MaxDelta = 2
    StartDiffs = {2, 12}
    StaticDiffs = {3}
    BufferSize = 2
    Rates = {0, 2, 5}
    MaxInFlight = 2
    MaxAge = 6
    MaxBack = 1
INVARIANTS
    BufferIsFresh
    NeverAbandoned
PROPERTIES
    RetargetHelps
    SettlesInBand
CHECK_DEADLOCK FALSE
