SPECIFICATION FairSpec
CONSTANTS
    Tasks = {request, broadcast}
    MaxSends = 2
INVARIANTS
    NoneForgotten
    ReturnedOnce
PROPERTY
    Flushed
CHECK_DEADLOCK FALSE
