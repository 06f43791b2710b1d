SPECIFICATION FairSpec
CONSTANTS
    Writers = {w1, w2}
    Faults = TRUE
    MaxVersion = 2
    MaxSwaps = 1
    MaxRestarts = 1
INVARIANTS
    BinsMatchLive
PROPERTIES
    RefreshLosesNothing
    RefreshEnds
CHECK_DEADLOCK FALSE
