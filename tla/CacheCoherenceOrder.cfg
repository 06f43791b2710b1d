SPECIFICATION Spec
CONSTANTS
    Writers = {w1, w2}
    Faults = FALSE
    MaxVersion = 2
    MaxSwaps = 2
    MaxRestarts = 0
INVARIANT
    QuietMeansFresh
CHECK_DEADLOCK FALSE
