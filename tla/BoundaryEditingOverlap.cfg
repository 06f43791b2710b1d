SPECIFICATION Spec
CONSTANTS
    Size = 2
    UnitOf <- OneUnit
    Cuts <- OneCut
    NoCut = NoCut
    Seeds <- Bare
    Admins = {a1, a2}
    Files <- AllFiles
    Keys = {k1}
    NoKey = NoKey
    Faults = TRUE
    Kinds = {"edit", "insert", "import", "revert"}
    MaxUpdates = 2
    Duplicates = FALSE
    MaxSets = 2
SYMMETRY
    Symmetry
INVARIANTS
    TypeOK
    LatestRowIsCurrent
CHECK_DEADLOCK FALSE
