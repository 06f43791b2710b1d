SPECIFICATION Spec
CONSTANTS
    Size = 4
    UnitOf <- TwoUnits
    Cuts <- TwoCuts
    NoCut = NoCut
    Seeds <- SomeShelves
    Admins = {a1}
    Files <- SomeFiles
    Keys = {k1}
    NoKey = NoKey
    Faults = TRUE
    Kinds = {"edit", "insert", "import", "revert"}
    MaxUpdates = 1
    Duplicates = FALSE
    MaxSets = 3
INVARIANTS
    OneAnswerPerKey
PROPERTIES
    RevertKeepsNewer
    RevertRestores
    EditsKeepTheShelf
CHECK_DEADLOCK FALSE
