SPECIFICATION LocateSpec
CONSTANTS
    Size = 4
    UnitOf <- TwoUnits
    Cuts <- MCCuts
    NoCut = NoCut
    Seeds <- ContiguousSeeds
    Admins = {a1}
    Files <- ShortFiles
    Keys = {}
    NoKey = NoKey
    Faults = TRUE
    Kinds = {"edit", "insert", "import"}
    MaxUpdates = 1
    Duplicates = FALSE
    MaxSets = 1
    Records <- MCRecords
    LabelOrder <- MCLabelOrder
    Whole = 120
    HalfWidth = 6
    Sizers = {z1, z2}
    Bodies <- MCBodies
    WidthSeeds <- MCWidthSeeds
    FileWidths <- MCFileWidths
SYMMETRY Symmetry
INVARIANTS
    FoundOnce
    SegmentsFillTheCube
    OrderIsShown
PROPERTIES
    SetWidthsAreShown
CHECK_DEADLOCK FALSE
