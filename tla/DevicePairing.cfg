SPECIFICATION PairingSpec
CONSTANTS
    Kiosks = {k1, k2}
    Profiles = {p1, p2}
    Default = p1
    Codes = {c1, c2}
    Requests = {q1, q2}
    MaxRows = 2
    MaxPrints = 2
    MaxChanges = 5
    None = None
SYMMETRY Symmetry
INVARIANTS
    RowsOfActiveProfiles
PROPERTIES
    ConsumedMeansServed
    RevokeCutsOff
CHECK_DEADLOCK FALSE
