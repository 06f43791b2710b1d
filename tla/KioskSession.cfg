SPECIFICATION FairSpec
CONSTANTS
    Kiosks = {k1}
    Screens = {k1}
    Profiles = {p1, p2}
    Default = p1
    Codes = {c1}
    Requests = {q1, q2}
    MaxRows = 1
    MaxPrints = 1
    MaxChanges = 3
    MaxQueue = 1
    None = None
INVARIANTS
    TypeOK
    OneProfileAtATime
PROPERTIES
    PairedShowsItsProfile
CHECK_DEADLOCK FALSE
