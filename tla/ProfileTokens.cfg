SPECIFICATION Spec
CONSTANTS
    Profiles = {p1, p2}
    Default = p1
    Users = {u1, u2}
    Codes = {c1, c2, c3}
    Requests = {q1, q2, q3}
    MaxChanges = 5
    None = None
SYMMETRY Symmetry
PROPERTIES
    RotationMatches
    RedemptionIsAtomic
    SupersededIsDead
CHECK_DEADLOCK FALSE
