SPECIFICATION FairSpec
CONSTANTS
    Sessions = {s1, s2}
    Requests = {q1, q2}
    IdleTTLs = {1}
    HardCaps = {1, 2}
    None = None
INVARIANTS
    TypeOK
    OnlyImportsDeadlock
PROPERTIES
    OverIsOver
    EverySessionEnds
    EveryRequestIsAnswered
