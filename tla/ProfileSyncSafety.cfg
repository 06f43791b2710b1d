SPECIFICATION Spec
CONSTANTS
    Requests = {q1}
    Scheduled = {n1}
    Releases = {r1, r2}
    Tokens = {t1, t2}
    MaxDuplicates = 1
    MaxCrashes = 1
    Interruptions = {"cancel", "database", "revoke"}
    NoSync = NoSync
    NoToken = NoToken
SYMMETRY Symmetry
INVARIANTS
    TypeOK
    OneSyncAtATime
    RowIsTrue
PROPERTIES
    SuccessSurvives
    ArrivalsCovered
    StoreSpec
CHECK_DEADLOCK FALSE
