SPECIFICATION FairSpec
CONSTANTS
    Requests = {q1}
    Scheduled = {n1}
    Releases = {r1}
    Tokens = {t1}
    MaxDuplicates = 0
    MaxCrashes = 1
    Interruptions = {}
    NoSync = NoSync
    NoToken = NoToken
PROPERTIES
    LockReleased
    DeletedIsPurged
    CommittedIsServed
CHECK_DEADLOCK FALSE
