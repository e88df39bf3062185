SPECIFICATION TeamSpec
CONSTANTS
    Users = {1, 2, 3}
    Procs = {1, 2}
    Tokens = {t1}
    NoUser = NoUser
    Exclusive = {"deleteAccount"}
    Failures = TRUE
    MaxRequests = 3
    Tasks = {1, 2}
    Seeded = {1}
    PageSize = 1
    MaxWrites = 2
    MaxMoves = 2
    MaxDrops = 1
    MaxFailures = 1
CHECK_DEADLOCK FALSE
INVARIANTS
    WorkspaceHasOwner
    TrailNeverInvents
    SyncSound
