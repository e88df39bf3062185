SPECIFICATION EndsSpec
CONSTANTS
    Users = {u1, u2}
    Procs = {p1, p2}
    Tokens = {t1}
    NoUser = NoUser
    Exclusive = {"token", "join"}
    Failures = FALSE
    MaxRequests = 3
    PurgeRows <- MCPurgeRows
    Loads <- MCLoads
    KeepSettings <- MCKeepSettings
    Replicas = {1, 2}
    CLEANUP_BATCH_SIZE = 1
    MAX_BATCHES_PER_TABLE = 2
    JOB_ATTEMPTS = 2
    MaxDay = 3
    MaxFaults = 1
    MaxWorkspaces = 2
    Memberships <- MCMemberships
    FirstRows <- MCFirstRows
    Screens = {"none", "members", "tokens", "boards"}
    MaxRows = 3
    MaxShellWork = 3
    ScreenWork = 2
    MaxShellFaults = 1
CHECK_DEADLOCK FALSE
INVARIANTS
    NothingLeftBehind
    
PROPERTIES
    PurgesOnlyFinished
    EndsCome
