SPECIFICATION FairSpec
CONSTANTS
    k1 = k1
    k2 = k2
    w1 = w1
    w2 = w2
    a1 = a1
    a2 = a2
    a3 = a3
    p1 = p1
    p2 = p2
    Files = {a1, a2}
    Tasks = {k1}
    NoTask = NoTask
    NoFile = NoFile
    Procs = {p1}
    Workspaces = {w1, w2}
    WorkspaceOf <- MCOneTask
    WorkspaceQuota = 0
    InstanceQuota = 0
    BackupInterval = 2
    BackupKeep = 1
    MinOrphanGrace = 1
    BatchSize = 2
    MaxBatches = 2
    DumpFailures = FALSE
    LostAcks = TRUE
    MaxAge = 4

    
PROPERTIES
    OrphansAreSwept
