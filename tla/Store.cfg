SPECIFICATION Spec
CONSTANTS
    k1 = k1
    k2 = k2
    w1 = w1
    w2 = w2
    a1 = a1
    a2 = a2
    a3 = a3
    p1 = p1
    p2 = p2
    Files = {a1, a2, a3}
    Tasks = {k1, k2}
    NoTask = NoTask
    NoFile = NoFile
    Procs = {p1, p2}
    Workspaces = {w1, w2}
    WorkspaceOf <- MCWorkspaceOf
    WorkspaceQuota = 1
    InstanceQuota = 2
    BackupInterval = 1
    BackupKeep = 0
    MinOrphanGrace = 2
    BatchSize = 2
    MaxBatches = 1
    DumpFailures = TRUE
    LostAcks = FALSE
    MaxAge = 3
SYMMETRY StoreSymmetry
INVARIANTS
    StoreSound
    QuotaOvershootBounded
