SPECIFICATION Spec
CONSTANTS
    Procs = {p1, p2}
    NoProc = NoProc
    MaxRequests = 3
    Users = {1, 2}
    Tasks = {1, 2}
    ToldTasks = {1}
    SCAN_BATCH_SIZE = 1
    JOB_ATTEMPTS = 2
    MaxCrashes = 1
    MaxClock = 1
    Assigned <- MCAssigned
    Kinds <- MCKinds
    Me = 1
    NoRead = NoRead
    MaxFaults = 1
CHECK_DEADLOCK FALSE
INVARIANTS
    NoticesSound
    BadgeSound
PROPERTIES
    BadgeCatchesUp
