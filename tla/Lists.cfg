SPECIFICATION Spec
CONSTANTS
    Procs = {p1, p2}
    NoProc = NoProc
    MaxRequests = 3
    POSITION_GAP = 2
    MIN_GAP = 2
    ColumnIds = {1, 2, 3, 4, 5}
    DefaultCount = 2
    ColumnNames = {a, b}
    StartColumns = {1, 2}
    CheckRows = {1, 2, 3, 4, 5}
    StartParent <- MCStartParent
    TaskRow = TaskRow
    NoParent = NoParent
    RowIds = {1, 2, 3, 4, 5}
    DEFAULT_PAGE_LIMIT = 2
    MAX_PAGE_LIMIT = 3
    AskedLimits = {0, 1, 9}
    MaxChanges = 2
    Users = {own, a, b}
    Owner = own
    InvitableRoles = {ADMIN, MEMBER}
    Workspaces = {w1, w2, w3, w4, w5}
    FirstWs = w1
    Slugs = {s1, s2, s3}
    NoSlug = NoSlug
    Names = {n1, n2}
    EnvCeilings = {0, 2}
    StoredValues = {Absent, Null, Malformed, 0, 1}
    Absent = Absent
    Null = Null
    Malformed = Malformed
    NoCeiling = NoCeiling
    Traffics <- MCTraffics
    StartLists <- MCStartLists
    SeedCount = 2
    ColumnLabels = {"n", "m"}
    MaxColumnWork = 2
    MaxColumnFaults = 1
SYMMETRY MCSymmetry
CHECK_DEADLOCK FALSE
INVARIANTS
    LayoutSound
    ChecklistsSound
    ShownColumnsSound
    WalkIsExact
    CeilingsHold
    
PROPERTIES
    RowsLandWhereAsked
