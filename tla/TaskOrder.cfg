SPECIFICATION FairSpec
CONSTANTS
    c1 = c1
    c2 = c2
    c3 = c3
    p1 = p1
    p2 = p2
    Columns = {c1, c2, c3}
    Procs = {p1, p2}
    NoColumn = NoColumn
    NoProc = NoProc
    POSITION_GAP = 2
    MIN_GAP = 2
    Tasks <- MCTasks
    SeedColumn <- MCSeedColumn
    SeedPosition <- MCSeedPosition
    Named = {1, 3}
    MaxRequests = 2
INVARIANTS
    IndInv
    EventsAreTrue
PROPERTIES
    SiblingOrderKept
    LandsInSlot
    ColumnsAreLists
    RequestsEnd
