SPECIFICATION Spec
CONSTANTS
    c1 = c1
    c2 = c2
    c3 = c3
    p1 = p1
    p2 = p2
    Columns = {c1, c2}
    Procs = {p1, p2}
    NoColumn = NoColumn
    NoProc = NoProc
    POSITION_GAP = 2
    MIN_GAP = 2
    Tasks <- MCFewTasks
    SeedColumn <- MCFewColumn
    SeedPosition <- MCFewPosition
    Named <- MCFewTasks
    MaxRequests = 2
PROPERTIES
    OnlyRemovedTasksVanish
