SPECIFICATION Spec
CONSTANTS
    MaxChanges = 1
    Clients = {a, b}
    Watched = a
    Instances = {i}
    Limit = 2
    MaxBytes = 2
    Window = 2
    MaxEntries = 1
    Exports <- MCExports
    Hashes <- MCHashes
    POSITION_GAP = 64
    MIN_GAP = 32
    Cards = {1, 2, 3, 4}
    BoardCols = {"a", "b"}
    CardSeed <- MCSeed
    MaxDragWork = 2
    MaxDragFaults = 1
    IMPORT_CHUNK_SIZE = 1
    MaxLists = 2
    MaxCards = 2
    BoardCeiling = 1
    MaxSubmits = 2
CHECK_DEADLOCK FALSE
INVARIANTS
    StrangerLearnsNothing
    GuardsHold
    BudgetHolds
    
    ImportIsWhole
    DragSound
PROPERTIES
    RefusedIsServedAgain
    DropTakesTheGap
