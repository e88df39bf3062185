SPECIFICATION DragSpec
CONSTANTS
    POSITION_GAP = 64
    MIN_GAP = 32
    Cards = {1, 2, 3, 4}
    BoardCols = {"a", "b"}
    CardSeed <- MCSeed
    MaxDragWork = 2
    MaxDragFaults = 1
CHECK_DEADLOCK FALSE
INVARIANTS
    RenumberedOrderShown
