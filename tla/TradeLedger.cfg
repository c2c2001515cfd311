CONSTANTS
    Conns = {c1, c2}
    Qty = 2
    TTL = 0
    MaxNow = 3
    MaxFrames = 2
    MaxFaults = 1
    MaxOrders = 1
SPECIFICATION Spec
SYMMETRY Symmetry
INVARIANTS
    TypeOK
    OneRowPerFill
    FoldedOnce
    SkippedOnlyWhenLate
    ExecutedHasRow
    SeededOnce
    FreshOrderID
PROPERTY TerminalStays
CHECK_DEADLOCK FALSE
