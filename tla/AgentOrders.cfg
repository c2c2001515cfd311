CONSTANTS
    Orders = {o1}
    Trimmed = {}
    Qty = 1
    Conns = {c1, c2}
    NoConn = NoConn
    TTL = 1
    Retention = 1
    Window = 1
    StoreFails = TRUE
    MaxNow = 3
    MaxSends = 2
    MaxCrashes = 1
SPECIFICATION Spec
SYMMETRY Symmetry
INVARIANTS TypeOK AtMostOnce FillsRetained
PROPERTIES FrozenNeverSubmits AcceptedNeverRefused
CHECK_DEADLOCK FALSE
