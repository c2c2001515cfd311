CONSTANTS
    Orders = {o1}
    Trimmed = {}
    Qty = 1
    Conns = {c1}
    NoConn = NoConn
    TTL = 1
    Retention = 1
    Window = 1
    StoreFails = FALSE
    MaxNow = 1
    MaxSends = 1
    MaxCrashes = 0
SPECIFICATION Spec
INVARIANT RefusedWasNotPlaced
CHECK_DEADLOCK FALSE
