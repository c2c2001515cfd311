CONSTANTS
    Conns = {c1}
    Qty = 1
    TTL = 0
    MaxNow = 3
    MaxFrames = 2
    MaxFaults = 0
    MaxOrders = 1
SPECIFICATION Spec
INVARIANT ComparedIsSeeded
CHECK_DEADLOCK FALSE
