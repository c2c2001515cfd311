SPECIFICATION Spec
CONSTANTS
    Conns = {c1, c2}
    Operators = {}
    NoConn = NoConn
    Debounce = 2
    OutboxCap = 2
    MaxRows = 1
    MaxReports = 1
    MaxFaults = 0
INVARIANT AutoFreezeReachesAgent
CHECK_DEADLOCK FALSE
