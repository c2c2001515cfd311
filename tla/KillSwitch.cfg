SPECIFICATION Spec
CONSTANTS
    Conns = {c1, c2}
    Operators = {o1}
    NoConn = NoConn
    Debounce = 2
    OutboxCap = 1
    MaxRows = 2
    MaxReports = 1
    MaxFaults = 1
SYMMETRY Symmetry
INVARIANTS
    TypeOK
    LiveConnRegistered
    HandshakeFrameOrder
    LatchedMeansHalted
    SuppressedOnlyWhileLatched
CHECK_DEADLOCK FALSE
