SPECIFICATION Spec
CONSTANTS
    t1 = t1
    t2 = t2
    p = p
    NULL = NULL
    Tasks = {t1, t2}
    Tuples = {p}
    TupleOf <- MCTupleOf
    MinTrials = 2
    MinBars = 1
    MaxBars = 2
    MaxFaults = 2
    MaxStops = 2
INVARIANTS
    TypeOK
    TrialsDistinct
    SucceededIsBacked
    NoSilentOrphan
PROPERTIES
    EpochEnds
CHECK_DEADLOCK FALSE
