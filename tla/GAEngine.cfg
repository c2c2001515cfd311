SPECIFICATION Spec
CONSTANTS
    Genes = {1, 2, 3, 4, 5}
    Nav <- MCNav
    FatalDrop = 5
    Ruin = 0
    Fingerprint <- MCFingerprint
    Weight <- MCWeight
    Lambda = 4
    PopSize = 3
    EliteNum = 2
    EliteDen = 3
    MaxGenerations = 4
    Patience = 2
    MinDelta = 10
    Workers = {w1, w2}
    MaxFaults = 1
INVARIANTS
    TypeOK
    ScoresMatchGenes
    ResultSound
PROPERTIES
    ImplementsSearch
CHECK_DEADLOCK FALSE
