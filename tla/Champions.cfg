SPECIFICATION Spec
CONSTANTS
    c1 = c1
    c2 = c2
    c3 = c3
    t1 = t1
    t2 = t2
    NULL = NULL
    Challengers = {c1, c2, c3}
    Instances = {i1, i2}
    Accounts = {a1}
    Tuples = {t1, t2}
    TupleOf <- MCTupleOf
    TestMode = {c3}
    Wide = {c2}
    Requests = {r1, r2}
    MaxRows = 3
INVARIANTS
    TypeOK
    OneActiveChampion
    PromotedHasRow
    RetiredDeployedOnlyByRace
PROPERTIES
    RetiredIsFinal
SYMMETRY Symmetry
