SPECIFICATION Spec
CONSTANTS
    PQ_LIST_COUNT = 4
    UNIT = 2
    Events = {e1, e2}
    MaxDelay = 18
    MaxStall = 8
    MaxTime = 24
SYMMETRY Symmetry
INVARIANTS
    TypeOK
    NoDueLeft
    OversleepBounded
PROPERTIES NotEarly
CHECK_DEADLOCK FALSE
