SPECIFICATION Spec
CONSTANTS
    e1 = e1
    e2 = e2
    e3 = e3
    Threads = {t1, t2}
    PollThreads = {t1}
    Events = {e1, e2, e3}
    Cont <- ContOf
    Kinds <- KindsPeriodic
    MaxScheds = 3
    None = none
INVARIANTS
    TypeOK
    NoLostWakeup
    FlagsTruthful
PROPERTIES
    Delivers
