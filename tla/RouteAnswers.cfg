SPECIFICATION FairSpec
CONSTANTS
    Callers = {k1, k2}
    Conts = {c1, c2}
    Entries = {e1, e2}
    None = none
    Kinds = {"dummy", "binlog"}
    AsyncModes = {TRUE}
    Expiries = {"no", "qa"}
    NTargets = 1
    MaxTodo = 0
    MaxLost = 0
PROPERTIES Answered
CHECK_DEADLOCK FALSE
