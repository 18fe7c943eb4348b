SPECIFICATION Spec
CONSTANTS
    Callers = {k1, k2}
    Conts = {c1, c2}
    Entries = {e1, e2, e3}
    None = none
    Kinds = {"table", "binlog"}
    AsyncModes = {TRUE, FALSE}
    Expiries = {"no", "time"}
    NTargets = 2
    MaxTodo = 1
    MaxLost = 1
INVARIANTS TypeOK CacheHoldsLive  WaitersOwned UpdatingOwned  RefsExact OneReply
 
SYMMETRY Symmetry
CHECK_DEADLOCK FALSE
