SPECIFICATION FairSpec
CONSTANTS
    Threads = {t1, t2}
    Refreshers = {t1}
    Servers = {s1}
    BaseServers = {s1}
    NoThread = nobody
    States = {"ACTIVE", "INACTIVE"}
    Disabling = {}
    MaxEntries = 3
    MaxVersion = 2
    MaxUpdates = 2
    MaxCancels = 0
INVARIANTS
    RefCountExact
    LastUpdateWins
    SettingsCurrent
PROPERTIES
    
    LookupAnswered
    RetiredFreed
CHECK_DEADLOCK FALSE
