SPECIFICATION Spec
CONSTANTS
    Threads = {t1, t2}
    Refreshers = {t1, t2}
    Servers = {s1}
    BaseServers = {}
    NoThread = nobody
    States = {"ACTIVE", "INACTIVE", "DELETED"}
    Disabling = {2}
    MaxEntries = 4
    MaxVersion = 2
    MaxUpdates = 2
    MaxCancels = 1
INVARIANTS TypeOK RefCountExact SettingRefExact CacheCoherent
CHECK_DEADLOCK FALSE
