SPECIFICATION Spec
CONSTANTS
    CONG_HIST_ENTRIES = 2
    BIN_MODULUS = 65536
    MysqlSMs = {m1}
    RpcSMs = {r1}
    Updater = updater
    NoThread = nobody
    InitConfig <- Config2
    Configs <- AllConfigs
    RefreshStates = {"ACTIVE", "INACTIVE", "ACTIVE_CONGESTED", "REPLAY", "DELETING", "UPGRADE"}
    DetectMode = FALSE
    DetectFailThreshold = 1
    Epoch = 10
    FailUntil = 11
    MaxTime = 11
    MaxLag = 1
    MaxProbes = 0
    MaxFaults = 2
INVARIANTS
    TypeOK
    HistoryLockHeld
