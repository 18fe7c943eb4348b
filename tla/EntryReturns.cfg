SPECIFICATION TimesFairSpec
CONSTANTS
    CONG_HIST_ENTRIES = 2
    BIN_MODULUS = 65536
    MysqlSMs = {m1, m2}
    RpcSMs = {}
    Updater = updater
    NoThread = nobody
    InitConfig <- Config2
    Configs <- OnlyConfig2
    RefreshStates = {"ACTIVE", "INACTIVE"}
    DetectMode = FALSE
    DetectFailThreshold = 1
    Epoch = 10
    FailUntil = 10
    MaxTime = 13
    MaxLag = 1
    MaxProbes = 0
    MaxFaults = 2
INVARIANTS
    DeadWhileInactive
PROPERTIES RaisedByReports HealthyServerReturns
