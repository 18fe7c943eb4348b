SPECIFICATION FairSpec
CONSTANTS
    CONG_HIST_ENTRIES = 2
    BIN_MODULUS = 65536
    MysqlSMs = {m1}
    RpcSMs = {}
    Updater = updater
    NoThread = nobody
    InitConfig <- Config1
    Configs <- AllConfigs
    RefreshStates = {"ACTIVE", "INACTIVE", "ACTIVE_CONGESTED", "REPLAY", "DELETING", "UPGRADE"}
    DetectMode = TRUE
    DetectFailThreshold = 1
    Epoch = 10
    FailUntil = 10
    MaxTime = 12
    MaxLag = 1
    MaxProbes = 2
    MaxFaults = 1

    
PROPERTIES HealthyServerReturns
