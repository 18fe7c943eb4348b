SPECIFICATION Spec
CONSTANTS
    CONG_HIST_ENTRIES = 3
    BIN_MODULUS = 3
    Window = 5
    Epoch = 20
    MaxTime = 36
    MaxLag = 3
    MaxReports = 4
INVARIANTS
    TypeOK
    RecentCounted
    StaleForgotten
    TotalMatchesBins
CHECK_DEADLOCK FALSE
