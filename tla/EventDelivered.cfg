SPECIFICATION FairSpec
CONSTANTS
    e1 = e1
    e2 = e2
    e3 = e3
    Threads = {t1, t2}
    PollThreads = {t1}
    Events = {e1, e2}
    Cont <- ContOf
    Kinds <- KindsOnce
    MaxScheds = 2
    None = none
PROPERTIES Delivered
