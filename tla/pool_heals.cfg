SPECIFICATION HealSpec
CONSTANTS
    NoAccount = NoAccount
    Accounts = {a1, a2}
    Callers = {sched, c1}
    Logins = {}
    Models = {"m"}
    ErrThreshold = 1
    SoftCool = 1
    ErrCool = 1
    HardCool = 2
    ModelCool = 1
    CacheTTL = 1
    DiskFails = TRUE
    Scheduler = sched
    MaxFaults = 2
PROPERTIES PoolHeals
