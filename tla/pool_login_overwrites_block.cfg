SPECIFICATION Spec
CONSTANTS
    NoAccount = NoAccount
    Accounts = {a1, a2}
    Callers = {c1}
    Logins = {a1, a2}
    Models = {}
    ErrThreshold = 1
    SoftCool = 1
    ErrCool = 1
    HardCool = 2
    ModelCool = 1
    CacheTTL = 1
    DiskFails = FALSE
PROPERTIES BlockHeldUntilRelogin
