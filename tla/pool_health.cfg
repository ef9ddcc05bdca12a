SPECIFICATION Spec
CONSTANTS
    NoAccount = NoAccount
    Accounts = {a1}
    Callers = {c1, c2}
    Logins = {a1}
    Models = {}
    ErrThreshold = 2
    SoftCool = 1
    ErrCool = 1
    HardCool = 2
    ModelCool = 1
    CacheTTL = 1
    DiskFails = TRUE
SYMMETRY Symmetry
INVARIANTS TypeOK StickyIsDisabled RestartForgetsNothing
PROPERTIES BlockOnlyLiftedByHand
