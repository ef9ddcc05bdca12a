SPECIFICATION MCSpec
CONSTANTS
    a1 = a1
    a2 = a2
    MaxDisturbances = 2
    NoAccount = NoAccount
    Accounts = {a1, a2}
    Order <- TwoAccounts
    Requests = {r1, r2}
    MaxConcurrent = 1
    MaxRotate = 2
    OpenRetries = 2
    Models = {"m"}
    ErrThreshold = 1
    SoftCool = 1
    ErrCool = 1
    HardCool = 1
    ModelCool = 1
    CacheTTL = 1
CHECK_DEADLOCK FALSE
INVARIANTS TypeOK NoSlotLeak
PROPERTIES SlotsPromised EachRoundNewAccount EveryRequestAnswered
