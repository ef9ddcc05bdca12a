SPECIFICATION Spec
CONSTANTS
    u1 = u1
    u2 = u2
    t1 = t1
    Convs = {c1, c2}
    IdConvs = {c2}
    Accounts = {a1}
    Nobody = Nobody
    UserUnits = {u1}
    ToolUnits = {t1}
    Increments <- OneByOne
    MaxUnits = 3
    Chats = 2
    MaxRotate = 2
    ReanchorEvery = 1
    FpMaxEntries = 2
    Window = 1
    Threshold = 2
    Duration = 1
    LossyTools = TRUE
INVARIANTS TypeOK InstructionsNotLost EntriesRemembered OneEntryPerChat
