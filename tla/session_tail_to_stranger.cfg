SPECIFICATION Spec
CONSTANTS
    u1 = u1
    u2 = u2
    t1 = t1
    Convs = {c1, c2}
    IdConvs = {}
    Accounts = {a1, a2}
    Nobody = Nobody
    UserUnits = {u1}
    ToolUnits = {}
    Increments <- OneByOne
    MaxUnits = 3
    Chats = 3
    MaxRotate = 2
    ReanchorEvery = 1
    FpMaxEntries = 2
    Window = 1
    Threshold = 1
    Duration = 1
    LossyTools = FALSE
SYMMETRY Symmetry
INVARIANTS NothingLost
