SPECIFICATION Spec
CONSTANTS
    MinInterval = 1
    LoginWindow = 3
    MaxPerWindow = 2
    FailureThreshold = 2
    FailureCooldown = 2
    Handlers = {h1, h2}
    Ids = {i1, i2, i3}
    NoId = NoId
    SessionTTL = 2
INVARIANTS TypeOK RetryStormStops PauseHolds WindowCap
PROPERTIES ChannelReopens
