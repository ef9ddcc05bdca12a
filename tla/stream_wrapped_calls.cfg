SPECIFICATION Spec
CONSTANTS
    Objects = {"j1", "j2"}
    Protocols = {"chat"}
    Scripts <- MCScripts
    MaxPiece = 3
    MaxTroubles = 1
    MaxBlocks = 2
INVARIANTS EveryBlockIsACall
CHECK_DEADLOCK FALSE
