SPECIFICATION Spec
CONSTANTS
    Objects = {"j1", "j2"}
    Protocols = {"chat", "anthropic", "responses"}
    Scripts <- MCScripts
    MaxPiece = 3
    MaxTroubles = 1
    MaxBlocks = 2
INVARIANTS SameAsWhole NothingHeldBack OrderKept StreamWellFormed
PROPERTIES Promised
CHECK_DEADLOCK FALSE
