SPECIFICATION Spec
CONSTANTS
    Kinds <- Scripthash
    QDepth = 2
    Users <- NoUsers
    Ids = {1, 2}
    MaxStream = 1
    Turn = 3
    Duplicates = TRUE
INVARIANTS
    OwnAnswer
    SendCannotBlock
PROPERTIES
    InOrder
CHECK_DEADLOCK FALSE
