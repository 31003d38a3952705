SPECIFICATION FairSpec
CONSTANTS
    Kinds <- NoKinds
    QDepth = 1
    Users <- OneUser
    Ids = {1, 2, 3}
    MaxStream = 1
    Turn = 1
    Duplicates = FALSE
PROPERTIES
    FailoverHappens
CHECK_DEADLOCK FALSE
