SPECIFICATION MCSpec
CONSTANTS
    Kinds <- Headers
    QDepth = 1
    Users <- OneUser
    Ids = {1, 2}
    MaxStream = 1
    Turn = 1
    Duplicates = FALSE
PROPERTIES
    PeerWindsUp
    PeerPassedBack
    HeaderQueueEnds
CHECK_DEADLOCK FALSE
