SPECIFICATION FairSpec
CONSTANTS
    Nodes = {n1, n2}
    Users = {u1, u2}
    Turn = 3
INVARIANTS
    NoSendOnClosed
    EveryTip
PROPERTIES
    QueueNotHeldUp
    CallsReturn
    TipChangeStops
CHECK_DEADLOCK FALSE
