SPECIFICATION FairSpec
CONSTANTS
    Addrs = {a, b, o}
    Onions = {o}
    Trusted = a
    Stored0 = {b, o}
    Steady = {b}
    MaxOnlinePeers = 2
    Proxy = TRUE
INVARIANTS
    OneLeader
    Tracked
    DistinctPeers
    StaticKept
    FileIsKnown
PROPERTIES
    LeaderComesBack
CHECK_DEADLOCK FALSE
