SPECIFICATION Spec
CONSTANTS
    Nodes = {n1, n2}
    Hdr <- MCHdr
    Prev <- MCPrev
    Chains <- MCChains
    CountError <- CountsTrue
    StartPoint = 1
    REWIND = 2
    ChunkSize = 2
    QDepth = 1
INVARIANTS
    StoredHeaderConnects
