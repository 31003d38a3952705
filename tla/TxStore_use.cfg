SPECIFICATION MCSpec
CONSTANTS
    p = p
    r = r
    q = q
    c = c
    e = e
    p0 = p0
    r0 = r0
    q0 = q0
    q1 = q1
    c0 = c0
    c1 = c1
    e0 = e0
    e1 = e1
    f = f
    g = g
    Foreign = Foreign
    Tx <- AllTx
    Op <- AllOp
    TxOf <- MCTxOf
    Ins <- MCIns
    Owner <- MCOwner
    Gap = 1
    SoleWallet = TRUE
    MempoolChains = FALSE
    Freezing = FALSE
    Steps = FALSE
    Crashes = FALSE
INVARIANTS
    NoConflict
    DeadLeavesNothing
    WalkIsDeath
    LiveBalance
    NoCoinLost
PROPERTIES
    ThawedByUser
VIEW View
