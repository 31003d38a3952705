CHECK_DEADLOCK FALSE
SPECIFICATION MCSpec
CONSTANTS
    Callers = {c1, c2}
    Values <- TwoCoins
    Amounts = {1, 3, 6}
    Dust = 2
    ChangeDust = 2
    BaseFee = 1
    InputFee = 1
    MaxPayments = 2
    MaxHeight = 3
    Coins <- ForeignCoins
    ImportLists <- Lists
    Undecodable = {bad}
    FeePerByte = 4
    k1 = k1
    k2 = k2
    bad = bad
INVARIANTS
    BalanceAddsUp
    RivalUnknown
    FrozenNotSpent
    SweepComplete
    RelayFeePaid
PROPERTIES
    ChangeToNewKey
