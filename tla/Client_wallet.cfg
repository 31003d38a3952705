SPECIFICATION Spec
CONSTANTS
    GAP_LIMIT = 1
    highestKeyIndex = 2
    Sqlite = FALSE
    Readers = {r1}
    MaxIndex = 2
    MaxChanges = 2
INVARIANTS
    TypeOK
    GapKept
    RowForNotification
    NothingMissed
    RescanFindsAll
