SPECIFICATION MCSpec
CONSTANTS
    Op = {o1, o2}
    Tx = {t1, t2}
    Height = {0, 1}
    Purpose = {external, internal}
    Index = {0, 1, 2}
    Script = {s1, s2}
    Password = {abc, other}
    MockPassword = abc
    Secret <- bytes
    Callers = {c1, c2}
    NoRow = NoRow
SYMMETRY Symmetry
PROPERTIES
    Implements
CHECK_DEADLOCK FALSE
