SPECIFICATION LiveSpec
CONSTANTS
    Requests = {r1, r2}
    Procs = {p1, p2}
    Keys = {k1, k2}
    Ids = {i1, i2}
    None = None
    MaxDaily = 1
INVARIANTS
    LiveTypeOK
    OvershootBounded
    LateOrdersBounded
    RowsBehind
    NoDuplicates
    OrdersAccounted
PROPERTIES
    RowsAdvance
SYMMETRY MCSymmetry
