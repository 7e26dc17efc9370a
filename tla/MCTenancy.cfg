SPECIFICATION MCSpec
CONSTANTS
    Proc = {p1, p2}
    Text = {empty, x1}
    EMPTY = empty
    MaxTenants = 2
    Owner = {t1}
    LotName = {n1, n2}
    MaxLots = 2
    MaxSpaces = 1
    NULL = NULL
SYMMETRY Symmetry
INVARIANTS TypeOK  CapacityHolds 
PROPERTIES OnlyOvertakenUndo
CHECK_DEADLOCK FALSE
