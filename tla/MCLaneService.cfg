SPECIFICATION MCSpec
CONSTANTS
    Proc = {p1, p2}
    LaneId = {a1, a2}
    LaneName = {n1, n2}
    DeviceId = {d1, d2}
    Tenant = {t1}
    Lot = {l1}
    NULL = NULL
SYMMETRY Symmetry
INVARIANTS TypeOK CleanUpdateAgrees CleanUpdateExact
PROPERTIES DeletedStaysDeleted
