SPECIFICATION Spec
CONSTANTS
    Proc = {p1, p2}
    DeviceId = {d1, d2}
    Tenant = {t1, t2}
    Name = {n1}
    Lot = {l1}
    Gate = {g1}
    MaxBatch = 2
    NULL = NULL
SYMMETRY Symmetry
INVARIANTS TypeOK RowsCoherent 
PROPERTIES TenantIsolation AllOrNothing OnlyOvertakenUndo DeletedBoundOnlyWhenOvertaken
