SPECIFICATION Spec
CONSTANTS
    Proc = {p1, p2}
    Phone = {ph1, ph2}
    Purpose = {login}
    Code = {c1, c2, c3}
    ClientRetries = TRUE
    NULL = NULL
SYMMETRY Symmetry
INVARIANTS TypeOK OneAttemptPerPhone OnlySentCodesStored AuditAgrees
 
