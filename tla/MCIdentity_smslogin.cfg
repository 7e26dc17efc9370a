SPECIFICATION FairSpec
CONSTANTS
    Proc = {p1, p2}
    UserId = {u1}
    InitialUsers = {u1}
    Tenant = {}
    Username = {n1}
    Phone = {ph1}
    Password = {pw1}
    ShortPassword = {}
    Token = {t1}
    Code = {c1, c2}
    MaxImport = 1
    NULL = NULL
PROPERTIES  ClaimsAreResolved
