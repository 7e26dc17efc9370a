SPECIFICATION Spec
CONSTANTS
    Proc = {p1, p2}
    UserId = {u1}
    InitialUsers = {u1}
    Tenant = {}
    Username = {n1}
    Phone = {}
    Password = {pw1}
    ShortPassword = {}
    Token = {t1, t2, t3}
    Code = {}
    MaxImport = 1
    NULL = NULL
SYMMETRY Symmetry
INVARIANTS TypeOK SingleUse OneHeadPerFamily FreshCopy
PROPERTIES ImplementsCredentials LogoutIsFinal FrozenGrantOnlyWhenOvertaken
