SPECIFICATION Spec
CONSTANTS
    Proc = {p1, p2}
    UserId = {u1, u2}
    InitialUsers = {u1}
    Tenant = {tn1}
    Username = {n1, n2}
    Phone = {ph1}
    Password = {pw1, short}
    ShortPassword = {short}
    Token = {}
    Code = {}
    MaxImport = 2
    NULL = NULL
SYMMETRY Symmetry
 
PROPERTIES OnlyOvertakenWritesUndo
