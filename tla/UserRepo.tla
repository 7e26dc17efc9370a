------------------------------ MODULE UserRepo ------------------------------
(***************************************************************************)
(* The users table of the identity database, the statements its DAO issues *)
(* (repository/dao/user.go), and the requests in flight in the identity    *)
(* process.  Every service method reads a whole row, changes the copy and  *)
(* writes the copy back in a later statement; nothing locks the row in     *)
(* between.  A request is therefore a goroutine with a program counter and *)
(* the row it read.                                                        *)
(*                                                                         *)
(* Columns no property distinguishes (email, real name, role, timestamps,  *)
(* last login) are left out of a row.                                      *)
(***************************************************************************)
EXTENDS Naturals

CONSTANTS
    Proc,          \* goroutines serving identity requests
    UserId,        \* user ids uuid.New() may return
    Tenant,        \* tenant ids
    Username,      \* user names
    Phone,         \* phone numbers
    Password,      \* passwords; a bcrypt hash is named by its password
    ShortPassword, \* the passwords of fewer than eight bytes
    Token,         \* the jti of refresh tokens uuid.New() may return
    Code,          \* SMS codes, one element per code generated
    MaxImport,     \* longest user list of one ImportUsers request
    NULL           \* a SQL NULL, a nil pointer or an empty string

ASSUME ShortPasswordAssumption == ShortPassword \subseteq Password
ASSUME MaxImportAssumption == MaxImport \in Nat \ {0}
ASSUME CredentialAssumption == Token \cap Code = {}

VARIABLES
    users,  \* the table: a row, or NULL where the id is unused
    req     \* what each goroutine is doing

Row == [tenantID     : Tenant \cup {NULL},
        username     : Username,
        phone        : Phone \cup {NULL},
        passwordHash : Password,
        status       : {"active", "frozen"}]

ASSUME NullAssumption ==
    /\ NULL \notin UserId \cup Tenant \cup Username \cup Phone \cup Password
                          \cup Token \cup Code
    /\ NULL \notin {"active", "frozen"}
    /\ NULL \notin Row

\* Where a handler stands: the call it makes next.
Pc == {"idle",
       "insert",    \* UserService.Create: before the INSERT
       "import",    \* ImportUsers: before Create of the next item
       "update",    \* UserService: before the UPDATE
       "consume",   \* RefreshToken: before Consume
       "revoke",    \* Logout: before Revoke
       "getbyid",   \* RefreshToken: before GetByID
       "byphone",   \* SmsLogin: before GetByPhone
       "pair",      \* before Save in generateTokenPair
       "lastlogin"} \* Login, SmsLogin: before the UPDATE of last_login_at

Op == {"none", "create", "update", "profile", "freeze", "unfreeze", "reset",
       "change", "login", "sms", "refresh", "logout"}

Cred == Token \cup Code

Request == [pc    : Pc,
            op    : Op,
            id    : UserId \cup {NULL},  \* the user the row belongs to
            row   : Row \cup {NULL},     \* the goroutine's copy of the row
            stale : BOOLEAN,             \* history: the stored row has changed since it was read
            left  : 0..MaxImport,        \* items of an import still to do
            phone : Phone \cup {NULL},   \* phone an SMS code was verified for
            cred  : Cred \cup {NULL},    \* refresh token or SMS code presented
            token : Token \cup {NULL}]   \* refresh token saved, not yet returned

Idle == [pc |-> "idle", op |-> "none", id |-> NULL, row |-> NULL,
         stale |-> FALSE, left |-> 0, phone |-> NULL, cred |-> NULL,
         token |-> NULL]

UserRepoTypeOK ==
    /\ users \in [UserId -> Row \cup {NULL}]
    /\ req \in [Proc -> Request]

-----------------------------------------------------------------------------
(* domain/user.go *)

NewUser(tenantID, username, phone, passwordHash) ==
    [tenantID |-> tenantID, username |-> username, phone |-> phone,
     passwordHash |-> passwordHash, status |-> "active"]

IsActive(row) == row.status = "active"

-----------------------------------------------------------------------------
(* repository/dao/user.go *)

\* First() orders by the primary key, a random uuid: any match may be it.
FindByUsername(username) ==
    {i \in UserId : users[i] # NULL /\ users[i].username = username}

FindByPhone(phone) ==
    {i \in UserId : users[i] # NULL /\ users[i].phone = phone}

\* The unique indexes idx_tenant_username and idx_phone; a NULL equals nothing.
Duplicate(i, row) ==
    \E j \in UserId \ {i} :
        /\ users[j] # NULL
        /\ \/ /\ row.tenantID # NULL
              /\ users[j].tenantID = row.tenantID
              /\ users[j].username = row.username
           \/ /\ row.phone # NULL
              /\ users[j].phone = row.phone

\* Updates(struct) leaves out the columns whose field has the zero value.
Coalesce(new, old) == IF new = NULL THEN old ELSE new

Updates(old, new) ==
    [tenantID     |-> Coalesce(new.tenantID, old.tenantID),
     username     |-> Coalesce(new.username, old.username),
     phone        |-> Coalesce(new.phone, old.phone),
     passwordHash |-> Coalesce(new.passwordHash, old.passwordHash),
     status       |-> Coalesce(new.status, old.status)]

\* The requests other than p's that hold a copy of row i become stale when the
\* stored row really changes from old to new.
Overtaken(i, p, old, new) ==
    [q \in Proc |-> IF q # p /\ req[q].id = i /\ req[q].row # NULL /\ old # new
                    THEN [req[q] EXCEPT !.stale = TRUE]
                    ELSE req[q]]

\* UPDATE users SET ... WHERE id = ?, by goroutine p, which then goes to next.
UpdateRow(p, next) ==
    LET i   == req[p].id
        new == Updates(users[i], req[p].row)
    IN  /\ ~Duplicate(i, new)
        /\ users' = [users EXCEPT ![i] = new]
        /\ req' = [Overtaken(i, p, users[i], new) EXCEPT ![p] = next]

\* The handler returns: a result, an error, or nothing at all.
Return(p) == req' = [req EXCEPT ![p] = Idle]

=============================================================================
