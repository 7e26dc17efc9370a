------------------------------ MODULE Identity ------------------------------
(***************************************************************************)
(* The identity process: AuthService and UserService serve their requests  *)
(* concurrently on one users table, and the process may crash and restart. *)
(***************************************************************************)
EXTENDS UserService, AuthService

CONSTANT InitialUsers  \* the ids that have a row when the process starts

ASSUME InitialUsersAssumption == InitialUsers \subseteq UserId

vars == <<users, req, authVars>>

\* The table holds rows that satisfy its indexes; nobody is being served.
Init ==
    /\ users \in {u \in [UserId -> Row \cup {NULL}] :
                    \A i \in UserId : u[i] # NULL <=> i \in InitialUsers}
    /\ \A i \in InitialUsers : /\ users[i].passwordHash \notin ShortPassword
                               /\ ~Duplicate(i, users[i])
    /\ req = [p \in Proc |-> Idle]
    /\ AuthInit

\* The process dies: the goroutines are gone, Redis and the database are not.
Crash ==
    /\ req' = [p \in Proc |-> Idle]
    /\ UNCHANGED <<users, authVars>>

Next ==
    \/ \E p \in Proc : AuthServiceStep(p)
    \/ \E p \in Proc : UserServiceStep(p) /\ UNCHANGED authVars
    \/ EnvironmentStep
    \/ Crash

Spec == Init /\ [][Next]_vars

\* The Go scheduler runs every goroutine, and every call to Redis or the
\* database returns or times out: a request that has started goes on.
Continues(p) ==
    /\ req[p].pc # "idle"
    /\ AuthServiceStep(p) \/ (UserServiceStep(p) /\ UNCHANGED authVars)

FairSpec == Spec /\ \A p \in Proc : WF_vars(Continues(p))

-----------------------------------------------------------------------------
(* The credentials, as OneTimeCredential sees them. *)

\* The requests that hold a credential they have taken out of Redis.
Holding(p, c) ==
    /\ req[p].pc \in {"byphone", "getbyid", "pair"}
    /\ req[p].cred = c

Claimed(c) == \E p \in Proc : Holding(p, c)

InRedis(c) == c \in store \/ \E phone \in Phone : codes[phone] = c

Issued(c) == IF c \in Token THEN owner[c] # NULL ELSE c \in sent

PhaseOf(c) ==
    IF ~Issued(c) THEN "unissued"
    ELSE IF InRedis(c) THEN "live"
    ELSE IF Claimed(c) THEN "claimed"
    ELSE "dead"

Credentials == INSTANCE OneTimeCredential WITH
    phase <- [c \in Cred |-> PhaseOf(c)]

-----------------------------------------------------------------------------
(* Properties *)

TypeOK == UserRepoTypeOK /\ AuthTypeOK

\* RefreshToken consumes the presented token atomically and SmsLogin its code:
\* no interleaving, lost answer or crash turns one of them into two sessions.
SingleUse == Credentials!SingleUse

\* Rotation keeps one usable refresh token per login: a client that refreshes
\* twice at once, or a copy of an old token, never forks the session.
OneHeadPerFamily == Credentials!OneHeadPerFamily

\* Once Logout has returned success for a token its key is not in Redis again
\* and no request gets to exchange it that had not done so before.
LogoutIsFinal ==
    [][\A t \in loggedOut :
        /\ t \notin store'
        /\ Claimed(t)' => Claimed(t)]_vars

\* The request p makes its next step, and that step is not being overtaken.
Moves(p) == req'[p].pc # req[p].pc

\* A token is saved for a user whose stored row is frozen only by a request
\* that was overtaken: the row changed between its status check and its Save.
FrozenGrantOnlyWhenOvertaken ==
    [][\A t \in store' \ store :
        users[owner'[t]].status = "frozen" =>
            \E p \in Proc : /\ Moves(p) /\ req[p].pc = "pair"
                            /\ req[p].id = owner'[t] /\ req[p].stale]_vars

\* r and s differ at most in the columns the operation op is meant to change.
SameExcept(op, r, s) ==
    /\ r.tenantID = s.tenantID
    /\ op # "update" => r.username = s.username
    /\ op \notin {"update", "profile"} => r.phone = s.phone
    /\ op \notin {"reset", "change"} => r.passwordHash = s.passwordHash
    /\ op \notin {"freeze", "unfreeze"} => r.status = s.status

\* The copy of a row in a request that was not overtaken agrees with the table
\* in every column the request does not mean to change.
FreshCopy ==
    \A p \in Proc :
        req[p].pc \in {"update", "pair", "lastlogin"} /\ ~req[p].stale =>
            /\ users[req[p].id] # NULL
            /\ SameExcept(req[p].op, req[p].row, users[req[p].id])

\* A request writes back the whole row it read.  It changes a column that is
\* not its own (a frozen status, a new password) only if it was overtaken; and
\* nothing but the UPDATE of some request changes a row.
OnlyOvertakenWritesUndo ==
    [][\A i \in UserId : users[i] # NULL /\ users'[i] # users[i] =>
        \E p \in Proc :
            /\ Moves(p) /\ req[p].pc \in {"update", "lastlogin"} /\ req[p].id = i
            /\ req[p].stale \/ SameExcept(req[p].op, users'[i], users[i])]_vars

\* Create checks the user name in a statement of its own; concurrent creations
\* and renamings still never give two users of one tenant the same name, nor
\* two users the same phone, which SmsLogin takes to name one user.
NamesAndPhonesDistinct ==
    \A i, j \in Existing : i # j =>
        /\ users[i].tenantID # NULL /\ users[i].tenantID = users[j].tenantID
              => users[i].username # users[j].username
        /\ users[i].phone # NULL => users[i].phone # users[j].phone

\* Every credential taken out of Redis is exchanged or given up: no request
\* keeps one for ever.
ClaimsAreResolved == \A c \in Cred : Claimed(c) ~> ~Claimed(c)

\* The service implements the promise of OneTimeCredential.
ImplementsCredentials == Credentials!Spec

-----------------------------------------------------------------------------
(* What the product documents say and the code does not guarantee. *)

\* A frozen user stays frozen until somebody unfreezes the account.
FrozenUntilUnfrozen ==
    [][\A i \in Existing : users[i].status = "frozen" /\ users'[i].status = "active" =>
        \E p \in Proc : /\ Moves(p) /\ req[p].pc = "update"
                        /\ req[p].op = "unfreeze" /\ req[p].id = i]_vars

=============================================================================
