----------------------------- MODULE UserService -----------------------------
(***************************************************************************)
(* The state-changing methods of service/user_service.go.  Each one is two *)
(* steps: the SELECT with the checks on the row it returned, and the       *)
(* INSERT or UPDATE.  A method that is rejected before its write, or whose *)
(* SELECT fails, changes nothing and is no step.                           *)
(***************************************************************************)
EXTENDS UserRepo

-----------------------------------------------------------------------------
(* Create, and ImportUsers, which calls Create for one item after another. *)

\* Create up to its INSERT: the password check, the SELECT by user name, and
\* the new row under a fresh id.
CreateCheck(p, left, tenantID, username, phone, password) ==
    /\ password \notin ShortPassword
    /\ FindByUsername(username) = {}
    /\ \E i \in UserId :
        /\ users[i] = NULL /\ \A q \in Proc : req[q].id # i
        /\ req' = [req EXCEPT ![p] =
              [Idle EXCEPT !.pc = "insert", !.op = "create", !.id = i, !.left = left,
                           !.row = NewUser(tenantID, username, phone, password)]]
    /\ UNCHANGED users

CreateItem(p, left) ==
    \E tenantID \in Tenant \cup {NULL}, username \in Username,
       phone \in Phone \cup {NULL}, password \in Password :
        CreateCheck(p, left, tenantID, username, phone, password)

\* A CreateUser request is the one-item case of an ImportUsers request.
Create(p) ==
    /\ req[p].pc = "idle"
    /\ \E left \in 0..(MaxImport - 1) : CreateItem(p, left)

\* Create of an item has returned: the request is over or the loop goes on.
NextItem(left) ==
    IF left = 0 THEN Idle
    ELSE [Idle EXCEPT !.pc = "import", !.op = "create", !.left = left]

\* Mutant of Insert: the table has lost its unique indexes.
InsertUnindexed(p) ==
    /\ req[p].pc = "insert"
    /\ \/ users' = [users EXCEPT ![req[p].id] = req[p].row]
       \/ UNCHANGED users
    /\ req' = [req EXCEPT ![p] = NextItem(req[p].left)]

\* The INSERT.  The unique indexes and a failing database reject it; the
\* method returns an error, the import loop counts it and goes on.
Insert(p) ==
    /\ req[p].pc = "insert"
    /\ \/ /\ ~Duplicate(req[p].id, req[p].row)
          /\ users' = [users EXCEPT ![req[p].id] = req[p].row]
       \/ UNCHANGED users
    /\ req' = [req EXCEPT ![p] = NextItem(req[p].left)]

\* The next item of an import: created like the first, or rejected by a check.
ImportUsers(p) ==
    /\ req[p].pc = "import"
    /\ \/ CreateItem(p, req[p].left - 1)
       \/ /\ req' = [req EXCEPT ![p] = NextItem(req[p].left - 1)]
          /\ UNCHANGED users

-----------------------------------------------------------------------------
(* The methods on an existing user.  Load is GetByID followed by the change *)
(* of the copy; Update is the UPDATE that ends every one of them.           *)

Load(p, op, i, row) ==
    /\ req[p].pc = "idle"
    /\ req' = [req EXCEPT ![p] = [Idle EXCEPT !.pc = "update", !.op = op,
                                              !.id = i, !.row = row]]
    /\ UNCHANGED users

Existing == {i \in UserId : users[i] # NULL}

\* nil and empty request fields leave the column as it is.
UpdateUser(p) ==
    \E i \in Existing, username \in Username \cup {NULL}, phone \in Phone \cup {NULL} :
        Load(p, "update", i,
             [users[i] EXCEPT !.username = Coalesce(username, @),
                              !.phone = Coalesce(phone, @)])

\* Mutant of UpdateProfile: the row is rebuilt with NewUser, hence active.
UpdateProfileRebuilds(p) ==
    \E i \in Existing, phone \in Phone \cup {NULL} :
        Load(p, "profile", i,
             NewUser(users[i].tenantID, users[i].username,
                     Coalesce(phone, users[i].phone), users[i].passwordHash))

UpdateProfile(p) ==
    \E i \in Existing, phone \in Phone \cup {NULL} :
        Load(p, "profile", i, [users[i] EXCEPT !.phone = Coalesce(phone, @)])

Freeze(p) ==
    \E i \in Existing :
        /\ users[i].status = "active"
        /\ Load(p, "freeze", i, [users[i] EXCEPT !.status = "frozen"])

Unfreeze(p) ==
    \E i \in Existing :
        /\ users[i].status = "frozen"
        /\ Load(p, "unfreeze", i, [users[i] EXCEPT !.status = "active"])

ResetPassword(p) ==
    \E i \in Existing, password \in Password \ ShortPassword :
        Load(p, "reset", i, [users[i] EXCEPT !.passwordHash = password])

\* The request carries the old password; bcrypt compares it with the copy.
ChangePassword(p) ==
    \E i \in Existing, old \in Password, password \in Password \ ShortPassword :
        /\ users[i].passwordHash = old
        /\ Load(p, "change", i, [users[i] EXCEPT !.passwordHash = password])

\* The UPDATE: applied, or not because of an index or a failing database.
Update(p) ==
    /\ req[p].pc = "update"
    /\ \/ UpdateRow(p, Idle)
       \/ Return(p) /\ UNCHANGED users

UserServiceStep(p) ==
    \/ Create(p) \/ Insert(p) \/ ImportUsers(p)
    \/ UpdateUser(p) \/ UpdateProfile(p)
    \/ Freeze(p) \/ Unfreeze(p)
    \/ ResetPassword(p) \/ ChangePassword(p)
    \/ Update(p)

=============================================================================
