--------------------------- MODULE IdentityProofs ---------------------------
(***************************************************************************)
(* Theorems about the identity process, for any number of goroutines,      *)
(* users, tokens and codes.                                                *)
(***************************************************************************)
EXTENDS Identity, TLAPS

-----------------------------------------------------------------------------
(* The type invariant. *)

\* What the locals of a request hold at each point of its handler.
RequestOK(r) ==
    /\ r.pc \in {"insert", "update", "pair", "lastlogin"} =>
          r.id \in UserId /\ r.row \in Row
    /\ r.pc \in {"update", "pair", "lastlogin"} => users[r.id] \in Row
    /\ r.pc = "import" => r.left > 0
    /\ r.pc = "lastlogin" => r.token \in Token
    /\ r.pc \in {"consume", "revoke", "getbyid"} => r.cred \in Token
    /\ r.pc \in {"consume", "getbyid"} => r.op = "refresh"
    /\ r.pc = "byphone" => r.op = "sms" /\ r.cred \in Code /\ r.phone \in Phone
    /\ r.pc = "pair" =>
          \/ r.op = "login" /\ r.cred = NULL
          \/ r.op = "sms" /\ r.cred \in Code
          \/ r.op = "refresh" /\ r.cred \in Token

RequestsOK == \A p \in Proc : RequestOK(req[p])

\* Every signed token names a user that has a row, and so do those in reach.
OwnersOK ==
    /\ store \subseteq {t \in Token : owner[t] # NULL}
    /\ delivered \subseteq {t \in Token : owner[t] # NULL}
    /\ \A p \in Proc :
        /\ req[p].pc \in {"consume", "revoke", "getbyid"} => owner[req[p].cred] # NULL
        /\ req[p].pc = "lastlogin" => owner[req[p].token] # NULL
        /\ req[p].pc = "pair" /\ req[p].op = "refresh" => family[req[p].cred] # NULL
    /\ \A t \in Token : owner[t] # NULL <=> family[t] # NULL

TypeInv == TypeOK /\ RequestsOK /\ OwnersOK

\* The idle record is a request.
LEMMA IdleType == Idle \in Request /\ RequestOK(Idle)
<1>1. Idle \in Request
  BY MaxImportAssumption DEF Idle, Request, Pc, Op
<1>2. RequestOK(Idle)
  BY DEF Idle, RequestOK
<1>3. QED
  BY <1>1, <1>2

\* Updates merges two rows into a row.
LEMMA UpdatesType ==
  ASSUME NEW r \in Row, NEW s \in Row
  PROVE  Updates(r, s) \in Row
  BY NullAssumption DEF Updates, Coalesce, Row

\* A step that gives one request new locals and leaves the table alone.
LEMMA RequestStep ==
  ASSUME TypeInv, NEW p \in Proc, NEW r \in Request, RequestOK(r),
         req' = [req EXCEPT ![p] = r], users' = users
  PROVE  UserRepoTypeOK' /\ RequestsOK'
<1>1. UserRepoTypeOK'
  BY DEF TypeInv, TypeOK, UserRepoTypeOK
<1>2. ASSUME NEW q \in Proc PROVE RequestOK(req[q])'
  <2>1. CASE q = p
    BY <2>1 DEF TypeInv, TypeOK, UserRepoTypeOK, RequestOK
  <2>2. CASE q # p
    BY <2>2 DEF TypeInv, TypeOK, UserRepoTypeOK, RequestsOK, RequestOK
  <2>3. QED
    BY <2>1, <2>2
<1>3. QED
  BY <1>1, <1>2 DEF RequestsOK

\* The UPDATE of a whole row keeps rows rows and makes other requests stale.
LEMMA UpdateRowStep ==
  ASSUME TypeInv, NEW p \in Proc, req[p].pc \in {"update", "lastlogin"},
         UpdateRow(p, Idle)
  PROVE  UserRepoTypeOK' /\ RequestsOK'
<1> DEFINE i == req[p].id
           new == Updates(users[i], req[p].row)
<1>1. i \in UserId /\ req[p].row \in Row /\ users[i] \in Row
  BY DEF TypeInv, RequestsOK, RequestOK
<1>2. new \in Row
  BY <1>1, UpdatesType
<1>3. users' \in [UserId -> Row \cup {NULL}]
      /\ \A j \in UserId : users[j] \in Row => users'[j] \in Row
  BY <1>1, <1>2 DEF UpdateRow, TypeInv, TypeOK, UserRepoTypeOK
<1>4. ASSUME NEW q \in Proc
      PROVE  /\ req'[q] \in Request
             /\ \/ req'[q] = Idle
                \/ req'[q] = req[q]
                \/ req'[q] = [req[q] EXCEPT !.stale = TRUE]
  BY IdleType DEF UpdateRow, Overtaken, TypeInv, TypeOK, UserRepoTypeOK, Request
<1>5. UserRepoTypeOK'
  <2>1. DOMAIN req' = Proc /\ req' = [q \in Proc |-> req'[q]]
    BY DEF UpdateRow, Overtaken
  <2>2. QED
    BY <1>3, <1>4, <2>1 DEF UserRepoTypeOK
<1>6. ASSUME NEW q \in Proc PROVE RequestOK(req[q])'
  <2>1. CASE req'[q] = Idle
    BY <2>1 DEF RequestOK, Idle
  <2>2. CASE req'[q] = req[q] \/ req'[q] = [req[q] EXCEPT !.stale = TRUE]
    BY <1>3, <2>2 DEF TypeInv, TypeOK, UserRepoTypeOK, RequestsOK, RequestOK, Request
  <2>3. QED
    BY <1>4, <2>1, <2>2
<1>7. QED
  BY <1>5, <1>6 DEF RequestsOK

\* Whether the locals r may follow those of q as far as tokens go.
TokensOK(q, r) ==
    \/ r.pc \notin {"consume", "revoke", "getbyid", "pair", "lastlogin"}
    \/ r.pc = "pair" /\ r.op # "refresh"
    \/ r.pc \in {"consume", "revoke"} /\ r.cred \in delivered
    \/ q.pc \in {"consume", "getbyid"} /\ r.cred = q.cred /\ r.pc # "lastlogin"

\* A step of one request that leaves the table alone and adds no token.
LEMMA LocalStep ==
  ASSUME TypeInv, NEW p \in Proc, NEW r \in Request, RequestOK(r), TokensOK(req[p], r),
         req' = [req EXCEPT ![p] = r], users' = users,
         store' \subseteq store, UNCHANGED <<owner, delivered, family>>
  PROVE  UserRepoTypeOK' /\ RequestsOK' /\ OwnersOK'
<1>1. UserRepoTypeOK' /\ RequestsOK'
  BY RequestStep
<1>2. ASSUME NEW q \in Proc
      PROVE  /\ req'[q].pc \in {"consume", "revoke", "getbyid"} => owner[req'[q].cred] # NULL
             /\ req'[q].pc = "lastlogin" => owner[req'[q].token] # NULL
             /\ req'[q].pc = "pair" /\ req'[q].op = "refresh" => family[req'[q].cred] # NULL
  <2>1. CASE q = p
    <3>1. req'[q] = r
      BY <2>1 DEF TypeInv, TypeOK, UserRepoTypeOK
    <3>2. CASE r.pc \in {"consume", "revoke"} /\ r.cred \in delivered
      BY <3>1, <3>2 DEF TypeInv, OwnersOK
    <3>3. CASE req[p].pc \in {"consume", "getbyid"} /\ r.cred = req[p].cred
               /\ r.pc # "lastlogin"
      BY <3>1, <3>3 DEF TypeInv, OwnersOK, RequestsOK, RequestOK
    <3>4. QED
      BY <3>1, <3>2, <3>3 DEF TokensOK
  <2>2. CASE q # p
    BY <2>2 DEF TypeInv, TypeOK, UserRepoTypeOK, OwnersOK
  <2>3. QED
    BY <2>1, <2>2
<1>3. OwnersOK'
  BY <1>2 DEF TypeInv, OwnersOK
<1>4. QED
  BY <1>1, <1>3

\* A handler may always return.
LEMMA ReturnStep ==
  ASSUME TypeInv, NEW p \in Proc, Return(p), users' = users,
         store' \subseteq store, UNCHANGED <<owner, delivered, family>>
  PROVE  UserRepoTypeOK' /\ RequestsOK' /\ OwnersOK'
  BY IdleType, LocalStep DEF Return, Idle, TokensOK

\* The steps of UserService preserve the type invariant.
LEMMA UserServiceTypes ==
  ASSUME TypeInv, NEW p \in Proc, UserServiceStep(p), UNCHANGED authVars
  PROVE  TypeInv'
<1>1. AuthTypeOK' /\ UNCHANGED <<store, owner, delivered, family>>
  BY DEF TypeInv, TypeOK, AuthTypeOK, authVars
<1> SUFFICES UserRepoTypeOK' /\ RequestsOK' /\ OwnersOK'
  BY <1>1 DEF TypeInv, TypeOK
<1>2. ASSUME NEW left \in 0..(MaxImport - 1), CreateItem(p, left)
      PROVE  UserRepoTypeOK' /\ RequestsOK' /\ OwnersOK'
  <2>1. PICK tenantID \in Tenant \cup {NULL}, username \in Username,
             phone \in Phone \cup {NULL}, password \in Password :
               CreateCheck(p, left, tenantID, username, phone, password)
    BY <1>2 DEF CreateItem
  <2> DEFINE nu == NewUser(tenantID, username, phone, password)
             r(i) == [Idle EXCEPT !.pc = "insert", !.op = "create", !.id = i,
                                  !.left = left, !.row = nu]
  <2>2. PICK i \in UserId : req' = [req EXCEPT ![p] = r(i)]
    BY <2>1 DEF CreateCheck
  <2>3. nu \in Row /\ left \in 0..MaxImport
    BY MaxImportAssumption DEF NewUser, Row
  <2>4. r(i) \in Request
    BY <2>3 DEF Idle, Request, Pc, Op
  <2>5. r(i).pc = "insert" /\ r(i).id \in UserId /\ r(i).row \in Row
    BY <2>3 DEF Idle
  <2>6. RequestOK(r(i)) /\ TokensOK(req[p], r(i))
    BY <2>4, <2>5 DEF RequestOK, TokensOK
  <2>7. users' = users
    BY <2>1 DEF CreateCheck
  <2>8. QED
    BY <1>1, <2>2, <2>4, <2>6, <2>7, LocalStep
<1>3. CASE Create(p)
  BY <1>2, <1>3 DEF Create
<1>4. ASSUME NEW left \in 0..MaxImport
      PROVE  /\ NextItem(left) \in Request
             /\ RequestOK(NextItem(left)) /\ TokensOK(req[p], NextItem(left))
  <2>1. CASE left = 0
    BY <2>1, IdleType DEF NextItem, Idle, TokensOK
  <2>2. CASE left # 0
    <3> DEFINE r == [Idle EXCEPT !.pc = "import", !.op = "create", !.left = left]
    <3>1. NextItem(left) = r
      BY <2>2 DEF NextItem
    <3>2. r \in Request
      BY IdleType DEF Request, Pc, Op
    <3>3. r.pc = "import" /\ r.left > 0
      BY <2>2, MaxImportAssumption DEF Idle
    <3>4. QED
      BY <3>1, <3>2, <3>3 DEF RequestOK, TokensOK
  <2>3. QED
    BY <2>1, <2>2
<1>5. CASE Insert(p)
  <2>1. req[p].left \in 0..MaxImport /\ req[p].id \in UserId /\ req[p].row \in Row
    BY <1>5 DEF Insert, TypeInv, TypeOK, UserRepoTypeOK, Request, RequestsOK, RequestOK
  <2>2. CASE UNCHANGED users
    BY <1>1, <1>4, <1>5, <2>1, <2>2, LocalStep DEF Insert
  <2>3. CASE users' = [users EXCEPT ![req[p].id] = req[p].row]
    <3>1. users' \in [UserId -> Row \cup {NULL}]
          /\ \A j \in UserId : users[j] \in Row => users'[j] \in Row
      BY <2>1, <2>3 DEF TypeInv, TypeOK, UserRepoTypeOK
    <3>2. req' = [req EXCEPT ![p] = NextItem(req[p].left)]
      BY <1>5 DEF Insert
    <3>3. UserRepoTypeOK'
      BY <1>4, <2>1, <3>1, <3>2 DEF TypeInv, TypeOK, UserRepoTypeOK
    <3>4. NextItem(req[p].left).pc \in {"idle", "import"}
      BY DEF NextItem, Idle
    <3>5. RequestsOK'
      BY <1>4, <2>1, <3>1, <3>2, <3>4
      DEF TypeInv, TypeOK, UserRepoTypeOK, RequestsOK, RequestOK, Request
    <3>6. OwnersOK'
      BY <1>1, <3>2, <3>4 DEF TypeInv, TypeOK, UserRepoTypeOK, OwnersOK
    <3>7. QED
      BY <3>3, <3>5, <3>6
  <2>4. QED
    BY <1>5, <2>2, <2>3 DEF Insert
<1>6. CASE ImportUsers(p)
  <2>1. req[p].left - 1 \in 0..(MaxImport - 1)
    BY <1>6, MaxImportAssumption
    DEF ImportUsers, TypeInv, TypeOK, UserRepoTypeOK, Request, RequestsOK, RequestOK
  <2>2. CASE CreateItem(p, req[p].left - 1)
    BY <1>2, <2>1, <2>2
  <2>3. CASE req' = [req EXCEPT ![p] = NextItem(req[p].left - 1)] /\ UNCHANGED users
    <3>1. req[p].left - 1 \in 0..MaxImport
      BY <2>1, MaxImportAssumption
    <3>2. QED
      BY <1>1, <1>4, <2>3, <3>1, LocalStep
  <2>4. QED
    BY <1>6, <2>2, <2>3 DEF ImportUsers
<1>7. ASSUME NEW op \in Op, NEW i \in Existing, NEW row \in Row, Load(p, op, i, row)
      PROVE  UserRepoTypeOK' /\ RequestsOK' /\ OwnersOK'
  <2> DEFINE r == [Idle EXCEPT !.pc = "update", !.op = op, !.id = i, !.row = row]
  <2>1. i \in UserId /\ users[i] \in Row
    BY DEF Existing, TypeInv, TypeOK, UserRepoTypeOK
  <2>2. r \in Request
    BY <2>1, IdleType DEF Request, Pc
  <2>3. r.pc = "update" /\ r.id = i /\ r.row \in Row
    BY DEF Idle
  <2>4. RequestOK(r) /\ TokensOK(req[p], r)
    BY <2>1, <2>2, <2>3 DEF RequestOK, TokensOK
  <2>5. req' = [req EXCEPT ![p] = r] /\ users' = users
    BY <1>7 DEF Load
  <2>6. QED
    BY <1>1, <2>2, <2>4, <2>5, LocalStep
<1>8. ASSUME NEW i \in Existing PROVE users[i] \in Row
  BY DEF Existing, TypeInv, TypeOK, UserRepoTypeOK
<1>9. CASE UpdateUser(p)
  BY <1>7, <1>8, <1>9 DEF UpdateUser, Coalesce, Row, Op
<1>10. CASE UpdateProfile(p)
  BY <1>7, <1>8, <1>10 DEF UpdateProfile, Coalesce, Row, Op
<1>11. CASE Freeze(p)
  BY <1>7, <1>8, <1>11 DEF Freeze, Row, Op
<1>12. CASE Unfreeze(p)
  BY <1>7, <1>8, <1>12 DEF Unfreeze, Row, Op
<1>13. CASE ResetPassword(p)
  BY <1>7, <1>8, <1>13 DEF ResetPassword, Row, Op
<1>14. CASE ChangePassword(p)
  BY <1>7, <1>8, <1>14 DEF ChangePassword, Row, Op
<1>15. CASE Update(p)
  <2>1. CASE UpdateRow(p, Idle)
    <3>1. UserRepoTypeOK' /\ RequestsOK'
      BY <1>15, <2>1, UpdateRowStep DEF Update
    <3>2. OwnersOK'
      BY <1>1, <2>1 DEF UpdateRow, Overtaken, Idle, OwnersOK, TypeInv, TypeOK,
                        UserRepoTypeOK, Request
    <3>3. QED
      BY <3>1, <3>2
  <2>2. CASE Return(p) /\ UNCHANGED users
    BY <1>1, <2>2, ReturnStep
  <2>3. QED
    BY <1>15, <2>1, <2>2 DEF Update
<1>16. QED
  BY <1>3, <1>5, <1>6, <1>9, <1>10, <1>11, <1>12, <1>13, <1>14, <1>15
  DEF UserServiceStep

\* The steps of AuthService preserve the type invariant.
LEMMA AuthServiceTypes ==
  ASSUME TypeInv, NEW p \in Proc, AuthServiceStep(p)
  PROVE  TypeInv'
<1> USE DEF TypeInv, TypeOK
<1>1. ASSUME NEW op \in {"login", "sms", "refresh"}, NEW i \in UserId, users[i] # NULL,
             NEW cred \in Cred \cup {NULL}, ToPair(p, op, i, cred), UNCHANGED users,
             UNCHANGED authVars,
             \/ op = "login" /\ cred = NULL
             \/ op = "sms" /\ cred \in Code
             \/ op = "refresh" /\ cred \in Token /\ req[p].pc = "getbyid" /\ cred = req[p].cred
      PROVE  TypeInv'
  <2> DEFINE r == [Idle EXCEPT !.pc = "pair", !.op = op, !.id = i, !.row = users[i],
                               !.cred = cred]
  <2>1. users[i] \in Row
    BY <1>1 DEF UserRepoTypeOK
  <2>2. r \in Request
    BY <2>1, IdleType DEF Request, Pc, Op
  <2>3. r.pc = "pair" /\ r.op = op /\ r.id = i /\ r.row = users[i] /\ r.cred = cred
    BY DEF Idle
  <2>4. RequestOK(r) /\ TokensOK(req[p], r)
    BY <1>1, <2>1, <2>3 DEF RequestOK, TokensOK
  <2>5. req' = [req EXCEPT ![p] = r]
    BY <1>1 DEF ToPair
  <2>6. UserRepoTypeOK' /\ RequestsOK' /\ OwnersOK'
    BY <1>1, <2>2, <2>4, <2>5, LocalStep DEF authVars
  <2>7. QED
    BY <1>1, <2>6 DEF AuthTypeOK, authVars
<1>2. CASE Login(p)
  BY <1>1, <1>2 DEF Login, FindByUsername
<1>3. CASE SmsLogin(p)
  <2>1. PICK phone \in Phone :
          /\ codes[phone] # NULL
          /\ codes' = [codes EXCEPT ![phone] = NULL]
          /\ \/ req' = [req EXCEPT ![p] = [Idle EXCEPT !.pc = "byphone", !.op = "sms",
                                                       !.phone = phone,
                                                       !.cred = codes[phone]]]
             \/ UNCHANGED req
    BY <1>3 DEF SmsLogin
  <2> DEFINE r == [Idle EXCEPT !.pc = "byphone", !.op = "sms", !.phone = phone,
                               !.cred = codes[phone]]
  <2>2. codes[phone] \in Code /\ AuthTypeOK'
    BY <1>3, <2>1 DEF SmsLogin, AuthTypeOK
  <2>3. r \in Request
    BY <2>2, IdleType DEF Request, Pc, Op, Cred
  <2>4. r.pc = "byphone" /\ r.op = "sms" /\ r.phone = phone /\ r.cred = codes[phone]
    BY DEF Idle
  <2>5. RequestOK(r) /\ TokensOK(req[p], r)
    BY <2>2, <2>4 DEF RequestOK, TokensOK
  <2>6. users' = users /\ UNCHANGED <<store, owner, delivered, family>>
    BY <1>3 DEF SmsLogin
  <2>7. CASE req' = [req EXCEPT ![p] = r]
    BY <2>2, <2>3, <2>5, <2>6, <2>7, LocalStep
  <2>8. CASE UNCHANGED req
    BY <2>2, <2>6, <2>8 DEF UserRepoTypeOK, RequestsOK, RequestOK, OwnersOK
  <2>9. QED
    BY <2>1, <2>7, <2>8
<1>4. CASE GetByPhone(p)
  <2>1. req[p].cred \in Code /\ UNCHANGED users /\ UNCHANGED authVars
    BY <1>4 DEF GetByPhone, RequestsOK, RequestOK
  <2>2. CASE Return(p)
    BY <2>1, <2>2, ReturnStep DEF authVars, AuthTypeOK
  <2>3. ASSUME NEW i \in FindByPhone(req[p].phone), ToPair(p, "sms", i, req[p].cred)
        PROVE  TypeInv'
    BY <1>1, <2>1, <2>3 DEF FindByPhone, Cred
  <2>4. QED
    BY <1>4, <2>2, <2>3 DEF GetByPhone
<1>5. CASE Save(p)
  <2>1. PICK t \in Fresh :
          /\ Issue(p, t)
          /\ \/ delivered' = delivered \cup {t} /\ Return(p)
             \/ /\ req[p].op # "refresh"
                /\ req' = [req EXCEPT ![p].pc = "lastlogin", ![p].token = t]
                /\ UNCHANGED delivered
             \/ Return(p) /\ UNCHANGED delivered
    BY <1>5 DEF Save
  <2>2. /\ t \in Token /\ owner[t] = NULL /\ family[t] = NULL
        /\ req[p] \in Request /\ req[p].id \in UserId /\ req[p].id # NULL
        /\ req[p].row \in Row /\ users[req[p].id] \in Row
    BY <1>5, NullAssumption
    DEF Save, Fresh, OwnersOK, RequestsOK, RequestOK, UserRepoTypeOK
  <2>3. req[p].op = "refresh" => family[req[p].cred] \in Token
    BY <1>5 DEF Save, OwnersOK, AuthTypeOK, RequestsOK, RequestOK, UserRepoTypeOK
  <2>4. UNCHANGED <<users, codes, sent, loggedOut>>
    BY <1>5 DEF Save
  <2>5. req[p].cred \in Cred \cup {NULL} /\ t # NULL
    BY <2>2, NullAssumption DEF Request
  <2>6. AuthTypeOK'
    BY <2>1, <2>2, <2>3, <2>4, <2>5 DEF Issue, AuthTypeOK
  <2> DEFINE r == [[req[p] EXCEPT !.pc = "lastlogin"] EXCEPT !.token = t]
  <2>7. r \in Request /\ r.pc = "lastlogin" /\ r.token = t /\ r.id = req[p].id
        /\ r.row = req[p].row
    BY <2>2 DEF Request, Pc
  <2>8. RequestOK(r)
    BY <2>2, <2>7 DEF RequestOK
  <2>9. PICK s \in Request : /\ req' = [req EXCEPT ![p] = s] /\ RequestOK(s)
                             /\ \/ s.pc = "idle"
                                \/ s.pc = "lastlogin" /\ s.token = t
    <3>1. CASE Return(p)
      BY <3>1, IdleType DEF Return, Idle
    <3>2. CASE req' = [req EXCEPT ![p].pc = "lastlogin", ![p].token = t]
      <4>1. req' = [req EXCEPT ![p] = r]
        BY <3>2 DEF UserRepoTypeOK
      <4>2. QED
        BY <4>1, <2>7, <2>8
    <3>3. QED
      BY <2>1, <3>1, <3>2
  <2>10. UserRepoTypeOK' /\ RequestsOK'
    BY <2>4, <2>9, RequestStep
  <2>11. OwnersOK'
    <3>1. owner' = [owner EXCEPT ![t] = req[p].id] /\ store' = store \cup {t}
          /\ delivered' \in {delivered, delivered \cup {t}}
          /\ \A u \in Token : u # t => family'[u] = family[u] /\ owner'[u] = owner[u]
      BY <2>1, <2>2 DEF Issue, AuthTypeOK
    <3>2. family'[t] # NULL /\ owner'[t] # NULL
      BY <2>1, <2>2, <2>3, <2>5, NullAssumption DEF Issue, AuthTypeOK
    <3>3. \A u \in Token : /\ owner[u] # NULL => owner'[u] # NULL
                           /\ family[u] # NULL => family'[u] # NULL
      BY <3>1, <3>2
    <3>4. store' \subseteq {u \in Token : owner'[u] # NULL}
          /\ delivered' \subseteq {u \in Token : owner'[u] # NULL}
          /\ \A u \in Token : owner'[u] # NULL <=> family'[u] # NULL
      BY <2>2, <3>1, <3>2, <3>3 DEF OwnersOK, AuthTypeOK
    <3>5. ASSUME NEW q \in Proc
          PROVE  /\ req'[q].pc \in {"consume", "revoke", "getbyid"} => owner'[req'[q].cred] # NULL
                 /\ req'[q].pc = "lastlogin" => owner'[req'[q].token] # NULL
                 /\ req'[q].pc = "pair" /\ req'[q].op = "refresh" => family'[req'[q].cred] # NULL
      <4>1. CASE q = p
        BY <4>1, <2>9, <3>2 DEF UserRepoTypeOK
      <4>2. CASE q # p
        BY <4>2, <2>9, <3>3 DEF UserRepoTypeOK, OwnersOK, RequestsOK, RequestOK
      <4>3. QED
        BY <4>1, <4>2
    <3>6. QED
      BY <3>4, <3>5 DEF OwnersOK
  <2>12. QED
    BY <2>6, <2>10, <2>11
<1>6. CASE SaveFails(p)
  BY <1>6, ReturnStep DEF SaveFails, authVars, AuthTypeOK
<1>7. CASE LastLogin(p)
  <2>1. req[p].token \in Token /\ UNCHANGED <<store, owner, codes, sent, origin, family, loggedOut>>
        /\ delivered' = delivered \cup {req[p].token}
    BY <1>7 DEF LastLogin, RequestsOK, RequestOK
  <2>2. AuthTypeOK'
    BY <2>1 DEF AuthTypeOK
  <2>3. UserRepoTypeOK' /\ RequestsOK'
    BY <1>7, UpdateRowStep, RequestStep, IdleType DEF LastLogin, Return
  <2>4. OwnersOK'
    <3>1. ASSUME NEW q \in Proc
          PROVE  \/ req'[q].pc = "idle"
                 \/ /\ req'[q].pc = req[q].pc /\ req'[q].op = req[q].op
                    /\ req'[q].cred = req[q].cred /\ req'[q].token = req[q].token
      <4>1. \/ req'[q] \in {Idle, req[q]}
            \/ req'[q] = [req[q] EXCEPT !.stale = TRUE]
        BY <1>7 DEF LastLogin, UpdateRow, Overtaken, Return, UserRepoTypeOK
      <4>2. QED
        BY <4>1 DEF Idle, UserRepoTypeOK, Request
    <3>2. owner[req[p].token] # NULL
      BY <1>7 DEF LastLogin, OwnersOK
    <3>3. QED
      BY <2>1, <3>1, <3>2 DEF OwnersOK
  <2>5. QED
    BY <2>2, <2>3, <2>4
<1>8. ASSUME NEW op \in {"refresh", "logout"}, NEW pc \in {"consume", "revoke"},
             pc = "consume" => op = "refresh", Presented(p, op, pc)
      PROVE  TypeInv'
  <2>1. PICK t \in delivered :
          req' = [req EXCEPT ![p] = [Idle EXCEPT !.pc = pc, !.op = op, !.cred = t]]
    BY <1>8 DEF Presented
  <2> DEFINE r == [Idle EXCEPT !.pc = pc, !.op = op, !.cred = t]
  <2>2. t \in Token /\ UNCHANGED <<users, authVars>>
    BY <1>8 DEF AuthTypeOK, Presented
  <2>3. r \in Request
    BY <2>2, IdleType DEF Request, Pc, Op, Cred
  <2>4. r.pc = pc /\ r.op = op /\ r.cred = t
    BY DEF Idle
  <2>5. RequestOK(r) /\ TokensOK(req[p], r)
    BY <1>8, <2>2, <2>4 DEF RequestOK, TokensOK
  <2>6. UserRepoTypeOK' /\ RequestsOK' /\ OwnersOK'
    BY <2>1, <2>2, <2>3, <2>5, LocalStep DEF authVars
  <2>7. QED
    BY <2>2, <2>6 DEF authVars, AuthTypeOK
<1>9. CASE RefreshToken(p)
  BY <1>8, <1>9 DEF RefreshToken
<1>10. CASE Logout(p)
  BY <1>8, <1>10 DEF Logout
<1>13. CASE GetByID(p)
  <2>1. CASE Return(p)
    BY <1>13, <2>1, ReturnStep DEF GetByID, authVars, AuthTypeOK
  <2>2. CASE users[owner[req[p].cred]] # NULL
             /\ ToPair(p, "refresh", owner[req[p].cred], req[p].cred)
    <3>1. req[p].cred \in Token /\ owner[req[p].cred] \in UserId
      BY <1>13 DEF GetByID, OwnersOK, AuthTypeOK, RequestsOK, RequestOK
    <3>2. QED
      BY <1>1, <1>13, <2>2, <3>1 DEF GetByID, Cred
  <2>3. QED
    BY <1>13, <2>1, <2>2 DEF GetByID
<1>12. CASE Consume(p)
  <2>1. /\ store' \subseteq store
        /\ UNCHANGED <<users, owner, delivered, codes, sent, origin, family, loggedOut>>
        /\ req[p].cred \in Token /\ req[p].pc = "consume" /\ req[p].op = "refresh"
        /\ req[p] \in Request
    BY <1>12 DEF Consume, RequestsOK, RequestOK, UserRepoTypeOK
  <2>2. AuthTypeOK'
    BY <2>1 DEF AuthTypeOK
  <2>3. CASE Return(p)
    BY <2>1, <2>2, <2>3, ReturnStep
  <2>4. CASE req' = [req EXCEPT ![p].pc = "getbyid"]
    <3> DEFINE r == [req[p] EXCEPT !.pc = "getbyid"]
    <3>1. r \in Request /\ r.pc = "getbyid" /\ r.op = "refresh" /\ r.cred = req[p].cred
      BY <2>1 DEF Request, Pc
    <3>2. RequestOK(r) /\ TokensOK(req[p], r)
      BY <2>1, <3>1 DEF RequestOK, TokensOK
    <3>3. req' = [req EXCEPT ![p] = r]
      BY <2>4 DEF UserRepoTypeOK
    <3>4. QED
      BY <2>1, <2>2, <3>1, <3>2, <3>3, LocalStep
  <2>5. QED
    BY <1>12, <2>3, <2>4 DEF Consume
<1>14. CASE Revoke(p)
  <2>1. /\ store' \subseteq store /\ req[p].cred \in Token /\ Return(p)
        /\ UNCHANGED <<users, owner, delivered, codes, sent, origin, family>>
        /\ loggedOut' \in {loggedOut, loggedOut \cup {req[p].cred}}
    BY <1>14 DEF Revoke, RequestsOK, RequestOK
  <2>2. AuthTypeOK'
    BY <2>1 DEF AuthTypeOK
  <2>3. QED
    BY <2>1, <2>2, ReturnStep
<1>15. QED
  BY <1>2, <1>3, <1>4, <1>5, <1>6, <1>7, <1>9, <1>10, <1>12, <1>13, <1>14
  DEF AuthServiceStep

\* The initial states satisfy the type invariant.
LEMMA InitTypes == Init => TypeInv
<1> SUFFICES ASSUME Init PROVE TypeInv
  OBVIOUS
<1>1. UserRepoTypeOK
  BY IdleType DEF Init, UserRepoTypeOK
<1>2. AuthTypeOK /\ OwnersOK
  BY DEF Init, AuthInit, AuthTypeOK, OwnersOK, Idle
<1>3. RequestsOK
  BY IdleType DEF Init, RequestsOK
<1>4. QED
  BY <1>1, <1>2, <1>3 DEF TypeInv, TypeOK

\* Every step preserves the type invariant.
LEMMA StepTypes == TypeInv /\ [Next]_vars => TypeInv'
<1> SUFFICES ASSUME TypeInv, [Next]_vars PROVE TypeInv'
  OBVIOUS
<1> USE DEF TypeInv, TypeOK
<1>1. CASE \E p \in Proc : AuthServiceStep(p)
  BY <1>1, AuthServiceTypes
<1>2. CASE \E p \in Proc : UserServiceStep(p) /\ UNCHANGED authVars
  BY <1>2, UserServiceTypes
<1>3. CASE EnvironmentStep
  BY <1>3 DEF EnvironmentStep, KeyExpires, StoreCode, CodeExpires, UserRepoTypeOK,
              AuthTypeOK, RequestsOK, RequestOK, OwnersOK
<1>4. CASE Crash
  <2>1. UserRepoTypeOK' /\ RequestsOK'
    BY <1>4, IdleType DEF Crash, UserRepoTypeOK, RequestsOK, RequestOK, Idle
  <2>2. AuthTypeOK' /\ OwnersOK'
    BY <1>4 DEF Crash, authVars, AuthTypeOK, OwnersOK, Idle
  <2>3. QED
    BY <2>1, <2>2
<1>5. CASE UNCHANGED vars
  BY <1>5 DEF vars, authVars, UserRepoTypeOK, AuthTypeOK, RequestsOK, RequestOK, OwnersOK
<1>6. QED
  BY <1>1, <1>2, <1>3, <1>4, <1>5 DEF Next

\* The tables, the Redis keys and the locals of every request keep their types:
\* no handler reads a row, a token or a code it has not got.
THEOREM TypeCorrect == Spec => []TypeOK
<1>1. Spec => []TypeInv
  BY InitTypes, StepTypes, PTL DEF Spec
<1>2. TypeInv => TypeOK
  BY DEF TypeInv
<1>3. QED
  BY <1>1, <1>2, PTL

-----------------------------------------------------------------------------
(* The rows of the table and the copies the requests hold. *)

\* What holds of the copy in the locals r as long as nobody overtakes them.
CopyOK(r) ==
    /\ r.pc \in {"update", "pair", "lastlogin"} /\ ~r.stale =>
          users[r.id] # NULL /\ SameExcept(r.op, r.row, users[r.id])
    /\ r.pc = "pair" => r.row.status = "active"

CopiesOK == \A p \in Proc : CopyOK(req[p])

\* The id of a row about to be inserted is new: neither the table nor another
\* request has it, so an INSERT never replaces a row somebody read.
InsertsFresh ==
    \A p \in Proc : req[p].pc = "insert" =>
        users[req[p].id] = NULL /\ \A q \in Proc \ {p} : req[q].id # req[p].id

RowInv == CopiesOK /\ InsertsFresh /\ NamesAndPhonesDistinct

\* Where the locals r that request p gets may take their user id from.
IdOK(p, r) ==
    \/ r.pc # "insert" /\ r.id \in {NULL, req[p].id}
    \/ r.pc # "insert" /\ users[r.id] # NULL
    \/ users[r.id] = NULL /\ \A q \in Proc \ {p} : req[q].id # r.id

\* A step of one request that only reads the table.
LEMMA ReadStep ==
  ASSUME TypeInv, RowInv, NEW p \in Proc, NEW r \in Request, CopyOK(r), IdOK(p, r),
         req' = [req EXCEPT ![p] = r], users' = users
  PROVE  RowInv'
<1> USE DEF TypeInv, TypeOK, UserRepoTypeOK
<1>1. \A q \in Proc : req'[q] = IF q = p THEN r ELSE req[q]
  OBVIOUS
<1>2. CopiesOK'
  BY <1>1 DEF RowInv, CopiesOK, CopyOK
<1>3. InsertsFresh'
  <2>1. ASSUME NEW q \in Proc, req'[q].pc = "insert"
        PROVE  users[req'[q].id] = NULL
               /\ \A o \in Proc \ {q} : req'[o].id # req'[q].id
    <3>1. CASE q = p
      BY <1>1, <2>1, <3>1 DEF IdOK
    <3>2. CASE q # p
      <4>1. users[req[q].id] = NULL /\ \A o \in Proc \ {q} : req[o].id # req[q].id
            /\ req[q].id \in UserId
        BY <1>1, <2>1, <3>2 DEF RowInv, InsertsFresh, RequestsOK, RequestOK
      <4>2. r.id # req[q].id
        BY <3>2, <4>1, NullAssumption DEF IdOK
      <4>3. QED
        BY <1>1, <3>2, <4>1, <4>2
    <3>3. QED
      BY <3>1, <3>2
  <2>2. QED
    BY <2>1 DEF InsertsFresh
<1>4. NamesAndPhonesDistinct'
  BY DEF RowInv, NamesAndPhonesDistinct, Existing
<1>5. QED
  BY <1>2, <1>3, <1>4 DEF RowInv

\* A handler returns: nothing about the rows changes.
LEMMA ReturnKeepsRows ==
  ASSUME TypeInv, RowInv, NEW p \in Proc, Return(p), users' = users
  PROVE  RowInv'
  BY IdleType, ReadStep DEF Return, Idle, CopyOK, IdOK

\* The columns an UPDATE changes are among those in which the copy differs.
LEMMA UpdatesSameExcept ==
  ASSUME NEW op, NEW old \in Row, NEW row \in Row, SameExcept(op, row, old)
  PROVE  SameExcept(op, Updates(old, row), old)
  BY DEF SameExcept, Updates, Coalesce

\* A table with distinct names and phones keeps them when a row that duplicates
\* no other is put in.
LEMMA PutKeepsDistinct ==
  ASSUME TypeInv, NamesAndPhonesDistinct, NEW i \in UserId, NEW row \in Row,
         ~Duplicate(i, row), users' = [users EXCEPT ![i] = row]
  PROVE  NamesAndPhonesDistinct'
  BY NullAssumption
  DEF TypeInv, TypeOK, UserRepoTypeOK, NamesAndPhonesDistinct, Existing, Duplicate

\* The UPDATE of request p makes the copies it invalidates stale.
LEMMA UpdateKeepsRows ==
  ASSUME TypeInv, RowInv, NEW p \in Proc, req[p].pc \in {"update", "lastlogin"},
         UpdateRow(p, Idle)
  PROVE  /\ RowInv'
         /\ \A i \in UserId : users'[i] # users[i] =>
              /\ req[p].id = i /\ req'[p].pc # req[p].pc
              /\ req[p].stale \/ SameExcept(req[p].op, users'[i], users[i])
<1> USE DEF TypeInv, TypeOK, UserRepoTypeOK
<1> DEFINE i == req[p].id
           new == Updates(users[i], req[p].row)
<1>1. i \in UserId /\ req[p].row \in Row /\ users[i] \in Row
  BY DEF RequestsOK, RequestOK
<1>2. new \in Row /\ new # NULL /\ users[i] # NULL
  BY <1>1, UpdatesType, NullAssumption
<1>3. users' = [users EXCEPT ![i] = new] /\ ~Duplicate(i, new)
  BY DEF UpdateRow
<1>4. ASSUME NEW q \in Proc
      PROVE  req'[q] = IF q = p THEN Idle
                       ELSE IF req[q].id = i /\ req[q].row # NULL /\ users[i] # new
                            THEN [req[q] EXCEPT !.stale = TRUE]
                       ELSE req[q]
  BY DEF UpdateRow, Overtaken
<1>5. req[p].stale \/ SameExcept(req[p].op, new, users[i])
  BY <1>1, UpdatesSameExcept DEF RowInv, CopiesOK, CopyOK
<1> HIDE DEF new
<1>6. CopiesOK'
  <2>1. ASSUME NEW q \in Proc PROVE CopyOK(req[q])'
    <3>1. req[q] \in Request /\ RequestOK(req[q]) /\ CopyOK(req[q])
      BY DEF RequestsOK, RowInv, CopiesOK
    <3>2. CASE q = p
      <4>1. req'[q] = Idle
        BY <1>4, <3>2
      <4>2. QED
        BY <4>1 DEF CopyOK, Idle
    <3>3. CASE q # p /\ req[q].id = i /\ req[q].row # NULL /\ users[i] # new
      <4>1. req'[q] = [req[q] EXCEPT !.stale = TRUE]
        BY <1>4, <3>3
      <4>2. req'[q].stale /\ req'[q].pc = req[q].pc /\ req'[q].row = req[q].row
        BY <3>1, <4>1 DEF Request
      <4>3. QED
        BY <3>1, <4>2 DEF CopyOK
    <3>4. CASE q # p /\ ~(req[q].id = i /\ req[q].row # NULL /\ users[i] # new)
      <4>1. req'[q] = req[q]
        BY <1>4, <3>4
      <4>2. req[q].pc \in {"update", "pair", "lastlogin"} => users'[req[q].id] = users[req[q].id]
        BY <1>1, <1>3, <3>1, <3>4, NullAssumption DEF RequestOK
      <4>3. QED
        BY <3>1, <4>1, <4>2 DEF CopyOK
    <3>5. QED
      BY <3>2, <3>3, <3>4
  <2>2. QED
    BY <2>1 DEF CopiesOK
<1>7. InsertsFresh'
  <2>1. ASSUME NEW q \in Proc
        PROVE  /\ q # p => req'[q].pc = req[q].pc /\ req'[q].id = req[q].id
               /\ q = p => req'[q].pc = "idle" /\ req'[q].id = NULL
    <3>1. req'[q] \in {req[q], Idle} \/ req'[q] = [req[q] EXCEPT !.stale = TRUE]
      BY <1>4
    <3>2. QED
      BY <1>4, <3>1 DEF Idle, Request
  <2>2. ASSUME NEW q \in Proc, req'[q].pc = "insert"
        PROVE  users'[req'[q].id] = NULL
               /\ \A o \in Proc \ {q} : req'[o].id # req'[q].id
    <3>1. q # p /\ req[q].pc = "insert" /\ req'[q].id = req[q].id
      BY <2>1, <2>2
    <3>2. users[req[q].id] = NULL /\ \A o \in Proc \ {q} : req[o].id # req[q].id
          /\ req[q].id \in UserId
      BY <3>1 DEF RowInv, InsertsFresh, RequestsOK, RequestOK
    <3>3. QED
      BY <1>1, <1>2, <1>3, <2>1, <3>1, <3>2, NullAssumption
  <2>3. QED
    BY <2>2 DEF InsertsFresh
<1>8. NamesAndPhonesDistinct'
  BY <1>1, <1>2, <1>3, PutKeepsDistinct DEF RowInv
<1>9. req'[p].pc = "idle"
  <2>1. req'[p] = Idle
    BY <1>4
  <2>2. QED
    BY <2>1 DEF Idle
<1>10. ASSUME NEW j \in UserId, users'[j] # users[j]
       PROVE  /\ req[p].id = j /\ req'[p].pc # req[p].pc
              /\ req[p].stale \/ SameExcept(req[p].op, users'[j], users[j])
  <2>1. j = i /\ users'[j] = new
    BY <1>1, <1>3, <1>10
  <2>2. QED
    BY <1>5, <1>9, <2>1
<1>11. QED
  BY <1>6, <1>7, <1>8, <1>10 DEF RowInv

\* Between two items of an import a request names no user.
LEMMA NextItemType ==
  ASSUME NEW left \in 0..MaxImport
  PROVE  /\ NextItem(left) \in Request
         /\ NextItem(left).pc \in {"idle", "import"} /\ NextItem(left).id = NULL
<1>1. CASE left = 0
  BY <1>1, IdleType DEF NextItem, Idle
<1>2. CASE left # 0
  <2> DEFINE r == [Idle EXCEPT !.pc = "import", !.op = "create", !.left = left]
  <2>1. NextItem(left) = r
    BY <1>2 DEF NextItem
  <2>2. r \in Request
    BY IdleType DEF Request, Pc, Op
  <2>3. r.pc = "import" /\ r.id = NULL
    BY DEF Idle
  <2>4. QED
    BY <2>1, <2>2, <2>3
<1>3. QED
  BY <1>1, <1>2

\* An INSERT adds a row under an id nobody else has.
LEMMA InsertKeepsRows ==
  ASSUME TypeInv, RowInv, NEW p \in Proc, Insert(p)
  PROVE  RowInv' /\ \A i \in UserId : users[i] # NULL => users'[i] = users[i]
<1> USE DEF TypeInv, TypeOK, UserRepoTypeOK
<1> DEFINE i == req[p].id
           r == NextItem(req[p].left)
<1>1. /\ req[p].left \in 0..MaxImport /\ i \in UserId /\ req[p].row \in Row
      /\ users[i] = NULL /\ \A q \in Proc \ {p} : req[q].id # i
  BY DEF Insert, Request, RequestsOK, RequestOK, RowInv, InsertsFresh
<1>2. req' = [req EXCEPT ![p] = r]
  BY DEF Insert
<1>3. r \in Request /\ r.pc \in {"idle", "import"} /\ r.id = NULL
  BY <1>1, NextItemType
<1> HIDE DEF r
<1>4. CASE users' = users
  <2>1. CopyOK(r) /\ IdOK(p, r)
    BY <1>3 DEF CopyOK, IdOK
  <2>2. QED
    BY <1>2, <1>3, <1>4, <2>1, ReadStep
<1>5. CASE ~Duplicate(i, req[p].row) /\ users' = [users EXCEPT ![i] = req[p].row]
  <2>1. \A j \in UserId : j # i => users'[j] = users[j]
    BY <1>1, <1>5
  <2>2. \A q \in Proc : req'[q] = IF q = p THEN r ELSE req[q]
    BY <1>2
  <2>3. CopiesOK'
    <3>1. ASSUME NEW q \in Proc PROVE CopyOK(req[q])'
      <4>1. CASE q = p
        BY <1>3, <2>2, <4>1 DEF CopyOK
      <4>2. CASE q # p
        <5>1. req'[q] = req[q] /\ RequestOK(req[q]) /\ CopyOK(req[q]) /\ req[q].id # i
          BY <1>1, <2>2, <4>2 DEF RequestsOK, RowInv, CopiesOK
        <5>2. QED
          BY <2>1, <5>1 DEF CopyOK, RequestOK
      <4>3. QED
        BY <4>1, <4>2
    <3>2. QED
      BY <3>1 DEF CopiesOK
  <2>4. InsertsFresh'
    BY <1>1, <1>3, <2>1, <2>2, NullAssumption
    DEF RowInv, InsertsFresh, RequestsOK, RequestOK
  <2>5. NamesAndPhonesDistinct'
    BY <1>1, <1>5, PutKeepsDistinct DEF RowInv
  <2>6. QED
    BY <1>1, <2>1, <2>3, <2>4, <2>5 DEF RowInv
<1>6. QED
  BY <1>4, <1>5 DEF Insert

\* The other steps of UserService read the table and load copies that differ
\* from the stored row in the columns of their operation only.
LEMMA UserServiceRows ==
  ASSUME TypeInv, RowInv, NEW p \in Proc, UserServiceStep(p)
  PROVE  /\ RowInv'
         /\ \A i \in UserId : users[i] # NULL /\ users'[i] # users[i] =>
              /\ req'[p].pc # req[p].pc /\ req[p].pc = "update" /\ req[p].id = i
              /\ req[p].stale \/ SameExcept(req[p].op, users'[i], users[i])
<1> USE DEF TypeInv, TypeOK, UserRepoTypeOK
<1>1. ASSUME NEW left \in 0..(MaxImport - 1), CreateItem(p, left)
      PROVE  RowInv' /\ users' = users
  <2>1. PICK tenantID \in Tenant \cup {NULL}, username \in Username,
             phone \in Phone \cup {NULL}, password \in Password :
               CreateCheck(p, left, tenantID, username, phone, password)
    BY <1>1 DEF CreateItem
  <2> DEFINE nu == NewUser(tenantID, username, phone, password)
             r(i) == [Idle EXCEPT !.pc = "insert", !.op = "create", !.id = i,
                                  !.left = left, !.row = nu]
  <2>2. PICK i \in UserId : /\ req' = [req EXCEPT ![p] = r(i)] /\ users[i] = NULL
                            /\ \A q \in Proc : req[q].id # i
    BY <2>1 DEF CreateCheck
  <2>3. nu \in Row /\ left \in 0..MaxImport
    BY MaxImportAssumption DEF NewUser, Row
  <2>4. r(i) \in Request /\ r(i).pc = "insert" /\ r(i).id = i
    BY <2>3 DEF Idle, Request, Pc, Op
  <2>5. CopyOK(r(i)) /\ IdOK(p, r(i))
    BY <2>2, <2>4 DEF CopyOK, IdOK
  <2>6. users' = users
    BY <2>1 DEF CreateCheck
  <2>7. QED
    BY <2>2, <2>4, <2>5, <2>6, ReadStep
<1>2. ASSUME NEW op \in Op, NEW i \in Existing, NEW row \in Row, Load(p, op, i, row),
             SameExcept(op, row, users[i])
      PROVE  RowInv' /\ users' = users
  <2> DEFINE r == [Idle EXCEPT !.pc = "update", !.op = op, !.id = i, !.row = row]
  <2>1. i \in UserId /\ users[i] # NULL
    BY DEF Existing
  <2>2. r \in Request
    BY <2>1, IdleType DEF Request, Pc
  <2>3. r.pc = "update" /\ r.op = op /\ r.id = i /\ r.row = row
    BY DEF Idle
  <2>4. CopyOK(r) /\ IdOK(p, r)
    BY <1>2, <2>1, <2>3 DEF CopyOK, IdOK
  <2>5. req' = [req EXCEPT ![p] = r] /\ users' = users
    BY <1>2 DEF Load
  <2>6. QED
    BY <2>2, <2>4, <2>5, ReadStep
<1>3. ASSUME NEW i \in Existing PROVE users[i] \in Row
  BY DEF Existing
<1>4. CASE Create(p)
  BY <1>1, <1>4 DEF Create
<1>5. CASE Insert(p)
  BY <1>5, InsertKeepsRows
<1>6. CASE ImportUsers(p)
  <2>1. req[p].left - 1 \in 0..(MaxImport - 1)
    BY <1>6, MaxImportAssumption DEF ImportUsers, Request, RequestsOK, RequestOK
  <2>2. CASE CreateItem(p, req[p].left - 1)
    BY <1>1, <2>1, <2>2
  <2>3. CASE req' = [req EXCEPT ![p] = NextItem(req[p].left - 1)] /\ UNCHANGED users
    <3> DEFINE r == NextItem(req[p].left - 1)
    <3>1. r \in Request /\ r.pc \in {"idle", "import"} /\ r.id = NULL
      BY <2>1, NextItemType, MaxImportAssumption
    <3> HIDE DEF r
    <3>2. CopyOK(r) /\ IdOK(p, r)
      BY <3>1 DEF CopyOK, IdOK
    <3>3. req' = [req EXCEPT ![p] = r]
      BY <2>3 DEF r
    <3>4. QED
      BY <2>3, <3>1, <3>2, <3>3, ReadStep
  <2>4. QED
    BY <1>6, <2>2, <2>3 DEF ImportUsers
<1>7. CASE UpdateUser(p)
  BY <1>2, <1>3, <1>7 DEF UpdateUser, Coalesce, Row, Op, SameExcept
<1>8. CASE UpdateProfile(p)
  BY <1>2, <1>3, <1>8 DEF UpdateProfile, Coalesce, Row, Op, SameExcept
<1>9. CASE Freeze(p)
  BY <1>2, <1>3, <1>9 DEF Freeze, Row, Op, SameExcept
<1>10. CASE Unfreeze(p)
  BY <1>2, <1>3, <1>10 DEF Unfreeze, Row, Op, SameExcept
<1>11. CASE ResetPassword(p)
  BY <1>2, <1>3, <1>11 DEF ResetPassword, Row, Op, SameExcept
<1>12. CASE ChangePassword(p)
  BY <1>2, <1>3, <1>12 DEF ChangePassword, Row, Op, SameExcept
<1>13. CASE Update(p)
  <2>1. CASE UpdateRow(p, Idle)
    <3>1. req[p].pc = "update"
      BY <1>13 DEF Update
    <3>2. QED
      BY <2>1, <3>1, UpdateKeepsRows
  <2>2. CASE Return(p) /\ UNCHANGED users
    BY <2>2, ReturnKeepsRows
  <2>3. QED
    BY <1>13, <2>1, <2>2 DEF Update
<1>14. QED
  BY <1>4, <1>5, <1>6, <1>7, <1>8, <1>9, <1>10, <1>11, <1>12, <1>13 DEF UserServiceStep

\* The steps of AuthService change the table in the UPDATE of last_login_at only,
\* and save a token for the user of a copy that was active when it was read.
LEMMA AuthServiceRows ==
  ASSUME TypeInv, RowInv, NEW p \in Proc, AuthServiceStep(p)
  PROVE  /\ RowInv'
         /\ \A i \in UserId : users'[i] # users[i] =>
              /\ req'[p].pc # req[p].pc /\ req[p].pc = "lastlogin" /\ req[p].id = i
              /\ req[p].stale \/ SameExcept(req[p].op, users'[i], users[i])
         /\ \A t \in store' \ store : users[owner'[t]].status = "frozen" =>
              /\ req'[p].pc # req[p].pc /\ req[p].pc = "pair"
              /\ req[p].id = owner'[t] /\ req[p].stale
<1> USE DEF TypeInv, TypeOK, UserRepoTypeOK
<1>1. ASSUME NEW op \in {"login", "sms", "refresh"}, NEW i \in UserId, users[i] # NULL,
             NEW cred \in Cred \cup {NULL}, ToPair(p, op, i, cred), UNCHANGED users
      PROVE  RowInv'
  <2> DEFINE r == [Idle EXCEPT !.pc = "pair", !.op = op, !.id = i, !.row = users[i],
                               !.cred = cred]
  <2>1. users[i] \in Row /\ users[i].status = "active"
    BY <1>1 DEF ToPair, IsActive
  <2>2. r \in Request
    BY <2>1, IdleType DEF Request, Pc, Op
  <2>3. r.pc = "pair" /\ r.op = op /\ r.id = i /\ r.row = users[i]
    BY DEF Idle
  <2>4. SameExcept(op, users[i], users[i])
    BY DEF SameExcept
  <2>5. CopyOK(r) /\ IdOK(p, r)
    BY <1>1, <2>1, <2>3, <2>4 DEF CopyOK, IdOK
  <2>6. req' = [req EXCEPT ![p] = r]
    BY <1>1 DEF ToPair
  <2>7. QED
    BY <1>1, <2>2, <2>5, <2>6, ReadStep
<1>2. ASSUME NEW r \in Request, r.pc \in {"byphone", "consume", "revoke", "getbyid"},
             r.id \in {NULL, req[p].id}, req' = [req EXCEPT ![p] = r], UNCHANGED users
      PROVE  RowInv'
  <2>1. CopyOK(r) /\ IdOK(p, r)
    BY <1>2 DEF CopyOK, IdOK
  <2>2. QED
    BY <1>2, <2>1, ReadStep
<1>3. CASE Login(p)
  <2>1. PICK i \in UserId : users[i] # NULL /\ ToPair(p, "login", i, NULL)
    BY <1>3 DEF Login, FindByUsername
  <2>2. RowInv'
    BY <1>1, <1>3, <2>1 DEF Login
  <2>3. QED
    BY <1>3, <2>2 DEF Login, authVars
<1>4. CASE SmsLogin(p)
  <2>1. PICK phone \in Phone :
          /\ codes[phone] # NULL
          /\ \/ req' = [req EXCEPT ![p] = [Idle EXCEPT !.pc = "byphone", !.op = "sms",
                                                       !.phone = phone,
                                                       !.cred = codes[phone]]]
             \/ UNCHANGED req
    BY <1>4 DEF SmsLogin
  <2> DEFINE r == [Idle EXCEPT !.pc = "byphone", !.op = "sms", !.phone = phone,
                               !.cred = codes[phone]]
  <2>2. codes[phone] \in Code /\ UNCHANGED <<users, store>>
    BY <1>4, <2>1 DEF SmsLogin, AuthTypeOK
  <2>3. r \in Request /\ r.pc = "byphone" /\ r.id = NULL
    BY <2>2, IdleType DEF Idle, Request, Pc, Op, Cred
  <2>4. CASE req' = [req EXCEPT ![p] = r]
    BY <1>2, <2>2, <2>3, <2>4
  <2>5. CASE UNCHANGED req
    BY <2>2, <2>5 DEF RowInv, CopiesOK, CopyOK, InsertsFresh, NamesAndPhonesDistinct, Existing
  <2>6. QED
    BY <2>1, <2>2, <2>4, <2>5
<1>5. CASE GetByPhone(p)
  <2>1. req[p].cred \in Code /\ UNCHANGED <<users, store>>
    BY <1>5 DEF GetByPhone, RequestsOK, RequestOK, authVars
  <2>2. CASE Return(p)
    BY <2>1, <2>2, ReturnKeepsRows
  <2>3. ASSUME NEW i \in FindByPhone(req[p].phone), ToPair(p, "sms", i, req[p].cred)
        PROVE  RowInv'
    BY <1>1, <2>1, <2>3 DEF FindByPhone, Cred
  <2>4. QED
    BY <1>5, <2>1, <2>2, <2>3 DEF GetByPhone
<1>6. CASE Save(p)
  <2>1. PICK t \in Fresh :
          /\ Issue(p, t)
          /\ \/ Return(p)
             \/ req' = [req EXCEPT ![p].pc = "lastlogin", ![p].token = t]
    BY <1>6 DEF Save
  <2>2. /\ req[p].pc = "pair" /\ t \in Token /\ UNCHANGED users
        /\ req[p] \in Request /\ RequestOK(req[p]) /\ CopyOK(req[p])
    BY <1>6 DEF Save, Fresh, RequestsOK, RowInv, CopiesOK
  <2>3. /\ req[p].row.status = "active" /\ req[p].id \in UserId
        /\ req[p].op \in {"login", "sms", "refresh"}
        /\ req[p].stale \/ SameExcept(req[p].op, req[p].row, users[req[p].id])
    BY <2>2 DEF RequestOK, CopyOK
  <2>4. req[p].stale \/ users[req[p].id].status = "active"
    BY <2>3 DEF SameExcept
  <2>5. store' = store \cup {t} /\ owner'[t] = req[p].id
    BY <2>1, <2>2 DEF Issue, AuthTypeOK
  <2>6. CASE Return(p)
    <3>1. req'[p].pc = "idle"
      BY <2>6 DEF Return, Idle
    <3>2. QED
      BY <2>2, <2>4, <2>5, <2>6, <3>1, ReturnKeepsRows
  <2>7. CASE req' = [req EXCEPT ![p].pc = "lastlogin", ![p].token = t]
    <3> DEFINE r == [[req[p] EXCEPT !.pc = "lastlogin"] EXCEPT !.token = t]
    <3>1. /\ r \in Request /\ r.pc = "lastlogin" /\ r.id = req[p].id /\ r.op = req[p].op
          /\ r.row = req[p].row /\ r.stale = req[p].stale
      BY <2>2 DEF Request, Pc
    <3>2. CopyOK(r) /\ IdOK(p, r)
      BY <2>2, <3>1 DEF CopyOK, IdOK
    <3>3. req' = [req EXCEPT ![p] = r]
      BY <2>7
    <3>4. RowInv' /\ req'[p].pc = "lastlogin"
      BY <2>2, <3>1, <3>2, <3>3, ReadStep
    <3>5. QED
      BY <2>2, <2>4, <2>5, <3>4
  <2>8. QED
    BY <2>1, <2>6, <2>7
<1>7. CASE SaveFails(p)
  BY <1>7, ReturnKeepsRows DEF SaveFails, authVars
<1>8. CASE LastLogin(p)
  <2>1. req[p].pc = "lastlogin" /\ UNCHANGED store
    BY <1>8 DEF LastLogin
  <2>2. CASE UpdateRow(p, Idle)
    BY <2>1, <2>2, UpdateKeepsRows
  <2>3. CASE Return(p) /\ UNCHANGED users
    BY <2>1, <2>3, ReturnKeepsRows
  <2>4. QED
    BY <1>8, <2>2, <2>3 DEF LastLogin
<1>9. ASSUME NEW op \in {"refresh", "logout"}, NEW pc \in {"consume", "revoke"},
             Presented(p, op, pc)
      PROVE  RowInv' /\ UNCHANGED <<users, store>>
  <2>1. PICK t \in delivered :
          req' = [req EXCEPT ![p] = [Idle EXCEPT !.pc = pc, !.op = op, !.cred = t]]
    BY <1>9 DEF Presented
  <2> DEFINE r == [Idle EXCEPT !.pc = pc, !.op = op, !.cred = t]
  <2>2. t \in Token /\ UNCHANGED <<users, store>>
    BY <1>9 DEF AuthTypeOK, Presented, authVars
  <2>3. r \in Request
    BY <2>2, IdleType DEF Request, Pc, Op, Cred
  <2>4. r.pc = pc /\ r.id = NULL
    BY DEF Idle
  <2>5. QED
    BY <1>2, <2>1, <2>2, <2>3, <2>4
<1>10. CASE RefreshToken(p) \/ Logout(p)
  BY <1>9, <1>10 DEF RefreshToken, Logout
<1>11. CASE Consume(p)
  <2>1. UNCHANGED users /\ store' \subseteq store /\ req[p] \in Request
    BY <1>11 DEF Consume
  <2>2. CASE Return(p)
    BY <2>1, <2>2, ReturnKeepsRows
  <2>3. CASE req' = [req EXCEPT ![p].pc = "getbyid"]
    <3> DEFINE r == [req[p] EXCEPT !.pc = "getbyid"]
    <3>1. r \in Request /\ r.pc = "getbyid" /\ r.id = req[p].id
      BY <2>1 DEF Request, Pc
    <3>2. req' = [req EXCEPT ![p] = r]
      BY <2>3
    <3>3. QED
      BY <1>2, <2>1, <3>1, <3>2
  <2>4. QED
    BY <1>11, <2>2, <2>3 DEF Consume
<1>12. CASE GetByID(p)
  <2>1. UNCHANGED <<users, store>>
    BY <1>12 DEF GetByID, authVars
  <2>2. CASE Return(p)
    BY <2>1, <2>2, ReturnKeepsRows
  <2>3. CASE users[owner[req[p].cred]] # NULL
             /\ ToPair(p, "refresh", owner[req[p].cred], req[p].cred)
    <3>1. req[p].cred \in Token /\ owner[req[p].cred] \in UserId
      BY <1>12 DEF GetByID, OwnersOK, AuthTypeOK, RequestsOK, RequestOK
    <3>2. QED
      BY <1>1, <2>1, <2>3, <3>1 DEF Cred
  <2>4. QED
    BY <1>12, <2>2, <2>3 DEF GetByID
<1>13. CASE Revoke(p)
  <2>1. UNCHANGED users /\ store' \subseteq store /\ Return(p)
    BY <1>13 DEF Revoke
  <2>2. QED
    BY <2>1, ReturnKeepsRows
<1>14. QED
  BY <1>3, <1>4, <1>5, <1>6, <1>7, <1>8, <1>10, <1>11, <1>12, <1>13 DEF AuthServiceStep

\* The types with what holds of the rows and their copies.
AccountInv == TypeInv /\ RowInv

\* The action of OnlyOvertakenWritesUndo.
UndoesOnlyWhenOvertaken ==
    \A i \in UserId : users[i] # NULL /\ users'[i] # users[i] =>
        \E p \in Proc :
            /\ Moves(p) /\ req[p].pc \in {"update", "lastlogin"} /\ req[p].id = i
            /\ req[p].stale \/ SameExcept(req[p].op, users'[i], users[i])

\* The action of FrozenGrantOnlyWhenOvertaken.
GrantsFrozenOnlyWhenOvertaken ==
    \A t \in store' \ store :
        users[owner'[t]].status = "frozen" =>
            \E p \in Proc : /\ Moves(p) /\ req[p].pc = "pair"
                            /\ req[p].id = owner'[t] /\ req[p].stale

\* The table starts with distinct names and phones.
LEMMA InitAccounts == Init => AccountInv
<1> SUFFICES ASSUME Init PROVE AccountInv
  OBVIOUS
<1>1. TypeInv
  BY InitTypes
<1>2. CopiesOK /\ InsertsFresh
  BY DEF Init, CopiesOK, CopyOK, InsertsFresh, Idle
<1>3. NamesAndPhonesDistinct
  <2>1. \A i \in Existing : i \in UserId /\ users[i] # NULL /\ ~Duplicate(i, users[i])
    BY InitialUsersAssumption DEF Init, Existing
  <2>2. QED
    BY <2>1 DEF NamesAndPhonesDistinct, Duplicate
<1>4. QED
  BY <1>1, <1>2, <1>3 DEF AccountInv, RowInv

\* Every step keeps the rows and their copies right and takes back a change of
\* another request, or grants a frozen user a token, only when overtaken.
LEMMA StepAccounts ==
  AccountInv /\ [Next]_vars =>
    AccountInv' /\ UndoesOnlyWhenOvertaken /\ GrantsFrozenOnlyWhenOvertaken
<1> SUFFICES ASSUME AccountInv, [Next]_vars
             PROVE  AccountInv' /\ UndoesOnlyWhenOvertaken /\ GrantsFrozenOnlyWhenOvertaken
  OBVIOUS
<1> USE DEF AccountInv
<1>1. TypeInv'
  BY StepTypes
<1>2. ASSUME NEW p \in Proc, AuthServiceStep(p)
      PROVE  RowInv' /\ UndoesOnlyWhenOvertaken /\ GrantsFrozenOnlyWhenOvertaken
  <2>1. UndoesOnlyWhenOvertaken
    BY <1>2, AuthServiceRows DEF UndoesOnlyWhenOvertaken, Moves
  <2>2. GrantsFrozenOnlyWhenOvertaken
    BY <1>2, AuthServiceRows DEF GrantsFrozenOnlyWhenOvertaken, Moves
  <2>3. QED
    BY <1>2, <2>1, <2>2, AuthServiceRows
<1>3. ASSUME NEW p \in Proc, UserServiceStep(p), UNCHANGED authVars
      PROVE  RowInv' /\ UndoesOnlyWhenOvertaken /\ GrantsFrozenOnlyWhenOvertaken
  <2>1. UndoesOnlyWhenOvertaken
    BY <1>3, UserServiceRows DEF UndoesOnlyWhenOvertaken, Moves
  <2>2. GrantsFrozenOnlyWhenOvertaken
    BY <1>3 DEF GrantsFrozenOnlyWhenOvertaken, authVars
  <2>3. QED
    BY <1>3, <2>1, <2>2, UserServiceRows
<1>4. ASSUME UNCHANGED users, store' \subseteq store
      PROVE  UndoesOnlyWhenOvertaken /\ GrantsFrozenOnlyWhenOvertaken
  BY <1>4 DEF UndoesOnlyWhenOvertaken, GrantsFrozenOnlyWhenOvertaken
<1>5. CASE EnvironmentStep \/ UNCHANGED vars
  <2>1. UNCHANGED <<users, req>> /\ store' \subseteq store
    BY <1>5 DEF EnvironmentStep, KeyExpires, StoreCode, CodeExpires, vars, authVars
  <2>2. RowInv'
    BY <2>1 DEF RowInv, CopiesOK, CopyOK, InsertsFresh, NamesAndPhonesDistinct, Existing
  <2>3. QED
    BY <1>1, <1>4, <2>1, <2>2
<1>6. CASE Crash
  <2>1. CopiesOK' /\ InsertsFresh'
    BY <1>6 DEF Crash, CopiesOK, CopyOK, InsertsFresh, Idle
  <2>2. NamesAndPhonesDistinct' /\ UNCHANGED users /\ store' = store
    BY <1>6 DEF Crash, RowInv, NamesAndPhonesDistinct, Existing, authVars
  <2>3. QED
    BY <1>1, <1>4, <2>1, <2>2 DEF RowInv
<1>7. QED
  BY <1>1, <1>2, <1>3, <1>5, <1>6 DEF Next

\* The rows and their copies stay right in every behaviour.
LEMMA Accounts == Spec => []AccountInv
  BY InitAccounts, StepAccounts, PTL DEF Spec

\* Concurrent creations, imports and renamings never give two users of a tenant
\* one name or two users one phone, although Create checks in another statement.
THEOREM NamesStayDistinct == Spec => []NamesAndPhonesDistinct
<1>1. AccountInv => NamesAndPhonesDistinct
  BY DEF AccountInv, RowInv
<1>2. QED
  BY <1>1, Accounts, PTL

\* The copy of a row in a request that was not overtaken agrees with the table
\* in every column the request does not mean to change.
THEOREM CopiesStayFresh == Spec => []FreshCopy
<1>1. AccountInv => FreshCopy
  BY DEF AccountInv, RowInv, CopiesOK, CopyOK, FreshCopy
<1>2. QED
  BY <1>1, Accounts, PTL

\* A request that writes back the row it read changes a column that is not its
\* own only if another request changed the row in between.
THEOREM WritesUndoOnlyWhenOvertaken == Spec => OnlyOvertakenWritesUndo
<1>1. AccountInv /\ [Next]_vars => [UndoesOnlyWhenOvertaken]_vars
  BY StepAccounts
<1>2. QED
  BY <1>1, Accounts, PTL DEF Spec, OnlyOvertakenWritesUndo, UndoesOnlyWhenOvertaken

\* A frozen user gets a refresh token only from a request that checked the
\* status before the account was frozen.
THEOREM FrozenUsersGetNoTokens == Spec => FrozenGrantOnlyWhenOvertaken
<1>1. AccountInv /\ [Next]_vars => [GrantsFrozenOnlyWhenOvertaken]_vars
  BY StepAccounts
<1>2. QED
  BY <1>1, Accounts, PTL DEF Spec, FrozenGrantOnlyWhenOvertaken,
                             GrantsFrozenOnlyWhenOvertaken

=============================================================================
