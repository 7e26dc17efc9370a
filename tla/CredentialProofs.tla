-------------------------- MODULE CredentialProofs --------------------------
(***************************************************************************)
(* The identity process implements OneTimeCredential, for any number of    *)
(* goroutines, users, tokens and codes, whatever answer of Redis is lost   *)
(* and whenever the process dies.                                          *)
(*                                                                         *)
(* The phase of a credential depends on three sets: the credentials that   *)
(* were issued, those in Redis and those a request holds.  HoldInv says    *)
(* that they never overlap where they must not, and that a credential has  *)
(* one place in Redis and one holder; so taking it out of Redis, or its    *)
(* holder giving it up, ends it.                                           *)
(***************************************************************************)
EXTENDS IdentityProofs

Iss == {c \in Cred : Issued(c)}
Live == {c \in Cred : InRedis(c)}
Held == {c \in Cred : Claimed(c)}

\* A credential in Redis or in the hands of a request was issued, and it is not
\* in both places.
Apart == Live \subseteq Iss /\ Held \subseteq Iss /\ Live \cap Held = {}

\* No two requests hold one credential.
OneHolder ==
    \A p, q \in Proc, c \in Cred : Holding(p, c) /\ Holding(q, c) => p = q

\* A code was sent to one phone.
OnePhone ==
    \A ph1, ph2 \in Phone : codes[ph1] = codes[ph2] /\ codes[ph1] # NULL => ph1 = ph2

\* A token that was logged out was issued and is not in Redis.
LoggedOutGone == loggedOut \cap store = {} /\ loggedOut \subseteq Iss

HoldInv == Apart /\ OneHolder /\ OnePhone /\ LoggedOutGone

-----------------------------------------------------------------------------
(* What a step does to the credentials: one of four kinds of change. *)

\* The credential request p holds; NULL: none.
Hand(p) ==
    IF req[p].pc \in {"byphone", "getbyid", "pair"} THEN req[p].cred ELSE NULL

\* The other requests hold what they held.
OthersKeep(p) == \A q \in Proc \ {p} : Hand(q)' = Hand(q)

\* Credentials may leave Redis or the hands of a request, none enters; a token
\* that is logged out by the step is issued and not in Redis.
DropKind ==
    /\ UNCHANGED <<owner, sent, origin, family>>
    /\ store' \subseteq store
    /\ \A ph \in Phone : codes'[ph] \in {codes[ph], NULL}
    /\ \A q \in Proc : Hand(q)' \in {Hand(q), NULL}
    /\ loggedOut \subseteq loggedOut'
    /\ loggedOut' \subseteq loggedOut \cup {t \in Token : owner[t] # NULL}
    /\ \A t \in loggedOut' \ loggedOut : t \notin store'

\* Request p, which held nothing, takes c out of Redis.
TakeKind(p, c) ==
    /\ UNCHANGED <<owner, sent, origin, family, loggedOut>>
    /\ Hand(p) = NULL /\ Hand(p)' = c /\ OthersKeep(p)
    /\ \/ /\ c \in store /\ store' = store \ {c}
          /\ UNCHANGED codes
       \/ /\ \E ph \in Phone : /\ codes[ph] = c /\ c \in Code
                               /\ codes' = [codes EXCEPT ![ph] = NULL]
          /\ UNCHANGED store

\* Request p turns what it holds into the new token t.
GrantKind(p, t) ==
    /\ t \in Token /\ owner[t] = NULL
    /\ \E i \in UserId : owner' = [owner EXCEPT ![t] = i]
    /\ store' = store \cup {t}
    /\ Hand(p) \in Cred \cup {NULL} /\ Hand(p)' = NULL /\ OthersKeep(p)
    /\ origin' = [origin EXCEPT ![t] = Hand(p)]
    /\ family' = [family EXCEPT ![t] = IF Hand(p) \in Token THEN family[Hand(p)] ELSE t]
    /\ UNCHANGED <<codes, sent, loggedOut>>

\* The new code c is stored for phone ph.
SendKind(ph, c) ==
    /\ ph \in Phone /\ c \in Code \ sent
    /\ codes' = [codes EXCEPT ![ph] = c]
    /\ sent' = sent \cup {c}
    /\ \A q \in Proc : Hand(q)' = Hand(q)
    /\ UNCHANGED <<store, owner, origin, family, loggedOut>>

CredentialStep ==
    \/ DropKind
    \/ \E p \in Proc, c \in Cred : TakeKind(p, c)
    \/ \E p \in Proc, t \in Token : GrantKind(p, t)
    \/ \E ph \in Phone, c \in Code : SendKind(ph, c)

\* A step of UserService neither takes, grants nor sends a credential.
LEMMA UserServiceKind ==
  ASSUME TypeInv, NEW p \in Proc, UserServiceStep(p), UNCHANGED authVars
  PROVE  DropKind
<1> USE DEF TypeInv, TypeOK
<1>1. ASSUME \A q \in Proc : \/ req'[q] = req[q]
                             \/ req'[q] = [req[q] EXCEPT !.stale = TRUE]
                             \/ req'[q].pc \in {"idle", "insert", "import", "update"}
      PROVE  DropKind
  <2>1. ASSUME NEW q \in Proc PROVE Hand(q)' \in {Hand(q), NULL}
    BY <1>1 DEF Hand, UserRepoTypeOK, Request
  <2>2. QED
    BY <2>1 DEF DropKind, authVars
<1>2. ASSUME req'[p].pc \in {"idle", "insert", "import", "update"},
             \A q \in Proc : q # p => req'[q] = req[q]
      PROVE  DropKind
  BY <1>1, <1>2
<1>3. ASSUME NEW left, CreateItem(p, left) PROVE DropKind
  BY <1>2, <1>3 DEF CreateItem, CreateCheck, Idle, UserRepoTypeOK
<1>4. ASSUME NEW left PROVE NextItem(left).pc \in {"idle", "import"}
  BY DEF NextItem, Idle
<1>5. ASSUME NEW op, NEW i, NEW row, Load(p, op, i, row) PROVE DropKind
  BY <1>2, <1>5 DEF Load, Idle, UserRepoTypeOK
<1>6. CASE Create(p) \/ Insert(p) \/ ImportUsers(p)
  BY <1>2, <1>3, <1>4, <1>6 DEF Create, Insert, ImportUsers, UserRepoTypeOK
<1>7. CASE UpdateUser(p) \/ UpdateProfile(p) \/ Freeze(p) \/ Unfreeze(p)
           \/ ResetPassword(p) \/ ChangePassword(p)
  BY <1>5, <1>7 DEF UpdateUser, UpdateProfile, Freeze, Unfreeze, ResetPassword,
                    ChangePassword
<1>8. CASE Update(p)
  <2>1. ASSUME NEW q \in Proc
        PROVE  \/ req'[q] = req[q] \/ req'[q] = Idle
               \/ req'[q] = [req[q] EXCEPT !.stale = TRUE]
    BY <1>8 DEF Update, UpdateRow, Overtaken, Return, UserRepoTypeOK
  <2>2. Idle.pc = "idle"
    BY DEF Idle
  <2>3. QED
    BY <1>1, <2>1, <2>2
<1>9. QED
  BY <1>6, <1>7, <1>8 DEF UserServiceStep

\* Every step of AuthService is one of the four kinds.
LEMMA AuthServiceKind ==
  ASSUME TypeInv, NEW p \in Proc, AuthServiceStep(p)
  PROVE  CredentialStep
<1> USE DEF TypeInv, TypeOK
<1>1. ASSUME NEW r \in Request, req' = [req EXCEPT ![p] = r]
      PROVE  /\ Hand(p)' = IF r.pc \in {"byphone", "getbyid", "pair"} THEN r.cred ELSE NULL
             /\ OthersKeep(p)
  BY <1>1 DEF Hand, OthersKeep, UserRepoTypeOK
<1>2. ASSUME Return(p) PROVE Hand(p)' = NULL /\ OthersKeep(p)
  BY <1>1, <1>2, IdleType DEF Return, Idle
<1>3. ASSUME Return(p), UNCHANGED <<owner, sent, origin, family, loggedOut, codes>>,
             store' \subseteq store
      PROVE  DropKind
  BY <1>2, <1>3 DEF DropKind, OthersKeep
<1>4. ASSUME NEW op, NEW i, NEW cred \in {Hand(p), NULL},
             ToPair(p, op, i, cred), UNCHANGED authVars
      PROVE  DropKind
  <2>1. Hand(p)' = cred /\ OthersKeep(p)
    BY <1>4 DEF ToPair, Idle, Hand, OthersKeep, UserRepoTypeOK
  <2>2. QED
    BY <1>4, <2>1 DEF DropKind, OthersKeep, authVars
<1>5. CASE Login(p)
  <2>1. PICK i : ToPair(p, "login", i, NULL)
    BY <1>5 DEF Login
  <2>2. DropKind
    BY <1>4, <1>5, <2>1 DEF Login
  <2>3. QED
    BY <2>2 DEF CredentialStep
<1>6. CASE SmsLogin(p)
  <2>1. PICK phone \in Phone :
          /\ codes[phone] # NULL
          /\ codes' = [codes EXCEPT ![phone] = NULL]
          /\ \/ req' = [req EXCEPT ![p] = [Idle EXCEPT !.pc = "byphone", !.op = "sms",
                                                       !.phone = phone,
                                                       !.cred = codes[phone]]]
             \/ UNCHANGED req
    BY <1>6 DEF SmsLogin
  <2>2. codes[phone] \in Code /\ Hand(p) = NULL /\ UNCHANGED <<store, owner, sent, origin, family, loggedOut>>
    BY <1>6, <2>1 DEF SmsLogin, AuthTypeOK, Hand
  <2>3. CASE UNCHANGED req
    BY <2>1, <2>2, <2>3 DEF CredentialStep, DropKind, Hand, AuthTypeOK
  <2>4. CASE req' = [req EXCEPT ![p] = [Idle EXCEPT !.pc = "byphone", !.op = "sms",
                                                    !.phone = phone, !.cred = codes[phone]]]
    <3>1. Hand(p)' = codes[phone] /\ OthersKeep(p)
      BY <2>4 DEF Idle, Hand, OthersKeep, UserRepoTypeOK
    <3>2. TakeKind(p, codes[phone])
      BY <2>1, <2>2, <3>1 DEF TakeKind
    <3>3. QED
      BY <2>2, <3>2 DEF CredentialStep, Cred
  <2>5. QED
    BY <2>1, <2>3, <2>4
<1>7. CASE GetByPhone(p)
  <2>1. Hand(p) = req[p].cred /\ UNCHANGED authVars
    BY <1>7 DEF GetByPhone, Hand
  <2>2. QED
    BY <1>3, <1>4, <1>7, <2>1 DEF GetByPhone, FindByPhone, CredentialStep, authVars
<1>8. CASE Save(p)
  <2>1. PICK t \in Fresh :
          /\ Issue(p, t)
          /\ \/ Return(p)
             \/ req' = [req EXCEPT ![p].pc = "lastlogin", ![p].token = t]
    BY <1>8 DEF Save
  <2>2. /\ t \in Token /\ owner[t] = NULL /\ Hand(p) = req[p].cred /\ req[p].id \in UserId
        /\ req[p].cred \in Cred \cup {NULL}
        /\ req[p].op = "refresh" <=> req[p].cred \in Token
        /\ UNCHANGED <<codes, sent, loggedOut>>
    BY <1>8, NullAssumption, CredentialAssumption
    DEF Save, Fresh, Hand, RequestsOK, RequestOK, Cred
  <2>3. Hand(p)' = NULL /\ OthersKeep(p)
    <3>1. CASE Return(p)
      BY <1>2, <3>1
    <3>2. CASE req' = [req EXCEPT ![p].pc = "lastlogin", ![p].token = t]
      BY <3>2 DEF Hand, OthersKeep, UserRepoTypeOK, Request
    <3>3. QED
      BY <2>1, <3>1, <3>2
  <2>4. GrantKind(p, t)
    BY <2>1, <2>2, <2>3 DEF GrantKind, Issue
  <2>5. QED
    BY <2>2, <2>4 DEF CredentialStep
<1>9. CASE SaveFails(p)
  BY <1>3, <1>9 DEF SaveFails, CredentialStep, authVars
<1>10. CASE LastLogin(p)
  <2>1. ASSUME NEW q \in Proc PROVE Hand(q)' \in {Hand(q), NULL}
    <3>1. \/ req'[q] \in {Idle, req[q]}
          \/ req'[q] = [req[q] EXCEPT !.stale = TRUE]
      BY <1>10 DEF LastLogin, UpdateRow, Overtaken, Return, UserRepoTypeOK
    <3>2. QED
      BY <3>1 DEF Hand, Idle, UserRepoTypeOK, Request
  <2>2. QED
    BY <1>10, <2>1 DEF LastLogin, CredentialStep, DropKind
<1>11. ASSUME NEW op, NEW pc \in {"consume", "revoke"}, Presented(p, op, pc)
       PROVE  CredentialStep
  <2>1. Hand(p)' = NULL /\ OthersKeep(p)
    BY <1>11 DEF Presented, Idle, Hand, OthersKeep, UserRepoTypeOK
  <2>2. QED
    BY <1>11, <2>1 DEF Presented, CredentialStep, DropKind, OthersKeep, authVars
<1>12. CASE RefreshToken(p) \/ Logout(p)
  BY <1>11, <1>12 DEF RefreshToken, Logout
<1>13. CASE Consume(p)
  <2>1. req[p].cred \in Token /\ Hand(p) = NULL /\ req[p] \in Request
        /\ UNCHANGED <<owner, codes, sent, origin, family, loggedOut>>
    BY <1>13 DEF Consume, RequestsOK, RequestOK, Hand, UserRepoTypeOK
  <2>2. CASE Return(p)
    BY <1>3, <1>13, <2>1, <2>2 DEF Consume, CredentialStep
  <2>3. CASE /\ req[p].cred \in store /\ store' = store \ {req[p].cred}
             /\ req' = [req EXCEPT ![p].pc = "getbyid"]
    <3>1. Hand(p)' = req[p].cred /\ OthersKeep(p)
      BY <2>3 DEF Hand, OthersKeep, UserRepoTypeOK, Request
    <3>2. TakeKind(p, req[p].cred)
      BY <2>1, <2>3, <3>1 DEF TakeKind
    <3>3. QED
      BY <2>1, <3>2 DEF CredentialStep, Cred
  <2>4. QED
    BY <1>13, <2>2, <2>3 DEF Consume
<1>14. CASE GetByID(p)
  <2>1. Hand(p) = req[p].cred /\ UNCHANGED authVars /\ owner[req[p].cred] \in UserId
    BY <1>14 DEF GetByID, Hand, OwnersOK, RequestsOK, RequestOK, AuthTypeOK
  <2>2. QED
    BY <1>3, <1>4, <1>14, <2>1 DEF GetByID, CredentialStep, authVars
<1>15. CASE Revoke(p)
  <2>1. /\ req[p].cred \in Token /\ owner[req[p].cred] # NULL
        /\ UNCHANGED <<owner, codes, sent, origin, family>> /\ store' \subseteq store
        /\ loggedOut' = loggedOut \/ (/\ loggedOut' = loggedOut \cup {req[p].cred}
                                      /\ store' = store \ {req[p].cred})
    BY <1>15 DEF Revoke, RequestsOK, RequestOK, OwnersOK
  <2>2. Hand(p)' = NULL /\ OthersKeep(p)
    BY <1>2, <1>15 DEF Revoke
  <2>3. DropKind
    BY <2>1, <2>2 DEF DropKind, OthersKeep
  <2>4. QED
    BY <2>3 DEF CredentialStep
<1>16. QED
  BY <1>5, <1>6, <1>7, <1>8, <1>9, <1>10, <1>12, <1>13, <1>14, <1>15
  DEF AuthServiceStep, CredentialStep

\* Every step of the process is one of the four kinds.
LEMMA StepKind == TypeInv /\ [Next]_vars => CredentialStep
<1> SUFFICES ASSUME TypeInv, [Next]_vars PROVE CredentialStep
  OBVIOUS
<1> USE DEF TypeInv, TypeOK
<1>1. CASE \E p \in Proc : AuthServiceStep(p)
  BY <1>1, AuthServiceKind
<1>2. CASE \E p \in Proc : UserServiceStep(p) /\ UNCHANGED authVars
  BY <1>2, UserServiceKind DEF CredentialStep
<1>3. CASE KeyExpires \/ CodeExpires
  BY <1>3 DEF KeyExpires, CodeExpires, CredentialStep, DropKind, Hand, AuthTypeOK
<1>4. CASE StoreCode
  <2>1. \E ph \in Phone, c \in Code : SendKind(ph, c)
    BY <1>4 DEF StoreCode, SendKind, Hand
  <2>2. QED
    BY <2>1 DEF CredentialStep
<1>5. CASE Crash
  BY <1>5 DEF Crash, authVars, CredentialStep, DropKind, Hand, Idle
<1>6. CASE UNCHANGED vars
  BY <1>6 DEF vars, authVars, CredentialStep, DropKind, Hand
<1>7. QED
  BY <1>1, <1>2, <1>3, <1>4, <1>5, <1>6 DEF Next, EnvironmentStep

-----------------------------------------------------------------------------
(* The four kinds of change keep HoldInv and are steps of OneTimeCredential. *)

\* What a request holds, said with Hand, before and after a step.
LEMMA HeldIsHand ==
  ASSUME NEW c \in Cred
  PROVE  /\ Claimed(c) <=> \E p \in Proc : Hand(p) = c
         /\ Claimed(c)' <=> \E p \in Proc : Hand(p)' = c
         /\ \A p \in Proc : Holding(p, c) <=> Hand(p) = c
         /\ \A p \in Proc : Holding(p, c)' <=> Hand(p)' = c
  BY NullAssumption DEF Claimed, Holding, Hand, Cred

\* What each kind of change does to the three sets of credentials.
LEMMA DropSets ==
  ASSUME TypeInv, HoldInv, DropKind
  PROVE  /\ Iss' = Iss /\ Live' \subseteq Live /\ Held' \subseteq Held
         /\ HoldInv'
<1> USE NullAssumption DEF TypeInv, TypeOK, AuthTypeOK, DropKind
<1>1. Iss' = Iss
  BY DEF Iss, Issued
<1>2. Live' \subseteq Live
  BY DEF Live, InRedis, Cred
<1>3. Held' \subseteq Held
  BY HeldIsHand DEF Held, Cred
<1>4. Apart'
  BY <1>1, <1>2, <1>3 DEF HoldInv, Apart
<1>5. OneHolder'
  <2>1. ASSUME NEW p \in Proc, NEW q \in Proc, NEW c \in Cred, Holding(p, c)', Holding(q, c)'
        PROVE  p = q
    <3>1. Hand(p)' = c /\ Hand(q)' = c /\ c # NULL
      BY <2>1, HeldIsHand DEF Cred
    <3>2. Holding(p, c) /\ Holding(q, c)
      BY <3>1, HeldIsHand
    <3>3. QED
      BY <3>2 DEF HoldInv, OneHolder
  <2>2. QED
    BY <2>1 DEF OneHolder
<1>6. OnePhone'
  BY DEF HoldInv, OnePhone
<1>7. LoggedOutGone'
  <2>1. \A t \in Token : owner[t] # NULL => t \in Iss
    BY DEF Iss, Issued, Cred
  <2>2. QED
    BY <1>1, <2>1 DEF HoldInv, LoggedOutGone
<1>8. QED
  BY <1>1, <1>2, <1>3, <1>4, <1>5, <1>6, <1>7 DEF HoldInv

\* A request takes a live credential: it is not in Redis any more, since a code
\* is stored for one phone only, and has one holder, since nobody held it.
LEMMA TakeSets ==
  ASSUME TypeInv, HoldInv, NEW p \in Proc, NEW c \in Cred, TakeKind(p, c)
  PROVE  /\ Iss' = Iss /\ c \in Live /\ Live' = Live \ {c} /\ Held' = Held \cup {c}
         /\ HoldInv'
<1> USE NullAssumption DEF TypeInv, TypeOK, AuthTypeOK
<1>1. Iss' = Iss
  BY DEF TakeKind, Iss, Issued
<1>2. c \in Live /\ Live' = Live \ {c}
  <2>1. CASE c \in store /\ store' = store \ {c} /\ UNCHANGED codes
    <3>1. \A ph \in Phone : codes[ph] # c
      BY <2>1, CredentialAssumption
    <3>2. QED
      BY <2>1, <3>1 DEF Live, InRedis
  <2>2. ASSUME NEW ph \in Phone, codes[ph] = c, c \in Code,
               codes' = [codes EXCEPT ![ph] = NULL], UNCHANGED store
        PROVE  c \in Live /\ Live' = Live \ {c}
    <3>1. c \notin store /\ \A ph2 \in Phone : codes[ph2] = c => ph2 = ph
      BY <2>2, CredentialAssumption DEF HoldInv, OnePhone
    <3>2. QED
      BY <2>2, <3>1 DEF Live, InRedis, Cred
  <2>3. QED
    BY <2>1, <2>2 DEF TakeKind
<1>3. \A q \in Proc : Hand(q)' = IF q = p THEN c ELSE Hand(q)
  BY DEF TakeKind, OthersKeep
<1>4. Held' = Held \cup {c}
  <2>1. ASSUME NEW d \in Cred PROVE Claimed(d)' <=> Claimed(d) \/ d = c
    BY <1>3, HeldIsHand DEF TakeKind, Cred
  <2>2. QED
    BY <2>1 DEF Held
<1>5. Apart'
  BY <1>1, <1>2, <1>4 DEF HoldInv, Apart
<1>6. OneHolder'
  <2>1. \A q \in Proc : Hand(q) # c
    BY <1>2, HeldIsHand DEF HoldInv, Apart, Held
  <2>2. ASSUME NEW q \in Proc, NEW r \in Proc, NEW d \in Cred, Holding(q, d)', Holding(r, d)'
        PROVE  q = r
    <3>1. Hand(q)' = d /\ Hand(r)' = d
      BY <2>2, HeldIsHand
    <3>2. CASE d = c
      BY <1>3, <2>1, <3>1, <3>2
    <3>3. CASE d # c
      BY <1>3, <3>1, <3>3, HeldIsHand DEF HoldInv, OneHolder
    <3>4. QED
      BY <3>2, <3>3
  <2>3. QED
    BY <2>2 DEF OneHolder
<1>7. OnePhone'
  BY DEF HoldInv, OnePhone, TakeKind
<1>8. LoggedOutGone'
  BY <1>1 DEF HoldInv, LoggedOutGone, TakeKind
<1>9. QED
  BY <1>1, <1>2, <1>4, <1>5, <1>6, <1>7, <1>8 DEF HoldInv

\* A request turns what it holds into a new token: nobody else holds it.
LEMMA GrantSets ==
  ASSUME TypeInv, HoldInv, NEW p \in Proc, NEW t \in Token, GrantKind(p, t)
  PROVE  /\ t \notin Iss /\ Iss' = Iss \cup {t} /\ Live' = Live \cup {t}
         /\ Held' = Held \ {Hand(p)} /\ Hand(p) \in Held \cup {NULL}
         /\ HoldInv'
<1> USE NullAssumption DEF TypeInv, TypeOK, AuthTypeOK
<1>1. t \notin Iss /\ Iss' = Iss \cup {t}
  BY DEF GrantKind, Iss, Issued, Cred
<1>2. Live' = Live \cup {t}
  BY DEF GrantKind, Live, InRedis, Cred
<1>3. \A q \in Proc : Hand(q)' = IF q = p THEN NULL ELSE Hand(q)
  BY DEF GrantKind, OthersKeep
<1>4. Held' = Held \ {Hand(p)}
  <2>1. ASSUME NEW d \in Cred PROVE Claimed(d)' <=> Claimed(d) /\ d # Hand(p)
    <3>1. ASSUME NEW q \in Proc, Hand(q) = d, Hand(p) = d PROVE q = p
      BY <3>1, HeldIsHand DEF HoldInv, OneHolder
    <3>2. d # NULL
      BY DEF Cred
    <3>3. QED
      BY <1>3, <3>1, <3>2, HeldIsHand
  <2>2. QED
    BY <2>1 DEF Held
<1>5. Hand(p) \in Held \cup {NULL}
  BY HeldIsHand DEF GrantKind, Held
<1>6. Apart'
  BY <1>1, <1>2, <1>4 DEF HoldInv, Apart
<1>7. OneHolder'
  <2>1. ASSUME NEW q \in Proc, NEW r \in Proc, NEW d \in Cred, Holding(q, d)', Holding(r, d)'
        PROVE  q = r
    <3>1. Hand(q)' = d /\ Hand(r)' = d /\ d # NULL
      BY <2>1, HeldIsHand DEF Cred
    <3>2. QED
      BY <1>3, <3>1, HeldIsHand DEF HoldInv, OneHolder
  <2>2. QED
    BY <2>1 DEF OneHolder
<1>8. OnePhone' /\ LoggedOutGone'
  BY <1>1 DEF HoldInv, OnePhone, LoggedOutGone, GrantKind
<1>9. QED
  BY <1>1, <1>2, <1>4, <1>5, <1>6, <1>7, <1>8 DEF HoldInv

\* A code that is sent replaces the one its phone had.
LEMMA SendSets ==
  ASSUME TypeInv, HoldInv, NEW ph \in Phone, NEW c \in Code, SendKind(ph, c)
  PROVE  /\ c \notin Iss /\ Iss' = Iss \cup {c} /\ Live' = (Live \ {codes[ph]}) \cup {c}
         /\ Held' = Held
         /\ HoldInv'
<1> USE NullAssumption, CredentialAssumption DEF TypeInv, TypeOK, AuthTypeOK
<1>1. c \notin Iss /\ Iss' = Iss \cup {c} /\ c \in Cred
  BY DEF SendKind, Iss, Issued, Cred
<1>2. Live' = (Live \ {codes[ph]}) \cup {c}
  <2>1. ASSUME NEW d \in Cred
        PROVE  InRedis(d)' <=> (InRedis(d) /\ d # codes[ph]) \/ d = c
    <3>1. \A ph2 \in Phone : codes'[ph2] = IF ph2 = ph THEN c ELSE codes[ph2]
      BY DEF SendKind
    <3>2. d \in Code => d \notin store
      OBVIOUS
    <3>3. d = codes[ph] => \A ph2 \in Phone : codes[ph2] = d => ph2 = ph
      BY DEF HoldInv, OnePhone, Cred
    <3>4. store' = store /\ codes[ph] \in Code \cup {NULL} /\ d # NULL
      BY DEF SendKind, Cred
    <3>5. QED
      BY <3>1, <3>2, <3>3, <3>4 DEF InRedis
  <2>2. QED
    BY <1>1, <2>1 DEF Live
<1>3. \A q \in Proc : Hand(q)' = Hand(q)
  BY DEF SendKind
<1>4. Held' = Held
  BY <1>3, HeldIsHand DEF Held
<1>5. Apart'
  BY <1>1, <1>2, <1>4 DEF HoldInv, Apart
<1>6. OneHolder'
  BY <1>3, HeldIsHand DEF HoldInv, OneHolder
<1>7. OnePhone'
  <2>1. \A ph2 \in Phone : codes[ph2] # c
    BY <1>1 DEF HoldInv, Apart, Live, InRedis
  <2>2. QED
    BY <2>1 DEF HoldInv, OnePhone, SendKind
<1>8. LoggedOutGone'
  BY <1>1 DEF HoldInv, LoggedOutGone, SendKind
<1>9. QED
  BY <1>1, <1>2, <1>4, <1>5, <1>6, <1>7, <1>8 DEF HoldInv

-----------------------------------------------------------------------------
(* The refinement. *)

\* The phase of a credential, before and after a step, from the three sets.
LEMMA PhaseIs ==
  ASSUME NEW c \in Cred
  PROVE  /\ PhaseOf(c) = IF c \notin Iss THEN "unissued" ELSE IF c \in Live THEN "live"
                         ELSE IF c \in Held THEN "claimed" ELSE "dead"
         /\ PhaseOf(c)' = IF c \notin Iss' THEN "unissued" ELSE IF c \in Live' THEN "live"
                          ELSE IF c \in Held' THEN "claimed" ELSE "dead"
  BY DEF PhaseOf, Iss, Live, Held

\* Every kind of change is a step of OneTimeCredential or leaves its state alone.
LEMMA KindImplements ==
  ASSUME TypeInv, HoldInv, CredentialStep
  PROVE  HoldInv' /\ [Credentials!Next]_(Credentials!vars)
<1> DEFINE phase == [c \in Cred |-> PhaseOf(c)]
<1>0. Credentials!Cred = Cred
  BY DEF Credentials!Cred, Cred
<1>1. CASE DropKind
  <2> DEFINE gone == (Live \ Live') \cup (Held \ Held')
  <2>1. /\ Iss' = Iss /\ Live' \subseteq Live /\ Held' \subseteq Held /\ HoldInv'
        /\ Live \subseteq Iss /\ Held \subseteq Iss /\ Live \cap Held = {}
    BY <1>1, DropSets DEF HoldInv, Apart
  <2>2. gone \in SUBSET Cred
    BY DEF Live, Held
  <2>3. \A c \in gone : PhaseOf(c) \in {"live", "claimed"}
    BY <2>1, <2>2, PhaseIs
  <2>4. \A c \in Cred : PhaseOf(c)' = IF c \in gone THEN "dead" ELSE PhaseOf(c)
    BY <2>1, PhaseIs
  <2>5. UNCHANGED <<origin, family>>
    BY <1>1 DEF DropKind
  <2> HIDE DEF gone
  <2>6. Credentials!Discard(gone)
    BY <1>0, <2>2, <2>3, <2>4, <2>5 DEF Credentials!Discard
  <2>7. QED
    BY <1>0, <2>1, <2>2, <2>6 DEF Credentials!Next
<1>2. ASSUME NEW p \in Proc, NEW c \in Cred, TakeKind(p, c)
      PROVE  HoldInv' /\ [Credentials!Next]_(Credentials!vars)
  <2>1. /\ Iss' = Iss /\ c \in Live /\ Live' = Live \ {c} /\ Held' = Held \cup {c} /\ HoldInv'
        /\ Live \subseteq Iss /\ Held \subseteq Iss /\ Live \cap Held = {}
    BY <1>2, TakeSets DEF HoldInv, Apart
  <2>2. PhaseOf(c) = "live"
        /\ \A d \in Cred : PhaseOf(d)' = IF d = c THEN "claimed" ELSE PhaseOf(d)
    BY <2>1, PhaseIs
  <2>3. Credentials!Claim(c)
    BY <1>0, <1>2, <2>2 DEF Credentials!Claim, TakeKind
  <2>4. QED
    BY <1>0, <2>1, <2>3 DEF Credentials!Next
<1>3. ASSUME NEW p \in Proc, NEW t \in Token, GrantKind(p, t)
      PROVE  HoldInv' /\ [Credentials!Next]_(Credentials!vars)
  <2>1. /\ t \notin Iss /\ Iss' = Iss \cup {t} /\ Live' = Live \cup {t}
        /\ Held' = Held \ {Hand(p)} /\ Hand(p) \in Held \cup {NULL} /\ HoldInv'
        /\ Live \subseteq Iss /\ Held \subseteq Iss /\ Live \cap Held = {} /\ t \in Cred
    BY <1>3, GrantSets DEF HoldInv, Apart, Cred
  <2>2. /\ PhaseOf(t) = "unissued"
        /\ Hand(p) = NULL \/ PhaseOf(Hand(p)) = "claimed"
        /\ \A d \in Cred : PhaseOf(d)' = IF d = t THEN "live"
                                         ELSE IF d = Hand(p) THEN "dead" ELSE PhaseOf(d)
    BY <2>1, PhaseIs, NullAssumption DEF Held, Cred
  <2>3. Hand(p) \in Cred \cup {NULL}
    BY <2>1 DEF Held
  <2>4. Credentials!Grant(Hand(p), t)
    BY <1>0, <1>3, <2>1, <2>2, <2>3 DEF Credentials!Grant, GrantKind
  <2>5. QED
    BY <1>0, <2>1, <2>3, <2>4 DEF Credentials!Next
<1>4. ASSUME NEW ph \in Phone, NEW c \in Code, SendKind(ph, c)
      PROVE  HoldInv' /\ [Credentials!Next]_(Credentials!vars)
  <2> DEFINE replaced == {codes[ph]} \ {NULL}
  <2>1. /\ c \notin Iss /\ Iss' = Iss \cup {c} /\ Live' = (Live \ {codes[ph]}) \cup {c}
        /\ Held' = Held /\ HoldInv'
        /\ Live \subseteq Iss /\ Held \subseteq Iss /\ Live \cap Held = {} /\ c \in Cred
    BY <1>4, SendSets DEF HoldInv, Apart, Cred
  <2>2. replaced \in SUBSET Code
    BY DEF TypeInv, TypeOK, AuthTypeOK
  <2>3. replaced \subseteq Live
    BY <2>2 DEF Live, InRedis, Cred
  <2>4. /\ PhaseOf(c) = "unissued"
        /\ \A d \in replaced : PhaseOf(d) = "live"
        /\ \A d \in Cred : PhaseOf(d)' = IF d = c THEN "live"
                                         ELSE IF d \in replaced THEN "dead" ELSE PhaseOf(d)
    BY <2>1, <2>2, <2>3, PhaseIs, NullAssumption DEF Cred
  <2>5. UNCHANGED <<origin, family>>
    BY <1>4 DEF SendKind
  <2> HIDE DEF replaced
  <2>6. Credentials!Send(c, replaced)
    BY <1>0, <2>1, <2>2, <2>4, <2>5 DEF Credentials!Send, Cred
  <2>7. QED
    BY <2>1, <2>2, <2>6 DEF Credentials!Next
<1>5. QED
  BY <1>1, <1>2, <1>3, <1>4 DEF CredentialStep

\* No kind of change brings a token that was logged out back to Redis, or into
\* the hands of a request that had not got it.
LEMMA KindKeepsLoggedOut ==
  ASSUME TypeInv, HoldInv, CredentialStep, NEW t \in loggedOut
  PROVE  t \notin store' /\ (Claimed(t)' => Claimed(t))
<1>1. t \in Cred /\ t \in Token /\ t \in Iss /\ t \notin store /\ t \notin Live
  BY CredentialAssumption, NullAssumption
  DEF HoldInv, LoggedOutGone, TypeInv, TypeOK, AuthTypeOK, Cred, Live, InRedis
<1>2. t \in loggedOut' /\ HoldInv'
  BY KindImplements DEF CredentialStep, DropKind, TakeKind, GrantKind, SendKind
<1>3. t \notin store'
  BY <1>2 DEF HoldInv, LoggedOutGone
<1>4. Held' \subseteq Held \cup (Live \cap Held')
  BY DropSets, TakeSets, GrantSets, SendSets DEF CredentialStep
<1>5. QED
  BY <1>1, <1>3, <1>4 DEF Held

\* The types with the places of the credentials.
CredInv == TypeInv /\ HoldInv

\* At the start no credential is issued.
LEMMA InitCredInv == Init => CredInv /\ Credentials!Init
<1> SUFFICES ASSUME Init PROVE CredInv /\ Credentials!Init
  OBVIOUS
<1>1. TypeInv
  BY InitTypes
<1>2. Iss = {} /\ Live = {} /\ Held = {}
  BY NullAssumption
  DEF Init, AuthInit, Iss, Issued, Live, InRedis, Held, Claimed, Holding, Idle, Cred
<1>3. OneHolder
  BY DEF Init, OneHolder, Holding, Idle
<1>4. HoldInv
  BY <1>2, <1>3 DEF Init, AuthInit, HoldInv, Apart, OnePhone, LoggedOutGone
<1>5. Credentials!Init
  BY <1>2, PhaseIs DEF Init, AuthInit, Credentials!Init, Credentials!Cred, Cred
<1>6. QED
  BY <1>1, <1>4, <1>5 DEF CredInv

\* The types and the places of the credentials are kept by every step, which is
\* a step of OneTimeCredential.
LEMMA StepCredInv ==
  CredInv /\ [Next]_vars => CredInv' /\ [Credentials!Next]_(Credentials!vars)
  BY StepTypes, StepKind, KindImplements DEF CredInv

\* RefreshToken, Login, SmsLogin and Logout implement the promise about one-time
\* credentials, under every interleaving, lost answer of Redis and crash.
THEOREM IdentityImplementsCredentials == Spec => ImplementsCredentials
<1>1. Init => CredInv /\ Credentials!Init
  BY InitCredInv
<1>2. CredInv /\ [Next]_vars => CredInv' /\ [Credentials!Next]_(Credentials!vars)
  BY StepCredInv
<1>3. QED
  BY <1>1, <1>2, PTL DEF Spec, ImplementsCredentials, Credentials!Spec

\* After Logout has reported success nothing brings the token back to Redis and
\* no request that had not taken it before can exchange it.
THEOREM LogoutFinal == Spec => LogoutIsFinal
<1>1. Init => CredInv
  BY InitCredInv
<1>2. CredInv /\ [Next]_vars => CredInv'
  BY StepCredInv
<1>3. CredInv /\ [Next]_vars =>
        [\A t \in loggedOut :
            /\ t \notin store'
            /\ Claimed(t)' => Claimed(t)]_vars
  BY StepKind, KindKeepsLoggedOut DEF CredInv
<1>4. QED
  BY <1>1, <1>2, <1>3, PTL DEF Spec, LogoutIsFinal

-----------------------------------------------------------------------------
(* What follows from the refinement by the proofs about OneTimeCredential. *)

Promise == INSTANCE OneTimeCredentialProofs WITH
    phase <- [c \in Cred |-> PhaseOf(c)]

\* What OneTimeCredential promises holds of the identity process.
LEMMA PromiseHolds == Spec => [](SingleUse /\ OneHeadPerFamily)
<1>1. Promise!Distinct
  BY NullAssumption, CredentialAssumption DEF Promise!Distinct, Promise!Cred
<1>2. Promise!Spec => [](Promise!SingleUse /\ Promise!OneHeadPerFamily)
  BY <1>1, Promise!PromiseKept
<1>3. Credentials!Init => Promise!Init
  BY DEF Credentials!Init, Promise!Init, Credentials!Cred, Promise!Cred
<1>4. [Credentials!Next]_(Credentials!vars) => [Promise!Next]_(Promise!vars)
  BY DEF Credentials!Next, Promise!Next, Credentials!vars, Promise!vars,
         Credentials!Send, Promise!Send, Credentials!Claim, Promise!Claim,
         Credentials!Grant, Promise!Grant, Credentials!Discard, Promise!Discard,
         Credentials!Cred, Promise!Cred
<1>5. Promise!SingleUse /\ Promise!OneHeadPerFamily => SingleUse /\ OneHeadPerFamily
  BY DEF SingleUse, Credentials!SingleUse, Promise!SingleUse,
         OneHeadPerFamily, Credentials!OneHeadPerFamily, Promise!OneHeadPerFamily
<1>6. QED
  BY <1>2, <1>3, <1>4, <1>5, IdentityImplementsCredentials, PTL
  DEF ImplementsCredentials, Credentials!Spec, Promise!Spec

\* No refresh token and no SMS code is exchanged for two refresh tokens: neither
\* concurrent requests nor a lost answer nor a crash double a session.
THEOREM CredentialsUsedOnce == Spec => []SingleUse
  BY PromiseHolds, PTL

\* Of the tokens that descend from one login at most one is usable or about to
\* be exchanged: a client that refreshes twice at once does not fork its session.
THEOREM SessionsDoNotFork == Spec => []OneHeadPerFamily
  BY PromiseHolds, PTL

=============================================================================
