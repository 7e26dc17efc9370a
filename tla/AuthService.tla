----------------------------- MODULE AuthService -----------------------------
(***************************************************************************)
(* service/auth_service.go with the Redis keys it works on: the refresh    *)
(* tokens (auth:refresh:<jti>) and, through the SMS service, the login     *)
(* codes.  A handler is one step per call to Redis or the database; the    *)
(* checks in Go between two calls belong to the step before them.          *)
(*                                                                         *)
(* A call to Redis fails in two ways: it was not executed, or it was and   *)
(* the answer was lost.  A request rejected before it changes anything (bad *)
(* password, frozen user, invalid, expired or access token, unknown code)  *)
(* is no step.                                                             *)
(***************************************************************************)
EXTENDS UserRepo

VARIABLES
    store,      \* the jti with a key auth:refresh:<jti> in Redis
    owner,      \* the subject of the signed refresh token; NULL: not issued
    delivered,  \* the refresh tokens some client has been sent
    codes,      \* the login code Redis holds for a phone
    sent,       \* the codes generated so far
    \* history variables
    origin,     \* the one-time credential a token was given for; NULL: a password
    family,     \* the token of the login a token descends from by refreshes
    loggedOut   \* the tokens for which Logout has returned success

authVars == <<store, owner, delivered, codes, sent, origin, family,
              loggedOut>>

AuthTypeOK ==
    /\ store \subseteq Token
    /\ owner \in [Token -> UserId \cup {NULL}]
    /\ delivered \subseteq Token
    /\ codes \in [Phone -> Code \cup {NULL}]
    /\ sent \subseteq Code
    /\ origin \in [Token -> Cred \cup {NULL}]
    /\ family \in [Token -> Token \cup {NULL}]
    /\ loggedOut \subseteq Token

AuthInit ==
    /\ store = {} /\ delivered = {} /\ loggedOut = {} /\ sent = {}
    /\ owner = [t \in Token |-> NULL]
    /\ codes = [ph \in Phone |-> NULL]
    /\ origin = [t \in Token |-> NULL]
    /\ family = [t \in Token |-> NULL]

-----------------------------------------------------------------------------
(* Logging in. *)

\* p has read the row of active user i and goes on to generateTokenPair.
ToPair(p, op, i, cred) ==
    /\ IsActive(users[i])
    /\ req' = [req EXCEPT ![p] = [Idle EXCEPT !.pc = "pair", !.op = op, !.id = i,
                                              !.row = users[i], !.cred = cred]]

\* Login: the SELECT by user name, the password check, the status check.
Login(p) ==
    /\ req[p].pc = "idle"
    /\ \E username \in Username, password \in Password :
        \E i \in FindByUsername(username) :
            /\ users[i].passwordHash = password
            /\ ToPair(p, "login", i, NULL)
    /\ UNCHANGED <<users, authVars>>

\* Mutant of SmsLogin: the code is read and compared, and deleted by nobody.
SmsLoginKeepsCode(p) ==
    /\ req[p].pc = "idle"
    /\ \E phone \in Phone :
        /\ codes[phone] # NULL
        /\ req' = [req EXCEPT ![p] = [Idle EXCEPT !.pc = "byphone", !.op = "sms",
                                                  !.phone = phone,
                                                  !.cred = codes[phone]]]
    /\ UNCHANGED <<users, authVars>>

\* SmsLogin: VerifyAndConsume deletes the code of the phone whatever the
\* request says, and the login goes on when it was the right one.
SmsLogin(p) ==
    /\ req[p].pc = "idle"
    /\ \E phone \in Phone :
        /\ codes[phone] # NULL
        /\ codes' = [codes EXCEPT ![phone] = NULL]
        /\ \/ req' = [req EXCEPT ![p] = [Idle EXCEPT !.pc = "byphone", !.op = "sms",
                                                     !.phone = phone,
                                                     !.cred = codes[phone]]]
           \/ UNCHANGED req  \* a wrong code, or the answer was lost
    /\ UNCHANGED <<users, store, owner, delivered, sent, origin,
                   family, loggedOut>>

\* Mutant of GetByPhone: an error of the SELECT is retried for ever.
GetByPhoneRetries(p) ==
    /\ req[p].pc = "byphone"
    /\ \E i \in FindByPhone(req[p].phone) : ToPair(p, "sms", i, req[p].cred)
    /\ UNCHANGED <<users, authVars>>

\* SmsLogin: the SELECT by phone and the status check.
GetByPhone(p) ==
    /\ req[p].pc = "byphone"
    /\ \/ \E i \in FindByPhone(req[p].phone) : ToPair(p, "sms", i, req[p].cred)
       \/ Return(p)  \* no such user, a frozen user, a failing database
    /\ UNCHANGED <<users, authVars>>

-----------------------------------------------------------------------------
(* generateTokenPair: Save under a fresh jti. *)

Fresh == {t \in Token : owner[t] = NULL}

Issue(p, t) ==
    /\ owner' = [owner EXCEPT ![t] = req[p].id]
    /\ store' = store \cup {t}
    /\ origin' = [origin EXCEPT ![t] = req[p].cred]
    /\ family' = [family EXCEPT ![t] =
                     IF req[p].op = "refresh" THEN family[req[p].cred] ELSE t]

\* Mutant of Save: the pair is handed on without its refresh token.
SaveForgetsToken(p) ==
    /\ req[p].pc = "pair"
    /\ \E t \in Fresh : Issue(p, t)
    /\ req' = [req EXCEPT ![p].pc = "lastlogin"]
    /\ UNCHANGED <<users, delivered, codes, sent, loggedOut>>

Save(p) ==
    /\ req[p].pc = "pair"
    /\ \E t \in Fresh :
        /\ Issue(p, t)
        /\ \/ /\ req[p].op = "refresh"  \* the pair is returned
              /\ delivered' = delivered \cup {t}
              /\ Return(p)
           \/ /\ req[p].op # "refresh"
              /\ req' = [req EXCEPT ![p].pc = "lastlogin", ![p].token = t]
              /\ UNCHANGED delivered
           \/ /\ Return(p)              \* saved, but the answer was lost
              /\ UNCHANGED delivered
    /\ UNCHANGED <<users, codes, sent, loggedOut>>

\* Save fails: the caller gets an error, and the credential stays consumed.
SaveFails(p) ==
    /\ req[p].pc = "pair"
    /\ Return(p)
    /\ UNCHANGED <<users, authVars>>

\* Login and SmsLogin end by writing the row they read back with a new
\* last_login_at; an error of that UPDATE is ignored.
LastLogin(p) ==
    /\ req[p].pc = "lastlogin"
    /\ \/ UpdateRow(p, Idle)
       \/ Return(p) /\ UNCHANGED users
    /\ delivered' = delivered \cup {req[p].token}
    /\ UNCHANGED <<store, owner, codes, sent, origin, family, loggedOut>>

-----------------------------------------------------------------------------
(* RefreshToken and Logout. *)

\* Verify accepts the token: signed by this service, not expired, a refresh token.
Presented(p, op, pc) ==
    /\ req[p].pc = "idle"
    /\ \E t \in delivered :
        req' = [req EXCEPT ![p] = [Idle EXCEPT !.pc = pc, !.op = op, !.cred = t]]
    /\ UNCHANGED <<users, authVars>>

RefreshToken(p) == Presented(p, "refresh", "consume")

Logout(p) == Presented(p, "logout", "revoke")

\* Mutant of Consume: EXISTS instead of the script; the key stays until it expires.
ConsumeKeepsKey(p) ==
    /\ req[p].pc = "consume"
    /\ \/ req[p].cred \in store /\ req' = [req EXCEPT ![p].pc = "getbyid"]
       \/ Return(p)
    /\ UNCHANGED <<users, authVars>>

\* The Lua script GET + DEL, atomic in Redis.
Consume(p) ==
    /\ req[p].pc = "consume"
    /\ \/ /\ req[p].cred \in store
          /\ store' = store \ {req[p].cred}
          /\ \/ req' = [req EXCEPT ![p].pc = "getbyid"]
             \/ Return(p)                   \* the answer was lost
       \/ Return(p) /\ UNCHANGED store      \* revoked, or a failing Redis
    /\ UNCHANGED <<users, owner, delivered, codes, sent, origin,
                   family, loggedOut>>

\* Mutant of GetByID: the status of the subject is not looked at.
GetByIDUnchecked(p) ==
    /\ req[p].pc = "getbyid"
    /\ \/ LET i == owner[req[p].cred]
          IN  /\ users[i] # NULL
              /\ req' = [req EXCEPT ![p] = [Idle EXCEPT !.pc = "pair", !.op = "refresh",
                                                        !.id = i, !.row = users[i],
                                                        !.cred = req[p].cred]]
       \/ Return(p)
    /\ UNCHANGED <<users, authVars>>

\* RefreshToken: the SELECT of the subject and the status check.
GetByID(p) ==
    /\ req[p].pc = "getbyid"
    /\ \/ LET i == owner[req[p].cred]
          IN  users[i] # NULL /\ ToPair(p, "refresh", i, req[p].cred)
       \/ Return(p)
    /\ UNCHANGED <<users, authVars>>

\* Mutant of Revoke: an error of DEL is swallowed and Logout reports success.
RevokeIgnoresError(p) ==
    /\ req[p].pc = "revoke"
    /\ store' \in {store, store \ {req[p].cred}}
    /\ loggedOut' = loggedOut \cup {req[p].cred}
    /\ Return(p)
    /\ UNCHANGED <<users, owner, delivered, codes, sent, origin, family>>

\* DEL: it succeeds whether or not the key is there.
Revoke(p) ==
    /\ req[p].pc = "revoke"
    /\ \/ /\ store' = store \ {req[p].cred}
          /\ loggedOut' = loggedOut \cup {req[p].cred}
       \/ /\ store' \in {store, store \ {req[p].cred}}
          /\ UNCHANGED loggedOut
    /\ Return(p)
    /\ UNCHANGED <<users, owner, delivered, codes, sent, origin, family>>

AuthServiceStep(p) ==
    \/ Login(p) \/ SmsLogin(p) \/ GetByPhone(p)
    \/ Save(p) \/ SaveFails(p) \/ LastLogin(p)
    \/ RefreshToken(p) \/ Consume(p) \/ GetByID(p)
    \/ Logout(p) \/ Revoke(p)

-----------------------------------------------------------------------------
(* The clock, Redis and the SMS service. *)

\* A key disappears from Redis: its TTL, an eviction, a restart.
KeyExpires ==
    /\ \E t \in store : store' = store \ {t}
    /\ UNCHANGED <<users, req, owner, delivered, codes, sent, origin,
                   family, loggedOut>>

\* The SMS service stores a newly generated code, replacing the one before.
StoreCode ==
    /\ \E phone \in Phone, c \in Code \ sent :
        /\ codes' = [codes EXCEPT ![phone] = c]
        /\ sent' = sent \cup {c}
    /\ UNCHANGED <<users, req, store, owner, delivered, origin, family,
                   loggedOut>>

CodeExpires ==
    /\ \E phone \in Phone : codes[phone] # NULL /\ codes' = [codes EXCEPT ![phone] = NULL]
    /\ UNCHANGED <<users, req, store, owner, delivered, sent, origin,
                   family, loggedOut>>

EnvironmentStep == KeyExpires \/ StoreCode \/ CodeExpires

=============================================================================
