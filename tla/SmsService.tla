----------------------------- MODULE SmsService -----------------------------
(***************************************************************************)
(* service/sms_service.go with the Redis keys it works on: the reservation *)
(* of a phone (SETNX with a TTL of 60 s) and the code of a phone and a     *)
(* purpose; and the audit table sms_records.  SendCode is one step per     *)
(* call to Redis, the SMS gateway or the database, VerifyCode one Lua      *)
(* script.                                                                 *)
(*                                                                         *)
(* The JSON copy of a code that Store writes next to it is read by nobody  *)
(* and left out.  A phone that is no mobile number and a purpose that is   *)
(* not one of the three are refused before anything happens.               *)
(***************************************************************************)
CONSTANTS
    Proc,     \* goroutines serving SMS requests
    Phone,    \* valid phone numbers
    Purpose,  \* what a code is for: login, register, reset_password
    Code,     \* one element per SendCode attempt: the code it generates
    ClientRetries,  \* the Redis client repeats a command whose answer is lost
                    \* (go-redis does, three times, unless told otherwise)
    NULL

ASSUME ClientRetriesAssumption == ClientRetries \in BOOLEAN
ASSUME NullAssumption == NULL \notin Code \cup Phone \cup Purpose

VARIABLES
    limit,     \* sms:ratelimit:<phone>: the attempt that reserved it, or NULL
               \* (Redis only knows that the key is there)
    tokens,    \* sms:code:<purpose>:<phone>:token: a code or NULL
    records,   \* the audit table: pairs of an attempt and its status
    req,       \* what each goroutine is doing
    \* history variables
    used,      \* the attempts begun
    sent,      \* the codes the gateway answered ok for, with phone and purpose
    stored,    \* the codes that have been stored
    accepted,  \* the codes VerifyCode has said ok to
    lapsed     \* the attempts whose reservation ended before they did

vars == <<limit, tokens, records, req, used, sent, stored, accepted, lapsed>>

\* Where SendCode stands: the call it makes next.
Pc == {"idle",
       "gateway",  \* gateway.Send
       "release",  \* ReleaseRateLimit after a failure
       "failure",  \* SaveSendFailure
       "store",    \* SaveCode: cache.Store
       "insert"}   \* SaveCode: dao.Insert

Request == [pc      : Pc,
            phone   : Phone \cup {NULL},
            purpose : Purpose \cup {NULL},
            code    : Code \cup {NULL},
            refused : BOOLEAN]            \* the gateway failed: an audit record follows

Idle == [pc |-> "idle", phone |-> NULL, purpose |-> NULL, code |-> NULL,
         refused |-> FALSE]

TypeOK ==
    /\ limit \in [Phone -> Code \cup {NULL}]
    /\ tokens \in [Phone -> [Purpose -> Code \cup {NULL}]]
    /\ records \subseteq Code \X {"success", "failed"}
    /\ req \in [Proc -> Request]
    /\ used \subseteq Code
    /\ sent \subseteq Code \X Phone \X Purpose
    /\ stored \subseteq Code
    /\ accepted \subseteq Code
    /\ lapsed \subseteq Code

Init ==
    /\ limit = [ph \in Phone |-> NULL]
    /\ tokens = [ph \in Phone |-> [pu \in Purpose |-> NULL]]
    /\ records = {} /\ used = {} /\ sent = {} /\ stored = {}
    /\ accepted = {} /\ lapsed = {}
    /\ req = [p \in Proc |-> Idle]

-----------------------------------------------------------------------------
(* SendCode *)

\* The reservation of phone ends; its attempt may still be running.
EndReservation(phone) ==
    /\ limit' = [limit EXCEPT ![phone] = NULL]
    /\ lapsed' = lapsed \cup ({limit[phone]} \ {NULL})

Goto(p, pc) == req' = [req EXCEPT ![p].pc = pc]

Return(p) == req' = [req EXCEPT ![p] = Idle]

\* Mutant of SendCode: the limit is read first and set in a later call, so two
\* attempts find the phone free.
SendCodeUnreserved(p) ==
    /\ req[p].pc = "idle"
    /\ \E phone \in Phone, purpose \in Purpose, c \in Code \ used :
        /\ limit[phone] = NULL \/ \E q \in Proc : req[q].code = limit[phone]
        /\ limit' = [limit EXCEPT ![phone] = c]
        /\ used' = used \cup {c}
        /\ req' = [req EXCEPT ![p] = [pc |-> "gateway", phone |-> phone,
                                      purpose |-> purpose, code |-> c,
                                      refused |-> FALSE]]
    /\ UNCHANGED <<tokens, records, sent, stored, accepted, lapsed>>

\* Mutant of SendCode: the error of NewSmsCode is not looked at.
SendCodeWithoutCode(p) ==
    /\ req[p].pc = "idle"
    /\ \E phone \in Phone, purpose \in Purpose, c \in Code \ used :
        /\ limit[phone] = NULL
        /\ limit' = [limit EXCEPT ![phone] = c]
        /\ used' = used \cup {c}
        /\ \E code \in {c, NULL} :
                req' = [req EXCEPT ![p] = [pc |-> "gateway", phone |-> phone,
                                           purpose |-> purpose, code |-> code,
                                           refused |-> FALSE]]
    /\ UNCHANGED <<tokens, records, sent, stored, accepted, lapsed>>

\* TryReserveRateLimit, then NewSmsCode, which fails when there is no randomness.
\* If the answer to the SETNX is lost the phone stays reserved.
SendCode(p) ==
    /\ req[p].pc = "idle"
    /\ \E phone \in Phone, purpose \in Purpose, c \in Code \ used :
        /\ limit[phone] = NULL
        /\ limit' = [limit EXCEPT ![phone] = c]
        /\ used' = used \cup {c}
        /\ \/ \E pc \in {"gateway", "release"} :
                req' = [req EXCEPT ![p] = [pc |-> pc, phone |-> phone,
                                           purpose |-> purpose, code |-> c,
                                           refused |-> FALSE]]
           \/ UNCHANGED req
    /\ UNCHANGED <<tokens, records, sent, stored, accepted, lapsed>>

\* Mutant of Send: the error is recorded and the code is saved all the same.
SendIgnoresError(p) ==
    /\ req[p].pc = "gateway"
    /\ \/ /\ Goto(p, "store")
          /\ sent' = sent \cup {<<req[p].code, req[p].phone, req[p].purpose>>}
       \/ /\ req' = [req EXCEPT ![p].pc = "store", ![p].refused = TRUE]
          /\ UNCHANGED sent
    /\ UNCHANGED <<limit, tokens, records, used, stored, accepted, lapsed>>

\* The gateway accepts the message, or answers with an error.
Send(p) ==
    /\ req[p].pc = "gateway"
    /\ \/ /\ Goto(p, "store")
          /\ sent' = sent \cup {<<req[p].code, req[p].phone, req[p].purpose>>}
       \/ /\ req' = [req EXCEPT ![p].pc = "release", ![p].refused = TRUE]
          /\ UNCHANGED sent
    /\ UNCHANGED <<limit, tokens, records, used, stored, accepted, lapsed>>

\* Mutant of ReleaseRateLimit: every attempt on the phone is released.
ReleaseAnyPhone(p) ==
    /\ req[p].pc = "release"
    /\ \E phone \in Phone : EndReservation(phone)
    /\ \/ req[p].refused /\ Goto(p, "failure")
       \/ ~req[p].refused /\ Return(p)
    /\ UNCHANGED <<tokens, records, used, sent, stored, accepted>>

\* ReleaseRateLimit deletes the key of the phone, whoever set it; an error is
\* ignored.
ReleaseRateLimit(p) ==
    /\ req[p].pc = "release"
    /\ \/ EndReservation(req[p].phone)
       \/ UNCHANGED <<limit, lapsed>>
    /\ \/ req[p].refused /\ Goto(p, "failure")
       \/ ~req[p].refused /\ Return(p)
       \/ ClientRetries /\ UNCHANGED req
    /\ UNCHANGED <<tokens, records, used, sent, stored, accepted>>

SaveSendFailure(p) ==
    /\ req[p].pc = "failure"
    /\ records' \in {records, records \cup {<<req[p].code, "failed">>}}
    /\ Return(p)
    /\ UNCHANGED <<limit, tokens, used, sent, stored, accepted, lapsed>>

\* Mutant of Store: a SaveCode that returned an error is called once more.
StoreAgain(p) ==
    /\ req[p].pc = "store"
    /\ tokens' = [tokens EXCEPT ![req[p].phone][req[p].purpose] = req[p].code]
    /\ stored' = stored \cup {req[p].code}
    /\ Goto(p, "insert") \/ UNCHANGED req
    /\ UNCHANGED <<limit, records, used, sent, accepted, lapsed>>

\* The SET of the token, replacing the code before.  If it fails, or its answer
\* is lost, SaveCode returns the error and no record is written.
Store(p) ==
    /\ req[p].pc = "store"
    /\ \/ /\ tokens' = [tokens EXCEPT ![req[p].phone][req[p].purpose] = req[p].code]
          /\ stored' = stored \cup {req[p].code}
          /\ \/ Goto(p, "insert") \/ Return(p)
             \/ ClientRetries /\ UNCHANGED req
       \/ Return(p) /\ UNCHANGED <<tokens, stored>>
    /\ UNCHANGED <<limit, records, used, sent, accepted, lapsed>>

Insert(p) ==
    /\ req[p].pc = "insert"
    /\ records' \in {records, records \cup {<<req[p].code, "success">>}}
    /\ Return(p)
    /\ UNCHANGED <<limit, tokens, used, sent, stored, accepted, lapsed>>

-----------------------------------------------------------------------------
(* VerifyCode: the script deletes the code before it compares. *)

\* Mutant of VerifyCode: GET and compare, without the DEL.
VerifyCodeKeeps ==
    /\ \E phone \in Phone, purpose \in Purpose :
        /\ tokens[phone][purpose] # NULL
        /\ accepted' = accepted \cup {tokens[phone][purpose]}
    /\ UNCHANGED <<limit, tokens, records, req, used, sent, stored, lapsed>>

VerifyCode ==
    /\ \E phone \in Phone, purpose \in Purpose :
        /\ tokens[phone][purpose] # NULL
        /\ tokens' = [tokens EXCEPT ![phone][purpose] = NULL]
        /\ \/ accepted' = accepted \cup {tokens[phone][purpose]}
           \/ UNCHANGED accepted  \* a wrong code, or the answer was lost
    /\ UNCHANGED <<limit, records, req, used, sent, stored, lapsed>>

-----------------------------------------------------------------------------
(* The clock and Redis; the process. *)

LimitExpires ==
    /\ \E phone \in Phone : limit[phone] # NULL /\ EndReservation(phone)
    /\ UNCHANGED <<tokens, records, req, used, sent, stored, accepted>>

TokenExpires ==
    /\ \E phone \in Phone, purpose \in Purpose :
        /\ tokens[phone][purpose] # NULL
        /\ tokens' = [tokens EXCEPT ![phone][purpose] = NULL]
    /\ UNCHANGED <<limit, records, req, used, sent, stored, accepted, lapsed>>

Crash ==
    /\ req' = [p \in Proc |-> Idle]
    /\ UNCHANGED <<limit, tokens, records, used, sent, stored, accepted, lapsed>>

Next ==
    \/ \E p \in Proc : \/ SendCode(p) \/ Send(p) \/ ReleaseRateLimit(p)
                       \/ SaveSendFailure(p) \/ Store(p) \/ Insert(p)
    \/ VerifyCode
    \/ LimitExpires \/ TokenExpires \/ Crash

Spec == Init /\ [][Next]_vars

-----------------------------------------------------------------------------
(* The life of a code, as OneTimeCredential sees it. *)

InRedis(c) == \E ph \in Phone, pu \in Purpose : tokens[ph][pu] = c

PhaseOf(c) ==
    IF c \notin stored THEN "unissued"
    ELSE IF InRedis(c) THEN "live"
    ELSE IF c \in accepted THEN "claimed"
    ELSE "dead"

Codes == INSTANCE OneTimeCredential WITH
    Token <- {}, phase <- [c \in Code |-> PhaseOf(c)],
    origin <- [t \in {} |-> NULL], family <- [t \in {} |-> NULL]

-----------------------------------------------------------------------------
(* Properties *)

\* SendCode holds a phone from its reservation to its end: a second attempt on
\* the phone is under way only if the reservation of one of them ended early.
OneAttemptPerPhone ==
    \A p, q \in Proc :
        /\ p # q /\ req[p].phone = req[q].phone
        /\ req[p].pc \in {"gateway", "release", "store", "insert"}
        /\ req[q].pc \in {"gateway", "release", "store", "insert"}
        => req[p].code \in lapsed \/ req[q].code \in lapsed

\* SendCode stores a code only after the gateway took it, for the phone and the
\* purpose it was sent for: a failed send leaves nothing that can be verified.
OnlySentCodesStored ==
    \A ph \in Phone, pu \in Purpose :
        tokens[ph][pu] # NULL => <<tokens[ph][pu], ph, pu>> \in sent

\* The audit table agrees with what happened: a success was sent and stored, a
\* failure was neither, whatever was interrupted in between.
AuditAgrees ==
    /\ \A c \in Code : <<c, "success">> \in records =>
          c \in stored /\ \E ph \in Phone, pu \in Purpose : <<c, ph, pu>> \in sent
    /\ \A c \in Code : <<c, "failed">> \in records =>
          c \notin stored /\ \A ph \in Phone, pu \in Purpose : <<c, ph, pu>> \notin sent

\* VerifyCode accepts a code at most once: an accepted code is not in Redis.
AcceptedIsGone == \A c \in accepted : ~InRedis(c)

\* A reservation ends with its TTL, by the attempt that made it, or by one that
\* outlived its own: ReleaseRateLimit deletes the key without looking.
OnlyOverdueReleaseOthers ==
    [][\A ph \in Phone : limit[ph] # NULL /\ limit'[ph] # limit[ph] /\ req' # req =>
        \E p \in Proc : /\ req[p].pc = "release" /\ req[p].phone = ph
                        /\ req[p].code = limit[ph] \/ req[p].code \in lapsed]_vars

\* A code is live once: stored, replaced, deleted or expired it never returns.
ImplementsCodes == Codes!Spec

-----------------------------------------------------------------------------
(* What the plan of the service says and the code does not guarantee. *)

\* Within the TTL a phone stays limited unless its own attempt failed.
LimitLastsItsMinute ==
    [][\A ph \in Phone : limit[ph] # NULL /\ limit'[ph] # limit[ph] /\ req' # req =>
        \E p \in Proc : req[p].pc = "release" /\ req[p].code = limit[ph]]_vars

=============================================================================
