-------------------------- MODULE SmsServiceProofs --------------------------
(***************************************************************************)
(* Theorems about SendCode and VerifyCode, for any number of goroutines,   *)
(* phones, purposes and attempts, with or without a retrying Redis client. *)
(***************************************************************************)
EXTENDS SmsService, TLAPS

InFlight == {"gateway", "release", "store", "insert"}

\* The code of attempt c has been given to the gateway for some phone.
WasSent(c) == \E ph \in Phone, pu \in Purpose : <<c, ph, pu>> \in sent

\* A request under way works on an attempt of its own.
OwnAttempt ==
    /\ \A p \in Proc : req[p].pc # "idle" =>
          /\ req[p].phone \in Phone /\ req[p].purpose \in Purpose
          /\ req[p].code \in Code /\ req[p].code \in used
    /\ \A p, q \in Proc :
          p # q /\ req[p].pc # "idle" /\ req[q].pc # "idle" => req[p].code # req[q].code

\* A request has the phone reserved, or has lost the reservation.
HasReservation ==
    \A p \in Proc : req[p].pc \in InFlight =>
        limit[req[p].phone] = req[p].code \/ req[p].code \in lapsed

\* How far the code of a request has come.
Progress ==
    \A p \in Proc :
        /\ req[p].pc \in {"gateway", "release", "failure"} =>
              ~WasSent(req[p].code) /\ req[p].code \notin stored
        /\ req[p].pc \in {"store", "insert"} =>
              <<req[p].code, req[p].phone, req[p].purpose>> \in sent
        /\ req[p].pc = "insert" => req[p].code \in stored

\* Nothing is recorded, sent or stored for an attempt that has not begun, and a
\* failed attempt is over.
Recorded ==
    /\ \A c \in Code : WasSent(c) \/ c \in stored => c \in used
    /\ \A c \in Code : <<c, "failed">> \in records =>
          c \in used /\ \A p \in Proc : req[p].pc # "idle" => req[p].code # c

\* The invariants of the runs, strengthened to be inductive.
IInv ==
    /\ TypeOK
    /\ OwnAttempt
    /\ HasReservation
    /\ Progress
    /\ Recorded
    /\ OnlySentCodesStored
    /\ AuditAgrees

\* Two requests in flight on one phone would both be the holder of its key.
LEMMA Exclusion == IInv => OneAttemptPerPhone
  BY DEF IInv, OwnAttempt, HasReservation, InFlight, OneAttemptPerPhone

\* The invariant holds of empty tables and idle goroutines.
LEMMA InitIInv == Init => IInv
  BY DEF Init, Idle, IInv, TypeOK, Request, Pc, OwnAttempt, HasReservation, InFlight,
         Progress, Recorded, OnlySentCodesStored, AuditAgrees, WasSent

\* Every step preserves the inductive invariant.
LEMMA StepIInv == IInv /\ [Next]_vars => IInv'
<1> SUFFICES ASSUME IInv, [Next]_vars PROVE IInv'
  OBVIOUS
<1> USE DEF IInv, WasSent, InFlight
<1>1. Idle \in Request /\ Idle.pc = "idle"
  BY DEF Idle, Request, Pc
<1>2. ASSUME NEW p \in Proc, SendCode(p) PROVE IInv'
  <2>1. PICK phone \in Phone, purpose \in Purpose, c \in Code \ used :
          /\ limit' = [limit EXCEPT ![phone] = c] /\ limit[phone] = NULL
          /\ used' = used \cup {c}
          /\ \/ \E pc \in {"gateway", "release"} :
                  req' = [req EXCEPT ![p] = [pc |-> pc, phone |-> phone,
                                             purpose |-> purpose, code |-> c,
                                             refused |-> FALSE]]
             \/ UNCHANGED req
    BY <1>2 DEF SendCode
  <2>2. UNCHANGED <<tokens, records, sent, stored, accepted, lapsed>>
    BY <1>2 DEF SendCode
  <2>3. \A q \in Proc :
          \/ req'[q] = req[q]
          \/ /\ q = p /\ req'[q].pc \in {"gateway", "release"} /\ req'[q].code = c
             /\ req'[q].phone = phone /\ req'[q].purpose = purpose
    BY <2>1 DEF TypeOK
  <2>4. TypeOK'
    <3>1. \A pc \in {"gateway", "release"} :
            [pc |-> pc, phone |-> phone, purpose |-> purpose, code |-> c,
             refused |-> FALSE] \in Request
      BY DEF Request, Pc
    <3>2. req' \in [Proc -> Request]
      BY <2>1, <3>1 DEF TypeOK
    <3>3. QED
      BY <2>1, <2>2, <3>2 DEF TypeOK
  <2>5. OwnAttempt'
    BY <2>1, <2>3 DEF OwnAttempt
  <2>6. HasReservation'
    <3>1. ASSUME NEW q \in Proc, req[q].pc \in InFlight, req[q].phone = phone
          PROVE  req[q].code \in lapsed
      BY <2>1, <3>1, NullAssumption DEF HasReservation, OwnAttempt
    <3>2. QED
      BY <2>1, <2>2, <2>3, <3>1 DEF HasReservation, OwnAttempt, TypeOK
  <2>7. Progress' /\ Recorded'
    BY <2>1, <2>2, <2>3 DEF Progress, Recorded, OwnAttempt
  <2>8. OnlySentCodesStored' /\ AuditAgrees'
    BY <2>2 DEF OnlySentCodesStored, AuditAgrees
  <2>9. QED
    BY <2>4, <2>5, <2>6, <2>7, <2>8
<1>3. ASSUME NEW p \in Proc, Send(p) PROVE IInv'
  <2>1. UNCHANGED <<limit, tokens, records, used, stored, accepted, lapsed>>
    BY <1>3 DEF Send
  <2>2. /\ req[p].pc = "gateway" /\ req[p].code \in used /\ req[p].code \in Code
        /\ req[p].phone \in Phone /\ req[p].purpose \in Purpose /\ req[p] \in Request
    BY <1>3 DEF Send, OwnAttempt, TypeOK
  <2>3. CASE /\ req' = [req EXCEPT ![p].pc = "store"]
             /\ sent' = sent \cup {<<req[p].code, req[p].phone, req[p].purpose>>}
    <3>1. TypeOK'
      BY <2>1, <2>2, <2>3 DEF TypeOK, Request, Pc
    <3>2. OwnAttempt' /\ HasReservation'
      BY <2>1, <2>2, <2>3 DEF OwnAttempt, HasReservation, TypeOK, Request
    <3>3. Progress' /\ Recorded'
      BY <2>1, <2>2, <2>3 DEF Progress, Recorded, OwnAttempt, TypeOK, Request
    <3>4. OnlySentCodesStored' /\ AuditAgrees'
      BY <2>1, <2>2, <2>3 DEF OnlySentCodesStored, AuditAgrees, Recorded
    <3>5. QED
      BY <3>1, <3>2, <3>3, <3>4
  <2>4. CASE /\ req' = [req EXCEPT ![p].pc = "release", ![p].refused = TRUE]
             /\ UNCHANGED sent
    <3> DEFINE r == [[req[p] EXCEPT !.pc = "release"] EXCEPT !.refused = TRUE]
    <3>1. req' = [req EXCEPT ![p] = r]
      BY <2>4 DEF TypeOK
    <3>2. /\ r \in Request /\ r.pc = "release" /\ r.code = req[p].code
          /\ r.phone = req[p].phone /\ r.purpose = req[p].purpose
      BY <2>2 DEF Request, Pc
    <3>3. TypeOK'
      BY <2>1, <2>4, <3>1, <3>2 DEF TypeOK
    <3>4. OwnAttempt' /\ HasReservation'
      BY <2>1, <2>2, <3>1, <3>2 DEF OwnAttempt, HasReservation, TypeOK
    <3>5. Progress' /\ Recorded'
      <4>1. Progress'
        BY <2>1, <2>2, <2>4, <3>1, <3>2 DEF Progress, TypeOK
      <4>2. Recorded'
        BY <2>1, <2>2, <2>4, <3>1, <3>2 DEF Recorded, TypeOK
      <4>3. QED
        BY <4>1, <4>2
    <3>6. OnlySentCodesStored' /\ AuditAgrees'
      BY <2>1, <2>4 DEF OnlySentCodesStored, AuditAgrees
    <3>7. QED
      BY <3>3, <3>4, <3>5, <3>6
  <2>5. QED
    BY <1>3, <2>3, <2>4 DEF Send, Goto
<1>4. ASSUME NEW p \in Proc, ReleaseRateLimit(p) PROVE IInv'
  <2>1. UNCHANGED <<tokens, records, used, sent, stored, accepted>>
    BY <1>4 DEF ReleaseRateLimit
  <2>2. /\ req[p].pc = "release" /\ req[p].code \in used /\ req[p].code \in Code
        /\ req[p].phone \in Phone /\ req[p].purpose \in Purpose /\ req[p] \in Request
    BY <1>4 DEF ReleaseRateLimit, OwnAttempt, TypeOK
  <2>3. /\ limit' \in [Phone -> Code \cup {NULL}] /\ lapsed' \subseteq Code
        /\ lapsed \subseteq lapsed'
        /\ \A ph \in Phone : limit'[ph] = limit[ph] \/ limit[ph] = NULL \/ limit[ph] \in lapsed'
    BY <1>4, <2>2 DEF ReleaseRateLimit, EndReservation, TypeOK
  <2>4. /\ req' \in [Proc -> Request]
        /\ \A q \in Proc :
             \/ req'[q] = req[q]
             \/ /\ q = p /\ req'[q].pc = "failure" /\ req'[q].code = req[q].code
                /\ req'[q].phone = req[q].phone /\ req'[q].purpose = req[q].purpose
             \/ req'[q].pc = "idle"
    BY <1>1, <1>4, <2>2 DEF ReleaseRateLimit, Goto, Return, TypeOK, Request, Pc
  <2>5. TypeOK'
    BY <2>1, <2>3, <2>4 DEF TypeOK
  <2>6. OwnAttempt' /\ Progress' /\ Recorded'
    <3>1. OwnAttempt'
      BY <2>1, <2>2, <2>4 DEF OwnAttempt
    <3>2. Progress'
      BY <2>1, <2>2, <2>4 DEF Progress
    <3>3. Recorded'
      BY <2>1, <2>2, <2>4 DEF Recorded
    <3>4. QED
      BY <3>1, <3>2, <3>3
  <2>7. HasReservation'
    BY <2>3, <2>4, NullAssumption DEF HasReservation, OwnAttempt
  <2>8. OnlySentCodesStored' /\ AuditAgrees'
    BY <2>1 DEF OnlySentCodesStored, AuditAgrees
  <2>9. QED
    BY <2>5, <2>6, <2>7, <2>8
<1>5. ASSUME NEW p \in Proc, SaveSendFailure(p) PROVE IInv'
  <2>1. UNCHANGED <<limit, tokens, used, sent, stored, accepted, lapsed>>
        /\ req' = [req EXCEPT ![p] = Idle]
        /\ records' \in {records, records \cup {<<req[p].code, "failed">>}}
    BY <1>5 DEF SaveSendFailure, Return
  <2>2. req[p].pc = "failure" /\ req[p].code \in used /\ req[p].code \in Code
    BY <1>5 DEF SaveSendFailure, OwnAttempt
  <2>3. TypeOK'
    BY <1>1, <2>1, <2>2 DEF TypeOK
  <2>4. OwnAttempt' /\ HasReservation' /\ Progress'
    BY <1>1, <2>1 DEF OwnAttempt, HasReservation, Progress, TypeOK
  <2>5. Recorded'
    BY <1>1, <2>1, <2>2 DEF Recorded, OwnAttempt, TypeOK
  <2>6. OnlySentCodesStored' /\ AuditAgrees'
    <3>1. ~WasSent(req[p].code) /\ req[p].code \notin stored
      BY <2>2 DEF Progress
    <3>2. OnlySentCodesStored'
      BY <2>1 DEF OnlySentCodesStored
    <3>3. AuditAgrees'
      BY <2>1, <2>2, <3>1 DEF AuditAgrees
    <3>4. QED
      BY <3>2, <3>3
  <2>7. QED
    BY <2>3, <2>4, <2>5, <2>6
<1>6. ASSUME NEW p \in Proc, Store(p) PROVE IInv'
  <2>1. UNCHANGED <<limit, records, used, sent, accepted, lapsed>>
    BY <1>6 DEF Store
  <2>2. /\ req[p].pc = "store" /\ req[p].code \in used /\ req[p].code \in Code
        /\ req[p].phone \in Phone /\ req[p].purpose \in Purpose /\ req[p] \in Request
        /\ <<req[p].code, req[p].phone, req[p].purpose>> \in sent
    BY <1>6 DEF Store, OwnAttempt, Progress, TypeOK
  <2>3. /\ req' \in [Proc -> Request]
        /\ \A q \in Proc :
             \/ req'[q] = req[q]
             \/ /\ q = p /\ req'[q].pc = "insert" /\ req'[q].code = req[q].code
                /\ req'[q].phone = req[q].phone /\ req'[q].purpose = req[q].purpose
                /\ stored' = stored \cup {req[p].code}
             \/ req'[q].pc = "idle"
    BY <1>1, <1>6, <2>2 DEF Store, Goto, Return, TypeOK, Request, Pc
  <2>4. /\ tokens' \in [Phone -> [Purpose -> Code \cup {NULL}]]
        /\ stored' \in {stored, stored \cup {req[p].code}}
        /\ \A ph \in Phone, pu \in Purpose :
             \/ tokens'[ph][pu] = tokens[ph][pu]
             \/ ph = req[p].phone /\ pu = req[p].purpose /\ tokens'[ph][pu] = req[p].code
    BY <1>6, <2>2 DEF Store, TypeOK
  <2>5. TypeOK'
    BY <2>1, <2>2, <2>3, <2>4 DEF TypeOK
  <2>6. OwnAttempt' /\ HasReservation'
    <3>1. OwnAttempt'
      BY <2>1, <2>2, <2>3 DEF OwnAttempt
    <3>2. HasReservation'
      BY <2>1, <2>2, <2>3 DEF HasReservation
    <3>3. QED
      BY <3>1, <3>2
  <2>7. Progress' /\ Recorded'
    <3>1. Recorded'
      <4>1. \A c \in Code : WasSent(c)' \/ c \in stored' => c \in used
        <5>1. ASSUME NEW c \in Code, WasSent(c)' \/ c \in stored'
              PROVE  WasSent(c) \/ c \in stored \/ c = req[p].code
          BY <2>1, <2>4, <5>1
        <5>2. QED
          BY <2>2, <5>1 DEF Recorded
      <4>2. \A c \in Code : <<c, "failed">> \in records =>
              c \in used /\ \A q \in Proc : req'[q].pc # "idle" => req'[q].code # c
        BY <2>2, <2>3 DEF Recorded
      <4>3. QED
        BY <2>1, <4>1, <4>2 DEF Recorded
    <3>2. ASSUME NEW q \in Proc
          PROVE  /\ req'[q].pc \in {"gateway", "release", "failure"} =>
                       ~WasSent(req'[q].code) /\ req'[q].code \notin stored'
                 /\ req'[q].pc \in {"store", "insert"} =>
                       <<req'[q].code, req'[q].phone, req'[q].purpose>> \in sent
                 /\ req'[q].pc = "insert" => req'[q].code \in stored'
      <4>1. CASE req'[q] = req[q] /\ q # p
        BY <2>2, <2>4, <4>1 DEF Progress, OwnAttempt
      <4>2. CASE q = p
        BY <2>2, <2>3, <2>4, <4>2
      <4>3. CASE req'[q].pc = "idle"
        BY <4>3
      <4>4. QED
        BY <2>3, <4>1, <4>2, <4>3
    <3>3. QED
      BY <2>1, <3>1, <3>2 DEF Progress
  <2>8. OnlySentCodesStored'
    BY <2>1, <2>2, <2>4 DEF OnlySentCodesStored
  <2>9. AuditAgrees'
    BY <2>1, <2>2, <2>4 DEF AuditAgrees, Recorded
  <2>10. QED
    BY <2>5, <2>6, <2>7, <2>8, <2>9
<1>7. ASSUME NEW p \in Proc, Insert(p) PROVE IInv'
  <2>1. UNCHANGED <<limit, tokens, used, sent, stored, accepted, lapsed>>
        /\ req' = [req EXCEPT ![p] = Idle]
        /\ records' \in {records, records \cup {<<req[p].code, "success">>}}
    BY <1>7 DEF Insert, Return
  <2>2. /\ req[p].pc = "insert" /\ req[p].code \in stored /\ req[p].code \in Code
        /\ WasSent(req[p].code)
    BY <1>7 DEF Insert, OwnAttempt, Progress
  <2>3. TypeOK'
    BY <1>1, <2>1, <2>2 DEF TypeOK
  <2>4. OwnAttempt' /\ HasReservation' /\ Progress' /\ Recorded'
    BY <1>1, <2>1 DEF OwnAttempt, HasReservation, Progress, Recorded, TypeOK
  <2>5. OnlySentCodesStored' /\ AuditAgrees'
    BY <2>1, <2>2 DEF OnlySentCodesStored, AuditAgrees
  <2>6. QED
    BY <2>3, <2>4, <2>5
<1>8. CASE VerifyCode \/ TokenExpires
  <2>1. UNCHANGED <<limit, records, req, used, sent, stored, lapsed>>
    BY <1>8 DEF VerifyCode, TokenExpires
  <2>2. PICK phone \in Phone, purpose \in Purpose :
          /\ tokens' = [tokens EXCEPT ![phone][purpose] = NULL]
          /\ tokens[phone][purpose] # NULL
          /\ accepted' \in {accepted, accepted \cup {tokens[phone][purpose]}}
    BY <1>8 DEF VerifyCode, TokenExpires
  <2>3. TypeOK' /\ OnlySentCodesStored'
    BY <2>1, <2>2 DEF TypeOK, OnlySentCodesStored
  <2>4. OwnAttempt' /\ HasReservation' /\ Progress' /\ Recorded' /\ AuditAgrees'
    BY <2>1 DEF OwnAttempt, HasReservation, Progress, Recorded, AuditAgrees
  <2>5. QED
    BY <2>3, <2>4
<1>9. CASE LimitExpires
  <2>1. UNCHANGED <<tokens, records, req, used, sent, stored, accepted>>
    BY <1>9 DEF LimitExpires
  <2>2. /\ limit' \in [Phone -> Code \cup {NULL}] /\ lapsed' \subseteq Code
        /\ lapsed \subseteq lapsed'
        /\ \A ph \in Phone : limit'[ph] = limit[ph] \/ limit[ph] = NULL \/ limit[ph] \in lapsed'
    BY <1>9 DEF LimitExpires, EndReservation, TypeOK
  <2>3. TypeOK' /\ HasReservation'
    BY <2>1, <2>2, NullAssumption DEF TypeOK, HasReservation, OwnAttempt
  <2>4. OwnAttempt' /\ Progress' /\ Recorded' /\ OnlySentCodesStored' /\ AuditAgrees'
    BY <2>1 DEF OwnAttempt, Progress, Recorded, OnlySentCodesStored, AuditAgrees
  <2>5. QED
    BY <2>3, <2>4
<1>10. CASE Crash
  BY <1>1, <1>10 DEF Crash, TypeOK, OwnAttempt, HasReservation, Progress, Recorded,
              OnlySentCodesStored, AuditAgrees
<1>11. CASE UNCHANGED vars
  BY <1>11 DEF vars, TypeOK, OwnAttempt, HasReservation, Progress, Recorded,
              OnlySentCodesStored, AuditAgrees
<1>12. QED
  BY <1>2, <1>3, <1>4, <1>5, <1>6, <1>7, <1>8, <1>9, <1>10, <1>11 DEF Next

\* SendCode, for all constants: two attempts share a phone only after one of them
\* has lost its reservation, only codes the gateway took can be verified, and
\* the audit table agrees with what happened.
THEOREM SendCodeCorrect ==
  Spec => [](TypeOK /\ OneAttemptPerPhone /\ OnlySentCodesStored /\ AuditAgrees)
<1>1. IInv => TypeOK /\ OneAttemptPerPhone /\ OnlySentCodesStored /\ AuditAgrees
  BY Exclusion DEF IInv
<1>2. QED
  BY <1>1, InitIInv, StepIInv, PTL DEF Spec

\* The keys, the tables and the locals of SendCode keep their types.
THEOREM SmsTypes == Spec => []TypeOK
  BY SendCodeCorrect, PTL

\* TryReserveRateLimit admits one attempt per phone: two are under way together
\* only after the reservation of one of them has ended.
THEOREM PhonesReserved == Spec => []OneAttemptPerPhone
  BY SendCodeCorrect, PTL

\* SaveCode runs after gateway.Send alone: no code can be verified that was not
\* sent to its phone for its purpose.
THEOREM CodesWereSent == Spec => []OnlySentCodesStored
  BY SendCodeCorrect, PTL

\* sms_records says sent of codes the gateway took and failed of the others,
\* whichever call of SendCode fails or is repeated.
THEOREM AuditIsTrue == Spec => []AuditAgrees
  BY SendCodeCorrect, PTL

\* A reservation ends otherwise than by its TTL only in ReleaseRateLimit, which
\* deletes the key of the attempt itself, or another one after losing its own.
THEOREM ReleasesOwnOrOverdue == Spec => OnlyOverdueReleaseOthers
<1>1. ASSUME IInv, [Next]_vars, NEW ph \in Phone, limit[ph] # NULL,
             limit'[ph] # limit[ph], req' # req
      PROVE  \E p \in Proc : /\ req[p].pc = "release" /\ req[p].phone = ph
                             /\ req[p].code = limit[ph] \/ req[p].code \in lapsed
  <2>1. limit \in [Phone -> Code \cup {NULL}]
    BY <1>1 DEF IInv, TypeOK
  <2>2. ASSUME NEW p \in Proc, SendCode(p) PROVE FALSE
    BY <1>1, <2>1, <2>2 DEF SendCode
  <2>3. ASSUME NEW p \in Proc, Send(p) \/ SaveSendFailure(p) \/ Store(p) \/ Insert(p)
        PROVE  FALSE
    BY <1>1, <2>3 DEF Send, SaveSendFailure, Store, Insert
  <2>4. CASE VerifyCode \/ LimitExpires \/ TokenExpires \/ Crash \/ UNCHANGED vars
    BY <1>1, <2>4 DEF VerifyCode, LimitExpires, TokenExpires, Crash, vars
  <2>5. ASSUME NEW p \in Proc, ReleaseRateLimit(p)
        PROVE  /\ req[p].pc = "release" /\ req[p].phone = ph
               /\ req[p].code = limit[ph] \/ req[p].code \in lapsed
    <3>1. req[p].pc = "release" /\ limit' = [limit EXCEPT ![req[p].phone] = NULL]
      BY <1>1, <2>5 DEF ReleaseRateLimit, EndReservation
    <3>2. req[p].phone = ph
      BY <1>1, <2>1, <3>1
    <3>3. QED
      BY <1>1, <3>1, <3>2 DEF IInv, HasReservation, InFlight
  <2>6. QED
    BY <1>1, <2>2, <2>3, <2>4, <2>5 DEF Next
<1>2. IInv /\ [Next]_vars =>
        [\A ph \in Phone : limit[ph] # NULL /\ limit'[ph] # limit[ph] /\ req' # req =>
            \E p \in Proc : /\ req[p].pc = "release" /\ req[p].phone = ph
                            /\ req[p].code = limit[ph] \/ req[p].code \in lapsed]_vars
  BY <1>1
<1>3. QED
  BY <1>2, InitIInv, StepIInv, PTL DEF Spec, OnlyOverdueReleaseOthers

-----------------------------------------------------------------------------
(* The life of a code when the Redis client does not repeat a command. *)

\* SaveCode has not run for a request that is about to run it.
NotYetStored == \A p \in Proc : req[p].pc = "store" => req[p].code \notin stored

\* A code in Redis was stored and has not been accepted.
LiveCodes == \A ph \in Phone, pu \in Purpose :
    tokens[ph][pu] # NULL => tokens[ph][pu] \in stored \ accepted

\* A code is in Redis under one key.
OnePlace == \A ph1, ph2 \in Phone, pu1, pu2 \in Purpose :
    tokens[ph1][pu1] = tokens[ph2][pu2] /\ tokens[ph1][pu1] # NULL =>
        ph1 = ph2 /\ pu1 = pu2

CodeInv == IInv /\ NotYetStored /\ LiveCodes /\ OnePlace /\ accepted \subseteq stored

\* No code exists at the start.
LEMMA InitCodeInv == Init => CodeInv /\ Codes!Init
<1> SUFFICES ASSUME Init PROVE CodeInv /\ Codes!Init
  OBVIOUS
<1>1. CodeInv
  BY InitIInv DEF Init, CodeInv, NotYetStored, LiveCodes, OnePlace, Idle
<1>2. \A c \in Code : PhaseOf(c) = "unissued"
  BY DEF Init, PhaseOf
<1>3. QED
  BY <1>1, <1>2 DEF Codes!Init, Codes!Cred

\* A step that neither stores nor deletes a code.
LEMMA QuietStep ==
  ASSUME CodeInv, UNCHANGED <<tokens, stored, accepted>>,
         \A p \in Proc : req'[p].pc = "store" =>
            req'[p].code = req[p].code /\ req[p].pc \in {"gateway", "store"}
  PROVE  /\ NotYetStored' /\ LiveCodes' /\ OnePlace' /\ accepted' \subseteq stored'
         /\ UNCHANGED Codes!vars
<1>1. NotYetStored'
  BY DEF CodeInv, IInv, Progress, NotYetStored
<1>2. LiveCodes' /\ OnePlace' /\ accepted' \subseteq stored'
  BY DEF CodeInv, LiveCodes, OnePlace
<1>3. \A c \in Code : PhaseOf(c)' = PhaseOf(c)
  BY DEF PhaseOf, InRedis
<1>4. QED
  BY <1>1, <1>2, <1>3 DEF Codes!vars

\* The script of VerifyCode and the TTL take a code out of its only key.
LEMMA DeleteStep ==
  ASSUME CodeInv, VerifyCode \/ TokenExpires
  PROVE  /\ NotYetStored' /\ LiveCodes' /\ OnePlace' /\ accepted' \subseteq stored'
         /\ Codes!Next
<1>1. UNCHANGED <<req, stored>>
  BY DEF VerifyCode, TokenExpires
<1>2. PICK phone \in Phone, purpose \in Purpose :
        /\ tokens' = [tokens EXCEPT ![phone][purpose] = NULL]
        /\ tokens[phone][purpose] # NULL
        /\ accepted' \in {accepted, accepted \cup {tokens[phone][purpose]}}
  BY DEF VerifyCode, TokenExpires
<1> DEFINE c == tokens[phone][purpose]
<1>3. c \in Code /\ c \in stored /\ c \notin accepted
  BY <1>2 DEF CodeInv, IInv, TypeOK, LiveCodes
<1>4. \A ph \in Phone, pu \in Purpose :
        tokens'[ph][pu] = IF ph = phone /\ pu = purpose THEN NULL ELSE tokens[ph][pu]
  BY <1>2 DEF CodeInv, IInv, TypeOK
<1>5. \A ph \in Phone, pu \in Purpose : tokens[ph][pu] = c => ph = phone /\ pu = purpose
  BY <1>2 DEF CodeInv, OnePlace
<1>6. NotYetStored' /\ accepted' \subseteq stored'
  BY <1>1, <1>2, <1>3 DEF CodeInv, NotYetStored
<1>7. LiveCodes' /\ OnePlace'
  BY <1>1, <1>2, <1>4, <1>5 DEF CodeInv, LiveCodes, OnePlace
<1>8. \A d \in Code : InRedis(d)' <=> InRedis(d) /\ d # c
  BY <1>4, <1>5, NullAssumption DEF InRedis
<1>9. InRedis(c)
  BY DEF InRedis
<1>10. PhaseOf(c) = "live"
  BY <1>3, <1>9 DEF PhaseOf
<1>11. CASE accepted' = accepted
  <2>1. \A d \in Code : PhaseOf(d)' = IF d \in {c} THEN "dead" ELSE PhaseOf(d)
    BY <1>1, <1>3, <1>8, <1>11 DEF PhaseOf
  <2>2. {c} \in SUBSET Codes!Cred
    BY <1>3 DEF Codes!Cred
  <2> HIDE DEF c
  <2>3. Codes!Discard({c})
    BY <1>3, <1>10, <2>1 DEF Codes!Discard, Codes!Cred
  <2>4. QED
    BY <1>6, <1>7, <2>2, <2>3 DEF Codes!Next
<1>12. CASE accepted' = accepted \cup {c}
  <2>1. \A d \in Code : PhaseOf(d)' = IF d = c THEN "claimed" ELSE PhaseOf(d)
    BY <1>1, <1>3, <1>8, <1>12 DEF PhaseOf
  <2> HIDE DEF c
  <2>2. Codes!Claim(c)
    BY <1>3, <1>10, <2>1 DEF Codes!Claim, Codes!Cred
  <2>3. QED
    BY <1>3, <1>6, <1>7, <2>2 DEF Codes!Next, Codes!Cred
<1>13. QED
  BY <1>2, <1>11, <1>12

\* SaveCode puts a code into Redis that was never there.
LEMMA StoreStep ==
  ASSUME ~ClientRetries, CodeInv, NEW p \in Proc, Store(p), stored' # stored
  PROVE  /\ NotYetStored' /\ LiveCodes' /\ OnePlace' /\ accepted' \subseteq stored'
         /\ Codes!Next
<1> DEFINE c == req[p].code
           phone == req[p].phone
           purpose == req[p].purpose
           old == tokens[phone][purpose]
<1>1. /\ req[p].pc = "store" /\ c \in Code /\ c \notin stored /\ phone \in Phone
      /\ purpose \in Purpose
  BY DEF Store, CodeInv, IInv, OwnAttempt, NotYetStored
<1>2. /\ tokens' = [tokens EXCEPT ![phone][purpose] = c]
      /\ stored' = stored \cup {c} /\ accepted' = accepted
      /\ req' = [req EXCEPT ![p].pc = "insert"] \/ req' = [req EXCEPT ![p] = Idle]
  BY DEF Store, Goto, Return
<1>3. \A ph \in Phone, pu \in Purpose :
        tokens'[ph][pu] = IF ph = phone /\ pu = purpose THEN c ELSE tokens[ph][pu]
  BY <1>1, <1>2 DEF CodeInv, IInv, TypeOK
<1>4. \A ph \in Phone, pu \in Purpose : tokens[ph][pu] # c
  BY <1>1, NullAssumption DEF CodeInv, LiveCodes
<1>5. NotYetStored'
  <2>1. ASSUME NEW q \in Proc, req'[q].pc = "store"
        PROVE  req'[q].code \notin stored'
    <3>1. q # p /\ req'[q] = req[q]
      BY <1>2, <2>1 DEF CodeInv, IInv, TypeOK, Request, Idle
    <3>2. req[q].code # c /\ req[q].code \notin stored
      BY <1>1, <2>1, <3>1 DEF CodeInv, IInv, OwnAttempt, NotYetStored
    <3>3. QED
      BY <1>2, <3>1, <3>2
  <2>2. QED
    BY <2>1 DEF NotYetStored
<1>6. accepted \subseteq stored /\ c \notin accepted
  BY <1>1 DEF CodeInv
<1>7. LiveCodes' /\ OnePlace' /\ accepted' \subseteq stored'
  BY <1>2, <1>3, <1>4, <1>6 DEF CodeInv, LiveCodes, OnePlace
<1>8. \A ph \in Phone, pu \in Purpose :
        tokens[ph][pu] = old /\ old # NULL => ph = phone /\ pu = purpose
  BY <1>1 DEF CodeInv, OnePlace
<1>9. old \in Code \cup {NULL} /\ (old # NULL => InRedis(old) /\ old \in stored \ accepted)
  BY <1>1 DEF CodeInv, IInv, TypeOK, InRedis, LiveCodes
<1>10. \A d \in Code : InRedis(d)' <=> (InRedis(d) /\ d # old) \/ d = c
  BY <1>1, <1>3, <1>4, <1>8, NullAssumption DEF InRedis
<1> DEFINE replaced == {old} \ {NULL}
<1>11. replaced \in SUBSET Code /\ \A d \in replaced : PhaseOf(d) = "live"
  BY <1>9 DEF PhaseOf
<1>12. PhaseOf(c) = "unissued"
  BY <1>1 DEF PhaseOf
<1>13. \A d \in Code : PhaseOf(d)' = IF d = c THEN "live"
                                     ELSE IF d \in replaced THEN "dead" ELSE PhaseOf(d)
  <2>1. ASSUME NEW d \in Code
        PROVE  PhaseOf(d)' = IF d = c THEN "live"
                             ELSE IF d \in replaced THEN "dead" ELSE PhaseOf(d)
    <3>1. CASE d = c
      BY <1>2, <1>10, <3>1 DEF PhaseOf
    <3>2. CASE d # c /\ d \in replaced
      BY <1>2, <1>9, <1>10, <3>2 DEF PhaseOf
    <3>3. CASE d # c /\ d \notin replaced
      BY <1>2, <1>10, <3>3, NullAssumption DEF PhaseOf
    <3>4. QED
      BY <3>1, <3>2, <3>3
  <2>2. QED
    BY <2>1
<1> HIDE DEF replaced, c
<1>14. Codes!Send(c, replaced)
  BY <1>1, <1>11, <1>12, <1>13 DEF Codes!Send, Codes!Cred
<1>15. QED
  BY <1>1, <1>5, <1>7, <1>11, <1>14 DEF Codes!Next

\* Every step keeps the codes right and is a step of their life.
LEMMA StepCodeInv ==
  ASSUME ~ClientRetries
  PROVE  CodeInv /\ [Next]_vars => CodeInv' /\ [Codes!Next]_(Codes!vars)
<1> SUFFICES ASSUME CodeInv, [Next]_vars
             PROVE  /\ NotYetStored' /\ LiveCodes' /\ OnePlace' /\ accepted' \subseteq stored'
                    /\ [Codes!Next]_(Codes!vars)
  BY StepIInv DEF CodeInv
<1>1. req \in [Proc -> Request]
  BY DEF CodeInv, IInv, TypeOK
<1>2. ASSUME NEW p \in Proc, SendCode(p) \/ Send(p) \/ ReleaseRateLimit(p)
                             \/ SaveSendFailure(p) \/ Insert(p)
      PROVE  /\ UNCHANGED <<tokens, stored, accepted>>
             /\ \A q \in Proc : req'[q].pc = "store" =>
                  req'[q].code = req[q].code /\ req[q].pc \in {"gateway", "store"}
  <2>1. UNCHANGED <<tokens, stored, accepted>>
    BY <1>2 DEF SendCode, Send, ReleaseRateLimit, SaveSendFailure, Insert
  <2>2. ASSUME NEW q \in Proc, req'[q].pc = "store"
        PROVE  req'[q].code = req[q].code /\ req[q].pc \in {"gateway", "store"}
    <3>1. CASE SendCode(p)
      BY <1>1, <2>2, <3>1 DEF SendCode
    <3>2. CASE Send(p)
      BY <1>1, <2>2, <3>2 DEF Send, Goto, Request
    <3>3. CASE ReleaseRateLimit(p)
      BY <1>1, <2>2, <3>3 DEF ReleaseRateLimit, Goto, Return, Idle, Request
    <3>4. CASE SaveSendFailure(p) \/ Insert(p)
      BY <1>1, <2>2, <3>4 DEF SaveSendFailure, Insert, Return, Idle
    <3>5. QED
      BY <1>2, <3>1, <3>2, <3>3, <3>4
  <2>3. QED
    BY <2>1, <2>2
<1>3. ASSUME NEW p \in Proc, Store(p)
      PROVE  /\ NotYetStored' /\ LiveCodes' /\ OnePlace' /\ accepted' \subseteq stored'
             /\ [Codes!Next]_(Codes!vars)
  <2>1. CASE stored' # stored
    BY <1>3, <2>1, StoreStep
  <2>2. CASE stored' = stored
    <3>1. req[p].pc = "store" /\ req[p].code \notin stored
      BY <1>3 DEF Store, CodeInv, NotYetStored
    <3>2. Return(p) /\ UNCHANGED <<tokens, stored, accepted>>
      BY <1>3, <2>2, <3>1 DEF Store
    <3>3. \A q \in Proc : req'[q].pc = "store" =>
            req'[q].code = req[q].code /\ req[q].pc \in {"gateway", "store"}
      BY <1>1, <3>2 DEF Return, Idle
    <3>4. QED
      BY <3>2, <3>3, QuietStep
  <2>3. QED
    BY <2>1, <2>2
<1>4. CASE VerifyCode \/ TokenExpires
  BY <1>4, DeleteStep
<1>5. CASE LimitExpires \/ Crash \/ UNCHANGED vars
  <2>1. UNCHANGED <<tokens, stored, accepted>>
        /\ \A q \in Proc : req'[q].pc = "store" =>
             req'[q].code = req[q].code /\ req[q].pc \in {"gateway", "store"}
    BY <1>5 DEF LimitExpires, Crash, vars, Idle
  <2>2. QED
    BY <2>1, QuietStep
<1>6. QED
  BY <1>2, <1>3, <1>4, <1>5, QuietStep DEF Next

\* SaveCode and VerifyCode implement the life of a one-time code, provided that
\* the Redis client does not repeat a SET whose answer was lost.
THEOREM SmsImplementsCodes ==
  ASSUME ~ClientRetries
  PROVE  Spec => ImplementsCodes
<1>1. Init => CodeInv /\ Codes!Init
  BY InitCodeInv
<1>2. CodeInv /\ [Next]_vars => CodeInv' /\ [Codes!Next]_(Codes!vars)
  BY StepCodeInv
<1>3. QED
  BY <1>1, <1>2, PTL DEF Spec, ImplementsCodes, Codes!Spec

\* VerifyCode says ok to a code once, provided that the Redis client does not
\* repeat a SET whose answer was lost: an accepted code is gone.
THEOREM CodesAcceptedOnce ==
  ASSUME ~ClientRetries
  PROVE  Spec => []AcceptedIsGone
<1>1. CodeInv => AcceptedIsGone
  BY NullAssumption DEF CodeInv, IInv, TypeOK, LiveCodes, AcceptedIsGone, InRedis
<1>2. CodeInv /\ [Next]_vars => CodeInv'
  BY StepCodeInv
<1>3. QED
  BY <1>1, <1>2, InitCodeInv, PTL DEF Spec

=============================================================================
