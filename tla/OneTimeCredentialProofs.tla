----------------------- MODULE OneTimeCredentialProofs -----------------------
(***************************************************************************)
(* The promise of OneTimeCredential holds: no credential is granted twice  *)
(* and a login has one usable token at a time.                             *)
(***************************************************************************)
EXTENDS OneTimeCredential, TLAPS

\* A token not issued has no past.
UnissuedBlank ==
    \A t \in Token : phase[t] = "unissued" => origin[t] = NULL /\ family[t] = NULL

\* A credential something was granted for is dead.
OriginDead == \A t \in Token : origin[t] # NULL => phase[origin[t]] = "dead"

\* The login an issued token descends from is an issued token.
FamilyIssued ==
    \A t \in Token : phase[t] # "unissued" =>
        family[t] \in Token /\ phase[family[t]] # "unissued"

\* SingleUse and OneHeadPerFamily, strengthened to be inductive: a new token is
\* the only one of its origin because the origin was claimed, hence not dead,
\* and the only head of its family because its origin was the head.
IInv ==
    /\ TypeOK
    /\ UnissuedBlank
    /\ OriginDead
    /\ FamilyIssued
    /\ SingleUse
    /\ OneHeadPerFamily

USE DEF Cred, Phase, Distinct

\* The initial states satisfy the inductive invariant.
LEMMA InitIInv == Init => IInv
  BY DEF Init, IInv, TypeOK, UnissuedBlank, OriginDead, FamilyIssued, SingleUse,
         OneHeadPerFamily

\* Every step of the promise preserves the inductive invariant.
LEMMA StepIInv ==
  ASSUME Distinct, IInv, [Next]_vars
  PROVE  IInv'
<1> USE DEF IInv, TypeOK
<1>1. ASSUME NEW c \in Code, NEW replaced \in SUBSET Code, Send(c, replaced)
      PROVE  IInv'
  BY <1>1 DEF Send, UnissuedBlank, OriginDead, FamilyIssued, SingleUse, OneHeadPerFamily
<1>2. ASSUME NEW c \in Cred, Claim(c)
      PROVE  IInv'
  BY <1>2 DEF Claim, UnissuedBlank, OriginDead, FamilyIssued, SingleUse, OneHeadPerFamily
<1>3. ASSUME NEW c \in Cred \cup {NULL}, NEW t \in Token, Grant(c, t)
      PROVE  IInv'
  <2> USE <1>3 DEF Grant
  <2>1. TypeOK'
    BY DEF FamilyIssued
  <2>2. UnissuedBlank'
    BY DEF UnissuedBlank
  <2>3. OriginDead'
    BY DEF OriginDead
  <2>4. FamilyIssued'
    BY DEF FamilyIssued
  <2>5. SingleUse'
    BY DEF SingleUse, OriginDead
  <2>6. OneHeadPerFamily'
    BY DEF OneHeadPerFamily, FamilyIssued, UnissuedBlank
  <2>7. QED
    BY <2>1, <2>2, <2>3, <2>4, <2>5, <2>6
<1>4. ASSUME NEW gone \in SUBSET Cred, Discard(gone)
      PROVE  IInv'
  BY <1>4 DEF Discard, UnissuedBlank, OriginDead, FamilyIssued, SingleUse, OneHeadPerFamily
<1>5. CASE UNCHANGED vars
  BY <1>5 DEF vars, UnissuedBlank, OriginDead, FamilyIssued, SingleUse, OneHeadPerFamily
<1>6. QED
  BY <1>1, <1>2, <1>3, <1>4, <1>5 DEF Next

\* Whatever the tokens and codes: no credential is granted twice, and no login
\* has two usable refresh tokens.
THEOREM PromiseKept ==
  ASSUME Distinct
  PROVE  Spec => [](SingleUse /\ OneHeadPerFamily)
<1>1. Init => IInv
  BY InitIInv
<1>2. IInv /\ [Next]_vars => IInv'
  BY StepIInv
<1>3. IInv => SingleUse /\ OneHeadPerFamily
  BY DEF IInv
<1>4. QED
  BY <1>1, <1>2, <1>3, PTL DEF Spec
=============================================================================
