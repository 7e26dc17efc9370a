-------------------------- MODULE OneTimeCredential --------------------------
(***************************************************************************)
(* What the identity service promises about its one-time credentials, the  *)
(* refresh tokens and the SMS login codes: a live credential is claimed by *)
(* at most one request, a claim grants at most one new refresh token, and  *)
(* a credential that is claimed or discarded never comes back.             *)
(***************************************************************************)
CONSTANTS Token, Code, NULL

VARIABLES
    phase,   \* where each credential is in its life
    origin,  \* the credential a token was granted for; NULL: a password
    family   \* the token of the login a token descends from

Cred == Token \cup Code

\* What the constants must satisfy.
Distinct == NULL \notin Cred /\ Token \cap Code = {}

Phase == {"unissued", "live", "claimed", "dead"}

vars == <<phase, origin, family>>

TypeOK ==
    /\ phase \in [Cred -> Phase]
    /\ origin \in [Token -> Cred \cup {NULL}]
    /\ family \in [Token -> Token \cup {NULL}]

Init ==
    /\ phase = [c \in Cred |-> "unissued"]
    /\ origin = [t \in Token |-> NULL]
    /\ family = [t \in Token |-> NULL]

\* A code is sent; it may replace live ones.
Send(c, replaced) ==
    /\ phase[c] = "unissued"
    /\ \A d \in replaced : phase[d] = "live"
    /\ phase' = [d \in Cred |-> IF d = c THEN "live"
                                ELSE IF d \in replaced THEN "dead" ELSE phase[d]]
    /\ UNCHANGED <<origin, family>>

\* A request takes the credential out of circulation.
Claim(c) ==
    /\ phase[c] = "live"
    /\ phase' = [phase EXCEPT ![c] = "claimed"]
    /\ UNCHANGED <<origin, family>>

\* A password, or a claimed credential, is turned into a new token.
Grant(c, t) ==
    /\ c = NULL \/ phase[c] = "claimed"
    /\ phase[t] = "unissued"
    /\ phase' = [d \in Cred |-> IF d = t THEN "live"
                                ELSE IF d = c THEN "dead" ELSE phase[d]]
    /\ origin' = [origin EXCEPT ![t] = c]
    /\ family' = [family EXCEPT ![t] = IF c \in Token THEN family[c] ELSE t]

\* Credentials end unused: expired, revoked, mistyped, or their request failed.
Discard(gone) ==
    /\ \A c \in gone : phase[c] \in {"live", "claimed"}
    /\ phase' = [c \in Cred |-> IF c \in gone THEN "dead" ELSE phase[c]]
    /\ UNCHANGED <<origin, family>>

Next ==
    \/ \E c \in Code, replaced \in SUBSET Code : Send(c, replaced)
    \/ \E c \in Cred : Claim(c)
    \/ \E c \in Cred \cup {NULL}, t \in Token : Grant(c, t)
    \/ \E gone \in SUBSET Cred : Discard(gone)

Spec == Init /\ [][Next]_vars

-----------------------------------------------------------------------------
\* No two tokens are granted for the same refresh token or the same SMS code.
SingleUse ==
    \A s, t \in Token : origin[s] = origin[t] /\ origin[s] # NULL => s = t

\* Of the tokens that descend from one login at most one can still be used or
\* is being exchanged for its successor.
OneHeadPerFamily ==
    \A s, t \in Token :
        /\ phase[s] \in {"live", "claimed"}
        /\ phase[t] \in {"live", "claimed"}
        /\ family[s] = family[t]
        => s = t

=============================================================================
