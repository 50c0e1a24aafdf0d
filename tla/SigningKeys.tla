---------------------------- MODULE SigningKeys ----------------------------
(***************************************************************************)
(* The signing keys of ID tokens, crates/pillar-oidc/src/custodied_keys.rs:*)
(* one current key, and retired ones that verify, and are published, for a *)
(* grace period.  A key is named by its kid and made anew when it is       *)
(* installed, so a key is a kid and the time of its activation.            *)
(***************************************************************************)
EXTENDS Integers, Functions

CONSTANTS
    Kid,
    Grace,      \* grace_seconds
    MaxTime,    \* bound on the clock
    None

SigningAssumption == {Grace, MaxTime} \subseteq Nat /\ Kid # {} /\ None \notin Nat

VARIABLES
    keys,       \* by_kid: when a tracked key was activated and retired
    current,    \* current_kid
    time,
    signed      \* history: one of the ID tokens signed

signingVars == <<keys, current, time, signed>>

Installed(kid) == [activated |-> time, retired |-> None]

\* new()
SigningInit ==
    /\ time = 0
    /\ current = CHOOSE k \in Kid : TRUE
    /\ keys = [k \in {current} |-> Installed(k)]
    /\ signed = None

\* rotate(): refused while the kid is tracked.
Rotate(kid) ==
    /\ kid \notin DOMAIN keys
    /\ keys' = [k \in DOMAIN keys \cup {kid} |->
                   IF k = kid THEN Installed(k)
                   ELSE IF k = current THEN [keys[k] EXCEPT !.retired = time] ELSE keys[k]]
    /\ current' = kid
    /\ UNCHANGED <<time, signed>>

Expired(k) == keys[k].retired # None /\ keys[k].retired + Grace < time

\* prune_expired()
PruneExpired ==
    /\ keys' = Restrict(keys, {k \in DOMAIN keys : ~Expired(k)})
    /\ UNCHANGED <<current, time, signed>>

\* jwks(): the kids that are published.
Jwks == {k \in DOMAIN keys : ~Expired(k)}

\* sign_id_token(): changes nothing, so following any one token is enough.
SignIdToken ==
    /\ signed = None
    /\ signed' = [kid |-> current, key |-> keys[current].activated, at |-> time]
    /\ UNCHANGED <<keys, current, time>>

\* verify_id_token()
VerifyIdToken(t) ==
    /\ t.kid \in DOMAIN keys /\ ~Expired(t.kid)
    /\ keys[t.kid].activated = t.key

Tick ==
    /\ time < MaxTime
    /\ time' = time + 1
    /\ UNCHANGED <<keys, current, signed>>

SigningNext ==
    \/ \E kid \in Kid : Rotate(kid)
    \/ PruneExpired
    \/ SignIdToken
    \/ Tick

SigningSpec == SigningInit /\ [][SigningNext]_signingVars

-----------------------------------------------------------------------------
SigningTypeOK ==
    /\ time \in Nat /\ DOMAIN keys \subseteq Kid
    /\ \A k \in DOMAIN keys : keys[k] \in [activated : Nat, retired : Nat \cup {None}]
    /\ signed # None => signed.kid \in Kid /\ signed.key \in Nat /\ signed.at \in 0..time

\* The provider can always sign: the current key is tracked and not retired.
CurrentCanSign == current \in DOMAIN keys /\ keys[current].retired = None

\* A token outlives the key that signed it by the whole grace period, whatever
\* is rotated and pruned meanwhile.
GraceIsGiven ==
    signed # None /\ time <= signed.at + Grace => VerifyIdToken(signed) /\ signed.kid \in Jwks

\* A token within its grace period still finds the very key that signed it,
\* which was retired, if at all, no earlier than it signed.
SignerIsKept ==
    signed # None /\ time <= signed.at + Grace =>
        /\ signed.kid \in DOMAIN keys
        /\ keys[signed.kid].activated = signed.key
        /\ keys[signed.kid].retired # None => keys[signed.kid].retired >= signed.at

\* The key set: a current key that signs, and tokens that verify for the grace
\* period of their own key.
SigningInv == SigningTypeOK /\ CurrentCanSign /\ SignerIsKept /\ GraceIsGiven
=============================================================================
