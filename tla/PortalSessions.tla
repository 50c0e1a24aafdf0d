--------------------------- MODULE PortalSessions ---------------------------
(***************************************************************************)
(* Portal sessions and passkeys: the bearer maps and the login second      *)
(* factor of crates/pillar-cli/web_serve.rs, the SessionRegistry of        *)
(* crates/pillar-identity and the WebAuthn relying party of                *)
(* crates/pillar-web.                                                      *)
(*                                                                         *)
(* A user stands for its admitted subject.  Every handler runs under the   *)
(* portal lock.  session_clock is a logical counter that only logins and   *)
(* IAM acts advance.  What the journal would rebuild of the credentials is *)
(* kept next to them.  An append to the journal is best effort: one that   *)
(* fails is not repeated and the change stays in memory only.              *)
(***************************************************************************)
EXTENDS Integers, FiniteSets

CONSTANTS
    User, Cred,
    SessionTtl,     \* SESSION_TTL_TICKS
    ChallengeTtl,   \* WEBAUTHN_CHALLENGE_TTL
    MaxSessions,    \* bound: session tokens per process life
    MaxPending,     \* bound: pending tokens per process life
    MaxSeq,         \* bound: challenges per process life
    MaxClock,       \* bound on session_clock
    MaxCount,       \* bound on an authenticator's counter
    MaxRestarts,    \* bound on restarts
    MaxLost,        \* bound on failed appends to the journal
    None

ASSUME TtlAssumption ==
    /\ {SessionTtl, ChallengeTtl, MaxSessions, MaxPending, MaxSeq, MaxClock, MaxCount, MaxRestarts,
       MaxLost}
          \subseteq Nat
    /\ None \notin User

Session == [kind : {"s"}, n : 0..MaxSessions - 1]
Pending == [kind : {"p"}, n : 0..MaxPending - 1]
Token   == Session \cup Pending

\* The preimage of a challenge; its bytes are the hash of these fields.
Challenge == [seq : 1..MaxSeq, now : 0..MaxClock, token : Token, user : User]

\* CredentialRecord.
Record == [owner : User, count : 0..MaxCount]

ASSUME RecordAssumption == None \notin Record

VARIABLES
    session_clock,  \* logical clock of the portal
    next,           \* next_session and next_pending
    login,          \* login_sessions: token to admitted user
    registry,       \* SessionRegistry: [user, expiry, revoked]
    step_up_at,     \* token to the session_clock of its last authentication
    pending,        \* pending_2fa
    seq,            \* RelyingParty.nonce_seq
    challenges,     \* outstanding challenges
    records,        \* credential records
    revoked,        \* revoked credential ids
    journaled,      \* [records, revoked] as replay would rebuild them
    lost,           \* history: kinds of ops about a credential lost in this life
    failures,       \* number of appends that failed so far
    life,           \* number of restarts so far
    spent           \* history: challenges consumed in this life

ctx == <<session_clock, next, login, registry, step_up_at, pending>>
rp == <<seq, challenges, records, revoked>>
vars == <<ctx, rp, journaled, lost, failures, life, spent>>

Slot == [user : User, expiry : Nat, revoked : BOOLEAN]

\* WebauthnEnroll, WebauthnAssertion and WebauthnRevoke.
OpKind == {"enroll", "assertion", "revoke"}

Records == [Cred -> Record \cup {None}]

TypeOK ==
    /\ session_clock \in 0..MaxClock
    /\ next \in [s : 0..MaxSessions, p : 0..MaxPending]
    /\ login \in [Session -> User \cup {None}]
    /\ registry \in [Session -> Slot \cup {None}]
    /\ step_up_at \in [Session -> 0..MaxClock \cup {None}]
    /\ pending \in [Pending -> User \cup {None}]
    /\ seq \in 0..MaxSeq
    /\ challenges \subseteq Challenge
    /\ records \in Records
    /\ revoked \subseteq Cred
    /\ journaled \in [records : Records, revoked : SUBSET Cred]
    /\ lost \in [Cred -> SUBSET OpKind]
    /\ failures \in 0..MaxLost
    /\ life \in 0..MaxRestarts
    /\ spent \subseteq Challenge

Init ==
    /\ session_clock = 0
    /\ next = [s |-> 0, p |-> 0]
    /\ login = [t \in Session |-> None]
    /\ registry = [t \in Session |-> None]
    /\ step_up_at = [t \in Session |-> None]
    /\ pending = [t \in Pending |-> None]
    /\ seq = 0
    /\ challenges = {}
    /\ records = [c \in Cred |-> None]
    /\ revoked = {}
    /\ journaled = [records |-> records, revoked |-> {}]
    /\ lost = [c \in Cred |-> {}]
    /\ failures = 0
    /\ life = 0
    /\ spent = {}

-----------------------------------------------------------------------------
\* Mutant of Owns: any enrolled credential will do.
OwnsAny(u, c) == records[c] # None

\* user_owns_credential
Owns(u, c) == records[c] # None /\ records[c].owner = u

HasCredentials(u) == \E c \in Cred : records[c] # None /\ records[c].owner = u

\* store_session: one token names the bearer entry, the registry slot and the
\* step-up stamp.
StoreSession(u) ==
    LET t == [kind |-> "s", n |-> next.s]
    IN /\ next.s < MaxSessions
       /\ session_clock < MaxClock
       /\ next' = [next EXCEPT !.s = @ + 1]
       /\ login' = [login EXCEPT ![t] = u]
       /\ registry' = [registry EXCEPT ![t] =
              [user |-> u, expiry |-> session_clock + SessionTtl, revoked |-> FALSE]]
       /\ step_up_at' = [step_up_at EXCEPT ![t] = session_clock]
       /\ session_clock' = session_clock + 1

\* dispatch_login with the right password: a user with an enrolled credential
\* is parked until its assertion, any other gets a session.
Login(u) ==
    /\ ~HasCredentials(u)
    /\ StoreSession(u)
    /\ UNCHANGED <<pending, rp, journaled, lost, failures, life, spent>>

LoginParked(u) ==
    /\ HasCredentials(u)
    /\ next.p < MaxPending
    /\ pending' = [pending EXCEPT ![[kind |-> "p", n |-> next.p]] = u]
    /\ next' = [next EXCEPT !.p = @ + 1]
    /\ UNCHANGED <<session_clock, login, registry, step_up_at, rp, journaled, lost, failures, life, spent>>

\* iam_now: any recorded IAM act advances the logical clock.
IamAct ==
    /\ session_clock < MaxClock
    /\ session_clock' = session_clock + 1
    /\ UNCHANGED <<next, login, registry, step_up_at, pending, rp, journaled, lost, failures, life, spent>>

-----------------------------------------------------------------------------
\* The WebAuthn ceremonies.

\* webauthn_ceremony_scope: a live session or a parked login.
Scope(t) == IF t.kind = "s" THEN login[t] ELSE pending[t]

NextSeq == seq + 1

\* RelyingParty::begin, for both ceremonies.
Begin(t) ==
    /\ Scope(t) # None
    /\ seq < MaxSeq
    /\ seq' = NextSeq
    /\ challenges' = challenges \cup
           {[seq |-> NextSeq, now |-> session_clock, token |-> t, user |-> Scope(t)]}
    /\ UNCHANGED <<ctx, records, revoked, journaled, lost, failures, life, spent>>

\* consume_challenge: removed first, judged afterwards.
Consume(ch) ==
    /\ challenges' = challenges \ {ch}
    /\ spent' = spent \cup {ch}

Fresh(ch) == session_clock <= ch.now + ChallengeTtl

Bound(ch, t) == ch.token = t /\ ch.user = Scope(t)

\* Whatever a finish is refused for after the scope is resolved (a stale or
\* foreign challenge, a revoked or unknown credential, an attestation or
\* signature that does not verify), its challenge is gone.
FinishRefused(t, ch) ==
    /\ Scope(t) # None
    /\ ch \in challenges
    /\ Consume(ch)
    /\ UNCHANGED <<ctx, seq, records, revoked, journaled, lost, failures, life>>

\* The new record, filed under the subject of the scope.
Filed(t, n) == [owner |-> Scope(t), count |-> n]

\* record(): the op about c is appended and replay rebuilds j, making good for
\* the kinds of ops it supersedes, or the append fails.
Journal(c, kind, j, supersedes) ==
    \/ /\ journaled' = j
       /\ lost' = [lost EXCEPT ![c] = @ \ supersedes]
       /\ UNCHANGED failures
    \/ /\ failures < MaxLost
       /\ failures' = failures + 1
       /\ lost' = [lost EXCEPT ![c] = @ \cup {kind}]
       /\ UNCHANGED journaled

\* register_finish: only a revoked id is refused, a known one is overwritten.
RegisterFinish(t, ch, c, n) ==
    /\ ch \in challenges
    /\ Scope(t) # None
    /\ Fresh(ch) /\ Bound(ch, t)
    /\ c \notin revoked
    /\ records' = [records EXCEPT ![c] = Filed(t, n)]
    /\ Journal(c, "enroll", [journaled EXCEPT !.records[c] = Filed(t, n)], OpKind)
    /\ Consume(ch)
    /\ UNCHANGED <<ctx, seq, revoked, life>>

\* The op carries the stored counter n; touch_credential on replay never
\* lowers one and does nothing for an unknown credential.
JournalAssertion(c, n) ==
    Journal(c, "assertion",
            [journaled EXCEPT !.records[c] =
                IF @ # None /\ n > @.count THEN [@ EXCEPT !.count = n] ELSE @],
            {"assertion"})

\* The checks of authenticate_finish; the counter presented by a verified
\* signature is n.
Asserts(t, ch, c, n) ==
    /\ ch \in challenges
    /\ Scope(t) # None
    /\ Fresh(ch) /\ Bound(ch, t)
    /\ c \notin revoked
    /\ records[c] # None
    /\ n # 0 => n > records[c].count
    /\ Consume(ch)
    /\ records' = [records EXCEPT ![c].count = IF n # 0 THEN n ELSE @]
    /\ JournalAssertion(c, records'[c].count)
    /\ UNCHANGED <<seq, revoked, life>>

\* An assertion that completes a parked login must be the user's own.
Promote(t, ch, c, n) ==
    /\ t \in Pending
    /\ pending[t] # None
    /\ Owns(pending[t], c)
    /\ Asserts(t, ch, c, n)
    /\ pending' = [pending EXCEPT ![t] = None]
    /\ StoreSession(pending[t])

\* On a live session the same assertion is a step-up.
StepUp(t, ch, c, n) ==
    /\ t \in Session
    /\ Asserts(t, ch, c, n)
    /\ step_up_at' = [step_up_at EXCEPT ![t] = session_clock]
    /\ UNCHANGED <<session_clock, next, login, registry, pending>>

\* dispatch_webauthn_credentials_revoke; the last one needs a confirmation the
\* caller is taken to give.
RevokeCredential(t, c) ==
    /\ t \in Session
    /\ login[t] # None
    /\ Owns(login[t], c)
    /\ records' = [records EXCEPT ![c] = None]
    /\ revoked' = revoked \cup {c}
    /\ Journal(c, "revoke", [records |-> [journaled.records EXCEPT ![c] = None],
                             revoked |-> journaled.revoked \cup {c}], OpKind)
    /\ UNCHANGED <<ctx, seq, challenges, life, spent>>

-----------------------------------------------------------------------------
\* Session revocation.

Active(t) == registry[t] # None /\ ~registry[t].revoked /\ session_clock < registry[t].expiry

\* SessionRegistry::revoke_one / revoke_all
Swept(ts) == registry' = [t \in Session |->
    IF t \in ts /\ registry[t] # None THEN [registry[t] EXCEPT !.revoked = TRUE] ELSE registry[t]]

\* drop_session_bearer
Dropped(ts) == login' = [t \in Session |-> IF t \in ts THEN None ELSE login[t]]

Slots(u) == {t \in Session : registry[t] # None /\ registry[t].user = u}

\* dispatch_sessions_revoke: one of the caller's own sessions, by id.
RevokeSession(t, id) ==
    /\ login[t] # None
    /\ id \in Slots(login[t])
    /\ Swept({id})
    /\ Dropped({id})
    /\ UNCHANGED <<session_clock, next, step_up_at, pending, rp, journaled, lost, failures, life, spent>>

\* Mutant of Listed: the ids are read after the sweep, when none is active.
ListedAfterSweep(u) == {t \in Slots(u) : Active(t) /\ registry[t].revoked}

\* SessionRegistry::ls, the ids whose bearers revoke_all_sessions drops.
Listed(u) == {t \in Slots(u) : Active(t)}

\* revoke_all_sessions
RevokeAll(u) ==
    /\ \E t \in Session : login[t] = u
    /\ Swept(Slots(u))
    /\ Dropped(Listed(u))
    /\ UNCHANGED <<session_clock, next, step_up_at, pending, rp, journaled, lost, failures, life, spent>>

\* iam_revoke_user_sessions, the session half of disabling a user.
RevokeUserSessions(u) ==
    LET ts == {t \in Session : login[t] = u}
    IN /\ ts # {}
       /\ Swept(ts)
       /\ Dropped(ts)
       /\ UNCHANGED <<session_clock, next, step_up_at, pending, rp, journaled, lost, failures, life, spent>>

-----------------------------------------------------------------------------
\* WebAuthContext::new and replay: everything but the journal lives in memory,
\* the counters behind tokens and challenges included.
Restart ==
    /\ life < MaxRestarts
    /\ life' = life + 1
    /\ session_clock' = 0
    /\ next' = [s |-> 0, p |-> 0]
    /\ login' = [t \in Session |-> None]
    /\ registry' = [t \in Session |-> None]
    /\ step_up_at' = [t \in Session |-> None]
    /\ pending' = [t \in Pending |-> None]
    /\ seq' = 0
    /\ challenges' = {}
    /\ records' = journaled.records
    /\ revoked' = journaled.revoked
    /\ lost' = [c \in Cred |-> {}]
    /\ spent' = {}
    /\ UNCHANGED <<journaled, failures>>

Next ==
    \/ \E u \in User : Login(u) \/ LoginParked(u) \/ RevokeAll(u) \/ RevokeUserSessions(u)
    \/ IamAct
    \/ \E t \in Token : Begin(t)
    \/ \E t \in Token, ch \in challenges : FinishRefused(t, ch)
    \/ \E t \in Token, ch \in challenges, c \in Cred :
          \E n \in 0..MaxCount : \/ RegisterFinish(t, ch, c, n)
                                    \/ Promote(t, ch, c, n)
                                    \/ StepUp(t, ch, c, n)
    \/ \E t \in Session, c \in Cred : RevokeCredential(t, c)
    \/ \E t, id \in Session : RevokeSession(t, id)
    \/ Restart

Spec == Init /\ [][Next]_vars

-----------------------------------------------------------------------------
\* A revoked session admits nothing: revoke_session, revoke_all_sessions and
\* the disabling of a user drop the bearer of every session they revoke before
\* its expiry, in every interleaving with logins and promotions.
RevokedAdmitsNothing ==
    \A t \in Session :
        registry[t] # None /\ registry[t].revoked /\ session_clock < registry[t].expiry
            => login[t] = None

\* begin() numbers challenges upwards within a process life: whatever is
\* outstanding or was consumed in this one is numbered up to the counter.
SpentIsPast ==
    \A ch \in challenges \cup spent : ch.seq <= seq

\* consume_challenge: within one process life a challenge that was presented
\* once, successfully or not, is never outstanding again.
SpentStaysSpent == challenges \cap spent = {}

\* A restart rebuilds a credential from WebauthnEnroll, WebauthnAssertion and
\* WebauthnRevoke as far as their appends succeeded.  It is rebuilt exactly
\* when none was lost, and a lost assertion is made good by the next one; when
\* only assertions were lost, the owner is right and the counter behind, so no
\* authenticator is taken for a clone.  A restart revokes no credential that
\* was not revoked.
CredentialsSurvive ==
    /\ journaled.revoked \subseteq revoked
    /\ \A c \in Cred :
          /\ "revoke" \notin lost[c] /\ c \in revoked => c \in journaled.revoked
          /\ lost[c] = {} => journaled.records[c] = records[c]
          /\ lost[c] = {"assertion"} =>
                /\ records[c] # None /\ journaled.records[c] # None
                /\ journaled.records[c].owner = records[c].owner
                /\ journaled.records[c].count <= records[c].count

\* A parked login leaves by its user's assertion only: every promotion is
\* backed by a credential of that user, which no revocation has touched.
RevokedNeverPromotes ==
    [][\A t \in Pending : pending[t] # None /\ pending'[t] = None /\ life' = life =>
          \E c \in Cred \ revoked : records[c] # None /\ records[c].owner = pending[t]]_vars

\* A bearer of a revoked session admits nothing, whichever path revoked it,
\* a WebAuthn challenge that was spent never becomes outstanding again, and
\* credentials survive a restart up to failed appends.
SessionsInv ==
    TypeOK /\ RevokedAdmitsNothing /\ SpentIsPast /\ SpentStaysSpent /\ CredentialsSurvive
=============================================================================
