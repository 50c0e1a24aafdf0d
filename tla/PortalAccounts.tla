--------------------------- MODULE PortalAccounts ---------------------------
(***************************************************************************)
(* Accounts of the web portal (crates/pillar-cli/web_serve.rs with the     *)
(* custody verifier and relying party of crates/pillar-web and the user    *)
(* fold of crates/pillar-iam): invitation, password and passkey lifecycle, *)
(* login with its second factor, administration, and the restart that      *)
(* rebuilds the state from the portal journal.                             *)
(*                                                                         *)
(* The portal state is one record `live`.  Replay is a left fold of        *)
(* apply_replayed over the journal in sequence order, so instead of the    *)
(* journal the model keeps `replayed`, the state that fold would build:    *)
(* recording an op applies ApplyReplayed to it.  Recording is best effort: *)
(* an append that fails is logged, never repeated, and leaves the change   *)
(* in memory; `behind` names what such ops were about.  Every handler runs *)
(* under the portal's lock, hence atomically.  Passwords are not values    *)
(* here: a login is the attempt that presents the right one (a wrong one   *)
(* only feeds the lockout, see AccountLockout).                            *)
(***************************************************************************)
EXTENDS Naturals, FiniteSets

CONSTANTS
    Handle,     \* handles that can be invited
    First,      \* the handle of the first user, created at bootstrap
    Email,      \* e-mail addresses
    Cred,       \* WebAuthn credential ids
    MaxLost,    \* bound on failed appends
    None        \* Option::None

Account == Handle \cup {First}

\* bootstrap_subkey / enrollment_subkey: the WoT subject depends on the kind
\* of offer the account logs in with.
Subject == [handle : Account, kind : {"op", "enroll"}]

Subkey(a, operational) == [handle |-> a, kind |-> IF operational THEN "op" ELSE "enroll"]

UserRecord == [status   : {"Invited", "Active", "Disabled"},
               force    : BOOLEAN,     \* force_password_change
               passkey  : BOOLEAN,     \* require_passkey_enrollment
               email    : Email,
               verified : BOOLEAN]     \* verified_email

\* The node-sealed offer an identifier resolves to, and whether its record is
\* still admitted in the key-distribution ledger.
Offer == [subject : Subject, admitted : BOOLEAN]

PortalState ==
    [users     : [Handle -> UserRecord \cup {None}],
     offers    : [Account -> Offer \cup {None}],
     authority : SUBSET Subject,
     creds     : [Cred -> Subject \cup {None}],
     revoked   : SUBSET Cred,
     exporters : SUBSET Account]       \* key_export_role

AccountsAssumption == MaxLost \in Nat /\ None \notin UserRecord \cup Offer \cup Subject

VARIABLES
    live,       \* the portal state of the running node
    replayed,   \* the portal state replay() would rebuild from the journal
    behind,     \* history: accounts and credentials with an op lost in this life
    failed,     \* number of appends that failed so far
    sessions,   \* subjects with a live session
    pending     \* subjects with a login parked for its second factor

vars == <<live, replayed, behind, failed, sessions, pending>>

TypeOK ==
    /\ live \in PortalState
    /\ replayed \in PortalState
    /\ behind \subseteq Account \cup Cred
    /\ failed \in 0..MaxLost
    /\ sessions \subseteq Subject
    /\ pending \subseteq Subject

EmptyPortal ==
    [users     |-> [h \in Handle |-> None],
     offers    |-> [a \in Account |-> None],
     authority |-> {},
     creds     |-> [c \in Cred |-> None],
     revoked   |-> {},
     exporters |-> {}]

Init ==
    /\ live = EmptyPortal
    /\ replayed = EmptyPortal
    /\ behind = {}
    /\ failed = 0
    /\ sessions = {}
    /\ pending = {}

-----------------------------------------------------------------------------
\* The user fold of pillar-iam: an op on an unknown handle changes nothing.

Known(d, h) == d.users[h] # None

SetUser(d, h, field, value) ==
    IF Known(d, h) THEN [d EXCEPT !.users[h][field] = value] ELSE d

Invited(d, h, force, passkey, email) ==
    IF Known(d, h) THEN d
    ELSE [d EXCEPT !.users[h] = [status |-> "Invited", force |-> force,
                                 passkey |-> passkey, email |-> email,
                                 verified |-> FALSE]]

\* Mutant of RevokeOffer: the ledger record stays admitted.
RevokeOfferForgotten(d, a) == d

\* revoke_offer_for
RevokeOffer(d, a) ==
    IF d.offers[a] = None THEN d ELSE [d EXCEPT !.offers[a].admitted = FALSE]

AdmitSubject(d, s) == [d EXCEPT !.authority = @ \cup {s}]

PutOffer(d, a, s) == [d EXCEPT !.offers[a] = [subject |-> s, admitted |-> TRUE]]

\* iam_mint_offer: the superseded offer dies first.
MintOffer(d, a, operational) ==
    AdmitSubject(PutOffer(RevokeOffer(d, a), a, Subkey(a, operational)),
                 Subkey(a, operational))

\* iam_restore_minted
RestoreMinted(d, a, operational) ==
    PutOffer(AdmitSubject(RevokeOffer(d, a), Subkey(a, operational)), a,
             Subkey(a, operational))

\* register_finish / restore_credential: a revoked id is not filed again.
Enrolled(d, c, s) == IF c \in d.revoked THEN d ELSE [d EXCEPT !.creds[c] = s]

RevokeCred(d, c) == [d EXCEPT !.creds[c] = None, !.revoked = @ \cup {c}]

\* apply_replayed, for the ops about accounts.
ApplyReplayed(d, op) ==
    CASE op.type = "Bootstrap"      ->   \* restore_first_user
            IF d.offers[First] # None THEN d
            ELSE PutOffer(AdmitSubject(d, Subkey(First, TRUE)), First, Subkey(First, TRUE))
      [] op.type = "Invite"         ->
            RestoreMinted(Invited(d, op.handle, op.force, op.passkey, op.email),
                          op.handle, ~op.force)
      [] op.type = "PasswordSet"    ->
            RestoreMinted(SetUser(d, op.handle, "force", op.force), op.handle, ~op.force)
      [] op.type = "RequireChange"  ->
            RevokeOffer(SetUser(d, op.handle, "force", TRUE), op.handle)
      [] op.type = "UserStatusSet"  -> SetUser(d, op.handle, "status", op.status)
      [] op.type = "UserProfileSet" -> SetUser(d, op.handle, "email", op.email)
      [] op.type = "PasskeyEnrolled" -> SetUser(d, op.handle, "passkey", FALSE)
      [] op.type = "EmailVerified"  -> SetUser(d, op.handle, "verified", TRUE)
      [] op.type = "WebauthnEnroll" -> Enrolled(d, op.cred, op.subject)
      [] op.type = "WebauthnRevoke" -> RevokeCred(d, op.cred)

\* The account or credential an op is about.
About(op) ==
    CASE op.type = "Bootstrap" -> First
      [] op.type \in {"WebauthnEnroll", "WebauthnRevoke"} -> op.cred
      [] OTHER -> op.handle

\* record() in one of its outcomes.
Appended(d, op, ok) == IF ok THEN ApplyReplayed(d, op) ELSE d

\* What the journal then misses.
Missed(op, ok) == IF ok THEN {} ELSE {About(op)}
Count(ok) == IF ok THEN 0 ELSE 1

Record(op) ==
    \E ok \in BOOLEAN :
        /\ replayed' = Appended(replayed, op, ok)
        /\ behind' = behind \cup Missed(op, ok)
        /\ failed' = failed + Count(ok) /\ failed' <= MaxLost

\* Two ops of one handler, each with its own outcome.
Record2(op1, op2) ==
    \E ok1, ok2 \in BOOLEAN :
        /\ replayed' = Appended(Appended(replayed, op1, ok1), op2, ok2)
        /\ behind' = behind \cup Missed(op1, ok1) \cup Missed(op2, ok2)
        /\ failed' = failed + Count(ok1) + Count(ok2) /\ failed' <= MaxLost

-----------------------------------------------------------------------------
\* Bootstrap and login.

\* bootstrap_create_first_user: one shot.
Bootstrap ==
    /\ live.offers[First] = None
    /\ live' = [PutOffer(AdmitSubject(live, Subkey(First, TRUE)), First, Subkey(First, TRUE))
                  EXCEPT !.exporters = @ \cup {First}]
    /\ Record([type |-> "Bootstrap"])
    /\ UNCHANGED <<sessions, pending>>

Disabled(a) == a \in Handle /\ Known(live, a) /\ live.users[a].status = "Disabled"

HasCreds(d, s) == \E c \in Cred : d.creds[c] = s

\* The IAM status gate of dispatch_login.
StatusAdmits(a) == ~Disabled(a)

\* dispatch_login with the right password.  An admitted offer goes through
\* admit(), a revoked one through prove_ownership(): both end in a session of
\* the offer's subject, which must be authoritative.
Login(a) ==
    /\ live.offers[a] # None
    /\ live.offers[a].subject \in live.authority
    /\ StatusAdmits(a)
    /\ LET s == live.offers[a].subject
       IN  IF HasCreds(live, s)
           THEN pending' = pending \cup {s} /\ UNCHANGED sessions
           ELSE sessions' = sessions \cup {s} /\ UNCHANGED pending
    /\ UNCHANGED <<live, replayed, behind, failed>>

\* dispatch_webauthn_authenticate_finish on a parked login.
AssertSecondFactor(s, c) ==
    /\ s \in pending
    /\ live.creds[c] = s
    /\ pending' = pending \ {s}
    /\ sessions' = sessions \cup {s}
    /\ UNCHANGED <<live, replayed, behind, failed>>

\* dispatch_webauthn_register_finish: a session or a parked login may register;
\* only a session clears the required-passkey action of its user.
RegisterPasskey(s, c) ==
    /\ s \in sessions \cup pending
    /\ c \notin live.revoked
    /\ LET enroll  == [type |-> "WebauthnEnroll", cred |-> c, subject |-> s]
           clears  == /\ s \in sessions
                      /\ s.handle \in Handle
                      /\ Known(live, s.handle)
                      /\ live.users[s.handle].passkey
           cleared == [type |-> "PasskeyEnrolled", handle |-> s.handle]
       IN  IF clears
           THEN /\ live' = SetUser(Enrolled(live, c, s), s.handle, "passkey", FALSE)
                /\ Record2(enroll, cleared)
           ELSE live' = Enrolled(live, c, s) /\ Record(enroll)
    /\ UNCHANGED <<sessions, pending>>

\* dispatch_webauthn_credentials_revoke
RevokePasskey(s, c) ==
    /\ s \in sessions
    /\ live.creds[c] = s
    /\ live' = RevokeCred(live, c)
    /\ Record([type |-> "WebauthnRevoke", cred |-> c])
    /\ UNCHANGED <<sessions, pending>>

\* dispatch_sessions_revoke / revoke_all on one's own subject.
Logout(s) ==
    /\ s \in sessions
    /\ sessions' = sessions \ {s}
    /\ UNCHANGED <<live, replayed, behind, failed, pending>>

-----------------------------------------------------------------------------
\* Self service.

\* Mutant of ChangePassword: the journal says the change was a reset.
ChangePasswordJournaledAsReset(s) ==
    /\ s \in sessions
    /\ s.handle \in Handle
    /\ Known(live, s.handle)
    /\ live' = SetUser(MintOffer(live, s.handle, TRUE), s.handle, "force", FALSE)
    /\ Record([type |-> "PasswordSet", handle |-> s.handle, force |-> TRUE])
    /\ UNCHANGED <<sessions, pending>>

\* dispatch_users_reset_password on oneself: a fresh operational key.
ChangePassword(s) ==
    /\ s \in sessions
    /\ s.handle \in Handle
    /\ Known(live, s.handle)
    /\ live' = SetUser(MintOffer(live, s.handle, TRUE), s.handle, "force", FALSE)
    /\ Record([type |-> "PasswordSet", handle |-> s.handle, force |-> FALSE])
    /\ UNCHANGED <<sessions, pending>>

\* dispatch_profile_update
UpdateProfile(s, email) ==
    /\ s \in sessions
    /\ s.handle \in Handle
    /\ Known(live, s.handle)
    /\ live' = SetUser(live, s.handle, "email", email)
    /\ Record([type |-> "UserProfileSet", handle |-> s.handle, email |-> email])
    /\ UNCHANGED <<sessions, pending>>

\* iam_set_password(force): the user is onboarded again.
ResetPassword(h) ==
    /\ live' = SetUser(MintOffer(live, h, FALSE), h, "force", TRUE)
    /\ Record([type |-> "PasswordSet", handle |-> h, force |-> TRUE])
    /\ UNCHANGED <<sessions, pending>>

\* dispatch_users_forgot_password: unauthenticated, keyed on a verified e-mail.
ForgotPassword(h) ==
    /\ Known(live, h)
    /\ live.users[h].verified
    /\ ResetPassword(h)

-----------------------------------------------------------------------------
\* Administration: dispatch_delegated_user_op.  The caller has a session, its
\* admitted offer signs the op, and the op is performed as the caller's
\* operational subkey.  The containment check of iam_caller_gate only logs.
MayAct(a) ==
    /\ \E s \in sessions : s.handle = a
    /\ live.offers[a] # None
    /\ live.offers[a].admitted
    /\ Subkey(a, TRUE) \in live.authority

Invite(a, h, force, passkey, email, verified) ==
    /\ MayAct(a)
    /\ ~Known(live, h)
    /\ LET invite == [type |-> "Invite", handle |-> h, force |-> force,
                      passkey |-> passkey, email |-> email]
           d == MintOffer(Invited(live, h, force, passkey, email), h, ~force)
       IN  IF verified
           THEN /\ live' = SetUser(d, h, "verified", TRUE)
                /\ Record2(invite, [type |-> "EmailVerified", handle |-> h])
           ELSE live' = d /\ Record(invite)
    /\ UNCHANGED <<sessions, pending>>

\* UserOp::Disable: the status, then iam_revoke_user_sessions.
Disable(a, h) ==
    /\ MayAct(a)
    /\ Known(live, h)
    /\ live' = SetUser(live, h, "status", "Disabled")
    /\ Record([type |-> "UserStatusSet", handle |-> h, status |-> "Disabled"])
    /\ sessions' = {s \in sessions : s.handle # h}
    /\ UNCHANGED pending

\* UserOp::Enable; dispatch_users_unlock performs it too.
Enable(a, h) ==
    /\ MayAct(a)
    /\ Known(live, h)
    /\ live' = SetUser(live, h, "status", "Active")
    /\ Record([type |-> "UserStatusSet", handle |-> h, status |-> "Active"])
    /\ UNCHANGED <<sessions, pending>>

\* UserOp::RequireChange
RequireChange(a, h) ==
    /\ MayAct(a)
    /\ Known(live, h)
    /\ live' = RevokeOffer(SetUser(live, h, "force", TRUE), h)
    /\ Record([type |-> "RequireChange", handle |-> h])
    /\ UNCHANGED <<sessions, pending>>

\* UserOp::SetPassword on another user.
AdminReset(a, h) ==
    /\ MayAct(a)
    /\ a # h
    /\ Known(live, h)
    /\ ResetPassword(h)

\* The process restarts and replays its journal; sessions are memory only.
Restart ==
    /\ live' = replayed
    /\ behind' = {}
    /\ sessions' = {}
    /\ pending' = {}
    /\ UNCHANGED <<replayed, failed>>

Next ==
    \/ Bootstrap
    \/ \E a \in Account : Login(a)
    \/ \E s \in pending, c \in Cred : AssertSecondFactor(s, c)
    \/ \E s \in sessions \cup pending, c \in Cred : RegisterPasskey(s, c)
    \/ \E s \in sessions, c \in Cred : RevokePasskey(s, c)
    \/ \E s \in sessions : Logout(s) \/ ChangePassword(s)
    \/ \E s \in sessions, email \in Email : UpdateProfile(s, email)
    \/ \E h \in Handle : ForgotPassword(h)
    \/ \E a \in Account, h \in Handle, email \in Email, force, passkey, verified \in BOOLEAN :
           Invite(a, h, force, passkey, email, verified)
    \/ \E a \in Account, h \in Handle :
           Disable(a, h) \/ Enable(a, h) \/ RequireChange(a, h) \/ AdminReset(a, h)
    \/ Restart

Spec == Init /\ [][Next]_vars

-----------------------------------------------------------------------------
Authorised(d, a) == {s \in d.authority : s.handle = a}

\* A restart rebuilds an account as it was, unless an op about that very
\* account was lost: the journal is complete for accounts, and a failed append
\* spreads to no other account or credential.  The key-export role is the
\* exception, which restore_first_user forgets.
OthersAreRebuilt ==
    /\ \A h \in Handle \ behind : replayed.users[h] = live.users[h]
    /\ \A a \in Account \ behind : /\ replayed.offers[a] = live.offers[a]
                                   /\ Authorised(replayed, a) = Authorised(live, a)
    /\ \A c \in Cred \ behind : /\ replayed.creds[c] = live.creds[c]
                                /\ c \in replayed.revoked <=> c \in live.revoked

\* Where the journal is behind it only lags: a restart invites nobody, gives
\* authority to nobody and revokes nothing that the running node did not.
JournalLags(d, e) ==
    /\ \A h \in Handle : Known(d, h) => Known(e, h)
    /\ d.authority \subseteq e.authority
    /\ d.revoked \subseteq e.revoked

\* What replay() rebuilds is what was live, up to the appends that failed.
ReplayMatchesLive == OthersAreRebuilt /\ JournalLags(replayed, live)

\* A user under a forced password change has no admitted operational offer,
\* through invite, reset, require-change, forgot-password and restart.
ForcedHoldsNoOperationalOffer ==
    \A h \in Handle :
        (Known(live, h) /\ live.users[h].force)
        => ~(live.offers[h].admitted /\ live.offers[h].subject = Subkey(h, TRUE))

\* Nobody is locked out for good: every account keeps an offer whose subject
\* is authoritative, admitted or provably owned, so a login always reaches
\* the status gate and its password can be changed.
NeverLockedOut ==
    /\ \A h \in Handle : Known(live, h) => live.offers[h] # None
    /\ \A a \in Account :
          live.offers[a] # None => live.offers[a].subject \in live.authority

-----------------------------------------------------------------------------
\* What the login handler and the IAM documentation promise: a disabled user
\* holds no live session.
DisabledNeverActive ==
    \A h \in Handle : Disabled(h) => \A s \in sessions : s.handle # h

\* In every state the handlers and a restart can reach, an account under a
\* forced password change has no operational offer to act with, and no
\* account has lost its last way in.
AccountsInv == TypeOK /\ ForcedHoldsNoOperationalOffer /\ NeverLockedOut
=============================================================================
