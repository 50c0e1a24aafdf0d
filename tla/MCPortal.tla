------------------------------ MODULE MCPortal ------------------------------
(***************************************************************************)
(* The web portal of a node: its sessions and WebAuthn ceremonies, its     *)
(* accounts, the governance operations signed with the keys of either, and *)
(* the OIDC provider with its signing keys.  They are separate fields of   *)
(* the portal's state, so a behaviour follows one of them and the others   *)
(* stay in their initial states.  Governance is followed in groups of      *)
(* operations: invitations make the users that each of the other groups is *)
(* about.  The provider is followed with its clients being edited, or with *)
(* users consenting and clients acting for them.                           *)
(***************************************************************************)
EXTENDS PortalSessions, Sequences, TLC

CONSTANTS
    Invitee, First, Email, Passkey,             \* PortalAccounts
    Handle, MaxDepth, Level, Cap, Role, Group, Place, MaxSpeed, MaxTime, MaxQuorum,
    MaxActs, MaxRequests,                       \* Governance
    Client, Uri, ScopeName, Verifier, MaxCounter,   \* OidcProvider, for the users
    Kid, Grace, MaxSeconds                      \* SigningKeys

VARIABLES
    live, replayed, behind, failed, sessions, parked,
    edges, acts, users, temp, recoveries, asked, grants, roles, groups, history, origins,
    requests, deciders, sealed, escrowed,
    status, clients, consents, codes, tokens, accessIndex, refreshIndex, counter, cut, redeemed,
    keys, current, time, signed,
    part    \* what the behaviour follows

accountVars == <<live, replayed, behind, failed, sessions, parked>>
governanceVars == <<edges, acts, users, temp, recoveries, asked, grants, roles, groups, history,
                    origins, requests, deciders, sealed, escrowed>>
oidcVars == <<status, clients, consents, codes, tokens, accessIndex, refreshIndex, counter, cut,
              redeemed, keys, current, time, signed>>
providerVars == <<status, clients, consents, codes, tokens, accessIndex, refreshIndex, counter, cut,
                  redeemed>>
signingVars == <<keys, current, time, signed>>

\* One capability of one part.
OneCap == {<<"read">>}

A == INSTANCE PortalAccounts WITH Handle <- Invitee, Cred <- Passkey, pending <- parked
G == INSTANCE Governance WITH Owner <- First, MaxClock <- MaxTime
O == INSTANCE OidcProvider WITH grants <- tokens
K == INSTANCE SigningKeys WITH MaxTime <- MaxSeconds

ASSUME A!AccountsAssumption
ASSUME G!GovernanceAssumption
ASSUME O!OidcAssumption
ASSUME K!SigningAssumption

MCInit ==
    /\ Init /\ A!Init /\ G!GovInit /\ O!OidcInit /\ K!SigningInit
    /\ part \in {"sessions", "accounts", "recovery", "grants", "roles", "login", "queue",
                 "clients", "tokens", "signing"}

GovernanceNext ==
    \/ part \in {"recovery", "grants", "roles", "login", "queue"} /\ G!Invites
    \/ part = "recovery" /\ G!Recovery
    \/ part = "grants" /\ (G!Edges \/ G!Grants)
    \/ part = "roles" /\ (G!RolesAndGroups \/ G!Passwords)
    \/ part = "login" /\ G!Logins
    \/ part = "queue" /\ G!Requests

MCNext ==
    /\ UNCHANGED part
    /\ \/ part = "sessions" /\ Next /\ UNCHANGED <<accountVars, governanceVars, oidcVars>>
       \/ part = "accounts" /\ A!Next /\ UNCHANGED <<vars, governanceVars, oidcVars>>
       \/ GovernanceNext /\ UNCHANGED <<vars, accountVars, oidcVars>>
       \/ /\ \/ part = "clients" /\ O!ClientOps
             \/ part = "tokens" /\ O!UserOps
          /\ UNCHANGED <<vars, accountVars, governanceVars, signingVars>>
       \/ part = "signing" /\ K!SigningNext /\ UNCHANGED <<vars, accountVars, governanceVars, providerVars>>

MCSpec == MCInit /\ [][MCNext]_<<vars, accountVars, governanceVars, oidcVars, part>>

\* PortalAccounts: an account under a forced password change has no
\* operational offer, and no account has lost its last way in.
AccountsInv == A!AccountsInv

\* PortalAccounts: a restart rebuilds the users, offers, authority and
\* credentials that were live, those with a failed append excepted, and adds
\* nothing.
ReplayMatchesLive == A!ReplayMatchesLive

\* Governance: recoveries wait for their quorum, every change has its signed
\* act, every new origin its report, and every request at most one decision.
GovernanceInv == G!GovernanceInv

\* Governance: a recovery completes only after at least as many distinct
\* members signed an approval as any of its openings asked for.
RecoveryNeedsEveryQuorumAsked == G!RecoveryNeedsEveryQuorumAsked

\* OidcProvider: tokens and their indexes agree, and what a revocation cut off
\* stays dead.  SigningKeys: a token verifies for the grace period of its key.
OidcInv == O!OidcInv /\ K!SigningInv

Symmetry ==
    Permutations(User) \cup Permutations(Passkey) \cup Permutations(Email) \cup Permutations(Handle)
=============================================================================
