---------------------------- MODULE OidcProvider ----------------------------
(***************************************************************************)
(* The OIDC authorization server of crates/pillar-oidc: the registry of    *)
(* clients and consents, authorization codes with PKCE, and the access and *)
(* refresh tokens of each grant, indexed both by token and by grant.       *)
(*                                                                         *)
(* A grant is a pair of a user and a client.  Codes and tokens are opaque  *)
(* hashes of one counter, so they are its values.  A code challenge is the *)
(* verifier it is the hash of.  ID tokens are the module SigningKeys.      *)
(***************************************************************************)
EXTENDS Integers, Functions

CONSTANTS
    User, Client, Uri, ScopeName, Verifier,
    None,           \* an entry that is absent
    MaxCounter      \* bound on the codes and tokens handed out

Grant == User \X Client
Code == [grant : Grant, uri : Uri, scopes : SUBSET ScopeName, challenge : Verifier, consumed : BOOLEAN]
Tokens == [access : Nat \cup {None}, refresh : Nat \cup {None}, scopes : SUBSET ScopeName]

OidcAssumption == MaxCounter \in Nat /\ None \notin Nat \cup Tokens

Grants == {"authorization_code", "client_credentials"}

VARIABLES
    status,         \* users: "invited" also where there is none, "active" or "disabled"
    clients,        \* registry.clients
    consents,       \* registry.consents, by grant
    codes,          \* by code
    grants,         \* the live tokens of each grant, None where there is no record
    accessIndex,    \* access token -> grant
    refreshIndex,   \* refresh token -> grant
    counter,
    cut,            \* history: the counter when a grant was last cut off
    redeemed        \* history: the refresh tokens that were rotated away

oidcVars == <<status, clients, consents, codes, grants, accessIndex, refreshIndex, counter, cut,
              redeemed>>
registryVars == <<clients, consents>>
tokenVars == <<grants, accessIndex, refreshIndex>>

OidcInit ==
    /\ status = [u \in User |-> "invited"]
    /\ clients = [c \in Client |-> None]
    /\ consents = [g \in Grant |-> None]
    /\ codes = <<>>
    /\ grants = [g \in Grant |-> None]
    /\ accessIndex = <<>> /\ refreshIndex = <<>>
    /\ counter = 0
    /\ cut = [g \in Grant |-> 0]
    /\ redeemed = {}

Without(f, x) == Restrict(f, DOMAIN f \ {x})
With(f, x, y) == [z \in DOMAIN f \cup {x} |-> IF z = x THEN y ELSE f[z]]

-----------------------------------------------------------------------------
(* The registry: apply_op() *)

SanitizeGrants(public, g) == IF public THEN g \ {"client_credentials"} ELSE g

Registration(public, uris, g) ==
    [public |-> public, uris |-> uris, grants |-> SanitizeGrants(public, g)]

\* register_client() and RegisterClient: a name that is taken is left alone.
RegisterClient(c, public, uris, g) ==
    /\ public => "client_credentials" \notin g
    /\ "authorization_code" \in g => uris # {}
    /\ clients[c] = None
    /\ clients' = [clients EXCEPT ![c] = Registration(public, uris, g)]
    /\ UNCHANGED <<status, consents, codes, tokenVars, counter, cut, redeemed>>

\* put_client(): replaces whatever there was, unchecked.
PutClient(c, public, uris, g) ==
    /\ clients' = [clients EXCEPT ![c] = [public |-> public, uris |-> uris, grants |-> g]]
    /\ UNCHANGED <<status, consents, codes, tokenVars, counter, cut, redeemed>>

SetRedirectUris(c, uris) ==
    /\ clients[c] # None
    /\ clients' = [clients EXCEPT ![c].uris = uris]
    /\ UNCHANGED <<status, consents, codes, tokenVars, counter, cut, redeemed>>

SetGrants(c, g) ==
    /\ clients[c] # None
    /\ clients' = [clients EXCEPT ![c].grants = SanitizeGrants(clients[c].public, g)]
    /\ UNCHANGED <<status, consents, codes, tokenVars, counter, cut, redeemed>>

\* GrantConsent: revives a revoked consent and adds to its scopes.
GrantConsent(g, scopes) ==
    /\ consents' = [consents EXCEPT ![g] =
           [scopes |-> scopes \cup (IF @ = None THEN {} ELSE @.scopes), revoked |-> FALSE]]
    /\ UNCHANGED <<status, clients, codes, tokenVars, counter, cut, redeemed>>

Consented(g) == consents[g] # None /\ ~consents[g].revoked
Active(u) == status[u] = "active"

-----------------------------------------------------------------------------
(* Revocation *)

Live(g, kind) == IF grants[g] = None THEN None ELSE grants[g][kind]

\* revoke_grant_tokens() of each of these grants.
RevokeGrantTokens(gs) ==
    /\ grants' = [g \in Grant |->
           IF g \in gs /\ grants[g] # None
           THEN [grants[g] EXCEPT !.access = None, !.refresh = None] ELSE grants[g]]
    /\ accessIndex' = Restrict(accessIndex, DOMAIN accessIndex \ {Live(g, "access") : g \in gs})
    /\ refreshIndex' = Restrict(refreshIndex, DOMAIN refreshIndex \ {Live(g, "refresh") : g \in gs})

CutOff(gs) == cut' = [g \in Grant |-> IF g \in gs THEN counter ELSE cut[g]]

\* set_user_status(): disabling a user revokes the tokens of every grant.
SetUserStatus(u, s) ==
    LET cutOff == IF s = "disabled" THEN {u} \X Client ELSE {}
    IN  /\ status' = [status EXCEPT ![u] = s]
        /\ RevokeGrantTokens(cutOff) /\ CutOff(cutOff)
        /\ UNCHANGED <<registryVars, codes, counter, redeemed>>

\* Mutant of RevokeConsent: introspection refuses the tokens, so they stay.
RevokeConsentOnly(g) ==
    /\ consents' = [consents EXCEPT ![g] = IF @ = None THEN None ELSE [@ EXCEPT !.revoked = TRUE]]
    /\ CutOff({g})
    /\ UNCHANGED <<status, clients, codes, tokenVars, counter, redeemed>>

\* revoke_consent()
RevokeConsent(g) ==
    /\ consents' = [consents EXCEPT ![g] = IF @ = None THEN None ELSE [@ EXCEPT !.revoked = TRUE]]
    /\ RevokeGrantTokens({g}) /\ CutOff({g})
    /\ UNCHANGED <<status, clients, codes, counter, redeemed>>

\* revoke() of an access token; unknown ones are left alone.
RevokeAccess(t) ==
    /\ t \in DOMAIN accessIndex
    /\ LET g == accessIndex[t]
       IN grants' = [grants EXCEPT ![g] = IF @ # None /\ @.access = t THEN [@ EXCEPT !.access = None] ELSE @]
    /\ accessIndex' = Without(accessIndex, t)
    /\ UNCHANGED <<status, registryVars, codes, refreshIndex, counter, cut, redeemed>>

-----------------------------------------------------------------------------
(* The endpoints *)

\* authorize() of a well-formed request: response type code, S256 challenge.
Authorize(g, uri, scopes, verifier) ==
    /\ counter < MaxCounter
    /\ clients[g[2]] # None
    /\ uri \in clients[g[2]].uris
    /\ "authorization_code" \in clients[g[2]].grants
    /\ Active(g[1])
    /\ Consented(g) /\ scopes \subseteq consents[g].scopes
    /\ counter' = counter + 1
    /\ codes' = With(codes, counter', [grant |-> g, uri |-> uri, scopes |-> scopes,
                                       challenge |-> verifier, consumed |-> FALSE])
    /\ UNCHANGED <<status, registryVars, tokenVars, cut, redeemed>>

\* mint_grant_tokens(): the new pair takes the place of the one before it, in
\* the record and in both indexes; `refreshes` is the index it finds.
MintGrantTokens(g, scopes, refreshes) ==
    LET access == counter + 1
        refresh == counter + 2
    IN  /\ counter + 2 <= MaxCounter
        /\ counter' = counter + 2
        /\ grants' = [grants EXCEPT ![g] = [access |-> access, refresh |-> refresh, scopes |-> scopes]]
        /\ accessIndex' = With(Without(accessIndex, Live(g, "access")), access, g)
        /\ refreshIndex' = With(Without(refreshes, Live(g, "refresh")), refresh, g)

\* token_authorization_code()
TokenAuthorizationCode(code, uri, verifier) ==
    LET c == codes[code]
    IN  /\ ~c.consumed /\ c.uri = uri /\ c.challenge = verifier
        /\ Active(c.grant[1]) /\ Consented(c.grant)
        /\ codes' = [codes EXCEPT ![code].consumed = TRUE]
        /\ MintGrantTokens(c.grant, c.scopes, refreshIndex)
        /\ UNCHANGED <<status, registryVars, cut, redeemed>>

\* token_refresh()
TokenRefresh(t) ==
    /\ t \in DOMAIN refreshIndex
    /\ LET g == refreshIndex[t]
       IN  /\ Live(g, "refresh") = t
           /\ Active(g[1]) /\ Consented(g)
           /\ MintGrantTokens(g, grants[g].scopes, Without(refreshIndex, t))
    /\ redeemed' = redeemed \cup {t}
    /\ UNCHANGED <<status, registryVars, codes, cut>>

\* token_client_credentials(): the token handed out is kept nowhere.
TokenClientCredentials(c) ==
    /\ counter < MaxCounter
    /\ clients[c] # None /\ ~clients[c].public /\ "client_credentials" \in clients[c].grants
    /\ counter' = counter + 1
    /\ UNCHANGED <<status, registryVars, codes, tokenVars, cut, redeemed>>

\* introspect(), and with it userinfo().
Introspect(t) ==
    /\ t \in DOMAIN accessIndex
    /\ LET g == accessIndex[t] IN Live(g, "access") = t /\ Consented(g) /\ Active(g[1])

\* An administrator works on the clients.
ClientOps ==
    \/ \E c \in Client, uris \in SUBSET Uri, g \in SUBSET Grants :
        \/ \E public \in BOOLEAN : RegisterClient(c, public, uris, g)
        \/ SetRedirectUris(c, uris)
        \/ SetGrants(c, g)
    \/ \E c \in Client : TokenClientCredentials(c)

\* Users consent, and clients act for them.
UserOps ==
    \/ \E c \in Client, uri \in Uri : PutClient(c, TRUE, {uri}, {"authorization_code"})
    \/ \E u \in User, s \in {"invited", "active", "disabled"} : SetUserStatus(u, s)
    \/ \E g \in Grant :
        \/ RevokeConsent(g)
        \/ \E scopes \in SUBSET ScopeName \ {{}} :
            \/ GrantConsent(g, scopes)
            \/ \E uri \in Uri, v \in Verifier : Authorize(g, uri, scopes, v)
    \/ \E code \in DOMAIN codes, uri \in Uri, v \in Verifier : TokenAuthorizationCode(code, uri, v)
    \/ \E t \in DOMAIN refreshIndex : TokenRefresh(t)
    \/ \E t \in DOMAIN accessIndex : RevokeAccess(t)

OidcSpec == OidcInit /\ [][ClientOps \/ UserOps]_oidcVars

-----------------------------------------------------------------------------
\* What the token store holds; everything handed out was counted.
OidcTypeOK ==
    /\ counter \in Nat
    /\ \A code \in DOMAIN codes : codes[code] \in Code
    /\ grants \in [Grant -> Tokens \cup {None}]
    /\ \A t \in DOMAIN accessIndex : accessIndex[t] \in Grant /\ t \in 1..counter
    /\ \A t \in DOMAIN refreshIndex : refreshIndex[t] \in Grant /\ t \in 1..counter
    /\ cut \in [Grant -> 0..counter]
    /\ redeemed \subseteq 1..counter

\* Each index names exactly the tokens the grants hold: no token outlives its
\* place in the record, none is held and not found.
IndexesAgree ==
    /\ \A g \in Grant : /\ Live(g, "access") # None =>
                              Live(g, "access") \in DOMAIN accessIndex /\ accessIndex[Live(g, "access")] = g
                        /\ Live(g, "refresh") # None =>
                              Live(g, "refresh") \in DOMAIN refreshIndex /\ refreshIndex[Live(g, "refresh")] = g
    /\ \A t \in DOMAIN accessIndex : Live(accessIndex[t], "access") = t
    /\ \A t \in DOMAIN refreshIndex : Live(refreshIndex[t], "refresh") = t

\* A token handed out before its user was disabled or its consent was revoked
\* stays dead, whatever is granted again later.
CutOffStaysDead ==
    /\ \A t \in DOMAIN accessIndex : t > cut[accessIndex[t]]
    /\ \A t \in DOMAIN refreshIndex : t > cut[refreshIndex[t]]

\* A refresh token that was rotated away is never good again.
RefreshSingleUse == redeemed \cap DOMAIN refreshIndex = {}

\* The provider: indexes and records agree, revocations are final and refresh
\* tokens are spent once.
OidcInv == OidcTypeOK /\ IndexesAgree /\ CutOffStaysDead /\ RefreshSingleUse
=============================================================================
