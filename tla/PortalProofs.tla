---------------------------- MODULE PortalProofs ----------------------------
(***************************************************************************)
(* Proofs about the web portal: the OIDC provider and its signing keys,    *)
(* the sessions and WebAuthn ceremonies, the accounts, and the signed      *)
(* control operations of governance.                                       *)
(***************************************************************************)
EXTENDS MCPortal, InductionLemmas

(***************************************************************************)
(* The signing keys.                                                       *)
(***************************************************************************)

LEMMA SigningInvInit ==
    ASSUME K!SigningAssumption, K!SigningInit
    PROVE  K!SigningInv
  <1>1. current \in Kid
    BY DEF K!SigningAssumption, K!SigningInit
  <1>2. /\ time = 0 /\ signed = None /\ DOMAIN keys = {current}
        /\ keys[current] = [activated |-> 0, retired |-> None]
    BY DEF K!SigningInit, K!Installed
  <1>3. QED
    BY <1>1, <1>2 DEF K!SigningInv, K!SigningTypeOK, K!CurrentCanSign, K!SignerIsKept, K!GraceIsGiven

\* The grace period of a token follows from the key it is kept with.
LEMMA KeptVerifies ==
    ASSUME K!SigningAssumption, K!SigningTypeOK, K!SignerIsKept
    PROVE  K!GraceIsGiven
  BY DEF K!SigningAssumption, K!SigningTypeOK, K!SignerIsKept, K!GraceIsGiven, K!VerifyIdToken, K!Jwks,
         K!Expired

LEMMA SigningInvStep ==
    ASSUME K!SigningAssumption, K!SigningInv, [K!SigningNext]_(K!signingVars)
    PROVE  K!SigningInv'
  <1> USE DEF K!SigningInv
  <1> DEFINE KeyRecord == [activated : Nat, retired : Nat \cup {None}]
  <1>1. Grace \in Nat /\ None \notin Nat
    BY DEF K!SigningAssumption
  <1>2. K!SigningTypeOK' /\ K!CurrentCanSign' /\ K!SignerIsKept'
    <2>1. ASSUME NEW kid \in Kid, K!Rotate(kid)
          PROVE  K!SigningTypeOK' /\ K!CurrentCanSign' /\ K!SignerIsKept'
      <3>1. /\ DOMAIN keys' = DOMAIN keys \cup {kid} /\ kid # current /\ current' = kid
            /\ keys'[kid] = [activated |-> time, retired |-> None]
            /\ keys'[current] = [keys[current] EXCEPT !.retired = time]
            /\ \A k \in DOMAIN keys \ {current} : keys'[k] = keys[k]
            /\ time' = time /\ signed' = signed
        BY <2>1 DEF K!Rotate, K!Installed, K!CurrentCanSign
      <3>2. /\ keys'[kid] \in KeyRecord /\ keys'[kid].retired = None
            /\ keys'[current] \in KeyRecord
            /\ keys'[current].activated = keys[current].activated /\ keys'[current].retired = time
        BY <3>1 DEF K!SigningTypeOK, K!CurrentCanSign
      <3>3. K!SigningTypeOK'
        BY <3>1, <3>2 DEF K!SigningTypeOK
      <3>4. K!CurrentCanSign'
        BY <3>1, <3>2 DEF K!CurrentCanSign
      <3>5. K!SignerIsKept'
        BY <1>1, <2>1, <3>1, <3>2 DEF K!SignerIsKept, K!SigningTypeOK, K!Rotate
      <3>6. QED
        BY <3>3, <3>4, <3>5
    <2>2. CASE K!PruneExpired
      <3>1. /\ DOMAIN keys' = {k \in DOMAIN keys : ~K!Expired(k)}
            /\ \A k \in DOMAIN keys' : keys'[k] = keys[k]
            /\ time' = time /\ signed' = signed /\ current' = current
        BY <2>2 DEF K!PruneExpired, K!Restrict
      <3>2. QED
        BY <1>1, <3>1 DEF K!SigningTypeOK, K!CurrentCanSign, K!SignerIsKept, K!Expired
    <2>3. CASE K!SignIdToken
      BY <1>1, <2>3 DEF K!SignIdToken, K!SigningTypeOK, K!CurrentCanSign, K!SignerIsKept
    <2>4. CASE K!Tick
      BY <1>1, <2>4 DEF K!Tick, K!SigningTypeOK, K!CurrentCanSign, K!SignerIsKept
    <2>5. CASE UNCHANGED K!signingVars
      BY <2>5 DEF K!signingVars, K!SigningTypeOK, K!CurrentCanSign, K!SignerIsKept
    <2>6. QED
      BY <2>1, <2>2, <2>3, <2>4, <2>5 DEF K!SigningNext
  <1>3. K!GraceIsGiven'
    BY <1>2, KeptVerifies, PTL
  <1>4. QED
    BY <1>2, <1>3

\* The key set: the provider can always sign, and an ID token verifies, and
\* its key is published, for the whole grace period after it was signed.
THEOREM SigningInvariant ==
    ASSUME K!SigningAssumption
    PROVE  K!SigningSpec => []K!SigningInv
  BY SigningInvInit, SigningInvStep, PTL DEF K!SigningSpec

(***************************************************************************)
(* The token store of the OIDC provider.                                   *)
(***************************************************************************)

\* A live token is a number, and a grant without a record has none.
LEMMA LiveType ==
    ASSUME O!OidcTypeOK, NEW g \in O!Grant
    PROVE  /\ O!Live(g, "access") \in Nat \cup {None}
           /\ O!Live(g, "refresh") \in Nat \cup {None}
           /\ tokens[g] # None => /\ tokens[g] \in O!Tokens
                                 /\ O!Live(g, "access") = tokens[g].access
                                 /\ O!Live(g, "refresh") = tokens[g].refresh
           /\ tokens[g] = None => O!Live(g, "access") = None /\ O!Live(g, "refresh") = None
  BY DEF O!OidcTypeOK, O!Live, O!Tokens

LEMMA OidcInvInit ==
    ASSUME O!OidcAssumption, O!OidcInit
    PROVE  O!OidcInv
  <1>1. DOMAIN accessIndex = {} /\ DOMAIN refreshIndex = {} /\ DOMAIN codes = {}
    BY DEF O!OidcInit
  <1>2. O!OidcTypeOK
    <2>1. counter = 0 /\ redeemed = {}
      BY DEF O!OidcInit
    <2>2. tokens \in [O!Grant -> O!Tokens \cup {None}] /\ cut \in [O!Grant -> 0..counter]
      BY DEF O!OidcInit
    <2>3. QED
      BY <1>1, <2>1, <2>2 DEF O!OidcTypeOK
  <1>3. \A g \in O!Grant : O!Live(g, "access") = None /\ O!Live(g, "refresh") = None
    BY DEF O!OidcInit, O!Live
  <1>4. QED
    BY <1>1, <1>2, <1>3 DEF O!OidcInv, O!IndexesAgree, O!CutOffStaysDead, O!RefreshSingleUse, O!OidcInit

\* The registry and the status of users are no part of the invariant, and a
\* counter may skip values.
LEMMA OtherFieldsKeepOidc ==
    ASSUME O!OidcInv, UNCHANGED <<tokens, accessIndex, refreshIndex, cut, redeemed>>,
           counter' \in Nat, counter' >= counter, \A code \in DOMAIN codes' : codes'[code] \in O!Code
    PROVE  O!OidcInv'
  <1>1. O!OidcTypeOK'
    <2>1. cut' \in [O!Grant -> 0..counter'] /\ redeemed' \subseteq 1..counter'
      BY DEF O!OidcInv, O!OidcTypeOK
    <2>2. QED
      BY <2>1 DEF O!OidcInv, O!OidcTypeOK
  <1>2. \A g, kind : O!Live(g, kind)' = O!Live(g, kind)
    BY DEF O!Live
  <1>3. QED
    BY <1>1, <1>2 DEF O!OidcInv, O!IndexesAgree, O!CutOffStaysDead, O!RefreshSingleUse

\* The tokens of these grants are gone from the record and from both indexes,
\* and nothing else is.
LEMMA RevocationKeepsOidc ==
    ASSUME O!OidcAssumption, O!OidcInv, NEW gs \in SUBSET O!Grant,
           O!RevokeGrantTokens(gs), O!CutOff(gs), UNCHANGED <<codes, counter, redeemed>>
    PROVE  O!OidcInv'
  <1> USE DEF O!OidcInv
  <1>1. None \notin Nat /\ None \notin O!Tokens
    BY DEF O!OidcAssumption
  <1>2. \A g \in O!Grant : IF g \in gs /\ tokens[g] # None
            THEN tokens'[g] = [tokens[g] EXCEPT !.access = None, !.refresh = None]
            ELSE tokens'[g] = tokens[g]
    BY DEF O!RevokeGrantTokens
  <1>3. \A g \in O!Grant :
            /\ tokens'[g] \in O!Tokens \cup {None}
            /\ g \in gs => O!Live(g, "access")' = None /\ O!Live(g, "refresh")' = None
            /\ g \notin gs => /\ O!Live(g, "access")' = O!Live(g, "access")
                              /\ O!Live(g, "refresh")' = O!Live(g, "refresh")
    <2> SUFFICES ASSUME NEW g \in O!Grant
                 PROVE  /\ tokens'[g] \in O!Tokens \cup {None}
                        /\ g \in gs => O!Live(g, "access")' = None /\ O!Live(g, "refresh")' = None
                        /\ g \notin gs => /\ O!Live(g, "access")' = O!Live(g, "access")
                                          /\ O!Live(g, "refresh")' = O!Live(g, "refresh")
      OBVIOUS
    <2>1. CASE g \in gs /\ tokens[g] # None
      <3>1. tokens[g] \in O!Tokens
        BY <2>1 DEF O!OidcTypeOK
      <3>2. /\ tokens'[g] \in O!Tokens /\ tokens'[g].access = None /\ tokens'[g].refresh = None
            /\ tokens'[g]["access"] = None /\ tokens'[g]["refresh"] = None
        BY <1>2, <2>1, <3>1 DEF O!Tokens
      <3>3. QED
        BY <2>1, <3>2 DEF O!Live
    <2>2. CASE ~(g \in gs /\ tokens[g] # None)
      BY <1>2, <2>2 DEF O!Live, O!OidcTypeOK
    <2>3. QED
      BY <2>1, <2>2
  <1>4. /\ DOMAIN accessIndex' = DOMAIN accessIndex \ {O!Live(g, "access") : g \in gs}
        /\ DOMAIN refreshIndex' = DOMAIN refreshIndex \ {O!Live(g, "refresh") : g \in gs}
        /\ \A t \in DOMAIN accessIndex' : accessIndex'[t] = accessIndex[t]
        /\ \A t \in DOMAIN refreshIndex' : refreshIndex'[t] = refreshIndex[t]
    BY DEF O!RevokeGrantTokens, O!Restrict
  <1>5. /\ \A t \in DOMAIN accessIndex' : accessIndex[t] \notin gs
        /\ \A t \in DOMAIN refreshIndex' : refreshIndex[t] \notin gs
    BY <1>4 DEF O!IndexesAgree
  <1>6. cut' \in [O!Grant -> 0..counter] /\ \A g \in O!Grant \ gs : cut'[g] = cut[g]
    BY DEF O!CutOff, O!OidcTypeOK
  <1>7. O!OidcTypeOK'
    <2>1. tokens' \in [O!Grant -> O!Tokens \cup {None}]
      BY <1>3 DEF O!RevokeGrantTokens
    <2>2. QED
      BY <1>4, <1>6, <2>1 DEF O!OidcTypeOK
  <1>8. O!IndexesAgree'
    BY <1>3, <1>4, <1>5 DEF O!IndexesAgree, O!OidcTypeOK
  <1>9. O!CutOffStaysDead'
    BY <1>4, <1>5, <1>6 DEF O!CutOffStaysDead, O!OidcTypeOK
  <1>10. O!RefreshSingleUse'
    BY <1>4 DEF O!RefreshSingleUse
  <1>11. QED
    BY <1>7, <1>8, <1>9, <1>10

\* An access token alone is revoked; its grant keeps the refresh token.
LEMMA RevokeAccessKeepsOidc ==
    ASSUME O!OidcAssumption, O!OidcInv, NEW t \in DOMAIN accessIndex, O!RevokeAccess(t)
    PROVE  O!OidcInv'
  <1> USE DEF O!OidcInv
  <1>1. PICK g \in O!Grant : g = accessIndex[t]
    BY DEF O!OidcTypeOK
  <1>2. t \in Nat /\ t # None /\ O!Live(g, "access") = t
    BY <1>1 DEF O!OidcTypeOK, O!OidcAssumption, O!IndexesAgree
  <1>3. tokens[g] \in O!Tokens /\ tokens[g] # None /\ tokens[g].access = t
    BY <1>2, LiveType
  <1>4. tokens' = [tokens EXCEPT ![g] = [tokens[g] EXCEPT !.access = None]]
    BY <1>1, <1>3 DEF O!RevokeAccess
  <1>5. /\ tokens'[g] \in O!Tokens /\ tokens'[g]["access"] = None
        /\ tokens'[g]["refresh"] = tokens[g]["refresh"]
        /\ \A h \in O!Grant \ {g} : tokens'[h] = tokens[h]
    BY <1>3, <1>4 DEF O!OidcTypeOK, O!Tokens
  <1>6. None \notin O!Tokens
    BY DEF O!OidcAssumption
  <1>7. /\ O!Live(g, "access")' = None
        /\ \A h \in O!Grant : /\ O!Live(h, "refresh")' = O!Live(h, "refresh")
                              /\ h # g => O!Live(h, "access")' = O!Live(h, "access")
    BY <1>3, <1>5, <1>6 DEF O!Live
  <1>8. /\ DOMAIN accessIndex' = DOMAIN accessIndex \ {t}
        /\ \A z \in DOMAIN accessIndex' : accessIndex'[z] = accessIndex[z]
        /\ UNCHANGED <<codes, refreshIndex, counter, cut, redeemed>>
    BY DEF O!RevokeAccess, O!Without, O!Restrict
  <1>9. \A z \in DOMAIN accessIndex' : accessIndex[z] # g
    BY <1>2, <1>8 DEF O!IndexesAgree
  <1>10. O!OidcTypeOK'
    <2>1. tokens' \in [O!Grant -> O!Tokens \cup {None}]
      BY <1>4, <1>5 DEF O!OidcTypeOK
    <2>2. QED
      BY <1>8, <2>1 DEF O!OidcTypeOK
  <1>11. O!IndexesAgree'
    BY <1>2, <1>7, <1>8, <1>9 DEF O!IndexesAgree, O!OidcTypeOK
  <1>12. O!CutOffStaysDead' /\ O!RefreshSingleUse'
    BY <1>8 DEF O!CutOffStaysDead, O!RefreshSingleUse
  <1>13. QED
    BY <1>10, <1>11, <1>12

\* A new pair takes the place of the one before it: numbers that were never
\* handed out, in the indexes from which the old pair is gone.
LEMMA MintKeepsOidc ==
    ASSUME O!OidcAssumption, O!OidcInv, NEW g \in O!Grant, NEW scopes \in SUBSET ScopeName,
           NEW refreshes,
           \A z \in DOMAIN refreshes : z \in DOMAIN refreshIndex /\ refreshes[z] = refreshIndex[z],
           \A z \in DOMAIN refreshIndex \ DOMAIN refreshes : z = O!Live(g, "refresh"),
           O!MintGrantTokens(g, scopes, refreshes),
           \A code \in DOMAIN codes' : codes'[code] \in O!Code,
           redeemed' \subseteq redeemed \cup {O!Live(g, "refresh")}, redeemed' \subseteq 1..counter,
           cut' = cut
    PROVE  O!OidcInv'
  <1> USE DEF O!OidcInv
  <1> DEFINE rec == [access |-> counter + 1, refresh |-> counter + 2, scopes |-> scopes]
  <1>1. counter \in Nat /\ counter' = counter + 2 /\ None \notin Nat /\ None \notin O!Tokens
    BY DEF O!OidcTypeOK, O!MintGrantTokens, O!OidcAssumption
  <1>2. rec \in O!Tokens /\ rec["access"] = counter + 1 /\ rec["refresh"] = counter + 2
    BY <1>1 DEF O!Tokens
  <1>3. tokens' = [tokens EXCEPT ![g] = rec]
    BY DEF O!MintGrantTokens
  <1> HIDE DEF rec
  <1>4. tokens' \in [O!Grant -> O!Tokens \cup {None}] /\ tokens'[g] = rec
        /\ \A h \in O!Grant \ {g} : tokens'[h] = tokens[h]
    BY <1>2, <1>3 DEF O!OidcTypeOK
  <1>5. /\ O!Live(g, "access")' = counter + 1 /\ O!Live(g, "refresh")' = counter + 2
        /\ \A h \in O!Grant \ {g} : /\ O!Live(h, "access")' = O!Live(h, "access")
                                     /\ O!Live(h, "refresh")' = O!Live(h, "refresh")
    BY <1>1, <1>2, <1>4 DEF O!Live
  <1>6. /\ DOMAIN accessIndex' = (DOMAIN accessIndex \ {O!Live(g, "access")}) \cup {counter + 1}
        /\ accessIndex'[counter + 1] = g
        /\ \A z \in DOMAIN accessIndex' \ {counter + 1} : accessIndex'[z] = accessIndex[z]
    BY DEF O!MintGrantTokens, O!With, O!Without, O!Restrict
  <1>7. /\ DOMAIN refreshIndex' = (DOMAIN refreshIndex \ {O!Live(g, "refresh")}) \cup {counter + 2}
        /\ refreshIndex'[counter + 2] = g
        /\ \A z \in DOMAIN refreshIndex' \ {counter + 2} : refreshIndex'[z] = refreshIndex[z]
    <2>1. refreshIndex' = O!With(O!Without(refreshes, O!Live(g, "refresh")), counter + 2, g)
      BY DEF O!MintGrantTokens
    <2>2. DOMAIN refreshes \ {O!Live(g, "refresh")} = DOMAIN refreshIndex \ {O!Live(g, "refresh")}
      OBVIOUS
    <2>3. DOMAIN refreshIndex' = (DOMAIN refreshes \ {O!Live(g, "refresh")}) \cup {counter + 2}
      BY <2>1 DEF O!With, O!Without, O!Restrict
    <2>4. refreshIndex'[counter + 2] = g
      BY <2>1 DEF O!With
    <2>5. \A z \in DOMAIN refreshIndex' \ {counter + 2} : refreshIndex'[z] = refreshes[z]
      BY <2>1, <2>3 DEF O!With, O!Without, O!Restrict
    <2>6. QED
      BY <2>2, <2>3, <2>4, <2>5
  <1>8. /\ \A z \in DOMAIN accessIndex : z \in Nat /\ z # counter + 1 /\ z # counter + 2
        /\ \A z \in DOMAIN refreshIndex : z \in Nat /\ z # counter + 1 /\ z # counter + 2
    BY <1>1 DEF O!OidcTypeOK
  <1>9. O!OidcTypeOK'
    <2>1. cut' \in [O!Grant -> 0..counter'] /\ redeemed' \subseteq 1..counter'
      BY <1>1 DEF O!OidcTypeOK
    <2>2. \A z \in DOMAIN accessIndex' : accessIndex'[z] \in O!Grant /\ z \in 1..counter'
      BY <1>1, <1>6 DEF O!OidcTypeOK
    <2>3. \A z \in DOMAIN refreshIndex' : refreshIndex'[z] \in O!Grant /\ z \in 1..counter'
      BY <1>1, <1>7 DEF O!OidcTypeOK
    <2>4. QED
      BY <1>1, <1>4, <2>1, <2>2, <2>3 DEF O!OidcTypeOK
  <1>10. O!IndexesAgree'
    <2>1. ASSUME NEW h \in O!Grant, O!Live(h, "access")' # None
          PROVE  O!Live(h, "access")' \in DOMAIN accessIndex' /\ accessIndex'[O!Live(h, "access")'] = h
      BY <1>5, <1>6, <1>8, <2>1 DEF O!IndexesAgree
    <2>2. ASSUME NEW h \in O!Grant, O!Live(h, "refresh")' # None
          PROVE  O!Live(h, "refresh")' \in DOMAIN refreshIndex' /\ refreshIndex'[O!Live(h, "refresh")'] = h
      BY <1>5, <1>7, <1>8, <2>2 DEF O!IndexesAgree
    <2>3. ASSUME NEW z \in DOMAIN accessIndex'
          PROVE  \E h \in O!Grant : h = accessIndex'[z] /\ O!Live(h, "access")' = z
      BY <1>5, <1>6, <1>8 DEF O!IndexesAgree, O!OidcTypeOK
    <2>4. ASSUME NEW z \in DOMAIN refreshIndex'
          PROVE  \E h \in O!Grant : h = refreshIndex'[z] /\ O!Live(h, "refresh")' = z
      BY <1>5, <1>7, <1>8 DEF O!IndexesAgree, O!OidcTypeOK
    <2>5. QED
      BY <2>1, <2>2, <2>3, <2>4 DEF O!IndexesAgree, O!Live
  <1>11. O!CutOffStaysDead'
    BY <1>1, <1>6, <1>7 DEF O!CutOffStaysDead, O!OidcTypeOK
  <1>12. O!RefreshSingleUse'
    BY <1>1, <1>7 DEF O!RefreshSingleUse, O!OidcTypeOK
  <1>13. QED
    BY <1>9, <1>10, <1>11, <1>12

LEMMA CodeKeepsOidc ==
    ASSUME O!OidcAssumption, O!OidcInv, NEW code \in DOMAIN codes, NEW uri, NEW v,
           O!TokenAuthorizationCode(code, uri, v)
    PROVE  O!OidcInv'
  <1>1. codes[code] \in O!Code
    BY DEF O!OidcInv, O!OidcTypeOK
  <1>2. codes[code].grant \in O!Grant /\ codes[code].scopes \in SUBSET ScopeName
    BY <1>1 DEF O!Code
  <1>3. \A x \in DOMAIN codes' : codes'[x] \in O!Code
    <2>1. codes' = [codes EXCEPT ![code] = [codes[code] EXCEPT !.consumed = TRUE]]
      BY DEF O!TokenAuthorizationCode
    <2>2. [codes[code] EXCEPT !.consumed = TRUE] \in O!Code
      BY <1>1 DEF O!Code
    <2>3. QED
      BY <2>1, <2>2 DEF O!OidcInv, O!OidcTypeOK
  <1>4. /\ O!MintGrantTokens(codes[code].grant, codes[code].scopes, refreshIndex)
        /\ cut' = cut /\ redeemed' = redeemed
    BY DEF O!TokenAuthorizationCode
  <1>5. redeemed \subseteq 1..counter
    BY DEF O!OidcInv, O!OidcTypeOK
  <1>6. QED
    BY <1>2, <1>3, <1>4, <1>5, MintKeepsOidc

LEMMA RefreshKeepsOidc ==
    ASSUME O!OidcAssumption, O!OidcInv, NEW t \in DOMAIN refreshIndex, O!TokenRefresh(t)
    PROVE  O!OidcInv'
  <1>1. PICK g \in O!Grant : g = refreshIndex[t]
    BY DEF O!OidcInv, O!OidcTypeOK
  <1>2. t \in 1..counter /\ t # None /\ O!Live(g, "refresh") = t
    BY <1>1 DEF O!OidcInv, O!OidcTypeOK, O!OidcAssumption, O!IndexesAgree
  <1>3. O!OidcTypeOK
    BY DEF O!OidcInv
  <1>4. tokens[g] \in O!Tokens
    BY <1>2, <1>3, LiveType
  <1>5. tokens[g].scopes \in SUBSET ScopeName
    BY <1>4 DEF O!Tokens
  <1>6. /\ O!MintGrantTokens(g, tokens[g].scopes, O!Without(refreshIndex, t))
        /\ cut' = cut /\ codes' = codes /\ redeemed' = redeemed \cup {t}
    BY <1>1 DEF O!TokenRefresh
  <1>7. redeemed' \subseteq 1..counter /\ \A x \in DOMAIN codes' : codes'[x] \in O!Code
    BY <1>2, <1>3, <1>6 DEF O!OidcTypeOK
  <1>8. /\ \A z \in DOMAIN O!Without(refreshIndex, t) :
                z \in DOMAIN refreshIndex /\ O!Without(refreshIndex, t)[z] = refreshIndex[z]
        /\ \A z \in DOMAIN refreshIndex \ DOMAIN O!Without(refreshIndex, t) : z = O!Live(g, "refresh")
    BY <1>2 DEF O!Without, O!Restrict
  <1>9. QED
    BY <1>2, <1>5, <1>6, <1>7, <1>8, MintKeepsOidc

LEMMA OidcInvStep ==
    ASSUME O!OidcAssumption, O!OidcInv, [O!ClientOps \/ O!UserOps]_(O!oidcVars)
    PROVE  O!OidcInv'
  <1>1. counter \in Nat /\ \A code \in DOMAIN codes : codes[code] \in O!Code
    BY DEF O!OidcInv, O!OidcTypeOK
  <1>2. ASSUME UNCHANGED <<codes, tokens, accessIndex, refreshIndex, counter, cut, redeemed>>
        PROVE  O!OidcInv'
    BY <1>1, <1>2, OtherFieldsKeepOidc
  <1>3. CASE O!ClientOps
    <2>1. ASSUME NEW c \in Client, O!TokenClientCredentials(c)
          PROVE  O!OidcInv'
      BY <1>1, <2>1, OtherFieldsKeepOidc DEF O!TokenClientCredentials, O!tokenVars
    <2>2. QED
      BY <1>2, <1>3, <2>1 DEF O!ClientOps, O!RegisterClient, O!SetRedirectUris, O!SetGrants, O!tokenVars
  <1>4. ASSUME NEW u \in User, NEW s, O!SetUserStatus(u, s)
        PROVE  O!OidcInv'
    <2> DEFINE gs == IF s = "disabled" THEN {u} \X Client ELSE {}
    <2>1. gs \in SUBSET O!Grant
      BY DEF O!Grant
    <2>2. /\ O!RevokeGrantTokens(gs) /\ O!CutOff(gs)
          /\ UNCHANGED <<codes, counter, redeemed>>
      BY <1>4 DEF O!SetUserStatus
    <2> HIDE DEF gs
    <2>3. QED
      BY <2>1, <2>2, RevocationKeepsOidc
  <1>5. ASSUME NEW g \in O!Grant, O!RevokeConsent(g)
        PROVE  O!OidcInv'
    <2>1. {g} \in SUBSET O!Grant
      OBVIOUS
    <2>2. QED
      BY <1>5, <2>1, RevocationKeepsOidc DEF O!RevokeConsent
  <1>6. ASSUME NEW g \in O!Grant, NEW uri \in Uri, NEW scopes \in SUBSET ScopeName, NEW v \in Verifier,
               O!Authorize(g, uri, scopes, v)
        PROVE  O!OidcInv'
    <2> DEFINE rec == [grant |-> g, uri |-> uri, scopes |-> scopes, challenge |-> v, consumed |-> FALSE]
    <2>1. rec \in O!Code
      BY DEF O!Code
    <2>2. codes' = O!With(codes, counter + 1, rec) /\ counter' = counter + 1
      BY <1>6 DEF O!Authorize
    <2> HIDE DEF rec
    <2>3. \A code \in DOMAIN codes' : codes'[code] \in O!Code
      BY <1>1, <2>1, <2>2 DEF O!With
    <2>4. QED
      <3>1. UNCHANGED <<tokens, accessIndex, refreshIndex, cut, redeemed>>
        BY <1>6 DEF O!Authorize, O!tokenVars
      <3>2. counter' \in Nat /\ counter' >= counter
        BY <1>1, <2>2
      <3>3. QED
        BY <2>3, <3>1, <3>2, OtherFieldsKeepOidc
  <1>7. CASE O!UserOps
    <2>1. CASE \E c \in Client, uri \in Uri : O!PutClient(c, TRUE, {uri}, {"authorization_code"})
      BY <1>2, <2>1 DEF O!PutClient, O!tokenVars
    <2>2. CASE \E g \in O!Grant, scopes \in SUBSET ScopeName : O!GrantConsent(g, scopes)
      BY <1>2, <2>2 DEF O!GrantConsent, O!tokenVars
    <2>3. CASE \E u \in User, s \in {"invited", "active", "disabled"} : O!SetUserStatus(u, s)
      BY <1>4, <2>3
    <2>4. CASE \E g \in O!Grant : O!RevokeConsent(g)
      BY <1>5, <2>4
    <2>5. CASE \E g \in O!Grant, uri \in Uri, scopes \in SUBSET ScopeName, v \in Verifier :
                    O!Authorize(g, uri, scopes, v)
      BY <1>6, <2>5
    <2>6. CASE \E code \in DOMAIN codes, uri \in Uri, v \in Verifier :
                    O!TokenAuthorizationCode(code, uri, v)
      BY <2>6, CodeKeepsOidc
    <2>7. CASE \E t \in DOMAIN refreshIndex : O!TokenRefresh(t)
      BY <2>7, RefreshKeepsOidc
    <2>8. CASE \E t \in DOMAIN accessIndex : O!RevokeAccess(t)
      BY <2>8, RevokeAccessKeepsOidc
    <2>9. QED
      BY <1>7, <2>1, <2>2, <2>3, <2>4, <2>5, <2>6, <2>7, <2>8, Zenon DEF O!UserOps
  <1>8. CASE UNCHANGED O!oidcVars
    BY <1>2, <1>8 DEF O!oidcVars
  <1>9. QED
    BY <1>3, <1>7, <1>8

\* The provider as a whole.
\* Indexes and records of the tokens agree, a token handed out before its user
\* was disabled or its consent revoked stays dead, a refresh token is spent
\* once, and ID tokens verify for the grace period of their own key: for any
\* users, clients, codes and keys, in any order of the endpoints' calls.
THEOREM OidcInvariant ==
    ASSUME O!OidcAssumption, K!SigningAssumption
    PROVE  O!OidcSpec /\ K!SigningSpec => []OidcInv
  <1>1. O!OidcSpec => []O!OidcInv
    BY OidcInvInit, OidcInvStep, PTL DEF O!OidcSpec
  <1>2. QED
    BY <1>1, SigningInvariant, PTL DEF OidcInv

(***************************************************************************)
(* Sessions and WebAuthn ceremonies.                                       *)
(***************************************************************************)

LEMMA TokenTypes ==
    ASSUME TypeOK
    PROVE  /\ next.s < MaxSessions => [kind |-> "s", n |-> next.s] \in Session
           /\ next.p < MaxPending => [kind |-> "p", n |-> next.p] \in Pending
           /\ \A t \in Session : t.kind = "s"
           /\ \A t \in Pending : t.kind = "p"
           /\ next.s \in 0..MaxSessions /\ next.p \in 0..MaxPending
  BY TtlAssumption DEF TypeOK, Session, Pending

\* A ceremony is scoped to a user.
LEMMA ScopeType ==
    ASSUME TypeOK, NEW t \in Token, Scope(t) # None
    PROVE  Scope(t) \in User
  <1>1. CASE t \in Session
    BY <1>1, TokenTypes DEF Scope, TypeOK
  <1>2. CASE t \in Pending
    <2>1. t.kind # "s"
      BY <1>2 DEF Pending
    <2>2. QED
      BY <1>2, <2>1 DEF Scope, TypeOK
  <1>3. QED
    BY <1>1, <1>2 DEF Token

LEMMA SessionsInvInit == Init => SessionsInv
  <1> SUFFICES ASSUME Init PROVE SessionsInv
    OBVIOUS
  <1>1. TypeOK
    <2>1. session_clock \in 0..MaxClock /\ seq \in 0..MaxSeq /\ life \in 0..MaxRestarts
      BY TtlAssumption DEF Init
    <2>2. next \in [s : 0..MaxSessions, p : 0..MaxPending]
      BY TtlAssumption DEF Init
    <2>3. /\ login \in [Session -> User \cup {None}] /\ registry \in [Session -> Slot \cup {None}]
          /\ step_up_at \in [Session -> 0..MaxClock \cup {None}]
          /\ pending \in [Pending -> User \cup {None}]
          /\ challenges = {} /\ revoked = {} /\ spent = {}
      BY DEF Init
    <2>4. records \in Records
      BY DEF Init, Records
    <2>5. journaled \in [records : Records, revoked : SUBSET Cred]
      BY <2>4 DEF Init
    <2>6. lost \in [Cred -> SUBSET OpKind] /\ failures \in 0..MaxLost
      BY TtlAssumption DEF Init
    <2>7. QED
      BY <2>1, <2>2, <2>3, <2>4, <2>5, <2>6 DEF TypeOK
  <1>2. RevokedAdmitsNothing
    BY DEF Init, RevokedAdmitsNothing
  <1>3. SpentIsPast /\ SpentStaysSpent
    BY DEF Init, SpentIsPast, SpentStaysSpent
  <1>4. CredentialsSurvive
    BY DEF Init, CredentialsSurvive
  <1>5. QED
    BY <1>1, <1>2, <1>3, <1>4 DEF SessionsInv

-----------------------------------------------------------------------------
\* What the sessions contribute: the bearer maps.
BearerOK ==
    /\ session_clock \in 0..MaxClock
    /\ next \in [s : 0..MaxSessions, p : 0..MaxPending]
    /\ login \in [Session -> User \cup {None}]
    /\ registry \in [Session -> Slot \cup {None}]
    /\ step_up_at \in [Session -> 0..MaxClock \cup {None}]
    /\ pending \in [Pending -> User \cup {None}]
    /\ RevokedAdmitsNothing

\* What the relying party contributes: challenges and credentials.
CeremonyOK ==
    /\ seq \in 0..MaxSeq
    /\ challenges \subseteq Challenge
    /\ records \in Records
    /\ revoked \subseteq Cred
    /\ journaled \in [records : Records, revoked : SUBSET Cred]
    /\ lost \in [Cred -> SUBSET OpKind]
    /\ failures \in 0..MaxLost
    /\ life \in 0..MaxRestarts
    /\ spent \subseteq Challenge
    /\ SpentIsPast /\ SpentStaysSpent /\ CredentialsSurvive

LEMMA SessionsInvParts == SessionsInv <=> BearerOK /\ CeremonyOK
  BY DEF SessionsInv, TypeOK, BearerOK, CeremonyOK

LEMMA BearersUnchanged == BearerOK /\ UNCHANGED ctx => BearerOK'
  BY DEF BearerOK, RevokedAdmitsNothing, ctx

LEMMA CeremoniesUnchanged == CeremonyOK /\ UNCHANGED <<rp, journaled, lost, failures, life, spent>> => CeremonyOK'
  BY DEF CeremonyOK, SpentIsPast, SpentStaysSpent, CredentialsSurvive, rp

\* A new session has a token of its own, and its slot is not revoked.
LEMMA StoreSessionKeeps ==
    ASSUME BearerOK, NEW u \in User, StoreSession(u),
           pending' \in [Pending -> User \cup {None}]
    PROVE  BearerOK'
  <1> DEFINE t == [kind |-> "s", n |-> next.s]
             slot == [user |-> u, expiry |-> session_clock + SessionTtl, revoked |-> FALSE]
  <1>1. next \in [s : 0..MaxSessions, p : 0..MaxPending] /\ next.s \in 0..MaxSessions
        /\ next.s < MaxSessions /\ session_clock \in 0..MaxClock /\ session_clock < MaxClock
    BY DEF BearerOK, StoreSession
  <1>2. t \in Session
    BY <1>1, TtlAssumption DEF Session
  <1>3. slot \in Slot /\ slot.revoked = FALSE
    BY <1>1, TtlAssumption DEF Slot
  <1>4. /\ login' = [login EXCEPT ![t] = u] /\ registry' = [registry EXCEPT ![t] = slot]
        /\ step_up_at' = [step_up_at EXCEPT ![t] = session_clock]
        /\ session_clock' = session_clock + 1
        /\ next' = [next EXCEPT !.s = next.s + 1]
    BY DEF StoreSession
  <1> HIDE DEF t, slot
  <1>5. session_clock' \in 0..MaxClock
    BY <1>1, <1>4, TtlAssumption
  <1>6. next' \in [s : 0..MaxSessions, p : 0..MaxPending]
    BY <1>1, <1>4, TtlAssumption
  <1>7. /\ login' \in [Session -> User \cup {None}] /\ registry' \in [Session -> Slot \cup {None}]
        /\ step_up_at' \in [Session -> 0..MaxClock \cup {None}]
    BY <1>1, <1>2, <1>3, <1>4 DEF BearerOK
  <1>8. RevokedAdmitsNothing'
    <2> SUFFICES ASSUME NEW s \in Session, registry'[s] # None, registry'[s].revoked,
                        session_clock' < registry'[s].expiry
                 PROVE  login'[s] = None
      BY DEF RevokedAdmitsNothing
    <2>1. s # t
      BY <1>2, <1>3, <1>4 DEF BearerOK
    <2>2. registry'[s] = registry[s] /\ login'[s] = login[s]
      BY <1>4, <2>1 DEF BearerOK
    <2>3. registry[s] \in Slot
      BY <2>2 DEF BearerOK
    <2>4. registry[s].expiry \in Nat
      BY <2>3 DEF Slot
    <2>5. session_clock < registry[s].expiry
      BY <1>1, <1>4, <2>2, <2>4
    <2>6. QED
      BY <2>2, <2>5 DEF BearerOK, RevokedAdmitsNothing
  <1>9. QED
    BY <1>5, <1>6, <1>7, <1>8 DEF BearerOK

\* Sessions are swept, and every one of them that was still good is dropped.
LEMMA SweepKeeps ==
    ASSUME BearerOK, NEW swept \in SUBSET Session, NEW dropped \in SUBSET Session,
           {t \in swept : Active(t)} \subseteq dropped,
           Swept(swept), Dropped(dropped), UNCHANGED <<session_clock, next, step_up_at, pending>>
    PROVE  BearerOK'
  <1>1. \A t \in Session :
            IF t \in swept /\ registry[t] # None
            THEN registry'[t] = [registry[t] EXCEPT !.revoked = TRUE] ELSE registry'[t] = registry[t]
    BY DEF Swept
  <1>2. \A t \in Session : login'[t] = IF t \in dropped THEN None ELSE login[t]
    BY DEF Dropped
  <1>3. ASSUME NEW t \in Session
        PROVE  /\ registry'[t] \in Slot \cup {None}
               /\ registry'[t] # None => registry[t] # None /\ registry'[t].expiry = registry[t].expiry
               /\ registry'[t] = registry[t] \/ t \in swept
    <2>1. CASE t \in swept /\ registry[t] # None
      <3>1. registry[t] \in Slot
        BY <2>1 DEF BearerOK
      <3>2. QED
        BY <1>1, <2>1, <3>1 DEF Slot
    <2>2. CASE ~(t \in swept /\ registry[t] # None)
      BY <1>1, <2>2 DEF BearerOK
    <2>3. QED
      BY <2>1, <2>2
  <1>4. registry' \in [Session -> Slot \cup {None}] /\ login' \in [Session -> User \cup {None}]
    BY <1>2, <1>3 DEF Swept, Dropped, BearerOK
  <1>5. RevokedAdmitsNothing'
    <2> SUFFICES ASSUME NEW t \in Session, registry'[t] # None, registry'[t].revoked,
                        session_clock < registry'[t].expiry
                 PROVE  login'[t] = None
      BY DEF RevokedAdmitsNothing
    <2>1. registry[t] # None /\ session_clock < registry[t].expiry
      BY <1>3
    <2>2. CASE registry[t].revoked
      BY <1>2, <2>1, <2>2 DEF BearerOK, RevokedAdmitsNothing
    <2>3. CASE ~registry[t].revoked
      <3>1. t \in swept /\ Active(t)
        BY <1>3, <2>1, <2>3 DEF Active
      <3>2. QED
        BY <1>2, <3>1
    <2>4. QED
      BY <2>2, <2>3
  <1>6. QED
    BY <1>4, <1>5 DEF BearerOK

-----------------------------------------------------------------------------
\* A challenge that is begun has a number no other one of this life had.
LEMMA BeginKeeps ==
    ASSUME SessionsInv, NEW t \in Token, Begin(t)
    PROVE  CeremonyOK'
  <1> DEFINE ch == [seq |-> seq + 1, now |-> session_clock, token |-> t, user |-> Scope(t)]
  <1>1. seq \in 0..MaxSeq /\ seq < MaxSeq /\ seq' = seq + 1 /\ session_clock \in 0..MaxClock
    BY DEF Begin, NextSeq, SessionsInv, TypeOK
  <1>2. Scope(t) \in User
    BY ScopeType DEF Begin, SessionsInv
  <1>3. ch \in Challenge /\ ch.seq = seq + 1
    BY <1>1, <1>2, TtlAssumption DEF Challenge
  <1>4. challenges' = challenges \cup {ch}
    BY DEF Begin, NextSeq
  <1> HIDE DEF ch
  <1>5. UNCHANGED <<records, revoked, journaled, lost, failures, life, spent>>
    BY DEF Begin
  <1>6. /\ challenges \subseteq Challenge /\ SpentIsPast /\ SpentStaysSpent /\ CredentialsSurvive
        /\ spent \subseteq Challenge /\ life \in 0..MaxRestarts
    BY DEF SessionsInv, TypeOK
  <1>7. \A c \in Challenge : c.seq \in Nat
    BY DEF Challenge
  <1>8. seq' \in 0..MaxSeq /\ challenges' \subseteq Challenge
    BY <1>1, <1>3, <1>4, <1>6, TtlAssumption
  <1>9. SpentIsPast'
    BY <1>1, <1>3, <1>4, <1>5, <1>6, <1>7 DEF SpentIsPast
  <1>10. SpentStaysSpent'
    <2>1. ch \notin spent
      BY <1>1, <1>3, <1>6 DEF SpentIsPast
    <2>2. QED
      BY <1>4, <1>5, <1>6, <2>1 DEF SpentStaysSpent
  <1>11. QED
    BY <1>5, <1>6, <1>8, <1>9, <1>10 DEF CeremonyOK, CredentialsSurvive, SessionsInv, TypeOK

\* A finish takes its challenge away for good.
LEMMA ConsumeKeeps ==
    ASSUME CeremonyOK, NEW ch \in challenges, Consume(ch), UNCHANGED <<seq, revoked, life>>,
           records' \in Records, journaled' \in [records : Records, revoked : SUBSET Cred],
           lost' \in [Cred -> SUBSET OpKind], failures' \in 0..MaxLost, CredentialsSurvive'
    PROVE  CeremonyOK'
  <1>1. challenges' = challenges \ {ch} /\ spent' = spent \cup {ch} /\ seq' = seq
    BY DEF Consume
  <1>2. SpentIsPast'
    BY <1>1 DEF CeremonyOK, SpentIsPast
  <1>3. SpentStaysSpent'
    BY <1>1 DEF CeremonyOK, SpentStaysSpent
  <1>4. QED
    BY <1>1, <1>2, <1>3 DEF CeremonyOK

\* What a restart keeps of one credential.
Survives(c) ==
    /\ c \in journaled.revoked => c \in revoked
    /\ "revoke" \notin lost[c] /\ c \in revoked => c \in journaled.revoked
    /\ lost[c] = {} => journaled.records[c] = records[c]
    /\ lost[c] = {"assertion"} =>
          /\ records[c] # None /\ journaled.records[c] # None
          /\ journaled.records[c].owner = records[c].owner
          /\ journaled.records[c].count <= records[c].count

LEMMA SurvivesOne ==
    ASSUME CeremonyOK, NEW c \in Cred PROVE Survives(c)
  BY DEF CeremonyOK, CredentialsSurvive, Survives

\* An op about one credential leaves the others as they were.
LEMMA SurvivesAll ==
    ASSUME CeremonyOK, NEW c \in Cred, Survives(c)',
           journaled' \in [records : Records, revoked : SUBSET Cred],
           \A k \in Cred \ {c} :
              /\ records'[k] = records[k] /\ journaled'.records[k] = journaled.records[k]
              /\ lost'[k] = lost[k] /\ (k \in revoked' <=> k \in revoked)
              /\ k \in journaled'.revoked <=> k \in journaled.revoked
    PROVE  CredentialsSurvive'
  <1>1. \A k \in Cred \ {c} : Survives(k)
    BY SurvivesOne
  <1>2. \A k \in Cred \ {c} :
           /\ k \in journaled'.revoked => k \in revoked'
           /\ "revoke" \notin lost'[k] /\ k \in revoked' => k \in journaled'.revoked
           /\ lost'[k] = {} => journaled'.records[k] = records'[k]
           /\ lost'[k] = {"assertion"} =>
                 /\ records'[k] # None /\ journaled'.records[k] # None
                 /\ journaled'.records[k].owner = records'[k].owner
                 /\ journaled'.records[k].count <= records'[k].count
    BY <1>1 DEF Survives
  <1>3. journaled'.revoked \subseteq Cred
    OBVIOUS
  <1>4. QED
    BY <1>2, <1>3 DEF Survives, CredentialsSurvive

\* record() about one credential, in both outcomes.
LEMMA JournalIs ==
    ASSUME CeremonyOK, NEW c \in Cred, NEW kind \in OpKind, NEW j, NEW past \in SUBSET OpKind,
           j \in [records : Records, revoked : SUBSET Cred], Journal(c, kind, j, past)
    PROVE  /\ lost' \in [Cred -> SUBSET OpKind] /\ failures' \in 0..MaxLost
           /\ journaled' \in [records : Records, revoked : SUBSET Cred]
           /\ \A k \in Cred \ {c} : lost'[k] = lost[k]
           /\ \/ journaled' = j /\ lost'[c] = lost[c] \ past
              \/ journaled' = journaled /\ lost'[c] = lost[c] \cup {kind}
  <1>1. /\ lost \in [Cred -> SUBSET OpKind] /\ failures \in 0..MaxLost
        /\ journaled \in [records : Records, revoked : SUBSET Cred]
    BY DEF CeremonyOK
  <1>2. CASE journaled' = j /\ lost' = [lost EXCEPT ![c] = @ \ past] /\ UNCHANGED failures
    BY <1>1, <1>2
  <1>3. CASE /\ failures < MaxLost /\ failures' = failures + 1
             /\ lost' = [lost EXCEPT ![c] = @ \cup {kind}] /\ UNCHANGED journaled
    BY <1>1, <1>3, TtlAssumption
  <1>4. QED
    BY <1>2, <1>3 DEF Journal

LEMMA RegisterKeeps ==
    ASSUME SessionsInv, NEW t \in Token, NEW ch \in challenges, NEW c \in Cred, NEW n \in 0..MaxCount,
           RegisterFinish(t, ch, c, n)
    PROVE  CeremonyOK'
  <1>1. Filed(t, n) \in Record
    BY ScopeType DEF RegisterFinish, Filed, Record, SessionsInv
  <1> DEFINE new == Filed(t, n)
             j == [journaled EXCEPT !.records = [journaled.records EXCEPT ![c] = new]]
  <1>2. /\ records' = [records EXCEPT ![c] = new] /\ Journal(c, "enroll", j, OpKind)
        /\ Consume(ch) /\ UNCHANGED <<seq, revoked, life>> /\ c \notin revoked
    BY DEF RegisterFinish
  <1> HIDE DEF new
  <1>3. /\ journaled \in [records : Records, revoked : SUBSET Cred] /\ records \in Records
        /\ CeremonyOK
    BY SessionsInvParts DEF SessionsInv, TypeOK
  <1>4. records' \in Records /\ records'[c] = new /\ \A k \in Cred \ {c} : records'[k] = records[k]
    BY <1>1, <1>2, <1>3 DEF Records, new
  <1>5. /\ j \in [records : Records, revoked : SUBSET Cred] /\ j.revoked = journaled.revoked
        /\ j.records[c] = new /\ \A k \in Cred \ {c} : j.records[k] = journaled.records[k]
    BY <1>1, <1>3 DEF Records, new
  <1> HIDE DEF j
  <1>6. /\ lost' \in [Cred -> SUBSET OpKind] /\ failures' \in 0..MaxLost
        /\ journaled' \in [records : Records, revoked : SUBSET Cred]
        /\ \A k \in Cred \ {c} : lost'[k] = lost[k]
        /\ \/ journaled' = j /\ lost'[c] = lost[c] \ OpKind
           \/ journaled' = journaled /\ lost'[c] = lost[c] \cup {"enroll"}
    <2>1. "enroll" \in OpKind /\ OpKind \in SUBSET OpKind
      BY DEF OpKind
    <2>2. QED
      BY <1>2, <1>3, <1>5, <2>1, JournalIs
  <1>7. Survives(c)'
    <2>1. c \notin journaled.revoked
      BY <1>2, <1>3, SurvivesOne DEF Survives
    <2>2. lost[c] \subseteq OpKind
      BY <1>3 DEF CeremonyOK
    <2>3. CASE journaled' = j /\ lost'[c] = lost[c] \ OpKind
      <3>1. lost'[c] = {}
        BY <2>2, <2>3
      <3>2. QED
        BY <1>2, <1>4, <1>5, <2>1, <2>3, <3>1 DEF Survives
    <2>4. CASE journaled' = journaled /\ lost'[c] = lost[c] \cup {"enroll"}
      <3>1. lost'[c] # {} /\ lost'[c] # {"assertion"}
        BY <2>4
      <3>2. QED
        BY <1>2, <2>1, <2>4, <3>1 DEF Survives
    <2>5. QED
      BY <1>6, <2>3, <2>4
  <1>8. CredentialsSurvive'
    BY <1>2, <1>3, <1>4, <1>5, <1>6, <1>7, SurvivesAll
  <1>9. QED
    BY <1>2, <1>3, <1>4, <1>6, <1>8, ConsumeKeeps

\* An assertion raises the counter, and the journal's counter to the same
\* value if it has the credential and the append succeeds.
LEMMA AssertsKeeps ==
    ASSUME SessionsInv, NEW t, NEW ch, NEW c \in Cred, NEW n \in 0..MaxCount, Asserts(t, ch, c, n)
    PROVE  CeremonyOK'
  <1>1. /\ journaled \in [records : Records, revoked : SUBSET Cred] /\ records \in Records
        /\ CeremonyOK
    BY SessionsInvParts DEF SessionsInv, TypeOK
  <1>2. /\ ch \in challenges /\ Consume(ch) /\ UNCHANGED <<seq, revoked, life>> /\ records[c] # None
        /\ (n # 0 => n > records[c].count) /\ c \notin revoked
    BY DEF Asserts
  <1>3. records[c] \in Record
    BY <1>1, <1>2 DEF Records
  <1> DEFINE m == IF n # 0 THEN n ELSE records[c].count
             new == [records[c] EXCEPT !.count = m]
             old == journaled.records[c]
             kept == IF old # None /\ m > old.count THEN [old EXCEPT !.count = m] ELSE old
             j == [journaled EXCEPT !.records = [journaled.records EXCEPT ![c] = kept]]
  <1>4. m \in 0..MaxCount /\ records[c].count \in 0..MaxCount /\ records[c].count <= m
    BY <1>2, <1>3 DEF Record
  <1>5. records' = [records EXCEPT ![c] = new]
    BY DEF Asserts
  <1> HIDE DEF m
  <1>6. new \in Record /\ new.count = m /\ new.owner = records[c].owner
    BY <1>3, <1>4 DEF Record
  <1> HIDE DEF new
  <1>7. records' \in Records /\ records'[c] = new /\ \A k \in Cred \ {c} : records'[k] = records[k]
    BY <1>1, <1>5, <1>6 DEF Records
  <1>8. old \in Record \cup {None}
    BY <1>1 DEF Records
  <1>9. Journal(c, "assertion", j, {"assertion"})
    <2>1. JournalAssertion(c, records'[c].count)
      BY DEF Asserts
    <2>2. records'[c].count = m
      BY <1>6, <1>7
    <2>3. JournalAssertion(c, m)
      BY <2>1, <2>2
    <2>4. QED
      BY <2>3 DEF JournalAssertion
  <1> HIDE DEF old
  <1>10. /\ kept \in Record \cup {None}
         /\ old \in Record /\ old # None /\ old.count <= m /\ old.owner = new.owner => kept = new
    <2>1. CASE old = None
      BY <2>1
    <2>2. CASE old # None
      <3>1. old \in Record /\ old.count \in 0..MaxCount
        BY <1>8, <2>2 DEF Record
      <3>2. [old EXCEPT !.count = m] \in Record
        BY <1>4, <3>1 DEF Record
      <3>3. old.owner = new.owner => [old EXCEPT !.count = m] = new
        BY <1>6, <3>1 DEF Record
      <3>4. old.owner = new.owner /\ old.count = m => old = new
        BY <1>6, <3>1 DEF Record
      <3>5. QED
        BY <1>4, <2>2, <3>1, <3>2, <3>3, <3>4
    <2>3. QED
      BY <2>1, <2>2
  <1> HIDE DEF kept
  <1>11. /\ j \in [records : Records, revoked : SUBSET Cred] /\ j.revoked = journaled.revoked
         /\ j.records[c] = kept /\ \A k \in Cred \ {c} : j.records[k] = journaled.records[k]
    BY <1>1, <1>10 DEF Records
  <1> HIDE DEF j
  <1>12. /\ lost' \in [Cred -> SUBSET OpKind] /\ failures' \in 0..MaxLost
         /\ journaled' \in [records : Records, revoked : SUBSET Cred]
         /\ \A k \in Cred \ {c} : lost'[k] = lost[k]
         /\ \/ journaled' = j /\ lost'[c] = lost[c] \ {"assertion"}
            \/ journaled' = journaled /\ lost'[c] = lost[c] \cup {"assertion"}
    <2>1. "assertion" \in OpKind /\ {"assertion"} \in SUBSET OpKind
      BY DEF OpKind
    <2>2. QED
      BY <1>1, <1>9, <1>11, <2>1, JournalIs
  <1>13. Survives(c) /\ c \notin journaled.revoked
    BY <1>1, <1>2, SurvivesOne DEF Survives
  <1>14. lost[c] \subseteq {"assertion"} =>
            old # None /\ old \in Record /\ old.owner = new.owner /\ old.count <= m
    <2>1. ASSUME lost[c] = {} PROVE old = records[c]
      BY <1>13, <2>1 DEF Survives, old
    <2>2. ASSUME lost[c] = {"assertion"}
          PROVE  old # None /\ old.owner = records[c].owner /\ old.count <= records[c].count
      BY <1>13, <2>2 DEF Survives, old
    <2>3. old # None => old \in Record /\ old.count \in 0..MaxCount
      BY <1>8 DEF Record
    <2>4. lost[c] \subseteq {"assertion"} => lost[c] = {} \/ lost[c] = {"assertion"}
      OBVIOUS
    <2>5. QED
      BY <1>2, <1>4, <1>6, <2>1, <2>2, <2>3, <2>4
  <1>15. Survives(c)'
    <2>1. CASE journaled' = j /\ lost'[c] = lost[c] \ {"assertion"}
      <3>1. lost'[c] # {"assertion"}
        BY <2>1
      <3>2. lost'[c] = {} => lost[c] \subseteq {"assertion"}
        BY <2>1
      <3>3. lost'[c] = {} => kept = new
        BY <1>10, <1>14, <3>2
      <3>4. QED
        BY <1>2, <1>7, <1>11, <1>13, <2>1, <3>1, <3>3 DEF Survives
    <2>2. CASE journaled' = journaled /\ lost'[c] = lost[c] \cup {"assertion"}
      <3>1. lost'[c] # {} /\ (lost'[c] = {"assertion"} => lost[c] \subseteq {"assertion"})
        BY <2>2
      <3>2. lost'[c] = {"assertion"} =>
               /\ records'[c] # None /\ journaled'.records[c] # None
               /\ journaled'.records[c].owner = records'[c].owner
               /\ journaled'.records[c].count <= records'[c].count
        <4>1. new # None
          BY <1>6, RecordAssumption
        <4>2. QED
          BY <1>6, <1>7, <1>14, <2>2, <3>1, <4>1 DEF old
      <3>3. QED
        BY <1>2, <1>13, <2>2, <3>1, <3>2 DEF Survives
    <2>3. QED
      BY <1>12, <2>1, <2>2
  <1>16. CredentialsSurvive'
    BY <1>1, <1>2, <1>7, <1>11, <1>12, <1>15, SurvivesAll
  <1>17. QED
    BY <1>1, <1>2, <1>7, <1>12, <1>16, ConsumeKeeps

LEMMA RevokeCredentialKeeps ==
    ASSUME SessionsInv, NEW t, NEW c \in Cred, RevokeCredential(t, c)
    PROVE  CeremonyOK'
  <1>1. /\ journaled \in [records : Records, revoked : SUBSET Cred] /\ records \in Records
        /\ CeremonyOK
    BY SessionsInvParts DEF SessionsInv, TypeOK
  <1> DEFINE table == [journaled.records EXCEPT ![c] = None]
             j == [records |-> table, revoked |-> journaled.revoked \cup {c}]
  <1>2. /\ records' = [records EXCEPT ![c] = None] /\ revoked' = revoked \cup {c}
        /\ Journal(c, "revoke", j, OpKind) /\ UNCHANGED <<seq, challenges, life, spent>>
    BY DEF RevokeCredential
  <1>3. /\ records' \in Records /\ revoked' \subseteq Cred /\ records'[c] = None
        /\ \A k \in Cred \ {c} : records'[k] = records[k]
    BY <1>1, <1>2 DEF Records, CeremonyOK
  <1>4. table \in Records /\ table[c] = None /\ \A k \in Cred \ {c} : table[k] = journaled.records[k]
    BY <1>1 DEF Records
  <1> HIDE DEF table
  <1>5. /\ j \in [records : Records, revoked : SUBSET Cred] /\ j.revoked = journaled.revoked \cup {c}
        /\ j.records = table
    BY <1>1, <1>4
  <1> HIDE DEF j
  <1>6. /\ lost' \in [Cred -> SUBSET OpKind] /\ failures' \in 0..MaxLost
        /\ journaled' \in [records : Records, revoked : SUBSET Cred]
        /\ \A k \in Cred \ {c} : lost'[k] = lost[k]
        /\ \/ journaled' = j /\ lost'[c] = lost[c] \ OpKind
           \/ journaled' = journaled /\ lost'[c] = lost[c] \cup {"revoke"}
    <2>1. "revoke" \in OpKind /\ OpKind \in SUBSET OpKind
      BY DEF OpKind
    <2>2. QED
      BY <1>1, <1>2, <1>5, <2>1, JournalIs
  <1>7. Survives(c)'
    <2>1. CASE journaled' = j /\ lost'[c] = lost[c] \ OpKind
      <3>1. lost'[c] # {"assertion"}
        BY <2>1 DEF OpKind
      <3>2. QED
        BY <1>2, <1>3, <1>4, <1>5, <2>1, <3>1 DEF Survives
    <2>2. CASE journaled' = journaled /\ lost'[c] = lost[c] \cup {"revoke"}
      <3>1. lost'[c] # {} /\ lost'[c] # {"assertion"} /\ "revoke" \in lost'[c]
        BY <2>2
      <3>2. QED
        BY <1>2, <2>2, <3>1 DEF Survives
    <2>3. QED
      BY <1>6, <2>1, <2>2
  <1>8. CredentialsSurvive'
    BY <1>1, <1>2, <1>3, <1>4, <1>5, <1>6, <1>7, SurvivesAll
  <1>9. QED
    BY <1>1, <1>2, <1>3, <1>6, <1>8 DEF CeremonyOK, SpentIsPast, SpentStaysSpent

\* A new life: no challenge is outstanding, and none was spent in it.
LEMMA RestartKeeps ==
    ASSUME SessionsInv, Restart
    PROVE  SessionsInv'
  <1>1. CeremonyOK /\ BearerOK
    BY SessionsInvParts
  <1>2. BearerOK'
    <2>1. next' \in [s : 0..MaxSessions, p : 0..MaxPending] /\ session_clock' \in 0..MaxClock
      BY TtlAssumption DEF Restart
    <2>2. /\ login' \in [Session -> User \cup {None}] /\ registry' \in [Session -> Slot \cup {None}]
          /\ step_up_at' \in [Session -> 0..MaxClock \cup {None}]
          /\ pending' \in [Pending -> User \cup {None}]
      BY DEF Restart
    <2>3. RevokedAdmitsNothing'
      BY DEF Restart, RevokedAdmitsNothing
    <2>4. QED
      BY <2>1, <2>2, <2>3 DEF BearerOK
  <1>3. life \in 0..MaxRestarts /\ life' = life + 1 /\ life < MaxRestarts /\ seq' = 0 /\ challenges' = {}
        /\ journaled' = journaled /\ spent' = {} /\ failures' = failures
        /\ records' = journaled.records /\ revoked' = journaled.revoked
        /\ lost' \in [Cred -> SUBSET OpKind] /\ \A c \in Cred : lost'[c] = {}
    BY <1>1 DEF Restart, CeremonyOK
  <1>4. SpentIsPast' /\ SpentStaysSpent'
    BY <1>3 DEF SpentIsPast, SpentStaysSpent
  <1>5. CeremonyOK'
    <2>1. seq' \in 0..MaxSeq /\ life' \in 0..MaxRestarts
      BY <1>3, TtlAssumption
    <2>2. records' \in Records /\ revoked' \subseteq Cred
      BY <1>1, <1>3 DEF CeremonyOK
    <2>3. QED
      BY <1>1, <1>3, <1>4, <2>1, <2>2 DEF CeremonyOK, CredentialsSurvive
  <1>6. QED
    BY <1>2, <1>5, SessionsInvParts, PTL

-----------------------------------------------------------------------------
LEMMA SessionsInvStep == SessionsInv /\ [Next]_vars => SessionsInv'
  <1> SUFFICES ASSUME SessionsInv, [Next]_vars PROVE BearerOK' /\ CeremonyOK'
    BY SessionsInvParts, PTL
  <1>1. BearerOK /\ CeremonyOK /\ TypeOK
    BY SessionsInvParts DEF SessionsInv
  <1>2. ASSUME UNCHANGED <<rp, journaled, lost, failures, life, spent>> PROVE CeremonyOK'
    BY <1>1, <1>2, CeremoniesUnchanged
  <1>3. ASSUME UNCHANGED ctx PROVE BearerOK'
    BY <1>1, <1>3, BearersUnchanged
  <1>4. ASSUME NEW u \in User, Login(u) PROVE BearerOK' /\ CeremonyOK'
    BY <1>1, <1>2, <1>4, StoreSessionKeeps DEF Login, BearerOK
  <1>5. ASSUME NEW u \in User, LoginParked(u) PROVE BearerOK' /\ CeremonyOK'
    <2>1. /\ [kind |-> "p", n |-> next.p] \in Pending
          /\ next.p \in 0..MaxPending /\ next.p < MaxPending
          /\ next \in [s : 0..MaxSessions, p : 0..MaxPending]
      BY <1>1, <1>5, TokenTypes DEF LoginParked, TypeOK
    <2>2. pending' \in [Pending -> User \cup {None}]
      BY <1>1, <1>5, <2>1 DEF LoginParked, BearerOK
    <2>3. next' \in [s : 0..MaxSessions, p : 0..MaxPending]
      BY <1>5, <2>1, TtlAssumption DEF LoginParked
    <2>4. QED
      BY <1>1, <1>2, <1>5, <2>2, <2>3 DEF LoginParked, BearerOK, RevokedAdmitsNothing
  <1>6. CASE IamAct
    <2>1. session_clock' \in 0..MaxClock /\ session_clock \in Nat /\ session_clock' = session_clock + 1
      BY <1>1, <1>6, TtlAssumption DEF IamAct, TypeOK
    <2>2. RevokedAdmitsNothing'
      <3>1. \A t \in Session : registry[t] # None => registry[t].expiry \in Nat
        BY <1>1 DEF BearerOK, Slot
      <3>2. QED
        BY <1>1, <1>6, <2>1, <3>1 DEF IamAct, BearerOK, RevokedAdmitsNothing
    <2>3. QED
      BY <1>1, <1>2, <1>6, <2>1, <2>2 DEF IamAct, BearerOK
  <1>7. ASSUME NEW t \in Token, Begin(t) PROVE BearerOK' /\ CeremonyOK'
    BY <1>3, <1>7, BeginKeeps DEF Begin
  <1>8. ASSUME NEW t \in Token, NEW ch \in challenges, FinishRefused(t, ch) PROVE BearerOK' /\ CeremonyOK'
    BY <1>1, <1>3, <1>8, ConsumeKeeps DEF FinishRefused, CeremonyOK, CredentialsSurvive
  <1>9. ASSUME NEW t \in Token, NEW ch \in challenges, NEW c \in Cred, NEW n \in 0..MaxCount,
               RegisterFinish(t, ch, c, n)
        PROVE  BearerOK' /\ CeremonyOK'
    BY <1>3, <1>9, RegisterKeeps DEF RegisterFinish
  <1>10. ASSUME NEW t \in Token, NEW ch \in challenges, NEW c \in Cred, NEW n \in 0..MaxCount,
                Promote(t, ch, c, n)
         PROVE  BearerOK' /\ CeremonyOK'
    <2>1. t \in Pending /\ pending[t] \in User /\ pending' \in [Pending -> User \cup {None}]
      BY <1>1, <1>10 DEF Promote, BearerOK
    <2>2. QED
      BY <1>1, <1>10, <2>1, StoreSessionKeeps, AssertsKeeps DEF Promote
  <1>11. ASSUME NEW t \in Token, NEW ch \in challenges, NEW c \in Cred, NEW n \in 0..MaxCount,
                StepUp(t, ch, c, n)
         PROVE  BearerOK' /\ CeremonyOK'
    <2>1. step_up_at' \in [Session -> 0..MaxClock \cup {None}]
      BY <1>1, <1>11 DEF StepUp, BearerOK
    <2>2. QED
      BY <1>1, <1>11, <2>1, AssertsKeeps DEF StepUp, BearerOK, RevokedAdmitsNothing
  <1>12. ASSUME NEW t \in Session, NEW c \in Cred, RevokeCredential(t, c) PROVE BearerOK' /\ CeremonyOK'
    BY <1>3, <1>12, RevokeCredentialKeeps DEF RevokeCredential
  <1>13. ASSUME NEW t \in Session, NEW id \in Session, RevokeSession(t, id) PROVE BearerOK' /\ CeremonyOK'
    <2>1. {id} \in SUBSET Session /\ {q \in {id} : Active(q)} \subseteq {id}
      OBVIOUS
    <2>2. QED
      BY <1>1, <1>2, <1>13, <2>1, SweepKeeps DEF RevokeSession
  <1>14. ASSUME NEW u \in User, RevokeAll(u) PROVE BearerOK' /\ CeremonyOK'
    <2>1. Slots(u) \in SUBSET Session /\ Listed(u) \in SUBSET Session
          /\ {q \in Slots(u) : Active(q)} \subseteq Listed(u)
      BY DEF Slots, Listed
    <2>2. QED
      BY <1>1, <1>2, <1>14, <2>1, SweepKeeps DEF RevokeAll
  <1>15. ASSUME NEW u \in User, RevokeUserSessions(u) PROVE BearerOK' /\ CeremonyOK'
    <2> DEFINE ts == {t \in Session : login[t] = u}
    <2>1. ts \in SUBSET Session /\ {q \in ts : Active(q)} \subseteq ts
      OBVIOUS
    <2>2. Swept(ts) /\ Dropped(ts)
          /\ UNCHANGED <<session_clock, next, step_up_at, pending, rp, journaled, lost, failures, life, spent>>
      BY <1>15 DEF RevokeUserSessions
    <2> HIDE DEF ts
    <2>3. QED
      BY <1>1, <1>2, <2>1, <2>2, SweepKeeps
  <1>16. CASE Restart
    BY <1>16, RestartKeeps, SessionsInvParts, PTL
  <1>17. CASE UNCHANGED vars
    BY <1>2, <1>3, <1>17 DEF vars
  <1>18. QED
    BY <1>4, <1>5, <1>6, <1>7, <1>8, <1>9, <1>10, <1>11, <1>12, <1>13, <1>14, <1>15, <1>16, <1>17
    DEF Next

\* A bearer of a revoked session admits nothing, a spent challenge is never
\* outstanding again and a restart brings back every credential none of whose
\* appends failed, with its counter: for any users, credentials, time-to-live
\* and number of restarts and failures.
THEOREM SessionsInvariant == Spec => []SessionsInv
  BY SessionsInvInit, SessionsInvStep, PTL DEF Spec

\* A parked login leaves by an assertion of its own user's unrevoked
\* credential only.
THEOREM PromotionsAreBacked == Spec => RevokedNeverPromotes
  <1> DEFINE Backed ==
        \A t \in Pending : pending[t] # None /\ pending'[t] = None /\ life' = life =>
            \E c \in Cred \ revoked : records[c] # None /\ records[c].owner = pending[t]
  <1>1. ASSUME SessionsInv, [Next]_vars PROVE [Backed]_vars
    <2> SUFFICES ASSUME Next, NEW t \in Pending, pending[t] # None, pending'[t] = None, life' = life
                 PROVE  \E c \in Cred \ revoked : records[c] # None /\ records[c].owner = pending[t]
      BY <1>1
    <2>1. pending \in [Pending -> User \cup {None}] /\ life \in 0..MaxRestarts
      BY <1>1 DEF SessionsInv, TypeOK
    <2>2. pending' # pending
      OBVIOUS
    <2>3. ~Restart
      BY <2>1 DEF Restart
    <2>4. ASSUME NEW u \in User PROVE ~LoginParked(u)
      BY <2>1, TtlAssumption DEF LoginParked
    <2>5. PICK p \in Token, ch \in challenges, c \in Cred, n \in 0..MaxCount : Promote(p, ch, c, n)
      BY <2>2, <2>3, <2>4 DEF Next, Login, RevokeAll, RevokeUserSessions, IamAct, Begin, FinishRefused,
         RegisterFinish, StepUp, RevokeCredential, RevokeSession, ctx
    <2>6. p = t
      BY <2>1, <2>5 DEF Promote
    <2>7. QED
      BY <2>5, <2>6 DEF Promote, Asserts, Owns
  <1>2. QED
    BY <1>1, SessionsInvariant, PTL DEF Spec, RevokedNeverPromotes

(***************************************************************************)
(* The accounts.  Every handler and its replay are compositions of a few   *)
(* updates of the portal's state; each update is characterised by what it  *)
(* does to the fields.                                                     *)
(***************************************************************************)

Users == [Invitee -> A!UserRecord \cup {None}]
Offers == [A!Account -> A!Offer \cup {None}]
Creds == [Passkey -> A!Subject \cup {None}]

LEMMA StateFields ==
    ASSUME NEW d
    PROVE  d \in A!PortalState <=>
             /\ d = [users |-> d.users, offers |-> d.offers, authority |-> d.authority,
                     creds |-> d.creds, revoked |-> d.revoked, exporters |-> d.exporters]
             /\ d.users \in Users /\ d.offers \in Offers /\ d.authority \subseteq A!Subject
             /\ d.creds \in Creds /\ d.revoked \subseteq Passkey /\ d.exporters \subseteq A!Account
  BY DEF A!PortalState, Users, Offers, Creds

LEMMA SubkeyType ==
    ASSUME NEW a \in A!Account, NEW op
    PROVE  A!Subkey(a, op) \in A!Subject
  BY DEF A!Subkey, A!Subject

LEMMA UsersUpdated ==
    ASSUME NEW d \in A!PortalState, NEW x \in Users, NEW r,
           r = [d EXCEPT !.users = x]
    PROVE  /\ r \in A!PortalState /\ r.users = x
           /\ r.offers = d.offers /\ r.authority = d.authority /\ r.creds = d.creds
           /\ r.revoked = d.revoked /\ r.exporters = d.exporters
  BY StateFields

LEMMA OffersUpdated ==
    ASSUME NEW d \in A!PortalState, NEW x \in Offers, NEW r,
           r = [d EXCEPT !.offers = x]
    PROVE  /\ r \in A!PortalState /\ r.offers = x
           /\ r.users = d.users /\ r.authority = d.authority /\ r.creds = d.creds
           /\ r.revoked = d.revoked /\ r.exporters = d.exporters
  BY StateFields

LEMMA CredsUpdated ==
    ASSUME NEW d \in A!PortalState, NEW x \in Creds, NEW r,
           r = [d EXCEPT !.creds = x]
    PROVE  /\ r \in A!PortalState /\ r.creds = x
           /\ r.users = d.users /\ r.offers = d.offers /\ r.authority = d.authority
           /\ r.revoked = d.revoked /\ r.exporters = d.exporters
  BY StateFields

LEMMA RevokedUpdated ==
    ASSUME NEW d \in A!PortalState, NEW x \in SUBSET Passkey, NEW r,
           r = [d EXCEPT !.revoked = x]
    PROVE  /\ r \in A!PortalState /\ r.revoked = x
           /\ r.users = d.users /\ r.offers = d.offers /\ r.authority = d.authority
           /\ r.creds = d.creds /\ r.exporters = d.exporters
  BY StateFields

\* Field and value of a user record that fit together.
Fits(field, value) ==
    \A u \in A!UserRecord :
        /\ [u EXCEPT ![field] = value] \in A!UserRecord
        /\ field # "force" => [u EXCEPT ![field] = value].force = u.force
        /\ field = "force" => [u EXCEPT ![field] = value].force = value

LEMMA FieldsFit ==
    /\ \A b \in BOOLEAN : Fits("force", b) /\ Fits("passkey", b) /\ Fits("verified", b)
    /\ \A e \in Email : Fits("email", e)
    /\ \A st \in {"Invited", "Active", "Disabled"} : Fits("status", st)
  BY DEF Fits, A!UserRecord

\* The user is known and its field is set, or nothing changes.
UserSet(d, h, field, value, r) ==
    /\ r \in A!PortalState
    /\ r.users = IF d.users[h] = None THEN d.users
                 ELSE [d.users EXCEPT ![h] = [d.users[h] EXCEPT ![field] = value]]
    /\ r.offers = d.offers /\ r.authority = d.authority /\ r.creds = d.creds
    /\ r.revoked = d.revoked /\ r.exporters = d.exporters

LEMMA SetUserIs ==
    ASSUME NEW d \in A!PortalState, NEW h \in Invitee, NEW field, NEW value, Fits(field, value)
    PROVE  UserSet(d, h, field, value, A!SetUser(d, h, field, value))
  <1>1. CASE d.users[h] = None
    BY <1>1 DEF A!SetUser, A!Known, UserSet
  <1>2. CASE d.users[h] # None
    <2> DEFINE table == [d.users EXCEPT ![h] = [d.users[h] EXCEPT ![field] = value]]
    <2>1. d.users \in Users /\ d.users[h] \in A!UserRecord
      BY <1>2, StateFields DEF Users
    <2>2. table \in Users
      BY <2>1 DEF Fits, Users
    <2>3. A!SetUser(d, h, field, value) = [d EXCEPT !.users = table]
      BY <1>2 DEF A!SetUser, A!Known
    <2> HIDE DEF table
    <2>4. QED
      BY <1>2, <2>2, <2>3, UsersUpdated DEF table, UserSet
  <1>3. QED
    BY <1>1, <1>2

NewUser(force, passkey, email) ==
    [status |-> "Invited", force |-> force, passkey |-> passkey, email |-> email, verified |-> FALSE]
NewOffer(s) == [subject |-> s, admitted |-> TRUE]
Closed(o) == [o EXCEPT !.admitted = FALSE]

LEMMA InvitedIs ==
    ASSUME NEW d \in A!PortalState, NEW h \in Invitee, NEW force \in BOOLEAN, NEW passkey \in BOOLEAN,
           NEW email \in Email
    PROVE  LET r == A!Invited(d, h, force, passkey, email)
           IN  /\ r \in A!PortalState
               /\ r.users = IF d.users[h] # None THEN d.users
                            ELSE [d.users EXCEPT ![h] = NewUser(force, passkey, email)]
               /\ NewUser(force, passkey, email) \in A!UserRecord
               /\ NewUser(force, passkey, email).force = force
               /\ r.offers = d.offers /\ r.authority = d.authority /\ r.creds = d.creds
               /\ r.revoked = d.revoked /\ r.exporters = d.exporters
  <1> DEFINE table == [d.users EXCEPT ![h] = NewUser(force, passkey, email)]
  <1>1. NewUser(force, passkey, email) \in A!UserRecord /\ NewUser(force, passkey, email).force = force
    BY DEF A!UserRecord, NewUser
  <1>2. table \in Users
    BY <1>1, StateFields DEF Users
  <1>3. A!Invited(d, h, force, passkey, email) = IF d.users[h] # None THEN d ELSE [d EXCEPT !.users = table]
    BY DEF A!Invited, A!Known, NewUser
  <1> HIDE DEF table
  <1>4. CASE d.users[h] = None
    BY <1>1, <1>2, <1>3, <1>4, UsersUpdated DEF table
  <1>5. CASE d.users[h] # None
    BY <1>1, <1>3, <1>5
  <1>6. QED
    BY <1>4, <1>5

LEMMA RevokeOfferIs ==
    ASSUME NEW d \in A!PortalState, NEW a \in A!Account
    PROVE  LET r == A!RevokeOffer(d, a)
           IN  /\ r \in A!PortalState
               /\ r.offers = IF d.offers[a] = None THEN d.offers
                             ELSE [d.offers EXCEPT ![a] = Closed(d.offers[a])]
               /\ d.offers[a] # None => /\ Closed(d.offers[a]) \in A!Offer
                                        /\ Closed(d.offers[a]).subject = d.offers[a].subject
                                        /\ Closed(d.offers[a]).admitted = FALSE
               /\ r.authority = d.authority
               /\ r.users = d.users /\ r.creds = d.creds /\ r.revoked = d.revoked
               /\ r.exporters = d.exporters
  <1>1. CASE d.offers[a] = None
    BY <1>1 DEF A!RevokeOffer
  <1>2. CASE d.offers[a] # None
    <2> DEFINE offers == [d.offers EXCEPT ![a] = Closed(d.offers[a])]
    <2>1. d.offers \in Offers /\ d.offers[a] \in A!Offer
      BY <1>2, StateFields DEF Offers
    <2>2. /\ Closed(d.offers[a]) \in A!Offer /\ Closed(d.offers[a]).subject = d.offers[a].subject
          /\ Closed(d.offers[a]).admitted = FALSE
      BY <2>1 DEF A!Offer, Closed
    <2>3. A!RevokeOffer(d, a) = [d EXCEPT !.offers = offers]
      BY <1>2 DEF A!RevokeOffer, Closed
    <2>4. offers \in Offers
      BY <2>1, <2>2 DEF Offers
    <2> HIDE DEF offers
    <2>5. QED
      BY <1>2, <2>2, <2>3, <2>4, OffersUpdated DEF offers
  <1>3. QED
    BY <1>1, <1>2

LEMMA PutOfferIs ==
    ASSUME NEW d \in A!PortalState, NEW a \in A!Account, NEW s \in A!Subject
    PROVE  LET r == A!PutOffer(d, a, s)
           IN  /\ r \in A!PortalState
               /\ r.offers = [d.offers EXCEPT ![a] = NewOffer(s)]
               /\ r.authority = d.authority
               /\ r.users = d.users /\ r.creds = d.creds /\ r.revoked = d.revoked
               /\ r.exporters = d.exporters
  <1> DEFINE offers == [d.offers EXCEPT ![a] = NewOffer(s)]
  <1>1. NewOffer(s) \in A!Offer
    BY DEF A!Offer, NewOffer
  <1>2. A!PutOffer(d, a, s) = [d EXCEPT !.offers = offers]
    BY DEF A!PutOffer, NewOffer
  <1>3. offers \in Offers
    BY <1>1, StateFields DEF Offers
  <1> HIDE DEF offers
  <1>4. QED
    BY <1>2, <1>3, OffersUpdated DEF offers

LEMMA AdmitSubjectIs ==
    ASSUME NEW d \in A!PortalState, NEW s \in A!Subject
    PROVE  LET r == A!AdmitSubject(d, s)
           IN  /\ r \in A!PortalState
               /\ r.authority = d.authority \cup {s}
               /\ r.users = d.users /\ r.offers = d.offers /\ r.creds = d.creds
               /\ r.revoked = d.revoked /\ r.exporters = d.exporters
  BY StateFields DEF A!AdmitSubject

\* What both iam_mint_offer and its replay do: the offer is replaced and its
\* subject is authoritative.
Minted(d, a, op, r) ==
    /\ r \in A!PortalState
    /\ r.offers = [d.offers EXCEPT ![a] = NewOffer(A!Subkey(a, op))]
    /\ r.authority = d.authority \cup {A!Subkey(a, op)}
    /\ r.users = d.users /\ r.creds = d.creds /\ r.revoked = d.revoked /\ r.exporters = d.exporters

LEMMA MintOfferIs ==
    ASSUME NEW d \in A!PortalState, NEW a \in A!Account, NEW op
    PROVE  /\ Minted(d, a, op, A!MintOffer(d, a, op))
           /\ Minted(d, a, op, A!RestoreMinted(d, a, op))
  <1> DEFINE s == A!Subkey(a, op)
             o == NewOffer(s)
             d1 == A!RevokeOffer(d, a)
             d2 == A!PutOffer(d1, a, s)
             d3 == A!AdmitSubject(d2, s)
             e2 == A!AdmitSubject(d1, s)
             e3 == A!PutOffer(e2, a, s)
  <1>1. s \in A!Subject
    BY SubkeyType
  <1>2. A!MintOffer(d, a, op) = d3 /\ A!RestoreMinted(d, a, op) = e3
    BY DEF A!MintOffer, A!RestoreMinted
  <1>3. /\ d1 \in A!PortalState /\ d1.authority = d.authority /\ d1.users = d.users
        /\ d1.creds = d.creds /\ d1.revoked = d.revoked /\ d1.exporters = d.exporters
        /\ d1.offers = d.offers \/ d1.offers = [d.offers EXCEPT ![a] = Closed(d.offers[a])]
    BY RevokeOfferIs
  <1> HIDE DEF d1
  <1>4. [d1.offers EXCEPT ![a] = o] = [d.offers EXCEPT ![a] = o]
    <2>1. d.offers \in Offers
      BY StateFields
    <2>2. QED
      BY <1>3, <2>1 DEF Offers
  <1>5. /\ d2 \in A!PortalState /\ d2.offers = [d.offers EXCEPT ![a] = o] /\ d2.authority = d.authority
        /\ d2.users = d.users /\ d2.creds = d.creds /\ d2.revoked = d.revoked
        /\ d2.exporters = d.exporters
    BY <1>1, <1>3, <1>4, PutOfferIs
  <1>6. /\ e2 \in A!PortalState /\ e2.offers = d1.offers /\ e2.authority = d.authority \cup {s}
        /\ e2.users = d.users /\ e2.creds = d.creds /\ e2.revoked = d.revoked
        /\ e2.exporters = d.exporters
    BY <1>1, <1>3, AdmitSubjectIs
  <1> HIDE DEF d2, e2
  <1>7. Minted(d, a, op, d3)
    BY <1>1, <1>5, AdmitSubjectIs DEF Minted
  <1>8. Minted(d, a, op, e3)
    BY <1>1, <1>4, <1>6, PutOfferIs DEF Minted
  <1>9. QED
    BY <1>2, <1>7, <1>8

LEMMA EnrolledIs ==
    ASSUME NEW d \in A!PortalState, NEW c \in Passkey, NEW s \in A!Subject
    PROVE  LET r == A!Enrolled(d, c, s)
           IN  /\ r \in A!PortalState
               /\ r.creds = IF c \in d.revoked THEN d.creds ELSE [d.creds EXCEPT ![c] = s]
               /\ r.users = d.users /\ r.offers = d.offers /\ r.authority = d.authority
               /\ r.revoked = d.revoked /\ r.exporters = d.exporters
  <1> DEFINE creds == [d.creds EXCEPT ![c] = s]
  <1>1. creds \in Creds
    BY StateFields DEF Creds
  <1>2. A!Enrolled(d, c, s) = IF c \in d.revoked THEN d ELSE [d EXCEPT !.creds = creds]
    BY DEF A!Enrolled
  <1> HIDE DEF creds
  <1>3. CASE c \in d.revoked
    BY <1>2, <1>3
  <1>4. CASE c \notin d.revoked
    BY <1>1, <1>2, <1>4, CredsUpdated DEF creds
  <1>5. QED
    BY <1>3, <1>4

LEMMA RevokeCredIs ==
    ASSUME NEW d \in A!PortalState, NEW c \in Passkey
    PROVE  LET r == A!RevokeCred(d, c)
           IN  /\ r \in A!PortalState
               /\ r.creds = [d.creds EXCEPT ![c] = None] /\ r.revoked = d.revoked \cup {c}
               /\ r.users = d.users /\ r.offers = d.offers /\ r.authority = d.authority
               /\ r.exporters = d.exporters
  <1> DEFINE creds == [d.creds EXCEPT ![c] = None]
             revs == d.revoked \cup {c}
  <1>1. creds \in Creds /\ revs \in SUBSET Passkey
    BY StateFields DEF Creds
  <1> DEFINE mid == [d EXCEPT !.creds = creds]
  <1>2. A!RevokeCred(d, c) = [mid EXCEPT !.revoked = revs]
    BY DEF A!RevokeCred
  <1> HIDE DEF creds, revs
  <1>3. /\ mid \in A!PortalState /\ mid.creds = creds /\ mid.revoked = d.revoked
        /\ mid.users = d.users /\ mid.offers = d.offers /\ mid.authority = d.authority
        /\ mid.exporters = d.exporters
    BY <1>1, CredsUpdated
  <1> HIDE DEF mid
  <1>4. QED
    BY <1>1, <1>2, <1>3, RevokedUpdated DEF creds, revs

-----------------------------------------------------------------------------
\* Two states that differ in the key-export role at most.
Same(d, e) ==
    /\ d.users = e.users /\ d.offers = e.offers /\ d.authority = e.authority
    /\ d.creds = e.creds /\ d.revoked = e.revoked

\* What an op can be about, and two states that agree about it.
Thing == A!Account \cup Passkey

Alike(d, e, x) ==
    /\ x \in Invitee => d.users[x] = e.users[x]
    /\ x \in A!Account => d.offers[x] = e.offers[x] /\ A!Authorised(d, x) = A!Authorised(e, x)
    /\ x \in Passkey => d.creds[x] = e.creds[x] /\ (x \in d.revoked <=> x \in e.revoked)

Rebuilt(d, e, b) == \A x \in Thing \ b : Alike(d, e, x)

LEMMA RebuiltIs == A!OthersAreRebuilt <=> Rebuilt(replayed, live, behind)
  BY DEF A!OthersAreRebuilt, Rebuilt, Alike, Thing, A!Account

\* An op about x takes d to f in the replay and e to g in the running node: it
\* leaves everything else alone, does the same to what is alike, and the
\* replay gets ahead in nothing.
Mirror(d, e, f, g, x) ==
    /\ \A y \in Thing \ {x} : Alike(d, f, y) /\ Alike(e, g, y)
    /\ Alike(d, e, x) => Alike(f, g, x)
    /\ A!JournalLags(e, g)
    /\ A!JournalLags(d, e) => A!JournalLags(f, g)

LEMMA MirrorTrans ==
    ASSUME NEW d, NEW e, NEW f, NEW g, NEW k, NEW l, NEW x,
           Mirror(d, e, f, g, x), Mirror(f, g, k, l, x)
    PROVE  Mirror(d, e, k, l, x)
  <1>1. \A y \in Thing \ {x} : Alike(d, k, y) /\ Alike(e, l, y)
    <2> SUFFICES ASSUME NEW y \in Thing \ {x} PROVE Alike(d, k, y) /\ Alike(e, l, y)
      OBVIOUS
    <2>1. Alike(d, f, y) /\ Alike(f, k, y) /\ Alike(e, g, y) /\ Alike(g, l, y)
      BY DEF Mirror
    <2>2. QED
      BY <2>1 DEF Alike
  <1>2. A!JournalLags(e, l)
    <2>1. A!JournalLags(e, g) /\ A!JournalLags(g, l)
      BY DEF Mirror
    <2>2. QED
      BY <2>1 DEF A!JournalLags
  <1>3. QED
    BY <1>1, <1>2 DEF Mirror

LEMMA MirrorSame ==
    ASSUME NEW d, NEW e, NEW f, NEW g, NEW l, NEW x, Mirror(d, e, f, g, x), Same(g, l)
    PROVE  Mirror(d, e, f, l, x)
  <1>1. \A q, y : (Alike(q, g, y) => Alike(q, l, y)) /\ (A!JournalLags(q, g) => A!JournalLags(q, l))
    BY DEF Same, Alike, A!JournalLags, A!Known, A!Authorised
  <1>2. QED
    BY <1>1 DEF Mirror

\* Both properties of an account, of any portal state.
GoodState(d) ==
    /\ \A h \in Invitee : d.users[h] # None =>
          /\ d.offers[h] # None
          /\ d.users[h].force => ~(d.offers[h].admitted /\ d.offers[h].subject = A!Subkey(h, TRUE))
    /\ \A a \in A!Account : d.offers[a] # None => d.offers[a].subject \in d.authority

LEMMA AccountsInvIs == A!AccountsInv <=> A!TypeOK /\ GoodState(live)
  BY DEF A!AccountsInv, A!ForcedHoldsNoOperationalOffer, A!NeverLockedOut, A!Known, GoodState

\* Whatever leaves users, offers and authority alone keeps a state good.
LEMMA GoodUntouched ==
    ASSUME NEW d, NEW e, GoodState(d), e.users = d.users, e.offers = d.offers, e.authority = d.authority
    PROVE  GoodState(e)
  BY DEF GoodState

LEMMA GoodSetUser ==
    ASSUME NEW d \in A!PortalState, GoodState(d), NEW h \in Invitee, NEW field, NEW value,
           Fits(field, value), field # "force"
    PROVE  GoodState(A!SetUser(d, h, field, value))
  <1> DEFINE r == A!SetUser(d, h, field, value)
  <1>1. /\ r.offers = d.offers /\ r.authority = d.authority
        /\ r.users = IF d.users[h] = None THEN d.users
                     ELSE [d.users EXCEPT ![h] = [d.users[h] EXCEPT ![field] = value]]
    BY SetUserIs DEF UserSet
  <1>2. d.users \in Users
    BY StateFields
  <1>3. d.users[h] # None => [d.users[h] EXCEPT ![field] = value].force = d.users[h].force
    BY <1>2 DEF Fits, Users
  <1>4. \A g \in Invitee : r.users[g] # None => d.users[g] # None /\ r.users[g].force = d.users[g].force
    BY <1>1, <1>2, <1>3 DEF Users
  <1> HIDE DEF r
  <1>5. GoodState(r)
    BY <1>1, <1>4 DEF GoodState
  <1>6. QED
    BY <1>5 DEF r

\* A key is minted for a user whose forced change says the opposite of its kind.
LEMMA GoodMint ==
    ASSUME A!AccountsAssumption, NEW d \in A!PortalState, GoodState(d), NEW h \in Invitee,
           NEW op \in BOOLEAN, NEW r, r.offers = [d.offers EXCEPT ![h] = NewOffer(A!Subkey(h, op))],
           r.authority = d.authority \cup {A!Subkey(h, op)},
           r.users[h] # None => r.users[h].force = ~op,
           \A g \in Invitee \ {h} : r.users[g] = d.users[g]
    PROVE  GoodState(r)
  <1>1. h \in A!Account /\ d.offers \in Offers
    BY StateFields DEF A!Account
  <1>2. NewOffer(A!Subkey(h, op)) # None /\ NewOffer(A!Subkey(h, op)).subject = A!Subkey(h, op)
    <2>1. NewOffer(A!Subkey(h, op)) \in A!Offer
      BY <1>1, SubkeyType DEF NewOffer, A!Offer
    <2>2. QED
      BY <2>1 DEF NewOffer, A!AccountsAssumption
  <1>3. /\ r.offers[h] = NewOffer(A!Subkey(h, op))
        /\ \A a \in A!Account \ {h} : r.offers[a] = d.offers[a]
        /\ r.authority = d.authority \cup {A!Subkey(h, op)}
    BY <1>1 DEF Offers
  <1>4. op = FALSE \/ op = TRUE
    OBVIOUS
  <1>5. r.users[h] # None /\ r.users[h].force => ~(r.offers[h].subject = A!Subkey(h, TRUE))
    <2>1. CASE op = TRUE
      BY <2>1
    <2>2. CASE op = FALSE
      <3>1. A!Subkey(h, op).kind = "enroll" /\ A!Subkey(h, TRUE).kind = "op"
        BY <2>2 DEF A!Subkey
      <3>2. QED
        BY <1>2, <1>3, <3>1
    <2>3. QED
      BY <1>4, <2>1, <2>2
  <1>6. \A a \in A!Account : r.offers[a] # None => r.offers[a].subject \in r.authority
    BY <1>2, <1>3 DEF GoodState
  <1>7. \A g \in Invitee : r.users[g] # None =>
          /\ r.offers[g] # None
          /\ r.users[g].force => ~(r.offers[g].admitted /\ r.offers[g].subject = A!Subkey(g, TRUE))
    BY <1>2, <1>3, <1>5 DEF GoodState, A!Account
  <1>8. QED
    BY <1>6, <1>7 DEF GoodState

\* Setting the flag of a forced change touches nothing else.
LEMMA SetForceIs ==
    ASSUME NEW d \in A!PortalState, NEW h \in Invitee, NEW b \in BOOLEAN
    PROVE  LET r == A!SetUser(d, h, "force", b)
           IN  /\ r \in A!PortalState
               /\ d.users[h] # None => r.users[h].force = b
               /\ d.users[h] = None => r.users[h] = None
               /\ \A g \in Invitee \ {h} : r.users[g] = d.users[g]
               /\ r.offers = d.offers /\ r.authority = d.authority
  <1> DEFINE f == "force"
             r == A!SetUser(d, h, f, b)
  <1>1. Fits(f, b) /\ f = "force"
    BY FieldsFit
  <1>2. d.users \in Users
    BY StateFields
  <1> HIDE DEF f
  <1>3. d.users[h] # None => [d.users[h] EXCEPT ![f] = b].force = b
    BY <1>1, <1>2 DEF Fits, Users
  <1>4. /\ r \in A!PortalState /\ r.offers = d.offers /\ r.authority = d.authority
        /\ r.users = IF d.users[h] = None THEN d.users
                     ELSE [d.users EXCEPT ![h] = [d.users[h] EXCEPT ![f] = b]]
    BY <1>1, SetUserIs DEF UserSet
  <1> HIDE DEF r
  <1>5. /\ d.users[h] # None => r.users[h].force = b
        /\ d.users[h] = None => r.users[h] = None
        /\ \A g \in Invitee \ {h} : r.users[g] = d.users[g]
    BY <1>2, <1>3, <1>4 DEF Users
  <1>6. QED
    BY <1>4, <1>5 DEF r, f

\* require-change: the flag goes up and the offer is closed, if there is one.
LEMMA GoodRequireChange ==
    ASSUME A!AccountsAssumption, NEW d \in A!PortalState, GoodState(d), NEW h \in Invitee
    PROVE  LET r == A!RevokeOffer(A!SetUser(d, h, "force", TRUE), h)
           IN  r \in A!PortalState /\ GoodState(r)
  <1> DEFINE m == A!SetUser(d, h, "force", TRUE)
             r == A!RevokeOffer(m, h)
  <1>1. /\ m \in A!PortalState /\ m.offers = d.offers /\ m.authority = d.authority
        /\ d.users[h] = None => m.users[h] = None
        /\ \A g \in Invitee \ {h} : m.users[g] = d.users[g]
    BY SetForceIs
  <1>2. d.offers \in Offers /\ h \in A!Account
    BY StateFields DEF A!Account
  <1> HIDE DEF m
  <1>3. /\ r \in A!PortalState /\ r.users = m.users /\ r.authority = d.authority
        /\ r.offers = IF d.offers[h] = None THEN d.offers
                      ELSE [d.offers EXCEPT ![h] = Closed(d.offers[h])]
        /\ d.offers[h] # None =>
              /\ Closed(d.offers[h]).subject = d.offers[h].subject
              /\ Closed(d.offers[h]).admitted = FALSE /\ Closed(d.offers[h]) \in A!Offer
    <2>1. /\ r \in A!PortalState /\ r.users = m.users /\ r.authority = m.authority
          /\ r.offers = IF m.offers[h] = None THEN m.offers
                        ELSE [m.offers EXCEPT ![h] = Closed(m.offers[h])]
          /\ m.offers[h] # None =>
                /\ Closed(m.offers[h]).subject = m.offers[h].subject
                /\ Closed(m.offers[h]).admitted = FALSE /\ Closed(m.offers[h]) \in A!Offer
      BY <1>1, <1>2, RevokeOfferIs
    <2> HIDE DEF r
    <2>2. QED
      BY <1>1, <2>1, Zenon
  <1> HIDE DEF r
  <1>4. /\ \A a \in A!Account \ {h} : r.offers[a] = d.offers[a]
        /\ d.offers[h] = None => r.offers[h] = None
        /\ d.offers[h] # None =>
              /\ r.offers[h] # None /\ r.offers[h].subject = d.offers[h].subject
              /\ r.offers[h].admitted = FALSE
    <2>1. CASE d.offers[h] = None
      BY <1>3, <2>1
    <2>2. CASE d.offers[h] # None
      <3>1. r.offers[h] = Closed(d.offers[h]) /\ \A a \in A!Account \ {h} : r.offers[a] = d.offers[a]
        BY <1>2, <1>3, <2>2 DEF Offers
      <3>2. Closed(d.offers[h]) # None
        BY <1>3, <2>2 DEF A!AccountsAssumption
      <3>3. QED
        BY <1>3, <2>2, <3>1, <3>2
    <2>3. QED
      BY <2>1, <2>2
  <1>5. \A a \in A!Account : r.offers[a] # None => r.offers[a].subject \in r.authority
    BY <1>2, <1>3, <1>4 DEF GoodState
  <1>6. \A g \in Invitee : r.users[g] # None =>
          /\ r.offers[g] # None
          /\ r.users[g].force => ~(r.offers[g].admitted /\ r.offers[g].subject = A!Subkey(g, TRUE))
    <2> SUFFICES ASSUME NEW g \in Invitee, r.users[g] # None
                 PROVE  /\ r.offers[g] # None
                        /\ r.users[g].force =>
                              ~(r.offers[g].admitted /\ r.offers[g].subject = A!Subkey(g, TRUE))
      OBVIOUS
    <2>1. CASE g = h
      <3>1. d.offers[h] # None
        BY <1>1, <1>3, <2>1 DEF GoodState
      <3>2. QED
        BY <1>4, <2>1, <3>1
    <2>2. CASE g # h
      <3>1. r.users[g] = d.users[g] /\ r.offers[g] = d.offers[g]
        BY <1>1, <1>3, <1>4, <2>2 DEF A!Account
      <3>2. QED
        BY <3>1 DEF GoodState
    <2>3. QED
      BY <2>1, <2>2
  <1>7. GoodState(r)
    BY <1>5, <1>6 DEF GoodState
  <1>8. QED
    BY <1>3, <1>7 DEF r, m

-----------------------------------------------------------------------------
\* Updates of one user, of one account's offer and of one credential.
UserStep(q, r, h, u) ==
    /\ r \in A!PortalState /\ r.users = [q.users EXCEPT ![h] = u]
    /\ r.offers = q.offers /\ r.authority = q.authority /\ r.creds = q.creds /\ r.revoked = q.revoked

OfferStep(q, r, a, o, t) ==
    /\ r \in A!PortalState /\ r.offers = [q.offers EXCEPT ![a] = o] /\ r.authority = q.authority \cup t
    /\ r.users = q.users /\ r.creds = q.creds /\ r.revoked = q.revoked

CredStep(q, r, c, s, t) ==
    /\ r \in A!PortalState /\ r.creds = [q.creds EXCEPT ![c] = s] /\ r.revoked = q.revoked \cup t
    /\ r.users = q.users /\ r.offers = q.offers /\ r.authority = q.authority

LEMMA MirrorUser ==
    ASSUME NEW d \in A!PortalState, NEW e \in A!PortalState, NEW h \in Invitee, NEW f, NEW g, NEW u, NEW v,
           UserStep(d, f, h, u), UserStep(e, g, h, v),
           d.users[h] = e.users[h] => u = v,
           e.users[h] # None => v # None,
           (d.users[h] # None => e.users[h] # None) => (u # None => v # None)
    PROVE  Mirror(d, e, f, g, h)
  <1>1. d.users \in Users /\ e.users \in Users
    BY StateFields
  <1>2. /\ f.users[h] = u /\ \A k \in Invitee \ {h} : f.users[k] = d.users[k]
        /\ g.users[h] = v /\ \A k \in Invitee \ {h} : g.users[k] = e.users[k]
        /\ f.offers = d.offers /\ f.authority = d.authority /\ f.creds = d.creds /\ f.revoked = d.revoked
        /\ g.offers = e.offers /\ g.authority = e.authority /\ g.creds = e.creds /\ g.revoked = e.revoked
    BY <1>1 DEF UserStep, Users
  <1>3. \A y \in Thing \ {h} : Alike(d, f, y) /\ Alike(e, g, y)
    BY <1>2 DEF Alike, A!Authorised
  <1>4. Alike(d, e, h) => Alike(f, g, h)
    BY <1>2 DEF Alike, A!Authorised
  <1>5. A!JournalLags(e, g) /\ (A!JournalLags(d, e) => A!JournalLags(f, g))
    BY <1>2 DEF A!JournalLags, A!Known
  <1>6. QED
    BY <1>3, <1>4, <1>5 DEF Mirror

LEMMA MirrorOffer ==
    ASSUME NEW d \in A!PortalState, NEW e \in A!PortalState, NEW a \in A!Account, NEW f, NEW g,
           NEW o, NEW p, NEW t, NEW u, OfferStep(d, f, a, o, t), OfferStep(e, g, a, p, u),
           t \subseteq u, \A s \in u : s.handle = a,
           d.offers[a] = e.offers[a] => o = p /\ t = u
    PROVE  Mirror(d, e, f, g, a)
  <1>1. d.offers \in Offers /\ e.offers \in Offers
    BY StateFields
  <1>2. /\ f.offers[a] = o /\ \A k \in A!Account \ {a} : f.offers[k] = d.offers[k]
        /\ g.offers[a] = p /\ \A k \in A!Account \ {a} : g.offers[k] = e.offers[k]
        /\ f.authority = d.authority \cup t /\ g.authority = e.authority \cup u
        /\ f.users = d.users /\ f.creds = d.creds /\ f.revoked = d.revoked
        /\ g.users = e.users /\ g.creds = e.creds /\ g.revoked = e.revoked
    BY <1>1 DEF OfferStep, Offers
  <1>3. \A y \in Thing \ {a} : Alike(d, f, y) /\ Alike(e, g, y)
    <2>1. \A y \in A!Account \ {a} : /\ A!Authorised(f, y) = A!Authorised(d, y)
                                     /\ A!Authorised(g, y) = A!Authorised(e, y)
      BY <1>2 DEF A!Authorised
    <2>2. QED
      BY <1>2, <2>1 DEF Alike
  <1>4. Alike(d, e, a) => Alike(f, g, a)
    <2> SUFFICES ASSUME Alike(d, e, a) PROVE Alike(f, g, a)
      OBVIOUS
    <2>1. o = p /\ t = u /\ A!Authorised(d, a) = A!Authorised(e, a)
      BY DEF Alike
    <2>2. A!Authorised(f, a) = A!Authorised(d, a) \cup t /\ A!Authorised(g, a) = A!Authorised(e, a) \cup u
      BY <1>2 DEF A!Authorised
    <2>3. QED
      BY <1>2, <2>1, <2>2 DEF Alike
  <1>5. A!JournalLags(e, g) /\ (A!JournalLags(d, e) => A!JournalLags(f, g))
    BY <1>2 DEF A!JournalLags, A!Known
  <1>6. QED
    BY <1>3, <1>4, <1>5 DEF Mirror

LEMMA MirrorCred ==
    ASSUME NEW d \in A!PortalState, NEW e \in A!PortalState, NEW c \in Passkey, NEW f, NEW g,
           NEW s, NEW z, NEW t \in SUBSET {c}, CredStep(d, f, c, s, t), CredStep(e, g, c, z, t),
           Alike(d, e, c) => s = z
    PROVE  Mirror(d, e, f, g, c)
  <1>1. d.creds \in Creds /\ e.creds \in Creds
    BY StateFields
  <1>2. /\ f.creds[c] = s /\ \A k \in Passkey \ {c} : f.creds[k] = d.creds[k]
        /\ g.creds[c] = z /\ \A k \in Passkey \ {c} : g.creds[k] = e.creds[k]
        /\ f.revoked = d.revoked \cup t /\ g.revoked = e.revoked \cup t
        /\ f.users = d.users /\ f.offers = d.offers /\ f.authority = d.authority
        /\ g.users = e.users /\ g.offers = e.offers /\ g.authority = e.authority
    BY <1>1 DEF CredStep, Creds
  <1>3. \A y \in Thing \ {c} : Alike(d, f, y) /\ Alike(e, g, y)
    BY <1>2 DEF Alike, A!Authorised
  <1>4. Alike(d, e, c) => Alike(f, g, c)
    BY <1>2 DEF Alike, A!Authorised
  <1>5. A!JournalLags(e, g) /\ (A!JournalLags(d, e) => A!JournalLags(f, g))
    BY <1>2 DEF A!JournalLags, A!Known
  <1>6. QED
    BY <1>3, <1>4, <1>5 DEF Mirror

\* The updates the handlers and their replay are made of.
LEMMA SetUserStep ==
    ASSUME A!AccountsAssumption, NEW q \in A!PortalState, NEW h \in Invitee, NEW field, NEW value,
           Fits(field, value)
    PROVE  LET u == IF q.users[h] = None THEN None ELSE [q.users[h] EXCEPT ![field] = value]
           IN  /\ UserStep(q, A!SetUser(q, h, field, value), h, u)
               /\ u # None <=> q.users[h] # None
  <1> DEFINE r == A!SetUser(q, h, field, value)
             new == [q.users[h] EXCEPT ![field] = value]
             u == IF q.users[h] = None THEN None ELSE new
  <1>1. UserSet(q, h, field, value, r)
    BY SetUserIs
  <1>2. q.users \in Users
    BY StateFields
  <1>3. q.users[h] # None => new # None
    <2>1. q.users[h] # None => q.users[h] \in A!UserRecord
      BY <1>2 DEF Users
    <2>2. q.users[h] # None => new \in A!UserRecord
      BY <2>1 DEF Fits
    <2>3. QED
      BY <2>2 DEF A!AccountsAssumption
  <1>4. r.users = IF q.users[h] = None THEN q.users ELSE [q.users EXCEPT ![h] = new]
    BY <1>1 DEF UserSet
  <1>5. /\ r \in A!PortalState
        /\ r.offers = q.offers /\ r.authority = q.authority /\ r.creds = q.creds /\ r.revoked = q.revoked
    BY <1>1 DEF UserSet
  <1> HIDE DEF new, r
  <1>6. r.users = [q.users EXCEPT ![h] = u]
    BY <1>2, <1>4 DEF Users
  <1>7. u # None <=> q.users[h] # None
    BY <1>3
  <1> HIDE DEF u
  <1>8. UserStep(q, r, h, u)
    BY <1>5, <1>6 DEF UserStep
  <1>9. QED
    BY <1>7, <1>8 DEF u, new, r

LEMMA MirrorSetUser ==
    ASSUME A!AccountsAssumption, NEW d \in A!PortalState, NEW e \in A!PortalState, NEW h \in Invitee,
           NEW field, NEW value, Fits(field, value)
    PROVE  /\ Mirror(d, e, A!SetUser(d, h, field, value), A!SetUser(e, h, field, value), h)
           /\ A!SetUser(d, h, field, value) \in A!PortalState
           /\ A!SetUser(e, h, field, value) \in A!PortalState
  <1> DEFINE f == A!SetUser(d, h, field, value)
             g == A!SetUser(e, h, field, value)
             New(x) == IF x = None THEN None ELSE [x EXCEPT ![field] = value]
  <1>1. /\ UserStep(d, f, h, New(d.users[h])) /\ UserStep(e, g, h, New(e.users[h]))
        /\ New(d.users[h]) # None <=> d.users[h] # None
        /\ New(e.users[h]) # None <=> e.users[h] # None
    BY SetUserStep, Zenon
  <1>2. d.users[h] = e.users[h] => New(d.users[h]) = New(e.users[h])
    OBVIOUS
  <1> HIDE DEF f, g, New
  <1>3. Mirror(d, e, f, g, h)
    BY <1>1, <1>2, MirrorUser
  <1>4. QED
    BY <1>1, <1>3 DEF UserStep, f, g

LEMMA MirrorInvited ==
    ASSUME A!AccountsAssumption, NEW d \in A!PortalState, NEW e \in A!PortalState, NEW h \in Invitee,
           NEW force \in BOOLEAN, NEW passkey \in BOOLEAN, NEW email \in Email
    PROVE  Mirror(d, e, A!Invited(d, h, force, passkey, email), A!Invited(e, h, force, passkey, email), h)
  <1> DEFINE f == A!Invited(d, h, force, passkey, email)
             g == A!Invited(e, h, force, passkey, email)
             n == NewUser(force, passkey, email)
             New(x) == IF x # None THEN x ELSE n
  <1>1. d.users \in Users /\ e.users \in Users
    BY StateFields
  <1>2. /\ f \in A!PortalState /\ f.users = IF d.users[h] # None THEN d.users ELSE [d.users EXCEPT ![h] = n]
        /\ f.offers = d.offers /\ f.authority = d.authority /\ f.creds = d.creds /\ f.revoked = d.revoked
        /\ g \in A!PortalState /\ g.users = IF e.users[h] # None THEN e.users ELSE [e.users EXCEPT ![h] = n]
        /\ g.offers = e.offers /\ g.authority = e.authority /\ g.creds = e.creds /\ g.revoked = e.revoked
        /\ n \in A!UserRecord
    BY InvitedIs
  <1>3. n # None
    BY <1>2 DEF A!AccountsAssumption
  <1> HIDE DEF f, g, n
  <1>4. f.users = [d.users EXCEPT ![h] = New(d.users[h])] /\ g.users = [e.users EXCEPT ![h] = New(e.users[h])]
    BY <1>1, <1>2 DEF Users
  <1>5. UserStep(d, f, h, New(d.users[h])) /\ UserStep(e, g, h, New(e.users[h]))
    BY <1>2, <1>4 DEF UserStep
  <1>6. /\ New(d.users[h]) # None /\ New(e.users[h]) # None
        /\ d.users[h] = e.users[h] => New(d.users[h]) = New(e.users[h])
    BY <1>3
  <1> HIDE DEF New
  <1>7. Mirror(d, e, f, g, h)
    BY <1>5, <1>6, MirrorUser
  <1>8. QED
    BY <1>7 DEF f, g

LEMMA MirrorMint ==
    ASSUME NEW d \in A!PortalState, NEW e \in A!PortalState, NEW a \in A!Account, NEW op
    PROVE  Mirror(d, e, A!RestoreMinted(d, a, op), A!MintOffer(e, a, op), a)
  <1> DEFINE s == A!Subkey(a, op)
             f == A!RestoreMinted(d, a, op)
             g == A!MintOffer(e, a, op)
  <1>1. Minted(d, a, op, f) /\ Minted(e, a, op, g)
    BY MintOfferIs
  <1>2. OfferStep(d, f, a, NewOffer(s), {s}) /\ OfferStep(e, g, a, NewOffer(s), {s})
    BY <1>1 DEF Minted, OfferStep
  <1>3. s.handle = a
    BY DEF A!Subkey
  <1> HIDE DEF s, f, g
  <1>4. Mirror(d, e, f, g, a)
    <2> DEFINE t == {s}
    <2>1. t \subseteq t /\ \A z \in t : z.handle = a
      BY <1>3
    <2>2. OfferStep(d, f, a, NewOffer(s), t) /\ OfferStep(e, g, a, NewOffer(s), t)
      BY <1>2
    <2> HIDE DEF t
    <2>3. QED
      BY <2>1, <2>2, MirrorOffer
  <1>5. QED
    BY <1>4 DEF f, g

LEMMA MirrorRevokeOffer ==
    ASSUME NEW d \in A!PortalState, NEW e \in A!PortalState, NEW a \in A!Account
    PROVE  Mirror(d, e, A!RevokeOffer(d, a), A!RevokeOffer(e, a), a)
  <1> DEFINE f == A!RevokeOffer(d, a)
             g == A!RevokeOffer(e, a)
             New(x) == IF x = None THEN None ELSE Closed(x)
  <1>1. d.offers \in Offers /\ e.offers \in Offers
    BY StateFields
  <1>2. /\ f \in A!PortalState /\ f.authority = d.authority /\ f.users = d.users /\ f.creds = d.creds
        /\ f.revoked = d.revoked
        /\ f.offers = IF d.offers[a] = None THEN d.offers ELSE [d.offers EXCEPT ![a] = Closed(d.offers[a])]
        /\ g \in A!PortalState /\ g.authority = e.authority /\ g.users = e.users /\ g.creds = e.creds
        /\ g.revoked = e.revoked
        /\ g.offers = IF e.offers[a] = None THEN e.offers ELSE [e.offers EXCEPT ![a] = Closed(e.offers[a])]
    BY RevokeOfferIs
  <1> HIDE DEF f, g
  <1>3. /\ f.offers = [d.offers EXCEPT ![a] = New(d.offers[a])]
        /\ g.offers = [e.offers EXCEPT ![a] = New(e.offers[a])]
    BY <1>1, <1>2 DEF Offers
  <1>4. OfferStep(d, f, a, New(d.offers[a]), {}) /\ OfferStep(e, g, a, New(e.offers[a]), {})
    BY <1>2, <1>3 DEF OfferStep
  <1>5. d.offers[a] = e.offers[a] => New(d.offers[a]) = New(e.offers[a])
    OBVIOUS
  <1> HIDE DEF New
  <1>6. Mirror(d, e, f, g, a)
    BY <1>4, <1>5, MirrorOffer
  <1>7. QED
    BY <1>6 DEF f, g

LEMMA MirrorEnrolled ==
    ASSUME NEW d \in A!PortalState, NEW e \in A!PortalState, NEW c \in Passkey, NEW s \in A!Subject
    PROVE  Mirror(d, e, A!Enrolled(d, c, s), A!Enrolled(e, c, s), c)
  <1> DEFINE f == A!Enrolled(d, c, s)
             g == A!Enrolled(e, c, s)
             New(q) == IF c \in q.revoked THEN q.creds[c] ELSE s
  <1>1. d.creds \in Creds /\ e.creds \in Creds
    BY StateFields
  <1>2. /\ f \in A!PortalState /\ f.authority = d.authority /\ f.users = d.users /\ f.offers = d.offers
        /\ f.revoked = d.revoked
        /\ f.creds = IF c \in d.revoked THEN d.creds ELSE [d.creds EXCEPT ![c] = s]
        /\ g \in A!PortalState /\ g.authority = e.authority /\ g.users = e.users /\ g.offers = e.offers
        /\ g.revoked = e.revoked
        /\ g.creds = IF c \in e.revoked THEN e.creds ELSE [e.creds EXCEPT ![c] = s]
    BY EnrolledIs
  <1> HIDE DEF f, g
  <1>3. f.creds = [d.creds EXCEPT ![c] = New(d)] /\ g.creds = [e.creds EXCEPT ![c] = New(e)]
    BY <1>1, <1>2 DEF Creds
  <1>4. CredStep(d, f, c, New(d), {}) /\ CredStep(e, g, c, New(e), {})
    BY <1>2, <1>3 DEF CredStep
  <1>5. Alike(d, e, c) => New(d) = New(e)
    BY DEF Alike
  <1> HIDE DEF New
  <1>6. Mirror(d, e, f, g, c)
    BY <1>4, <1>5, MirrorCred
  <1>7. QED
    BY <1>6 DEF f, g

LEMMA MirrorRevokeCred ==
    ASSUME NEW d \in A!PortalState, NEW e \in A!PortalState, NEW c \in Passkey
    PROVE  Mirror(d, e, A!RevokeCred(d, c), A!RevokeCred(e, c), c)
  <1> DEFINE f == A!RevokeCred(d, c)
             g == A!RevokeCred(e, c)
  <1>1. CredStep(d, f, c, None, {c}) /\ CredStep(e, g, c, None, {c})
    BY RevokeCredIs DEF CredStep
  <1> HIDE DEF f, g
  <1>2. Mirror(d, e, f, g, c)
    <2> DEFINE t == {c}
    <2>1. t \in SUBSET {c} /\ CredStep(d, f, c, None, t) /\ CredStep(e, g, c, None, t)
      BY <1>1
    <2> HIDE DEF t
    <2>2. QED
      BY <2>1, MirrorCred
  <1>3. QED
    BY <1>2 DEF f, g

\* A new password: the handler mints and then sets the flag, its replay sets
\* the flag and then mints.
LEMMA PasswordCommutes ==
    ASSUME A!AccountsAssumption, NEW e \in A!PortalState, NEW h \in Invitee, NEW force \in BOOLEAN
    PROVE  Same(A!MintOffer(A!SetUser(e, h, "force", force), h, ~force),
                A!SetUser(A!MintOffer(e, h, ~force), h, "force", force))
  <1>1. h \in A!Account /\ Fits("force", force)
    BY FieldsFit DEF A!Account
  <1> DEFINE fl == "force"
             op == ~force
             x1 == A!SetUser(e, h, fl, force)
             x2 == A!MintOffer(x1, h, op)
             y1 == A!MintOffer(e, h, op)
             y2 == A!SetUser(y1, h, fl, force)
             New(x) == IF x = None THEN None ELSE [x EXCEPT ![fl] = force]
  <1>2. Fits(fl, force)
    BY <1>1
  <1> HIDE DEF fl, op
  <1>3. \A q \in A!PortalState : UserStep(q, A!SetUser(q, h, fl, force), h, New(q.users[h]))
    BY <1>2, SetUserStep, Zenon
  <1>4. UserStep(e, x1, h, New(e.users[h]))
    BY <1>3
  <1>5. x1 \in A!PortalState
    BY <1>4 DEF UserStep
  <1>6. Minted(e, h, op, y1)
    BY <1>1, MintOfferIs
  <1>7. y1 \in A!PortalState /\ y1.users = e.users
    BY <1>6 DEF Minted
  <1> HIDE DEF y1
  <1>8. UserStep(y1, y2, h, New(y1.users[h]))
    BY <1>3, <1>7
  <1> HIDE DEF x1, y2
  <1>9. Minted(x1, h, op, x2)
    BY <1>1, <1>5, MintOfferIs
  <1> HIDE DEF x2, New
  <1>10. UserStep(y1, y2, h, New(e.users[h]))
    BY <1>7, <1>8
  <1>11. Same(x2, y2)
    BY <1>4, <1>6, <1>9, <1>10, Zenon DEF Minted, UserStep, Same
  <1>12. QED
    BY <1>11 DEF x2, y2, x1, y1, fl, op

LEMMA MirrorPassword ==
    ASSUME A!AccountsAssumption, NEW d \in A!PortalState, NEW e \in A!PortalState, NEW h \in Invitee,
           NEW force \in BOOLEAN
    PROVE  Mirror(d, e, A!RestoreMinted(A!SetUser(d, h, "force", force), h, ~force),
                  A!SetUser(A!MintOffer(e, h, ~force), h, "force", force), h)
  <1> DEFINE d1 == A!SetUser(d, h, "force", force)
             e1 == A!SetUser(e, h, "force", force)
  <1>1. h \in A!Account /\ Fits("force", force)
    BY FieldsFit DEF A!Account
  <1>2. Mirror(d, e, d1, e1, h) /\ d1 \in A!PortalState /\ e1 \in A!PortalState
    BY <1>1, MirrorSetUser
  <1>3. Same(A!MintOffer(e1, h, ~force), A!SetUser(A!MintOffer(e, h, ~force), h, "force", force))
    BY PasswordCommutes
  <1> HIDE DEF d1, e1
  <1>4. Mirror(d1, e1, A!RestoreMinted(d1, h, ~force), A!MintOffer(e1, h, ~force), h)
    BY <1>1, <1>2, MirrorMint
  <1>5. Mirror(d, e, A!RestoreMinted(d1, h, ~force), A!MintOffer(e1, h, ~force), h)
    BY <1>2, <1>4, MirrorTrans
  <1>6. Mirror(d, e, A!RestoreMinted(d1, h, ~force),
               A!SetUser(A!MintOffer(e, h, ~force), h, "force", force), h)
    BY <1>3, <1>5, MirrorSame
  <1>7. QED
    BY <1>6 DEF d1

\* It leaves accounts that can be used, in the running node and in the replay.
LEMMA GoodPassword ==
    ASSUME A!AccountsAssumption, NEW d \in A!PortalState, GoodState(d), NEW h \in Invitee,
           NEW force \in BOOLEAN
    PROVE  /\ A!RestoreMinted(A!SetUser(d, h, "force", force), h, ~force) \in A!PortalState
           /\ GoodState(A!RestoreMinted(A!SetUser(d, h, "force", force), h, ~force))
           /\ A!SetUser(A!MintOffer(d, h, ~force), h, "force", force) \in A!PortalState
           /\ GoodState(A!SetUser(A!MintOffer(d, h, ~force), h, "force", force))
  <1> DEFINE m == A!SetUser(d, h, "force", force)
             r == A!RestoreMinted(m, h, ~force)
             y == A!SetUser(A!MintOffer(d, h, ~force), h, "force", force)
  <1>1. h \in A!Account
    BY DEF A!Account
  <1>2. /\ m \in A!PortalState /\ (m.users[h] # None => m.users[h].force = force)
        /\ \A g \in Invitee \ {h} : m.users[g] = d.users[g]
        /\ m.offers = d.offers /\ m.authority = d.authority
    BY SetForceIs
  <1>3. Same(A!MintOffer(m, h, ~force), y)
    BY PasswordCommutes
  <1>4. y \in A!PortalState
    <2>1. A!MintOffer(d, h, ~force) \in A!PortalState
      BY <1>1, MintOfferIs DEF Minted
    <2>2. QED
      BY <2>1, SetForceIs
  <1> HIDE DEF m, y
  <1>5. Minted(m, h, ~force, r) /\ Minted(m, h, ~force, A!MintOffer(m, h, ~force))
    BY <1>1, <1>2, MintOfferIs
  <1> HIDE DEF r
  <1>6. PICK op \in BOOLEAN : op = ~force
    OBVIOUS
  <1>7. ASSUME NEW z, z.offers = [m.offers EXCEPT ![h] = NewOffer(A!Subkey(h, ~force))],
               z.authority = m.authority \cup {A!Subkey(h, ~force)}, z.users = m.users
        PROVE  GoodState(z)
    <2>1. /\ z.offers = [d.offers EXCEPT ![h] = NewOffer(A!Subkey(h, op))]
          /\ z.authority = d.authority \cup {A!Subkey(h, op)}
      BY <1>2, <1>6, <1>7, Zenon
    <2>2. (z.users[h] # None => z.users[h].force = ~op) /\ \A g \in Invitee \ {h} : z.users[g] = d.users[g]
      BY <1>2, <1>6, <1>7
    <2>3. QED
      BY <2>1, <2>2, GoodMint
  <1>8. r \in A!PortalState /\ GoodState(r)
    BY <1>5, <1>7 DEF Minted
  <1>9. GoodState(y)
    BY <1>3, <1>5, <1>7 DEF Minted, Same
  <1>10. QED
    BY <1>4, <1>8, <1>9 DEF r, m, y

LEMMA GoodInvite ==
    ASSUME A!AccountsAssumption, NEW d \in A!PortalState, GoodState(d), NEW h \in Invitee,
           d.users[h] = None, NEW force \in BOOLEAN, NEW passkey \in BOOLEAN, NEW email \in Email, NEW r,
           Minted(A!Invited(d, h, force, passkey, email), h, ~force, r)
    PROVE  GoodState(r)
  <1> DEFINE i == A!Invited(d, h, force, passkey, email)
  <1>1. h \in A!Account /\ d.users \in Users
    BY StateFields DEF A!Account
  <1>2. /\ i \in A!PortalState /\ i.offers = d.offers /\ i.authority = d.authority
        /\ i.users = [d.users EXCEPT ![h] = NewUser(force, passkey, email)]
        /\ NewUser(force, passkey, email).force = force
    BY InvitedIs
  <1> HIDE DEF i
  <1>3. i.users[h].force = force /\ \A g \in Invitee \ {h} : i.users[g] = d.users[g]
    BY <1>1, <1>2 DEF Users
  <1>4. Minted(i, h, ~force, r)
    BY DEF i
  <1>5. /\ r.offers = [d.offers EXCEPT ![h] = NewOffer(A!Subkey(h, ~force))]
        /\ r.authority = d.authority \cup {A!Subkey(h, ~force)} /\ r.users = i.users
    BY <1>2, <1>4, Zenon DEF Minted
  <1>6. PICK op \in BOOLEAN : op = ~force
    OBVIOUS
  <1>7. /\ r.offers = [d.offers EXCEPT ![h] = NewOffer(A!Subkey(h, op))]
        /\ r.authority = d.authority \cup {A!Subkey(h, op)}
    BY <1>5, <1>6, Zenon
  <1>8. r.users[h].force = ~op /\ \A g \in Invitee \ {h} : r.users[g] = d.users[g]
    BY <1>3, <1>5, <1>6
  <1>9. QED
    BY <1>7, <1>8, GoodMint

\* The first user gets an operational offer.
LEMMA FirstIs ==
    ASSUME A!AccountsAssumption, NEW d \in A!PortalState, d.offers[First] = None, GoodState(d)
    PROVE  LET s == A!Subkey(First, TRUE)
               r == A!PutOffer(A!AdmitSubject(d, s), First, s)
           IN  OfferStep(d, r, First, NewOffer(s), {s}) /\ GoodState(r)
  <1> DEFINE s == A!Subkey(First, TRUE)
             d1 == A!AdmitSubject(d, s)
             r == A!PutOffer(d1, First, s)
  <1>1. First \in A!Account /\ s \in A!Subject
    BY SubkeyType DEF A!Account
  <1> HIDE DEF s
  <1>2. /\ d1 \in A!PortalState /\ d1.authority = d.authority \cup {s} /\ d1.users = d.users
        /\ d1.offers = d.offers /\ d1.creds = d.creds /\ d1.revoked = d.revoked
    BY <1>1, AdmitSubjectIs
  <1> HIDE DEF d1
  <1>3. /\ r \in A!PortalState /\ r.authority = d1.authority /\ r.users = d1.users
        /\ r.offers = [d1.offers EXCEPT ![First] = NewOffer(s)] /\ r.creds = d1.creds
        /\ r.revoked = d1.revoked
    BY <1>1, <1>2, PutOfferIs
  <1> HIDE DEF r
  <1>4. OfferStep(d, r, First, NewOffer(s), {s})
    BY <1>2, <1>3, Zenon DEF OfferStep
  <1>5. d.offers \in Offers
    BY StateFields
  <1>6. NewOffer(s).subject = s
    BY DEF NewOffer
  <1>7. /\ r.offers[First] = NewOffer(s) /\ r.users = d.users /\ r.authority = d.authority \cup {s}
        /\ \A a \in A!Account \ {First} : r.offers[a] = d.offers[a]
    BY <1>1, <1>4, <1>5 DEF Offers, OfferStep
  <1>8. \A h \in Invitee : r.users[h] # None => h # First
    BY <1>7 DEF GoodState
  <1>9. GoodState(r)
    BY <1>6, <1>7, <1>8 DEF GoodState, A!Account
  <1>10. QED
    BY <1>4, <1>9 DEF r, d1, s

-----------------------------------------------------------------------------
\* What holds between a replay d and the state e of the node when the ops
\* missing from the journal are about b.
Accord(d, e, b) ==
    /\ d \in A!PortalState /\ e \in A!PortalState /\ GoodState(d) /\ GoodState(e)
    /\ A!JournalLags(d, e) /\ Rebuilt(d, e, b) /\ b \subseteq Thing

\* An op that mirrors what was done keeps the accord, appended or not.
LEMMA AccordRecord ==
    ASSUME NEW d, NEW e, NEW g, NEW b, NEW op, NEW ok \in BOOLEAN, Accord(d, e, b),
           A!About(op) \in Thing, Mirror(d, e, A!ApplyReplayed(d, op), g, A!About(op)),
           A!ApplyReplayed(d, op) \in A!PortalState, GoodState(A!ApplyReplayed(d, op)),
           g \in A!PortalState, GoodState(g)
    PROVE  Accord(A!Appended(d, op, ok), g, b \cup A!Missed(op, ok))
  <1> DEFINE f == A!ApplyReplayed(d, op)
             x == A!About(op)
  <1>1. /\ \A y \in Thing \ {x} : Alike(d, f, y) /\ Alike(e, g, y)
        /\ Alike(d, e, x) => Alike(f, g, x)
        /\ A!JournalLags(e, g) /\ (A!JournalLags(d, e) => A!JournalLags(f, g))
    BY DEF Mirror
  <1>2. A!Appended(d, op, ok) = (IF ok THEN f ELSE d) /\ A!Missed(op, ok) = (IF ok THEN {} ELSE {x})
    BY DEF A!Appended, A!Missed
  <1>3. x \in Thing /\ f \in A!PortalState /\ GoodState(f)
    OBVIOUS
  <1> HIDE DEF f, x
  <1>4. CASE ok
    <2>1. Rebuilt(f, g, b)
      <3> SUFFICES ASSUME NEW y \in Thing \ b PROVE Alike(f, g, y)
        BY DEF Rebuilt
      <3>1. Alike(d, e, y)
        BY DEF Accord, Rebuilt
      <3>2. CASE y = x
        BY <1>1, <3>1, <3>2
      <3>3. CASE y # x
        <4>1. Alike(d, f, y) /\ Alike(e, g, y)
          BY <1>1, <3>3
        <4>2. QED
          BY <3>1, <4>1 DEF Alike
      <3>4. QED
        BY <3>2, <3>3
    <2>2. b \cup A!Missed(op, ok) = b /\ A!Appended(d, op, ok) = f
      BY <1>2, <1>4
    <2>3. QED
      BY <1>1, <1>3, <2>1, <2>2 DEF Accord
  <1>5. CASE ~ok
    <2>1. Rebuilt(d, g, b \cup {x})
      <3> SUFFICES ASSUME NEW y \in Thing \ (b \cup {x}) PROVE Alike(d, g, y)
        BY DEF Rebuilt
      <3>1. Alike(d, e, y) /\ Alike(e, g, y)
        BY <1>1 DEF Accord, Rebuilt
      <3>2. QED
        BY <3>1 DEF Alike
    <2>2. A!JournalLags(d, g)
      <3>1. A!JournalLags(d, e) /\ A!JournalLags(e, g)
        BY <1>1 DEF Accord
      <3>2. QED
        BY <3>1 DEF A!JournalLags
    <2>3. A!Missed(op, ok) = {x} /\ A!Appended(d, op, ok) = d
      BY <1>2, <1>5
    <2>4. QED
      BY <1>3, <2>1, <2>2, <2>3 DEF Accord
  <1>6. QED
    BY <1>4, <1>5

\* The ops, one by one.
LEMMA AccordSetUser ==
    ASSUME A!AccountsAssumption, NEW d, NEW e, NEW b, Accord(d, e, b), NEW op, NEW ok \in BOOLEAN,
           NEW h \in Invitee, NEW field, NEW value, Fits(field, value), field # "force",
           A!ApplyReplayed(d, op) = A!SetUser(d, h, field, value), A!About(op) = h
    PROVE  Accord(A!Appended(d, op, ok), A!SetUser(e, h, field, value), b \cup A!Missed(op, ok))
  <1>1. d \in A!PortalState /\ e \in A!PortalState /\ GoodState(d) /\ GoodState(e) /\ h \in Thing
    BY DEF Accord, Thing, A!Account
  <1>2. /\ Mirror(d, e, A!SetUser(d, h, field, value), A!SetUser(e, h, field, value), h)
        /\ A!SetUser(d, h, field, value) \in A!PortalState
        /\ A!SetUser(e, h, field, value) \in A!PortalState
    BY <1>1, MirrorSetUser
  <1>3. GoodState(A!SetUser(d, h, field, value)) /\ GoodState(A!SetUser(e, h, field, value))
    BY <1>1, GoodSetUser
  <1>4. QED
    BY <1>1, <1>2, <1>3, AccordRecord

LEMMA AccordEnroll ==
    ASSUME NEW d, NEW e, NEW b, Accord(d, e, b), NEW ok \in BOOLEAN, NEW c \in Passkey, NEW s \in A!Subject
    PROVE  LET op == [type |-> "WebauthnEnroll", cred |-> c, subject |-> s]
           IN  Accord(A!Appended(d, op, ok), A!Enrolled(e, c, s), b \cup A!Missed(op, ok))
  <1> DEFINE op == [type |-> "WebauthnEnroll", cred |-> c, subject |-> s]
  <1>1. d \in A!PortalState /\ e \in A!PortalState /\ GoodState(d) /\ GoodState(e) /\ c \in Thing
    BY DEF Accord, Thing
  <1>2. A!ApplyReplayed(d, op) = A!Enrolled(d, c, s) /\ A!About(op) = c
    BY DEF A!ApplyReplayed, A!About
  <1> HIDE DEF op
  <1>3. \A q \in A!PortalState : GoodState(q) =>
           A!Enrolled(q, c, s) \in A!PortalState /\ GoodState(A!Enrolled(q, c, s))
    <2> SUFFICES ASSUME NEW q \in A!PortalState, GoodState(q)
                 PROVE  A!Enrolled(q, c, s) \in A!PortalState /\ GoodState(A!Enrolled(q, c, s))
      OBVIOUS
    <2> DEFINE z == A!Enrolled(q, c, s)
    <2>1. /\ z \in A!PortalState /\ z.users = q.users /\ z.offers = q.offers
          /\ z.authority = q.authority
      BY EnrolledIs
    <2> HIDE DEF z
    <2>2. z \in A!PortalState /\ GoodState(z)
      BY <2>1, GoodUntouched
    <2>3. QED
      BY <2>2 DEF z
  <1>4. Mirror(d, e, A!Enrolled(d, c, s), A!Enrolled(e, c, s), c)
    BY <1>1, MirrorEnrolled
  <1>5. Accord(A!Appended(d, op, ok), A!Enrolled(e, c, s), b \cup A!Missed(op, ok))
    BY <1>1, <1>2, <1>3, <1>4, AccordRecord
  <1>6. QED
    BY <1>5 DEF op

LEMMA AccordRevokeCred ==
    ASSUME NEW d, NEW e, NEW b, Accord(d, e, b), NEW ok \in BOOLEAN, NEW c \in Passkey
    PROVE  LET op == [type |-> "WebauthnRevoke", cred |-> c]
           IN  Accord(A!Appended(d, op, ok), A!RevokeCred(e, c), b \cup A!Missed(op, ok))
  <1> DEFINE op == [type |-> "WebauthnRevoke", cred |-> c]
  <1>1. d \in A!PortalState /\ e \in A!PortalState /\ GoodState(d) /\ GoodState(e) /\ c \in Thing
    BY DEF Accord, Thing
  <1>2. A!ApplyReplayed(d, op) = A!RevokeCred(d, c) /\ A!About(op) = c
    BY DEF A!ApplyReplayed, A!About
  <1> HIDE DEF op
  <1>3. \A q \in A!PortalState : GoodState(q) =>
           A!RevokeCred(q, c) \in A!PortalState /\ GoodState(A!RevokeCred(q, c))
    <2> SUFFICES ASSUME NEW q \in A!PortalState, GoodState(q)
                 PROVE  A!RevokeCred(q, c) \in A!PortalState /\ GoodState(A!RevokeCred(q, c))
      OBVIOUS
    <2> DEFINE z == A!RevokeCred(q, c)
    <2>1. /\ z \in A!PortalState /\ z.users = q.users /\ z.offers = q.offers
          /\ z.authority = q.authority
      BY RevokeCredIs
    <2> HIDE DEF z
    <2>2. z \in A!PortalState /\ GoodState(z)
      BY <2>1, GoodUntouched
    <2>3. QED
      BY <2>2 DEF z
  <1>4. Mirror(d, e, A!RevokeCred(d, c), A!RevokeCred(e, c), c)
    BY <1>1, MirrorRevokeCred
  <1>5. Accord(A!Appended(d, op, ok), A!RevokeCred(e, c), b \cup A!Missed(op, ok))
    BY <1>1, <1>2, <1>3, <1>4, AccordRecord
  <1>6. QED
    BY <1>5 DEF op

LEMMA AccordPassword ==
    ASSUME A!AccountsAssumption, NEW d, NEW e, NEW b, Accord(d, e, b), NEW ok \in BOOLEAN,
           NEW h \in Invitee, NEW force \in BOOLEAN
    PROVE  LET op == [type |-> "PasswordSet", handle |-> h, force |-> force]
           IN  Accord(A!Appended(d, op, ok), A!SetUser(A!MintOffer(e, h, ~force), h, "force", force),
                      b \cup A!Missed(op, ok))
  <1> DEFINE op == [type |-> "PasswordSet", handle |-> h, force |-> force]
             f == A!RestoreMinted(A!SetUser(d, h, "force", force), h, ~force)
             g == A!SetUser(A!MintOffer(e, h, ~force), h, "force", force)
  <1>1. d \in A!PortalState /\ e \in A!PortalState /\ GoodState(d) /\ GoodState(e) /\ h \in Thing
    BY DEF Accord, Thing, A!Account
  <1>2. A!ApplyReplayed(d, op) = f /\ A!About(op) = h
    BY DEF A!ApplyReplayed, A!About
  <1>3. f \in A!PortalState /\ GoodState(f) /\ g \in A!PortalState /\ GoodState(g)
    BY <1>1, GoodPassword
  <1>4. Mirror(d, e, f, g, h)
    BY <1>1, MirrorPassword
  <1> HIDE DEF op, f, g
  <1>5. Accord(A!Appended(d, op, ok), g, b \cup A!Missed(op, ok))
    BY <1>1, <1>2, <1>3, <1>4, AccordRecord
  <1>6. QED
    BY <1>5 DEF op, g

LEMMA AccordRequireChange ==
    ASSUME A!AccountsAssumption, NEW d, NEW e, NEW b, Accord(d, e, b), NEW ok \in BOOLEAN, NEW h \in Invitee
    PROVE  LET op == [type |-> "RequireChange", handle |-> h]
           IN  Accord(A!Appended(d, op, ok), A!RevokeOffer(A!SetUser(e, h, "force", TRUE), h),
                      b \cup A!Missed(op, ok))
  <1> DEFINE op == [type |-> "RequireChange", handle |-> h]
             d1 == A!SetUser(d, h, "force", TRUE)
             e1 == A!SetUser(e, h, "force", TRUE)
             f == A!RevokeOffer(d1, h)
             g == A!RevokeOffer(e1, h)
  <1>1. d \in A!PortalState /\ e \in A!PortalState /\ GoodState(d) /\ GoodState(e)
        /\ h \in Thing /\ h \in A!Account
    BY DEF Accord, Thing, A!Account
  <1>2. A!ApplyReplayed(d, op) = f /\ A!About(op) = h
    BY DEF A!ApplyReplayed, A!About
  <1>3. f \in A!PortalState /\ GoodState(f) /\ g \in A!PortalState /\ GoodState(g)
    BY <1>1, GoodRequireChange
  <1>4. Mirror(d, e, d1, e1, h) /\ d1 \in A!PortalState /\ e1 \in A!PortalState
    <2>1. Fits("force", TRUE)
      BY FieldsFit
    <2>2. QED
      BY <1>1, <2>1, MirrorSetUser
  <1> HIDE DEF op, d1, e1
  <1>5. Mirror(d1, e1, f, g, h)
    BY <1>1, <1>4, MirrorRevokeOffer
  <1> HIDE DEF f, g
  <1>6. Mirror(d, e, f, g, h)
    BY <1>4, <1>5, MirrorTrans
  <1>7. Accord(A!Appended(d, op, ok), g, b \cup A!Missed(op, ok))
    BY <1>1, <1>2, <1>3, <1>6, AccordRecord
  <1>8. QED
    BY <1>7 DEF op, g, e1

LEMMA AccordInvite ==
    ASSUME A!AccountsAssumption, NEW d, NEW e, NEW b, Accord(d, e, b), NEW ok \in BOOLEAN, NEW h \in Invitee,
           e.users[h] = None, NEW force \in BOOLEAN, NEW passkey \in BOOLEAN, NEW email \in Email
    PROVE  LET op == [type |-> "Invite", handle |-> h, force |-> force, passkey |-> passkey, email |-> email]
           IN  Accord(A!Appended(d, op, ok),
                      A!MintOffer(A!Invited(e, h, force, passkey, email), h, ~force),
                      b \cup A!Missed(op, ok))
  <1> DEFINE op == [type |-> "Invite", handle |-> h, force |-> force, passkey |-> passkey, email |-> email]
             d1 == A!Invited(d, h, force, passkey, email)
             e1 == A!Invited(e, h, force, passkey, email)
             f == A!RestoreMinted(d1, h, ~force)
             g == A!MintOffer(e1, h, ~force)
  <1>1. d \in A!PortalState /\ e \in A!PortalState /\ GoodState(d) /\ GoodState(e)
        /\ h \in Thing /\ h \in A!Account /\ d.users[h] = None
    BY DEF Accord, Thing, A!Account, A!JournalLags, A!Known
  <1>2. A!ApplyReplayed(d, op) = f /\ A!About(op) = h
    BY DEF A!ApplyReplayed, A!About
  <1>3. d1 \in A!PortalState /\ e1 \in A!PortalState
    BY <1>1, InvitedIs
  <1>4. Minted(d1, h, ~force, f) /\ Minted(e1, h, ~force, g)
    BY <1>1, <1>3, MintOfferIs
  <1>5. GoodState(f) /\ GoodState(g)
    BY <1>1, <1>4, GoodInvite
  <1>6. Mirror(d, e, d1, e1, h)
    BY <1>1, MirrorInvited
  <1> HIDE DEF op, d1, e1
  <1>7. Mirror(d1, e1, f, g, h)
    BY <1>1, <1>3, MirrorMint
  <1> HIDE DEF f, g
  <1>8. Mirror(d, e, f, g, h)
    BY <1>6, <1>7, MirrorTrans
  <1>9. Accord(A!Appended(d, op, ok), g, b \cup A!Missed(op, ok))
    BY <1>1, <1>2, <1>4, <1>5, <1>8, AccordRecord DEF Minted
  <1>10. QED
    BY <1>9 DEF op, g, e1

LEMMA AccordBootstrap ==
    ASSUME A!AccountsAssumption, NEW d, NEW e, NEW b, Accord(d, e, b), NEW ok \in BOOLEAN,
           e.offers[First] = None
    PROVE  LET op == [type |-> "Bootstrap"]
               s == A!Subkey(First, TRUE)
               g == [A!PutOffer(A!AdmitSubject(e, s), First, s) EXCEPT !.exporters = @ \cup {First}]
           IN  Accord(A!Appended(d, op, ok), g, b \cup A!Missed(op, ok))
  <1> DEFINE op == [type |-> "Bootstrap"]
             s == A!Subkey(First, TRUE)
             p == A!PutOffer(A!AdmitSubject(e, s), First, s)
             g == [p EXCEPT !.exporters = @ \cup {First}]
             f == A!ApplyReplayed(d, op)
  <1>1. d \in A!PortalState /\ e \in A!PortalState /\ GoodState(d) /\ GoodState(e)
        /\ First \in Thing /\ First \in A!Account /\ s.handle = First
    BY DEF Accord, Thing, A!Account, A!Subkey
  <1>2. A!About(op) = First
    BY DEF A!About
  <1>3. OfferStep(e, p, First, NewOffer(s), {s}) /\ GoodState(p)
    BY <1>1, FirstIs
  <1>4. d.offers[First] = None => OfferStep(d, f, First, NewOffer(s), {s}) /\ GoodState(f)
    <2>1. d.offers[First] = None => f = A!PutOffer(A!AdmitSubject(d, s), First, s)
      BY DEF A!ApplyReplayed
    <2> HIDE DEF f
    <2>2. QED
      BY <1>1, <2>1, FirstIs
  <1>5. d.offers[First] # None => f = d
    BY DEF A!ApplyReplayed
  <1> HIDE DEF p
  <1>6. p \in A!PortalState
    BY <1>3 DEF OfferStep
  <1>7. /\ g \in A!PortalState /\ g.users = p.users /\ g.offers = p.offers /\ g.authority = p.authority
        /\ g.creds = p.creds /\ g.revoked = p.revoked
    BY <1>1, <1>6, StateFields
  <1> HIDE DEF g, f, s, op
  <1>8. OfferStep(e, g, First, NewOffer(s), {s}) /\ GoodState(g)
    <2>1. OfferStep(e, g, First, NewOffer(s), {s})
      BY <1>3, <1>7 DEF OfferStep
    <2>2. QED
      BY <1>3, <1>7, <2>1, GoodUntouched
  <1>9. d.offers \in Offers
    BY <1>1, StateFields
  <1>10. /\ f \in A!PortalState /\ GoodState(f) /\ Mirror(d, e, f, g, First)
    <2> DEFINE u == {s}
    <2>1. OfferStep(e, g, First, NewOffer(s), u) /\ \A z \in u : z.handle = First
      BY <1>1, <1>8
    <2>2. CASE d.offers[First] = None
      <3>1. OfferStep(d, f, First, NewOffer(s), u) /\ GoodState(f)
        BY <1>4, <2>2
      <3> HIDE DEF u
      <3>2. Mirror(d, e, f, g, First)
        BY <1>1, <2>1, <3>1, MirrorOffer
      <3>3. QED
        BY <3>1, <3>2 DEF OfferStep
    <2>3. CASE d.offers[First] # None
      <3>1. d.offers = [d.offers EXCEPT ![First] = d.offers[First]]
        BY <1>1, <1>9 DEF Offers
      <3>2. OfferStep(d, f, First, d.offers[First], {})
        BY <1>1, <1>5, <2>3, <3>1 DEF OfferStep
      <3> HIDE DEF u
      <3>3. Mirror(d, e, f, g, First)
        BY <1>1, <2>1, <2>3, <3>2, MirrorOffer
      <3>4. QED
        BY <1>1, <1>5, <2>3, <3>3
    <2>4. QED
      BY <2>2, <2>3
  <1>11. Accord(A!Appended(d, op, ok), g, b \cup A!Missed(op, ok))
    BY <1>1, <1>2, <1>7, <1>8, <1>10, AccordRecord DEF f
  <1>12. QED
    BY <1>11 DEF op, g, p, s

-----------------------------------------------------------------------------
\* The inductive invariant of the accounts: the replay of the journal accords
\* with the live state up to what is behind, and both states are good.
Accounted ==
    /\ Accord(replayed, live, behind) /\ failed \in 0..MaxLost
    /\ sessions \subseteq A!Subject /\ parked \subseteq A!Subject

LEMMA AccountedGives ==
    Accounted => A!AccountsInv /\ A!ReplayMatchesLive
  <1> SUFFICES ASSUME Accounted PROVE A!AccountsInv /\ A!ReplayMatchesLive
    OBVIOUS
  <1>1. A!TypeOK
    BY DEF Accounted, Accord, A!TypeOK, Thing
  <1>2. A!ReplayMatchesLive
    BY RebuiltIs DEF Accounted, Accord, A!ReplayMatchesLive
  <1>3. QED
    BY <1>1, <1>2, AccountsInvIs DEF Accounted, Accord

LEMMA AccountedNext ==
    ASSUME Accord(replayed', live', behind'), failed' \in 0..MaxLost, sessions' \subseteq A!Subject,
           parked' \subseteq A!Subject
    PROVE  Accounted'
  BY DEF Accounted, Accord, Rebuilt, Alike, GoodState, A!JournalLags, A!Known, A!Authorised

LEMMA AccountedInit ==
    ASSUME A!AccountsAssumption, A!Init PROVE Accounted
  <1> DEFINE e == A!EmptyPortal
  <1>1. /\ e.users = [h \in Invitee |-> None] /\ e.offers = [a \in A!Account |-> None]
        /\ e.authority = {} /\ e.creds = [c \in Passkey |-> None] /\ e.revoked = {} /\ e.exporters = {}
        /\ e = [users |-> e.users, offers |-> e.offers, authority |-> e.authority,
                creds |-> e.creds, revoked |-> e.revoked, exporters |-> e.exporters]
    BY DEF A!EmptyPortal
  <1> HIDE DEF e
  <1>2. e \in A!PortalState
    <2>1. e.users \in Users /\ e.offers \in Offers /\ e.creds \in Creds
      BY <1>1 DEF Users, Offers, Creds
    <2>2. QED
      BY <1>1, <2>1, StateFields
  <1>3. GoodState(e)
    BY <1>1 DEF GoodState, A!Account
  <1>4. live = e /\ replayed = e /\ behind = {} /\ failed = 0 /\ sessions = {} /\ parked = {}
    BY DEF A!Init, e
  <1>5. Accord(e, e, {})
    BY <1>2, <1>3 DEF Accord, Rebuilt, Alike, A!JournalLags
  <1>6. 0 \in 0..MaxLost
    BY DEF A!AccountsAssumption
  <1>7. QED
    BY <1>4, <1>5, <1>6 DEF Accounted

\* record() of one op and of two.
LEMMA RecordIs ==
    ASSUME A!AccountsAssumption, Accounted, NEW op, A!Record(op)
    PROVE  \E ok \in BOOLEAN :
              /\ replayed' = A!Appended(replayed, op, ok) /\ behind' = behind \cup A!Missed(op, ok)
              /\ failed' \in 0..MaxLost
  <1>1. failed \in 0..MaxLost /\ MaxLost \in Nat /\ \A ok \in BOOLEAN : A!Count(ok) \in {0, 1}
    BY DEF Accounted, A!AccountsAssumption, A!Count
  <1>2. QED
    BY <1>1 DEF A!Record

LEMMA Record2Is ==
    ASSUME A!AccountsAssumption, Accounted, NEW op1, NEW op2, A!Record2(op1, op2)
    PROVE  \E ok1, ok2 \in BOOLEAN :
              /\ replayed' = A!Appended(A!Appended(replayed, op1, ok1), op2, ok2)
              /\ behind' = (behind \cup A!Missed(op1, ok1)) \cup A!Missed(op2, ok2)
              /\ failed' \in 0..MaxLost
  <1>1. failed \in 0..MaxLost /\ MaxLost \in Nat /\ \A ok \in BOOLEAN : A!Count(ok) \in {0, 1}
    BY DEF Accounted, A!AccountsAssumption, A!Count
  <1>2. QED
    BY <1>1 DEF A!Record2

LEMMA AccountedStep ==
    ASSUME A!AccountsAssumption, Accounted, A!Next
    PROVE  Accounted'
  <1>1. /\ live \in A!PortalState /\ replayed \in A!PortalState /\ GoodState(live)
        /\ Accord(replayed, live, behind) /\ failed \in 0..MaxLost
        /\ sessions \subseteq A!Subject /\ parked \subseteq A!Subject
    BY DEF Accounted, Accord
  <1>2. ASSUME UNCHANGED <<live, replayed, behind, failed>>, sessions' \subseteq A!Subject,
               parked' \subseteq A!Subject
        PROVE  Accounted'
    BY <1>1, <1>2, AccountedNext
  <1>3. ASSUME A!Bootstrap PROVE Accounted'
    <2>1. PICK ok \in BOOLEAN :
             /\ replayed' = A!Appended(replayed, [type |-> "Bootstrap"], ok)
             /\ behind' = behind \cup A!Missed([type |-> "Bootstrap"], ok) /\ failed' \in 0..MaxLost
      BY <1>3, RecordIs DEF A!Bootstrap
    <2>2. Accord(replayed', live', behind')
      BY <1>1, <1>3, <2>1, AccordBootstrap DEF A!Bootstrap
    <2>3. QED
      BY <1>1, <1>3, <2>1, <2>2, AccountedNext DEF A!Bootstrap
  <1>4. ASSUME NEW a \in A!Account, A!Login(a) PROVE Accounted'
    <2>1. live.offers[a].subject \in A!Subject
      BY <1>1, <1>4, StateFields DEF A!Login
    <2>2. /\ UNCHANGED <<live, replayed, behind, failed>>
          /\ sessions' \subseteq A!Subject /\ parked' \subseteq A!Subject
      BY <1>1, <1>4, <2>1 DEF A!Login
    <2>3. QED
      BY <1>2, <2>2
  <1>5. ASSUME NEW s \in parked, NEW c \in Passkey, A!AssertSecondFactor(s, c) PROVE Accounted'
    BY <1>1, <1>2, <1>5 DEF A!AssertSecondFactor
  <1>6. ASSUME NEW s \in sessions \cup parked, NEW c \in Passkey, A!RegisterPasskey(s, c)
        PROVE  Accounted'
    <2> DEFINE op1 == [type |-> "WebauthnEnroll", cred |-> c, subject |-> s]
               op2 == [type |-> "PasskeyEnrolled", handle |-> s.handle]
               e == A!Enrolled(live, c, s)
    <2>1. s \in A!Subject
      BY <1>1
    <2>2. \A ok \in BOOLEAN : Accord(A!Appended(replayed, op1, ok), e, behind \cup A!Missed(op1, ok))
      BY <1>1, <2>1, AccordEnroll
    <2>3. sessions' = sessions /\ parked' = parked
      BY <1>6 DEF A!RegisterPasskey
    <2>4. \/ live' = e /\ A!Record(op1)
          \/ s.handle \in Invitee /\ live' = A!SetUser(e, s.handle, "passkey", FALSE) /\ A!Record2(op1, op2)
      BY <1>6 DEF A!RegisterPasskey
    <2> HIDE DEF op1, e
    <2>5. CASE live' = e /\ A!Record(op1)
      <3>1. PICK ok \in BOOLEAN :
               /\ replayed' = A!Appended(replayed, op1, ok) /\ behind' = behind \cup A!Missed(op1, ok)
               /\ failed' \in 0..MaxLost
        BY <2>5, RecordIs
      <3>2. Accord(replayed', live', behind')
        BY <2>2, <2>5, <3>1
      <3>3. QED
        BY <1>1, <2>3, <3>1, <3>2, AccountedNext
    <2>6. CASE s.handle \in Invitee /\ live' = A!SetUser(e, s.handle, "passkey", FALSE)
               /\ A!Record2(op1, op2)
      <3>1. PICK h \in Invitee : h = s.handle
        BY <2>6
      <3>2. /\ \A d : A!ApplyReplayed(d, op2) = A!SetUser(d, h, "passkey", FALSE)
            /\ A!About(op2) = h
        BY <3>1 DEF A!ApplyReplayed, A!About
      <3> HIDE DEF op2
      <3>3. PICK ok1 \in BOOLEAN, ok2 \in BOOLEAN :
               /\ replayed' = A!Appended(A!Appended(replayed, op1, ok1), op2, ok2)
               /\ behind' = (behind \cup A!Missed(op1, ok1)) \cup A!Missed(op2, ok2)
               /\ failed' \in 0..MaxLost
        BY <2>6, Record2Is
      <3> DEFINE d == A!Appended(replayed, op1, ok1)
                 b == behind \cup A!Missed(op1, ok1)
      <3>4. Accord(d, e, b)
        BY <2>2
      <3>5. Fits("passkey", FALSE)
        BY FieldsFit
      <3>6. A!ApplyReplayed(d, op2) = A!SetUser(d, h, "passkey", FALSE) /\ live' = A!SetUser(e, h, "passkey", FALSE)
        BY <2>6, <3>1, <3>2
      <3>7. replayed' = A!Appended(d, op2, ok2) /\ behind' = b \cup A!Missed(op2, ok2)
        BY <3>3
      <3> HIDE DEF d, b
      <3>8. Accord(A!Appended(d, op2, ok2), A!SetUser(e, h, "passkey", FALSE), b \cup A!Missed(op2, ok2))
        BY <3>2, <3>4, <3>5, <3>6, AccordSetUser
      <3>9. Accord(replayed', live', behind')
        BY <3>6, <3>7, <3>8
      <3>10. QED
        BY <1>1, <2>3, <3>3, <3>9, AccountedNext
    <2>7. QED
      BY <2>4, <2>5, <2>6
  <1>7. ASSUME NEW s \in sessions, NEW c \in Passkey, A!RevokePasskey(s, c) PROVE Accounted'
    <2>1. PICK ok \in BOOLEAN :
             /\ replayed' = A!Appended(replayed, [type |-> "WebauthnRevoke", cred |-> c], ok)
             /\ behind' = behind \cup A!Missed([type |-> "WebauthnRevoke", cred |-> c], ok)
             /\ failed' \in 0..MaxLost
      BY <1>7, RecordIs DEF A!RevokePasskey
    <2>2. live' = A!RevokeCred(live, c) /\ sessions' = sessions /\ parked' = parked
      BY <1>7 DEF A!RevokePasskey
    <2>3. Accord(replayed', live', behind')
      BY <1>1, <2>1, <2>2, AccordRevokeCred
    <2>4. QED
      BY <1>1, <2>1, <2>2, <2>3, AccountedNext
  <1>8. ASSUME NEW s \in sessions, A!Logout(s) PROVE Accounted'
    BY <1>1, <1>2, <1>8 DEF A!Logout
  <1>9. ASSUME NEW h \in Invitee, NEW force \in BOOLEAN,
               live' = A!SetUser(A!MintOffer(live, h, ~force), h, "force", force),
               A!Record([type |-> "PasswordSet", handle |-> h, force |-> force]),
               sessions' = sessions, parked' = parked
        PROVE  Accounted'
    <2> DEFINE op == [type |-> "PasswordSet", handle |-> h, force |-> force]
    <2>1. PICK ok \in BOOLEAN :
             /\ replayed' = A!Appended(replayed, op, ok) /\ behind' = behind \cup A!Missed(op, ok)
             /\ failed' \in 0..MaxLost
      BY <1>9, RecordIs
    <2>2. Accord(A!Appended(replayed, op, ok), live', behind \cup A!Missed(op, ok))
      BY <1>1, <1>9, AccordPassword
    <2> HIDE DEF op
    <2>3. Accord(replayed', live', behind')
      BY <2>1, <2>2
    <2>4. QED
      BY <1>1, <1>9, <2>1, <2>3, AccountedNext
  <1>10. ASSUME NEW s \in sessions, A!ChangePassword(s) PROVE Accounted'
    <2>1. PICK h \in Invitee : h = s.handle
      BY <1>10 DEF A!ChangePassword
    <2>2. PICK force \in BOOLEAN : force = FALSE
      OBVIOUS
    <2>3. /\ live' = A!SetUser(A!MintOffer(live, h, TRUE), h, "force", FALSE)
          /\ A!Record([type |-> "PasswordSet", handle |-> h, force |-> FALSE])
          /\ sessions' = sessions /\ parked' = parked
      BY <1>10, <2>1 DEF A!ChangePassword
    <2>4. (~force) = TRUE
      BY <2>2
    <2>5. /\ live' = A!SetUser(A!MintOffer(live, h, ~force), h, "force", force)
          /\ A!Record([type |-> "PasswordSet", handle |-> h, force |-> force])
      BY <2>2, <2>3, <2>4, Zenon
    <2>6. QED
      BY <1>9, <2>3, <2>5, Zenon
  <1>11. ASSUME NEW h \in Invitee, A!ResetPassword(h) PROVE Accounted'
    <2>1. PICK force \in BOOLEAN : force = TRUE
      OBVIOUS
    <2>2. /\ live' = A!SetUser(A!MintOffer(live, h, FALSE), h, "force", TRUE)
          /\ A!Record([type |-> "PasswordSet", handle |-> h, force |-> TRUE])
          /\ sessions' = sessions /\ parked' = parked
      BY <1>11 DEF A!ResetPassword
    <2>3. (~force) = FALSE
      BY <2>1
    <2>4. /\ live' = A!SetUser(A!MintOffer(live, h, ~force), h, "force", force)
          /\ A!Record([type |-> "PasswordSet", handle |-> h, force |-> force])
      BY <2>1, <2>2, <2>3, Zenon
    <2>5. QED
      BY <1>9, <2>2, <2>4, Zenon
  <1>12. ASSUME NEW h \in Invitee, NEW field, NEW value, Fits(field, value), field # "force", NEW op,
                live' = A!SetUser(live, h, field, value), A!Record(op), A!About(op) = h,
                A!ApplyReplayed(replayed, op) = A!SetUser(replayed, h, field, value),
                sessions' \subseteq A!Subject, parked' = parked
         PROVE  Accounted'
    <2>1. PICK ok \in BOOLEAN :
             /\ replayed' = A!Appended(replayed, op, ok) /\ behind' = behind \cup A!Missed(op, ok)
             /\ failed' \in 0..MaxLost
      BY <1>12, RecordIs
    <2>2. Accord(A!Appended(replayed, op, ok), A!SetUser(live, h, field, value), behind \cup A!Missed(op, ok))
      BY <1>1, <1>12, AccordSetUser
    <2>3. Accord(replayed', live', behind')
      BY <1>12, <2>1, <2>2
    <2>4. QED
      BY <1>1, <1>12, <2>1, <2>3, AccountedNext
  <1>13. ASSUME NEW s \in sessions, NEW email \in Email, A!UpdateProfile(s, email) PROVE Accounted'
    <2>1. PICK h \in Invitee : h = s.handle
      BY <1>13 DEF A!UpdateProfile
    <2> DEFINE op == [type |-> "UserProfileSet", handle |-> h, email |-> email]
    <2>2. /\ live' = A!SetUser(live, h, "email", email) /\ A!Record(op)
          /\ sessions' = sessions /\ parked' = parked
      BY <1>13, <2>1 DEF A!UpdateProfile
    <2>3. A!ApplyReplayed(replayed, op) = A!SetUser(replayed, h, "email", email) /\ A!About(op) = h
      BY DEF A!ApplyReplayed, A!About
    <2>4. Fits("email", email)
      BY FieldsFit
    <2> HIDE DEF op
    <2>5. QED
      BY <1>1, <1>12, <2>2, <2>3, <2>4
  <1>14. ASSUME NEW a \in A!Account, NEW h \in Invitee, A!Disable(a, h) \/ A!Enable(a, h)
         PROVE  Accounted'
    <2>1. PICK st \in {"Invited", "Active", "Disabled"} :
             /\ live' = A!SetUser(live, h, "status", st)
             /\ A!Record([type |-> "UserStatusSet", handle |-> h, status |-> st])
             /\ sessions' \subseteq sessions /\ parked' = parked
      <3>1. CASE A!Disable(a, h)
        BY <3>1 DEF A!Disable
      <3>2. CASE A!Enable(a, h)
        BY <3>2 DEF A!Enable
      <3>3. QED
        BY <1>14, <3>1, <3>2
    <2> DEFINE op == [type |-> "UserStatusSet", handle |-> h, status |-> st]
    <2>2. A!ApplyReplayed(replayed, op) = A!SetUser(replayed, h, "status", st) /\ A!About(op) = h
      BY DEF A!ApplyReplayed, A!About
    <2>3. Fits("status", st)
      BY FieldsFit
    <2>4. A!Record(op)
      BY <2>1
    <2> HIDE DEF op
    <2>5. QED
      BY <1>1, <1>12, <2>1, <2>2, <2>3, <2>4
  <1>15. ASSUME NEW a \in A!Account, NEW h \in Invitee, A!RequireChange(a, h) PROVE Accounted'
    <2> DEFINE op == [type |-> "RequireChange", handle |-> h]
    <2>1. /\ live' = A!RevokeOffer(A!SetUser(live, h, "force", TRUE), h) /\ A!Record(op)
          /\ sessions' = sessions /\ parked' = parked
      BY <1>15 DEF A!RequireChange
    <2>2. PICK ok \in BOOLEAN :
             /\ replayed' = A!Appended(replayed, op, ok) /\ behind' = behind \cup A!Missed(op, ok)
             /\ failed' \in 0..MaxLost
      BY <2>1, RecordIs
    <2>3. Accord(A!Appended(replayed, op, ok), live', behind \cup A!Missed(op, ok))
      BY <1>1, <2>1, AccordRequireChange
    <2> HIDE DEF op
    <2>4. Accord(replayed', live', behind')
      BY <2>2, <2>3
    <2>5. QED
      BY <1>1, <2>1, <2>2, <2>4, AccountedNext
  <1>16. ASSUME NEW a \in A!Account, NEW h \in Invitee, NEW email \in Email, NEW force \in BOOLEAN,
                NEW passkey \in BOOLEAN, NEW verified \in BOOLEAN,
                A!Invite(a, h, force, passkey, email, verified)
         PROVE  Accounted'
    <2> DEFINE op1 == [type |-> "Invite", handle |-> h, force |-> force, passkey |-> passkey, email |-> email]
               op2 == [type |-> "EmailVerified", handle |-> h]
               e == A!MintOffer(A!Invited(live, h, force, passkey, email), h, ~force)
    <2>1. live.users[h] = None
      BY <1>16 DEF A!Invite, A!Known
    <2>2. \A ok \in BOOLEAN : Accord(A!Appended(replayed, op1, ok), e, behind \cup A!Missed(op1, ok))
      BY <1>1, <2>1, AccordInvite
    <2>3. /\ \/ live' = e /\ A!Record(op1)
             \/ live' = A!SetUser(e, h, "verified", TRUE) /\ A!Record2(op1, op2)
          /\ sessions' = sessions /\ parked' = parked
      BY <1>16 DEF A!Invite
    <2>4. (\A d : A!ApplyReplayed(d, op2) = A!SetUser(d, h, "verified", TRUE)) /\ A!About(op2) = h
      BY DEF A!ApplyReplayed, A!About
    <2> HIDE DEF op1, op2, e
    <2>5. CASE live' = e /\ A!Record(op1)
      <3>1. PICK ok \in BOOLEAN :
               /\ replayed' = A!Appended(replayed, op1, ok) /\ behind' = behind \cup A!Missed(op1, ok)
               /\ failed' \in 0..MaxLost
        BY <2>5, RecordIs
      <3>2. Accord(replayed', live', behind')
        BY <2>2, <2>5, <3>1
      <3>3. QED
        BY <1>1, <2>3, <3>1, <3>2, AccountedNext
    <2>6. CASE live' = A!SetUser(e, h, "verified", TRUE) /\ A!Record2(op1, op2)
      <3>1. PICK ok1 \in BOOLEAN, ok2 \in BOOLEAN :
               /\ replayed' = A!Appended(A!Appended(replayed, op1, ok1), op2, ok2)
               /\ behind' = (behind \cup A!Missed(op1, ok1)) \cup A!Missed(op2, ok2)
               /\ failed' \in 0..MaxLost
        BY <2>6, Record2Is
      <3> DEFINE d == A!Appended(replayed, op1, ok1)
                 b == behind \cup A!Missed(op1, ok1)
      <3>2. Accord(d, e, b)
        BY <2>2
      <3>3. Fits("verified", TRUE)
        BY FieldsFit
      <3>4. A!ApplyReplayed(d, op2) = A!SetUser(d, h, "verified", TRUE)
        BY <2>4
      <3>5. replayed' = A!Appended(d, op2, ok2) /\ behind' = b \cup A!Missed(op2, ok2)
        BY <3>1
      <3> HIDE DEF d, b
      <3>6. Accord(A!Appended(d, op2, ok2), A!SetUser(e, h, "verified", TRUE), b \cup A!Missed(op2, ok2))
        BY <2>4, <3>2, <3>3, <3>4, AccordSetUser
      <3>7. Accord(replayed', live', behind')
        BY <2>6, <3>5, <3>6
      <3>8. QED
        BY <1>1, <2>3, <3>1, <3>7, AccountedNext
    <2>7. QED
      BY <2>3, <2>5, <2>6
  <1>17. ASSUME A!Restart PROVE Accounted'
    <2>1. /\ live' = replayed /\ replayed' = replayed /\ behind' = {} /\ failed' = failed
          /\ sessions' = {} /\ parked' = {}
      BY <1>17 DEF A!Restart
    <2>2. Accord(replayed, replayed, {})
      BY <1>1 DEF Accord, Rebuilt, Alike, A!JournalLags
    <2>3. Accord(replayed', live', behind')
      BY <2>1, <2>2
    <2>4. QED
      BY <1>1, <2>1, <2>3, AccountedNext
  <1>18. QED
    <2>1. \A h \in Invitee : A!ForgotPassword(h) => A!ResetPassword(h)
      BY DEF A!ForgotPassword
    <2>2. \A a \in A!Account, h \in Invitee : A!AdminReset(a, h) => A!ResetPassword(h)
      BY DEF A!AdminReset
    <2>3. QED
      BY <1>3, <1>4, <1>5, <1>6, <1>7, <1>8, <1>10, <1>11, <1>13, <1>14, <1>15, <1>16, <1>17,
         <2>1, <2>2 DEF A!Next

LEMMA AccountedUnchanged ==
    ASSUME Accounted, UNCHANGED A!vars PROVE Accounted'
  BY AccountedNext DEF Accounted, A!vars

\* Whatever the order of invitations, resets, forced changes, passkeys, failed
\* appends and restarts, nobody under a forced change can act and nobody is
\* locked out.
THEOREM AccountsInvariant ==
    ASSUME A!AccountsAssumption PROVE A!Spec => []AccountsInv
  <1>1. Accounted => AccountsInv
    BY AccountedGives DEF AccountsInv
  <1>2. QED
    BY <1>1, AccountedInit, AccountedStep, AccountedUnchanged, PTL DEF A!Spec

\* The portal journal is complete for accounts: in every reachable state its
\* replay rebuilds every account and credential none of whose appends failed,
\* the key-export role excepted, and adds nothing to the others.
THEOREM ReplayInvariant ==
    ASSUME A!AccountsAssumption PROVE A!Spec => []ReplayMatchesLive
  <1>1. Accounted => ReplayMatchesLive
    BY AccountedGives DEF ReplayMatchesLive
  <1>2. QED
    BY <1>1, AccountedInit, AccountedStep, AccountedUnchanged, PTL DEF A!Spec

-----------------------------------------------------------------------------
(***************************************************************************)
(* Governance.  That signers are within the trust graph needs the depth of *)
(* the graph to grow with its edges, an induction over rounds that stays   *)
(* with TLC; the other parts of GovernanceInv do not ask who may sign.     *)
(***************************************************************************)

\* Every grant is filed under the id made of its own two names.
GrantsFiled == \A id \in DOMAIN grants : id = G!GrantId(grants[id].subject, grants[id].cap)

Governed ==
    /\ G!GovTypeOK /\ G!RecoveriesAreShort /\ G!ChangesAreSigned /\ GrantsFiled
    /\ G!NewOriginsReported /\ G!RequestsDecidedOnce

LEMMA GovernanceSets ==
    ASSUME NEW S
    PROVE  (G!IsFiniteSet(S) <=> IsFiniteSet(S)) /\ G!Cardinality(S) = Cardinality(S)
  BY DEF G!IsFiniteSet, IsFiniteSet, G!Cardinality, Cardinality

\* perform_signed_act() adds the acts it signed and nothing else.
LEMMA SignedAdds ==
    ASSUME G!GovTypeOK, NEW n \in G!Node, NEW verbs \in SUBSET G!Verb, IsFiniteSet(verbs),
           NEW on \in Handle \cup Role \cup Group, G!Signed(n, verbs, on)
    PROVE  /\ acts' \subseteq [by : G!Node, verb : G!Verb, on : Handle \cup Role \cup Group]
           /\ G!IsFiniteSet(acts')
           /\ acts \subseteq acts'
           /\ \A v \in verbs : n \in G!Signers(v, on)'
           /\ \A v, o : G!Signers(v, o) \subseteq G!Signers(v, o)'
           /\ \A v, o : v \notin verbs \/ o # on => G!Signers(v, o)' = G!Signers(v, o)
  <1> DEFINE new == {G!Act(n, v, on) : v \in verbs}
  <1>1. acts' = acts \cup new
    BY DEF G!Signed
  <1>2. new \subseteq [by : G!Node, verb : G!Verb, on : Handle \cup Role \cup Group]
    BY DEF G!Act
  <1>3. IsFiniteSet(new)
    <2> DEFINE act == [v \in verbs |-> G!Act(n, v, on)]
    <2>1. act \in Surjection(verbs, new)
      BY DEF Surjection
    <2>2. QED
      BY <2>1, FS_Surjection
  <1>4. IsFiniteSet(acts)
    BY GovernanceSets DEF G!GovTypeOK
  <1>5. IsFiniteSet(acts')
    BY <1>1, <1>3, <1>4, FS_Union
  <1>6. \A v \in verbs : G!Act(n, v, on) \in new /\ G!Act(n, v, on).by = n
                         /\ G!Act(n, v, on).verb = v /\ G!Act(n, v, on).on = on
    BY DEF G!Act
  <1>7. \A a \in new : a.verb \in verbs /\ a.on = on
    BY DEF G!Act
  <1> HIDE DEF new
  <1>8. \A v \in verbs : n \in G!Signers(v, on)'
    BY <1>1, <1>6 DEF G!Signers
  <1>9. \A v, o : G!Signers(v, o) \subseteq G!Signers(v, o)'
    BY <1>1 DEF G!Signers
  <1>10. \A v, o : v \notin verbs \/ o # on => G!Signers(v, o)' = G!Signers(v, o)
    BY <1>1, <1>7 DEF G!Signers
  <1> QED
    BY <1>1, <1>2, <1>5, <1>8, <1>9, <1>10, GovernanceSets DEF G!GovTypeOK

\* Signers are only ever added.
More == \A v, o : G!Signers(v, o) \subseteq G!Signers(v, o)'

LEMMA RecoveriesUntouched ==
    ASSUME G!RecoveriesAreShort, More, UNCHANGED G!recoveryVars PROVE G!RecoveriesAreShort'
  BY DEF G!RecoveriesAreShort, More, G!recoveryVars

\* The parts of ChangesAreSigned by the state they are about.
UsersSigned == \A h \in users : G!Signers("invite", h) # {}
EdgesSigned == \A e \in edges : e.signer \in G!Signers("edge", e.subject) \/ e.subject \in users
GrantsSigned == \A id \in DOMAIN grants : G!Signers("grant", grants[id].subject) # {}
RolesSigned == \A r \in Role : roles[r] # None => G!Signers("role", r) # {}
GroupsSigned == \A g \in Group : groups[g] # None => G!Signers("group", g) # {}

LEMMA ChangesByPart ==
    G!ChangesAreSigned <=> UsersSigned /\ EdgesSigned /\ GrantsSigned /\ RolesSigned /\ GroupsSigned
  BY DEF G!ChangesAreSigned, UsersSigned, EdgesSigned, GrantsSigned, RolesSigned, GroupsSigned

LEMMA TrustUntouched ==
    ASSUME UsersSigned, EdgesSigned, More, UNCHANGED <<edges, users>> PROVE (UsersSigned /\ EdgesSigned)'
  BY DEF UsersSigned, EdgesSigned, More

LEMMA GrantsUntouched ==
    ASSUME GrantsSigned, GrantsFiled, More, UNCHANGED grants PROVE (GrantsSigned /\ GrantsFiled)'
  BY DEF GrantsSigned, GrantsFiled, More, G!GrantId

LEMMA RolesUntouched ==
    ASSUME RolesSigned, More, UNCHANGED roles PROVE RolesSigned'
  BY DEF RolesSigned, More

LEMMA GroupsUntouched ==
    ASSUME GroupsSigned, More, UNCHANGED groups PROVE GroupsSigned'
  BY DEF GroupsSigned, More

LEMMA OriginsUntouched ==
    ASSUME G!NewOriginsReported, UNCHANGED origins,
           \A h : G!Signers("new_origin", h)' = G!Signers("new_origin", h)
    PROVE  G!NewOriginsReported'
  BY DEF G!NewOriginsReported

LEMMA RequestsUntouched ==
    ASSUME G!RequestsDecidedOnce, UNCHANGED G!queueVars PROVE G!RequestsDecidedOnce'
  BY DEF G!RequestsDecidedOnce, G!queueVars

\* What a signed step leaves alone of the invariant, and what of it depends on
\* the state it does change.
LEMMA SignedStep ==
    ASSUME Governed, NEW n \in G!Node, NEW verb \in G!Verb \ {"new_origin"},
           NEW on \in Handle \cup Role \cup Group, G!Signed(n, {verb}, on)
    PROVE  /\ acts' \subseteq [by : G!Node, verb : G!Verb, on : Handle \cup Role \cup Group]
           /\ G!IsFiniteSet(acts') /\ More /\ n \in G!Signers(verb, on)'
           /\ UNCHANGED origins => G!NewOriginsReported'
           /\ UNCHANGED G!queueVars => G!RequestsDecidedOnce'
           /\ UNCHANGED G!recoveryVars => G!RecoveriesAreShort'
           /\ UNCHANGED <<edges, users>> => (UsersSigned /\ EdgesSigned)'
           /\ UNCHANGED grants => (GrantsSigned /\ GrantsFiled)'
           /\ UNCHANGED roles => RolesSigned'
           /\ UNCHANGED groups => GroupsSigned'
  <1>1. IsFiniteSet({verb}) /\ {verb} \in SUBSET G!Verb
    BY FS_Singleton
  <1>2. /\ acts' \subseteq [by : G!Node, verb : G!Verb, on : Handle \cup Role \cup Group]
        /\ G!IsFiniteSet(acts') /\ n \in G!Signers(verb, on)' /\ More
        /\ \A h : G!Signers("new_origin", h)' = G!Signers("new_origin", h)
    BY <1>1, SignedAdds DEF More, Governed
  <1>3. /\ UsersSigned /\ EdgesSigned /\ GrantsSigned /\ RolesSigned /\ GroupsSigned /\ GrantsFiled
        /\ G!NewOriginsReported /\ G!RecoveriesAreShort /\ G!RequestsDecidedOnce
    BY ChangesByPart DEF Governed
  <1> QED
    BY <1>2, <1>3, OriginsUntouched, RequestsUntouched, RecoveriesUntouched, TrustUntouched,
       GrantsUntouched, RolesUntouched, GroupsUntouched

LEMMA GovernedBy ==
    ASSUME (G!GovTypeOK /\ G!RecoveriesAreShort /\ UsersSigned /\ EdgesSigned /\ GrantsSigned
            /\ RolesSigned /\ GroupsSigned /\ GrantsFiled /\ G!NewOriginsReported /\ G!RequestsDecidedOnce)'
    PROVE  Governed'
  <1>1. (UsersSigned /\ EdgesSigned /\ GrantsSigned /\ RolesSigned /\ GroupsSigned => G!ChangesAreSigned)'
    BY ChangesByPart, PTL
  <1> QED
    BY <1>1 DEF Governed

LEMMA QuorumFields ==
    ASSUME NEW q \in G!Quorum PROVE q.m \in Nat /\ q.approvers \subseteq G!Node
  BY DEF G!Quorum

\* Finitely many acts have finitely many signers.
LEMMA SignersFinite == IsFiniteSet(acts) => \A v, o : IsFiniteSet(G!Signers(v, o))
  <1> SUFFICES ASSUME IsFiniteSet(acts), NEW v, NEW o PROVE IsFiniteSet(G!Signers(v, o))
    OBVIOUS
  <1> DEFINE S == {x \in acts : x.verb = v /\ x.on = o}
             f == [a \in S |-> a.by]
  <1>1. IsFiniteSet(S)
    BY FS_Subset
  <1>2. f \in Surjection(S, G!Signers(v, o))
    BY DEF Surjection, G!Signers
  <1> QED
    BY <1>1, <1>2, FS_Surjection

\* The approvers of an open recovery are finitely many.
LEMMA ApproversCounted ==
    ASSUME Governed, NEW h \in Handle, recoveries[h] # None
    PROVE  IsFiniteSet(recoveries[h].approvers) /\ G!Cardinality(recoveries[h].approvers) \in Nat
  <1>1. IsFiniteSet(acts)
    BY GovernanceSets DEF Governed, G!GovTypeOK
  <1>2. IsFiniteSet(G!Signers("recovery_approve", h))
    BY <1>1, SignersFinite
  <1>3. recoveries[h].approvers \subseteq G!Signers("recovery_approve", h)
    BY DEF Governed, G!RecoveriesAreShort
  <1>4. IsFiniteSet(recoveries[h].approvers)
    BY <1>2, <1>3, FS_Subset
  <1> QED
    BY <1>4, GovernanceSets, FS_CardinalityType

LEMMA QuorumRaised ==
    ASSUME NEW m \in Nat, NEW S \in SUBSET Nat, NEW a \in S, \A k \in S : k <= a,
           NEW b \in {m, a}, b >= a, b >= m, NEW c \in Nat, c < a
    PROVE  c < b /\ b \in S \cup {m} /\ \A k \in S \cup {m} : k <= b
  OBVIOUS

LEMMA RecoveryStartKeeps ==
    ASSUME G!GovernanceAssumption, Governed, NEW n \in G!Node, NEW h \in Handle, NEW m \in 1..MaxQuorum,
           G!RecoveryStart(n, h, m)
    PROVE  Governed'
  <1>1. /\ G!Signed(n, {"recovery_start"}, h)
        /\ UNCHANGED <<edges, users, temp, grants, roles, groups, history, origins>>
        /\ UNCHANGED G!queueVars
        /\ asked' = [asked EXCEPT ![h] = @ \cup {m}]
    BY DEF G!RecoveryStart, G!trustVars, G!iamVars, G!loginVars
  <1>2. /\ acts' \subseteq [by : G!Node, verb : G!Verb, on : Handle \cup Role \cup Group]
        /\ G!IsFiniteSet(acts') /\ More
        /\ G!NewOriginsReported' /\ G!RequestsDecidedOnce' /\ (UsersSigned /\ EdgesSigned)'
        /\ (GrantsSigned /\ GrantsFiled)' /\ RolesSigned' /\ GroupsSigned'
    <2>1. UNCHANGED <<edges, users>>
      BY <1>1
    <2>2. "recovery_start" # "new_origin"
      OBVIOUS
    <2>3. "recovery_start" \in G!Verb
      BY DEF G!Verb
    <2> QED
      BY <1>1, <2>1, <2>2, <2>3, SignedStep
  <1>3. m \in Nat /\ m > 0 /\ MaxQuorum \in Nat /\ None \notin G!Quorum
    BY DEF G!GovernanceAssumption
  <1> DEFINE old == recoveries[h]
             opened == IF old = None THEN [m |-> m, approvers |-> {}]
                       ELSE [m |-> G!T!Greatest(old.m, m), approvers |-> old.approvers]
  <1>4. recoveries' = [recoveries EXCEPT ![h] = opened]
    BY DEF G!RecoveryStart
  <1>5. /\ recoveries \in [Handle -> G!Quorum \cup {None}] /\ asked \in [Handle -> SUBSET Nat]
        /\ G!RecoveriesAreShort
    BY DEF Governed, G!GovTypeOK
  <1>6. /\ opened \in G!Quorum /\ opened.m >= m /\ (opened.m = m \/ (old # None /\ opened.m = old.m))
        /\ old = None => opened.m = m /\ opened.approvers = {}
        /\ old # None => opened.approvers = old.approvers /\ opened.m >= old.m /\ old \in G!Quorum
                         /\ old.m \in Nat
    <2>1. CASE old = None
      BY <2>1, <1>3 DEF G!Quorum
    <2>2. CASE old # None
      <3>1. old \in G!Quorum /\ old.m \in Nat /\ old.approvers \subseteq G!Node
        BY <2>2, <1>5, QuorumFields
      <3>2. G!T!Greatest(old.m, m) \in Nat /\ G!T!Greatest(old.m, m) >= m /\ G!T!Greatest(old.m, m) >= old.m
            /\ (G!T!Greatest(old.m, m) = m \/ G!T!Greatest(old.m, m) = old.m)
        BY <3>1, <1>3 DEF G!T!Greatest
      <3> QED
        BY <2>2, <3>1, <3>2 DEF G!Quorum
    <2> QED
      BY <2>1, <2>2
  <1> HIDE DEF opened
  <1>7. /\ recoveries' \in [Handle -> G!Quorum \cup {None}] /\ recoveries'[h] = opened /\ opened # None
        /\ asked' \in [Handle -> SUBSET Nat] /\ asked'[h] = asked[h] \cup {m}
        /\ \A g \in Handle \ {h} : recoveries'[g] = recoveries[g] /\ asked'[g] = asked[g]
    BY <1>1, <1>3, <1>4, <1>5, <1>6
  <1>8. G!GovTypeOK'
    BY <1>1, <1>2, <1>7 DEF Governed, G!GovTypeOK, G!queueVars
  <1>9. G!RecoveriesAreShort'
    <2> SUFFICES ASSUME NEW g \in Handle
                 PROVE  IF recoveries'[g] = None THEN asked'[g] = {} ELSE
                          /\ G!Cardinality(recoveries'[g].approvers) < recoveries'[g].m
                          /\ recoveries'[g].m \in asked'[g] /\ \A k \in asked'[g] : k <= recoveries'[g].m
                          /\ recoveries'[g].approvers \subseteq G!Signers("recovery_approve", g)'
      BY DEF G!RecoveriesAreShort
    <2>1. CASE g # h
      BY <2>1, <1>2, <1>5, <1>7 DEF G!RecoveriesAreShort, More
    <2>2. CASE g = h /\ old = None
      <3>1. G!Cardinality({}) = 0
        BY GovernanceSets, FS_EmptySet
      <3> QED
        BY <2>2, <3>1, <1>3, <1>5, <1>6, <1>7 DEF G!RecoveriesAreShort
    <2>3. CASE g = h /\ old # None
      <3>1. /\ G!Cardinality(old.approvers) < old.m
            /\ old.m \in asked[h] /\ \A k \in asked[h] : k <= old.m /\ k \in Nat
            /\ old.approvers \subseteq G!Signers("recovery_approve", h)'
        BY <2>3, <1>2, <1>5 DEF G!RecoveriesAreShort, More
      <3>2. G!Cardinality(old.approvers) \in Nat
        BY <2>3, ApproversCounted
      <3>3. /\ opened.m \in Nat /\ old.m \in Nat /\ opened.m >= old.m /\ opened.m >= m
            /\ opened.m \in {m, old.m} /\ opened.approvers = old.approvers
        BY <2>3, <1>6, QuorumFields
      <3>4. /\ G!Cardinality(opened.approvers) < opened.m /\ opened.m \in asked'[h]
            /\ \A k \in asked'[h] : k <= opened.m
        <4>1. asked[h] \subseteq Nat /\ m \in Nat
          BY <1>3, <1>5
        <4>2. opened.m >= old.m
          BY <3>3
        <4>3. old.m \in asked[h] /\ G!Cardinality(old.approvers) < old.m
          BY <3>1
        <4>4. \A k \in asked[h] : k <= old.m
          BY <3>1
        <4>5. opened.m \in {m, old.m} /\ opened.m >= m
          BY <3>3
        <4>7. G!Cardinality(old.approvers) \in Nat
          BY <3>2
        <4>6. /\ G!Cardinality(old.approvers) < opened.m /\ opened.m \in asked[h] \cup {m}
              /\ \A k \in asked[h] \cup {m} : k <= opened.m
          BY <4>1, <4>2, <4>3, <4>4, <4>5, <4>7, QuorumRaised
        <4> QED
          BY <3>3, <4>6, <1>7
      <3> QED
        BY <2>3, <3>1, <3>3, <3>4, <1>7
    <2> QED
      BY <2>1, <2>2, <2>3
  <1> QED
    BY <1>2, <1>8, <1>9, GovernedBy

LEMMA RecoveryApproveKeeps ==
    ASSUME G!GovernanceAssumption, Governed, NEW n \in G!Node, NEW h \in Handle, G!RecoveryApprove(n, h)
    PROVE  Governed'
  <1> DEFINE old == recoveries[h]
             approvers == old.approvers \cup {n}
  <1>1. /\ G!Signed(n, {"recovery_approve"}, h) /\ old # None
        /\ UNCHANGED <<edges, users, grants, roles, groups, history, origins>>
        /\ UNCHANGED G!queueVars
    BY DEF G!RecoveryApprove, G!iamVars, G!loginVars
  <1>2. /\ acts' \subseteq [by : G!Node, verb : G!Verb, on : Handle \cup Role \cup Group]
        /\ G!IsFiniteSet(acts') /\ More /\ n \in G!Signers("recovery_approve", h)'
        /\ G!NewOriginsReported' /\ G!RequestsDecidedOnce' /\ (UsersSigned /\ EdgesSigned)'
        /\ (GrantsSigned /\ GrantsFiled)' /\ RolesSigned' /\ GroupsSigned'
    <2>1. UNCHANGED <<edges, users>> /\ "recovery_approve" # "new_origin"
      BY <1>1
    <2>2. "recovery_approve" \in G!Verb
      BY DEF G!Verb
    <2> QED
      BY <1>1, <2>1, <2>2, SignedStep
  <1>3. /\ recoveries \in [Handle -> G!Quorum \cup {None}] /\ asked \in [Handle -> SUBSET Nat]
        /\ temp \subseteq Handle /\ G!RecoveriesAreShort /\ None \notin G!Quorum
    BY DEF Governed, G!GovTypeOK, G!GovernanceAssumption
  <1>4. /\ old \in G!Quorum /\ old.m \in Nat /\ old.approvers \subseteq G!Node
        /\ old.m \in asked[h] /\ \A k \in asked[h] : k <= old.m
        /\ old.approvers \subseteq G!Signers("recovery_approve", h)
    BY <1>1, <1>3, QuorumFields DEF G!RecoveriesAreShort
  <1>5. approvers \subseteq G!Node /\ approvers \subseteq G!Signers("recovery_approve", h)'
    BY <1>2, <1>4 DEF More
  <1>6. CASE G!Cardinality(approvers) < old.m
    <2> DEFINE more == [old EXCEPT !.approvers = approvers]
    <2>1. /\ recoveries' = [recoveries EXCEPT ![h] = more] /\ UNCHANGED <<asked, temp>>
      BY <1>6 DEF G!RecoveryApprove
    <2>2. more \in G!Quorum /\ more.m = old.m /\ more.approvers = approvers
      BY <1>4, <1>5 DEF G!Quorum
    <2> HIDE DEF more, approvers
    <2>3. /\ recoveries' \in [Handle -> G!Quorum \cup {None}] /\ recoveries'[h] = more /\ more # None
          /\ \A g \in Handle \ {h} : recoveries'[g] = recoveries[g]
      BY <2>1, <2>2, <1>3
    <2>4. G!RecoveriesAreShort'
      <3>1. ASSUME NEW g \in Handle
            PROVE  IF recoveries'[g] = None THEN asked'[g] = {} ELSE
                     /\ G!Cardinality(recoveries'[g].approvers) < recoveries'[g].m
                     /\ recoveries'[g].m \in asked'[g] /\ \A k \in asked'[g] : k <= recoveries'[g].m
                     /\ recoveries'[g].approvers \subseteq G!Signers("recovery_approve", g)'
        <4>1. CASE g # h
          BY <4>1, <1>2, <1>3, <2>1, <2>3 DEF G!RecoveriesAreShort, More
        <4>2. CASE g = h
          BY <4>2, <1>4, <1>5, <1>6, <2>1, <2>2, <2>3
        <4> QED
          BY <4>1, <4>2
      <3> QED
        BY <3>1 DEF G!RecoveriesAreShort
    <2>5. G!GovTypeOK'
      BY <1>1, <1>2, <1>3, <2>1, <2>3 DEF Governed, G!GovTypeOK, G!queueVars
    <2> QED
      BY <1>2, <2>4, <2>5, GovernedBy
  <1>7. CASE ~(G!Cardinality(approvers) < old.m)
    <2>1. /\ recoveries' = [recoveries EXCEPT ![h] = None] /\ asked' = [asked EXCEPT ![h] = {}]
          /\ temp' = temp \cup {h}
      BY <1>7 DEF G!RecoveryApprove
    <2>2. G!GovTypeOK'
      BY <1>1, <1>2, <1>3, <2>1 DEF Governed, G!GovTypeOK, G!queueVars
    <2>3. G!RecoveriesAreShort'
      BY <1>2, <1>3, <2>1 DEF G!RecoveriesAreShort, More
    <2> QED
      BY <1>2, <2>2, <2>3, GovernedBy
  <1> QED
    BY <1>6, <1>7

LEMMA InviteKeeps ==
    ASSUME G!GovernanceAssumption, Governed, NEW n \in G!Node, NEW h \in Handle, G!Invite(n, h)
    PROVE  Governed'
  <1>1. /\ G!Signed(n, {"invite"}, h) /\ UNCHANGED <<grants, roles, groups, history, origins, recoveries, asked>>
        /\ UNCHANGED G!recoveryVars /\ UNCHANGED G!queueVars
        /\ \/ UNCHANGED <<edges, users, temp>>
           \/ /\ users' = users \cup {h} /\ temp' = temp \cup {h}
              /\ edges' = edges \cup {[signer |-> First, subject |-> h, level |-> 0]}
    BY DEF G!Invite, G!iamVars, G!loginVars, G!trustVars, G!recoveryVars
  <1>2. "invite" # "new_origin" /\ "invite" \in G!Verb
    BY DEF G!Verb
  <1>3. /\ acts' \subseteq [by : G!Node, verb : G!Verb, on : Handle \cup Role \cup Group]
        /\ G!IsFiniteSet(acts') /\ More /\ n \in G!Signers("invite", h)'
        /\ G!NewOriginsReported' /\ G!RequestsDecidedOnce' /\ G!RecoveriesAreShort'
        /\ (GrantsSigned /\ GrantsFiled)' /\ RolesSigned' /\ GroupsSigned'
        /\ UNCHANGED <<edges, users>> => (UsersSigned /\ EdgesSigned)'
    BY <1>1, <1>2, SignedStep
  <1>4. [signer |-> First, subject |-> h, level |-> 0] \in G!Cert
    BY DEF G!Cert, G!Node
  <1>5. G!GovTypeOK'
    BY <1>1, <1>3, <1>4 DEF Governed, G!GovTypeOK, G!queueVars
  <1>6. (UsersSigned /\ EdgesSigned)'
    <2>1. UsersSigned /\ EdgesSigned
      BY ChangesByPart DEF Governed
    <2> QED
      BY <1>1, <1>3, <2>1 DEF UsersSigned, EdgesSigned, More
  <1> QED
    BY <1>3, <1>5, <1>6, GovernedBy

LEMMA SetPasswordKeeps ==
    ASSUME Governed, NEW n \in G!Node, NEW h \in Handle, G!SetPassword(n, h)
    PROVE  Governed'
  <1>1. /\ G!Signed(n, {"reset"}, h)
        /\ UNCHANGED <<edges, users, grants, roles, groups, history, origins, recoveries, asked>>
        /\ UNCHANGED G!recoveryVars /\ UNCHANGED G!queueVars /\ temp' = temp \ {h}
    BY DEF G!SetPassword, G!iamVars, G!loginVars, G!recoveryVars
  <1>2. "reset" # "new_origin" /\ "reset" \in G!Verb /\ UNCHANGED <<edges, users>>
    BY <1>1 DEF G!Verb
  <1>3. /\ acts' \subseteq [by : G!Node, verb : G!Verb, on : Handle \cup Role \cup Group]
        /\ G!IsFiniteSet(acts')
        /\ G!NewOriginsReported' /\ G!RequestsDecidedOnce' /\ G!RecoveriesAreShort'
        /\ (GrantsSigned /\ GrantsFiled)' /\ RolesSigned' /\ GroupsSigned' /\ (UsersSigned /\ EdgesSigned)'
    BY <1>1, <1>2, SignedStep
  <1>4. G!GovTypeOK'
    BY <1>1, <1>3 DEF Governed, G!GovTypeOK, G!queueVars
  <1> QED
    BY <1>3, <1>4, GovernedBy

LEMMA EdgeKeeps ==
    ASSUME Governed, NEW n \in G!Node, NEW h \in Handle, NEW l \in Level, G!Edge(n, h, l)
    PROVE  Governed'
  <1> DEFINE e == [signer |-> n, subject |-> h, level |-> l]
  <1>1. /\ G!Signed(n, {"edge"}, h)
        /\ UNCHANGED <<users, temp, grants, roles, groups, history, origins, recoveries, asked>>
        /\ UNCHANGED G!recoveryVars /\ UNCHANGED G!queueVars /\ edges' = edges \cup {e}
    BY DEF G!Edge, G!iamVars, G!loginVars, G!recoveryVars
  <1>2. "edge" # "new_origin" /\ "edge" \in G!Verb
    BY DEF G!Verb
  <1>3. /\ acts' \subseteq [by : G!Node, verb : G!Verb, on : Handle \cup Role \cup Group]
        /\ G!IsFiniteSet(acts') /\ More /\ n \in G!Signers("edge", h)'
        /\ G!NewOriginsReported' /\ G!RequestsDecidedOnce' /\ G!RecoveriesAreShort'
        /\ (GrantsSigned /\ GrantsFiled)' /\ RolesSigned' /\ GroupsSigned'
    BY <1>1, <1>2, SignedStep
  <1>4. e \in G!Cert
    BY DEF G!Cert, G!Node
  <1>5. G!GovTypeOK'
    BY <1>1, <1>3, <1>4 DEF Governed, G!GovTypeOK, G!queueVars
  <1>6. (UsersSigned /\ EdgesSigned)'
    <2>1. UsersSigned /\ EdgesSigned
      BY ChangesByPart DEF Governed
    <2> QED
      BY <1>1, <1>3, <2>1 DEF UsersSigned, EdgesSigned, More
  <1> QED
    BY <1>3, <1>5, <1>6, GovernedBy

\* What the steps on grants, roles and groups have in common.
LEMMA IamStep ==
    ASSUME Governed, NEW n \in G!Node, NEW verb \in G!Verb \ {"new_origin"},
           NEW on \in Handle \cup Role \cup Group, G!Signed(n, {verb}, on),
           UNCHANGED <<G!trustVars, G!recoveryVars, G!loginVars, G!queueVars>>,
           (GrantsSigned /\ GrantsFiled /\ RolesSigned /\ GroupsSigned)',
           DOMAIN roles' = Role, DOMAIN groups' = Group,
           \A id \in DOMAIN grants' : grants'[id] \in G!GrantDocument
    PROVE  Governed'
  <1>1. /\ UNCHANGED <<edges, users, temp, history, origins, recoveries, asked>> /\ UNCHANGED <<edges, users>>
        /\ UNCHANGED G!recoveryVars /\ UNCHANGED G!queueVars
    BY DEF G!trustVars, G!recoveryVars, G!loginVars
  <1>2. /\ acts' \subseteq [by : G!Node, verb : G!Verb, on : Handle \cup Role \cup Group]
        /\ G!IsFiniteSet(acts')
        /\ G!NewOriginsReported' /\ G!RequestsDecidedOnce' /\ G!RecoveriesAreShort'
        /\ (UsersSigned /\ EdgesSigned)'
    BY <1>1, SignedStep
  <1>3. G!GovTypeOK'
    BY <1>1, <1>2 DEF Governed, G!GovTypeOK, G!queueVars
  <1> QED
    BY <1>2, <1>3, GovernedBy

LEMMA GrantsKeep ==
    ASSUME Governed, NEW n \in G!Node, NEW h \in Handle, NEW cap \in Cap,
           \/ G!GrantRm(n, h, cap)
           \/ \E e \in {"allow", "deny"} : G!GrantAdd(n, h, cap, e)
    PROVE  Governed'
  <1> DEFINE id == G!GrantId(h, cap)
  <1>1. /\ G!Signed(n, {"grant"}, h) /\ UNCHANGED <<roles, groups>>
        /\ UNCHANGED <<G!trustVars, G!recoveryVars, G!loginVars, G!queueVars>>
    BY DEF G!GrantRm, G!GrantAdd
  <1>2. "grant" \in G!Verb \ {"new_origin"}
    BY DEF G!Verb
  <1>3. /\ n \in G!Signers("grant", h)' /\ More /\ RolesSigned' /\ GroupsSigned'
    BY <1>1, <1>2, SignedStep
  <1>4. /\ DOMAIN roles = Role /\ DOMAIN groups = Group /\ GrantsSigned /\ GrantsFiled
        /\ \A i \in DOMAIN grants : grants[i] \in G!GrantDocument
    BY ChangesByPart DEF Governed, G!GovTypeOK
  <1>5. \A i \in DOMAIN grants' :
          \/ i \in DOMAIN grants /\ grants'[i] = grants[i]
          \/ i = id /\ grants'[i] \in G!GrantDocument /\ grants'[i].subject = h /\ grants'[i].cap = cap
    <2>1. CASE G!GrantRm(n, h, cap)
      BY <2>1 DEF G!GrantRm
    <2>2. CASE \E e \in {"allow", "deny"} : G!GrantAdd(n, h, cap, e)
      <3>1. PICK e \in {"allow", "deny"} : G!GrantAdd(n, h, cap, e)
        BY <2>2
      <3> DEFINE doc == [subject |-> h, cap |-> cap, effect |-> e]
      <3>2. doc \in G!GrantDocument /\ doc.subject = h /\ doc.cap = cap
        BY DEF G!GrantDocument
      <3>3. grants' = [i \in DOMAIN grants \cup {id} |-> IF i = id THEN doc ELSE grants[i]]
        BY <3>1 DEF G!GrantAdd
      <3> HIDE DEF doc, id
      <3> QED
        BY <3>2, <3>3
    <2> QED
      BY <2>1, <2>2
  <1> HIDE DEF id
  <1>6. \A i \in DOMAIN grants' : grants'[i] \in G!GrantDocument
    BY <1>4, <1>5
  <1>7. GrantsSigned'
    BY <1>3, <1>4, <1>5 DEF GrantsSigned, More
  <1>8. GrantsFiled'
    BY <1>4, <1>5 DEF GrantsFiled, id, G!GrantId
  <1> QED
    BY <1>1, <1>2, <1>3, <1>4, <1>6, <1>7, <1>8, IamStep

LEMMA RolesKeep ==
    ASSUME Governed, NEW n \in G!Node, NEW r \in Role,
           G!RoleRm(n, r) \/ \E cs \in SUBSET Cap : G!RoleAdd(n, r, cs)
    PROVE  Governed'
  <1>1. PICK value : /\ G!Signed(n, {"role"}, r) /\ UNCHANGED <<grants, groups>>
                     /\ UNCHANGED <<G!trustVars, G!recoveryVars, G!loginVars, G!queueVars>>
                     /\ roles' = [roles EXCEPT ![r] = value]
    BY DEF G!RoleRm, G!RoleAdd
  <1>2. "role" \in G!Verb \ {"new_origin"}
    BY DEF G!Verb
  <1>3. /\ n \in G!Signers("role", r)' /\ More /\ (GrantsSigned /\ GrantsFiled)' /\ GroupsSigned'
    BY <1>1, <1>2, SignedStep
  <1>4. /\ DOMAIN roles = Role /\ DOMAIN groups = Group /\ RolesSigned
        /\ \A i \in DOMAIN grants : grants[i] \in G!GrantDocument
    BY ChangesByPart DEF Governed, G!GovTypeOK
  <1>5. RolesSigned' /\ DOMAIN roles' = Role
    BY <1>1, <1>3, <1>4 DEF RolesSigned, More
  <1> QED
    BY <1>1, <1>2, <1>3, <1>4, <1>5, IamStep

LEMMA GroupsKeep ==
    ASSUME Governed, NEW n \in G!Node, NEW g \in Group,
           \/ G!GroupRm(n, g)
           \/ \E rs \in SUBSET Role : G!GroupAdd(n, g, rs)
           \/ \E h \in Handle : G!GroupAddMember(n, g, h)
    PROVE  Governed'
  <1>1. /\ G!Signed(n, {"group"}, g) /\ UNCHANGED <<grants, roles>>
        /\ UNCHANGED <<G!trustVars, G!recoveryVars, G!loginVars, G!queueVars>>
        /\ groups' = groups \/ \E value : groups' = [groups EXCEPT ![g] = value]
    BY DEF G!GroupRm, G!GroupAdd, G!GroupAddMember
  <1>2. "group" \in G!Verb \ {"new_origin"}
    BY DEF G!Verb
  <1>3. /\ n \in G!Signers("group", g)' /\ More /\ (GrantsSigned /\ GrantsFiled)' /\ RolesSigned'
    BY <1>1, <1>2, SignedStep
  <1>4. /\ DOMAIN roles = Role /\ DOMAIN groups = Group /\ GroupsSigned
        /\ \A i \in DOMAIN grants : grants[i] \in G!GrantDocument
    BY ChangesByPart DEF Governed, G!GovTypeOK
  <1>5. GroupsSigned' /\ DOMAIN groups' = Group
    BY <1>1, <1>3, <1>4 DEF GroupsSigned, More
  <1> QED
    BY <1>1, <1>2, <1>3, <1>4, <1>5, IamStep

LEMMA CountNone ==
    ASSUME NEW c \in Nat PROVE (c = 0 => ~(c > 1)) /\ ((c + 1 > 1) <=> c # 0)
  OBVIOUS

LEMMA LoginKeeps ==
    ASSUME Governed, NEW n \in G!Node, NEW h \in Handle, NEW place \in Place, NEW at,
           G!LoginObserve(n, h, place, at)
    PROVE  Governed'
  <1> DEFINE new == origins[h] # {} /\ place \notin origins[h]
  <1>1. PICK verbs \in SUBSET {"impossible_travel", "new_origin"} :
            G!Signed(n, verbs, h) /\ ("new_origin" \in verbs <=> new)
    <2> DEFINE travel == history[h] # None /\ G!ImpossibleTravel(history[h], place, at)
               signs == {v \in {"impossible_travel", "new_origin"} :
                            IF v = "new_origin" THEN new ELSE travel}
    <2>1. G!Signed(n, signs, h)
      BY DEF G!LoginObserve
    <2>2. signs \subseteq {"impossible_travel", "new_origin"} /\ ("new_origin" \in signs <=> new)
      OBVIOUS
    <2> QED
      BY <2>1, <2>2
  <1>2. /\ UNCHANGED <<edges, users, temp, grants, roles, groups, recoveries, asked>>
        /\ UNCHANGED G!recoveryVars /\ UNCHANGED G!queueVars
        /\ origins' = [origins EXCEPT ![h] = @ \cup {place}]
    BY DEF G!LoginObserve, G!trustVars, G!iamVars, G!recoveryVars
  <1>3. verbs \in SUBSET G!Verb /\ IsFiniteSet(verbs)
    <2>1. IsFiniteSet({"impossible_travel"} \cup {"new_origin"})
      BY FS_Singleton, FS_Union
    <2>2. IsFiniteSet(verbs)
      <3>1. verbs \subseteq {"impossible_travel"} \cup {"new_origin"}
        OBVIOUS
      <3> QED
        BY <2>1, <3>1, FS_Subset
    <2> QED
      BY <2>2 DEF G!Verb
  <1> HIDE DEF new
  <1>4. /\ acts' \subseteq [by : G!Node, verb : G!Verb, on : Handle \cup Role \cup Group]
        /\ G!IsFiniteSet(acts') /\ More
        /\ new => n \in G!Signers("new_origin", h)'
        /\ ~new => G!Signers("new_origin", h)' = G!Signers("new_origin", h)
        /\ \A g : g # h => G!Signers("new_origin", g)' = G!Signers("new_origin", g)
    <2>1. G!GovTypeOK /\ h \in Handle \cup Role \cup Group
      BY DEF Governed
    <2>2. /\ acts' \subseteq [by : G!Node, verb : G!Verb, on : Handle \cup Role \cup Group]
          /\ G!IsFiniteSet(acts')
          /\ \A v \in verbs : n \in G!Signers(v, h)'
          /\ \A v, o : G!Signers(v, o) \subseteq G!Signers(v, o)'
          /\ \A v, o : v \notin verbs \/ o # h => G!Signers(v, o)' = G!Signers(v, o)
      BY <2>1, <1>1, <1>3, SignedAdds
    <2> QED
      BY <2>2, <1>1 DEF More
  <1>5. /\ origins \in [Handle -> SUBSET Place] /\ \A g \in Handle : IsFiniteSet(origins[g])
        /\ UsersSigned /\ EdgesSigned /\ GrantsSigned /\ RolesSigned /\ GroupsSigned /\ GrantsFiled
        /\ G!NewOriginsReported /\ G!RecoveriesAreShort /\ G!RequestsDecidedOnce
    BY ChangesByPart, GovernanceSets DEF Governed, G!GovTypeOK
  <1>6. /\ G!RecoveriesAreShort' /\ G!RequestsDecidedOnce' /\ (UsersSigned /\ EdgesSigned)'
        /\ (GrantsSigned /\ GrantsFiled)' /\ RolesSigned' /\ GroupsSigned'
    <2>1. UNCHANGED <<edges, users>>
      BY <1>2
    <2> QED
      BY <1>2, <1>4, <1>5, <2>1, RequestsUntouched, RecoveriesUntouched, TrustUntouched,
         GrantsUntouched, RolesUntouched, GroupsUntouched
  <1>7. /\ origins' \in [Handle -> SUBSET Place] /\ origins'[h] = origins[h] \cup {place}
        /\ \A g \in Handle \ {h} : origins'[g] = origins[g]
    BY <1>2, <1>5
  <1>8. /\ IsFiniteSet(origins'[h]) /\ Cardinality(origins[h]) \in Nat
        /\ Cardinality(origins'[h]) = IF place \in origins[h] THEN Cardinality(origins[h])
                                      ELSE Cardinality(origins[h]) + 1
        /\ (Cardinality(origins[h]) = 0) <=> (origins[h] = {})
    <2>1. IsFiniteSet(origins[h])
      BY <1>5
    <2>2. Cardinality(origins[h]) \in Nat
      BY <2>1, FS_CardinalityType
    <2>3. (Cardinality(origins[h]) = 0) <=> (origins[h] = {})
      BY <2>1, FS_EmptySet
    <2>4. IsFiniteSet(origins[h] \cup {place})
      BY <2>1, FS_AddElement
    <2>5. Cardinality(origins[h] \cup {place}) = IF place \in origins[h] THEN Cardinality(origins[h])
                                                ELSE Cardinality(origins[h]) + 1
      BY <2>1, FS_AddElement
    <2> QED
      BY <2>2, <2>3, <2>4, <2>5, <1>7
  <1>9. G!GovTypeOK'
    <2>1. \A g \in Handle : G!IsFiniteSet(origins'[g])
      BY <1>5, <1>7, <1>8, GovernanceSets
    <2> QED
      BY <1>2, <1>4, <1>7, <2>1 DEF Governed, G!GovTypeOK, G!queueVars
  <1>10. G!NewOriginsReported'
    <2>1. \A g \in Handle : (G!Signers("new_origin", g) # {}) <=> (Cardinality(origins[g]) > 1)
      BY <1>5, GovernanceSets DEF G!NewOriginsReported
    <2>2. (G!Signers("new_origin", h)' # {}) <=> (Cardinality(origins'[h]) > 1)
      <3>1. CASE place \in origins[h]
        BY <3>1, <2>1, <1>4, <1>8 DEF new
      <3>2. CASE place \notin origins[h]
        <4>1. (G!Signers("new_origin", h)' # {}) <=> (origins[h] # {})
          <5>1. CASE new
            BY <5>1, <1>4 DEF new
          <5>2. CASE ~new
            BY <5>2, <3>2, <2>1, <1>4, <1>8, CountNone DEF new
          <5> QED
            BY <5>1, <5>2
        <4>2. Cardinality(origins'[h]) = Cardinality(origins[h]) + 1
          BY <3>2, <1>8
        <4>3. Cardinality(origins[h]) \in Nat
          BY <1>8
        <4>4. (Cardinality(origins[h]) = 0) <=> (origins[h] = {})
          BY <1>8
        <4>5. (Cardinality(origins'[h]) > 1) <=> Cardinality(origins[h]) # 0
          BY <4>2, <4>3, CountNone
        <4> QED
          BY <4>1, <4>4, <4>5
      <3> QED
        BY <3>1, <3>2
    <2>3. \A g \in Handle : (G!Signers("new_origin", g)' # {}) <=> (Cardinality(origins'[g]) > 1)
      BY <2>1, <2>2, <1>4, <1>7
    <2> QED
      BY <2>3, GovernanceSets DEF G!NewOriginsReported
  <1> QED
    BY <1>6, <1>9, <1>10, GovernedBy

\* A step of the queue touches nothing but the queue.
LEMMA QueueStep ==
    ASSUME Governed, UNCHANGED <<acts, G!trustVars, G!recoveryVars, G!iamVars, G!loginVars>>,
           requests' \in Seq(G!BootstrapRequest), G!RequestsDecidedOnce'
    PROVE  Governed'
  <1>1. /\ UNCHANGED <<acts, edges, users, temp, recoveries, asked, grants, roles, groups, origins>>
        /\ UNCHANGED <<edges, users>> /\ UNCHANGED G!recoveryVars
    BY DEF G!trustVars, G!recoveryVars, G!iamVars, G!loginVars
  <1>2. /\ UsersSigned /\ EdgesSigned /\ GrantsSigned /\ RolesSigned /\ GroupsSigned /\ GrantsFiled
        /\ G!NewOriginsReported /\ G!RecoveriesAreShort
    BY ChangesByPart DEF Governed
  <1>3. More /\ \A h : G!Signers("new_origin", h)' = G!Signers("new_origin", h)
    BY <1>1 DEF More, G!Signers
  <1>4. /\ G!RecoveriesAreShort' /\ (UsersSigned /\ EdgesSigned)' /\ (GrantsSigned /\ GrantsFiled)'
        /\ RolesSigned' /\ GroupsSigned' /\ G!NewOriginsReported'
    BY <1>1, <1>2, <1>3, OriginsUntouched, RecoveriesUntouched, TrustUntouched, GrantsUntouched,
       RolesUntouched, GroupsUntouched
  <1>5. G!GovTypeOK'
    BY <1>1 DEF Governed, G!GovTypeOK
  <1> QED
    BY <1>4, <1>5, GovernedBy

LEMMA SubmitKeeps ==
    ASSUME Governed, NEW kind \in {"node", "user"}, NEW h \in Handle, G!Submit(kind, h)
    PROVE  Governed'
  <1> DEFINE r == G!Request(kind, h)
  <1>1. r \in G!BootstrapRequest /\ r.state = "pending"
    BY DEF G!Request, G!BootstrapRequest
  <1>2. /\ requests' = Append(requests, r) /\ UNCHANGED <<deciders, sealed, escrowed>>
        /\ UNCHANGED <<acts, G!trustVars, G!recoveryVars, G!iamVars, G!loginVars>>
    BY DEF G!Submit
  <1>3. requests \in Seq(G!BootstrapRequest) /\ G!RequestsDecidedOnce
    BY DEF Governed, G!GovTypeOK
  <1> HIDE DEF r
  <1>4. /\ requests' \in Seq(G!BootstrapRequest) /\ DOMAIN requests' = DOMAIN requests \cup {Len(requests) + 1}
        /\ requests'[Len(requests) + 1] = r /\ \A i \in DOMAIN requests : requests'[i] = requests[i]
    BY <1>1, <1>2, <1>3
  <1>5. G!RequestsDecidedOnce'
    <2>1. \A s \in sealed : s.request \in DOMAIN requests
      BY <1>3 DEF G!RequestsDecidedOnce
    <2>2. \A k : {i \in DOMAIN requests' : requests'[i].kind = k /\ requests'[i].state = "approved"} =
                 {i \in DOMAIN requests : requests[i].kind = k /\ requests[i].state = "approved"}
      BY <1>1, <1>4
    <2> QED
      BY <2>1, <2>2, <1>1, <1>2, <1>3, <1>4 DEF G!RequestsDecidedOnce
  <1> QED
    BY <1>2, <1>4, <1>5, QueueStep

\* A request that is pending becomes decided, any other one stays as it is.
LEMMA DecidedRequest ==
    ASSUME Governed, NEW n \in G!Node, NEW i \in DOMAIN requests, NEW state \in {"approved", "rejected"},
           requests' = G!Decided(i, n, state)
    PROVE  /\ requests' \in Seq(G!BootstrapRequest) /\ DOMAIN requests' = DOMAIN requests
           /\ \A j \in DOMAIN requests : j # i => requests'[j] = requests[j]
           /\ requests'[i].kind = requests[i].kind /\ requests'[i].subject = requests[i].subject
           /\ IF requests[i].state = "pending" THEN requests'[i].state = state /\ requests'[i].approver = n
              ELSE requests'[i] = requests[i]
  <1>1. requests \in Seq(G!BootstrapRequest) /\ requests[i] \in G!BootstrapRequest
    BY DEF Governed, G!GovTypeOK
  <1>2. CASE requests[i].state = "pending"
    <2> DEFINE r == [requests[i] EXCEPT !.state = state, !.approver = n]
    <2>1. requests' = [requests EXCEPT ![i] = r]
      BY <1>1, <1>2 DEF G!Decided
    <2>2. /\ r \in G!BootstrapRequest /\ r.state = state /\ r.approver = n
          /\ r.kind = requests[i].kind /\ r.subject = requests[i].subject
      BY <1>1 DEF G!BootstrapRequest
    <2> HIDE DEF r
    <2> QED
      BY <1>1, <1>2, <2>1, <2>2
  <1>3. CASE requests[i].state # "pending"
    BY <1>1, <1>3 DEF G!Decided
  <1> QED
    BY <1>2, <1>3

LEMMA RejectKeeps ==
    ASSUME Governed, NEW n \in G!Node, NEW i \in DOMAIN requests, G!Reject(n, i)
    PROVE  Governed'
  <1>1. /\ requests' = G!Decided(i, n, "rejected") /\ UNCHANGED <<sealed, escrowed>>
        /\ deciders' = deciders \cup {n}
        /\ UNCHANGED <<acts, G!trustVars, G!recoveryVars, G!iamVars, G!loginVars>>
    BY DEF G!Reject
  <1>2. /\ requests' \in Seq(G!BootstrapRequest) /\ DOMAIN requests' = DOMAIN requests
        /\ \A j \in DOMAIN requests : j # i => requests'[j] = requests[j]
        /\ requests'[i].kind = requests[i].kind /\ requests'[i].subject = requests[i].subject
        /\ IF requests[i].state = "pending" THEN requests'[i].state = "rejected" /\ requests'[i].approver = n
           ELSE requests'[i] = requests[i]
    BY <1>1, DecidedRequest
  <1>3. G!RequestsDecidedOnce
    BY DEF Governed
  <1>4. G!RequestsDecidedOnce'
    <2>1. \A s \in sealed : s.request \in DOMAIN requests /\ requests[s.request].state = "approved"
      BY <1>3 DEF G!RequestsDecidedOnce
    <2>2. \A k : {j \in DOMAIN requests' : requests'[j].kind = k /\ requests'[j].state = "approved"} =
                 {j \in DOMAIN requests : requests[j].kind = k /\ requests[j].state = "approved"}
      BY <1>2
    <2>3. \A s \in sealed : requests'[s.request] = requests[s.request]
      BY <2>1, <1>2
    <2>4. \A j \in DOMAIN requests' : requests'[j].state # "pending" => requests'[j].approver \in deciders'
      BY <1>1, <1>2, <1>3 DEF G!RequestsDecidedOnce
    <2> QED
      BY <2>1, <2>2, <2>3, <2>4, <1>1, <1>2, <1>3 DEF G!RequestsDecidedOnce
  <1> QED
    BY <1>1, <1>2, <1>4, QueueStep

LEMMA ApproveKeeps ==
    ASSUME Governed, NEW n \in G!Node, NEW i \in DOMAIN requests, G!Approve(n, i)
    PROVE  Governed'
  <1> DEFINE fresh == requests[i].state = "pending"
             key == [request |-> i, to |-> requests[i].subject, by |-> n]
  <1>1. /\ requests' = G!Decided(i, n, "approved")
        /\ deciders' = deciders \cup {n}
        /\ sealed' = IF fresh /\ requests[i].kind = "node" THEN sealed \cup {key} ELSE sealed
        /\ escrowed' = IF fresh /\ requests[i].kind = "user" THEN escrowed \cup {i} ELSE escrowed
        /\ UNCHANGED <<acts, G!trustVars, G!recoveryVars, G!iamVars, G!loginVars>>
    BY DEF G!Approve
  <1>2. /\ requests' \in Seq(G!BootstrapRequest) /\ DOMAIN requests' = DOMAIN requests
        /\ \A j \in DOMAIN requests : j # i => requests'[j] = requests[j]
        /\ requests'[i].kind = requests[i].kind /\ requests'[i].subject = requests[i].subject
        /\ IF fresh THEN requests'[i].state = "approved" /\ requests'[i].approver = n
           ELSE requests'[i] = requests[i]
    BY <1>1, DecidedRequest
  <1>3. G!RequestsDecidedOnce
    BY DEF Governed
  <1>4. key.request = i /\ key.to = requests[i].subject /\ key.by = n
    OBVIOUS
  <1> HIDE DEF key
  <1>5. G!RequestsDecidedOnce'
    <2>1. \A s \in sealed : s.request \in DOMAIN requests /\ requests[s.request].state = "approved"
      BY <1>3 DEF G!RequestsDecidedOnce
    <2>2. \A s \in sealed : requests'[s.request] = requests[s.request]
      BY <2>1, <1>2
    <2>3. \A j \in DOMAIN requests' : requests'[j].state # "pending" => requests'[j].approver \in deciders'
      BY <1>1, <1>2, <1>3 DEF G!RequestsDecidedOnce
    <2>4. \A k : {j \in DOMAIN requests' : requests'[j].kind = k /\ requests'[j].state = "approved"} =
                 {j \in DOMAIN requests : requests[j].kind = k /\ requests[j].state = "approved"}
                    \cup (IF fresh /\ requests[i].kind = k THEN {i} ELSE {})
      BY <1>2
    <2>5. {s.request : s \in sealed'} =
            {j \in DOMAIN requests' : requests'[j].kind = "node" /\ requests'[j].state = "approved"}
      <3>1. {s.request : s \in sealed'} =
              {s.request : s \in sealed} \cup (IF fresh /\ requests[i].kind = "node" THEN {i} ELSE {})
        BY <1>1, <1>4
      <3> QED
        BY <3>1, <2>4, <1>3 DEF G!RequestsDecidedOnce
    <2>6. escrowed' =
            {j \in DOMAIN requests' : requests'[j].kind = "user" /\ requests'[j].state = "approved"}
      BY <2>4, <1>1, <1>3 DEF G!RequestsDecidedOnce
    <2>7. \A s \in sealed' : s.to = requests'[s.request].subject /\ s.by = requests'[s.request].approver
      BY <2>2, <1>1, <1>2, <1>3, <1>4 DEF G!RequestsDecidedOnce
    <2>8. \A s, t \in sealed' : s.request = t.request => s = t
      BY <2>1, <1>1, <1>3, <1>4 DEF G!RequestsDecidedOnce
    <2> QED
      BY <2>3, <2>5, <2>6, <2>7, <2>8 DEF G!RequestsDecidedOnce
  <1> QED
    BY <1>1, <1>2, <1>5, QueueStep

LEMMA GovernanceStarts ==
    ASSUME G!GovernanceAssumption, G!GovInit PROVE Governed
  <1> USE DEF G!GovInit
  <1>1. G!GovTypeOK
    <2>1. G!IsFiniteSet({})
      BY FS_EmptySet, GovernanceSets
    <2> QED
      BY <2>1 DEF G!GovTypeOK
  <1>2. G!RecoveriesAreShort
    BY DEF G!RecoveriesAreShort
  <1>3. G!ChangesAreSigned /\ GrantsFiled
    BY DEF G!ChangesAreSigned, GrantsFiled
  <1>4. G!NewOriginsReported
    <2>1. \A h : G!Signers("new_origin", h) = {}
      BY DEF G!Signers
    <2>2. G!Cardinality({}) = 0
      BY FS_EmptySet, GovernanceSets
    <2>3. \A h \in Handle : G!Cardinality(origins[h]) = 0
      BY <2>2
    <2> HIDE DEF G!GovInit
    <2>4. \A h \in Handle : ~(G!Cardinality(origins[h]) > 1)
      BY <2>3
    <2> QED
      BY <2>1, <2>4 DEF G!NewOriginsReported
  <1>5. G!RequestsDecidedOnce
    BY DEF G!RequestsDecidedOnce
  <1> QED
    BY <1>1, <1>2, <1>3, <1>4, <1>5 DEF Governed

LEMMA GovernanceSteps ==
    ASSUME G!GovernanceAssumption, Governed, [G!GovNext]_(G!govVars) PROVE Governed'
  <1>1. CASE G!Recovery
    BY <1>1, RecoveryApproveKeeps, RecoveryStartKeeps DEF G!Recovery
  <1>2. CASE G!Invites
    BY <1>2, InviteKeeps DEF G!Invites
  <1>3. CASE G!Passwords
    BY <1>3, SetPasswordKeeps DEF G!Passwords
  <1>4. CASE G!Edges
    BY <1>4, EdgeKeeps DEF G!Edges
  <1>5. CASE G!Grants
    <2>1. PICK n \in G!Node, h \in Handle, c \in Cap :
            G!GrantRm(n, h, c) \/ \E e \in {"allow", "deny"} : G!GrantAdd(n, h, c, e)
      BY <1>5 DEF G!Grants
    <2> QED
      BY <2>1, GrantsKeep
  <1>6. CASE G!RolesAndGroups
    BY <1>6, RolesKeep, GroupsKeep DEF G!RolesAndGroups
  <1>7. CASE G!Logins
    BY <1>7, LoginKeeps DEF G!Logins
  <1>8. CASE G!Requests
    BY <1>8, SubmitKeeps, ApproveKeeps, RejectKeeps DEF G!Requests
  <1>9. CASE UNCHANGED G!govVars
    <2>1. /\ UNCHANGED <<acts, G!trustVars, G!recoveryVars, G!iamVars, G!loginVars>>
          /\ UNCHANGED G!queueVars /\ UNCHANGED requests
      BY <1>9 DEF G!govVars, G!queueVars
    <2>2. requests \in Seq(G!BootstrapRequest) /\ G!RequestsDecidedOnce
      BY DEF Governed, G!GovTypeOK
    <2> QED
      BY <2>1, <2>2, RequestsUntouched, QueueStep
  <1> QED
    BY <1>1, <1>2, <1>3, <1>4, <1>5, <1>6, <1>7, <1>8, <1>9 DEF G!GovNext

\* Two grants with one id are grants of one capability to one user.
LEMMA GrantIdsTellGrants ==
    ASSUME G!GovernanceAssumption, NEW h, NEW k, NEW c \in Cap, NEW d \in Cap,
           G!GrantId(h, c) = G!GrantId(k, d)
    PROVE  h = k /\ c = d
  <1> DEFINE S == {h, k} \cup G!Range(c) \cup G!Range(d)
  <1>1. c \in Seq(G!Range(c)) /\ d \in Seq(G!Range(d))
    BY DEF G!GovernanceAssumption
  <1>2. c \in Seq(S) /\ d \in Seq(S) /\ h \in S /\ k \in S
    BY <1>1
  <1> HIDE DEF S
  <1>3. <<h>> \o c = <<k>> \o d
    BY DEF G!GrantId
  <1>4. /\ (<<h>> \o c)[1] = h /\ (<<k>> \o d)[1] = k
        /\ Len(<<h>> \o c) = 1 + Len(c) /\ Len(<<k>> \o d) = 1 + Len(d)
        /\ \A i \in 1..Len(c) : (<<h>> \o c)[1 + i] = c[i]
        /\ \A i \in 1..Len(d) : (<<k>> \o d)[1 + i] = d[i]
    BY <1>2
  <1>5. Len(c) = Len(d) /\ \A i \in 1..Len(c) : c[i] = d[i]
    BY <1>2, <1>3, <1>4
  <1>6. h = k
    BY <1>3, <1>4
  <1>7. c = d
    <2>1. c = [i \in 1..Len(c) |-> c[i]] /\ d = [i \in 1..Len(d) |-> d[i]]
      BY <1>2
    <2> QED
      BY <2>1, <1>5
  <1> QED
    BY <1>6, <1>7

LEMMA GrantsAreRead ==
    ASSUME G!GovernanceAssumption, Governed PROVE G!ChecksReadTheirGrant
  <1> SUFFICES ASSUME NEW h \in Handle, NEW cap \in Cap
               PROVE  LET id == G!GrantId(h, cap)
                      IN G!GrantCheck(h, cap) <=>
                            /\ id \in DOMAIN grants
                            /\ grants[id] = [subject |-> h, cap |-> cap, effect |-> "allow"]
    BY DEF G!ChecksReadTheirGrant, Governed, GrantsFiled
  <1> DEFINE id == G!GrantId(h, cap)
             effects == {g.effect : g \in {x \in G!Range(grants) : x.subject = h /\ x.cap = cap}}
  <1>1. \A i \in DOMAIN grants : i = G!GrantId(grants[i].subject, grants[i].cap)
                                 /\ grants[i] \in G!GrantDocument
    BY DEF Governed, GrantsFiled, G!GovTypeOK
  <1>2. \A i \in DOMAIN grants : grants[i].subject = h /\ grants[i].cap = cap <=> i = id
    <2>1. ASSUME NEW i \in DOMAIN grants, i = id PROVE grants[i].subject = h /\ grants[i].cap = cap
      <3>1. grants[i].cap \in Cap
        BY <1>1 DEF G!GrantDocument
      <3>2. G!GrantId(grants[i].subject, grants[i].cap) = G!GrantId(h, cap)
        BY <1>1, <2>1
      <3> QED
        BY <3>1, <3>2, GrantIdsTellGrants
    <2> QED
      BY <1>1, <2>1
  <1> HIDE DEF id
  <1>3. effects = IF id \in DOMAIN grants THEN {grants[id].effect} ELSE {}
    BY <1>2 DEF G!Range
  <1>4. id \in DOMAIN grants => /\ grants[id] \in G!GrantDocument /\ grants[id].effect \in {"allow", "deny"}
                                /\ grants[id].subject = h /\ grants[id].cap = cap
    BY <1>1, <1>2 DEF G!GrantDocument
  <1>5. G!GrantCheck(h, cap) <=> "deny" \notin effects /\ "allow" \in effects
    BY DEF G!GrantCheck, G!T!Decide, G!T!ExplicitGrant, G!T!Satisfied
  <1> HIDE DEF effects
  <1>6. id \in DOMAIN grants =>
            (grants[id].effect = "allow" <=> grants[id] = [subject |-> h, cap |-> cap, effect |-> "allow"])
    BY <1>4 DEF G!GrantDocument
  <1> QED
    BY <1>3, <1>4, <1>5, <1>6 DEF id

-----------------------------------------------------------------------------
(* Who may act: the depths of TrustAuthority over the edges of governance.   *)
(* No key is ever revoked here, so more edges leave nobody with less.        *)

LEMMA PeerRelaxedIs ==
  ASSUME NEW B \in Nat, NEW b \in Budgets(G!Node, B), NEW e, EdgeOf(G!Node, e), NEW valid
  PROVE  RelaxStep(valid, b, e) = IF e \in valid THEN G!T!Relaxed(b, e) ELSE b
<1>1. b[e.signer] \in Int
  BY DEF Budgets, EdgeOf
<1>2. CASE e \in valid /\ b[e.signer] > 0
  <2>1. ~(b[e.signer] <= 0)
    BY <1>1, <1>2
  <2> QED BY <1>2, <2>1 DEF RelaxStep, G!T!Relaxed, G!T!Granted, G!T!Greatest, G!T!Least, Smaller
<1>3. CASE ~(e \in valid /\ b[e.signer] > 0)
  <2>1. e \in valid => b[e.signer] <= 0
    BY <1>1, <1>3
  <2> QED BY <1>3, <2>1 DEF RelaxStep, G!T!Relaxed
<1> QED BY <1>2, <1>3

\* An order of the certifications.
OrderOf(o) == Len(o) \in Nat /\ \A k \in 1..Len(o) : EdgeOf(G!Node, o[k])

LEMMA PeerRoundIs ==
  ASSUME NEW o, OrderOf(o), NEW valid, NEW B \in Nat, NEW b \in Budgets(G!Node, B)
  PROVE  IsRound(o, Len(o), valid, b, G!T!Round(b, o, valid))
<1> DEFINE m == Len(o)
           IsAfter(f) == f = [i \in 0..m |-> IF i = 0 THEN b
                                  ELSE IF o[i] \in valid THEN G!T!Relaxed(f[i - 1], o[i]) ELSE f[i - 1]]
           g == CHOOSE f : IsAfter(f)
<1>1. m \in Nat /\ \A k \in 1..m : EdgeOf(G!Node, o[k])
  BY DEF OrderOf
<1>2. G!T!Round(b, o, valid) = g[m]
  BY DEF G!T!Round
<1> HIDE DEF m
<1>3. \E f : IsAfter(f)
  <2>1. PICK f : IsRun(o, m, valid, b, f) /\ \A k \in 0..m : f[k] \in Budgets(G!Node, B)
    BY ONLY <1>1, B \in Nat, b \in Budgets(G!Node, B), RunExists
  <2>2. \A k \in 0..m : k # 0 => f[k - 1] \in Budgets(G!Node, B) /\ EdgeOf(G!Node, o[k])
    BY <1>1, <2>1
  <2>3. \A k \in 0..m : k # 0 =>
           RelaxStep(valid, f[k - 1], o[k]) = IF o[k] \in valid THEN G!T!Relaxed(f[k - 1], o[k]) ELSE f[k - 1]
    BY <2>2, PeerRelaxedIs
  <2>4. IsAfter(f)
    BY <2>1, <2>3 DEF IsRun
  <2> QED BY <2>4
<1>4. IsAfter(g)
  BY <1>3
<1> HIDE DEF g
<1>5. g[0] = b
  BY <1>1, <1>4
<1>6. \A k \in 0..m : k # m => /\ k + 1 \in 1..m /\ EdgeOf(G!Node, o[k + 1])
                               /\ g[k + 1] = IF o[k + 1] \in valid THEN G!T!Relaxed(g[k], o[k + 1]) ELSE g[k]
  <2> SUFFICES ASSUME NEW k \in 0..m, k # m
               PROVE  /\ k + 1 \in 1..m /\ EdgeOf(G!Node, o[k + 1])
                      /\ g[k + 1] = IF o[k + 1] \in valid THEN G!T!Relaxed(g[k], o[k + 1]) ELSE g[k]
    OBVIOUS
  <2>1. k + 1 \in 1..m /\ k + 1 \in 0..m /\ k + 1 # 0 /\ (k + 1) - 1 = k
    BY <1>1
  <2> QED BY <1>1, <1>4, <2>1
<1> HIDE DEF IsAfter
<1> DEFINE S == {k \in 0..m : g[k] \in Budgets(G!Node, B)}
<1>7. \A k \in 0..m : k # m /\ k \in S => g[k + 1] = RelaxStep(valid, g[k], o[k + 1])
  BY <1>6, PeerRelaxedIs
<1>8. 0 \in S
  BY <1>1, <1>5
<1>9. \A k \in 0..m : k # m /\ k \in S => k + 1 \in S
  <2> SUFFICES ASSUME NEW k \in 0..m, k # m, k \in S PROVE k + 1 \in S
    OBVIOUS
  <2>1. g[k] \in Budgets(G!Node, B) /\ EdgeOf(G!Node, o[k + 1]) /\ B \in Nat
    BY <1>6
  <2>2. RelaxStep(valid, g[k], o[k + 1]) \in Budgets(G!Node, B)
    BY ONLY <2>1, RelaxStepGrows
  <2>3. k + 1 \in 0..m
    BY <1>1
  <2> QED BY <1>7, <2>2, <2>3
<1>10. \A k \in 0..m : k \in S
  <2> HIDE DEF S
  <2> QED BY ONLY <1>1, <1>8, <1>9, InductionUpTo
<1>11. RunOf(o, m, valid, g)
  <2> SUFFICES ASSUME NEW k \in 1..m PROVE g[k] = RelaxStep(valid, g[k - 1], o[k])
    BY DEF RunOf
  <2>1. k - 1 \in 0..m /\ k - 1 # m /\ (k - 1) + 1 = k
    BY <1>1
  <2> QED BY <1>7, <1>10, <2>1
<1>12. IsRound(o, m, valid, b, g[m])
  BY <1>5, <1>11 DEF IsRound
<1> QED BY <1>2, <1>12 DEF m

LEMMA PeerRoundsAre ==
  ASSUME NEW o, OrderOf(o), NEW valid, NEW B \in Nat, NEW b \in Budgets(G!Node, B)
  PROVE  \E Z : /\ AreRounds(o, Len(o), valid, b, B + 1, Z)
                /\ G!T!Rounds(b, o, valid, B) = Z[B + 1]
<1> DEFINE r == B + 1
           D == Budgets(G!Node, B)
           IsAfter(f) == f = [k \in 0..r |-> IF k = 0 THEN b ELSE G!T!Round(f[k - 1], o, valid)]
           g == CHOOSE f : IsAfter(f)
           F == [p \in D \X (1..r) |-> G!T!Round(p[1], o, valid)]
<1>1. r \in Nat /\ Len(o) \in Nat /\ \A k \in 1..Len(o) : EdgeOf(G!Node, o[k])
  BY DEF OrderOf
<1>2. G!T!Rounds(b, o, valid, B) = g[r]
  BY DEF G!T!Rounds
<1>3. \A x \in D : G!T!Round(x, o, valid) \in D
  <2> SUFFICES ASSUME NEW x \in D PROVE G!T!Round(x, o, valid) \in D
    OBVIOUS
  <2>1. IsRound(o, Len(o), valid, x, G!T!Round(x, o, valid)) /\ x \in Budgets(G!Node, B)
    BY PeerRoundIs
  <2> QED BY ONLY <1>1, <2>1, B \in Nat, RoundGrows
<1>4. \A x \in D : \A k \in 1..r : F[<<x, k>>] = G!T!Round(x, o, valid)
  OBVIOUS
<1>5. b \in D
  OBVIOUS
<1> HIDE DEF r, D, F
<1>6. \E f : IsAfter(f)
  <2>1. PICK f : IterateMap(F, b, r, f)
    BY <1>1, IterateExists
  <2>2. \A k \in 0..r : f[k] \in D
    <3>1. \A x \in D : \A k \in 1..r : F[<<x, k>>] \in D
      BY <1>3, <1>4
    <3> QED BY <1>1, <1>5, <2>1, <3>1, IterateStays
  <2>3. \A k \in 0..r : k # 0 => k - 1 \in 0..r /\ k \in 1..r
    BY <1>1
  <2>4. \A k \in 0..r : k # 0 => F[<<f[k - 1], k>>] = G!T!Round(f[k - 1], o, valid)
    BY <1>4, <2>2, <2>3
  <2>5. IsAfter(f)
    BY <2>1, <2>4 DEF IterateMap
  <2> QED BY <2>5
<1>7. IsAfter(g)
  BY <1>6
<1> HIDE DEF g
<1>8. g[0] = b
  BY <1>1, <1>7
<1>9. \A k \in 1..r : g[k] = G!T!Round(g[k - 1], o, valid)
  BY <1>1, <1>7
<1> HIDE DEF IsAfter
<1> DEFINE S == {k \in 0..r : g[k] \in D}
<1>10. 0 \in S
  BY <1>1, <1>5, <1>8
<1>11. \A k \in 0..r : k # r /\ k \in S => k + 1 \in S
  <2> SUFFICES ASSUME NEW k \in 0..r, k # r, k \in S PROVE k + 1 \in S
    OBVIOUS
  <2>1. k + 1 \in 1..r /\ k + 1 \in 0..r /\ (k + 1) - 1 = k
    BY <1>1
  <2> QED BY <1>3, <1>9, <2>1
<1>12. \A k \in 0..r : k \in S
  <2> HIDE DEF S
  <2> QED BY ONLY <1>1, <1>10, <1>11, InductionUpTo
<1>13. \A k \in 1..r : IsRound(o, Len(o), valid, g[k - 1], g[k])
  <2> SUFFICES ASSUME NEW k \in 1..r PROVE IsRound(o, Len(o), valid, g[k - 1], g[k])
    OBVIOUS
  <2>1. k - 1 \in 0..r
    BY <1>1
  <2>2. g[k - 1] \in Budgets(G!Node, B)
    BY <1>12, <2>1 DEF D
  <2> QED BY <1>9, <2>2, PeerRoundIs
<1>14. AreRounds(o, Len(o), valid, b, r, g)
  BY <1>8, <1>13 DEF AreRounds
<1> QED BY <1>2, <1>14 DEF r

\* The certifications in the order of a fold.
AppendMap(C, f) == f = [s \in SUBSET C |-> IF s = {} THEN <<>> ELSE Append(f[s \ {Picked(s)}], Picked(s))]

PeerOrder == G!FoldSet(LAMBDA e, done : Append(done, e), <<>>, G!Cert)

LEMMA PeerOrderIs ==
  ASSUME IsFiniteSet(G!Cert) PROVE PeerOrder \in Seq(G!Cert)
<1> DEFINE C == G!Cert
           D == Seq(C)
           F == [q \in C \X D |-> Append(q[2], q[1])]
           base == <<>>
<1>1. base \in D
  OBVIOUS
<1>2. \A x \in C : \A y \in D : F[<<x, y>>] = Append(y, x) /\ F[<<x, y>>] \in D
  OBVIOUS
<1>3. \A x \in C : \A y \in D : Append(y, x) \in D
  OBVIOUS
<1>4. \A s \in SUBSET C : s # {} => Picked(s) \in C
  BY DEF Picked
<1> HIDE DEF D, F, C
<1>5. IsFiniteSet(C)
  BY DEF C
<1>6. PICK f : FoldMap(F, base, C, f)
  BY <1>5, FoldMapExists
<1>7. \A s \in SUBSET C : f[s] \in D
  BY <1>1, <1>2, <1>5, <1>6, FoldMapStays
<1>8. AppendMap(C, f)
  <2>1. \A s \in SUBSET C : s # {} =>
          F[<<Picked(s), f[s \ {Picked(s)}]>>] = Append(f[s \ {Picked(s)}], Picked(s))
    BY <1>2, <1>4, <1>7
  <2>2. f = [s \in SUBSET C |-> IF s = {} THEN <<>> ELSE F[<<Picked(s), f[s \ {Picked(s)}]>>]]
    BY <1>6 DEF FoldMap
  <2> QED BY <2>1, <2>2 DEF AppendMap
<1> DEFINE g == CHOOSE h : AppendMap(C, h)
<1>9. AppendMap(C, g)
  BY <1>8
<1>10. PeerOrder = g[C]
  BY DEF PeerOrder, G!FoldSet, G!MapThenFoldSet, AppendMap, Picked, C
<1> HIDE DEF g
<1>11. g[{}] \in D
  BY <1>1, <1>9 DEF AppendMap
<1>12. \A s \in SUBSET C : s # {} /\ g[s \ {Picked(s)}] \in D => g[s] \in D
  BY <1>3, <1>4, <1>9 DEF AppendMap
<1>13. g[C] \in D
  BY <1>5, <1>11, <1>12, FoldInvariant
<1> QED BY <1>10, <1>13 DEF D, C

LEMMA CertsAreFinite ==
  ASSUME G!GovernanceAssumption
  PROVE  /\ IsFiniteSet(G!Cert) /\ First \in G!Node /\ MaxDepth \in Nat
         /\ \A e \in G!Cert : EdgeOf(G!Node, e)
<1>1. /\ IsFiniteSet(Handle) /\ IsFiniteSet(Level) /\ MaxDepth \in Nat /\ Level \subseteq Nat
  BY GovernanceSets DEF G!GovernanceAssumption
<1>2. IsFiniteSet(G!Node) /\ IsFiniteSet(Level \cup {0})
  <2>1. IsFiniteSet({First} \cup Handle)
    BY <1>1, FS_Singleton, FS_Union
  <2>2. IsFiniteSet(Level \cup {0})
    BY <1>1, FS_AddElement
  <2> QED BY <2>1, <2>2 DEF G!Node
<1> DEFINE P == (G!Node \X G!Node) \X (Level \cup {0})
           h == [e \in G!Cert |-> <<<<e.signer, e.subject>>, e.level>>]
<1>3. IsFiniteSet(P)
  <2>1. IsFiniteSet(G!Node \X G!Node)
    BY <1>2, FS_Product
  <2> QED BY <1>2, <2>1, FS_Product
<1>4. \A e \in G!Cert : /\ e.signer \in G!Node /\ e.subject \in G!Node /\ e.level \in Level \cup {0}
                        /\ e = [signer |-> e.signer, subject |-> e.subject, level |-> e.level]
  BY DEF G!Cert
<1>5. h \in Injection(G!Cert, P)
  <2>1. h \in [G!Cert -> P]
    BY <1>4
  <2>2. ASSUME NEW d \in G!Cert, NEW e \in G!Cert, h[d] = h[e] PROVE d = e
    <3>1. d.signer = e.signer /\ d.subject = e.subject /\ d.level = e.level
      BY <2>2
    <3> QED BY <1>4, <3>1
  <2> HIDE DEF h, P
  <2> QED BY <2>1, <2>2 DEF Injection, IsInjective
<1>6. IsFiniteSet(G!Cert)
  <2> HIDE DEF h, P
  <2> QED BY <1>3, <1>5, FS_Injection
<1>7. \A e \in G!Cert : EdgeOf(G!Node, e)
  <2>1. \A l \in Level \cup {0} : l \in Nat
    BY <1>1
  <2> QED BY <1>4, <2>1 DEF EdgeOf
<1> QED BY <1>1, <1>6, <1>7 DEF G!Node

\* The trust state of a set of edges.
TrustIn(es) == [edges |-> es, keys |-> {}, pairs |-> {}, direct |-> {}]

LEMMA DepthIs ==
  ASSUME G!GovernanceAssumption, NEW es, NEW n \in G!Node
  PROVE  G!T!Depths(TrustIn(es))[n] =
            IF n = First THEN MaxDepth
            ELSE G!T!Rounds([x \in G!Node |-> IF x = First THEN MaxDepth ELSE -1], PeerOrder, es, MaxDepth)[n]
<1>1. G!T!Valid(TrustIn(es)) = es
  BY DEF G!T!Valid, TrustIn
<1>2. TrustIn(es).keys = {}
  BY DEF TrustIn
<1>3. (CHOOSE o \in {PeerOrder} : TRUE) = PeerOrder
  OBVIOUS
<1> DEFINE b == [x \in G!Node |-> IF x = First THEN MaxDepth ELSE -1]
<1>4. G!T!Depths(TrustIn(es)) = G!T!DepthsFrom(TrustIn(es), First, MaxDepth, CHOOSE o \in {PeerOrder} : TRUE)
  BY DEF G!T!Depths, PeerOrder
<1>5. G!T!DepthsFrom(TrustIn(es), First, MaxDepth, PeerOrder) =
        [x \in G!Node |-> IF {x, First} \cap TrustIn(es).keys # {} THEN -1
                          ELSE IF x = First THEN MaxDepth
                          ELSE G!T!Rounds(b, PeerOrder, G!T!Valid(TrustIn(es)), MaxDepth)[x]]
  BY DEF G!T!DepthsFrom
<1> HIDE DEF b
<1>6. G!T!Depths(TrustIn(es))[n] = IF n = First THEN MaxDepth ELSE G!T!Rounds(b, PeerOrder, es, MaxDepth)[n]
  BY <1>1, <1>2, <1>3, <1>4, <1>5
<1> QED BY <1>6 DEF b

LEMMA DepthGrows ==
  ASSUME G!GovernanceAssumption, NEW es, NEW more, es \subseteq more, NEW n \in G!Node
  PROVE  /\ G!T!Depths(TrustIn(es))[n] \in Int /\ G!T!Depths(TrustIn(more))[n] \in Int
         /\ G!T!Depths(TrustIn(es))[n] <= G!T!Depths(TrustIn(more))[n]
<1> DEFINE o == PeerOrder
           B == MaxDepth
           b == [x \in G!Node |-> IF x = First THEN B ELSE -1]
           f == G!T!Rounds(b, o, es, B)
           g == G!T!Rounds(b, o, more, B)
<1>1. B \in Nat /\ OrderOf(o)
  <2>1. o \in Seq(G!Cert) /\ \A e \in G!Cert : EdgeOf(G!Node, e)
    BY CertsAreFinite, PeerOrderIs
  <2>2. Len(o) \in Nat /\ \A k \in 1..Len(o) : o[k] \in G!Cert
    BY <2>1
  <2> QED BY <2>1, <2>2, CertsAreFinite DEF OrderOf
<1>2. b \in Budgets(G!Node, B)
  BY <1>1 DEF Budgets
<1>3. /\ G!T!Depths(TrustIn(es))[n] = IF n = First THEN B ELSE f[n]
      /\ G!T!Depths(TrustIn(more))[n] = IF n = First THEN B ELSE g[n]
  BY DepthIs
<1> HIDE DEF o, B, b
<1>4. PICK Z : AreRounds(o, Len(o), es, b, B + 1, Z) /\ f = Z[B + 1]
  BY <1>1, <1>2, PeerRoundsAre
<1>5. PICK Y : AreRounds(o, Len(o), more, b, B + 1, Y) /\ g = Y[B + 1]
  BY <1>1, <1>2, PeerRoundsAre
<1>6. /\ B + 1 \in Nat /\ B + 1 \in 0..B + 1 /\ B \in Nat
      /\ Len(o) \in Nat /\ (\A k \in 1..Len(o) : EdgeOf(G!Node, o[k]))
  BY <1>1 DEF OrderOf
<1>7. Below(G!Node, Z[B + 1], Y[B + 1])
  BY ONLY <1>2, <1>4, <1>5, <1>6, es \subseteq more, RoundsMonotone
<1>8. Z[B + 1] \in Budgets(G!Node, B) /\ Y[B + 1] \in Budgets(G!Node, B)
  <2>1. \A k \in 0..B + 1 : Z[k] \in Budgets(G!Node, B)
    BY ONLY <1>2, <1>4, <1>6, RoundsGrow
  <2>2. \A k \in 0..B + 1 : Y[k] \in Budgets(G!Node, B)
    BY ONLY <1>2, <1>5, <1>6, RoundsGrow
  <2> QED BY <1>6, <2>1, <2>2
<1> HIDE DEF f, g
<1>9. f[n] <= g[n] /\ f[n] \in Int /\ g[n] \in Int
  BY <1>4, <1>5, <1>7, <1>8 DEF Below, Budgets
<1> QED BY <1>3, <1>6, <1>9

\* Any depth will do.
LEMMA DecideIs ==
  ASSUME NEW t, NEW n
  PROVE  G!T!Decide(t, {[target |-> None, threshold |-> 0]}, {}, n, TRUE) <=> G!T!Depths(t)[n] >= 0
<1> DEFINE p == [target |-> None, threshold |-> 0]
           d == G!T!Depths(t)[n]
<1>1. G!T!ExplicitGrant({}) = "none"
  BY DEF G!T!ExplicitGrant
<1>2. p.target = None /\ p.threshold = 0
  OBVIOUS
<1> HIDE DEF p
<1>3. G!T!Satisfied(t, {p}, n) = {q \in {p} : G!T!TargetApplies(t, q.target, n) /\ d >= q.threshold}
  BY DEF G!T!Satisfied
<1>4. G!T!TargetApplies(t, p.target, n)
  BY <1>2 DEF G!T!TargetApplies
<1> HIDE DEF d
<1>5. (G!T!Satisfied(t, {p}, n) # {}) <=> d >= 0
  BY <1>2, <1>3, <1>4
<1>6. G!T!Decide(t, {p}, {}, n, TRUE) = (G!T!Satisfied(t, {p}, n) # {} /\ TRUE)
  BY <1>1 DEF G!T!Decide
<1> QED BY <1>5, <1>6 DEF p, d

LEMMA MayActIs ==
  /\ \A n : G!MayAct(n) <=> G!T!Depths(TrustIn(edges))[n] >= 0
  /\ \A n : G!MayAct(n)' <=> G!T!Depths(TrustIn(edges'))[n] >= 0
<1>1. \A n : G!MayAct(n) <=> G!T!Decide(TrustIn(edges), {[target |-> None, threshold |-> 0]}, {}, n, TRUE)
  BY DEF G!MayAct, G!Trust, TrustIn
<1>2. \A n : G!MayAct(n)' <=> G!T!Decide(TrustIn(edges'), {[target |-> None, threshold |-> 0]}, {}, n, TRUE)
  BY DEF G!MayAct, G!Trust, TrustIn
<1> QED BY <1>1, <1>2, DecideIs

\* Whoever signs may act, and no step drops an edge.
LEMMA ActsStep ==
  ASSUME [G!GovNext]_(G!govVars)
  PROVE  edges \subseteq edges' /\ \A a \in acts' : a \in acts \/ G!MayAct(a.by)
<1>1. ASSUME NEW n, NEW verbs, NEW on, G!Signed(n, verbs, on)
      PROVE  \A a \in acts' : a \in acts \/ G!MayAct(a.by)
  BY <1>1 DEF G!Signed, G!Act
<1> USE <1>1
<1> USE DEF G!trustVars
<1>2. CASE G!Recovery
  BY <1>2 DEF G!Recovery, G!RecoveryApprove, G!RecoveryStart
<1>3. CASE G!Invites
  BY <1>3 DEF G!Invites, G!Invite
<1>4. CASE G!Passwords
  BY <1>4 DEF G!Passwords, G!SetPassword
<1>5. CASE G!Edges
  BY <1>5 DEF G!Edges, G!Edge
<1>6. CASE G!Grants
  BY <1>6 DEF G!Grants, G!GrantRm, G!GrantAdd
<1>7. CASE G!RolesAndGroups
  BY <1>7 DEF G!RolesAndGroups, G!RoleRm, G!RoleAdd, G!GroupRm, G!GroupAdd, G!GroupAddMember
<1>8. CASE G!Logins
  BY <1>8 DEF G!Logins, G!LoginObserve
<1>9. CASE G!Requests
  BY <1>9 DEF G!Requests, G!Submit, G!Approve, G!Reject
<1>10. CASE UNCHANGED G!govVars
  BY <1>10 DEF G!govVars
<1> QED BY <1>2, <1>3, <1>4, <1>5, <1>6, <1>7, <1>8, <1>9, <1>10 DEF G!GovNext

\* Nobody who signed loses the depth it signed with.
LEMMA SignersKeepActing ==
  ASSUME G!GovernanceAssumption, G!GovTypeOK, G!GovTypeOK', G!SignersMayAct, [G!GovNext]_(G!govVars)
  PROVE  G!SignersMayAct'
<1> SUFFICES ASSUME NEW a \in acts' PROVE G!MayAct(a.by)'
  BY DEF G!SignersMayAct
<1>1. edges \subseteq edges' /\ G!MayAct(a.by)
  BY ActsStep DEF G!SignersMayAct
<1>2. a.by \in G!Node
  BY DEF G!GovTypeOK
<1>3. G!T!Depths(TrustIn(edges))[a.by] >= 0
  BY <1>1, MayActIs
<1>4. /\ G!T!Depths(TrustIn(edges))[a.by] \in Int /\ G!T!Depths(TrustIn(edges'))[a.by] \in Int
      /\ G!T!Depths(TrustIn(edges))[a.by] <= G!T!Depths(TrustIn(edges'))[a.by]
  BY <1>1, <1>2, DepthGrows
<1>5. G!T!Depths(TrustIn(edges'))[a.by] >= 0
  BY <1>3, <1>4
<1> QED BY <1>5, MayActIs

-----------------------------------------------------------------------------
(* The operations together. *)

\* The signed control operations of a node hold together (control_op() and the
\* bootstrap queue): whoever signed anything is still reached by the trust
\* graph, an open recovery lacks approvals for the largest threshold asked
\* for, whatever stands was signed for, a grant check answers from the one
\* document with the user's and the capability's id, every origin but the
\* first was reported, and a request is decided once.
THEOREM GovernanceHolds ==
    ASSUME G!GovernanceAssumption PROVE G!GovSpec => []GovernanceInv
  <1>1. Governed /\ G!SignersMayAct => GovernanceInv
    BY GrantsAreRead DEF Governed, GovernanceInv, G!GovernanceInv
  <1>2. G!GovInit => Governed /\ G!SignersMayAct
    <2>1. G!GovInit => G!SignersMayAct
      BY DEF G!GovInit, G!SignersMayAct
    <2> QED BY <2>1, GovernanceStarts
  <1>3. Governed /\ [G!GovNext]_(G!govVars) => Governed'
    BY GovernanceSteps
  <1>4. Governed /\ Governed' /\ G!SignersMayAct /\ [G!GovNext]_(G!govVars) => G!SignersMayAct'
    BY SignersKeepActing DEF Governed
  <1> QED
    BY <1>1, <1>2, <1>3, <1>4, PTL DEF G!GovSpec

\* RecoveryOp::Approve: a recovery closes only on the approval that completes
\* the quorum, and then as many members have signed as any opening asked for.
LEMMA RecoveryCloses ==
    ASSUME G!GovernanceAssumption, Governed, [G!GovNext]_(G!govVars), NEW h \in Handle,
           recoveries[h] # None, recoveries'[h] = None
    PROVE  \A m \in asked[h] : G!Cardinality({a.by : a \in {x \in acts' :
                                   x.verb = "recovery_approve" /\ x.on = h}}) >= m
  <1>1. /\ recoveries \in [Handle -> G!Quorum \cup {None}] /\ None \notin G!Quorum
        /\ asked \in [Handle -> SUBSET Nat]
    BY DEF Governed, G!GovTypeOK, G!GovernanceAssumption
  <1>2. \E n \in G!Node : G!RecoveryApprove(n, h)
    <2>1. CASE G!Recovery
      <3>1. ASSUME NEW n \in G!Node, NEW k \in Handle, NEW m \in 1..MaxQuorum, G!RecoveryStart(n, k, m)
            PROVE  FALSE
        <4>1. PICK q : recoveries' = [recoveries EXCEPT ![k] = q] /\ q # None
          <5> DEFINE old == recoveries[k]
                     q == IF old = None THEN [m |-> m, approvers |-> {}]
                          ELSE [m |-> G!T!Greatest(old.m, m), approvers |-> old.approvers]
          <5>1. recoveries' = [recoveries EXCEPT ![k] = q]
            BY <3>1 DEF G!RecoveryStart
          <5>2. m \in Nat /\ old \in G!Quorum \cup {None}
            BY <1>1 DEF G!GovernanceAssumption
          <5>3. q \in G!Quorum
            BY <5>2, QuorumFields DEF G!Quorum, G!T!Greatest
          <5> QED
            BY <5>1, <5>3, <1>1
        <4> QED
          BY <4>1, <1>1
      <3>2. ASSUME NEW n \in G!Node, NEW k \in Handle, G!RecoveryApprove(n, k) PROVE k = h
        BY <3>2, <1>1 DEF G!RecoveryApprove
      <3> QED
        BY <2>1, <3>1, <3>2 DEF G!Recovery
    <2>2. CASE UNCHANGED G!recoveryVars
      BY <2>2 DEF G!recoveryVars
    <2>3. CASE ~G!Recovery
      <3>1. UNCHANGED G!recoveryVars
        BY <2>3 DEF G!GovNext, G!Invites, G!Invite, G!Passwords, G!SetPassword, G!Edges, G!Edge,
           G!Grants, G!GrantRm, G!GrantAdd, G!RolesAndGroups, G!RoleRm, G!RoleAdd, G!GroupRm, G!GroupAdd,
           G!GroupAddMember, G!Logins, G!LoginObserve, G!Requests, G!Submit, G!Approve, G!Reject, G!govVars
      <3> QED
        BY <2>2, <3>1
    <2> QED
      BY <2>1, <2>3
  <1>3. PICK n \in G!Node : G!RecoveryApprove(n, h)
    BY <1>2
  <1> DEFINE old == recoveries[h]
             approvers == old.approvers \cup {n}
             signers == G!Signers("recovery_approve", h)'
  <1>4. old \in G!Quorum /\ old.m \in Nat /\ old.approvers \subseteq G!Node
    BY <1>1, QuorumFields
  <1>5. /\ G!Signed(n, {"recovery_approve"}, h) /\ ~(G!Cardinality(approvers) < old.m)
    <2>1. CASE G!Cardinality(approvers) < old.m
      <3>1. recoveries' = [recoveries EXCEPT ![h] = [old EXCEPT !.approvers = approvers]]
        BY <2>1, <1>3 DEF G!RecoveryApprove
      <3>2. [old EXCEPT !.approvers = approvers] \in G!Quorum
        BY <1>4 DEF G!Quorum
      <3> QED
        BY <3>1, <3>2, <1>1
    <2> QED
      BY <2>1, <1>3 DEF G!RecoveryApprove
  <1>6. /\ G!IsFiniteSet(acts') /\ More /\ n \in signers
    <2>1. "recovery_approve" \in G!Verb \ {"new_origin"}
      BY DEF G!Verb
    <2> QED
      BY <2>1, <1>5, SignedStep
  <1>7. IsFiniteSet(signers)
    <2>1. (IsFiniteSet(acts) => \A v, o : IsFiniteSet(G!Signers(v, o)))'
      BY SignersFinite, PTL
    <2> QED
      BY <1>6, <2>1, GovernanceSets
  <1>8. approvers \subseteq signers
    BY <1>6 DEF Governed, G!RecoveriesAreShort, More
  <1>9. /\ Cardinality(approvers) \in Nat /\ Cardinality(signers) \in Nat
        /\ Cardinality(approvers) <= Cardinality(signers)
    BY <1>7, <1>8, FS_Subset, FS_CardinalityType
  <1>10. \A m \in asked[h] : m \in Nat /\ m <= old.m
    BY <1>1 DEF Governed, G!RecoveriesAreShort
  <1>11. signers = {a.by : a \in {x \in acts' : x.verb = "recovery_approve" /\ x.on = h}}
    BY DEF G!Signers
  <1>12. G!Cardinality(signers) = Cardinality(signers) /\ G!Cardinality(approvers) = Cardinality(approvers)
    BY GovernanceSets
  <1> HIDE DEF signers, approvers, old
  <1>13. \A m \in asked[h] : G!Cardinality(signers) >= m
    <2> SUFFICES ASSUME NEW m \in asked[h] PROVE G!Cardinality(signers) >= m
      OBVIOUS
    <2>1. m \in Nat /\ m <= old.m /\ old.m \in Nat
      BY <1>4, <1>10
    <2>2. ~(Cardinality(approvers) < old.m)
      BY <1>5, <1>12
    <2>3. Cardinality(signers) >= m
      BY <2>1, <2>2, <1>9
    <2> QED
      BY <2>3, <1>12
  <1> QED
    BY <1>11, <1>13

\* Break-glass recovery by quorum: a one-time password is handed out only after
\* at least as many distinct members signed an approval as any opening of the
\* recovery asked for.
THEOREM RecoveriesNeedQuorum ==
    ASSUME G!GovernanceAssumption PROVE G!GovSpec => RecoveryNeedsEveryQuorumAsked
  <1>1. G!GovInit => Governed
    BY GovernanceStarts
  <1>2. Governed /\ [G!GovNext]_(G!govVars) => Governed'
    BY GovernanceSteps
  <1>3. Governed /\ [G!GovNext]_(G!govVars) =>
          [\A h \in Handle : recoveries[h] # None /\ recoveries'[h] = None =>
             \A m \in asked[h] : G!Cardinality({a.by : a \in {x \in acts' :
               x.verb = "recovery_approve" /\ x.on = h}}) >= m]_(G!govVars)
    BY RecoveryCloses
  <1> QED
    BY <1>1, <1>2, <1>3, PTL DEF G!GovSpec, RecoveryNeedsEveryQuorumAsked, G!RecoveryNeedsEveryQuorumAsked
=============================================================================
