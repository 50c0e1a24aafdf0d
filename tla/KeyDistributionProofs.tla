----------------------- MODULE KeyDistributionProofs -----------------------
(***************************************************************************)
(* Proofs about keys and what is signed with them: the offer ledger of     *)
(* KeyDistribution, the escrow store, the trust artifacts and the web of   *)
(* trust.  They share no state.                                            *)
(***************************************************************************)
EXTENDS MCKeys, Sequences, InductionLemmas

LEMMA InitLedgerInv == Init => LedgerInv
  BY DEF Init, LedgerInv, TypeOK, SealedMatchesAllowlist, AdmittedByBothSides

LEMMA NextLedgerInv == LedgerInv /\ [Next]_vars => LedgerInv'
<1> SUFFICES ASSUME LedgerInv, [Next]_vars PROVE LedgerInv'
  OBVIOUS
<1> USE KeyDistributionAssumption
<1>t. TypeOK /\ SealedMatchesAllowlist /\ AdmittedByBothSides
  BY DEF LedgerInv
<1>1. ASSUME NEW c \in Cell, NEW users \in SUBSET User, EditSelector(c, users)
      PROVE  LedgerInv'
  <2>1. TypeOK'
    BY <1>t, <1>1 DEF TypeOK, EditSelector
  <2>2. SealedMatchesAllowlist' /\ AdmittedByBothSides'
    BY <1>t, <1>1 DEF EditSelector, SealedMatchesAllowlist, AdmittedByBothSides, DesiredSeal
  <2> QED BY <2>1, <2>2 DEF LedgerInv
<1>2. ASSUME NEW c \in Cell, NEW nodes \in SUBSET Node, EditAllowlist(c, nodes)
      PROVE  LedgerInv'
  <2>1. \A r \in Record : Resealed(c, nodes)[r] \in SUBSET Node
    BY <1>t DEF TypeOK, Resealed, DesiredSeal
  <2>2. Resealed(c, nodes) \in [Record -> SUBSET Node]
    BY <2>1 DEF Resealed
  <2>3. TypeOK'
    BY <1>t, <1>2, <2>2 DEF TypeOK, EditAllowlist
  <2>4. SealedMatchesAllowlist'
    <3> SUFFICES ASSUME NEW r \in Record
                 PROVE  sealed'[r] = IF r \in admitted
                                     THEN DesiredSeal(allow'[r.cell], r \in confirmed)
                                     ELSE {}
      BY <1>2 DEF SealedMatchesAllowlist, EditAllowlist, DesiredSeal
    <3>1. CASE r.cell = c
      BY <1>t, <1>2, <3>1 DEF EditAllowlist, Resealed, SealedMatchesAllowlist, TypeOK
    <3>2. CASE r.cell # c
      BY <1>t, <1>2, <3>2 DEF EditAllowlist, Resealed, SealedMatchesAllowlist, TypeOK
    <3> QED BY <3>1, <3>2
  <2>5. AdmittedByBothSides'
    BY <1>t, <1>2 DEF EditAllowlist, AdmittedByBothSides
  <2> QED BY <2>3, <2>4, <2>5 DEF LedgerInv
<1>3. ASSUME NEW a \in Artifact, RegisterArtifact(a)
      PROVE  LedgerInv'
  BY <1>t, <1>3 DEF LedgerInv, RegisterArtifact, TypeOK, SealedMatchesAllowlist,
                    AdmittedByBothSides, DesiredSeal
<1>4. ASSUME NEW r \in Record, Offer(r)
      PROVE  LedgerInv'
  BY <1>t, <1>4 DEF LedgerInv, Offer, policy, TypeOK, SealedMatchesAllowlist,
                    AdmittedByBothSides, DesiredSeal
<1>5. ASSUME NEW r \in Record, Accept(r)
      PROVE  LedgerInv'
  BY <1>t, <1>5 DEF LedgerInv, Accept, CanAccept, policy, TypeOK, SealedMatchesAllowlist,
                    AdmittedByBothSides, DesiredSeal
<1>6. ASSUME NEW r \in Record, ConfirmCrossOwner(r)
      PROVE  LedgerInv'
  <2>1. r.cell \in Cell
    BY DEF Record
  <2>2. TypeOK'
    BY <1>t, <1>6, <2>1 DEF ConfirmCrossOwner, policy, TypeOK
  <2>3. SealedMatchesAllowlist'
    <3> SUFFICES ASSUME NEW q \in Record
                 PROVE  sealed'[q] = IF q \in admitted
                                     THEN DesiredSeal(allow[q.cell], q \in confirmed')
                                     ELSE {}
      BY <1>6 DEF SealedMatchesAllowlist, ConfirmCrossOwner, policy, DesiredSeal
    <3>1. CASE q = r
      BY <1>t, <1>6, <3>1 DEF ConfirmCrossOwner, SealedMatchesAllowlist, DesiredSeal, TypeOK
    <3>2. CASE q # r
      BY <1>t, <1>6, <3>2 DEF ConfirmCrossOwner, SealedMatchesAllowlist, TypeOK
    <3> QED BY <3>1, <3>2
  <2>4. AdmittedByBothSides'
    BY <1>t, <1>6 DEF ConfirmCrossOwner, AdmittedByBothSides
  <2> QED BY <2>2, <2>3, <2>4 DEF LedgerInv
<1>7. ASSUME NEW r \in Record, NEW acceptances, CanAdmit(r, acceptances), Admitted(r),
             accepted' = acceptances, accepted \subseteq acceptances,
             acceptances \subseteq Record,
             UNCHANGED <<policy, offered, confirmed>>
      PROVE  LedgerInv'
  <2>1. r.cell \in Cell
    BY DEF Record
  <2>2. DesiredSeal(allow[r.cell], r \in confirmed) \in SUBSET Node
    BY <1>t, <2>1 DEF TypeOK, DesiredSeal
  <2>3. TypeOK'
    BY <1>t, <1>7, <2>2 DEF Admitted, policy, TypeOK
  <2>4. SealedMatchesAllowlist'
    BY <1>t, <1>7 DEF Admitted, policy, SealedMatchesAllowlist, DesiredSeal, TypeOK
  <2>5. AdmittedByBothSides'
    BY <1>t, <1>7 DEF Admitted, CanAdmit, AdmittedByBothSides
  <2> QED BY <2>3, <2>4, <2>5 DEF LedgerInv
<1>8. ASSUME NEW r \in Record, Admit(r)
      PROVE  LedgerInv'
  BY <1>t, <1>7, <1>8 DEF Admit, TypeOK
<1>9. ASSUME NEW r \in Record, Resolve(r)
      PROVE  LedgerInv'
  <2>1. CASE CanAdmit(r, accepted \cup {r})
    BY <1>t, <1>7, <1>9, <2>1 DEF Resolve, TypeOK
  <2>2. CASE ~CanAdmit(r, accepted \cup {r})
    BY <1>t, <1>9, <2>2 DEF LedgerInv, Resolve, policy, TypeOK, SealedMatchesAllowlist,
                            AdmittedByBothSides, DesiredSeal
  <2> QED BY <2>1, <2>2
<1>10. ASSUME NEW r \in Record, RevokeOffer(r)
       PROVE  LedgerInv'
  BY <1>t, <1>10 DEF LedgerInv, RevokeOffer, policy, TypeOK, SealedMatchesAllowlist,
                     AdmittedByBothSides, DesiredSeal
<1>11. CASE UNCHANGED vars
  BY <1>t, <1>11 DEF LedgerInv, vars, TypeOK, SealedMatchesAllowlist,
                     AdmittedByBothSides, DesiredSeal
<1>12. ASSUME NEW c \in Cell, NEW u \in User, AddUser(c, u) \/ RemoveUser(c, u)
       PROVE  LedgerInv'
  BY <1>t, <1>1, <1>12 DEF AddUser, RemoveUser, TypeOK
<1>13. ASSUME NEW c \in Cell, NEW n \in Node, AddNode(c, n) \/ RemoveNode(c, n)
       PROVE  LedgerInv'
  BY <1>t, <1>2, <1>13 DEF AddNode, RemoveNode, TypeOK
<1> QED
  BY <1>3, <1>4, <1>5, <1>6, <1>8, <1>9, <1>10, <1>11, <1>12, <1>13 DEF Next

\* Whatever sequence of offers, confirmations, revocations and policy edits a
\* ledger sees, its seals are the ones the current policy gives and every
\* admission has both consents (KeyDistributionLedger).
THEOREM LedgerInvariant == Spec => []LedgerInv
  BY InitLedgerInv, NextLedgerInv, PTL DEF Spec

\* The seal targets never lag behind the allow-list (the re-seal of
\* reseal_admitted_records_of reaches every admitted record).
THEOREM SealsFollowPolicy == Spec => []SealedMatchesAllowlist
<1>1. LedgerInv => SealedMatchesAllowlist
  BY DEF LedgerInv
<1> QED BY <1>1, LedgerInvariant, PTL

\* Admission takes an offer that still stands and an acceptance, and never a
\* root key: revoke_offer is fail-closed.
THEOREM ConsentOfBothSides == Spec => []AdmittedByBothSides
<1>1. LedgerInv => AdmittedByBothSides
  BY DEF LedgerInv
<1> QED BY <1>1, LedgerInvariant, PTL

\* No foreign node is ever a recipient of an unconfirmed record (the gate of
\* admit, desired_seal and confirm_cross_owner together).
THEOREM ForeignGate == Spec => []ForeignNeedsConfirmation
<1>1. LedgerInv => ForeignNeedsConfirmation
  BY DEF LedgerInv, SealedMatchesAllowlist, ForeignNeedsConfirmation, DesiredSeal
<1> QED BY <1>1, LedgerInvariant, PTL

-----------------------------------------------------------------------------
(***************************************************************************)
(* KeyEscrow.  EscrowInv is inductive with its type part, which also says  *)
(* that finitely many tokens are spent.                                    *)
(***************************************************************************)

LEMMA EscrowSets ==
    ASSUME NEW S
    PROVE  (E!IsFiniteSet(S) <=> IsFiniteSet(S)) /\ E!Cardinality(S) = Cardinality(S)
  BY DEF E!IsFiniteSet, IsFiniteSet, E!Cardinality, Cardinality

LEMMA EscrowInvInit ==
    ASSUME E!EscrowAssumption, E!Init PROVE E!EscrowInv
  <1>1. E!EscrowTypeOK
    BY FS_EmptySet, EscrowSets DEF E!EscrowAssumption, E!Init, E!EscrowTypeOK
  <1>2. E!NoRootEscrow
    BY DEF E!EscrowAssumption, E!Init, E!NoRootEscrow
  <1>3. E!OneReleasePerToken
    <2>1. signed = 0 /\ consumed = {} /\ Cardinality({}) = 0
      BY FS_EmptySet DEF E!Init
    <2>2. QED
      BY <2>1, EscrowSets DEF E!OneReleasePerToken
  <1>4. QED
    BY <1>1, <1>2, <1>3 DEF E!EscrowInv

LEMMA EscrowInvStep ==
    ASSUME E!EscrowAssumption, E!EscrowInv, [E!Next]_E!vars PROVE E!EscrowInv'
  <1>1. E!EscrowTypeOK /\ E!NoRootEscrow /\ E!OneReleasePerToken
    BY DEF E!EscrowInv
  <1>2. ASSUME NEW a \in Artifact, NEW p \in Password, E!Store(a, p) PROVE E!EscrowInv'
    BY <1>1, <1>2 DEF E!Store, E!EscrowInv, E!EscrowTypeOK, E!NoRootEscrow, E!OneReleasePerToken
  <1>3. ASSUME NEW a \in Artifact, NEW p \in Password, E!Recover(a, p) PROVE E!EscrowInv'
    BY <1>1, <1>3 DEF E!Recover, E!Opens, E!EscrowInv, E!EscrowTypeOK, E!NoRootEscrow,
                      E!OneReleasePerToken
  <1>4. ASSUME NEW a \in Artifact, NEW p \in Password, NEW t \in Token, E!RecoverForSigning(a, p, t)
        PROVE  E!EscrowInv'
    <2>1. /\ consumed' = consumed \cup {t} /\ t \notin consumed /\ envelope' = envelope
          /\ signed < MaxSigned
          /\ \/ /\ envelope[a] # None /\ decrypted' = decrypted \cup {a} /\ signed' = signed + 1
             \/ decrypted' = decrypted /\ signed' = signed
      BY <1>4 DEF E!RecoverForSigning, E!Consume, E!Opens
    <2>2. /\ IsFiniteSet(consumed') /\ Cardinality(consumed') = Cardinality(consumed) + 1
          /\ Cardinality(consumed) \in Nat
      <3>1. IsFiniteSet(consumed)
        BY <1>1, EscrowSets DEF E!EscrowTypeOK
      <3>2. QED
        BY <2>1, <3>1, FS_AddElement, FS_CardinalityType
    <2>3. signed \in Nat /\ MaxSigned \in Nat /\ signed' \in 0..MaxSigned /\ signed' <= signed + 1
      BY <1>1, <2>1 DEF E!EscrowTypeOK, E!EscrowAssumption
    <2>4. E!OneReleasePerToken'
      <3>1. signed <= Cardinality(consumed)
        BY <1>1, EscrowSets DEF E!OneReleasePerToken
      <3>2. signed' <= Cardinality(consumed')
        BY <2>2, <2>3, <3>1
      <3>3. QED
        BY <3>2, EscrowSets DEF E!OneReleasePerToken
    <2>5. E!EscrowTypeOK' /\ E!NoRootEscrow'
      <3>1. E!IsFiniteSet(consumed')
        BY <2>2, EscrowSets
      <3>2. QED
        BY <1>1, <2>1, <2>3, <3>1 DEF E!EscrowTypeOK, E!NoRootEscrow
    <2>6. QED
      BY <2>4, <2>5 DEF E!EscrowInv
  <1>5. CASE UNCHANGED E!vars
    BY <1>1, <1>5 DEF E!vars, E!EscrowInv, E!EscrowTypeOK, E!NoRootEscrow, E!OneReleasePerToken
  <1>6. QED
    BY <1>2, <1>3, <1>4, <1>5 DEF E!Next

\* Whatever is stored, recovered and retried, no root is in the escrow store
\* and no release for signing goes without a step-up token of its own.
THEOREM EscrowInvariant ==
    ASSUME E!EscrowAssumption PROVE E!Spec => []EscrowInv
  BY EscrowInvInit, EscrowInvStep, PTL DEF E!Spec, EscrowInv

-----------------------------------------------------------------------------
(***************************************************************************)
(* TrustArtifacts.  RevokedIsGone and RolesComeFromGenesis both need that  *)
(* no attest is of a later epoch than the store.                           *)
(***************************************************************************)

LEMMA ArtifactInvInit ==
    ASSUME A!ArtifactAssumption, A!ArtifactInit PROVE A!ArtifactInv
  BY DEF A!ArtifactAssumption, A!ArtifactInit, A!ArtifactInv, A!ArtifactTypeOK, A!RevokedIsGone,
         A!RolesComeFromGenesis, A!BudgetsHold

LEMMA ArtifactInvStep ==
    ASSUME A!ArtifactAssumption, A!ArtifactInv, [A!ArtifactNext]_(A!artifactVars) PROVE A!ArtifactInv'
  <1>1. A!ArtifactTypeOK /\ A!RevokedIsGone /\ A!RolesComeFromGenesis /\ A!BudgetsHold
    BY DEF A!ArtifactInv
  <1>2. ASSUME \A a \in revokedAttests' : a \in attests' /\ a.epoch < epoch'
        PROVE  A!RevokedIsGone'
    BY <1>2 DEF A!RevokedIsGone, A!Verify, A!Chain
  <1>3. ASSUME NEW n \in Member, NEW m \in Member, NEW c \in Role \cup {Self}, NEW p,
               NEW q \in Quota \cup {None},
               A!Issue([issuer |-> n, subject |-> m, capacity |-> c, authority |-> p, quota |-> q,
                        epoch |-> epoch])
        PROVE  A!ArtifactInv'
    <2> DEFINE a == [issuer |-> n, subject |-> m, capacity |-> c, authority |-> p, quota |-> q,
                     epoch |-> epoch]
    <2>1. /\ a.issuer = n /\ a.subject = m /\ a.capacity = c /\ a.quota = q /\ a.epoch = epoch
      OBVIOUS
    <2> HIDE DEF a
    <2>2. /\ attests' = attests \cup {a} /\ revokedAttests' = revokedAttests /\ epoch' = epoch /\ drawn' = drawn
          /\ c # Self => n = Genesis \/ \E b \in attests : b.capacity = c
      BY <1>3, <2>1 DEF A!Issue, A!Decides, A!HoldsCapacity, a
    <2>3. A!ArtifactTypeOK'
      BY <1>1, <2>1, <2>2 DEF A!ArtifactTypeOK
    <2>4. A!RevokedIsGone'
      BY <1>1, <1>2, <2>2 DEF A!RevokedIsGone
    <2>5. A!RolesComeFromGenesis'
      <3> SUFFICES ASSUME NEW x \in attests', x.capacity # Self
                   PROVE  \E b \in attests' : /\ b.issuer = Genesis /\ b.capacity = x.capacity
                                             /\ b.epoch <= x.epoch
        BY DEF A!RolesComeFromGenesis
      <3>1. CASE x \in attests
        BY <1>1, <2>2, <3>1 DEF A!RolesComeFromGenesis
      <3>2. CASE x = a /\ n = Genesis
        BY <1>1, <2>1, <2>2, <3>2 DEF A!ArtifactTypeOK
      <3>3. CASE x = a /\ n # Genesis
        <4>1. PICK b \in attests : b.capacity = c
          BY <2>1, <2>2, <3>3
        <4>2. PICK g \in attests : g.issuer = Genesis /\ g.capacity = c /\ g.epoch <= b.epoch
          BY <1>1, <2>1, <3>3, <4>1 DEF A!RolesComeFromGenesis
        <4>3. g.epoch <= epoch
          BY <1>1 DEF A!ArtifactTypeOK
        <4>4. QED
          BY <2>1, <2>2, <3>3, <4>2, <4>3
      <3>4. QED
        BY <2>2, <3>1, <3>2, <3>3
    <2>6. A!BudgetsHold'
      BY <1>1, <2>2 DEF A!BudgetsHold
    <2>7. QED
      BY <2>3, <2>4, <2>5, <2>6 DEF A!ArtifactInv
  <1>4. ASSUME NEW a \in attests, A!Revoke(a) PROVE A!ArtifactInv'
    <2>1. /\ revokedAttests' = revokedAttests \cup {a} /\ epoch' = epoch + 1 /\ epoch < MaxEpoch
          /\ attests' = attests /\ drawn' = drawn
      BY <1>4 DEF A!Revoke
    <2>2. A!ArtifactTypeOK'
      BY <1>1, <2>1 DEF A!ArtifactTypeOK, A!ArtifactAssumption
    <2>3. A!RevokedIsGone'
      BY <1>1, <1>2, <2>1 DEF A!RevokedIsGone, A!ArtifactTypeOK
    <2>4. A!RolesComeFromGenesis' /\ A!BudgetsHold'
      BY <1>1, <2>1 DEF A!RolesComeFromGenesis, A!BudgetsHold
    <2>5. QED
      BY <2>2, <2>3, <2>4 DEF A!ArtifactInv
  <1>5. ASSUME NEW a \in attests, NEW amount \in 1..a.quota, a.quota # None, A!AdmitQuota(a, amount)
        PROVE  A!ArtifactInv'
    <2>1. /\ drawn' = [x \in DOMAIN drawn \cup {a} |-> IF x = a THEN A!Used(a) + amount ELSE drawn[x]]
          /\ A!Used(a) + amount <= a.quota
          /\ attests' = attests /\ revokedAttests' = revokedAttests /\ epoch' = epoch
      BY <1>5 DEF A!AdmitQuota
    <2>2. A!Used(a) \in Nat /\ amount \in Nat
      BY <1>1, <1>5 DEF A!ArtifactTypeOK, A!Used, A!ArtifactAssumption
    <2>3. /\ DOMAIN drawn' = DOMAIN drawn \cup {a} /\ drawn'[a] \in Nat /\ drawn'[a] <= a.quota
          /\ \A x \in DOMAIN drawn \ {a} : drawn'[x] = drawn[x]
      BY <2>1, <2>2
    <2>4. A!ArtifactTypeOK'
      BY <1>1, <2>1, <2>3 DEF A!ArtifactTypeOK
    <2>5. A!BudgetsHold'
      BY <1>1, <1>5, <2>1, <2>3 DEF A!BudgetsHold
    <2>6. A!RevokedIsGone' /\ A!RolesComeFromGenesis'
      BY <1>1, <1>2, <2>1 DEF A!RevokedIsGone, A!RolesComeFromGenesis
    <2>7. QED
      BY <2>4, <2>5, <2>6 DEF A!ArtifactInv
  <1>6. CASE UNCHANGED A!artifactVars
    <2>1. attests' = attests /\ revokedAttests' = revokedAttests /\ epoch' = epoch /\ drawn' = drawn
      BY <1>6 DEF A!artifactVars
    <2>2. A!RevokedIsGone'
      BY <1>1, <1>2, <2>1 DEF A!RevokedIsGone
    <2>3. QED
      BY <1>1, <2>1, <2>2 DEF A!ArtifactInv, A!ArtifactTypeOK, A!RolesComeFromGenesis, A!BudgetsHold
  <1>7. QED
    BY <1>3, <1>4, <1>5, <1>6 DEF A!ArtifactNext

\* Revocation is final, every role descends from one genesis handed out, and no
\* budget is overdrawn, whatever is issued, revoked and drawn in any order.
THEOREM ArtifactInvariant ==
    ASSUME A!ArtifactAssumption PROVE A!ArtifactSpec => []A!ArtifactInv
  BY ArtifactInvInit, ArtifactInvStep, PTL DEF A!ArtifactSpec

-----------------------------------------------------------------------------
(* The rounds of reachable_depth(). *)

LEMMA RelaxedIs ==
  ASSUME NEW B \in Nat, NEW b \in Budgets(Peer, B), NEW e, EdgeOf(Peer, e), NEW valid
  PROVE  RelaxStep(valid, b, e) = IF e \in valid THEN T!Relaxed(b, e) ELSE b
<1>1. b[e.signer] \in Int
  BY DEF Budgets, EdgeOf
<1>2. CASE e \in valid /\ b[e.signer] > 0
  <2>1. ~(b[e.signer] <= 0)
    BY <1>1, <1>2
  <2> QED BY <1>2, <2>1 DEF RelaxStep, T!Relaxed, T!Granted, T!Greatest, T!Least, Smaller
<1>3. CASE ~(e \in valid /\ b[e.signer] > 0)
  <2>1. e \in valid => b[e.signer] <= 0
    BY <1>1, <1>3
  <2> QED BY <1>3, <2>1 DEF RelaxStep, T!Relaxed
<1> QED BY <1>2, <1>3

LEMMA OrderIs ==
  ASSUME T!TrustAssumption, NEW o \in Orders
  PROVE  /\ Len(o) \in Nat /\ (\A k \in 1..Len(o) : EdgeOf(Peer, o[k]))
         /\ \A e \in Cert : \E i \in 1..Len(o) : o[i] = e
<1>1. o \in Seq(Cert) /\ T!Range(o) = Cert /\ Cert \subseteq [signer : Peer, subject : Peer, level : Nat]
  BY DEF T!TrustAssumption
<1>2. Len(o) \in Nat /\ DOMAIN o = 1..Len(o) /\ \A k \in 1..Len(o) : o[k] \in Cert
  BY <1>1
<1> QED BY <1>1, <1>2 DEF T!Range, EdgeOf

LEMMA RoundIs ==
  ASSUME T!TrustAssumption, NEW o \in Orders, NEW valid, NEW B \in Nat, NEW b \in Budgets(Peer, B)
  PROVE  IsRound(o, Len(o), valid, b, T!Round(b, o, valid))
<1> DEFINE m == Len(o)
           IsAfter(f) == f = [i \in 0..m |-> IF i = 0 THEN b
                                  ELSE IF o[i] \in valid THEN T!Relaxed(f[i - 1], o[i]) ELSE f[i - 1]]
           g == CHOOSE f : IsAfter(f)
<1>1. m \in Nat /\ \A k \in 1..m : EdgeOf(Peer, o[k])
  BY OrderIs
<1>2. T!Round(b, o, valid) = g[m]
  BY DEF T!Round
<1> HIDE DEF m
<1>3. \E f : IsAfter(f)
  <2>1. PICK f : IsRun(o, m, valid, b, f) /\ \A k \in 0..m : f[k] \in Budgets(Peer, B)
    BY ONLY <1>1, B \in Nat, b \in Budgets(Peer, B), RunExists
  <2>2. \A k \in 0..m : k # 0 => f[k - 1] \in Budgets(Peer, B) /\ EdgeOf(Peer, o[k])
    BY <1>1, <2>1
  <2>3. \A k \in 0..m : k # 0 =>
           RelaxStep(valid, f[k - 1], o[k]) = IF o[k] \in valid THEN T!Relaxed(f[k - 1], o[k]) ELSE f[k - 1]
    BY <2>2, RelaxedIs
  <2>4. IsAfter(f)
    BY <2>1, <2>3 DEF IsRun
  <2> QED BY <2>4
<1>4. IsAfter(g)
  BY <1>3
<1> HIDE DEF g
<1>5. g[0] = b
  BY <1>1, <1>4
<1>6. \A k \in 0..m : k # m => /\ k + 1 \in 1..m /\ EdgeOf(Peer, o[k + 1])
                               /\ g[k + 1] = IF o[k + 1] \in valid THEN T!Relaxed(g[k], o[k + 1]) ELSE g[k]
  <2> SUFFICES ASSUME NEW k \in 0..m, k # m
               PROVE  /\ k + 1 \in 1..m /\ EdgeOf(Peer, o[k + 1])
                      /\ g[k + 1] = IF o[k + 1] \in valid THEN T!Relaxed(g[k], o[k + 1]) ELSE g[k]
    OBVIOUS
  <2>1. k + 1 \in 1..m /\ k + 1 \in 0..m /\ k + 1 # 0 /\ (k + 1) - 1 = k
    BY <1>1
  <2> QED BY <1>1, <1>4, <2>1
<1> HIDE DEF IsAfter
<1> DEFINE S == {k \in 0..m : g[k] \in Budgets(Peer, B)}
<1>7. \A k \in 0..m : k # m /\ k \in S => g[k + 1] = RelaxStep(valid, g[k], o[k + 1])
  BY <1>6, RelaxedIs
<1>8. 0 \in S
  BY <1>1, <1>5
<1>9. \A k \in 0..m : k # m /\ k \in S => k + 1 \in S
  <2> SUFFICES ASSUME NEW k \in 0..m, k # m, k \in S PROVE k + 1 \in S
    OBVIOUS
  <2>1. g[k] \in Budgets(Peer, B) /\ EdgeOf(Peer, o[k + 1]) /\ B \in Nat
    BY <1>6
  <2>2. RelaxStep(valid, g[k], o[k + 1]) \in Budgets(Peer, B)
    BY ONLY <2>1, RelaxStepGrows
  <2>3. k + 1 \in 0..m
    BY <1>1
  <2> QED BY <1>7, <2>2, <2>3
<1>10. \A k \in 0..m : k \in S
  <2> HIDE DEF S
  <2> QED BY ONLY <1>1, <1>8, <1>9, InductionUpTo
<1>11. RunOf(o, m, valid, g)
  <2> SUFFICES ASSUME NEW k \in 1..m PROVE g[k] = RelaxStep(valid, g[k - 1], o[k])
    BY DEF RunOf
  <2>1. k - 1 \in 0..m /\ k - 1 # m /\ (k - 1) + 1 = k
    BY <1>1
  <2> QED BY <1>7, <1>10, <2>1
<1>12. IsRound(o, m, valid, b, g[m])
  BY <1>5, <1>11 DEF IsRound
<1> QED BY <1>2, <1>12 DEF m

LEMMA RoundsAre ==
  ASSUME T!TrustAssumption, NEW o \in Orders, NEW valid, NEW B \in Nat, NEW b \in Budgets(Peer, B)
  PROVE  \E Z : /\ AreRounds(o, Len(o), valid, b, B + 1, Z)
                /\ T!Rounds(b, o, valid, B) = Z[B + 1]
<1> DEFINE r == B + 1
           D == Budgets(Peer, B)
           IsAfter(f) == f = [k \in 0..r |-> IF k = 0 THEN b ELSE T!Round(f[k - 1], o, valid)]
           g == CHOOSE f : IsAfter(f)
           F == [p \in D \X (1..r) |-> T!Round(p[1], o, valid)]
<1>1. r \in Nat /\ Len(o) \in Nat /\ \A k \in 1..Len(o) : EdgeOf(Peer, o[k])
  BY OrderIs
<1>2. T!Rounds(b, o, valid, B) = g[r]
  BY DEF T!Rounds
<1>3. \A x \in D : T!Round(x, o, valid) \in D
  <2> SUFFICES ASSUME NEW x \in D PROVE T!Round(x, o, valid) \in D
    OBVIOUS
  <2>1. IsRound(o, Len(o), valid, x, T!Round(x, o, valid)) /\ x \in Budgets(Peer, B)
    BY RoundIs
  <2> QED BY ONLY <1>1, <2>1, B \in Nat, RoundGrows
<1>4. \A x \in D : \A k \in 1..r : F[<<x, k>>] = T!Round(x, o, valid)
  OBVIOUS
<1>5. b \in D
  OBVIOUS
<1> HIDE DEF r, D, F
<1>6. \E f : IsAfter(f)
  <2>1. PICK f : IterateMap(F, b, r, f)
    BY <1>1, IterateExists
  <2>2. \A k \in 0..r : f[k] \in D
    <3>1. \A x \in D : \A k \in 1..r : F[<<x, k>>] \in D
      BY <1>3, <1>4
    <3> QED BY <1>1, <1>5, <2>1, <3>1, IterateStays
  <2>3. \A k \in 0..r : k # 0 => k - 1 \in 0..r /\ k \in 1..r
    BY <1>1
  <2>4. \A k \in 0..r : k # 0 => F[<<f[k - 1], k>>] = T!Round(f[k - 1], o, valid)
    BY <1>4, <2>2, <2>3
  <2>5. IsAfter(f)
    BY <2>1, <2>4 DEF IterateMap
  <2> QED BY <2>5
<1>7. IsAfter(g)
  BY <1>6
<1> HIDE DEF g
<1>8. g[0] = b
  BY <1>1, <1>7
<1>9. \A k \in 1..r : g[k] = T!Round(g[k - 1], o, valid)
  BY <1>1, <1>7
<1> HIDE DEF IsAfter
<1> DEFINE S == {k \in 0..r : g[k] \in D}
<1>10. 0 \in S
  BY <1>1, <1>5, <1>8
<1>11. \A k \in 0..r : k # r /\ k \in S => k + 1 \in S
  <2> SUFFICES ASSUME NEW k \in 0..r, k # r, k \in S PROVE k + 1 \in S
    OBVIOUS
  <2>1. k + 1 \in 1..r /\ k + 1 \in 0..r /\ (k + 1) - 1 = k
    BY <1>1
  <2> QED BY <1>3, <1>9, <2>1
<1>12. \A k \in 0..r : k \in S
  <2> HIDE DEF S
  <2> QED BY ONLY <1>1, <1>10, <1>11, InductionUpTo
<1>13. \A k \in 1..r : IsRound(o, Len(o), valid, g[k - 1], g[k])
  <2> SUFFICES ASSUME NEW k \in 1..r PROVE IsRound(o, Len(o), valid, g[k - 1], g[k])
    OBVIOUS
  <2>1. k - 1 \in 0..r
    BY <1>1
  <2>2. g[k - 1] \in Budgets(Peer, B)
    BY <1>12, <2>1 DEF D
  <2> QED BY <1>9, <2>2, RoundIs
<1>14. AreRounds(o, Len(o), valid, b, r, g)
  BY <1>8, <1>13 DEF AreRounds
<1> QED BY <1>2, <1>14 DEF r

-----------------------------------------------------------------------------
(* The chains they are compared with. *)

TrustType(t) ==
    /\ t.edges \subseteq Cert /\ t.keys \subseteq Peer
    /\ t.pairs \subseteq Peer \X Peer /\ t.direct \subseteq Peer

LEMMA ValidIs ==
  ASSUME T!TrustAssumption, NEW t, TrustType(t)
  PROVE  T!Valid(t) \subseteq Cert /\ \A e \in T!Valid(t) : EdgeOf(Peer, e)
  BY DEF T!TrustAssumption, TrustType, T!Valid, EdgeOf

LEMMA ArrivalsAre ==
  ASSUME T!TrustAssumption, NEW t, TrustType(t), NEW root \in Peer, NEW B \in Nat
  PROVE  \E R : /\ AreArrivals(T!Valid(t), root, B, R)
                /\ T!Arrivals(t, root, B) = R[B]
                /\ R[B] \subseteq Peer \X (0..B)
<1> DEFINE valid == T!Valid(t)
           D == SUBSET (Peer \X (0..B))
           More(X) == X \cup {<<p[2].subject, T!Least(p[1] - 1, p[2].level)>> : p \in
                                {x \in (1..B) \X valid : <<x[2].signer, x[1]>> \in X}}
           base == {<<root, B>>}
           IsAfter(f) == f = [k \in 0..B |-> IF k = 0 THEN base ELSE More(f[k - 1])]
           g == CHOOSE f : IsAfter(f)
           F == [p \in D \X (1..B) |-> More(p[1])]
<1>0. \A e \in valid : EdgeOf(Peer, e)
  BY ValidIs
<1>1. T!Arrivals(t, root, B) = g[B]
  BY DEF T!Arrivals
<1>2. base \in D
  OBVIOUS
<1>3. \A X : \A r : r \in More(X) <=>
              \/ r \in X
              \/ \E e \in valid : \E p \in 1..B : <<e.signer, p>> \in X /\ r = <<e.subject, Smaller(p - 1, e.level)>>
  <2> SUFFICES ASSUME NEW X, NEW r
               PROVE  r \in More(X) <=>
                        \/ r \in X
                        \/ \E e \in valid : \E p \in 1..B :
                              <<e.signer, p>> \in X /\ r = <<e.subject, Smaller(p - 1, e.level)>>
    OBVIOUS
  <2>1. ASSUME r \in More(X), r \notin X
        PROVE  \E e \in valid : \E p \in 1..B : <<e.signer, p>> \in X /\ r = <<e.subject, Smaller(p - 1, e.level)>>
    <3>1. PICK p \in (1..B) \X valid : <<p[2].signer, p[1]>> \in X /\ r = <<p[2].subject, T!Least(p[1] - 1, p[2].level)>>
      BY <2>1
    <3>2. p[1] \in 1..B /\ p[2] \in valid
      BY <3>1
    <3> QED BY <3>1, <3>2 DEF T!Least, Smaller
  <2>2. ASSUME NEW e \in valid, NEW p \in 1..B, <<e.signer, p>> \in X, r = <<e.subject, Smaller(p - 1, e.level)>>
        PROVE  r \in More(X)
    <3> DEFINE x == <<p, e>>
    <3>1. x \in (1..B) \X valid /\ x[1] = p /\ x[2] = e
      OBVIOUS
    <3>2. r = <<x[2].subject, T!Least(x[1] - 1, x[2].level)>> /\ <<x[2].signer, x[1]>> \in X
      BY <2>2, <3>1 DEF T!Least, Smaller
    <3> QED BY <3>1, <3>2
  <2> QED BY <2>1, <2>2
<1> HIDE DEF More
<1>4. \A X \in D : More(X) \in D
  <2> SUFFICES ASSUME NEW X \in D, NEW r \in More(X) PROVE r \in Peer \X (0..B)
    OBVIOUS
  <2>1. CASE r \in X
    BY <2>1
  <2>2. CASE r \notin X
    <3>1. PICK e \in valid : \E p \in 1..B : <<e.signer, p>> \in X /\ r = <<e.subject, Smaller(p - 1, e.level)>>
      BY <1>3, <2>2
    <3>2. PICK p \in 1..B : <<e.signer, p>> \in X /\ r = <<e.subject, Smaller(p - 1, e.level)>>
      BY <3>1
    <3>3. e.subject \in Peer /\ e.level \in Nat
      BY <1>0 DEF EdgeOf
    <3>4. Smaller(p - 1, e.level) \in 0..B
      BY <3>3 DEF Smaller
    <3> QED BY <3>2, <3>3, <3>4
  <2> QED BY <2>1, <2>2
<1>5. \A X \in D : \A k \in 1..B : F[<<X, k>>] = More(X)
  OBVIOUS
<1>6. \A X \in D : \A k \in 1..B : F[<<X, k>>] \in D
  BY <1>4, <1>5
<1> HIDE DEF D, F, base, valid
<1>7. \E f : IsAfter(f)
  <2>1. PICK f : IterateMap(F, base, B, f)
    BY IterateExists
  <2>2. \A k \in 0..B : f[k] \in D
    BY <1>2, <1>6, <2>1, IterateStays
  <2>3. \A k \in 0..B : k # 0 => k - 1 \in 0..B /\ k \in 1..B
    OBVIOUS
  <2>4. \A k \in 0..B : k # 0 => F[<<f[k - 1], k>>] = More(f[k - 1])
    BY <1>5, <2>2, <2>3
  <2>5. IsAfter(f)
    BY <2>1, <2>4 DEF IterateMap
  <2> QED BY <2>5
<1>8. IsAfter(g)
  BY <1>7
<1> HIDE DEF g
<1>9. g[0] = base /\ \A k \in 1..B : g[k] = More(g[k - 1])
  BY <1>8
<1> HIDE DEF IsAfter
<1>10. AreArrivals(valid, root, B, g)
  BY <1>3, <1>9 DEF AreArrivals, base
<1> DEFINE S == {k \in 0..B : g[k] \in D}
<1>11. 0 \in S
  BY <1>2, <1>9
<1>12. \A k \in 0..B : k # B /\ k \in S => k + 1 \in S
  <2> SUFFICES ASSUME NEW k \in 0..B, k # B, k \in S PROVE k + 1 \in S
    OBVIOUS
  <2>1. k + 1 \in 1..B /\ k + 1 \in 0..B /\ (k + 1) - 1 = k
    OBVIOUS
  <2> QED BY <1>4, <1>9, <2>1
<1>13. \A k \in 0..B : k \in S
  <2> HIDE DEF S
  <2> QED BY ONLY B \in Nat, <1>11, <1>12, InductionUpTo
<1>14. g[B] \subseteq Peer \X (0..B)
  BY <1>13 DEF D
<1> QED BY <1>1, <1>10, <1>14 DEF valid

-----------------------------------------------------------------------------
(* Depths. *)

Start(root, B) == [x \in Peer |-> IF x = root THEN B ELSE -1]

LEMMA StartIs ==
  ASSUME NEW root \in Peer, NEW B \in Nat
  PROVE  Start(root, B) \in Budgets(Peer, B) /\ StartWith(Peer, root, B, Start(root, B))
  BY DEF Start, Budgets, StartWith

\* The budgets the rounds end with are the best of the arrivals.
LEMMA BestIs ==
  ASSUME T!TrustAssumption, NEW t, TrustType(t), NEW o \in Orders, NEW root \in Peer, NEW B \in Nat,
         NEW best, best = T!Rounds(Start(root, B), o, T!Valid(t), B)
  PROVE  /\ best[root] = B
         /\ \A n \in Peer : /\ best[n] \in -1..B
                            /\ best[n] >= 0 => <<n, best[n]>> \in T!Arrivals(t, root, B)
                            /\ \A q : <<n, q>> \in T!Arrivals(t, root, B) => q \in 0..B /\ q <= best[n]
<1> DEFINE b == Start(root, B)
           valid == T!Valid(t)
<1>1. b \in Budgets(Peer, B) /\ StartWith(Peer, root, B, b)
  BY StartIs
<1>2. /\ Len(o) \in Nat /\ (\A k \in 1..Len(o) : EdgeOf(Peer, o[k]))
      /\ \A e \in Cert : \E i \in 1..Len(o) : o[i] = e
  BY OrderIs
<1>3. valid \subseteq Cert
  BY ValidIs
<1>4. \A e \in valid : \E i \in 1..Len(o) : o[i] = e
  BY <1>2, <1>3
<1>5. PICK Z : AreRounds(o, Len(o), valid, b, B + 1, Z) /\ T!Rounds(b, o, valid, B) = Z[B + 1]
  BY <1>1, RoundsAre
<1>6. PICK R : AreArrivals(valid, root, B, R) /\ T!Arrivals(t, root, B) = R[B]
  BY ArrivalsAre
<1> HIDE DEF b, valid
<1>7. \A n \in Peer :
        /\ Z[B + 1][n] \in -1..B
        /\ Z[B + 1][n] >= 0 => <<n, Z[B + 1][n]>> \in R[B]
        /\ \A q : <<n, q>> \in R[B] => q \in 0..B /\ q <= Z[B + 1][n]
  BY ONLY <1>1, <1>2, <1>4, <1>5, <1>6, root \in Peer, B \in Nat, RoundsFindBest
<1>8. best = Z[B + 1]
  BY <1>5 DEF b, valid
<1>9. <<root, B>> \in R[B]
  <2>1. R[0] \subseteq R[B]
    <3>1. 0 \in 0..B /\ B \in 0..B /\ 0 <= B
      OBVIOUS
    <3> QED BY <1>6, <3>1, ArrivalsGrow
  <2> QED BY <1>6, <2>1 DEF AreArrivals
<1>10. best[root] \in -1..B /\ B <= best[root]
  BY <1>7, <1>8, <1>9
<1> QED BY <1>6, <1>7, <1>8, <1>10

LEMMA DepthsFromIs ==
  ASSUME T!TrustAssumption, NEW t, TrustType(t), NEW o \in Orders, NEW root \in Peer, NEW B \in Nat
  PROVE  /\ T!DepthsFrom(t, root, B, o) =
                [n \in Peer |-> IF {n, root} \cap t.keys # {} THEN -1
                                ELSE T!Rounds(Start(root, B), o, T!Valid(t), B)[n]]
         /\ \A n \in Peer : T!DepthsFrom(t, root, B, o)[n] \in -1..B
<1> DEFINE best == T!Rounds(Start(root, B), o, T!Valid(t), B)
<1>1. best[root] = B /\ \A n \in Peer : best[n] \in -1..B
  <2> HIDE DEF best
  <2>1. best = T!Rounds(Start(root, B), o, T!Valid(t), B)
    BY DEF best
  <2>2. /\ best[root] = B
        /\ \A n \in Peer : /\ best[n] \in -1..B
                           /\ best[n] >= 0 => <<n, best[n]>> \in T!Arrivals(t, root, B)
                           /\ \A q : <<n, q>> \in T!Arrivals(t, root, B) => q \in 0..B /\ q <= best[n]
    BY ONLY <2>1, T!TrustAssumption, TrustType(t), o \in Orders, root \in Peer, B \in Nat, BestIs
  <2> QED BY <2>2
<1>2. T!DepthsFrom(t, root, B, o) =
        [n \in Peer |-> IF {n, root} \cap t.keys # {} THEN -1 ELSE IF n = root THEN B ELSE best[n]]
  BY DEF T!DepthsFrom, Start
<1> HIDE DEF best
<1>3. T!DepthsFrom(t, root, B, o) = [n \in Peer |-> IF {n, root} \cap t.keys # {} THEN -1 ELSE best[n]]
  BY <1>1, <1>2
<1>4. \A n \in Peer : T!DepthsFrom(t, root, B, o)[n] \in -1..B
  BY <1>1, <1>3
<1> QED BY <1>3, <1>4 DEF best

\* Whatever the order of the edges, reachable_depth_from() is the best path.
LEMMA DepthsAreBest ==
  ASSUME T!TrustAssumption, NEW t, TrustType(t), NEW o \in Orders, NEW root \in Peer, NEW B \in Nat
  PROVE  T!DepthsFrom(t, root, B, o) = T!BestPaths(t, root, B)
<1> DEFINE best == T!Rounds(Start(root, B), o, T!Valid(t), B)
           arrivals == T!Arrivals(t, root, B)
           budgets(n) == {a[2] : a \in {p \in arrivals : p[1] = n}}
<1>1. \A n \in Peer : /\ best[n] \in -1..B
                      /\ best[n] >= 0 => <<n, best[n]>> \in arrivals
                      /\ \A q : <<n, q>> \in arrivals => q \in 0..B /\ q <= best[n]
  <2> HIDE DEF best
  <2>1. best = T!Rounds(Start(root, B), o, T!Valid(t), B)
    BY DEF best
  <2> QED BY <2>1, BestIs
<1>2. arrivals \subseteq Peer \X (0..B)
  BY ArrivalsAre
<1>3. T!BestPaths(t, root, B) =
        [n \in Peer |-> IF {n, root} \cap t.keys # {} \/ budgets(n) = {} THEN -1 ELSE T!Max(budgets(n))]
  BY DEF T!BestPaths
<1> HIDE DEF best, arrivals
<1>4. \A n \in Peer : \A q : q \in budgets(n) <=> <<n, q>> \in arrivals
  <2> SUFFICES ASSUME NEW n \in Peer, NEW q PROVE q \in budgets(n) <=> <<n, q>> \in arrivals
    OBVIOUS
  <2>1. ASSUME q \in budgets(n) PROVE <<n, q>> \in arrivals
    <3>1. PICK a \in arrivals : a[1] = n /\ q = a[2]
      BY <2>1
    <3>2. a = <<a[1], a[2]>>
      BY <1>2, <3>1
    <3> QED BY <3>1, <3>2
  <2>2. ASSUME <<n, q>> \in arrivals PROVE q \in budgets(n)
    <3> DEFINE a == <<n, q>>
    <3>1. a \in arrivals /\ a[1] = n /\ a[2] = q
      BY <2>2
    <3> HIDE DEF a
    <3> QED BY <3>1
  <2> QED BY <2>1, <2>2
<1> HIDE DEF budgets
<1>5. ASSUME NEW n \in Peer
      PROVE  best[n] = IF budgets(n) = {} THEN -1 ELSE T!Max(budgets(n))
  <2>0. /\ best[n] \in -1..B
        /\ \A q : <<n, q>> \in arrivals => q \in 0..B /\ q <= best[n]
    BY <1>1
  <2>1. best[n] \in Int /\ best[n] >= -1
    BY ONLY <2>0, B \in Nat
  <2>2. \A q \in budgets(n) : q \in Int /\ q >= 0 /\ q <= best[n]
    <3>1. \A q \in budgets(n) : q \in 0..B /\ q <= best[n]
      BY <1>4, <2>0
    <3> QED BY ONLY <3>1, B \in Nat
  <2>3. CASE budgets(n) = {}
    <3>1. ~(best[n] >= 0)
      BY <1>1, <1>4, <2>3
    <3> QED BY <2>1, <2>3, <3>1
  <2>4. CASE budgets(n) # {}
    <3>1. best[n] >= 0
      BY <2>1, <2>2, <2>4
    <3>2. best[n] \in budgets(n)
      BY <1>1, <1>4, <3>1
    <3>3. \E x \in budgets(n) : \A y \in budgets(n) : x >= y
      BY <2>1, <2>2, <3>2
    <3>4. T!Max(budgets(n)) \in budgets(n) /\ \A y \in budgets(n) : T!Max(budgets(n)) >= y
      BY <3>3 DEF T!Max
    <3>5. T!Max(budgets(n)) = best[n]
      BY <2>1, <2>2, <3>2, <3>4
    <3> QED BY <2>4, <3>5
  <2> QED BY <2>3, <2>4
<1>6. T!DepthsFrom(t, root, B, o) = [n \in Peer |-> IF {n, root} \cap t.keys # {} THEN -1 ELSE best[n]]
  BY DepthsFromIs DEF best
<1> QED BY <1>3, <1>5, <1>6

\* More valid edges and no more revoked keys leave nobody with less.
LEMMA DepthsMonotone ==
  ASSUME T!TrustAssumption, NEW t, TrustType(t), NEW u, TrustType(u),
         T!Valid(t) \subseteq T!Valid(u), u.keys \subseteq t.keys
  PROVE  \A n \in Peer : /\ T!Depths(t)[n] \in -1..MaxDepth /\ T!Depths(u)[n] \in -1..MaxDepth
                         /\ T!Depths(t)[n] <= T!Depths(u)[n]
<1> DEFINE o == CHOOSE x \in Orders : TRUE
           B == MaxDepth
           b == Start(Owner, B)
           f == T!Rounds(b, o, T!Valid(t), B)
           g == T!Rounds(b, o, T!Valid(u), B)
<1>1. o \in Orders /\ Owner \in Peer /\ B \in Nat
  BY DEF T!TrustAssumption
<1>2. T!Depths(t) = T!DepthsFrom(t, Owner, B, o) /\ T!Depths(u) = T!DepthsFrom(u, Owner, B, o)
  BY DEF T!Depths
<1> HIDE DEF o, B
<1>3. /\ Len(o) \in Nat /\ (\A k \in 1..Len(o) : EdgeOf(Peer, o[k]))
  BY <1>1, OrderIs
<1>4. b \in Budgets(Peer, B)
  BY <1>1, StartIs
<1>5. PICK Z : AreRounds(o, Len(o), T!Valid(t), b, B + 1, Z) /\ f = Z[B + 1]
  BY <1>1, <1>4, RoundsAre
<1>6. PICK Y : AreRounds(o, Len(o), T!Valid(u), b, B + 1, Y) /\ g = Y[B + 1]
  BY <1>1, <1>4, RoundsAre
<1>7. Below(Peer, f, g)
  <2>1. B + 1 \in Nat /\ B \in Nat
    BY <1>1
  <2>2. Below(Peer, Z[B + 1], Y[B + 1])
    <3> HIDE DEF b
    <3> QED BY ONLY <1>3, <1>4, <1>5, <1>6, <2>1, T!Valid(t) \subseteq T!Valid(u), RoundsMonotone
  <2> QED BY <1>5, <1>6, <2>2
<1>8. /\ T!Depths(t) = [n \in Peer |-> IF {n, Owner} \cap t.keys # {} THEN -1 ELSE f[n]]
      /\ \A n \in Peer : T!Depths(t)[n] \in -1..B
  BY <1>1, <1>2, DepthsFromIs
<1>9. /\ T!Depths(u) = [n \in Peer |-> IF {n, Owner} \cap u.keys # {} THEN -1 ELSE g[n]]
      /\ \A n \in Peer : T!Depths(u)[n] \in -1..B
  BY <1>1, <1>2, DepthsFromIs
<1> HIDE DEF f, g
<1> SUFFICES ASSUME NEW n \in Peer PROVE T!Depths(t)[n] <= T!Depths(u)[n]
  BY <1>8, <1>9 DEF B
<1>10. T!Depths(t)[n] \in -1..B /\ T!Depths(u)[n] \in -1..B
  BY <1>8, <1>9
<1>11. CASE {n, Owner} \cap t.keys # {}
  <2>1. T!Depths(t)[n] = -1
    BY <1>8, <1>11
  <2> QED BY <1>1, <1>10, <2>1
<1>12. CASE {n, Owner} \cap t.keys = {}
  <2>1. {n, Owner} \cap u.keys = {}
    BY <1>12
  <2>2. T!Depths(t)[n] = f[n] /\ T!Depths(u)[n] = g[n]
    BY <1>8, <1>9, <1>12, <2>1
  <2>3. f[n] <= g[n]
    BY <1>7 DEF Below
  <2> QED BY <2>2, <2>3
<1> QED BY <1>11, <1>12

LEMMA RevocationReduces ==
  ASSUME T!TrustAssumption, NEW t, TrustType(t), NEW u, TrustType(u), t.edges = u.edges,
         u.keys \subseteq t.keys, u.pairs \subseteq t.pairs, u.direct \subseteq t.direct
  PROVE  \A n \in Peer :
            /\ T!Depths(t)[n] <= T!Depths(u)[n]
            /\ T!IsAuthoritative(t, n) => T!IsAuthoritative(u, n)
            /\ T!CanRelay(t, n) => T!CanRelay(u, n)
            /\ \A g \in Peer : T!IsGroupMember(t, g, n) => T!IsGroupMember(u, g, n)
<1>1. T!Valid(t) \subseteq T!Valid(u)
  BY DEF T!Valid
<1>2. \A n \in Peer : /\ T!Depths(t)[n] \in -1..MaxDepth /\ T!Depths(u)[n] \in -1..MaxDepth
                      /\ T!Depths(t)[n] <= T!Depths(u)[n]
  BY <1>1, DepthsMonotone
<1> SUFFICES ASSUME NEW n \in Peer
             PROVE  /\ T!Depths(t)[n] <= T!Depths(u)[n]
                    /\ T!IsAuthoritative(t, n) => T!IsAuthoritative(u, n)
                    /\ T!CanRelay(t, n) => T!CanRelay(u, n)
                    /\ \A g \in Peer : T!IsGroupMember(t, g, n) => T!IsGroupMember(u, g, n)
  OBVIOUS
<1>3. T!Depths(t)[n] <= T!Depths(u)[n] /\ T!Depths(t)[n] \in Int /\ T!Depths(u)[n] \in Int
  BY <1>2
<1>4. T!IsAuthoritative(t, n) => T!IsAuthoritative(u, n)
  BY <1>3 DEF T!IsAuthoritative
<1>5. T!CanRelay(t, n) => T!CanRelay(u, n)
  BY <1>1, <1>4 DEF T!CanRelay
<1>6. \A g \in Peer : T!IsGroupMember(t, g, n) => T!IsGroupMember(u, g, n)
  BY <1>1 DEF T!IsGroupMember
<1> QED BY <1>3, <1>4, <1>5, <1>6

LEMMA EdgeNarrows ==
  ASSUME T!TrustAssumption, NEW t, TrustType(t), NEW u, TrustType(u), NEW e \in Cert, u.edges = t.edges \cup {e},
         u.keys = t.keys, u.pairs = t.pairs, u.direct = t.direct,
         NEW n \in Peer, T!Depths(u)[n] > T!Depths(t)[n]
  PROVE  T!Depths(u)[n] < T!Depths(t)[e.signer]
<1> DEFINE o == CHOOSE x \in Orders : TRUE
           B == MaxDepth
           b == Start(Owner, B)
           f == T!Rounds(b, o, T!Valid(t), B)
           g == T!Rounds(b, o, T!Valid(u), B)
<1>1. o \in Orders /\ Owner \in Peer /\ B \in Nat /\ e.signer \in Peer
  BY DEF T!TrustAssumption
<1>2. T!Depths(t) = T!DepthsFrom(t, Owner, B, o) /\ T!Depths(u) = T!DepthsFrom(u, Owner, B, o)
  BY DEF T!Depths
<1> HIDE DEF o, B
<1>3. T!Depths(t) = [x \in Peer |-> IF {x, Owner} \cap t.keys # {} THEN -1 ELSE f[x]]
  BY <1>1, <1>2, DepthsFromIs
<1>4. T!Depths(u) = [x \in Peer |-> IF {x, Owner} \cap t.keys # {} THEN -1 ELSE g[x]]
  BY <1>1, <1>2, DepthsFromIs
<1>5. {n, Owner} \cap t.keys = {}
  <2>1. CASE {n, Owner} \cap t.keys # {}
    <3>1. T!Depths(u)[n] = -1 /\ T!Depths(t)[n] = -1
      BY <1>3, <1>4, <2>1
    <3> QED BY <3>1
  <2> QED BY <2>1
<1>6. T!Depths(u)[n] = g[n] /\ T!Depths(t)[n] = f[n]
  BY <1>3, <1>4, <1>5
<1>7. T!Valid(t) \subseteq T!Valid(u) /\ \A d \in T!Valid(u) \ T!Valid(t) : d = e
  BY DEF T!Valid
<1>8. e \in T!Valid(u)
  <2> SUFFICES ASSUME e \notin T!Valid(u) PROVE FALSE
    OBVIOUS
  <2>1. T!Valid(u) = T!Valid(t)
    BY <1>7
  <2>2. g = f
    BY <2>1
  <2>3. f[n] \in Int
    <3>1. T!DepthsFrom(t, Owner, B, o)[n] \in -1..B
      BY <1>1, DepthsFromIs
    <3> QED BY <1>1, <1>2, <1>6, <3>1
  <2> QED BY <1>6, <2>2, <2>3
<1>9. e.signer \notin t.keys
  BY <1>8 DEF T!Valid
<1>10. T!Depths(t)[e.signer] = f[e.signer]
  BY <1>1, <1>3, <1>5, <1>9
<1>11. \A x \in Peer : /\ f[x] \in -1..B
                       /\ f[x] >= 0 => <<x, f[x]>> \in T!Arrivals(t, Owner, B)
                       /\ \A q : <<x, q>> \in T!Arrivals(t, Owner, B) => q \in 0..B /\ q <= f[x]
  <2>1. f = T!Rounds(Start(Owner, B), o, T!Valid(t), B)
    OBVIOUS
  <2> HIDE DEF f
  <2> QED BY ONLY <1>1, <2>1, T!TrustAssumption, TrustType(t), BestIs
<1>12. \A x \in Peer : /\ g[x] \in -1..B
                       /\ g[x] >= 0 => <<x, g[x]>> \in T!Arrivals(u, Owner, B)
  <2>1. g = T!Rounds(Start(Owner, B), o, T!Valid(u), B)
    OBVIOUS
  <2> HIDE DEF g
  <2>2. \A x \in Peer : /\ g[x] \in -1..B
                        /\ g[x] >= 0 => <<x, g[x]>> \in T!Arrivals(u, Owner, B)
                        /\ \A q : <<x, q>> \in T!Arrivals(u, Owner, B) => q \in 0..B /\ q <= g[x]
    BY ONLY <1>1, <2>1, T!TrustAssumption, TrustType(u), BestIs
  <2> QED BY <2>2
<1>13. PICK R : AreArrivals(T!Valid(t), Owner, B, R) /\ T!Arrivals(t, Owner, B) = R[B]
  BY <1>1, ArrivalsAre
<1>14. PICK C : AreArrivals(T!Valid(u), Owner, B, C) /\ T!Arrivals(u, Owner, B) = C[B]
  BY <1>1, ArrivalsAre
<1>15. \A d \in T!Valid(u) : EdgeOf(Peer, d)
  BY ValidIs
<1> HIDE DEF f, g
<1>16. \A k \in 0..B : \A x \in C[k] :
          x \in R[k] \/ \E p \in 1..B : <<e.signer, p>> \in R[B] /\ x[2] < p
  <2>1. \A d \in T!Valid(u) \ T!Valid(t) : d.signer = e.signer
    BY <1>7
  <2> QED BY ONLY <1>1, <1>13, <1>14, <1>15, <2>1, NewEdgeNarrows
<1>17. f[n] \in Int /\ g[n] \in Int /\ f[n] >= -1 /\ g[n] > f[n]
  <2>1. f[n] \in -1..B /\ g[n] \in -1..B
    BY <1>11, <1>12
  <2>2. g[n] > f[n]
    BY <1>6
  <2> QED BY ONLY <1>1, <2>1, <2>2
<1>18. <<n, g[n]>> \in C[B] /\ B \in 0..B
  BY <1>1, <1>12, <1>14, <1>17
<1>19. <<n, g[n]>> \notin R[B]
  <2> SUFFICES ASSUME <<n, g[n]>> \in R[B] PROVE FALSE
    OBVIOUS
  <2>1. g[n] <= f[n]
    BY <1>11, <1>13
  <2> QED BY <1>17, <2>1
<1>20. PICK p \in 1..B : <<e.signer, p>> \in R[B] /\ <<n, g[n]>>[2] < p
  BY <1>16, <1>18, <1>19
<1>21. g[n] < p /\ p <= f[e.signer] /\ f[e.signer] \in -1..B
  BY <1>1, <1>11, <1>13, <1>20
<1>22. g[n] < f[e.signer]
  BY <1>1, <1>17, <1>21
<1> QED BY <1>6, <1>10, <1>22

-----------------------------------------------------------------------------
(* The web of trust as a whole. *)

\* A watermark counts what its actor has seen, which is still revoked.
Marked(a) ==
    \E k, p, d : /\ seen[a] = <<k, p, d>>
                 /\ k \subseteq trust.keys /\ p \subseteq trust.pairs /\ d \subseteq trust.direct
                 /\ mark[a] = Cardinality(k) + Cardinality(p) + Cardinality(d)

TrustCore ==
    /\ trust \in [edges : SUBSET Cert, keys : SUBSET Peer, pairs : SUBSET (Peer \X Peer), direct : SUBSET Peer]
    /\ IsFiniteSet(trust.keys) /\ IsFiniteSet(trust.pairs) /\ IsFiniteSet(trust.direct)
    /\ DOMAIN mark = Actor /\ DOMAIN seen = Actor
    /\ \A a \in Actor : Marked(a)

LEMMA TrustCardinality ==
    ASSUME NEW S PROVE T!Cardinality(S) = Cardinality(S)
  BY DEF T!IsFiniteSet, IsFiniteSet, T!Cardinality, Cardinality

LEMMA CountIs ==
    ASSUME NEW t PROVE T!RevCount(t) = Cardinality(t.keys) + Cardinality(t.pairs) + Cardinality(t.direct)
  BY TrustCardinality DEF T!RevCount

LEMMA TrustCoreInit == ASSUME T!Init PROVE TrustCore
<1>1. trust = [edges |-> {}, keys |-> {}, pairs |-> {}, direct |-> {}]
  BY DEF T!Init, T!NoTrust
<1>2. IsFiniteSet({}) /\ Cardinality({}) = 0
  BY FS_EmptySet
<1>3. trust.keys = {} /\ trust.pairs = {} /\ trust.direct = {} /\ trust.edges = {}
  BY <1>1
<1>4. \A a \in Actor : mark[a] = 0 /\ seen[a] = <<{}, {}, {}>>
  BY DEF T!Init, T!NoTrust, T!Revoked
<1>5. \A a \in Actor : Marked(a)
  <2> SUFFICES ASSUME NEW a \in Actor PROVE Marked(a)
    OBVIOUS
  <2>1. mark[a] = Cardinality({}) + Cardinality({}) + Cardinality({})
    BY <1>2, <1>4
  <2> QED BY <1>3, <1>4, <2>1 DEF Marked
<1> QED BY <1>1, <1>2, <1>3, <1>5 DEF TrustCore, T!Init

\* A step that only adds to the trust state keeps the actors' marks counted.
LEMMA TrustCoreGrows ==
  ASSUME TrustCore, UNCHANGED <<mark, seen>>,
         trust' \in [edges : SUBSET Cert, keys : SUBSET Peer, pairs : SUBSET (Peer \X Peer), direct : SUBSET Peer],
         trust.keys \subseteq trust'.keys, trust.pairs \subseteq trust'.pairs, trust.direct \subseteq trust'.direct,
         IsFiniteSet(trust'.keys), IsFiniteSet(trust'.pairs), IsFiniteSet(trust'.direct)
  PROVE  TrustCore'
<1>1. \A a \in Actor : Marked(a)'
  <2> SUFFICES ASSUME NEW a \in Actor PROVE Marked(a)'
    OBVIOUS
  <2>1. PICK k, p, d : /\ seen[a] = <<k, p, d>>
                       /\ k \subseteq trust.keys /\ p \subseteq trust.pairs /\ d \subseteq trust.direct
                       /\ mark[a] = Cardinality(k) + Cardinality(p) + Cardinality(d)
    BY DEF TrustCore, Marked
  <2>2. k \subseteq trust'.keys /\ p \subseteq trust'.pairs /\ d \subseteq trust'.direct
    BY <2>1
  <2>3. seen'[a] = <<k, p, d>> /\ mark'[a] = Cardinality(k) + Cardinality(p) + Cardinality(d)
    BY <2>1
  <2> QED BY <2>2, <2>3 DEF Marked
<1> QED BY <1>1 DEF TrustCore

\* What each operation makes of the trust state.
LEMMA TrustSteps ==
  ASSUME T!TrustAssumption, TrustCore, T!Next
  PROVE  \/ \E e \in Cert : /\ trust' = [trust EXCEPT !.edges = trust.edges \cup {e}]
                            /\ UNCHANGED <<mark, seen>>
         \/ \E n \in Peer : /\ trust' = [trust EXCEPT !.keys = trust.keys \cup {n}]
                            /\ UNCHANGED <<mark, seen>>
         \/ \E n \in Peer, m \in Peer : /\ trust' = [trust EXCEPT !.pairs = trust.pairs \cup {<<n, m>>}]
                                        /\ UNCHANGED <<mark, seen>>
         \/ \E n \in Peer : /\ trust' = [trust EXCEPT !.direct = trust.direct \cup {n}]
                            /\ UNCHANGED <<mark, seen>>
         \/ \E a \in Actor : T!Refresh(a)
<1>1. ASSUME NEW e \in Cert, T!IssueEdge(e)
      PROVE  trust' = [trust EXCEPT !.edges = trust.edges \cup {e}] /\ UNCHANGED <<mark, seen>>
  BY <1>1 DEF T!IssueEdge, T!Change
<1>2. ASSUME NEW e \in Cert, T!RevokeEdge(e)
      PROVE  /\ trust' = [trust EXCEPT !.pairs = trust.pairs \cup {<<e.signer, e.subject>>}]
             /\ UNCHANGED <<mark, seen>>
             /\ e.signer \in Peer /\ e.subject \in Peer
  BY <1>2 DEF T!RevokeEdge, T!Change, T!TrustAssumption
<1>3. ASSUME NEW n \in Peer, T!RevokeKey(n)
      PROVE  trust' = [trust EXCEPT !.keys = trust.keys \cup {n}] /\ UNCHANGED <<mark, seen>>
  BY <1>3 DEF T!RevokeKey, T!Change
<1>4. ASSUME NEW n \in Peer, T!RevokeGrant(n)
      PROVE  trust' = [trust EXCEPT !.direct = trust.direct \cup {n}] /\ UNCHANGED <<mark, seen>>
  BY <1>4 DEF T!RevokeGrant, T!Change
<1> QED BY <1>1, <1>2, <1>3, <1>4 DEF T!Next

LEMMA TrustCoreStep ==
  ASSUME T!TrustAssumption, TrustCore, T!Next PROVE TrustCore'
<1> USE DEF TrustCore
<1>1. ASSUME NEW e \in Cert, trust' = [trust EXCEPT !.edges = trust.edges \cup {e}], UNCHANGED <<mark, seen>>
      PROVE  TrustCore'
  <2>1. /\ trust'.keys = trust.keys /\ trust'.pairs = trust.pairs /\ trust'.direct = trust.direct
        /\ trust'.edges = trust.edges \cup {e}
        /\ trust' \in [edges : SUBSET Cert, keys : SUBSET Peer, pairs : SUBSET (Peer \X Peer), direct : SUBSET Peer]
    BY <1>1
  <2> QED BY <1>1, <2>1, TrustCoreGrows
<1>2. ASSUME NEW n \in Peer, trust' = [trust EXCEPT !.keys = trust.keys \cup {n}], UNCHANGED <<mark, seen>>
      PROVE  TrustCore'
  <2>1. /\ trust'.pairs = trust.pairs /\ trust'.direct = trust.direct /\ trust'.keys = trust.keys \cup {n}
        /\ trust' \in [edges : SUBSET Cert, keys : SUBSET Peer, pairs : SUBSET (Peer \X Peer), direct : SUBSET Peer]
    BY <1>2
  <2>2. IsFiniteSet(trust'.keys)
    BY <2>1, FS_AddElement
  <2> QED BY <1>2, <2>1, <2>2, TrustCoreGrows
<1>3. ASSUME NEW n \in Peer, NEW m \in Peer, trust' = [trust EXCEPT !.pairs = trust.pairs \cup {<<n, m>>}],
             UNCHANGED <<mark, seen>>
      PROVE  TrustCore'
  <2>1. /\ trust'.keys = trust.keys /\ trust'.direct = trust.direct /\ trust'.pairs = trust.pairs \cup {<<n, m>>}
        /\ trust' \in [edges : SUBSET Cert, keys : SUBSET Peer, pairs : SUBSET (Peer \X Peer), direct : SUBSET Peer]
    BY <1>3
  <2>2. IsFiniteSet(trust'.pairs)
    <3>1. IsFiniteSet(trust.pairs)
      OBVIOUS
    <3>2. IsFiniteSet(trust.pairs \cup {<<n, m>>})
      BY ONLY <3>1, FS_AddElement
    <3> QED BY <2>1, <3>2
  <2> QED BY <1>3, <2>1, <2>2, TrustCoreGrows
<1>4. ASSUME NEW n \in Peer, trust' = [trust EXCEPT !.direct = trust.direct \cup {n}], UNCHANGED <<mark, seen>>
      PROVE  TrustCore'
  <2>1. /\ trust'.keys = trust.keys /\ trust'.pairs = trust.pairs /\ trust'.direct = trust.direct \cup {n}
        /\ trust' \in [edges : SUBSET Cert, keys : SUBSET Peer, pairs : SUBSET (Peer \X Peer), direct : SUBSET Peer]
    BY <1>4
  <2>2. IsFiniteSet(trust'.direct)
    BY <2>1, FS_AddElement
  <2> QED BY <1>4, <2>1, <2>2, TrustCoreGrows
<1>5. ASSUME NEW a \in Actor, T!Refresh(a) PROVE TrustCore'
  <2>1. /\ trust' = trust /\ DOMAIN mark' = Actor /\ DOMAIN seen' = Actor
        /\ mark'[a] = Cardinality(trust.keys) + Cardinality(trust.pairs) + Cardinality(trust.direct)
        /\ seen'[a] = <<trust.keys, trust.pairs, trust.direct>>
        /\ \A b \in Actor : b # a => mark'[b] = mark[b] /\ seen'[b] = seen[b]
    BY <1>5, CountIs DEF T!Refresh, T!Revoked
  <2>2. \A b \in Actor : Marked(b)'
    <3> SUFFICES ASSUME NEW b \in Actor PROVE Marked(b)'
      OBVIOUS
    <3>1. CASE b = a
      <4>1. trust.keys \subseteq trust'.keys /\ trust.pairs \subseteq trust'.pairs /\ trust.direct \subseteq trust'.direct
        BY <2>1
      <4> QED BY <2>1, <3>1, <4>1 DEF Marked
    <3>2. CASE b # a
      BY <2>1, <3>2 DEF Marked
    <3> QED BY <3>1, <3>2
  <2> QED BY <2>1, <2>2
<1> QED BY <1>1, <1>2, <1>3, <1>4, <1>5, TrustSteps

LEMMA CoreIsTyped == ASSUME TrustCore PROVE TrustType(trust)
  BY DEF TrustCore, TrustType

\* Equal counts of sets that only grew are counts of equal sets.
LEMMA SeenAll == ASSUME TrustCore PROVE T!ActorHasSeenAll
<1> SUFFICES ASSUME NEW a \in Actor, mark[a] = T!RevCount(trust) PROVE seen[a] = T!Revoked(trust)
  BY DEF T!ActorHasSeenAll, T!CanAct
<1>1. PICK k, p, d : /\ seen[a] = <<k, p, d>>
                     /\ k \subseteq trust.keys /\ p \subseteq trust.pairs /\ d \subseteq trust.direct
                     /\ mark[a] = Cardinality(k) + Cardinality(p) + Cardinality(d)
  BY DEF TrustCore, Marked
<1>2. IsFiniteSet(trust.keys) /\ IsFiniteSet(trust.pairs) /\ IsFiniteSet(trust.direct)
  BY DEF TrustCore
<1>3. /\ Cardinality(k) \in Nat /\ Cardinality(trust.keys) \in Nat /\ Cardinality(k) <= Cardinality(trust.keys)
      /\ Cardinality(k) = Cardinality(trust.keys) => k = trust.keys
  BY <1>1, <1>2, FS_Subset, FS_CardinalityType
<1>4. /\ Cardinality(p) \in Nat /\ Cardinality(trust.pairs) \in Nat /\ Cardinality(p) <= Cardinality(trust.pairs)
      /\ Cardinality(p) = Cardinality(trust.pairs) => p = trust.pairs
  BY <1>1, <1>2, FS_Subset, FS_CardinalityType
<1>5. /\ Cardinality(d) \in Nat /\ Cardinality(trust.direct) \in Nat /\ Cardinality(d) <= Cardinality(trust.direct)
      /\ Cardinality(d) = Cardinality(trust.direct) => d = trust.direct
  BY <1>1, <1>2, FS_Subset, FS_CardinalityType
<1>6. Cardinality(k) + Cardinality(p) + Cardinality(d)
        = Cardinality(trust.keys) + Cardinality(trust.pairs) + Cardinality(trust.direct)
  BY <1>1, CountIs
<1>7. /\ Cardinality(k) = Cardinality(trust.keys) /\ Cardinality(p) = Cardinality(trust.pairs)
      /\ Cardinality(d) = Cardinality(trust.direct)
  BY ONLY <1>3, <1>4, <1>5, <1>6
<1>8. k = trust.keys /\ p = trust.pairs /\ d = trust.direct
  BY <1>3, <1>4, <1>5, <1>7
<1> QED BY <1>1, <1>8 DEF T!Revoked

\* Every rung explain() names is one decide() takes.
LEMMA ExplainsDecisions == T!ExplainMatchesDecide
<1> SUFFICES ASSUME NEW policies \in SUBSET Policy, NEW effects \in SUBSET {"allow", "deny"},
                    NEW n \in Peer, NEW steppedUp \in BOOLEAN
             PROVE  T!Decide(trust, policies, effects, n, steppedUp)
                      <=> T!Explain(trust, policies, effects, n, steppedUp) \in {"explicit_allow", "depth_default"}
  BY DEF T!ExplainMatchesDecide
<1> DEFINE g == T!ExplicitGrant(effects)
           met == T!Satisfied(trust, policies, n) # {}
<1>1. g \in {"deny", "allow", "none"} /\ met \in BOOLEAN
  BY DEF T!ExplicitGrant
<1>2. CASE g = "deny"
  <2>1. T!Decide(trust, policies, effects, n, steppedUp) = FALSE
    BY <1>2 DEF T!Decide
  <2>2. T!Explain(trust, policies, effects, n, steppedUp) = "explicit_deny"
    BY <1>2 DEF T!Explain
  <2> QED BY <2>1, <2>2
<1>3. CASE g = "allow"
  <2>1. T!Decide(trust, policies, effects, n, steppedUp) = steppedUp
    BY <1>3 DEF T!Decide
  <2>2. T!Explain(trust, policies, effects, n, steppedUp)
          = IF steppedUp THEN "explicit_allow" ELSE "step_up_required"
    BY <1>3 DEF T!Explain
  <2> QED BY <2>1, <2>2
<1>4. CASE g = "none"
  <2>1. T!Decide(trust, policies, effects, n, steppedUp) = (met /\ steppedUp)
    BY <1>4 DEF T!Decide
  <2>2. T!Explain(trust, policies, effects, n, steppedUp)
          = IF ~met THEN "deny_all" ELSE IF steppedUp THEN "depth_default" ELSE "step_up_required"
    BY <1>4 DEF T!Explain
  <2> HIDE DEF met
  <2> QED BY <1>1, <2>1, <2>2
<1> QED BY <1>1, <1>2, <1>3, <1>4

LEMMA BestPaths ==
  ASSUME T!TrustAssumption, TrustCore PROVE T!DepthIsBestPath
<1>1. MaxDepth \in Nat
  BY DEF T!TrustAssumption
<1> SUFFICES ASSUME NEW root \in Peer, NEW o \in Orders
             PROVE  T!DepthsFrom(trust, root, MaxDepth, o) = T!BestPaths(trust, root, MaxDepth)
  BY DEF T!DepthIsBestPath
<1> QED BY <1>1, CoreIsTyped, DepthsAreBest

-----------------------------------------------------------------------------
(* The composition: one component moves, the others stay. *)

mcVars == <<vars, escrowVars, trustVars, artifactVars, part>>

LEMMA TrustMoves ==
    ASSUME [MCNext]_mcVars PROVE T!Next \/ UNCHANGED <<trust, mark, seen>>
  BY DEF MCNext, mcVars, trustVars

LEMMA ArtifactsMove ==
    ASSUME [MCNext]_mcVars PROVE [A!ArtifactNext]_(A!artifactVars)
  BY DEF MCNext, mcVars, artifactVars, A!artifactVars

LEMMA TrustCoreAlways ==
    ASSUME T!TrustAssumption PROVE MCSpec => []TrustCore
<1>1. MCInit => TrustCore
  BY TrustCoreInit DEF MCInit
<1>2. TrustCore /\ [MCNext]_mcVars => TrustCore'
  <2> SUFFICES ASSUME TrustCore, [MCNext]_mcVars PROVE TrustCore'
    OBVIOUS
  <2>1. CASE T!Next
    BY <2>1, TrustCoreStep
  <2>2. CASE UNCHANGED <<trust, mark, seen>>
    BY <2>2 DEF TrustCore, Marked
  <2> QED BY <2>1, <2>2, TrustMoves
<1> QED BY <1>1, <1>2, PTL DEF MCSpec, mcVars

\* The rounds of reachable_depth() end with the best path from every root in
\* every order of the edges, whoever may act has seen every revocation,
\* explain() agrees with decide(), and the signed artifacts hold.
THEOREM TrustHolds ==
    ASSUME T!TrustAssumption, A!ArtifactAssumption PROVE MCSpec => []TrustInv
<1>1. MCInit => A!ArtifactInv
  BY ArtifactInvInit DEF MCInit
<1>2. A!ArtifactInv /\ [MCNext]_mcVars => A!ArtifactInv'
  BY ArtifactInvStep, ArtifactsMove
<1>3. TrustCore /\ A!ArtifactInv => TrustInv
  BY SeenAll, ExplainsDecisions, BestPaths DEF TrustInv
<1> QED BY <1>1, <1>2, <1>3, TrustCoreAlways, PTL DEF MCSpec, mcVars

\* No revocation of any kind adds depth, authority, relay rights or membership,
\* and whoever gains by an edge ends below its signer.
THEOREM AuthorityOnlyNarrows ==
    ASSUME T!TrustAssumption PROVE MCSpec => AuthorityNarrows
<1> DEFINE Reduces ==
             T!Revoked(trust') # T!Revoked(trust) =>
               \A n \in Peer :
                 /\ T!Depths(trust')[n] <= T!Depths(trust)[n]
                 /\ T!IsAuthoritative(trust', n) => T!IsAuthoritative(trust, n)
                 /\ T!CanRelay(trust', n) => T!CanRelay(trust, n)
                 /\ \A g \in Peer : T!IsGroupMember(trust', g, n) => T!IsGroupMember(trust, g, n)
           Narrows ==
             \A e \in trust'.edges \ trust.edges, n \in Peer :
               T!Depths(trust')[n] > T!Depths(trust)[n] => T!Depths(trust')[n] < T!Depths(trust)[e.signer]
<1>1. TrustCore /\ TrustCore' /\ [MCNext]_mcVars => [Reduces]_(T!vars) /\ [Narrows]_(T!vars)
  <2> SUFFICES ASSUME TrustCore, TrustCore', [MCNext]_mcVars, T!Next PROVE Reduces /\ Narrows
    BY TrustMoves DEF T!vars
  <2>1. TrustType(trust) /\ TrustType(trust')
    BY DEF TrustCore, TrustType
  <2>0. trust \in [edges : SUBSET Cert, keys : SUBSET Peer, pairs : SUBSET (Peer \X Peer), direct : SUBSET Peer]
    BY DEF TrustCore
  <2>2. CASE trust' = trust
    BY <2>2
  <2>3. ASSUME NEW e \in Cert, trust' = [trust EXCEPT !.edges = trust.edges \cup {e}]
        PROVE  Reduces /\ Narrows
    <3>1. /\ trust'.keys = trust.keys /\ trust'.pairs = trust.pairs /\ trust'.direct = trust.direct
          /\ trust'.edges = trust.edges \cup {e}
      BY <2>0, <2>3
    <3>2. Reduces
      BY <3>1 DEF T!Revoked
    <3>3. Narrows
      <4> SUFFICES ASSUME NEW d \in trust'.edges \ trust.edges, NEW n \in Peer,
                          T!Depths(trust')[n] > T!Depths(trust)[n]
                   PROVE  T!Depths(trust')[n] < T!Depths(trust)[d.signer]
        OBVIOUS
      <4>1. d = e
        BY <3>1
      <4> QED BY <2>1, <3>1, <4>1, EdgeNarrows
    <3> QED BY <3>2, <3>3
  <2>4. ASSUME trust'.edges = trust.edges, trust.keys \subseteq trust'.keys, trust.pairs \subseteq trust'.pairs,
               trust.direct \subseteq trust'.direct
        PROVE  Reduces /\ Narrows
    <3>1. \A n \in Peer :
            /\ T!Depths(trust')[n] <= T!Depths(trust)[n]
            /\ T!IsAuthoritative(trust', n) => T!IsAuthoritative(trust, n)
            /\ T!CanRelay(trust', n) => T!CanRelay(trust, n)
            /\ \A g \in Peer : T!IsGroupMember(trust', g, n) => T!IsGroupMember(trust, g, n)
      BY <2>1, <2>4, RevocationReduces
    <3>2. Narrows
      BY <2>4
    <3> QED BY <3>1, <3>2
  <2>5. ASSUME NEW n \in Peer, trust' = [trust EXCEPT !.keys = trust.keys \cup {n}] PROVE Reduces /\ Narrows
    BY <2>0, <2>4, <2>5
  <2>6. ASSUME NEW n \in Peer, NEW m \in Peer, trust' = [trust EXCEPT !.pairs = trust.pairs \cup {<<n, m>>}]
        PROVE  Reduces /\ Narrows
    BY <2>0, <2>4, <2>6
  <2>7. ASSUME NEW n \in Peer, trust' = [trust EXCEPT !.direct = trust.direct \cup {n}] PROVE Reduces /\ Narrows
    BY <2>0, <2>4, <2>7
  <2>8. (\E a \in Actor : T!Refresh(a)) => trust' = trust
    BY DEF T!Refresh
  <2> HIDE DEF Reduces, Narrows
  <2> QED BY <2>2, <2>3, <2>5, <2>6, <2>7, <2>8, TrustSteps
<1> QED BY <1>1, TrustCoreAlways, PTL DEF MCSpec, mcVars, AuthorityNarrows, T!RevocationOnlyReduces, T!DelegationNarrows
=============================================================================
