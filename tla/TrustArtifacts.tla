--------------------------- MODULE TrustArtifacts ---------------------------
(***************************************************************************)
(* The signed trust artifacts of crates/pillar-trust-artifacts: attests    *)
(* issued in a capacity, the walk of their proof pointers, revocation by   *)
(* epoch, budgets, and the grants they give the RBAC decider; as driven by *)
(* `pillar attest`, `pillar revoke` (identity_trust_cli.rs) and the node's *)
(* build_attestation (web_serve.rs).                                       *)
(*                                                                         *)
(* An attest is its own content address: two with equal fields are one,    *)
(* and `authority` holds the attest it points to, Missing for an address   *)
(* that was never stored.  Signatures are taken as unforgeable; certify    *)
(* and trust artifacts only have theirs checked and are kept nowhere.      *)
(***************************************************************************)
EXTENDS Integers, FiniteSets

CONSTANTS
    Node, Genesis,
    Role,           \* role capacities; Self is the other one
    Self,
    Quota,          \* budgets a predicate may carry
    None, Missing,
    MaxAttests,     \* bound on stored attests
    MaxEpoch        \* bound on revocations

ArtifactAssumption ==
    /\ Genesis \in Node /\ Self \notin Role
    /\ Quota \subseteq Nat /\ {MaxAttests, MaxEpoch} \subseteq Nat

VARIABLES
    attests,    \* TrustStore: the stored attests
    revoked,    \* those revoked
    epoch,
    admitted    \* what was admitted against each budget

artifactVars == <<attests, revoked, epoch, admitted>>

ArtifactInit == attests = {} /\ revoked = {} /\ epoch = 0 /\ admitted = <<>>

-----------------------------------------------------------------------------
\* The walk of verify() from an attest: its k-th step, None past the anchor.
Walk(a) ==
    LET Up[k \in 0..MaxAttests] ==
            IF k = 0 THEN a
            ELSE IF Up[k - 1] \in {None, Missing} THEN None ELSE Up[k - 1].authority
    IN Up

\* The attest itself and what its walk reaches.
Chain(a) == {a} \cup ({Walk(a)[k] : k \in 1..MaxAttests} \ {None})

\* verify(): every artifact on the way is stored and none is revoked.  An
\* address is a hash of what it points to, so no walk comes back to itself.
Verify(a) == Chain(a) \subseteq attests \ revoked

\* holds_capacity()
HoldsCapacity(n, capacity) ==
    \/ n = Genesis
    \/ \E a \in attests : a.subject = n /\ a.capacity = capacity /\ Verify(a)

\* decide_attest() on an attest its issuer signed.
Decides(a) ==
    /\ a.epoch = epoch
    /\ a.capacity # Self => HoldsCapacity(a.issuer, a.capacity)

\* issue_attest()
Issue(a) ==
    /\ Decides(a)
    /\ Cardinality(attests \cup {a}) <= MaxAttests
    /\ attests' = attests \cup {a}
    /\ UNCHANGED <<revoked, epoch, admitted>>

\* revoke() of a stored attest, by whoever signs the revocation.
Revoke(a) ==
    /\ epoch < MaxEpoch
    /\ revoked' = revoked \cup {a}
    /\ epoch' = epoch + 1
    /\ UNCHANGED <<attests, admitted>>

Used(a) == IF a \in DOMAIN admitted THEN admitted[a] ELSE 0

\* admit_quota()
AdmitQuota(a, amount) ==
    /\ a.quota # None
    /\ Verify(a)
    /\ Used(a) + amount <= a.quota
    /\ admitted' = [x \in DOMAIN admitted \cup {a} |-> IF x = a THEN Used(a) + amount ELSE admitted[x]]
    /\ UNCHANGED <<attests, revoked, epoch>>

ArtifactNext ==
    \/ \E n, m \in Node, c \in Role \cup {Self}, p \in attests \cup {None, Missing},
          q \in Quota \cup {None} :
        Issue([issuer |-> n, subject |-> m, capacity |-> c, authority |-> p, quota |-> q,
               epoch |-> epoch])
    \/ \E a \in attests : Revoke(a)
    \/ \E a \in {x \in attests : x.quota # None} : \E amount \in 1..a.quota : AdmitQuota(a, amount)

ArtifactSpec == ArtifactInit /\ [][ArtifactNext]_artifactVars

-----------------------------------------------------------------------------
ArtifactTypeOK ==
    /\ epoch \in 0..MaxEpoch /\ revoked \subseteq attests
    /\ \A a \in attests : /\ {a.issuer, a.subject} \subseteq Node /\ a.capacity \in Role \cup {Self}
                         /\ a.quota \in Quota \cup {None} /\ a.epoch \in 0..epoch
    /\ \A a \in DOMAIN admitted : admitted[a] \in Nat

\* An artifact revoked once can neither be valid nor be issued again: its
\* address carries an epoch that is past.
RevokedIsGone == \A a \in revoked : a \in attests /\ ~Verify(a) /\ a.epoch < epoch

\* Nobody comes to hold a role that genesis did not hand out: holders make
\* holders, never themselves from nothing.
RolesComeFromGenesis ==
    \A a \in attests : a.capacity # Self =>
        \E b \in attests : b.issuer = Genesis /\ b.capacity = a.capacity /\ b.epoch <= a.epoch

\* Budgets are never overdrawn, and only valid ones were drawn on.
BudgetsHold == \A a \in DOMAIN admitted : a \in attests /\ a.quota # None /\ admitted[a] <= a.quota

\* The store of trust artifacts: revocation is final, roles descend from
\* genesis, budgets hold.
ArtifactInv == ArtifactTypeOK /\ RevokedIsGone /\ RolesComeFromGenesis /\ BudgetsHold
=============================================================================
