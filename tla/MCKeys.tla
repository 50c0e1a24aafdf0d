------------------------------- MODULE MCKeys -------------------------------
(***************************************************************************)
(* The offer ledger and the escrow store of crates/pillar-key-distribution,*)
(* the web of trust and the signed trust artifacts.  They share no state,  *)
(* so a behaviour follows one of them and the others stay in their initial *)
(* states.  Artifacts may run into the bound on revocations and stop.      *)
(***************************************************************************)
EXTENDS KeyDistribution, Integers, TLC

CONSTANTS Password, Token, MaxSigned, None,
    Peer, Owner, MaxDepth, Cert, Orders, Actor, Policy, All, MaxRevocations,     \* TrustAuthority
    owner, ann, ben, cat,     \* peers of the instance below
    Member, Genesis, Role, Self, Quota, Missing, MaxAttests, MaxEpoch                \* TrustArtifacts

VARIABLES envelope, decrypted, consumed, signed,
    trust, mark, seen,
    attests, revokedAttests, epoch, drawn,
    part    \* the component the behaviour follows

escrowVars == <<envelope, decrypted, consumed, signed>>

trustVars == <<trust, mark, seen>>

artifactVars == <<attests, revokedAttests, epoch, drawn>>

\* The instance: a chain of three hops and a shortcut to its middle, with a
\* cycle back.
Certs ==
    LET C(s, n, l) == [signer |-> s, subject |-> n, level |-> l]
    IN <<C(owner, ann, 3), C(ann, ben, 1), C(ben, cat, 2), C(cat, ann, 2), C(owner, ben, 2)>>
AllCerts == {Certs[i] : i \in 1..5}

\* Along the chain, against it, and two mixtures.
Order(p) == [i \in 1..5 |-> Certs[p[i]]]
SomeOrders ==
    {Order(<<1, 2, 3, 4, 5>>), Order(<<5, 4, 3, 2, 1>>), Order(<<3, 1, 5, 2, 4>>), Order(<<4, 3, 2, 5, 1>>)}

SomePolicies ==
    {[target |-> All, threshold |-> 2], [target |-> ben, threshold |-> 0], [target |-> cat, threshold |-> 1]}

E == INSTANCE KeyEscrow
T == INSTANCE TrustAuthority WITH Node <- Peer
A == INSTANCE TrustArtifacts WITH Node <- Member, revoked <- revokedAttests, admitted <- drawn

ASSUME E!EscrowAssumption
ASSUME T!TrustAssumption
ASSUME A!ArtifactAssumption

MCInit ==
    /\ Init /\ E!Init /\ T!Init /\ A!ArtifactInit
    /\ part \in {"ledger", "escrow", "trust", "artifacts"}

MCNext ==
    /\ UNCHANGED part
    /\ \/ part = "ledger" /\ Next /\ UNCHANGED <<escrowVars, trustVars, artifactVars>>
       \/ part = "escrow" /\ E!Next /\ UNCHANGED <<vars, trustVars, artifactVars>>
       \/ part = "trust" /\ T!Next /\ UNCHANGED <<vars, escrowVars, artifactVars>>
       \/ part = "artifacts" /\ A!ArtifactNext /\ UNCHANGED <<vars, escrowVars, trustVars>>
       \/ /\ part = "artifacts" /\ epoch = MaxEpoch
          /\ UNCHANGED <<vars, escrowVars, trustVars, artifactVars>>

MCSpec == MCInit /\ [][MCNext]_<<vars, escrowVars, trustVars, artifactVars, part>>

\* KeyEscrow: one step-up token pays for at most one release for signing, and
\* no root is ever escrowed or recovered.
EscrowInv == E!EscrowInv

\* TrustAuthority: the rounds of reachable_depth() find the best path, an actor
\* whose count is current has seen every revocation, and explain() names an
\* allowing rung exactly when decide() allows.  TrustArtifacts: a revoked attest
\* is never valid again, roles descend from genesis, and budgets hold.
TrustInv ==
    /\ part = "trust" => T!DepthIsBestPath /\ T!ActorHasSeenAll /\ T!ExplainMatchesDecide
    /\ A!ArtifactInv

\* TrustAuthority: a revocation never adds authority of any kind, and an edge
\* gives nobody as much depth as its signer has.
AuthorityNarrows == T!RevocationOnlyReduces /\ T!DelegationNarrows

Symmetry == Permutations(User) \cup Permutations(Cell)
            \cup Permutations(Foreign) \cup Permutations(Node \ Foreign)
            \cup Permutations(Password) \cup Permutations(Token)
=============================================================================
