---------------------------- MODULE LeaseRegister ----------------------------
(***************************************************************************)
(* The quorum-fenced lease register of crates/pillar-coordination, as pure *)
(* operators on a register value: the module keeps no state of its own, so *)
(* LeaseCluster can hold one register per peer and the consumers of the    *)
(* core (quota ledger, IPAM, strict co-fold) can embed one each.           *)
(*                                                                         *)
(* A register is [grants, holders].  The code's two HashMaps are total     *)
(* functions here: a voter that never granted has epoch -1, below every    *)
(* u64 epoch, and an epoch without a holder maps to NoNode.                *)
(***************************************************************************)
EXTENDS Integers, FiniteSets

CONSTANTS
    Voter,        \* NodeIds whose authenticated grants reach a register
    Candidate,    \* NodeIds that may be backed
    Epoch,        \* the fencing tokens in play, a set of naturals
    ClusterSize,  \* LeaseRegister::new(cluster_size)
    NoNode        \* Option::None for a NodeId

\* cluster_size is "a cluster of a known size": the register itself never
\* checks it against the voters it is fed, so the callers owe this bound.
ASSUME ClusterAssumption ==
    /\ IsFiniteSet(Voter)
    /\ ClusterSize \in Nat
    /\ Cardinality(Voter) <= ClusterSize

ASSUME EpochAssumption == Epoch \subseteq Nat

ASSUME NoNodeAssumption == NoNode \notin Candidate

NoGrant == [epoch |-> -1, candidate |-> NoNode]

Grant == [epoch : Epoch, candidate : Candidate]

Register == [grants  : [Voter -> Grant \cup {NoGrant}],
             holders : [Epoch -> Candidate \cup {NoNode}]]

EmptyRegister == [grants  |-> [v \in Voter |-> NoGrant],
                  holders |-> [e \in Epoch |-> NoNode]]

\* Mutant of IsQuorum: the candidate counts as a voter for itself.
IsQuorumCountingSelf(votes) == 2 * (votes + 1) > ClusterSize

\* is_quorum: a strict majority of the declared size.
IsQuorum(votes) == 2 * votes > ClusterSize

\* Mutant of GrantAccepted: a voter may not skip an epoch.
GrantAcceptedInSequence(r, v, e) == e = r.grants[v].epoch + 1

\* grant() answers Ok exactly for an epoch above the voter's last one.
GrantAccepted(r, v, e) == e > r.grants[v].epoch

\* The register after grant(); StaleEpoch leaves it alone.
Granted(r, v, c, e) ==
    IF GrantAccepted(r, v, e)
    THEN [r EXCEPT !.grants = [@ EXCEPT ![v] = [epoch |-> e, candidate |-> c]]]
    ELSE r

\* Mutant of Backers: the grants of the epoch, whoever they back.
BackersOfEpoch(r, c, e) == {v \in Voter : r.grants[v].epoch = e}

\* The voters whose current grant is for this candidate at this epoch.
Backers(r, c, e) == {v \in Voter : r.grants[v] = [epoch |-> e, candidate |-> c]}

\* The answer of try_acquire(): a recorded holder decides before any count.
Acquires(r, c, e) ==
    IF r.holders[e] # NoNode
    THEN r.holders[e] = c
    ELSE IsQuorum(Cardinality(Backers(r, c, e)))

\* The register after try_acquire().
Acquired(r, c, e) ==
    IF Acquires(r, c, e)
    THEN [r EXCEPT !.holders = [@ EXCEPT ![e] = c]]
    ELSE r

\* The register after release(): a no-op for anybody but the holder.
Released(r, c, e) ==
    IF r.holders[e] = c
    THEN [r EXCEPT !.holders = [@ EXCEPT ![e] = NoNode]]
    ELSE r
=============================================================================
