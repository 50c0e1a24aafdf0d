---------------------------- MODULE LeaseCluster ----------------------------
(***************************************************************************)
(* Several peers, each with its own LeaseRegister, folding the grant       *)
(* events of the streaming database.  Grants are signed events: a peer may *)
(* fold them late, in any order, more than once or never, and a peer that  *)
(* restarts starts again from LeaseRegister::new and re-folds.             *)
(***************************************************************************)
EXTENDS LeaseRegister

CONSTANTS
    Peer,         \* processes that keep a register
    MaxRestarts   \* bound on the number of register losses

ASSUME RestartAssumption == MaxRestarts \in Nat

VARIABLES
    register,   \* register[p]: the LeaseRegister of peer p
    cast,       \* the signed grant events: [voter, epoch, candidate]
    won,        \* won[e]: every candidate some try_acquire(_, e) said yes to
    restarts    \* number of register losses so far

vars == <<register, cast, won, restarts>>

GrantEvent == [voter : Voter, epoch : Epoch, candidate : Candidate]

TypeOK ==
    /\ register \in [Peer -> Register]
    /\ cast \subseteq GrantEvent
    /\ won \in [Epoch -> SUBSET Candidate]
    /\ restarts \in 0..MaxRestarts

Init ==
    /\ register = [p \in Peer |-> EmptyRegister]
    /\ cast = {}
    /\ won = [e \in Epoch |-> {}]
    /\ restarts = 0

\* The voter's side, upstream of the crate: its signed event chain carries
\* strictly increasing epochs.  This is the trust boundary the crate states.
CastGrant(v, c, e) ==
    /\ \A g \in cast : g.voter = v => g.epoch < e
    /\ cast' = cast \cup {[voter |-> v, epoch |-> e, candidate |-> c]}
    /\ UNCHANGED <<register, won, restarts>>

\* grant() on one peer's register.  Re-delivery and reordering are the same
\* action taken again or out of order.
FoldGrant(p, g) ==
    /\ register' = [register EXCEPT ![p] = Granted(@, g.voter, g.candidate, g.epoch)]
    /\ UNCHANGED <<cast, won, restarts>>

\* try_acquire() on one peer's register.
TryAcquire(p, c, e) ==
    /\ register' = [register EXCEPT ![p] = Acquired(@, c, e)]
    /\ won' = [won EXCEPT ![e] = IF Acquires(register[p], c, e) THEN @ \cup {c} ELSE @]
    /\ UNCHANGED <<cast, restarts>>

\* release() on one peer's register.
Release(p, c, e) ==
    /\ register' = [register EXCEPT ![p] = Released(@, c, e)]
    /\ UNCHANGED <<cast, won, restarts>>

\* The process of peer p restarts: the register lives in memory only.
Restart(p) ==
    /\ restarts < MaxRestarts
    /\ restarts' = restarts + 1
    /\ register' = [register EXCEPT ![p] = EmptyRegister]
    /\ UNCHANGED <<cast, won>>

Next ==
    \/ \E v \in Voter, c \in Candidate, e \in Epoch : CastGrant(v, c, e)
    \/ \E p \in Peer, g \in cast : FoldGrant(p, g)
    \/ \E p \in Peer, c \in Candidate, e \in Epoch : TryAcquire(p, c, e)
    \/ \E p \in Peer, c \in Candidate, e \in Epoch : Release(p, c, e)
    \/ \E p \in Peer : Restart(p)

Spec == Init /\ [][Next]_vars

\* Gossip and anti-entropy keep delivering, and a candidate's reconcile loop
\* keeps asking: both are periodic tasks of a running peer.  Voters, releases
\* and restarts are not obliged to happen.
FairSpec ==
    /\ Spec
    /\ \A p \in Peer, g \in GrantEvent : WF_vars(g \in cast /\ FoldGrant(p, g))
    /\ \A p \in Peer, c \in Candidate, e \in Epoch : WF_vars(TryAcquire(p, c, e))

-----------------------------------------------------------------------------
\* Over the whole history and over all peers, try_acquire never says yes to
\* two candidates for one epoch: not on two peers that folded the grants in
\* different orders, not after a release, not after a restart.
AtMostOneHolderPerEpoch ==
    \A e \in Epoch : \A c, d \in won[e] : c = d

\* The voters whose signed event backs c at e.
Casters(c, e) == {v \in Voter : [voter |-> v, epoch |-> e, candidate |-> c] \in cast}

\* A majority has signed the highest epoch over to a candidate that was never
\* awarded it.
TopEpochPending ==
    \E c \in Candidate, e \in Epoch :
        /\ \A f \in Epoch : f <= e
        /\ IsQuorum(Cardinality(Casters(c, e)))
        /\ c \notin won[e]

\* Reordering, releases and restarts cannot lose the last epoch: once a
\* majority has signed it over to c, some peer eventually awards it to c.
BackedTopEpochIsWon == TopEpochPending ~> ~TopEpochPending

-----------------------------------------------------------------------------
\* The inductive invariant behind AtMostOneHolderPerEpoch.

\* A voter signs an epoch over to one candidate only.
OneCastPerEpoch ==
    \A g, h \in cast : (g.voter = h.voter /\ g.epoch = h.epoch) => g = h

\* A register counts only signed grants.
GrantsAreCast ==
    \A p \in Peer, v \in Voter :
        \/ register[p].grants[v] = NoGrant
        \/ [voter |-> v, epoch |-> register[p].grants[v].epoch,
            candidate |-> register[p].grants[v].candidate] \in cast

\* A holder record is remembered in the history.
HoldersWon ==
    \A p \in Peer, e \in Epoch :
        register[p].holders[e] # NoNode => register[p].holders[e] \in won[e]

\* Every award is backed by a majority of signed grants.
WonByQuorum ==
    \A e \in Epoch : \A c \in won[e] : IsQuorum(Cardinality(Casters(c, e)))

LeaseInv ==
    /\ TypeOK
    /\ OneCastPerEpoch
    /\ GrantsAreCast
    /\ HoldersWon
    /\ WonByQuorum

\* The cluster implements the abstract exclusive lease: the award of an epoch
\* is the candidate it was ever won by.
AwardOf(e) == IF won[e] = {} THEN NoNode ELSE CHOOSE c \in Candidate : c \in won[e]

Abstract == INSTANCE ExclusiveLease WITH award <- [e \in Epoch |-> AwardOf(e)]

\* Every step of the registers is an award of a free epoch, or changes none.
ImplementsExclusiveLease == Abstract!Spec
=============================================================================
