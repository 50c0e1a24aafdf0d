------------------------- MODULE LeaseClusterProofs -------------------------
(***************************************************************************)
(* Proofs about LeaseCluster: the lease invariant is inductive, an epoch   *)
(* is awarded to at most one candidate, and the cluster of registers       *)
(* implements the abstract exclusive lease; about the Controller that runs *)
(* fenced workloads on top of it: no epoch has two of them apart; and      *)
(* about the strict co-fold over a register of its own.                    *)
(***************************************************************************)
EXTENDS Controller, StrictCofold, FiniteSetTheorems, TLAPS

\* is_quorum: two sets of voters that both pass is_quorum share a voter, as
\* long as the registers are fed by no more voters than cluster_size.
LEMMA QuorumsIntersect ==
    ASSUME NEW S \in SUBSET Voter, NEW T \in SUBSET Voter,
           IsQuorum(Cardinality(S)), IsQuorum(Cardinality(T))
    PROVE  S \cap T # {}
<1>1. IsFiniteSet(Voter) /\ ClusterSize \in Nat /\ Cardinality(Voter) <= ClusterSize
  BY ClusterAssumption
<1>2. IsFiniteSet(S) /\ IsFiniteSet(T)
  BY <1>1, FS_Subset
<1>3. Cardinality(S) \in Nat /\ Cardinality(T) \in Nat /\ Cardinality(Voter) \in Nat
  BY <1>1, <1>2, FS_CardinalityType
<1>4. Cardinality(S) + Cardinality(T) > Cardinality(Voter)
  BY <1>1, <1>3 DEF IsQuorum
<1> QED
  BY <1>1, <1>4, FS_MajoritiesIntersect

\* is_quorum is monotonic in the set of backing voters: grants cast later
\* never un-back a candidate.
LEMMA QuorumGrows ==
    ASSUME NEW S \in SUBSET Voter, NEW T \in SUBSET Voter,
           S \subseteq T, IsQuorum(Cardinality(S))
    PROVE  IsQuorum(Cardinality(T))
<1>1. IsFiniteSet(S) /\ IsFiniteSet(T) /\ ClusterSize \in Nat
  BY ClusterAssumption, FS_Subset
<1>2. Cardinality(S) \in Nat /\ Cardinality(T) \in Nat /\ Cardinality(S) <= Cardinality(T)
  BY <1>1, FS_Subset, FS_CardinalityType
<1> QED
  BY <1>1, <1>2 DEF IsQuorum

\* LeaseRegister::new, grant, try_acquire and release always leave a register.
LEMMA RegisterTypes ==
    ASSUME NEW r \in Register, NEW v \in Voter, NEW c \in Candidate, NEW e \in Epoch
    PROVE  /\ EmptyRegister \in Register
           /\ Granted(r, v, c, e) \in Register
           /\ Acquired(r, c, e) \in Register
           /\ Released(r, c, e) \in Register
<1>1. EmptyRegister \in Register
  BY DEF EmptyRegister, Register
<1>2. Granted(r, v, c, e) \in Register
  BY DEF Granted, Register, Grant
<1>3. Acquired(r, c, e) \in Register
  BY DEF Acquired, Register
<1>4. Released(r, c, e) \in Register
  BY DEF Released, Register
<1> QED
  BY <1>1, <1>2, <1>3, <1>4

\* The registers start empty, so the lease invariant holds initially.
LEMMA LeaseInvInit == Init => LeaseInv
<1> SUFFICES ASSUME Init PROVE LeaseInv
  OBVIOUS
<1>1. TypeOK
  BY RestartAssumption DEF Init, TypeOK, EmptyRegister, Register, GrantEvent
<1>2. OneCastPerEpoch /\ WonByQuorum
  BY DEF Init, OneCastPerEpoch, WonByQuorum
<1>3. GrantsAreCast /\ HoldersWon
  BY DEF Init, GrantsAreCast, HoldersWon, EmptyRegister
<1> QED
  BY <1>1, <1>2, <1>3 DEF LeaseInv

\* Every operation on the registers preserves the lease invariant: one step
\* per action of Next.
LEMMA LeaseInvStep == LeaseInv /\ [Next]_vars => LeaseInv'
<1> SUFFICES ASSUME LeaseInv, [Next]_vars PROVE LeaseInv'
  OBVIOUS
<1> USE DEF LeaseInv
<1>1. ASSUME NEW v \in Voter, NEW c \in Candidate, NEW e \in Epoch, CastGrant(v, c, e)
      PROVE  LeaseInv'
  <2>1. TypeOK'
    BY <1>1 DEF CastGrant, TypeOK, GrantEvent
  <2>2. OneCastPerEpoch'
    BY <1>1, EpochAssumption DEF CastGrant, OneCastPerEpoch, TypeOK, GrantEvent
  <2>3. GrantsAreCast' /\ HoldersWon'
    BY <1>1 DEF CastGrant, GrantsAreCast, HoldersWon
  <2>4. WonByQuorum'
    <3> SUFFICES ASSUME NEW f \in Epoch, NEW d \in won'[f]
                 PROVE  IsQuorum(Cardinality(Casters(d, f)'))
      BY DEF WonByQuorum
    <3>1. IsQuorum(Cardinality(Casters(d, f)))
      BY <1>1 DEF CastGrant, WonByQuorum
    <3>2. Casters(d, f) \subseteq Casters(d, f)'
      BY <1>1 DEF CastGrant, Casters
    <3>3. Casters(d, f) \in SUBSET Voter /\ Casters(d, f)' \in SUBSET Voter
      BY DEF Casters
    <3> QED
      BY <3>1, <3>2, <3>3, QuorumGrows
  <2> QED
    BY <2>1, <2>2, <2>3, <2>4
<1>2. ASSUME NEW p \in Peer, NEW g \in cast, FoldGrant(p, g)
      PROVE  LeaseInv'
  <2>1. g.voter \in Voter /\ g.epoch \in Epoch /\ g.candidate \in Candidate
    BY DEF TypeOK, GrantEvent
  <2>2. TypeOK'
    BY <1>2, <2>1, RegisterTypes DEF FoldGrant, TypeOK
  <2>3. OneCastPerEpoch' /\ WonByQuorum'
    BY <1>2 DEF FoldGrant, OneCastPerEpoch, WonByQuorum, Casters
  <2>4. GrantsAreCast'
    <3> SUFFICES ASSUME NEW q \in Peer, NEW w \in Voter
                 PROVE  \/ register'[q].grants[w] = NoGrant
                        \/ [voter |-> w, epoch |-> register'[q].grants[w].epoch,
                            candidate |-> register'[q].grants[w].candidate] \in cast'
      BY DEF GrantsAreCast
    <3>1. cast' = cast
      BY <1>2 DEF FoldGrant
    <3>2. CASE register'[q].grants[w] = register[q].grants[w]
      BY <3>1, <3>2 DEF GrantsAreCast
    <3>3. CASE register'[q].grants[w] # register[q].grants[w]
      <4>1. q = p /\ w = g.voter
        BY <1>2, <2>1, <3>3 DEF FoldGrant, Granted, TypeOK, Register
      <4>2. register'[q].grants[w] = [epoch |-> g.epoch, candidate |-> g.candidate]
        BY <1>2, <2>1, <3>3, <4>1 DEF FoldGrant, Granted, TypeOK, Register
      <4>3. g = [voter |-> g.voter, epoch |-> g.epoch, candidate |-> g.candidate]
        BY DEF TypeOK, GrantEvent
      <4> QED
        BY <3>1, <4>1, <4>2, <4>3
    <3> QED
      BY <3>2, <3>3
  <2>5. HoldersWon'
    BY <1>2, <2>1 DEF FoldGrant, Granted, HoldersWon, TypeOK, Register
  <2> QED
    BY <2>2, <2>3, <2>4, <2>5
<1>3. ASSUME NEW p \in Peer, NEW c \in Candidate, NEW e \in Epoch, TryAcquire(p, c, e)
      PROVE  LeaseInv'
  <2>1. TypeOK'
    <3>1. register[p] \in Register
      BY DEF TypeOK
    <3>2. Acquired(register[p], c, e) \in Register
      BY <3>1 DEF Acquired, Register
    <3> QED
      BY <1>3, <3>2 DEF TryAcquire, TypeOK
  <2>2. OneCastPerEpoch'
    BY <1>3 DEF TryAcquire, OneCastPerEpoch
  <2>3. GrantsAreCast'
    BY <1>3 DEF TryAcquire, Acquired, GrantsAreCast, TypeOK, Register
  <2>4. HoldersWon'
    BY <1>3 DEF TryAcquire, Acquired, HoldersWon, TypeOK, Register
  <2>5. WonByQuorum'
    <3> SUFFICES ASSUME NEW f \in Epoch, NEW d \in won'[f]
                 PROVE  IsQuorum(Cardinality(Casters(d, f)))
      BY <1>3 DEF TryAcquire, WonByQuorum, Casters
    <3>1. CASE d \in won[f]
      BY <3>1 DEF WonByQuorum
    <3>2. CASE d \notin won[f]
      <4>1. f = e /\ d = c /\ Acquires(register[p], c, e)
        BY <1>3, <3>2 DEF TryAcquire, TypeOK
      <4>2. register[p].holders[e] = NoNode
        BY <3>2, <4>1 DEF HoldersWon, Acquires
      <4>3. IsQuorum(Cardinality(Backers(register[p], c, e)))
        BY <4>1, <4>2 DEF Acquires
      <4>4. Backers(register[p], c, e) \subseteq Casters(c, e)
        <5> SUFFICES ASSUME NEW w \in Voter,
                            register[p].grants[w] = [epoch |-> e, candidate |-> c]
                     PROVE  [voter |-> w, epoch |-> e, candidate |-> c] \in cast
          BY DEF Backers, Casters
        <5>1. register[p].grants[w] # NoGrant
          BY EpochAssumption DEF NoGrant
        <5> QED
          BY <5>1 DEF GrantsAreCast
      <4>5. Backers(register[p], c, e) \in SUBSET Voter /\ Casters(c, e) \in SUBSET Voter
        BY DEF Backers, Casters
      <4> QED
        BY <4>1, <4>3, <4>4, <4>5, QuorumGrows
    <3> QED
      BY <3>1, <3>2
  <2> QED
    BY <2>1, <2>2, <2>3, <2>4, <2>5
<1>4. ASSUME NEW p \in Peer, NEW c \in Candidate, NEW e \in Epoch, Release(p, c, e)
      PROVE  LeaseInv'
  <2>1. TypeOK'
    <3>1. Released(register[p], c, e) \in Register
      BY DEF TypeOK, Released, Register
    <3> QED
      BY <1>4, <3>1 DEF Release, TypeOK
  <2>2. OneCastPerEpoch' /\ WonByQuorum'
    BY <1>4 DEF Release, OneCastPerEpoch, WonByQuorum, Casters
  <2>3. GrantsAreCast' /\ HoldersWon'
    BY <1>4 DEF Release, Released, GrantsAreCast, HoldersWon, TypeOK, Register
  <2> QED
    BY <2>1, <2>2, <2>3
<1>5. ASSUME NEW p \in Peer, Restart(p)
      PROVE  LeaseInv'
  <2>1. EmptyRegister \in Register
    BY DEF EmptyRegister, Register
  <2>2. TypeOK'
    BY <1>5, <2>1, RestartAssumption DEF Restart, TypeOK
  <2>3. OneCastPerEpoch' /\ WonByQuorum'
    BY <1>5 DEF Restart, OneCastPerEpoch, WonByQuorum, Casters
  <2>4. GrantsAreCast' /\ HoldersWon'
    BY <1>5 DEF Restart, EmptyRegister, GrantsAreCast, HoldersWon, TypeOK
  <2> QED
    BY <2>2, <2>3, <2>4
<1>6. CASE UNCHANGED vars
  BY <1>6 DEF vars, TypeOK, OneCastPerEpoch, GrantsAreCast, HoldersWon, WonByQuorum, Casters
<1> QED
  BY <1>1, <1>2, <1>3, <1>4, <1>5, <1>6 DEF Next

\* The state of the registers always has the type the code declares and the
\* facts of LeaseInv always hold.
THEOREM LeaseInvariant == Spec => []LeaseInv
<1> QED
  BY LeaseInvInit, LeaseInvStep, PTL DEF Spec

\* The lease invariant leaves room for one candidate per epoch: two awards of
\* an epoch would share a voter that signed both.
LEMMA OneAward == LeaseInv => AtMostOneHolderPerEpoch
<1> SUFFICES ASSUME LeaseInv, NEW e \in Epoch, NEW c \in won[e], NEW d \in won[e]
             PROVE  c = d
  BY DEF AtMostOneHolderPerEpoch
<1>1. IsQuorum(Cardinality(Casters(c, e))) /\ IsQuorum(Cardinality(Casters(d, e)))
  BY DEF LeaseInv, WonByQuorum
<1>2. Casters(c, e) \in SUBSET Voter /\ Casters(d, e) \in SUBSET Voter
  BY DEF Casters
<1>3. PICK v \in Voter : v \in Casters(c, e) \cap Casters(d, e)
  BY <1>1, <1>2, QuorumsIntersect
<1>4. [voter |-> v, epoch |-> e, candidate |-> c] = [voter |-> v, epoch |-> e, candidate |-> d]
  BY <1>3 DEF LeaseInv, OneCastPerEpoch, Casters
<1> QED
  BY <1>4

\* For every cluster size, number of peers and delivery order: try_acquire
\* never awards one epoch to two candidates, on any peers, at any times.
THEOREM ExclusiveHolder == Spec => []AtMostOneHolderPerEpoch
<1> QED
  BY LeaseInvariant, OneAward, PTL

\* Only a positive try_acquire changes the history, and then by one award of
\* an epoch nobody was awarded before.
LEMMA OneNewAward ==
    ASSUME LeaseInv, LeaseInv', [Next]_vars
    PROVE  \/ won' = won
           \/ \E e \in Epoch, c \in Candidate :
                 won[e] = {} /\ won' = [won EXCEPT ![e] = {c}]
<1>1. CASE UNCHANGED vars
  BY <1>1 DEF vars
<1>2. ASSUME NEW p \in Peer, NEW c \in Candidate, NEW e \in Epoch, TryAcquire(p, c, e),
             won' # won
      PROVE  won[e] = {} /\ won' = [won EXCEPT ![e] = {c}]
  <2>1. won \in [Epoch -> SUBSET Candidate]
    BY DEF LeaseInv, TypeOK
  <2>2. won' = [won EXCEPT ![e] = won[e] \cup {c}] /\ c \notin won[e]
    BY <1>2, <2>1 DEF TryAcquire
  <2>3. \A a, b \in won'[e] : a = b
    <3>1. AtMostOneHolderPerEpoch'
      BY OneAward, PTL
    <3> QED
      BY <3>1 DEF AtMostOneHolderPerEpoch
  <2>4. won[e] = {}
    BY <2>1, <2>2, <2>3
  <2> QED
    BY <2>2, <2>4
<1> QED
  BY <1>1, <1>2 DEF Next, CastGrant, FoldGrant, Release, Restart

\* LeaseCluster implements ExclusiveLease: whatever the peers fold, lose and
\* release, an outside observer sees each epoch awarded once.
THEOREM LeaseRefinement == Spec => ImplementsExclusiveLease
<1> DEFINE award == [e \in Epoch |-> AwardOf(e)]
<1>1. Init => Abstract!Init
  BY DEF Init, Abstract!Init, AwardOf
<1>2. LeaseInv /\ LeaseInv' /\ [Next]_vars => [Abstract!Next]_award
  <2> SUFFICES ASSUME LeaseInv, LeaseInv', [Next]_vars
               PROVE  [Abstract!Next]_award
    OBVIOUS
  <2>1. CASE won' = won
    BY <2>1 DEF AwardOf
  <2>2. ASSUME NEW e \in Epoch, NEW c \in Candidate,
               won[e] = {}, won' = [won EXCEPT ![e] = {c}]
        PROVE  Abstract!Next
    <3>1. won \in [Epoch -> SUBSET Candidate]
      BY DEF LeaseInv, TypeOK
    <3>2. award[e] = NoNode
      BY <2>2 DEF AwardOf
    <3>3. won'[e] = {c}
      BY <2>2, <3>1
    <3>4. \A x \in Candidate : x \in won'[e] <=> x = c
      BY <3>3
    <3>5. (CHOOSE x \in Candidate : x \in won'[e]) = c
      BY <3>4
    <3>6. AwardOf(e)' = c
      BY <3>3, <3>5 DEF AwardOf
    <3>7. ASSUME NEW f \in Epoch, f # e PROVE AwardOf(f)' = AwardOf(f)
      <4>1. won'[f] = won[f]
        BY <2>2, <3>1, <3>7
      <4> QED
        BY <4>1 DEF AwardOf
    <3>8. award' = [award EXCEPT ![e] = c]
      BY <3>6, <3>7
    <3> QED
      BY <3>2, <3>8 DEF Abstract!Next, Abstract!Award
  <2> QED
    BY <2>1, <2>2, OneNewAward
<1> QED
  BY <1>1, <1>2, LeaseInvariant, PTL DEF Spec, Abstract!Spec, ImplementsExclusiveLease

-----------------------------------------------------------------------------
\* The controller.

\* An award is never taken back: release() and a restart empty registers, the
\* history stays.
LEMMA AwardsStay ==
    ASSUME TypeOK, [Next]_vars, NEW e \in Epoch
    PROVE  won[e] \subseteq won'[e]
<1>1. ASSUME NEW p \in Peer, NEW c \in Candidate, NEW f \in Epoch, TryAcquire(p, c, f)
      PROVE  won[e] \subseteq won'[e]
  BY <1>1 DEF TryAcquire, TypeOK
<1> QED
  BY <1>1 DEF Next, CastGrant, FoldGrant, Release, Restart, vars

\* A started workload is a replica of the deployment.
LEMMA ReplicaType ==
    ASSUME ControllerTypeOK, NEW i \in DOMAIN replicas
    PROVE  replicas[i] \in Replica /\ replicas[i].run \in Fetch /\ replicas[i].run.epoch \in Epoch
<1>1. replicas[i] \in Replica
  BY DEF ControllerTypeOK
<1> QED
  BY <1>1 DEF Replica, Fetch

\* Two workloads that each run under an award of one epoch run on one node,
\* because the epoch was awarded once.
LEMMA AwardsExcludeSplitBrain ==
    ASSUME LeaseInv, ControllerTypeOK, RunsUnderAward
    PROVE  NoSplitBrain
<1> SUFFICES ASSUME NEW i \in DOMAIN replicas, NEW j \in DOMAIN replicas,
                    replicas[i].run.spec.effect = "Exclusive",
                    replicas[j].run.spec.effect = "Exclusive",
                    replicas[i].run.epoch = replicas[j].run.epoch
             PROVE  replicas[i].run.node = replicas[j].run.node
  BY DEF NoSplitBrain
<1>1. replicas[i].run.epoch \in Epoch
  BY ReplicaType
<1>2. AtMostOneHolderPerEpoch
  BY OneAward
<1> QED
  BY <1>1, <1>2 DEF RunsUnderAward, AtMostOneHolderPerEpoch

\* The controllers start with nothing fetched and nothing running.
LEMMA ControllerInvInit ==
    Init /\ ControllerInit => LeaseInv /\ ControllerInv /\ FetchesUnderAward
<1> SUFFICES ASSUME Init, ControllerInit
             PROVE  LeaseInv /\ ControllerInv /\ FetchesUnderAward
  OBVIOUS
<1>1. ControllerTypeOK
  BY DEF ControllerInit, ControllerTypeOK
<1>2. RunsUnderAward /\ NoSplitBrain /\ RunsAsDeclared /\ FetchesUnderAward
  BY DEF ControllerInit, RunsUnderAward, NoSplitBrain, RunsAsDeclared, FetchesUnderAward
<1> QED
  BY <1>1, <1>2, LeaseInvInit DEF ControllerInv

\* Every gate, run and restart of a controller, and every step of the registers
\* below it, keeps the controllers' invariant: what was authorised under an
\* award stays under it, whatever was released or forgotten in between.
LEMMA ControllerInvStep ==
    ASSUME ControllerAssumption, LeaseInv, ControllerInv, FetchesUnderAward,
           [ControllersNext]_<<vars, controllerVars>>
    PROVE  LeaseInv' /\ ControllerInv' /\ FetchesUnderAward'
<1> USE DEF ControllerInv
<1>1. LeaseInv'
  <2>1. [Next]_vars
    BY DEF ControllersNext
  <2> QED
    BY <2>1, LeaseInvStep
<1>2. ControllerTypeOK /\ RunsUnderAward /\ RunsAsDeclared
  OBVIOUS
<1>3. CASE UNCHANGED controllerVars
  <2>1. \A e \in Epoch : won[e] \subseteq won'[e]
    <3>1. [Next]_vars
      BY DEF ControllersNext
    <3> QED
      BY <3>1, AwardsStay DEF LeaseInv
  <2>2. ControllerTypeOK' /\ RunsAsDeclared'
    BY <1>3 DEF controllerVars, identityVars, ControllerTypeOK, RunsAsDeclared
  <2>3. RunsUnderAward'
    BY <1>3, <2>1, ReplicaType DEF controllerVars, RunsUnderAward
  <2>4. FetchesUnderAward'
    BY <1>3, <2>1 DEF controllerVars, FetchesUnderAward, ControllerTypeOK, Fetch
  <2> QED
    BY <1>1, <2>2, <2>3, <2>4, AwardsExcludeSplitBrain, PTL
<1>4. ASSUME UNCHANGED vars, ControllerTypeOK', RunsUnderAward', RunsAsDeclared', FetchesUnderAward'
      PROVE  LeaseInv' /\ ControllerInv' /\ FetchesUnderAward'
  BY <1>1, <1>4, AwardsExcludeSplitBrain, PTL
<1>5. ASSUME NEW u \in Primary, RegisterPrimary(u), UNCHANGED vars
      PROVE  LeaseInv' /\ ControllerInv' /\ FetchesUnderAward'
  BY <1>4, <1>5 DEF RegisterPrimary, vars, ControllerTypeOK, RunsUnderAward, RunsAsDeclared, FetchesUnderAward
<1>6. ASSUME NEW n \in Peer, NEW u \in Primary, IssueSubkey(n, u), UNCHANGED vars
      PROVE  LeaseInv' /\ ControllerInv' /\ FetchesUnderAward'
  BY <1>4, <1>6 DEF IssueSubkey, vars, ControllerTypeOK, RunsUnderAward, RunsAsDeclared, FetchesUnderAward
<1>7. ASSUME NEW n \in Peer, GrantRun(n), UNCHANGED vars
      PROVE  LeaseInv' /\ ControllerInv' /\ FetchesUnderAward'
  BY <1>4, <1>7 DEF GrantRun, vars, ControllerTypeOK, RunsUnderAward, RunsAsDeclared, FetchesUnderAward
<1>8. ASSUME NEW n \in Peer, NEW w \in Workload, NEW e \in Epoch, AuthorizeFetch(n, w, e), UNCHANGED vars
      PROVE  LeaseInv' /\ ControllerInv' /\ FetchesUnderAward'
  <2>1. ControllerTypeOK'
    BY <1>8 DEF AuthorizeFetch, identityVars, ControllerTypeOK, Fetch
  <2>2. RunsUnderAward' /\ RunsAsDeclared'
    BY <1>8 DEF AuthorizeFetch, vars, RunsUnderAward, RunsAsDeclared
  <2>3. w.effect = "Exclusive" => n \in won[e] /\ w.policy = "Strict"
    <3>1. n # NoNode
      BY NoNodeAssumption DEF ControllerAssumption
    <3> QED
      BY <1>8, <3>1 DEF AuthorizeFetch, Fenced, PolicyAdmits, LeaseInv, HoldersWon
  <2>4. FetchesUnderAward'
    BY <1>8, <2>3 DEF AuthorizeFetch, vars, FetchesUnderAward
  <2> QED
    BY <1>4, <1>8, <2>1, <2>2, <2>4
<1>9. ASSUME NEW f \in fetches, NEW b \in Image, NEW s \in BOOLEAN, Run(f, b, s), UNCHANGED vars
      PROVE  LeaseInv' /\ ControllerInv' /\ FetchesUnderAward'
  <2>1. FetchesUnderAward'
    BY <1>9 DEF Run, vars, FetchesUnderAward
  <2>2. f \in Fetch
    BY DEF ControllerTypeOK
  <2>3. CASE replicas' = replicas
    BY <1>4, <1>9, <2>1, <2>3
      DEF Run, identityVars, vars, ControllerTypeOK, RunsUnderAward, RunsAsDeclared
  <2>4. CASE b = f.spec.image /\ replicas' = Append(replicas, [run |-> f, image |-> b, alive |-> TRUE])
    <3>1. ControllerTypeOK'
      <4>1. [run |-> f, image |-> b, alive |-> TRUE] \in Replica
        BY <2>2 DEF Replica
      <4> QED
        BY <1>9, <2>4, <4>1 DEF Run, identityVars, ControllerTypeOK
    <3>2. RunsUnderAward'
      BY <1>9, <2>4 DEF Run, vars, ControllerTypeOK, RunsUnderAward, FetchesUnderAward
    <3>3. RunsAsDeclared'
      BY <2>4 DEF ControllerTypeOK, RunsAsDeclared, FetchesUnderAward
    <3> QED
      BY <1>4, <1>9, <2>1, <3>1, <3>2, <3>3
  <2> QED
    BY <1>9, <2>3, <2>4 DEF Run
<1>10. ASSUME NEW i \in DOMAIN replicas, Exit(i), UNCHANGED vars
      PROVE  LeaseInv' /\ ControllerInv' /\ FetchesUnderAward'
  <2>1. ControllerTypeOK'
    <3>1. [replicas[i] EXCEPT !.alive = FALSE] \in Replica
      BY ReplicaType DEF Replica
    <3>2. replicas' = [replicas EXCEPT ![i] = [replicas[i] EXCEPT !.alive = FALSE]]
      BY <1>10 DEF Exit
    <3>3. replicas' \in Seq(Replica)
      BY <3>1, <3>2 DEF ControllerTypeOK
    <3> QED
      BY <1>10, <3>3 DEF Exit, identityVars, ControllerTypeOK
  <2>2. RunsUnderAward' /\ RunsAsDeclared' /\ FetchesUnderAward'
    BY <1>10 DEF Exit, vars, ControllerTypeOK, RunsUnderAward, RunsAsDeclared, FetchesUnderAward
  <2> QED
    BY <1>4, <1>10, <2>1, <2>2
<1>11. ASSUME NEW i \in DOMAIN replicas, ReconcileRestarts(i), UNCHANGED vars
      PROVE  LeaseInv' /\ ControllerInv' /\ FetchesUnderAward'
  <2>1. ControllerTypeOK'
    <3>1. \A j \in DOMAIN replicas : replicas[j] \in Replica /\ [replicas[j] EXCEPT !.alive = TRUE] \in Replica
      BY ReplicaType DEF Replica
    <3>2. DOMAIN replicas = 1..Len(replicas) /\ Len(replicas) \in Nat
      BY DEF ControllerTypeOK
    <3>3. replicas' \in Seq(Replica)
      BY <1>11, <3>1, <3>2 DEF ReconcileRestarts
    <3> QED
      BY <1>11, <3>3 DEF ReconcileRestarts, identityVars, ControllerTypeOK
  <2>2. RunsUnderAward' /\ RunsAsDeclared' /\ FetchesUnderAward'
    BY <1>11 DEF ReconcileRestarts, vars, ControllerTypeOK, RunsUnderAward, RunsAsDeclared, FetchesUnderAward
  <2> QED
    BY <1>4, <1>11, <2>1, <2>2
<1> QED
  BY <1>3, <1>5, <1>6, <1>7, <1>8, <1>9, <1>10, <1>11 DEF ControllersNext, ControllerStep

\* For every number of nodes, workloads and epochs: a fenced workload runs on
\* the node its epoch was awarded to, so that no two nodes run one apart, and
\* what runs is the image that was declared (authorize(), run(),
\* reconcile_restarts()).
THEOREM ControllerInvariant ==
    ASSUME ControllerAssumption
    PROVE  ControllersSpec => []ControllerInv
<1>1. Init /\ ControllerInit => LeaseInv /\ ControllerInv /\ FetchesUnderAward
  BY ControllerInvInit
<1>2. LeaseInv /\ ControllerInv /\ FetchesUnderAward /\ [ControllersNext]_<<vars, controllerVars>>
      => LeaseInv' /\ ControllerInv' /\ FetchesUnderAward'
  BY ControllerInvStep
<1> QED
  BY <1>1, <1>2, PTL DEF ControllersSpec

-----------------------------------------------------------------------------
\* The strict co-fold.

\* acquire() on a free epoch: if a majority backs c now, nobody else was ever
\* told it holds the epoch, since a majority of the voters has moved past
\* whoever was.
LEMMA BackedAgainstProved ==
    ASSUME CofoldInv, NEW c \in Candidate, NEW d \in Candidate, NEW e \in Epoch,
           IsQuorum(Cardinality(Backers(lease, c, e))),
           IsQuorum(Cardinality(MovedPast(d, e)))
    PROVE  c = d
<1>1. Backers(lease, c, e) \in SUBSET Voter /\ MovedPast(d, e) \in SUBSET Voter
  BY DEF Backers, MovedPast
<1>2. PICK v \in Voter : v \in Backers(lease, c, e) /\ v \in MovedPast(d, e)
  BY <1>1, QuorumsIntersect
<1>3. lease.grants[v] = [epoch |-> e, candidate |-> c]
  BY <1>2 DEF Backers
<1>4. lease.grants[v].epoch = e /\ e \in Nat
  BY <1>3, EpochAssumption
<1>5. ~(lease.grants[v].epoch > e)
  BY <1>4
<1>6. lease.grants[v] = [epoch |-> e, candidate |-> d]
  BY <1>2, <1>5 DEF MovedPast
<1> QED
  BY <1>3, <1>6

\* What carries the proof beside the invariant: the log is finite.
CofoldCore == CofoldInv /\ IsFiniteSet(stream)

\* The admissions of a key: one more when one is recorded for it, unchanged
\* when it is another key's.
LEMMA AdmissionsAppended ==
    ASSUME NEW k \in Key, NEW a \in Admission, admitted \in Seq(Admission),
           admitted' = Append(admitted, a)
    PROVE  /\ IsFiniteSet(AdmissionsOf(k)) /\ Cardinality(AdmissionsOf(k)) \in Nat
           /\ a.key = k => Cardinality(AdmissionsOf(k)') = Cardinality(AdmissionsOf(k)) + 1
           /\ a.key # k => AdmissionsOf(k)' = AdmissionsOf(k)
<1>1. /\ Len(admitted) \in Nat /\ DOMAIN admitted = 1..Len(admitted)
      /\ DOMAIN admitted' = 1..(Len(admitted) + 1)
  OBVIOUS
<1>2. IsFiniteSet(AdmissionsOf(k)) /\ Cardinality(AdmissionsOf(k)) \in Nat
  <2>1. IsFiniteSet(1..Len(admitted))
    BY <1>1, FS_Interval
  <2>2. AdmissionsOf(k) \subseteq 1..Len(admitted)
    BY <1>1 DEF AdmissionsOf
  <2> QED
    BY <2>1, <2>2, FS_Subset, FS_CardinalityType
<1>3. /\ \A i \in DOMAIN admitted : admitted'[i] = admitted[i]
      /\ admitted'[Len(admitted) + 1] = a
  OBVIOUS
<1>4. CASE a.key = k
  <2>1. AdmissionsOf(k)' = AdmissionsOf(k) \cup {Len(admitted) + 1}
    BY <1>1, <1>3, <1>4 DEF AdmissionsOf
  <2>2. Len(admitted) + 1 \notin AdmissionsOf(k)
    BY <1>1 DEF AdmissionsOf
  <2> QED
    BY <1>2, <1>4, <2>1, <2>2, FS_AddElement
<1>5. CASE a.key # k
  BY <1>1, <1>2, <1>3, <1>5 DEF AdmissionsOf
<1> QED
  BY <1>2, <1>4, <1>5

\* The operations of a key: at most one more when one is appended for it.
LEMMA OpsAppended ==
    ASSUME NEW k \in Key, NEW o \in Operation, IsFiniteSet(stream), stream' = stream \cup {o}
    PROVE  /\ IsFiniteSet(stream') /\ Cardinality(OpsOf(k)) \in Nat
           /\ o.key = k => /\ Cardinality(OpsOf(k)') \in Nat /\ OpsOf(k)' # {}
                           /\ Cardinality(OpsOf(k)') <= Cardinality(OpsOf(k)) + 1
           /\ o.key # k => OpsOf(k)' = OpsOf(k)
<1>1. IsFiniteSet(stream')
  BY FS_AddElement
<1>2. IsFiniteSet(OpsOf(k)) /\ Cardinality(OpsOf(k)) \in Nat
  <2>1. OpsOf(k) \subseteq stream
    BY DEF OpsOf
  <2> QED
    BY <2>1, FS_Subset, FS_CardinalityType
<1>3. ASSUME o.key = k
      PROVE  /\ Cardinality(OpsOf(k)') \in Nat /\ OpsOf(k)' # {}
             /\ Cardinality(OpsOf(k)') <= Cardinality(OpsOf(k)) + 1
  <2>1. OpsOf(k)' = OpsOf(k) \cup {o}
    BY <1>3 DEF OpsOf
  <2>2. Cardinality(OpsOf(k) \cup {o}) = IF o \in OpsOf(k) THEN Cardinality(OpsOf(k)) ELSE Cardinality(OpsOf(k)) + 1
    BY <1>2, FS_AddElement
  <2> QED
    BY <1>2, <2>1, <2>2
<1>4. o.key # k => OpsOf(k)' = OpsOf(k)
  BY DEF OpsOf
<1> QED
  BY <1>1, <1>2, <1>3, <1>4

\* The co-fold starts with an empty register and an empty stream.
LEMMA CofoldCoreInit ==
    ASSUME CofoldAssumption, CofoldInit
    PROVE  CofoldCore
<1>1. CofoldTypeOK
  BY DEF CofoldInit, CofoldTypeOK, EmptyRegister, Register
<1>2. CeilingHolds
  <2> SUFFICES ASSUME NEW k \in Key
               PROVE  /\ counts[k] = Cardinality(AdmissionsOf(k)) /\ counts[k] <= Limit(k)
                      /\ Cardinality(OpsOf(k)) <= counts[k] /\ (OpsOf(k) = {} => counts[k] = 0)
    BY DEF CeilingHolds
  <2>1. OpsOf(k) = {} /\ AdmissionsOf(k) = {} /\ counts[k] = 0
    BY DEF OpsOf, AdmissionsOf, CofoldInit
  <2>2. Cardinality({}) = 0
    BY FS_EmptySet
  <2> QED
    BY <2>1, <2>2 DEF Limit, CofoldAssumption
<1>3. HeldWasProved /\ AdmittedUnderAward
  BY DEF CofoldInit, HeldWasProved, AdmittedUnderAward
<1>4. EpochsAreProvedOnce
  BY DEF CofoldInit, EpochsAreProvedOnce, EmptyRegister
<1>5. IsFiniteSet(stream)
  BY FS_EmptySet DEF CofoldInit
<1> QED
  BY <1>1, <1>2, <1>3, <1>4, <1>5 DEF CofoldInv, CofoldCore

\* grant() on the register: votes only move to later epochs, so a majority that
\* backs c at e or moved past it keeps doing so.
LEMMA BackKeepsCofold ==
    ASSUME CofoldInv, NEW v \in Voter, NEW c \in Candidate, NEW e \in Epoch, Back(v, c, e)
    PROVE  CofoldInv'
<1> USE DEF CofoldInv
<1>1. lease \in Register /\ lease' \in Register
  BY RegisterTypes DEF CofoldTypeOK, Back
<1>2. CofoldTypeOK' /\ CeilingHolds' /\ HeldWasProved' /\ AdmittedUnderAward'
  BY <1>1 DEF Back, CofoldTypeOK, CeilingHolds, HeldWasProved, AdmittedUnderAward, OpsOf, AdmissionsOf
<1>3. lease'.holders = lease.holders
  BY DEF Back, Granted
<1>4. ASSUME NEW d \in Candidate, NEW x \in proved[d]
      PROVE  IsQuorum(Cardinality(MovedPast(d, x[2])'))
  <2>1. x[2] \in Epoch /\ x[2] \in Nat
    <3>1. proved[d] \in SUBSET (Key \X Epoch)
      BY DEF CofoldTypeOK
    <3> QED
      BY <1>4, <3>1, EpochAssumption
  <2>2. IsQuorum(Cardinality(MovedPast(d, x[2])))
    BY <1>4 DEF EpochsAreProvedOnce
  <2>3. MovedPast(d, x[2]) \subseteq MovedPast(d, x[2])'
    <3> SUFFICES ASSUME NEW w \in MovedPast(d, x[2]) PROVE w \in MovedPast(d, x[2])'
      OBVIOUS
    <3>1. w \in Voter /\ (lease.grants[w].epoch > x[2] \/ lease.grants[w] = [epoch |-> x[2], candidate |-> d])
      BY DEF MovedPast
    <3>2. CASE lease'.grants[w] = lease.grants[w]
      BY <3>1, <3>2 DEF MovedPast
    <3>3. CASE lease'.grants[w] # lease.grants[w]
      <4>1. w = v /\ e > lease.grants[w].epoch /\ lease'.grants[w] = [epoch |-> e, candidate |-> c]
        BY <1>1, <3>1, <3>3 DEF Back, Granted, GrantAccepted, Register
      <4>2. lease.grants[w].epoch >= x[2] /\ lease.grants[w].epoch \in Int
        <5>1. lease.grants[w] \in Grant \cup {NoGrant}
          BY <1>1, <3>1 DEF Register
        <5>2. lease.grants[w].epoch \in Int
          <6>1. CASE lease.grants[w] \in Grant
            BY <6>1, EpochAssumption DEF Grant
          <6>2. CASE lease.grants[w] = NoGrant
            BY <6>2 DEF NoGrant
          <6> QED
            BY <5>1, <6>1, <6>2
        <5> QED
          BY <2>1, <3>1, <5>2
      <4>3. lease'.grants[w].epoch > x[2]
        BY <2>1, <4>1, <4>2, EpochAssumption
      <4> QED
        BY <3>1, <4>3 DEF MovedPast
    <3> QED
      BY <3>2, <3>3
  <2>4. MovedPast(d, x[2]) \in SUBSET Voter /\ MovedPast(d, x[2])' \in SUBSET Voter
    BY DEF MovedPast
  <2> QED
    BY <2>2, <2>3, <2>4, QuorumGrows
<1>5. proved' = proved
  BY DEF Back
<1>6. EpochsAreProvedOnce'
  BY <1>3, <1>4, <1>5 DEF EpochsAreProvedOnce
<1> QED
  BY <1>2, <1>6

\* release() forgets the holder and nothing else.
LEMMA ReleaseKeepsCofold ==
    ASSUME CofoldInv, NEW c \in Candidate, NEW e \in Epoch, ReleaseLease(c, e)
    PROVE  CofoldInv'
<1> USE DEF CofoldInv
<1>1. lease \in Register /\ lease' \in Register
  BY DEF CofoldTypeOK, ReleaseLease, Released, Register
<1>2. CofoldTypeOK' /\ CeilingHolds' /\ HeldWasProved' /\ AdmittedUnderAward'
  BY <1>1 DEF ReleaseLease, CofoldTypeOK, CeilingHolds, HeldWasProved, AdmittedUnderAward, OpsOf, AdmissionsOf
<1>3. lease'.grants = lease.grants /\ proved' = proved
  BY DEF ReleaseLease, Released
<1>4. \A f \in Epoch : lease'.holders[f] = lease.holders[f] \/ lease'.holders[f] = NoNode
  BY <1>1 DEF ReleaseLease, Released, Register
<1>5. \A d \in Candidate, f \in Epoch : MovedPast(d, f)' = MovedPast(d, f)
  BY <1>3 DEF MovedPast
<1>6. \A d \in Candidate : \A x \in proved[d] :
        x[2] \in Epoch /\ IsQuorum(Cardinality(MovedPast(d, x[2])'))
  BY <1>5 DEF EpochsAreProvedOnce, CofoldTypeOK
<1>7. \A f \in Epoch : lease'.holders[f] # NoNode =>
        \E k \in Key : <<k, f>> \in proved[lease'.holders[f]]
  BY <1>4 DEF EpochsAreProvedOnce
<1>8. EpochsAreProvedOnce'
  BY <1>3, <1>6, <1>7 DEF EpochsAreProvedOnce
<1> QED
  BY <1>2, <1>8

\* acquire(): the epoch goes to whoever was told so before, or to a candidate
\* that a majority backs now; in either case to nobody else.
LEMMA AcquireKeepsCofold ==
    ASSUME CofoldInv, NEW k \in Key, NEW c \in Candidate, NEW e \in Epoch, Acquire(k, c, e)
    PROVE  CofoldInv'
<1> USE DEF CofoldInv
<1>1. lease \in Register /\ lease' \in Register
  BY DEF CofoldTypeOK, Acquire, Acquired, Register
<1>2. CofoldTypeOK'
  BY <1>1 DEF Acquire, CofoldTypeOK
<1>3. CeilingHolds'
  BY DEF Acquire, CeilingHolds, OpsOf, AdmissionsOf
<1>4. /\ proved' = [proved EXCEPT ![c] = proved[c] \cup {<<k, e>>}]
      /\ proved \in [Candidate -> SUBSET (Key \X Epoch)]
      /\ held' = [held EXCEPT ![k] = e] /\ held \in [Key -> Epoch \cup {-1}]
  BY DEF Acquire, CofoldTypeOK
<1>5. HeldWasProved'
  <2> SUFFICES ASSUME NEW m \in Key, held'[m] # -1
               PROVE  \E d \in Candidate : <<m, held'[m]>> \in proved'[d]
    BY DEF HeldWasProved
  <2>1. CASE m = k
    BY <1>4, <2>1
  <2>2. CASE m # k
    BY <1>4, <2>2 DEF HeldWasProved
  <2> QED
    BY <2>1, <2>2
<1>6. AdmittedUnderAward'
  <2>1. \A d \in Candidate : proved[d] \subseteq proved'[d]
    BY <1>4
  <2>2. admitted' = admitted
    BY DEF Acquire
  <2> QED
    BY <2>1, <2>2 DEF AdmittedUnderAward
<1>7. lease'.grants = lease.grants /\ lease'.holders = [lease.holders EXCEPT ![e] = c]
  BY <1>1 DEF Acquire, Acquired, Register
<1>8. IsQuorum(Cardinality(MovedPast(c, e)))
  <2>1. CASE lease.holders[e] # NoNode
    <3>1. PICK m \in Key : <<m, e>> \in proved[c]
      BY <2>1 DEF Acquire, Acquires, EpochsAreProvedOnce
    <3> QED
      BY <3>1 DEF EpochsAreProvedOnce
  <2>2. CASE lease.holders[e] = NoNode
    <3>1. IsQuorum(Cardinality(Backers(lease, c, e)))
      BY <2>2 DEF Acquire, Acquires
    <3>2. Backers(lease, c, e) \subseteq MovedPast(c, e)
      BY DEF Backers, MovedPast
    <3>3. Backers(lease, c, e) \in SUBSET Voter /\ MovedPast(c, e) \in SUBSET Voter
      BY DEF Backers, MovedPast
    <3> QED
      BY <3>1, <3>2, <3>3, QuorumGrows
  <2> QED
    BY <2>1, <2>2
<1>9. ASSUME NEW d \in Candidate, NEW x \in proved[d], x[2] = e
      PROVE  d = c
  <2>1. CASE lease.holders[e] # NoNode
    <3>1. PICK m \in Key : <<m, e>> \in proved[c]
      BY <2>1 DEF Acquire, Acquires, EpochsAreProvedOnce
    <3> QED
      BY <1>9, <3>1 DEF EpochsAreProvedOnce
  <2>2. CASE lease.holders[e] = NoNode
    <3>1. IsQuorum(Cardinality(Backers(lease, c, e)))
      BY <2>2 DEF Acquire, Acquires
    <3>2. IsQuorum(Cardinality(MovedPast(d, e)))
      BY <1>9 DEF EpochsAreProvedOnce
    <3> QED
      BY <3>1, <3>2, BackedAgainstProved
  <2> QED
    BY <2>1, <2>2
<1>10. \A d \in Candidate : \A x \in proved'[d] : x \in proved[d] \/ (d = c /\ x = <<k, e>>)
  BY <1>4
<1>11. EpochsAreProvedOnce'
  <2>1. ASSUME NEW a \in Candidate, NEW b \in Candidate, NEW x \in proved'[a], NEW y \in proved'[b],
               x[2] = y[2]
        PROVE  a = b
    BY <1>9, <1>10, <2>1 DEF EpochsAreProvedOnce
  <2>2. ASSUME NEW f \in Epoch, lease'.holders[f] # NoNode
        PROVE  \E m \in Key : <<m, f>> \in proved'[lease'.holders[f]]
    <3>1. CASE f = e
      <4>1. lease'.holders[f] = c
        BY <1>1, <1>7, <3>1 DEF Register
      <4> QED
        BY <1>4, <3>1, <4>1
    <3>2. CASE f # e
      <4>1. lease'.holders[f] = lease.holders[f] /\ lease.holders[f] \in Candidate
        BY <1>1, <1>7, <2>2, <3>2 DEF Register
      <4>2. PICK m \in Key : <<m, f>> \in proved[lease.holders[f]]
        BY <2>2, <4>1 DEF EpochsAreProvedOnce
      <4> QED
        BY <1>4, <4>1, <4>2
    <3> QED
      BY <3>1, <3>2
  <2>3. ASSUME NEW d \in Candidate, NEW x \in proved'[d]
        PROVE  IsQuorum(Cardinality(MovedPast(d, x[2])'))
    <3>1. MovedPast(d, x[2])' = MovedPast(d, x[2])
      BY <1>7 DEF MovedPast
    <3>2. CASE x \in proved[d]
      BY <3>1, <3>2 DEF EpochsAreProvedOnce
    <3>3. CASE d = c /\ x = <<k, e>>
      BY <1>8, <3>1, <3>3
    <3> QED
      BY <1>10, <2>3, <3>2, <3>3
  <2> QED
    BY <2>1, <2>2, <2>3 DEF EpochsAreProvedOnce
<1> QED
  BY <1>2, <1>3, <1>5, <1>6, <1>11

\* try_admit(): the fence and the ceiling were checked before the append.
LEMMA TryAdmitKeepsCofold ==
    ASSUME CofoldAssumption, CofoldCore, NEW k \in Key, NEW e \in Epoch,
           NEW p \in Payload \cup {"revoke"}, TryAdmit(k, e, p), UNCHANGED <<lease, held, proved>>
    PROVE  CofoldCore'
<1> USE DEF CofoldInv, CofoldCore
<1> DEFINE o == [key |-> k, payload |-> p]
           a == [key |-> k, epoch |-> e]
<1>1. o \in Operation /\ o.key = k /\ a \in Admission /\ a.key = k /\ a.epoch = e
  BY DEF Operation, Admission
<1>2. /\ stream' = stream \cup {o} /\ stream \in SUBSET Operation
      /\ admitted' = Append(admitted, a) /\ admitted \in Seq(Admission)
  BY DEF TryAdmit, CofoldTypeOK
<1>3. counts' = [counts EXCEPT ![k] = counts[k] + 1] /\ counts \in [Key -> Nat] /\ counts[k] < Limit(k)
  BY DEF TryAdmit, Admits, CofoldTypeOK
<1> HIDE DEF o, a
<1>4. CofoldTypeOK'
  BY <1>1, <1>2, <1>3 DEF CofoldTypeOK
<1>5. HeldWasProved'
  BY DEF HeldWasProved
<1>6. CeilingHolds'
  <2> SUFFICES ASSUME NEW m \in Key
               PROVE  /\ counts'[m] = Cardinality(AdmissionsOf(m)') /\ counts'[m] <= Limit(m)
                      /\ Cardinality(OpsOf(m)') <= counts'[m] /\ (OpsOf(m)' = {} => counts'[m] = 0)
    BY DEF CeilingHolds, Limit
  <2>1. /\ counts[m] = Cardinality(AdmissionsOf(m)) /\ counts[m] <= Limit(m)
        /\ Cardinality(OpsOf(m)) <= counts[m] /\ (OpsOf(m) = {} => counts[m] = 0)
    BY DEF CeilingHolds
  <2>2. Limit(k) \in Nat
    BY DEF Limit, CofoldAssumption
  <2>3. CASE m = k
    <3>1. Cardinality(AdmissionsOf(m)') = Cardinality(AdmissionsOf(m)) + 1
      BY <1>1, <1>2, <2>3, AdmissionsAppended
    <3>2. /\ Cardinality(OpsOf(m)) \in Nat /\ Cardinality(OpsOf(m)') \in Nat /\ OpsOf(m)' # {}
          /\ Cardinality(OpsOf(m)') <= Cardinality(OpsOf(m)) + 1
      BY <1>1, <1>2, <2>3, OpsAppended
    <3>3. counts'[m] = counts[m] + 1 /\ counts[m] \in Nat /\ counts[m] < Limit(m)
      BY <1>3, <2>3
    <3> QED
      BY <2>1, <2>2, <2>3, <3>1, <3>2, <3>3
  <2>4. CASE m # k
    <3>1. AdmissionsOf(m)' = AdmissionsOf(m) /\ OpsOf(m)' = OpsOf(m)
      BY <1>1, <1>2, <2>4, AdmissionsAppended, OpsAppended
    <3> QED
      BY <1>3, <2>1, <2>4, <3>1
  <2> QED
    BY <2>3, <2>4
<1>7. EpochsAreProvedOnce'
  BY DEF EpochsAreProvedOnce, MovedPast
<1>8. AdmittedUnderAward'
  <2> SUFFICES ASSUME NEW i \in DOMAIN admitted'
               PROVE  \E c \in Candidate : <<admitted'[i].key, admitted'[i].epoch>> \in proved[c]
    BY DEF AdmittedUnderAward
  <2>1. CASE i \in DOMAIN admitted
    <3>1. admitted'[i] = admitted[i]
      BY <1>2, <2>1
    <3> QED
      BY <2>1, <3>1 DEF AdmittedUnderAward
  <2>2. CASE i = Len(admitted) + 1
    <3>1. admitted'[i] = a
      BY <1>2, <2>2
    <3>2. held[k] = e /\ held[k] # -1
      BY EpochAssumption DEF TryAdmit, Admits
    <3> QED
      BY <1>1, <3>1, <3>2 DEF HeldWasProved
  <2>3. i \in DOMAIN admitted \/ i = Len(admitted) + 1
    BY <1>2
  <2> QED
    BY <2>1, <2>2, <2>3
<1>9. IsFiniteSet(stream')
  BY <1>1, <1>2, OpsAppended
<1> QED
  BY <1>4, <1>5, <1>6, <1>7, <1>8, <1>9

\* Every operation on the register, the partitions and the grant documents
\* preserves the fence.
LEMMA CofoldCoreStep ==
    ASSUME CofoldAssumption, CofoldCore, [CofoldNext]_cofoldVars
    PROVE  CofoldCore'
<1>1. ASSUME UNCHANGED <<lease, held, proved, stream, counts, admitted>>
      PROVE  CofoldCore'
  <2>1. CofoldTypeOK' /\ HeldWasProved' /\ AdmittedUnderAward' /\ IsFiniteSet(stream')
    BY <1>1 DEF CofoldCore, CofoldInv, CofoldTypeOK, HeldWasProved, AdmittedUnderAward
  <2>2. CeilingHolds'
    BY <1>1 DEF CofoldCore, CofoldInv, CeilingHolds, OpsOf, AdmissionsOf
  <2>3. EpochsAreProvedOnce'
    BY <1>1 DEF CofoldCore, CofoldInv, EpochsAreProvedOnce, MovedPast
  <2> QED
    BY <2>1, <2>2, <2>3 DEF CofoldCore, CofoldInv
<1>2. ASSUME NEW k \in Key, NEW e \in Epoch, NEW p \in Payload, Admit(k, e, p)
      PROVE  CofoldCore'
  BY <1>2, TryAdmitKeepsCofold DEF Admit
<1>3. ASSUME NEW k \in GrantKey, NEW s \in 1..MaxStamp, NEW e \in Epoch, RevokeGrant(k, e, s)
      PROVE  CofoldCore'
  BY <1>3, TryAdmitKeepsCofold DEF RevokeGrant, Key
<1>4. ASSUME NEW k \in GrantKey, NEW s \in 1..MaxStamp, PutGrant(k, s)
      PROVE  CofoldCore'
  BY <1>1, <1>4 DEF PutGrant
<1>5. ASSUME NEW w \in sent, MergePut(w)
      PROVE  CofoldCore'
  BY <1>1, <1>5 DEF MergePut
<1>6. CASE UNCHANGED cofoldVars
  BY <1>1, <1>6 DEF cofoldVars
<1>7. ASSUME NEW v \in Voter, NEW c \in Candidate, NEW e \in Epoch, Back(v, c, e)
      PROVE  CofoldCore'
  BY <1>7, BackKeepsCofold DEF CofoldCore, Back
<1>8. ASSUME NEW c \in Candidate, NEW e \in Epoch, ReleaseLease(c, e)
      PROVE  CofoldCore'
  BY <1>8, ReleaseKeepsCofold DEF CofoldCore, ReleaseLease
<1>9. ASSUME NEW k \in Key, NEW c \in Candidate, NEW e \in Epoch, Acquire(k, c, e)
      PROVE  CofoldCore'
  BY <1>9, AcquireKeepsCofold DEF CofoldCore, Acquire
<1> QED
  BY <1>2, <1>3, <1>4, <1>5, <1>6, <1>7, <1>8, <1>9 DEF CofoldNext

\* For every set of voters, keys, payloads and epochs: ceilings are spent by
\* admissions alone and never passed, whatever is admitted is admitted under an
\* epoch acquire() awarded for the key, and an epoch is awarded to one candidate.
THEOREM CofoldInvariant ==
    ASSUME CofoldAssumption
    PROVE  CofoldSpec => []CofoldInv
<1>1. CofoldInit => CofoldCore
  BY CofoldCoreInit
<1>2. CofoldCore /\ [CofoldNext]_cofoldVars => CofoldCore'
  BY CofoldCoreStep
<1>3. CofoldCore => CofoldInv
  BY DEF CofoldCore
<1> QED
  BY <1>1, <1>2, <1>3, PTL DEF CofoldSpec
=============================================================================
