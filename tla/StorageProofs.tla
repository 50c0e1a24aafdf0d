---------------------------- MODULE StorageProofs ----------------------------
(***************************************************************************)
(* Proofs about what a node keeps on disk and on foreign replicas:         *)
(* GeoReplication, StreamPersist, SegmentChain and KeyedStore.  They share *)
(* no state.                                                               *)
(***************************************************************************)
EXTENDS MCStorage, FiniteSetTheorems, SequenceTheorems, TLAPS

\* grant(): the signed epoch is never below the remote's, and above it after a
\* revocation.
LEMMA NextEpochRises ==
    ASSUME ReplicationInv, NEW r \in Remote
    PROVE  /\ NextEpoch(r) \in Nat /\ NextEpoch(r) >= epochs[r]
           /\ r \in revoked => NextEpoch(r) > epochs[r]
           /\ r \notin revoked /\ epochs[r] # -1 => NextEpoch(r) = epochs[r]
<1>1. epochs[r] \in Nat \/ epochs[r] = -1
  BY DEF ReplicationInv, GeoTypeOK
<1>2. CASE r \in revoked
  BY <1>1, <1>2 DEF NextEpoch
<1>3. CASE r \notin revoked /\ epochs[r] = -1
  BY <1>3 DEF NextEpoch
<1>4. CASE r \notin revoked /\ epochs[r] # -1
  BY <1>1, <1>4 DEF NextEpoch
<1> QED
  BY <1>2, <1>3, <1>4

\* A grant of a remote's current epoch is good exactly while it is trusted, so
\* the two readable statements follow from EpochsFence.
LEMMA EpochsDecide ==
    ASSUME GeoTypeOK, EpochsFence
    PROVE  FencedStaysFenced /\ TrustedHasAGrant
<1>1. FencedStaysFenced
  BY DEF FencedStaysFenced, Authorizes, EpochsFence, GeoTypeOK
<1>2. TrustedHasAGrant
  <2> SUFFICES ASSUME NEW r \in Remote, r \notin revoked, epochs[r] # -1
               PROVE  \E g \in issued : g.remote = r /\ Authorizes(g)
    BY DEF TrustedHasAGrant
  <2> DEFINE g == [remote |-> r, epoch |-> epochs[r]]
  <2>1. g \in issued
    BY DEF EpochsFence
  <2>2. g.remote = r /\ g.epoch = epochs[r]
    OBVIOUS
  <2> HIDE DEF g
  <2>3. Authorizes(g)
    BY <2>1, <2>2 DEF Authorizes
  <2> QED
    BY <2>1, <2>2, <2>3
<1> QED
  BY <1>1, <1>2

\* Nothing is granted, revoked or pinned at first.
LEMMA ReplicationInvInit == GeoInit => ReplicationInv
<1> SUFFICES ASSUME GeoInit PROVE ReplicationInv
  OBVIOUS
<1>1. GeoTypeOK /\ PinnedUnderGrant /\ EpochsFence
  BY DEF GeoInit, GeoTypeOK, PinnedUnderGrant, EpochsFence
<1> QED
  BY <1>1, EpochsDecide DEF ReplicationInv

\* grant(), revoke() and authorize_and_pin() preserve the invariant.
LEMMA ReplicationInvStep ==
    ASSUME ReplicationInv, [GeoNext]_geoVars
    PROVE  ReplicationInv'
<1> USE DEF ReplicationInv
<1>1. ASSUME GeoTypeOK', EpochsFence', PinnedUnderGrant'
      PROVE  ReplicationInv'
  BY <1>1, EpochsDecide, PTL
<1>2. ASSUME NEW r \in Remote, Grant(r)
      PROVE  ReplicationInv'
  <2> DEFINE e == NextEpoch(r)
             new == [remote |-> r, epoch |-> e]
  <2>1. /\ e \in Nat /\ e >= epochs[r] /\ (r \in revoked => e > epochs[r])
        /\ r \notin revoked /\ epochs[r] # -1 => e = epochs[r]
    BY NextEpochRises
  <2>2. new \in SignedGrant /\ new.remote = r /\ new.epoch = e
    BY <2>1 DEF SignedGrant
  <2>3. /\ epochs' = [epochs EXCEPT ![r] = e] /\ issued' = issued \cup {new}
        /\ revoked' = revoked \ {r} /\ fenced' = fenced /\ pinned' = pinned
    BY <1>2 DEF Grant
  <2>4. epochs'[r] = e /\ \A q \in Remote : q # r => epochs'[q] = epochs[q]
    BY <2>3 DEF GeoTypeOK
  <2>5. \A q \in Remote : epochs[q] \in Int
    BY DEF GeoTypeOK
  <2> HIDE DEF e, new
  <2>6. GeoTypeOK'
    BY <2>1, <2>2, <2>3 DEF GeoTypeOK
  <2>7. PinnedUnderGrant'
    BY <2>3 DEF PinnedUnderGrant
  <2>8. EpochsFence'
    <3>1. ASSUME NEW g \in issued' PROVE g.epoch <= epochs'[g.remote]
      <4>1. CASE g = new
        BY <2>1, <2>2, <2>4, <4>1
      <4>2. CASE g \in issued
        <5>1. g.epoch \in Nat /\ g.remote \in Remote /\ g.epoch <= epochs[g.remote]
          BY <4>2 DEF GeoTypeOK, SignedGrant, EpochsFence
        <5> QED
          BY <2>1, <2>4, <2>5, <5>1
      <4> QED
        BY <2>3, <3>1, <4>1, <4>2
    <3>2. ASSUME NEW q \in Remote, epochs'[q] # -1
          PROVE  [remote |-> q, epoch |-> epochs'[q]] \in issued'
      BY <2>3, <2>4, <3>2 DEF EpochsFence, new
    <3>3. ASSUME NEW g \in fenced', g.epoch = epochs'[g.remote]
          PROVE  g.remote \in revoked'
      <4>1. g \in fenced /\ g \in issued /\ g.epoch \in Nat /\ g.remote \in Remote
        BY <2>3, <3>3 DEF GeoTypeOK, SignedGrant
      <4>2. g.epoch <= epochs[g.remote]
        BY <4>1 DEF EpochsFence
      <4>3. CASE g.remote # r
        BY <2>3, <2>4, <3>3, <4>1, <4>3 DEF EpochsFence
      <4>4. CASE g.remote = r
        <5>1. g.epoch = e /\ e <= epochs[r] /\ epochs[r] \in Int
          BY <2>4, <2>5, <3>3, <4>1, <4>2, <4>4
        <5>2. g.epoch = epochs[r] /\ r \notin revoked
          BY <2>1, <5>1
        <5> QED
          BY <4>1, <4>4, <5>2 DEF EpochsFence
      <4> QED
        BY <4>3, <4>4
    <3> QED
      BY <3>1, <3>2, <3>3 DEF EpochsFence
  <2> QED
    BY <1>1, <2>6, <2>7, <2>8
<1>3. ASSUME NEW r \in Remote, Revoke(r)
      PROVE  ReplicationInv'
  <2>1. GeoTypeOK' /\ PinnedUnderGrant'
    BY <1>3 DEF Revoke, GeoTypeOK, PinnedUnderGrant
  <2>2. EpochsFence'
    BY <1>3 DEF Revoke, EpochsFence, GeoTypeOK
  <2> QED
    BY <1>1, <2>1, <2>2
<1>4. ASSUME NEW r \in Remote, NEW g \in issued, NEW s \in Segment, AuthorizeAndPin(r, g, s)
      PROVE  ReplicationInv'
  <2> DEFINE pin == [segment |-> s, grant |-> g]
  <2>1. pin \in [segment : Segment, grant : SignedGrant] /\ pin.segment = s /\ pin.grant = g
    BY DEF GeoTypeOK
  <2>2. pinned' = [pinned EXCEPT ![r] = pinned[r] \cup {pin}]
    BY <1>4 DEF AuthorizeAndPin
  <2> HIDE DEF pin
  <2>3. GeoTypeOK'
    BY <1>4, <2>1, <2>2 DEF AuthorizeAndPin, GeoTypeOK
  <2>4. PinnedUnderGrant'
    BY <1>4, <2>1, <2>2 DEF AuthorizeAndPin, PinnedUnderGrant, GeoTypeOK
  <2>5. EpochsFence'
    BY <1>4 DEF AuthorizeAndPin, EpochsFence
  <2> QED
    BY <1>1, <2>3, <2>4, <2>5
<1>5. CASE UNCHANGED geoVars
  BY <1>1, <1>5 DEF geoVars, GeoTypeOK, PinnedUnderGrant, EpochsFence
<1> QED
  BY <1>2, <1>3, <1>4, <1>5 DEF GeoNext

\* For every set of remotes and every sequence of grants and revocations: a
\* grant signed before a revocation of its remote never authorises again, and
\* nothing readable is pinned abroad (grant(), revoke(), authorizes()).
THEOREM ReplicationInvariant == GeoSpec => []ReplicationInv
<1>1. ReplicationInv /\ [GeoNext]_geoVars => ReplicationInv'
  BY ReplicationInvStep
<1> QED
  BY <1>1, ReplicationInvInit, PTL DEF GeoSpec

-----------------------------------------------------------------------------
\* The operation store.

\* The head of a list of operations and the rest of it make up the list.
LEMMA HeadAndTail ==
    ASSUME NEW S, NEW s \in Seq(S), s # << >>
    PROVE  /\ Head(s) \in S /\ Tail(s) \in Seq(S) /\ Len(s) \in Nat \ {0}
           /\ Range(s) = {Head(s)} \cup Range(Tail(s))
<1>1. Head(s) \in S /\ Tail(s) \in Seq(S) /\ Len(s) \in Nat \ {0} /\ Head(s) = s[1]
  OBVIOUS
<1>2. DOMAIN s = 1..Len(s) /\ DOMAIN Tail(s) = 1..(Len(s) - 1)
  OBVIOUS
<1>3. \A i \in DOMAIN Tail(s) : Tail(s)[i] = s[i + 1] /\ i + 1 \in DOMAIN s
  BY <1>1, <1>2
<1>4. \A i \in DOMAIN s : i # 1 => i - 1 \in DOMAIN Tail(s) /\ s[i] = Tail(s)[i - 1]
  BY <1>1, <1>2, <1>3
<1>5. 1 \in DOMAIN s
  BY <1>1, <1>2
<1>6. Range(s) \subseteq {Head(s)} \cup Range(Tail(s))
  <2> SUFFICES ASSUME NEW i \in DOMAIN s PROVE s[i] \in {Head(s)} \cup Range(Tail(s))
    BY DEF Range
  <2> QED
    BY <1>1, <1>4 DEF Range
<1>7. {Head(s)} \cup Range(Tail(s)) \subseteq Range(s)
  <2>1. Head(s) \in Range(s)
    BY <1>1, <1>5 DEF Range
  <2>2. ASSUME NEW i \in DOMAIN Tail(s) PROVE Tail(s)[i] \in Range(s)
    BY <1>3 DEF Range
  <2> QED
    BY <2>1, <2>2 DEF Range
<1> QED
  BY <1>1, <1>6, <1>7

\* A new store holds nothing, on disk or in memory.
LEMMA PersistInvInit == PersistInit => PersistInv
<1> SUFFICES ASSUME PersistInit PROVE PersistInv
  OBVIOUS
<1>1. PersistTypeOK
  BY DEF PersistInit, PersistTypeOK, Idle, Job
<1>2. DurableFirst
  BY DEF PersistInit, DurableFirst
<1>3. Leftovers = {}
  BY DEF PersistInit, Leftovers
<1>4. Cardinality({}) = 0
  BY FS_EmptySet
<1>5. DiskAheadOnlyAfterTrouble
  BY <1>3, <1>4 DEF PersistInit, DiskAheadOnlyAfterTrouble
<1>6. JobProgress
  BY <1>3 DEF PersistInit, Idle, JobProgress, Range
<1> QED
  BY <1>1, <1>2, <1>5, <1>6 DEF PersistInv

\* Once the loop's progress is known, the readable statement follows: at most
\* one temporary file, and a quiet disk is the log.
LEMMA ProgressBoundsDisk ==
    ASSUME PersistTypeOK, DurableFirst, JobProgress
    PROVE  DiskAheadOnlyAfterTrouble
<1>1. ASSUME faults = 0, crashes = 0 PROVE Cardinality(Leftovers) <= 1
  <2>1. CASE Leftovers = {}
    BY <2>1, FS_EmptySet
  <2>2. CASE Leftovers = {Head(job.todo)}
    <3>1. Cardinality({Head(job.todo)}) = 1
      BY FS_Singleton
    <3> QED
      BY <2>2, <3>1
  <2> QED
    BY <1>1, <2>1, <2>2 DEF JobProgress
<1>2. ASSUME handle = "open", job = Idle, faults = 0 PROVE final = opLog
  BY <1>2 DEF JobProgress, DurableFirst, Idle
<1> QED
  BY <1>1, <1>2 DEF DiskAheadOnlyAfterTrouble

\* A call that ends early, by an error or by a crash, leaves at most a part of
\* the temporary file of an operation that is not on disk.
LEMMA CutShortKeepsFinal ==
    ASSUME PersistInv, tmp' \in CutShort
    PROVE  tmp' \in [StoredOp -> {"none", "partial", "full"}] /\ \A o \in final : tmp'[o] = "none"
<1> USE DEF PersistInv
<1>1. CASE tmp' = tmp
  BY <1>1 DEF PersistTypeOK, DurableFirst
<1>2. CASE Writing /\ tmp' = [tmp EXCEPT ![Head(job.todo)] = "partial"]
  <2>1. Head(job.todo) \in StoredOp /\ Head(job.todo) \notin final
    BY <1>2, HeadAndTail DEF Writing, Done, PersistTypeOK, Job
  <2> QED
    BY <1>2, <2>1 DEF PersistTypeOK, DurableFirst
<1> QED
  BY <1>1, <1>2 DEF CutShort

\* Every file system call, its failure and every crash preserve the invariant
\* of the store: one step per action.
LEMMA PersistInvStep ==
    ASSUME PersistInv, [PersistNext]_persistVars
    PROVE  PersistInv'
<1> USE DEF PersistInv
<1>1. ASSUME PersistTypeOK', DurableFirst', JobProgress'
      PROVE  PersistInv'
  BY <1>1, ProgressBoundsDisk, PTL
<1>2. job \in Job /\ job.todo \in Seq(StoredOp) /\ job.all \subseteq StoredOp
  BY DEF PersistTypeOK, Job
<1>3. ASSUME NEW o \in StoredOp, Append1(o)
      PROVE  PersistInv'
  <2>1. /\ job'.kind = "append" /\ job'.todo = <<o>> /\ job'.all = {o} /\ job'.wrote = FALSE
        /\ job' \in Job
    BY <1>3 DEF Append1, Job
  <2>2. Range(<<o>>) = {o}
    BY DEF Range
  <2>3. PersistTypeOK' /\ DurableFirst'
    BY <1>3, <2>1 DEF Append1, PersistTypeOK, DurableFirst
  <2>4. JobProgress'
    BY <1>3, <2>1, <2>2 DEF Append1, JobProgress, Idle, Leftovers
  <2> QED
    BY <1>1, <2>3, <2>4
<1>4. ASSUME NEW order \in Orders, MergePersistent(order)
      PROVE  PersistInv'
  <2>1. order \in Seq(StoredOp) /\ Range(order) \subseteq StoredOp
    <3>1. PICK n \in 1..2 : order \in [1..n -> StoredOp]
      BY DEF Orders
    <3> QED
      BY <3>1 DEF Range
  <2>2. /\ job'.kind = "merge" /\ job'.todo = order /\ job'.all = Range(order) /\ job'.wrote = FALSE
        /\ job' \in Job
    BY <1>4, <2>1 DEF MergePersistent, Job
  <2>3. PersistTypeOK' /\ DurableFirst'
    BY <1>4, <2>2 DEF MergePersistent, PersistTypeOK, DurableFirst
  <2>4. JobProgress'
    BY <1>4, <2>2 DEF MergePersistent, JobProgress, Idle, Leftovers
  <2> QED
    BY <1>1, <2>3, <2>4
<1>5. ASSUME job.todo # << >>
      PROVE  /\ handle = "open" /\ job.kind # "idle"
             /\ Head(job.todo) \in StoredOp /\ Head(job.todo) \in job.all
             /\ Tail(job.todo) \in Seq(StoredOp)
             /\ Range(job.todo) = {Head(job.todo)} \cup Range(Tail(job.todo))
  BY <1>2, <1>5, HeadAndTail DEF PersistTypeOK, Idle, JobProgress
<1>6. CASE SkipExisting
  <2>1. /\ job'.kind = job.kind /\ job'.todo = Tail(job.todo) /\ job'.all = job.all
        /\ job'.wrote = job.wrote /\ job' \in Job
    BY <1>2, <1>5, <1>6 DEF SkipExisting, Job
  <2>2. Head(job.todo) \in final /\ ~job.wrote
    BY <1>6 DEF SkipExisting, Done, Writing, JobProgress, DurableFirst
  <2>3. PersistTypeOK' /\ DurableFirst'
    BY <1>5, <1>6, <2>1 DEF SkipExisting, PersistTypeOK, DurableFirst
  <2>4. JobProgress'
    BY <1>5, <1>6, <2>1, <2>2 DEF SkipExisting, JobProgress, Leftovers
  <2> QED
    BY <1>1, <2>3, <2>4
<1>7. CASE WriteTmp
  <2>1. /\ job'.kind = job.kind /\ job'.todo = job.todo /\ job'.all = job.all
        /\ job'.wrote = TRUE /\ job' \in Job
    BY <1>2, <1>7 DEF WriteTmp, Job
  <2>2. Head(job.todo) \notin final /\ job.todo # << >>
    BY <1>7 DEF WriteTmp, Writing, Done
  <2>3. PersistTypeOK' /\ DurableFirst'
    BY <1>5, <1>7, <2>1, <2>2 DEF WriteTmp, PersistTypeOK, DurableFirst
  <2>4. Writing'
    BY <1>7, <2>1 DEF WriteTmp, Writing, Done
  <2>5. ASSUME faults = 0, crashes = 0 PROVE Leftovers' = {Head(job.todo)}
    <3>1. Leftovers = {}
      BY <1>7, <2>5 DEF WriteTmp, JobProgress
    <3> QED
      BY <1>5, <1>7, <2>2, <3>1 DEF WriteTmp, Leftovers, PersistTypeOK
  <2>6. JobProgress'
    BY <1>7, <2>1, <2>4, <2>5 DEF WriteTmp, JobProgress
  <2> QED
    BY <1>1, <2>3, <2>6
<1>8. CASE Rename
  <2>1. /\ job'.kind = job.kind /\ job'.todo = Tail(job.todo) /\ job'.all = job.all
        /\ job'.wrote = FALSE /\ job' \in Job
    BY <1>2, <1>5, <1>8 DEF Rename, Writing, Job
  <2>2. job.todo # << >> /\ final' = final \cup {Head(job.todo)}
    BY <1>8 DEF Rename, Writing
  <2>3. PersistTypeOK' /\ DurableFirst'
    BY <1>5, <1>8, <2>1, <2>2 DEF Rename, PersistTypeOK, DurableFirst
  <2>4. ASSUME faults = 0, crashes = 0 PROVE Leftovers' = {}
    <3>1. Leftovers = {Head(job.todo)}
      BY <1>8, <2>4 DEF Rename, JobProgress
    <3> QED
      BY <1>5, <1>8, <2>2, <3>1 DEF Rename, Leftovers, PersistTypeOK
  <2>5. JobProgress'
    BY <1>5, <1>8, <2>1, <2>2, <2>4 DEF Rename, JobProgress
  <2> QED
    BY <1>1, <2>3, <2>5
<1>9. Range(Idle.todo) = {} /\ Idle.all = {} /\ Idle.wrote = FALSE /\ Idle \in Job /\ Idle.kind = "idle"
  BY DEF Idle, Range, Job
<1>10. CASE CallFails
  <2>1. PersistTypeOK' /\ DurableFirst'
    BY <1>9, <1>10, CutShortKeepsFinal DEF CallFails, PersistTypeOK, DurableFirst
  <2>2. faults' # 0
    BY <1>10 DEF CallFails, PersistTypeOK
  <2>3. JobProgress'
    BY <1>9, <1>10, <2>2 DEF CallFails, JobProgress
  <2> QED
    BY <1>1, <2>1, <2>3
<1>11. CASE Record
  <2>1. job.all \subseteq final /\ ~job.wrote /\ handle = "open"
    <3>1. Range(<<>>) = {}
      BY DEF Range
    <3> QED
      BY <1>11, <3>1, <1>9 DEF Record, JobProgress, Writing, PersistTypeOK
  <2>2. PersistTypeOK' /\ DurableFirst'
    BY <1>2, <1>9, <1>11, <2>1 DEF Record, PersistTypeOK, DurableFirst
  <2>3. JobProgress'
    BY <1>9, <1>11, <2>1 DEF Record, JobProgress, Leftovers
  <2> QED
    BY <1>1, <2>2, <2>3
<1>12. CASE Crash
  <2>1. PersistTypeOK' /\ DurableFirst'
    BY <1>9, <1>12, CutShortKeepsFinal DEF Crash, PersistTypeOK, DurableFirst
  <2>2. crashes' # 0 /\ handle' # "open"
    BY <1>12 DEF Crash, PersistTypeOK
  <2>3. JobProgress'
    BY <1>9, <1>12, <2>2 DEF Crash, JobProgress
  <2> QED
    BY <1>1, <2>1, <2>3
<1>13. CASE OpenStore
  <2>1. job = Idle /\ job' = job
    BY <1>13 DEF OpenStore, PersistTypeOK
  <2>2. PersistTypeOK' /\ DurableFirst'
    BY <1>13, <2>1 DEF OpenStore, PersistTypeOK, DurableFirst
  <2>3. JobProgress'
    BY <1>9, <1>13, <2>1 DEF OpenStore, JobProgress, Leftovers
  <2> QED
    BY <1>1, <2>2, <2>3
<1>14. CASE UNCHANGED persistVars
  BY <1>14, <1>1 DEF persistVars, PersistTypeOK, DurableFirst, JobProgress, Leftovers, Writing, Done
<1> QED
  BY <1>3, <1>4, <1>6, <1>7, <1>8, <1>10, <1>11, <1>12, <1>13, <1>14 DEF PersistNext

\* For every set of operations and any number of failing calls and crashes:
\* what an append returned, and what the log shows, is on disk under its
\* address (append(), merge_persistent(), persist_op(), open_with()).
THEOREM PersistInvariant == PersistSpec => []PersistInv
<1>1. PersistInv /\ [PersistNext]_persistVars => PersistInv'
  BY PersistInvStep
<1> QED
  BY <1>1, PersistInvInit, PTL DEF PersistSpec

-----------------------------------------------------------------------------
\* The chain of segments.

\* An identifier is a non-empty list of payloads within the bound.
LEMMA ChainIdType ==
    ASSUME ChainAssumption
    PROVE  /\ \A s : s \in ChainId <=> s \in Seq(Operation) /\ Len(s) \in 1..MaxChain
           /\ \A s \in ChainId : Range(s) \subseteq Operation /\ s # << >>
<1>1. ASSUME NEW s \in ChainId PROVE s \in Seq(Operation) /\ Len(s) \in 1..MaxChain
  <2>1. PICK n \in 1..MaxChain : s \in [1..n -> Operation]
    BY DEF ChainId
  <2> QED
    BY <2>1 DEF ChainAssumption
<1>2. ASSUME NEW s \in Seq(Operation), Len(s) \in 1..MaxChain PROVE s \in ChainId
  <2>1. s \in [1..Len(s) -> Operation]
    OBVIOUS
  <2> QED
    BY <1>2, <2>1 DEF ChainId
<1>3. ASSUME NEW s \in ChainId PROVE Range(s) \subseteq Operation /\ s # << >>
  BY <1>1 DEF Range
<1> QED
  BY <1>1, <1>2, <1>3

\* One more segment: its chain is the chain before and itself, its operations
\* those before and its payload, and the chain before is a prefix of it.
LEMMA ChainExtends ==
    ASSUME NEW h \in Seq(Operation), NEW p \in Operation
    PROVE  /\ Chain(Append(h, p)) = Chain(h) \cup {Append(h, p)}
           /\ Range(Append(h, p)) = Range(h) \cup {p}
           /\ IsStrictPrefix(h, Append(h, p))
<1> DEFINE s == Append(h, p)
<1>1. s \in Seq(Operation) /\ Len(s) = Len(h) + 1 /\ Len(h) \in Nat
  OBVIOUS
<1>2. /\ DOMAIN h = 1..Len(h) /\ DOMAIN s = 1..(Len(h) + 1)
      /\ s[Len(h) + 1] = p /\ \A i \in 1..Len(h) : s[i] = h[i]
  OBVIOUS
<1>3. SubSeq(s, 1, Len(s)) = s /\ SubSeq(h, 1, Len(h)) = h
  BY <1>1, SubSeqFull
<1> HIDE DEF s
<1>4. ASSUME NEW n \in 1..Len(h) PROVE SubSeq(s, 1, n) = SubSeq(h, 1, n)
  <2>1. n \in Nat /\ n <= Len(h)
    BY <1>1
  <2>2. \A i \in 1..n : s[i] \in Operation /\ h[i] \in Operation /\ s[i] = h[i]
    BY <1>1, <1>2, <2>1
  <2>3. /\ SubSeq(s, 1, n) \in Seq(Operation) /\ Len(SubSeq(s, 1, n)) = n
        /\ \A i \in 1..n : SubSeq(s, 1, n)[i] = s[i]
    BY <1>1, <1>2, <2>1, <2>2
  <2>4. /\ SubSeq(h, 1, n) \in Seq(Operation) /\ Len(SubSeq(h, 1, n)) = n
        /\ \A i \in 1..n : SubSeq(h, 1, n)[i] = h[i]
    BY <1>1, <1>2, <2>1, <2>2
  <2> QED
    BY <2>2, <2>3, <2>4
<1>5. Chain(s) = Chain(h) \cup {s}
  <2>1. 1..Len(s) = 1..Len(h) \cup {Len(s)}
    BY <1>1
  <2> QED
    BY <1>3, <1>4, <2>1 DEF Chain
<1>6. Range(s) = Range(h) \cup {p}
  BY <1>1, <1>2 DEF Range
<1>7. IsStrictPrefix(h, s)
  <2>1. SubSeq(h, 1, Len(h)) = SubSeq(s, 1, Len(h))
    <3>1. CASE Len(h) = 0
      BY <3>1, SubSeqEmpty
    <3>2. CASE Len(h) # 0
      BY <1>1, <1>4, <3>2
    <3> QED
      BY <3>1, <3>2
  <2>2. h # s /\ Len(h) <= Len(s)
    BY <1>1
  <2> QED
    BY <2>1, <2>2 DEF IsStrictPrefix, IsPrefix
<1> QED
  BY <1>5, <1>6, <1>7 DEF s

\* A new node has no head, no segment and no append under way.
LEMMA ChainInvInit ==
    ASSUME ChainAssumption, ChainInit
    PROVE  ChainInv
<1>1. ChainTypeOK
  BY DEF ChainInit, ChainTypeOK
<1>2. DiskChain = << >> /\ DiskSeq = 0
  BY DEF ChainInit, DiskChain, DiskSeq
<1>3. HeadIsComplete
  BY <1>2 DEF HeadIsComplete, CanOpen, Chain
<1>4. AckedIsReachable /\ NeverStale /\ RebuiltIsAPast
  BY <1>2 DEF ChainInit, AckedIsReachable, NeverStale, RebuiltIsAPast, Range
<1>5. StepProgress
  BY DEF ChainInit, StepProgress, NoStep
<1> QED
  BY <1>1, <1>3, <1>4, <1>5 DEF ChainInv

\* The handle's chain is a list of payloads.
LEMMA HeadIsList ==
    ASSUME ChainAssumption, ChainTypeOK
    PROVE  head \in Seq(Operation) /\ Len(head) \in Nat
<1>1. head \in ChainId \/ head = << >>
  BY DEF ChainTypeOK
<1>2. head \in Seq(Operation)
  <2>1. << >> \in Seq(Operation)
    OBVIOUS
  <2> QED
    BY <1>1, <2>1, ChainIdType
<1> QED
  BY <1>2

\* The append under way, as its step says.
LEMMA UnderWay ==
    ASSUME ChainAssumption, ChainInv, step.at # "idle"
    PROVE  /\ step \in AppendStep /\ step.id \in ChainId /\ step.payload \in Operation
           /\ up /\ step.id = Append(head, step.payload) /\ head \in Seq(Operation)
<1>1. step \in AppendStep
  BY DEF ChainInv, ChainTypeOK, NoStep
<1>2. step # NoStep
  BY DEF NoStep
<1>3. head \in Seq(Operation)
  BY HeadIsList DEF ChainInv
<1> QED
  BY <1>1, <1>2, <1>3 DEF ChainInv, StepProgress, AppendStep

\* publish_head(): the record names the new segment, whose chain is stored and
\* pinned because the one before it was and the segment itself was put and
\* pinned first.
LEMMA PublishKeepsChain ==
    ASSUME ChainAssumption, ChainInv, PublishHead
    PROVE  ChainInv'
<1> USE DEF ChainInv
<1> DEFINE rec == [seq |-> seq + 1, target |-> step.id]
<1>1. /\ step \in AppendStep /\ step.id \in ChainId /\ step.payload \in Operation /\ up
      /\ step.id = Append(head, step.payload) /\ head \in Seq(Operation)
  BY UnderWay DEF PublishHead
<1>2. rec \in HeadRecord /\ rec # None /\ rec.seq = seq + 1 /\ rec.target = step.id
  <2>1. rec \in HeadRecord /\ rec.seq = seq + 1 /\ rec.target = step.id
    BY <1>1 DEF HeadRecord, ChainTypeOK
  <2> HIDE DEF rec
  <2> QED
    BY <2>1 DEF ChainAssumption
<1>3. /\ diskHead' = rec /\ heads' = heads \cup {rec} /\ seq' = seq + 1
      /\ step' = [step EXCEPT !.at = "record"] /\ step.at = "publish"
      /\ UNCHANGED <<blocks, pins, adverts, held, ops, head, up, acked, reader, troubles>>
  BY DEF PublishHead
<1> HIDE DEF rec
<1>4. DiskChain' = step.id /\ DiskSeq' = seq + 1
  BY <1>2, <1>3 DEF DiskChain, DiskSeq
<1>5. head = DiskChain
  BY <1>1, <1>3 DEF AckedIsReachable
<1>6. /\ step' \in AppendStep /\ step'.id = step.id /\ step'.payload = step.payload
      /\ step'.at = "record" /\ step' # NoStep
  BY <1>1, <1>3 DEF AppendStep, NoStep
<1>7. ChainTypeOK'
  BY <1>2, <1>3, <1>6 DEF ChainTypeOK
<1>8. HeadIsComplete'
  <2>1. Chain(step.id) = Chain(head) \cup {step.id}
    BY <1>1, ChainExtends
  <2>2. Chain(head) \subseteq blocks \cap pins
    BY <1>5 DEF HeadIsComplete, CanOpen
  <2>3. step.id \in blocks \cap pins
    BY <1>3 DEF StepProgress
  <2> QED
    BY <1>3, <1>4, <2>1, <2>2, <2>3 DEF HeadIsComplete, CanOpen
<1>9. AckedIsReachable'
  <2>1. Range(step.id) = Range(head) \cup {step.payload}
    BY <1>1, ChainExtends
  <2> QED
    BY <1>3, <1>4, <1>5, <1>6, <2>1 DEF AckedIsReachable
<1>10. NeverStale'
  BY <1>3, <1>4 DEF NeverStale, ChainTypeOK
<1>11. RebuiltIsAPast'
  BY <1>3 DEF RebuiltIsAPast
<1>12. StepProgress'
  <2>1. step.id \in blocks /\ step.id \in pins
    BY <1>3 DEF StepProgress
  <2>2. up' /\ step'.id = Append(head', step'.payload) /\ step'.id \in blocks' /\ step'.id \in pins'
    <3>1. head' = head /\ up' = up /\ blocks' = blocks /\ pins' = pins
      BY <1>3
    <3>2. step'.id = Append(head', step'.payload)
      BY <1>1, <1>6, <3>1, Zenon
    <3> QED
      BY <1>1, <1>6, <2>1, <3>1, <3>2, Zenon
  <2>3. DiskChain' = step'.id
    BY <1>4, <1>6
  <2> QED
    BY <2>2, <2>3 DEF StepProgress
<1> QED
  BY <1>7, <1>8, <1>9, <1>10, <1>11, <1>12

\* What reading the disk head depends on.
LEMMA DiskUnchanged ==
    ASSUME diskHead' = diskHead
    PROVE  DiskChain' = DiskChain /\ DiskSeq' = DiskSeq
BY DEF DiskChain, DiskSeq

\* Every step of an append, every failure, crash, open and rebuild preserves the
\* invariant of the chain.
LEMMA ChainInvStep ==
    ASSUME ChainAssumption, ChainInv, [ChainNext]_chainVars
    PROVE  ChainInv'
<1> USE DEF ChainInv
<1>1. ASSUME NEW p \in Operation, StartAppend(p)
      PROVE  ChainInv'
  <2>1. head \in Seq(Operation) /\ Len(head) \in Nat
    BY HeadIsList
  <2>2. Append(head, p) \in ChainId
    <3>1. Append(head, p) \in Seq(Operation) /\ Len(Append(head, p)) \in 1..MaxChain
      BY <1>1, <2>1 DEF StartAppend, ChainAssumption
    <3> QED
      BY <3>1, ChainIdType
  <2>3. /\ step' \in AppendStep /\ step'.id = Append(head, p) /\ step'.payload = p /\ step'.at = "put"
    BY <1>1, <2>2 DEF StartAppend, AppendStep
  <2>4. DiskChain' = DiskChain /\ DiskSeq' = DiskSeq
    BY <1>1, DiskUnchanged DEF StartAppend
  <2>5. ChainTypeOK'
    BY <1>1, <2>3 DEF StartAppend, ChainTypeOK
  <2>6. step.at # "record"
    BY <1>1 DEF StartAppend, NoStep
  <2>7. HeadIsComplete' /\ AckedIsReachable' /\ NeverStale' /\ RebuiltIsAPast'
    BY <1>1, <2>4, <2>6 DEF StartAppend, HeadIsComplete, CanOpen, AckedIsReachable, NeverStale, RebuiltIsAPast
  <2>8. StepProgress'
    BY <1>1, <2>3 DEF StartAppend, StepProgress
  <2> QED
    BY <2>5, <2>7, <2>8
<1>2. ASSUME NEW p \in Operation, ReaderAppend(p)
      PROVE  ChainInv'
  <2>1. reader \in Rebuilt /\ reader.head \in Seq(Operation) /\ reader.secret /\ Len(reader.head) < MaxChain
    BY <1>2, ChainIdType DEF ReaderAppend, ChainTypeOK, Rebuilt
  <2>2. Append(reader.head, p) \in ChainId
    <3>1. Append(reader.head, p) \in Seq(Operation) /\ Len(Append(reader.head, p)) \in 1..MaxChain
      BY <2>1 DEF ChainAssumption
    <3> QED
      BY <3>1, ChainIdType
  <2>3. reader' \in Rebuilt /\ reader'.secret
    <3>1. reader.ops \cup {p} \in SUBSET Operation /\ reader.seq + 1 \in Nat
      BY <2>1 DEF Rebuilt
    <3>2. reader' = [reader EXCEPT !.ops = reader.ops \cup {p}, !.seq = reader.seq + 1,
                                   !.head = Append(reader.head, p)]
      BY <1>2 DEF ReaderAppend
    <3> QED
      BY <2>1, <2>2, <3>1, <3>2 DEF Rebuilt
  <2>4. DiskChain' = DiskChain /\ DiskSeq' = DiskSeq
    BY <1>2, DiskUnchanged DEF ReaderAppend
  <2>5. ChainTypeOK'
    BY <1>2, <2>3 DEF ReaderAppend, ChainTypeOK
  <2>6. HeadIsComplete' /\ AckedIsReachable' /\ NeverStale' /\ StepProgress'
    BY <1>2, <2>4 DEF ReaderAppend, HeadIsComplete, CanOpen, AckedIsReachable, NeverStale, StepProgress
  <2>7. RebuiltIsAPast'
    BY <2>3 DEF RebuiltIsAPast
  <2> QED
    BY <2>5, <2>6, <2>7
<1>3. CASE Put
  <2>1. /\ step \in AppendStep /\ step.id \in ChainId /\ up /\ step.id = Append(head, step.payload)
    BY <1>3, UnderWay DEF Put
  <2>2. /\ step' \in AppendStep /\ step'.id = step.id /\ step'.payload = step.payload /\ step'.at = "pin"
    BY <1>3, <2>1 DEF Put, AppendStep
  <2>3. DiskChain' = DiskChain /\ DiskSeq' = DiskSeq
    BY <1>3, DiskUnchanged DEF Put
  <2>4. ChainTypeOK'
    BY <1>3, <2>1, <2>2 DEF Put, ChainTypeOK
  <2>5. HeadIsComplete' /\ AckedIsReachable' /\ NeverStale' /\ RebuiltIsAPast'
    BY <1>3, <2>3 DEF Put, HeadIsComplete, CanOpen, AckedIsReachable, NeverStale, RebuiltIsAPast
  <2>6. StepProgress'
    BY <1>3, <2>1, <2>2, <2>3 DEF Put, StepProgress
  <2> QED
    BY <2>4, <2>5, <2>6
<1>4. CASE Pin
  <2>1. /\ step \in AppendStep /\ step.id \in ChainId /\ up /\ step.id = Append(head, step.payload)
    BY <1>4, UnderWay DEF Pin
  <2>2. /\ step' \in AppendStep /\ step'.id = step.id /\ step'.payload = step.payload
        /\ step'.at \in {"provide", "publish"}
    BY <1>4, <2>1 DEF Pin, AppendStep
  <2>3. DiskChain' = DiskChain /\ DiskSeq' = DiskSeq
    BY <1>4, DiskUnchanged DEF Pin
  <2>4. ChainTypeOK'
    BY <1>4, <2>1, <2>2 DEF Pin, ChainTypeOK
  <2>5. HeadIsComplete' /\ AckedIsReachable' /\ NeverStale' /\ RebuiltIsAPast'
    BY <1>4, <2>3 DEF Pin, HeadIsComplete, CanOpen, AckedIsReachable, NeverStale, RebuiltIsAPast
  <2>6. StepProgress'
    <3>1. step.id \in blocks /\ step.id \in pins'
      BY <1>4 DEF Pin, StepProgress
    <3>2. up' /\ step'.id = Append(head', step'.payload) /\ step'.id \in blocks' /\ step'.id \in pins'
      <4>1. head' = head /\ up' = up /\ blocks' = blocks
        BY <1>4 DEF Pin
      <4>2. step'.id = Append(head', step'.payload)
        BY <2>1, <2>2, <4>1, Zenon
      <4> QED
        BY <2>1, <2>2, <3>1, <4>1, <4>2, Zenon
    <3> QED
      BY <2>2, <3>2 DEF StepProgress
  <2> QED
    BY <2>4, <2>5, <2>6
<1>5. CASE Provide
  <2>1. /\ step \in AppendStep /\ step.id \in ChainId /\ up /\ step.id = Append(head, step.payload)
    BY <1>5, UnderWay DEF Provide
  <2>2. /\ step' \in AppendStep /\ step'.id = step.id /\ step'.payload = step.payload /\ step'.at = "publish"
    BY <1>5, <2>1 DEF Provide, AppendStep
  <2>3. DiskChain' = DiskChain /\ DiskSeq' = DiskSeq
    BY <1>5, DiskUnchanged DEF Provide
  <2>4. ChainTypeOK'
    BY <1>5, <2>1, <2>2 DEF Provide, ChainTypeOK
  <2>5. HeadIsComplete' /\ AckedIsReachable' /\ NeverStale' /\ RebuiltIsAPast'
    BY <1>5, <2>3 DEF Provide, HeadIsComplete, CanOpen, AckedIsReachable, NeverStale, RebuiltIsAPast
  <2>6. StepProgress'
    <3>1. step.id \in blocks /\ step.id \in pins'
      BY <1>5 DEF Provide, StepProgress
    <3>2. up' /\ step'.id = Append(head', step'.payload) /\ step'.id \in blocks' /\ step'.id \in pins'
      <4>1. head' = head /\ up' = up /\ blocks' = blocks
        BY <1>5 DEF Provide
      <4>2. step'.id = Append(head', step'.payload)
        BY <2>1, <2>2, <4>1, Zenon
      <4> QED
        BY <2>1, <2>2, <3>1, <4>1, <4>2, Zenon
    <3> QED
      BY <2>2, <3>2 DEF StepProgress
  <2> QED
    BY <2>4, <2>5, <2>6
<1>6. CASE PublishHead
  BY <1>6, PublishKeepsChain
<1>7. CASE RecordOp
  <2>1. /\ step \in AppendStep /\ step.id \in ChainId /\ step.payload \in Operation /\ up
        /\ step.id = Append(head, step.payload) /\ head \in Seq(Operation)
    BY <1>7, UnderWay DEF RecordOp
  <2>2. Range(step.id) = Range(head) \cup {step.payload} /\ DiskChain = step.id
    BY <1>7, <2>1, ChainExtends DEF RecordOp, StepProgress
  <2>3. DiskChain' = DiskChain /\ DiskSeq' = DiskSeq
    BY <1>7, DiskUnchanged DEF RecordOp
  <2>4. step' = NoStep /\ NoStep.at = "idle"
    BY <1>7 DEF RecordOp, NoStep
  <2>5. ChainTypeOK'
    BY <1>7, <2>1, <2>4 DEF RecordOp, ChainTypeOK
  <2>6. HeadIsComplete' /\ NeverStale' /\ RebuiltIsAPast'
    BY <1>7, <2>3 DEF RecordOp, HeadIsComplete, CanOpen, NeverStale, RebuiltIsAPast
  <2>7. AckedIsReachable'
    BY <1>7, <2>1, <2>2, <2>3, <2>4 DEF RecordOp, AckedIsReachable
  <2>8. StepProgress'
    BY <2>4 DEF StepProgress
  <2> QED
    BY <2>5, <2>6, <2>7, <2>8
<1>8. NoStep.at = "idle"
  BY DEF NoStep
<1>9. CASE StoreFails
  <2>1. DiskChain' = DiskChain /\ DiskSeq' = DiskSeq
    BY <1>9, DiskUnchanged DEF StoreFails
  <2>2. ChainTypeOK'
    BY <1>9 DEF StoreFails, ChainTypeOK
  <2>3. HeadIsComplete' /\ RebuiltIsAPast'
    BY <1>9, <2>1 DEF StoreFails, HeadIsComplete, CanOpen, RebuiltIsAPast
  <2>4. NeverStale'
    <3>1. DiskSeq \in Int
      BY DEF DiskSeq, ChainTypeOK, HeadRecord
    <3> QED
      BY <1>9, <2>1, <3>1 DEF StoreFails, NeverStale, ChainTypeOK
  <2>5. step.at # "record"
    BY <1>9 DEF StoreFails
  <2>6. AckedIsReachable'
    BY <1>8, <1>9, <2>1, <2>5 DEF StoreFails, AckedIsReachable
  <2>7. StepProgress'
    BY <1>8, <1>9 DEF StoreFails, StepProgress
  <2> QED
    BY <2>2, <2>3, <2>4, <2>6, <2>7
<1>10. CASE CrashNode
  <2>1. DiskChain' = DiskChain /\ DiskSeq' = DiskSeq
    BY <1>10, DiskUnchanged DEF CrashNode
  <2>2. ChainTypeOK'
    BY <1>10 DEF CrashNode, ChainTypeOK
  <2>3. HeadIsComplete' /\ RebuiltIsAPast' /\ NeverStale' /\ AckedIsReachable'
    BY <1>10, <2>1 DEF CrashNode, HeadIsComplete, CanOpen, RebuiltIsAPast, NeverStale, AckedIsReachable
  <2>4. StepProgress'
    BY <1>8, <1>10 DEF CrashNode, StepProgress
  <2> QED
    BY <2>2, <2>3, <2>4
<1>11. CASE OpenNode
  <2>1. DiskChain' = DiskChain /\ DiskSeq' = DiskSeq
    BY <1>11, DiskUnchanged DEF OpenNode
  <2>2. DiskChain \in ChainId \cup {<< >>} /\ DiskSeq \in Nat
    BY DEF DiskChain, DiskSeq, ChainTypeOK, HeadRecord
  <2>3. Range(DiskChain) \subseteq Operation
    BY <2>2, ChainIdType DEF Range
  <2>4. ChainTypeOK'
    BY <1>11, <2>2, <2>3 DEF OpenNode, ChainTypeOK
  <2>5. HeadIsComplete' /\ RebuiltIsAPast' /\ NeverStale' /\ AckedIsReachable'
    BY <1>11, <2>1, <2>2 DEF OpenNode, HeadIsComplete, CanOpen, RebuiltIsAPast, NeverStale, AckedIsReachable
  <2>6. step = NoStep /\ step' = NoStep
    BY <1>11 DEF OpenNode, StepProgress
  <2>7. StepProgress'
    BY <1>8, <2>6 DEF StepProgress
  <2> QED
    BY <2>4, <2>5, <2>7
<1>12. CASE UnsealSigningKey
  <2>1. DiskChain' = DiskChain /\ DiskSeq' = DiskSeq
    BY <1>12, DiskUnchanged DEF UnsealSigningKey
  <2>2. reader' \in Rebuilt /\ reader'.secret
    BY <1>12 DEF UnsealSigningKey, ChainTypeOK, Rebuilt
  <2>3. ChainTypeOK'
    BY <1>12, <2>2 DEF UnsealSigningKey, ChainTypeOK
  <2>4. HeadIsComplete' /\ AckedIsReachable' /\ NeverStale' /\ StepProgress'
    BY <1>12, <2>1 DEF UnsealSigningKey, HeadIsComplete, CanOpen, AckedIsReachable, NeverStale, StepProgress
  <2>5. RebuiltIsAPast'
    BY <2>2 DEF RebuiltIsAPast
  <2> QED
    BY <2>3, <2>4, <2>5
<1>13. ASSUME NEW record \in heads, Rehydrate(record)
      PROVE  ChainInv'
  <2>1. DiskChain' = DiskChain /\ DiskSeq' = DiskSeq
    BY <1>13, DiskUnchanged DEF Rehydrate
  <2>2. /\ record \in HeadRecord /\ record.seq \in Nat /\ record.target \in ChainId
        /\ record = [seq |-> record.seq, target |-> record.target]
    BY DEF ChainTypeOK, HeadRecord
  <2>3. reader' \in Rebuilt /\ reader'.seq = record.seq /\ reader'.head = record.target
    BY <1>13, <2>2, ChainIdType DEF Rehydrate, Rebuilt
  <2>4. ChainTypeOK'
    BY <1>13, <2>3 DEF Rehydrate, ChainTypeOK
  <2>5. HeadIsComplete' /\ AckedIsReachable' /\ NeverStale' /\ StepProgress'
    BY <1>13, <2>1 DEF Rehydrate, HeadIsComplete, CanOpen, AckedIsReachable, NeverStale, StepProgress
  <2>6. RebuiltIsAPast'
    BY <1>13, <2>2, <2>3 DEF Rehydrate, RebuiltIsAPast
  <2> QED
    BY <2>4, <2>5, <2>6
<1>14. CASE UNCHANGED chainVars
  <2>1. DiskChain' = DiskChain /\ DiskSeq' = DiskSeq
    BY <1>14, DiskUnchanged DEF chainVars
  <2>2. ChainTypeOK' /\ HeadIsComplete' /\ AckedIsReachable'
    BY <1>14, <2>1 DEF chainVars, ChainTypeOK, HeadIsComplete, CanOpen, AckedIsReachable
  <2>3. NeverStale' /\ RebuiltIsAPast' /\ StepProgress'
    BY <1>14, <2>1 DEF chainVars, NeverStale, RebuiltIsAPast, StepProgress
  <2> QED
    BY <2>2, <2>3
<1> QED
  BY <1>1, <1>2, <1>3, <1>4, <1>5, <1>6, <1>7, <1>9, <1>10, <1>11, <1>12, <1>13, <1>14 DEF ChainNext

\* For every set of operations, chain length and number of failures and
\* crashes: the published head's chain is stored and pinned, what an append
\* returned is reachable from it, and a rebuilt view is one that was published
\* (append(), open_with_store(), rehydrate()).
THEOREM ChainInvariant ==
    ASSUME ChainAssumption
    PROVE  ChainSpec => []ChainInv
<1>1. ChainInit => ChainInv
  BY ChainInvInit
<1>2. ChainInv /\ [ChainNext]_chainVars => ChainInv'
  BY ChainInvStep
<1> QED
  BY <1>1, <1>2, PTL DEF ChainSpec

\* The head on disk only ever moves to a chain that extends the one before it,
\* under a larger number: publish_head() follows the handle, whose chain is the
\* published one until then.
THEOREM HeadExtends ==
    ASSUME ChainAssumption
    PROVE  ChainSpec => HeadOnlyExtends
<1>1. ASSUME ChainInv, [ChainNext]_chainVars, diskHead' # diskHead, diskHead # None
      PROVE  diskHead'.seq > diskHead.seq /\ IsStrictPrefix(diskHead.target, diskHead'.target)
  <2>1. PublishHead
    BY <1>1 DEF ChainNext, StartAppend, ReaderAppend, Put, Pin, Provide, RecordOp, StoreFails,
       CrashNode, OpenNode, UnsealSigningKey, Rehydrate, chainVars
  <2>2. /\ step.payload \in Operation /\ up
        /\ step.id = Append(head, step.payload) /\ head \in Seq(Operation)
    BY <1>1, <2>1, UnderWay DEF PublishHead
  <2>3. head = diskHead.target /\ DiskSeq = diskHead.seq
    BY <1>1, <2>1, <2>2 DEF ChainInv, AckedIsReachable, DiskChain, DiskSeq, PublishHead
  <2>4. diskHead'.seq = seq + 1 /\ diskHead'.target = step.id /\ seq + 1 > DiskSeq
    BY <2>1 DEF PublishHead
  <2> QED
    BY <2>2, <2>3, <2>4, ChainExtends
<1>2. ChainInv /\ [ChainNext]_chainVars =>
        [diskHead' # diskHead =>
            diskHead = None \/ (/\ diskHead'.seq > diskHead.seq
                                /\ IsStrictPrefix(diskHead.target, diskHead'.target))]_chainVars
  BY <1>1
<1> QED
  BY <1>2, ChainInvariant, PTL DEF ChainSpec, HeadOnlyExtends

\* The two durable stores of a node keep their invariants side by side.
THEOREM DurableStores ==
    ASSUME ChainAssumption
    PROVE  PersistSpec /\ ChainSpec => []DurableInv
BY PersistInvariant, ChainInvariant, PTL DEF DurableInv

-----------------------------------------------------------------------------
(***************************************************************************)
(* KeyedStore.  The winner of the fold and the survivor of compaction are  *)
(* the greatest ops of two total orders that differ on equal stamps only.  *)
(* Existence of the two is itself inductive (each operation joins sets     *)
(* that have them), so no argument about finite sets is needed.            *)
(***************************************************************************)

\* o is preferred to p by the fold, and by compaction.
Preferred(fold, o, p) ==
    K!HappensAfter(o, p) \/ (~K!HappensAfter(p, o) /\ IF fold THEN o.kind < p.kind ELSE o.kind > p.kind)

\* The op preferred to all others of its field, and that every field has one.
Top(fold, o, S) == o \in S /\ \A p \in S : p.field = o.field /\ p # o => Preferred(fold, o, p)
Topped(fold, S) == \A p \in S : \E o \in S : o.field = p.field /\ Top(fold, o, S)

LEMMA OpFields ==
    ASSUME K!KeyedStoreAssumption, NEW o \in K!Op
    PROVE  /\ o.clock \in Int /\ o.author \in Int /\ o.kind \in Int
           /\ o = [field |-> o.field, clock |-> o.clock, author |-> o.author, kind |-> o.kind]
  <1>1. o.clock \in 1..MaxClock /\ o.author \in Writer /\ o.kind \in Kind
    BY DEF K!Op
  <1>2. o = [field |-> o.field, clock |-> o.clock, author |-> o.author, kind |-> o.kind]
    BY DEF K!Op
  <1>3. QED
    BY <1>1, <1>2 DEF K!KeyedStoreAssumption

LEMMA OrderTotal ==
    ASSUME K!KeyedStoreAssumption, NEW o \in K!Op, NEW p \in K!Op, o.field = p.field, o # p,
           NEW fold \in BOOLEAN
    PROVE  (Preferred(fold, o, p) \/ Preferred(fold, p, o)) /\ ~(Preferred(fold, o, p) /\ Preferred(fold, p, o))
  <1>1. ~(o.clock = p.clock /\ o.author = p.author /\ o.kind = p.kind)
    BY OpFields
  <1>2. /\ o.clock \in Int /\ o.author \in Int /\ o.kind \in Int
        /\ p.clock \in Int /\ p.author \in Int /\ p.kind \in Int
    BY OpFields
  <1>3. QED
    BY <1>1, <1>2 DEF Preferred, K!HappensAfter

LEMMA OrderTransitive ==
    ASSUME K!KeyedStoreAssumption, NEW o \in K!Op, NEW p \in K!Op, NEW q \in K!Op, NEW fold \in BOOLEAN
    PROVE  /\ Preferred(fold, o, p) /\ Preferred(fold, p, q) => Preferred(fold, o, q)
           /\ K!HappensAfter(o, p) /\ K!HappensAfter(p, q) => K!HappensAfter(o, q)
  <1>1. /\ o.clock \in Int /\ o.author \in Int /\ o.kind \in Int
        /\ p.clock \in Int /\ p.author \in Int /\ p.kind \in Int
        /\ q.clock \in Int /\ q.author \in Int /\ q.kind \in Int
    BY OpFields
  <1>2. QED
    BY <1>1 DEF Preferred, K!HappensAfter

\* What is not preferred by its stamp alone has the stamp of the other.
LEMMA PreferredBy ==
    ASSUME K!KeyedStoreAssumption, NEW o \in K!Op, NEW p \in K!Op, NEW fold \in BOOLEAN,
           Preferred(fold, o, p)
    PROVE  /\ K!HappensAfter(o, p) \/ (o.clock = p.clock /\ o.author = p.author)
           /\ ~K!HappensAfter(p, o)
  <1>1. /\ o.clock \in Int /\ o.author \in Int /\ o.kind \in Int
        /\ p.clock \in Int /\ p.author \in Int /\ p.kind \in Int
    BY OpFields
  <1>2. QED
    BY <1>1 DEF Preferred, K!HappensAfter

LEMMA TopIs ==
    ASSUME NEW o, NEW S
    PROVE  (K!Wins(o, S) <=> Top(TRUE, o, S)) /\ (K!Survives(o, S) <=> Top(FALSE, o, S))
  <1>1. \A p : p \in K!OpsFor(S, o.field) \ {o} <=> p \in S /\ p.field = o.field /\ p # o
    BY DEF K!OpsFor
  <1>2. K!Wins(o, S) <=> o \in S /\ \A p \in K!OpsFor(S, o.field) \ {o} : Preferred(TRUE, o, p)
    BY DEF K!Wins, Preferred
  <1>3. K!Survives(o, S) <=> o \in S /\ \A p \in K!OpsFor(S, o.field) \ {o} : Preferred(FALSE, o, p)
    BY DEF K!Survives, Preferred
  <1>4. QED
    BY <1>1, <1>2, <1>3 DEF Top

\* The better one of two tops is the top of the union.
LEMMA JoinTop ==
    ASSUME K!KeyedStoreAssumption, NEW fold \in BOOLEAN, NEW S \in SUBSET K!Op, NEW R \in SUBSET K!Op,
           NEW x \in S, NEW y \in R, x.field = y.field, Top(fold, x, S), Top(fold, y, R),
           x = y \/ Preferred(fold, x, y)
    PROVE  Top(fold, x, S \cup R)
  <1> SUFFICES ASSUME NEW q \in R, q.field = x.field, q # x PROVE Preferred(fold, x, q)
    BY DEF Top
  <1>1. q = y \/ Preferred(fold, y, q)
    BY DEF Top
  <1>2. x \in K!Op /\ y \in K!Op /\ q \in K!Op
    OBVIOUS
  <1>3. QED
    BY <1>1, <1>2, OrderTransitive

LEMMA JoinTopped ==
    ASSUME K!KeyedStoreAssumption, NEW fold \in BOOLEAN, NEW S \in SUBSET K!Op, NEW R \in SUBSET K!Op,
           Topped(fold, S), Topped(fold, R)
    PROVE  Topped(fold, S \cup R)
  <1>1. ASSUME NEW X \in SUBSET K!Op, NEW Y \in SUBSET K!Op, Topped(fold, X), Topped(fold, Y), NEW p \in X
        PROVE  \E o \in X \cup Y : o.field = p.field /\ Top(fold, o, X \cup Y)
    <2>1. PICK w \in X : w.field = p.field /\ Top(fold, w, X)
      BY <1>1 DEF Topped
    <2>2. CASE \A q \in Y : q.field # p.field
      <3>1. Top(fold, w, X \cup Y)
        BY <2>1, <2>2 DEF Top
      <3>2. QED
        BY <2>1, <3>1
    <2>3. CASE \E q \in Y : q.field = p.field
      <3>1. PICK v \in Y : v.field = p.field /\ Top(fold, v, Y)
        BY <1>1, <2>3 DEF Topped
      <3>2. w \in K!Op /\ v \in K!Op
        BY <1>1
      <3>3. CASE w = v \/ Preferred(fold, w, v)
        <4>1. Top(fold, w, X \cup Y)
          BY <1>1, <2>1, <3>1, <3>3, JoinTop
        <4>2. QED
          BY <2>1, <4>1
      <3>4. CASE w # v /\ Preferred(fold, v, w)
        <4>1. Top(fold, v, Y \cup X)
          BY <1>1, <2>1, <3>1, <3>4, JoinTop
        <4>2. Y \cup X = X \cup Y
          OBVIOUS
        <4>3. Top(fold, v, X \cup Y)
          BY <4>1, <4>2, Zenon
        <4>4. QED
          BY <3>1, <4>3
      <3>5. w = v \/ Preferred(fold, w, v) \/ Preferred(fold, v, w)
        BY <2>1, <3>1, <3>2, OrderTotal
      <3>6. QED
        BY <3>3, <3>4, <3>5
    <2>4. QED
      BY <2>2, <2>3
  <1>2. R \cup S = S \cup R
    OBVIOUS
  <1>3. \A p \in S : \E o \in S \cup R : o.field = p.field /\ Top(fold, o, S \cup R)
    BY <1>1
  <1>4. \A p \in R : \E o \in R \cup S : o.field = p.field /\ Top(fold, o, R \cup S)
    BY <1>1
  <1>5. \A p \in R : \E o \in S \cup R : o.field = p.field /\ Top(fold, o, S \cup R)
    BY <1>2, <1>4, Zenon
  <1>6. QED
    BY <1>3, <1>5 DEF Topped

\* What compaction leaves: one op per field, and no field is lost.
Survivors(S) == {o \in S : K!Survives(o, S)}

LEMMA CompactedTopped ==
    ASSUME K!KeyedStoreAssumption, NEW S \in SUBSET K!Op, Topped(FALSE, S)
    PROVE  /\ \A fold \in BOOLEAN : Topped(fold, Survivors(S))
           /\ \A p \in S : \E o \in Survivors(S) : o.field = p.field /\ (o = p \/ Preferred(FALSE, o, p))
  <1>1. \A o : o \in Survivors(S) <=> Top(FALSE, o, S)
    BY TopIs DEF Survivors, Top
  <1>2. ASSUME NEW o \in Survivors(S), NEW p \in Survivors(S), o.field = p.field, o # p
        PROVE  FALSE
    <2>1. o \in K!Op /\ p \in K!Op /\ Preferred(FALSE, o, p) /\ Preferred(FALSE, p, o)
      BY <1>1, <1>2 DEF Top
    <2>2. QED
      BY <1>2, <2>1, OrderTotal
  <1>3. \A fold \in BOOLEAN, o \in Survivors(S) : Top(fold, o, Survivors(S))
    BY <1>2 DEF Top
  <1>4. \A p \in S : \E o \in Survivors(S) : o.field = p.field /\ (o = p \/ Preferred(FALSE, o, p))
    BY <1>1 DEF Topped, Top
  <1>5. QED
    BY <1>3, <1>4 DEF Topped

\* Every op of S is an op of C, or one of C has a later stamp.
Covers(C, S) == \A p \in S : \E o \in C : o.field = p.field /\ (o = p \/ K!HappensAfter(o, p))

\* No two ops of a field in S and R share their stamp.
Apart(S, R) ==
    \A o \in S, p \in R : o.field = p.field /\ o.clock = p.clock /\ o.author = p.author => o = p

LEMMA ReadsAgree ==
    ASSUME K!KeyedStoreAssumption, NEW S \in SUBSET K!Op, NEW C \in SUBSET S, Covers(C, S), Apart(S, S),
           NEW o
    PROVE  K!Wins(o, C) <=> K!Wins(o, S)
  <1>1. ASSUME Top(TRUE, o, S) PROVE Top(TRUE, o, C)
    <2>1. PICK c \in C : c.field = o.field /\ (c = o \/ K!HappensAfter(c, o))
      BY <1>1 DEF Covers, Top
    <2>2. o \in K!Op /\ c \in K!Op /\ c \in S
      BY <1>1 DEF Top
    <2>3. ~K!HappensAfter(c, o) \/ c = o
      BY <1>1, <2>1, <2>2, PreferredBy DEF Top
    <2>4. QED
      BY <1>1, <2>1, <2>3 DEF Top
  <1>2. ASSUME Top(TRUE, o, C) PROVE Top(TRUE, o, S)
    <2> SUFFICES ASSUME NEW p \in S, p.field = o.field, p # o PROVE Preferred(TRUE, o, p)
      BY <1>2 DEF Top
    <2>1. PICK c \in C : c.field = p.field /\ (c = p \/ K!HappensAfter(c, p))
      BY DEF Covers
    <2>2. o \in K!Op /\ c \in K!Op /\ p \in K!Op /\ o \in S /\ c \in S
      BY <1>2 DEF Top
    <2>3. c = o \/ K!HappensAfter(o, c)
      <3>1. c = o \/ Preferred(TRUE, o, c)
        BY <1>2, <2>1 DEF Top
      <3>2. Preferred(TRUE, o, c) => K!HappensAfter(o, c) \/ (o.clock = c.clock /\ o.author = c.author)
        BY <2>2, PreferredBy
      <3>3. QED
        BY <2>1, <2>2, <3>1, <3>2 DEF Apart
    <2>4. K!HappensAfter(o, p)
      BY <2>1, <2>2, <2>3, OrderTransitive
    <2>5. QED
      BY <2>4 DEF Preferred
  <1>3. QED
    BY <1>1, <1>2, TopIs

\* The inductive invariant of the keyed store.
Folded(S, F) ==
    /\ S \subseteq F /\ \A fold \in BOOLEAN : Topped(fold, S)
    /\ \A p \in F : \E o \in S : o.field = p.field

StoreFolds ==
    /\ K!TypeOK
    /\ \A r \in Store : Folded(fields[r], full[r])
    /\ K!StampsDiffer => \A r \in Store : Covers(fields[r], full[r])

LEMMA StampsAre == K!StampsDiffer <=> \A r, s \in Store : Apart(full[r], full[s])
  BY DEF K!StampsDiffer, Apart

LEMMA StoreFoldsGives ==
    ASSUME K!KeyedStoreAssumption, StoreFolds
    PROVE  K!StoreInv
  <1>1. ASSUME NEW r \in Store
        PROVE  fields[r] \in SUBSET K!Op /\ full[r] \in SUBSET K!Op /\ Folded(fields[r], full[r])
    BY DEF StoreFolds, K!TypeOK
  <1>2. K!EveryFieldDecided
    <2> SUFFICES ASSUME NEW r \in Store, NEW p \in full[r]
                 PROVE  \E o \in fields[r] : o.field = p.field /\ K!Wins(o, fields[r])
      BY DEF K!EveryFieldDecided
    <2>1. PICK q \in fields[r] : q.field = p.field
      BY <1>1 DEF Folded
    <2>2. PICK o \in fields[r] : o.field = q.field /\ Top(TRUE, o, fields[r])
      BY <1>1 DEF Folded, Topped
    <2>3. QED
      BY <2>1, <2>2, TopIs
  <1>3. K!CompactionKeepsReads
    <2> SUFFICES ASSUME K!StampsDiffer, NEW r \in Store, NEW o \in K!Op
                 PROVE  K!Wins(o, fields[r]) <=> K!Wins(o, full[r])
      BY DEF K!CompactionKeepsReads, K!ReadsLikeFullHistory
    <2>1. Covers(fields[r], full[r]) /\ Apart(full[r], full[r])
      BY StampsAre DEF StoreFolds
    <2>2. fields[r] \in SUBSET full[r]
      BY <1>1 DEF Folded
    <2>3. QED
      BY <1>1, <2>1, <2>2, ReadsAgree
  <1>4. QED
    BY <1>2, <1>3 DEF StoreFolds, K!StoreInv

LEMMA FoldedJoin ==
    ASSUME K!KeyedStoreAssumption, NEW S \in SUBSET K!Op, NEW F \in SUBSET K!Op,
           NEW R \in SUBSET K!Op, NEW G \in SUBSET K!Op, Folded(S, F), Folded(R, G)
    PROVE  /\ Folded(S \cup R, F \cup G)
           /\ Covers(S, F) /\ Covers(R, G) => Covers(S \cup R, F \cup G)
  <1>1. \A fold \in BOOLEAN : Topped(fold, S \cup R)
    BY JoinTopped DEF Folded
  <1>2. Covers(S, F) /\ Covers(R, G) => Covers(S \cup R, F \cup G)
    BY DEF Covers
  <1>3. QED
    BY <1>1, <1>2 DEF Folded

LEMMA FoldedOne ==
    ASSUME NEW o
    PROVE  Folded({o}, {o}) /\ Covers({o}, {o})
  BY DEF Folded, Topped, Top, Covers

LEMMA FoldedCompact ==
    ASSUME K!KeyedStoreAssumption, NEW S \in SUBSET K!Op, NEW F \in SUBSET K!Op, Folded(S, F)
    PROVE  /\ Folded(Survivors(S), F)
           /\ Covers(S, F) /\ Apart(F, F) => Covers(Survivors(S), F)
  <1>1. /\ \A fold \in BOOLEAN : Topped(fold, Survivors(S))
        /\ \A p \in S : \E o \in Survivors(S) : o.field = p.field /\ (o = p \/ Preferred(FALSE, o, p))
    BY CompactedTopped DEF Folded
  <1>2. Survivors(S) \subseteq S /\ S \subseteq F
    BY DEF Survivors, Folded
  <1>3. Folded(Survivors(S), F)
    <2>1. \A p \in F : \E o \in Survivors(S) : o.field = p.field
      BY <1>1 DEF Folded
    <2>2. QED
      BY <1>1, <1>2, <2>1 DEF Folded
  <1>4. ASSUME Covers(S, F), Apart(F, F) PROVE Covers(Survivors(S), F)
    <2> SUFFICES ASSUME NEW p \in F
                 PROVE  \E o \in Survivors(S) : o.field = p.field /\ (o = p \/ K!HappensAfter(o, p))
      BY DEF Covers
    <2>1. PICK c \in S : c.field = p.field /\ (c = p \/ K!HappensAfter(c, p))
      BY <1>4 DEF Covers
    <2>2. PICK o \in Survivors(S) : o.field = c.field /\ (o = c \/ Preferred(FALSE, o, c))
      BY <1>1
    <2>3. o \in K!Op /\ c \in K!Op /\ p \in K!Op /\ o \in F /\ c \in F
      BY <1>2
    <2>4. o = c \/ K!HappensAfter(o, c)
      <3>1. Preferred(FALSE, o, c) => K!HappensAfter(o, c) \/ (o.clock = c.clock /\ o.author = c.author)
        BY <2>3, PreferredBy
      <3>2. QED
        BY <1>4, <2>2, <2>3, <3>1 DEF Apart
    <2>5. o = p \/ K!HappensAfter(o, p)
      BY <2>1, <2>3, <2>4, OrderTransitive
    <2>6. QED
      BY <2>1, <2>2, <2>5
  <1>5. QED
    BY <1>3, <1>4

\* An operation that replaces what one replica holds by a folded set.
LEMMA StoreFoldsKept ==
    ASSUME StoreFolds, NEW r \in Store, NEW S \in SUBSET K!Op, NEW F \in SUBSET K!Op,
           fields' = [fields EXCEPT ![r] = S], full' = [full EXCEPT ![r] = F], full[r] \subseteq F,
           Folded(S, F), K!StampsDiffer /\ Apart(F, F) => Covers(S, F),
           clock' \in [Store -> 0..MaxClock]
    PROVE  StoreFolds'
  <1>1. K!TypeOK'
    BY DEF StoreFolds, K!TypeOK
  <1>2. /\ fields'[r] = S /\ full'[r] = F
        /\ \A s \in Store \ {r} : fields'[s] = fields[s] /\ full'[s] = full[s]
    BY DEF StoreFolds, K!TypeOK
  <1>3. \A s \in Store : Folded(fields'[s], full'[s])
    BY <1>2 DEF StoreFolds
  <1>4. ASSUME K!StampsDiffer' PROVE K!StampsDiffer /\ Apart(F, F)
    <2>1. \A s, t \in Store : Apart(full'[s], full'[t])
      BY <1>4 DEF K!StampsDiffer, Apart
    <2>2. Apart(F, F)
      BY <1>2, <2>1
    <2>3. \A s \in Store : full[s] \subseteq full'[s]
      BY <1>2
    <2>4. \A s, t \in Store : Apart(full[s], full[t])
      BY <2>1, <2>3 DEF Apart
    <2>5. QED
      BY <2>2, <2>4, StampsAre
  <1>5. K!StampsDiffer' => \A s \in Store : Covers(fields'[s], full'[s])
    BY <1>2, <1>4 DEF StoreFolds
  <1>6. (\A s \in Store : Folded(fields[s], full[s]))'
    BY <1>3 DEF Folded, Topped, Top, Preferred, K!HappensAfter
  <1>7. (\A s \in Store : Covers(fields[s], full[s]))' <=> \A s \in Store : Covers(fields'[s], full'[s])
    BY DEF Covers, K!HappensAfter
  <1>8. QED
    BY <1>1, <1>5, <1>6, <1>7 DEF StoreFolds

LEMMA StoreFoldsStep ==
    ASSUME K!KeyedStoreAssumption, StoreFolds, K!Next
    PROVE  StoreFolds'
  <1>1. /\ \A r \in Store : /\ fields[r] \in SUBSET K!Op /\ full[r] \in SUBSET K!Op
                             /\ Folded(fields[r], full[r])
        /\ K!StampsDiffer => \A r \in Store : Covers(fields[r], full[r])
        /\ clock \in [Store -> 0..MaxClock]
        /\ fields \in [Store -> SUBSET K!Op] /\ full \in [Store -> SUBSET K!Op]
    BY DEF StoreFolds, K!TypeOK
  <1>2. MaxClock \in Nat
    BY DEF K!KeyedStoreAssumption
  <1>3. ASSUME NEW r \in Store, NEW f \in Field, NEW a \in Writer, NEW k \in Kind, K!Write(r, f, a, k)
        PROVE  StoreFolds'
    <2> DEFINE o == [field |-> f, clock |-> clock[r] + 1, author |-> a, kind |-> k]
    <2>1. o \in K!Op
      BY <1>1, <1>2, <1>3 DEF K!Write, K!Op
    <2>2. /\ fields' = [fields EXCEPT ![r] = fields[r] \cup {o}]
          /\ full' = [full EXCEPT ![r] = full[r] \cup {o}]
          /\ clock' \in [Store -> 0..MaxClock]
      BY <1>1, <1>2, <1>3 DEF K!Write
    <2> HIDE DEF o
    <2>3. Folded({o}, {o}) /\ Covers({o}, {o}) /\ {o} \in SUBSET K!Op
      BY <2>1, FoldedOne
    <2>4. /\ Folded(fields[r] \cup {o}, full[r] \cup {o})
          /\ Covers(fields[r], full[r]) => Covers(fields[r] \cup {o}, full[r] \cup {o})
      BY <1>1, <2>3, FoldedJoin
    <2>5. /\ fields[r] \cup {o} \in SUBSET K!Op /\ full[r] \cup {o} \in SUBSET K!Op
          /\ full[r] \subseteq full[r] \cup {o}
      BY <1>1, <2>1
    <2>6. QED
      BY <1>1, <2>2, <2>4, <2>5, StoreFoldsKept
  <1>4. ASSUME NEW r \in Store, NEW s \in Store, K!Merge(r, s) PROVE StoreFolds'
    <2>1. /\ fields' = [fields EXCEPT ![r] = fields[r] \cup fields[s]]
          /\ full' = [full EXCEPT ![r] = full[r] \cup full[s]]
          /\ clock' = clock
      BY <1>1, <1>4 DEF K!Merge
    <2>2. /\ Folded(fields[r] \cup fields[s], full[r] \cup full[s])
          /\ Covers(fields[r], full[r]) /\ Covers(fields[s], full[s])
                => Covers(fields[r] \cup fields[s], full[r] \cup full[s])
      BY <1>1, FoldedJoin
    <2>3. /\ fields[r] \cup fields[s] \in SUBSET K!Op /\ full[r] \cup full[s] \in SUBSET K!Op
          /\ full[r] \subseteq full[r] \cup full[s]
      BY <1>1
    <2>4. QED
      BY <1>1, <2>1, <2>2, <2>3, StoreFoldsKept
  <1>5. ASSUME NEW r \in Store, K!Compact(r) PROVE StoreFolds'
    <2>1. /\ fields' = [fields EXCEPT ![r] = Survivors(fields[r])] /\ full' = [full EXCEPT ![r] = full[r]]
          /\ clock' = clock
      BY <1>1, <1>5 DEF K!Compact, Survivors
    <2>2. /\ Folded(Survivors(fields[r]), full[r])
          /\ Covers(fields[r], full[r]) /\ Apart(full[r], full[r]) => Covers(Survivors(fields[r]), full[r])
      BY <1>1, FoldedCompact
    <2>3. Survivors(fields[r]) \in SUBSET K!Op
      BY <1>1 DEF Survivors
    <2>4. QED
      BY <1>1, <2>1, <2>2, <2>3, StoreFoldsKept
  <1>6. QED
    BY <1>3, <1>4, <1>5 DEF K!Next

LEMMA StoreFoldsInit ==
    ASSUME K!KeyedStoreAssumption, K!Init PROVE StoreFolds
  <1>1. K!TypeOK
    BY DEF K!KeyedStoreAssumption, K!Init, K!TypeOK
  <1>2. \A r \in Store : fields[r] = {} /\ full[r] = {}
    BY DEF K!Init
  <1>3. QED
    BY <1>1, <1>2 DEF StoreFolds, Folded, Topped, Covers

LEMMA StoreFoldsUnchanged ==
    ASSUME StoreFolds, UNCHANGED K!vars PROVE StoreFolds'
  <1>1. fields' = fields /\ full' = full /\ clock' = clock
    BY DEF K!vars
  <1>2. QED
    BY <1>1 DEF StoreFolds, K!TypeOK, Folded, Topped, Top, Preferred, K!HappensAfter, Covers, K!StampsDiffer

\* The properties the run of MCStorage checks.

\* On any replicas, with any authors on any of them, each field that was
\* ever written stays decided through merges and compactions; and while stamps
\* are not repeated every field reads as if nothing had been discarded.
THEOREM StoreInvariant ==
    ASSUME K!KeyedStoreAssumption PROVE K!Spec => []StoreInv
  <1>1. StoreFolds => StoreInv
    BY StoreFoldsGives DEF StoreInv
  <1>2. QED
    BY <1>1, StoreFoldsInit, StoreFoldsStep, StoreFoldsUnchanged, PTL DEF K!Spec

\* The winner of what a replica holds next never has an older stamp than the
\* winner of what it holds now, if every op held next is held now or new.
LEMMA WinnersMoveForward ==
    ASSUME K!KeyedStoreAssumption, NEW S \in SUBSET K!Op, NEW R \in SUBSET K!Op,
           S \subseteq R \/ R = Survivors(S),
           NEW o \in K!Op, NEW p \in K!Op, o.field = p.field, K!Wins(o, S), K!Wins(p, R)
    PROVE  ~K!HappensAfter(o, p)
  <1>1. o # p => Preferred(TRUE, p, o) \/ Preferred(FALSE, p, o)
    <2>1. CASE S \subseteq R
      BY <2>1, TopIs DEF Top
    <2>2. CASE R = Survivors(S)
      BY <2>2, TopIs DEF Top, Survivors
    <2>3. QED
      BY <2>1, <2>2
  <1>2. o = p => ~K!HappensAfter(o, p)
    BY OpFields DEF K!HappensAfter
  <1>3. QED
    BY <1>1, <1>2, PreferredBy

\* No write, merge or compaction makes a replica fall back to an older
\* write of a field.
THEOREM StoreMovesForward ==
    ASSUME K!KeyedStoreAssumption PROVE K!Spec => DecisionsMoveForward
  <1> DEFINE Forward == \A r \in Store, o, p \in K!Op :
               /\ o.field = p.field
               /\ K!Wins(o, fields[r])
               /\ K!Wins(p, fields'[r])
               => ~K!HappensAfter(o, p)
  <1>1. ASSUME StoreFolds, StoreFolds', [K!Next]_(K!vars) PROVE Forward
    <2> SUFFICES ASSUME NEW r \in Store, NEW o \in K!Op, NEW p \in K!Op, o.field = p.field,
                        K!Wins(o, fields[r]), K!Wins(p, fields'[r])
                 PROVE  ~K!HappensAfter(o, p)
      OBVIOUS
    <2>1. fields \in [Store -> SUBSET K!Op] /\ fields' \in [Store -> SUBSET K!Op]
      BY <1>1 DEF StoreFolds, K!TypeOK
    <2>2. fields[r] \subseteq fields'[r] \/ fields'[r] = Survivors(fields[r])
      <3>1. ASSUME NEW q \in Store, NEW f \in Field, NEW a \in Writer, NEW k \in Kind, K!Write(q, f, a, k)
            PROVE  fields[r] \subseteq fields'[r]
        BY <2>1, <3>1 DEF K!Write
      <3>2. ASSUME NEW q \in Store, NEW s \in Store, K!Merge(q, s) PROVE fields[r] \subseteq fields'[r]
        BY <2>1, <3>2 DEF K!Merge
      <3>3. ASSUME NEW q \in Store, K!Compact(q)
            PROVE  fields'[r] = fields[r] \/ fields'[r] = Survivors(fields[r])
        BY <2>1, <3>3 DEF K!Compact, Survivors
      <3>4. CASE UNCHANGED K!vars
        BY <3>4 DEF K!vars
      <3>5. QED
        BY <1>1, <3>1, <3>2, <3>3, <3>4 DEF K!Next
    <2>3. fields[r] \in SUBSET K!Op /\ fields'[r] \in SUBSET K!Op
      BY <2>1
    <2>4. QED
      BY <2>2, <2>3, WinnersMoveForward
  <1>2. StoreFolds /\ StoreFolds' /\ [K!Next]_(K!vars) => [Forward]_(K!vars)
    BY <1>1
  <1>3. K!Spec => []StoreFolds
    BY StoreFoldsInit, StoreFoldsStep, StoreFoldsUnchanged, PTL DEF K!Spec
  <1>4. DecisionsMoveForward <=> [][Forward]_(K!vars)
    BY DEF DecisionsMoveForward, K!DecisionsMoveForward
  <1> HIDE DEF Forward
  <1>5. QED
    BY <1>2, <1>3, <1>4, PTL DEF K!Spec
=============================================================================
