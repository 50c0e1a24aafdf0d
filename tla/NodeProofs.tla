----------------------------- MODULE NodeProofs -----------------------------
(***************************************************************************)
(* Proofs about what a node runs and shares: the cell it is a member of,   *)
(* the migration of its views, the quota and the addresses it hands out,   *)
(* the jobs it schedules, the workloads it is told to run and the signals  *)
(* it records.                                                             *)
(***************************************************************************)
EXTENDS MCNodeRuntime, InductionLemmas

(***************************************************************************)
(* The cell.                                                               *)
(***************************************************************************)

\* Where a node may read an object sealed to the cell, its epoch names the node.
LEMMA CellObject ==
    ASSUME NEW n, NEW o, placed[o] # Nothing, placed[o].class.kind = "cell"
    PROVE  NodeCanDecrypt(n, o) <=> n \in epochMembers[placed[o].epoch]
  BY DEF NodeCanDecrypt

\* A placed object has an epoch of the key.
LEMMA PlacedEpoch ==
    ASSUME CellAssumption, CellTypeOK, NEW o \in Objects
    PROVE  o \in Object /\ placed[o] \in Placement /\ placed[o].epoch \in 0..MaxEpoch
  BY DEF CellTypeOK, Objects, Placement

\* Whoever writes may read: the grant that lets a user write covers reading.
LEMMA WritersAlwaysRead == WritersRead
  BY DEF WritersRead, UserCanWrite, UserCanRead

LEMMA CellInvInit ==
    ASSUME CellAssumption, CellInit
    PROVE  CellInv
  <1>1. Objects = {}
    BY DEF CellInit, Objects
  <1>2. CellTypeOK
    <2>1. keyEpoch \in 0..MaxEpoch /\ members \subseteq Node
      BY DEF CellAssumption, CellInit
    <2>2. epochMembers \in [0..MaxEpoch -> SUBSET Node] /\ known \in [Node -> SUBSET Object]
      BY DEF CellInit
    <2>3. placed \in [Object -> Placement \cup {Nothing}]
      BY DEF CellInit
    <2>4. rotating = FALSE
      BY DEF CellInit
    <2>5. QED
      BY <2>1, <2>2, <2>3, <2>4 DEF CellTypeOK
  <1>3. KeyFollowsMembers
    BY <1>1 DEF CellAssumption, CellInit, KeyFollowsMembers
  <1>4. QED
    BY <1>1, <1>2, <1>3, WritersAlwaysRead DEF CellInv, LeaversFallBehind, MembersReadCurrent

\* Forward secrecy in terms of the epochs of the key.
SealedEpochsWereKnown ==
    \A n \in Node \ members : \A o \in Objects :
        placed[o].class.kind = "cell" /\ n \in epochMembers[placed[o].epoch] => o \in known[n]

\* The form the steps are proved in; what members read follows from the key.
LEMMA ReadingByEpochs ==
    /\ LeaversFallBehind <=> SealedEpochsWereKnown
    /\ KeyFollowsMembers => MembersReadCurrent
  <1>1. \A n, o : o \in Objects /\ placed[o].class.kind = "cell"
                    => (NodeCanDecrypt(n, o) <=> n \in epochMembers[placed[o].epoch])
    BY CellObject DEF Objects
  <1>2. QED
    BY <1>1 DEF LeaversFallBehind, SealedEpochsWereKnown, KeyFollowsMembers, MembersReadCurrent

\* What an action has to establish of the next state.
CellCore == CellTypeOK /\ KeyFollowsMembers /\ SealedEpochsWereKnown

LEMMA CellCoreSuffices == CellCore <=> CellInv
  BY ReadingByEpochs, WritersAlwaysRead DEF CellCore, CellInv

LEMMA EpochsOfObjects ==
    ASSUME CellAssumption, CellCore
    PROVE  /\ keyEpoch \in Nat
           /\ Objects \subseteq Object
           /\ \A o \in Objects : /\ placed[o].epoch \in Nat /\ placed[o].epoch \in 0..MaxEpoch
                                 /\ placed[o].epoch <= keyEpoch
  BY PlacedEpoch DEF CellAssumption, CellCore, CellTypeOK, KeyFollowsMembers, Objects

\* A member leaves and the key moves to an epoch of those who stay: the objects
\* there were are those it knew.
LEMMA LeaveKeepsCell ==
    ASSUME CellAssumption, CellCore, NEW n \in Node, Leave(n)
    PROVE  CellCore'
  <1> USE DEF CellCore
  <1>1. keyEpoch \in Nat /\ keyEpoch + 1 \in 0..MaxEpoch /\ keyEpoch' = keyEpoch + 1
    BY DEF CellAssumption, CellTypeOK, Leave
  <1>2. Objects' = Objects /\ placed' = placed
    BY DEF Leave, Objects, sharingVars
  <1>3. CellTypeOK'
    BY <1>1, <1>2, EpochsOfObjects DEF CellTypeOK, Leave, sharingVars
  <1>4. KeyFollowsMembers'
    BY <1>1, <1>2, EpochsOfObjects DEF KeyFollowsMembers, CellTypeOK, Leave
  <1>5. \A o \in Objects : epochMembers'[placed[o].epoch] = epochMembers[placed[o].epoch]
    BY <1>1, EpochsOfObjects DEF CellTypeOK, Leave
  <1>6. known' = [known EXCEPT ![n] = Objects] /\ members' = members \ {n}
    BY DEF Leave
  <1>7. known \in [Node -> SUBSET Object]
    BY DEF CellTypeOK
  <1>8. ASSUME NEW m \in Node \ members', NEW o \in Objects, placed[o].class.kind = "cell",
               m \in epochMembers'[placed[o].epoch]
        PROVE  o \in known'[m]
    <2>1. CASE m = n
      BY <2>1, <1>6, <1>7
    <2>2. CASE m # n
      BY <2>2, <1>5, <1>6, <1>7, <1>8 DEF SealedEpochsWereKnown
    <2>3. QED
      BY <2>1, <2>2
  <1>9. SealedEpochsWereKnown'
    BY <1>2, <1>8 DEF SealedEpochsWereKnown
  <1>10. QED
    BY <1>3, <1>4, <1>9

\* A rotation ends in an epoch nothing is placed under yet.
LEMMA EndRotateKeepsCell ==
    ASSUME CellAssumption, CellCore, EndRotate
    PROVE  CellCore'
  <1> USE DEF CellCore
  <1>1. keyEpoch \in Nat /\ keyEpoch + 1 \in 0..MaxEpoch /\ keyEpoch' = keyEpoch + 1
    BY DEF CellAssumption, CellTypeOK, EndRotate
  <1>2. Objects' = Objects /\ placed' = placed /\ known' = known /\ members' = members
    BY DEF EndRotate, Objects
  <1>3. CellTypeOK'
    BY <1>1, <1>2 DEF CellTypeOK, EndRotate
  <1>4. KeyFollowsMembers'
    BY <1>1, <1>2, EpochsOfObjects DEF KeyFollowsMembers, CellTypeOK, EndRotate
  <1>5. \A o \in Objects : epochMembers'[placed[o].epoch] = epochMembers[placed[o].epoch]
    BY <1>1, EpochsOfObjects DEF CellTypeOK, EndRotate
  <1>6. QED
    BY <1>2, <1>3, <1>4, <1>5 DEF SealedEpochsWereKnown

\* A newcomer is sealed into the epoch in force, and nobody else is.
LEMMA AdmitKeepsCell ==
    ASSUME CellAssumption, CellCore, NEW n \in Node, Admit(n)
    PROVE  CellCore'
  <1> USE DEF CellCore
  <1>1. /\ Objects' = Objects /\ placed' = placed /\ known' = known /\ keyEpoch' = keyEpoch
        /\ members' = members \cup {n}
        /\ epochMembers' = [epochMembers EXCEPT ![keyEpoch] = members \cup {n}]
    BY DEF Admit, Objects
  <1>2. CellTypeOK'
    BY <1>1 DEF CellTypeOK, Admit
  <1>3. KeyFollowsMembers'
    BY <1>1 DEF KeyFollowsMembers, CellTypeOK
  <1>4. \A o \in Objects : \A m \in epochMembers'[placed[o].epoch] :
            m \in members' \/ m \in epochMembers[placed[o].epoch]
    BY <1>1, EpochsOfObjects DEF CellTypeOK
  <1>5. SealedEpochsWereKnown'
    BY <1>1, <1>4 DEF SealedEpochsWereKnown
  <1>6. QED
    BY <1>2, <1>3, <1>5

\* What is placed is sealed to the members there are.
LEMMA PlaceKeepsCell ==
    ASSUME CellAssumption, CellCore, NEW o \in Object, NEW class \in Class \cup {Public},
           NEW tags \in SUBSET Tag, PlaceObject(o, class, tags)
    PROVE  CellCore'
  <1> USE DEF CellCore
  <1> DEFINE rec == [class |-> class, epoch |-> keyEpoch, tags |-> tags]
  <1>1. rec \in Placement /\ rec.epoch = keyEpoch
    BY DEF CellTypeOK, Placement
  <1>2. placed' = [placed EXCEPT ![o] = rec] /\ placed \in [Object -> Placement \cup {Nothing}]
    BY DEF PlaceObject, CellTypeOK
  <1> HIDE DEF rec
  <1>3. /\ keyEpoch' = keyEpoch /\ members' = members /\ known' = known /\ rotating' = rotating
        /\ epochMembers' = epochMembers
    BY DEF PlaceObject, keyVars
  <1>4. \A q \in Objects' : q = o \/ (q \in Objects /\ placed'[q] = placed[q])
    BY <1>2 DEF Objects
  <1>5. placed'[o] = rec
    BY <1>2
  <1>6. CellTypeOK'
    BY <1>1, <1>2, <1>3 DEF CellTypeOK
  <1>7. KeyFollowsMembers'
    BY <1>1, <1>3, <1>4, <1>5, EpochsOfObjects DEF KeyFollowsMembers
  <1>8. SealedEpochsWereKnown'
    BY <1>1, <1>3, <1>4, <1>5 DEF SealedEpochsWereKnown, KeyFollowsMembers
  <1>9. QED
    BY <1>6, <1>7, <1>8

LEMMA CellInvStep ==
    ASSUME CellAssumption, CellInv, [Membership \/ Sharing]_cellVars
    PROVE  CellInv'
  <1>1. CellCore
    BY CellCoreSuffices
  <1>2. ASSUME UNCHANGED <<members, keyEpoch, epochMembers, placed, known>>,
               (rotating => keyEpoch < MaxEpoch)', rotating' \in BOOLEAN
        PROVE  CellCore'
    BY <1>1, <1>2 DEF CellCore, CellTypeOK, KeyFollowsMembers, SealedEpochsWereKnown, Objects
  <1>3. rotating \in BOOLEAN /\ (rotating => keyEpoch < MaxEpoch)
    BY <1>1 DEF CellCore, CellTypeOK
  <1>4. CellCore'
    <2>1. CASE \E n \in Node : Admit(n)
      BY <1>1, <2>1, AdmitKeepsCell
    <2>2. CASE \E n \in Node : Leave(n)
      BY <1>1, <2>2, LeaveKeepsCell
    <2>3. CASE BeginRotate
      BY <1>2, <2>3 DEF BeginRotate
    <2>4. CASE EndRotate
      BY <1>1, <2>4, EndRotateKeepsCell
    <2>5. CASE \E o \in Object, class \in Class \cup {Public}, tags \in SUBSET Tag :
                    PlaceObject(o, class, tags)
      BY <1>1, <2>5, PlaceKeepsCell
    <2>6. CASE \E g \in User \X Mode \X ((SUBSET Tag \ {{}}) \cup {All}) :
                    AddGrant(g) \/ RevokeGrant(g)
      BY <1>2, <1>3, <2>6 DEF AddGrant, RevokeGrant, keyVars
    <2>7. CASE \E r \in Root : PublishRoot(r) \/ SetNamePtr(r)
      BY <1>2, <1>3, <2>7 DEF PublishRoot, SetNamePtr, keyVars
    <2>8. CASE UNCHANGED cellVars
      BY <1>2, <1>3, <2>8 DEF cellVars
    <2>9. {} \in SUBSET Tag
      OBVIOUS
    <2>10. QED
      BY <2>1, <2>2, <2>3, <2>4, <2>5, <2>6, <2>7, <2>8, <2>9, Zenon DEF Membership, Sharing
  <1>5. QED
    BY <1>4, CellCoreSuffices, PTL

\* The cell: whoever left reads nothing sealed to the cell since, members read
\* what the epoch in force seals, and whoever writes reads; for any cell, any
\* objects and any order of admissions, departures and rotations.
THEOREM CellInvariant ==
    ASSUME CellAssumption
    PROVE  CellSpec => []CellInv
  BY CellInvInit, CellInvStep, PTL DEF CellSpec

(***************************************************************************)
(* The migration of a view.                                                *)
(***************************************************************************)

LEMMA ViewsStayWhole ==
    ASSUME R!MigrationAssumption, R!ViewsAreWhole, [R!MigrationNext]_(R!migrationVars)
    PROVE  R!ViewsAreWhole'
  <1> USE DEF R!ViewsAreWhole
  <1>1. CASE UNCHANGED <<oldLog, newLog, appended, cutOver>>
    BY <1>1
  <1>2. CASE R!Append
    <2>1. /\ appended' = appended + 1 /\ 1..appended' = 1..appended \cup {appended'}
          /\ appended' \in 0..MaxOps
      BY <1>2 DEF R!Append, R!MigrationAssumption
    <2>2. ~cutOver' => oldLog' = 1..appended'
      BY <1>2, <2>1 DEF R!Append
    <2>3. newLog' \in {None, 1..appended'} /\ (newLog' = None => newLog = None)
      <3>1. CASE newLog = None
        BY <1>2, <3>1 DEF R!Append
      <3>2. CASE newLog # None
        <4>1. newLog' = 1..appended'
          BY <1>2, <2>1, <3>2 DEF R!Append
        <4>2. QED
          BY <2>1, <4>1 DEF R!MigrationAssumption
      <3>3. QED
        BY <3>1, <3>2
    <2>4. QED
      BY <1>2, <2>1, <2>2, <2>3 DEF R!Append
  <1>3. CASE R!BeginBuildNewView
    BY <1>3 DEF R!BeginBuildNewView
  <1>4. CASE R!AttemptCutover
    BY <1>4 DEF R!AttemptCutover, R!ReadyForCutover
  <1>5. QED
    BY <1>1, <1>2, <1>3, <1>4 DEF R!MigrationNext, R!migrationVars, R!AddMember, R!Heartbeat, R!Die,
        R!DeclareMemberVersion, R!AdvanceTime

\* Every member reads every operation all along, from whichever view it is
\* served: for any members, versions, window and timeout.
THEOREM MigrationInvariant ==
    ASSUME R!MigrationAssumption
    PROVE  R!MigrationSpec => []R!NobodyIsLeftBehind
  <1>1. R!MigrationInit => R!ViewsAreWhole
    BY DEF R!MigrationAssumption, R!MigrationInit, R!ViewsAreWhole
  <1>2. R!ViewsAreWhole => R!NobodyIsLeftBehind
    BY DEF R!ViewsAreWhole, R!NobodyIsLeftBehind, R!ReadView
  <1>3. QED
    BY <1>1, <1>2, ViewsStayWhole, PTL DEF R!MigrationSpec

\* Both parts of a cell at once: its key follows its members, and every member
\* reads every operation through a migration.
THEOREM CellsInvariant ==
    ASSUME CellAssumption, R!MigrationAssumption
    PROVE  CellSpec /\ R!MigrationSpec => []CellsInv
  BY CellInvariant, MigrationInvariant, PTL DEF CellsInv

(***************************************************************************)
(* The quota ledger.                                                       *)
(***************************************************************************)

AmountOf == [r \in Q!Reservation |-> r.amount]

TotalMap(A, f) ==
    f = [s \in SUBSET A |-> IF s = {} THEN 0 ELSE f[s \ {Picked(s)}] + Picked(s).amount]

\* The fold a total is read from adds the amounts in the same order as a sum.
LEMMA TotalMapIsSumMap ==
    ASSUME Q!QuotaAssumption, NEW A \in SUBSET Q!Reservation, IsFiniteSet(A),
           NEW f, SumMap(AmountOf, A, f)
    PROVE  TotalMap(A, f) /\ \A g : TotalMap(A, g) => g[A] = f[A]
  <1>a. \A x \in Amount : x \in Int
    BY DEF Q!QuotaAssumption
  <1>0. \A r \in A : AmountOf[r] = r.amount /\ r.amount \in Int
    <2> TAKE r \in A
    <2>1. r \in Q!Reservation
      OBVIOUS
    <2>2. r.amount \in Amount
      BY <2>1 DEF Q!Reservation
    <2>3. AmountOf[r] = r.amount
      BY <2>1 DEF AmountOf
    <2>4. r.amount \in Int
      BY ONLY <1>a, <2>2, Zenon
    <2> QED BY <2>3, <2>4
  <1>1. \A s \in SUBSET A : f[s] \in Int
    BY <1>0, SumMapAdds
  <1>f. \A s \in SUBSET A : IsFiniteSet(s) /\ Cardinality(s) \in Nat /\ (Cardinality(s) = 0 <=> s = {})
    BY FS_Subset, FS_CardinalityType, FS_EmptySet
  <1>2. \A s \in SUBSET A : s # {} =>
            /\ Picked(s) \in A /\ s \ {Picked(s)} \in SUBSET A
            /\ Cardinality(s \ {Picked(s)}) = Cardinality(s) - 1
    BY <1>f, SmallerSet
  <1>3. \A s \in SUBSET A : s # {} =>
            AmountOf[Picked(s)] + f[s \ {Picked(s)}] = f[s \ {Picked(s)}] + Picked(s).amount
    <2> TAKE s \in SUBSET A
    <2> HAVE s # {}
    <2>1. f[s \ {Picked(s)}] \in Int
      BY <1>1, <1>2
    <2>2. AmountOf[Picked(s)] = Picked(s).amount /\ Picked(s).amount \in Int
      BY <1>0, <1>2
    <2> QED BY <2>1, <2>2
  <1>4. \A s \in SUBSET A : f[s] = IF s = {} THEN 0 ELSE f[s \ {Picked(s)}] + Picked(s).amount
    BY <1>3 DEF SumMap
  <1>5. TotalMap(A, f)
    BY <1>4 DEF SumMap, TotalMap
  <1>6. ASSUME NEW g, TotalMap(A, g)
        PROVE  g[A] = f[A]
    <2> DEFINE T == {n \in Nat : \A s \in SUBSET A : Cardinality(s) <= n => g[s] = f[s]}
    <2>g. \A s \in SUBSET A : g[s] = IF s = {} THEN 0 ELSE g[s \ {Picked(s)}] + Picked(s).amount
      BY <1>6 DEF TotalMap
    <2>1. 0 \in T
      <3>1. \A s \in SUBSET A : Cardinality(s) <= 0 => s = {}
        BY <1>f
      <3>2. g[{}] = f[{}]
        BY <1>4, <2>g
      <3> QED BY <3>1, <3>2
    <2>2. ASSUME NEW n \in Nat, n \in T
          PROVE  n + 1 \in T
      <3> SUFFICES ASSUME NEW s \in SUBSET A, Cardinality(s) <= n + 1
                   PROVE  g[s] = f[s]
        OBVIOUS
      <3>1. CASE s = {}
        BY <3>1, <1>4, <2>g
      <3>2. CASE s # {}
        <4>1. Cardinality(s \ {Picked(s)}) <= n
          BY <1>2, <1>f, <3>2
        <4>2. g[s \ {Picked(s)}] = f[s \ {Picked(s)}]
          BY <1>2, <2>2, <3>2, <4>1
        <4> QED BY <1>4, <2>g, <3>2, <4>2
      <3> QED BY <3>1, <3>2
    <2> HIDE DEF T
    <2>3. Nat \subseteq T
      BY <2>1, <2>2, InductionOnNat
    <2>4. Cardinality(A) \in T /\ Cardinality(A) \in Nat
      BY <1>f, <2>3
    <2> QED BY <2>4 DEF T
  <1> QED BY <1>5, <1>6

LEMMA TotalIsSum ==
    ASSUME Q!QuotaAssumption, NEW A \in SUBSET Q!Reservation, IsFiniteSet(A)
    PROVE  Q!TotalAmount(A) = SumOn(AmountOf, A)
  <1>1. PICK f : SumMap(AmountOf, A, f) /\ SumOn(AmountOf, A) = f[A]
    BY SumOnIsMap
  <1> DEFINE g == CHOOSE h : TotalMap(A, h)
  <1>2. TotalMap(A, g)
    BY <1>1, TotalMapIsSumMap
  <1>3. Q!TotalAmount(A) = g[A]
    BY DEF Q!TotalAmount, Q!FoldSet, Q!MapThenFoldSet, TotalMap, Picked
  <1> HIDE DEF g
  <1> QED BY <1>1, <1>2, <1>3, TotalMapIsSumMap

\* What a total does when a reservation is added or taken away.
LEMMA Totals ==
    ASSUME Q!QuotaAssumption, NEW A \in SUBSET Q!Reservation, IsFiniteSet(A)
    PROVE  /\ Q!TotalAmount(A) \in Int
           /\ \A r \in Q!Reservation \ A :
                  Q!TotalAmount(A \cup {r}) = Q!TotalAmount(A) + r.amount
           /\ \A B \in SUBSET A : Q!TotalAmount(A \ B) = Q!TotalAmount(A) - Q!TotalAmount(B)
           /\ \A r \in A : Q!TotalAmount(A \ {r}) = Q!TotalAmount(A) - r.amount
  <1>a. \A x \in Amount : x \in Int
    BY DEF Q!QuotaAssumption
  <1>0. \A r \in Q!Reservation : AmountOf[r] = r.amount /\ AmountOf[r] \in Int
    <2> TAKE r \in Q!Reservation
    <2>1. r.amount \in Amount
      BY DEF Q!Reservation
    <2>2. r.amount \in Int
      BY ONLY <1>a, <2>1, Zenon
    <2> QED BY <2>2 DEF AmountOf
  <1>1. \A C \in SUBSET Q!Reservation : IsFiniteSet(C) => Q!TotalAmount(C) = SumOn(AmountOf, C)
    BY TotalIsSum
  <1>2. \A r \in A : AmountOf[r] \in Int
    BY <1>0
  <1>3. Q!TotalAmount(A) = SumOn(AmountOf, A) /\ SumOn(AmountOf, A) \in Int
    BY <1>1, <1>2, SumOnType
  <1>4. ASSUME NEW r \in Q!Reservation \ A
        PROVE  Q!TotalAmount(A \cup {r}) = Q!TotalAmount(A) + r.amount
    <2>1. IsFiniteSet(A \cup {r}) /\ A \cup {r} \in SUBSET Q!Reservation
      BY FS_AddElement
    <2>2. SumOn(AmountOf, A \cup {r}) = SumOn(AmountOf, A) + AmountOf[r]
      BY <1>0, <1>2, SumOnAdd
    <2> QED BY <1>0, <1>1, <1>3, <2>1, <2>2
  <1>5. ASSUME NEW B \in SUBSET A
        PROVE  Q!TotalAmount(A \ B) = Q!TotalAmount(A) - Q!TotalAmount(B)
    <2>1. /\ IsFiniteSet(B) /\ B \in SUBSET Q!Reservation
          /\ IsFiniteSet(A \ B) /\ A \ B \in SUBSET Q!Reservation
      BY FS_Subset
    <2>2. SumOn(AmountOf, A \ B) = SumOn(AmountOf, A) - SumOn(AmountOf, B)
      BY <1>2, SumOnDifference
    <2> QED BY <1>1, <1>3, <2>1, <2>2
  <1>6. ASSUME NEW r \in A
        PROVE  Q!TotalAmount(A \ {r}) = Q!TotalAmount(A) - r.amount
    <2>1. Q!TotalAmount({r}) = r.amount
      <3>1. IsFiniteSet({r}) /\ {r} \in SUBSET Q!Reservation /\ {} \cup {r} = {r} /\ r \notin {}
        BY FS_Singleton
      <3>2. SumOn(AmountOf, {} \cup {r}) = SumOn(AmountOf, {}) + AmountOf[r]
        <4>1. IsFiniteSet({}) /\ (\A x \in {} : AmountOf[x] \in Int) /\ AmountOf[r] \in Int
          BY <1>0, FS_EmptySet
        <4> HIDE DEF AmountOf
        <4> QED BY ONLY <3>1, <4>1, SumOnAdd
      <3>3. SumOn(AmountOf, {r}) = r.amount
        <4>1. SumOn(AmountOf, {}) = 0
          BY SumOnEmpty
        <4>2. AmountOf[r] \in Int /\ AmountOf[r] = r.amount
          BY <1>0
        <4> QED BY <3>1, <3>2, <4>1, <4>2
      <3> QED BY <1>1, <3>1, <3>3
    <2> QED BY <1>5, <2>1
  <1> QED BY <1>3, <1>4, <1>5, <1>6

\* The reservations the op-log says were admitted, or released.
Logged(l, op) == {x.res : x \in {y \in l.log : y.op = op}}

LedgerType ==
    [register : Q!Register, nextSlot : Nat, outstanding : SUBSET Q!Reservation,
     log : SUBSET [op : {"admit", "release"}, res : Q!Reservation]]

\* What a ledger keeps: the outstanding reservations are those admitted and not
\* released, each admission has a slot of its own below the pending one, held
\* by its candidate, and the budget is kept.
LedgerCore(l) ==
    /\ l \in LedgerType
    /\ IsFiniteSet(Logged(l, "admit"))
    /\ Logged(l, "release") \subseteq Logged(l, "admit")
    /\ l.outstanding = Logged(l, "admit") \ Logged(l, "release")
    /\ \A r \in Logged(l, "admit") :
          r.slot < l.nextSlot /\ l.register.holders[r.slot] = r.candidate
    /\ \A r, t \in Logged(l, "admit") : r.slot = t.slot => r = t
    /\ Q!TotalAmount(l.outstanding) <= Budget

\* A vote changes the grants of the register only.
LEMMA VotesKeepLedger ==
    ASSUME NEW l, LedgerCore(l), NEW k \in LedgerType,
           k.register.holders = l.register.holders, k.nextSlot = l.nextSlot,
           k.outstanding = l.outstanding, k.log = l.log
    PROVE  LedgerCore(k)
  BY DEF LedgerCore, Logged

LEMMA LoggedIn ==
    ASSUME NEW l, l \in LedgerType, NEW op
    PROVE  /\ Logged(l, op) \subseteq Q!Reservation
           /\ \A r : r \in Logged(l, op) <=> \E x \in l.log : x.op = op /\ x.res = r
  BY DEF Logged, LedgerType

\* An entry more in the op-log.
LEMMA LoggedOneMore ==
    ASSUME NEW l, NEW k, NEW e, k.log = l.log \cup {e}
    PROVE  \A o, r : r \in Logged(k, o) <=> r \in Logged(l, o) \/ (e.op = o /\ e.res = r)
  <1>1. \A o, r : r \in Logged(k, o) <=> \E x \in k.log : x.op = o /\ x.res = r
    BY DEF Logged
  <1>2. \A o, r : r \in Logged(l, o) <=> \E x \in l.log : x.op = o /\ x.res = r
    BY DEF Logged
  <1>3. \A o, r : (\E x \in k.log : x.op = o /\ x.res = r)
                     <=> ((\E x \in l.log : x.op = o /\ x.res = r) \/ (e.op = o /\ e.res = r))
    OBVIOUS
  <1> QED BY <1>1, <1>2, <1>3

\* A vote for the pending slot.
LEMMA GrantKeepsLedger ==
    ASSUME NEW l, LedgerCore(l), l.nextSlot \in Slots, NEW v \in Voter, NEW c \in Requester
    PROVE  LedgerCore(Q!GrantPending(l, v, c))
  <1> DEFINE k == Q!GrantPending(l, v, c)
  <1>1. l \in LedgerType /\ l.register \in Q!Register
    BY DEF LedgerCore, LedgerType
  <1> DEFINE r == Q!Granted(l.register, v, c, l.nextSlot)
  <1>2. [epoch |-> l.nextSlot, candidate |-> c] \in Q!Grant
    BY DEF Q!Grant
  <1>3. r \in Q!Register /\ r.holders = l.register.holders
    BY <1>1, <1>2 DEF Q!Granted, Q!Register
  <1>4. k = [l EXCEPT !.register = r]
    BY DEF Q!GrantPending
  <1> HIDE DEF k, r
  <1>5. /\ k \in LedgerType /\ k.register = r /\ k.nextSlot = l.nextSlot
        /\ k.outstanding = l.outstanding /\ k.log = l.log
    BY <1>1, <1>3, <1>4 DEF LedgerType
  <1>6. LedgerCore(k)
    BY <1>3, <1>5, VotesKeepLedger
  <1> QED BY <1>6 DEF k

\* The tail of an admission that passed both gates.
LEMMA ChargeKeepsLedger ==
    ASSUME Q!QuotaAssumption, Slots \subseteq Nat, NEW l, LedgerCore(l), l.nextSlot \in Slots,
           NEW c \in Requester, NEW amount \in Amount, Q!Admits(l, c, amount)
    PROVE  LedgerCore(Q!Charged(l, c, amount))
  <1> DEFINE k == Q!Charged(l, c, amount)
             res == [slot |-> l.nextSlot, candidate |-> c, amount |-> amount]
             reg == Q!Acquired(l.register, c, l.nextSlot)
  <1>1. /\ l \in LedgerType /\ l.register \in Q!Register /\ l.nextSlot \in Nat
        /\ l.outstanding \subseteq Q!Reservation
        /\ l.log \subseteq [op : {"admit", "release"}, res : Q!Reservation]
    BY DEF LedgerCore, LedgerType
  <1>2. res \in Q!Reservation /\ res.slot = l.nextSlot /\ res.candidate = c /\ res.amount = amount
    BY DEF Q!Reservation
  <1>3. /\ reg \in Q!Register /\ reg.holders[l.nextSlot] = c
        /\ \A e \in Slots : e # l.nextSlot => reg.holders[e] = l.register.holders[e]
    BY <1>1 DEF Q!Acquired, Q!Register, Q!Admits
  <1>4. k = [l EXCEPT !.register = reg, !.nextSlot = l.nextSlot + 1,
                      !.outstanding = l.outstanding \cup {res},
                      !.log = l.log \cup {[op |-> "admit", res |-> res]}]
    BY DEF Q!Charged
  <1> HIDE DEF k, res, reg
  <1>5. /\ k.register = reg /\ k.nextSlot = l.nextSlot + 1
        /\ k.outstanding = l.outstanding \cup {res}
        /\ k.log = l.log \cup {[op |-> "admit", res |-> res]}
    BY <1>1, <1>4 DEF LedgerType
  <1>6. k \in LedgerType
    <2>1. [op |-> "admit", res |-> res] \in [op : {"admit", "release"}, res : Q!Reservation]
      BY <1>2
    <2>2. /\ l.log \cup {[op |-> "admit", res |-> res]}
                \in SUBSET [op : {"admit", "release"}, res : Q!Reservation]
          /\ l.outstanding \cup {res} \in SUBSET Q!Reservation /\ l.nextSlot + 1 \in Nat
      BY <1>1, <1>2, <2>1
    <2> QED BY <1>1, <1>3, <1>4, <2>2 DEF LedgerType
  <1>7. /\ Logged(k, "admit") = Logged(l, "admit") \cup {res}
        /\ Logged(k, "release") = Logged(l, "release")
    <2> DEFINE e == [op |-> "admit", res |-> res]
    <2>1. e.op = "admit" /\ e.res = res /\ k.log = l.log \cup {e}
      BY <1>5
    <2> HIDE DEF e
    <2>2. \A o, r : r \in Logged(k, o) <=> r \in Logged(l, o) \/ (e.op = o /\ e.res = r)
      BY ONLY <2>1, LoggedOneMore
    <2>3. \A r : r \in Logged(k, "release") <=> r \in Logged(l, "release")
      BY <2>1, <2>2
    <2>4. \A r : r \in Logged(k, "admit") <=> r \in Logged(l, "admit") \/ r = res
      BY <2>1, <2>2
    <2> QED BY <2>3, <2>4
  <1>9. \A r \in Logged(l, "admit") : /\ r \in Q!Reservation /\ r.slot \in Slots /\ r.slot \in Nat
                                      /\ r.slot < l.nextSlot /\ r.slot # l.nextSlot
                                      /\ l.register.holders[r.slot] = r.candidate
    <2> TAKE r \in Logged(l, "admit")
    <2>1. r \in Q!Reservation /\ r.slot < l.nextSlot /\ l.register.holders[r.slot] = r.candidate
      BY <1>1, LoggedIn DEF LedgerCore
    <2>2. r.slot \in Slots
      BY <2>1 DEF Q!Reservation
    <2>3. r.slot \in Nat
      BY <2>2
    <2> QED BY <1>1, <2>1, <2>2, <2>3
  <1>10. res \notin Logged(l, "admit") /\ res \notin Logged(l, "release") /\ res \notin l.outstanding
    BY <1>2, <1>9 DEF LedgerCore
  <1>11. IsFiniteSet(Logged(k, "admit"))
    BY <1>7, FS_AddElement DEF LedgerCore
  <1>12. /\ Logged(k, "release") \subseteq Logged(k, "admit")
         /\ k.outstanding = Logged(k, "admit") \ Logged(k, "release")
    BY <1>5, <1>7, <1>10 DEF LedgerCore
  <1>13. \A r \in Logged(k, "admit") : r.slot < k.nextSlot /\ k.register.holders[r.slot] = r.candidate
    <2> TAKE r \in Logged(k, "admit")
    <2>1. CASE r = res
      BY <2>1, <1>1, <1>2, <1>3, <1>5
    <2>2. CASE r \in Logged(l, "admit")
      BY <2>2, <1>1, <1>3, <1>5, <1>9
    <2> QED BY <1>7, <2>1, <2>2
  <1>14. \A r, t \in Logged(k, "admit") : r.slot = t.slot => r = t
    BY <1>2, <1>7, <1>9 DEF LedgerCore
  <1>15. Q!TotalAmount(k.outstanding) <= Budget
    <2>1. IsFiniteSet(l.outstanding)
      BY FS_Subset DEF LedgerCore
    <2>2. /\ Q!TotalAmount(l.outstanding \cup {res}) = Q!TotalAmount(l.outstanding) + amount
          /\ Q!TotalAmount(l.outstanding) \in Int
      BY <1>1, <1>2, <1>10, <2>1, Totals
    <2>3. amount <= Budget - Q!TotalAmount(l.outstanding)
      BY DEF Q!Admits, Q!Fits, Q!Available, Q!Reserved
    <2>4. amount \in Int /\ Budget \in Int
      BY DEF Q!QuotaAssumption
    <2> QED BY <1>5, <2>2, <2>3, <2>4
  <1>16. LedgerCore(k)
    BY <1>6, <1>11, <1>12, <1>13, <1>14, <1>15 DEF LedgerCore
  <1> QED BY <1>16 DEF k

\* A refused admission.
LEMMA SpoilKeepsLedger ==
    ASSUME Slots \subseteq Nat, NEW l, LedgerCore(l)
    PROVE  LedgerCore(Q!SpoilSlot(l))
  <1> DEFINE k == Q!SpoilSlot(l)
  <1>1. k = [l EXCEPT !.nextSlot = l.nextSlot + 1]
    BY DEF Q!SpoilSlot
  <1>2. l \in LedgerType /\ l.nextSlot \in Nat
    BY DEF LedgerCore, LedgerType
  <1> HIDE DEF k
  <1>3. /\ k \in LedgerType /\ k.nextSlot = l.nextSlot + 1
        /\ k.register = l.register /\ k.outstanding = l.outstanding /\ k.log = l.log
    BY <1>1, <1>2 DEF LedgerType
  <1>4. Logged(k, "admit") = Logged(l, "admit") /\ Logged(k, "release") = Logged(l, "release")
    BY <1>3 DEF Logged
  <1>5. \A r \in Logged(l, "admit") : r.slot \in Nat /\ r.slot < l.nextSlot
    <2> TAKE r \in Logged(l, "admit")
    <2>1. r \in Q!Reservation /\ r.slot < l.nextSlot
      BY <1>2, LoggedIn DEF LedgerCore
    <2>2. r.slot \in Slots
      BY <2>1 DEF Q!Reservation
    <2> QED BY <2>1, <2>2
  <1>6. \A r \in Logged(l, "admit") : r.slot < k.nextSlot
    BY <1>2, <1>3, <1>5
  <1>7. LedgerCore(k)
    BY <1>3, <1>4, <1>6 DEF LedgerCore
  <1> QED BY <1>7 DEF k

LEMMA AdmitKeepsLedger ==
    ASSUME Q!QuotaAssumption, Slots \subseteq Nat, NEW l, LedgerCore(l), l.nextSlot \in Slots,
           NEW c \in Requester, NEW amount \in Amount
    PROVE  LedgerCore(Q!AfterAdmit(l, c, amount))
  BY ChargeKeepsLedger, SpoilKeepsLedger DEF Q!AfterAdmit

LEMMA AllGrantedKeepsLedger ==
    ASSUME NEW l, LedgerCore(l), l.nextSlot \in Slots, NEW c \in Requester
    PROVE  LedgerCore(Q!AllGranted(l, c)) /\ Q!AllGranted(l, c).nextSlot = l.nextSlot
  <1> DEFINE k == Q!AllGranted(l, c)
             g == [v \in Voter |-> [epoch |-> l.nextSlot, candidate |-> c]]
             r == [l.register EXCEPT !.grants = g]
  <1>1. l \in LedgerType /\ l.register \in Q!Register
    BY DEF LedgerCore, LedgerType
  <1>2. g \in [Voter -> Q!Grant \cup {Q!NoGrant}]
    BY DEF Q!Grant
  <1>4. k = [l EXCEPT !.register = r]
    BY DEF Q!AllGranted
  <1> HIDE DEF g
  <1>3. r \in Q!Register /\ r.holders = l.register.holders
    BY <1>1, <1>2 DEF Q!Register
  <1> HIDE DEF k, r
  <1>5. /\ k \in LedgerType /\ k.register = r /\ k.nextSlot = l.nextSlot
        /\ k.outstanding = l.outstanding /\ k.log = l.log
    BY <1>1, <1>3, <1>4 DEF LedgerType
  <1>6. LedgerCore(k)
    BY <1>3, <1>5, VotesKeepLedger
  <1> QED BY <1>5, <1>6 DEF k

\* A first release.
LEMMA DischargeKeepsLedger ==
    ASSUME Q!QuotaAssumption, NEW l, LedgerCore(l), NEW t, t \in l.outstanding
    PROVE  LedgerCore(Q!Discharged(l, t))
  <1> DEFINE k == Q!Discharged(l, t)
  <1>1. /\ l \in LedgerType /\ l.outstanding \subseteq Q!Reservation
        /\ l.log \subseteq [op : {"admit", "release"}, res : Q!Reservation]
    BY DEF LedgerCore, LedgerType
  <1>2. k = [l EXCEPT !.outstanding = l.outstanding \ {t},
                      !.log = l.log \cup {[op |-> "release", res |-> t]}]
    BY DEF Q!Discharged
  <1> HIDE DEF k
  <1>3. /\ k.register = l.register /\ k.nextSlot = l.nextSlot
        /\ k.outstanding = l.outstanding \ {t}
        /\ k.log = l.log \cup {[op |-> "release", res |-> t]}
    BY <1>1, <1>2 DEF LedgerType
  <1>4. k \in LedgerType
    <2>1. [op |-> "release", res |-> t] \in [op : {"admit", "release"}, res : Q!Reservation]
      BY <1>1
    <2>2. /\ l.log \cup {[op |-> "release", res |-> t]}
                \in SUBSET [op : {"admit", "release"}, res : Q!Reservation]
          /\ l.outstanding \ {t} \in SUBSET Q!Reservation
      BY <1>1, <2>1
    <2> QED BY <1>1, <1>2, <2>2 DEF LedgerType
  <1>5. /\ Logged(k, "admit") = Logged(l, "admit")
        /\ Logged(k, "release") = Logged(l, "release") \cup {t}
    <2> DEFINE e == [op |-> "release", res |-> t]
    <2>1. e.op = "release" /\ e.res = t /\ k.log = l.log \cup {e}
      BY <1>3
    <2> HIDE DEF e
    <2>2. \A o, r : r \in Logged(k, o) <=> r \in Logged(l, o) \/ (e.op = o /\ e.res = r)
      BY ONLY <2>1, LoggedOneMore
    <2>3. \A r : r \in Logged(k, "admit") <=> r \in Logged(l, "admit")
      BY <2>1, <2>2
    <2>4. \A r : r \in Logged(k, "release") <=> r \in Logged(l, "release") \/ r = t
      BY <2>1, <2>2
    <2> QED BY <2>3, <2>4
  <1>6. Q!TotalAmount(k.outstanding) <= Budget
    <2>1. IsFiniteSet(l.outstanding)
      BY FS_Subset DEF LedgerCore
    <2>2. /\ Q!TotalAmount(l.outstanding \ {t}) = Q!TotalAmount(l.outstanding) - t.amount
          /\ Q!TotalAmount(l.outstanding) \in Int
      BY <1>1, <2>1, Totals
    <2>3. Q!TotalAmount(l.outstanding) <= Budget /\ Budget \in Int
      BY DEF Q!QuotaAssumption, LedgerCore
    <2>4. \A x \in Amount : x \in Int /\ x >= 0
      <3> HIDE DEF k
      <3>1. Amount \subseteq Nat
        BY DEF Q!QuotaAssumption
      <3> QED BY ONLY <3>1
    <2>5. t.amount \in Amount
      BY <1>1 DEF Q!Reservation
    <2>6. t.amount \in Int /\ t.amount >= 0
      BY ONLY <2>4, <2>5, Zenon
    <2> QED BY <1>3, <2>2, <2>3, <2>6
  <1>7. LedgerCore(k)
    BY <1>3, <1>4, <1>5, <1>6 DEF LedgerCore
  <1> QED BY <1>7 DEF k

\* The votes a refused admission of the hook leaves behind.
LEMMA SomeGrantsKeepLedger ==
    ASSUME NEW l, LedgerCore(l), l.nextSlot \in Slots, NEW c \in Requester, NEW before,
           NEW k, k = [l EXCEPT !.register.grants =
                          [v \in Voter |-> IF v \in before
                                           THEN [epoch |-> l.nextSlot, candidate |-> c]
                                           ELSE l.register.grants[v]]]
    PROVE  LedgerCore(k)
  <1> DEFINE g == [v \in Voter |-> IF v \in before
                                   THEN [epoch |-> l.nextSlot, candidate |-> c]
                                   ELSE l.register.grants[v]]
             r == [l.register EXCEPT !.grants = g]
  <1>1. l \in LedgerType /\ l.register \in Q!Register
    BY DEF LedgerCore, LedgerType
  <1>2. g \in [Voter -> Q!Grant \cup {Q!NoGrant}]
    <2>1. [epoch |-> l.nextSlot, candidate |-> c] \in Q!Grant
      BY DEF Q!Grant
    <2>2. l.register.grants \in [Voter -> Q!Grant \cup {Q!NoGrant}]
      BY <1>1 DEF Q!Register
    <2> QED BY <2>1, <2>2
  <1>4. k = [l EXCEPT !.register = r]
    OBVIOUS
  <1> HIDE DEF g
  <1>3. r \in Q!Register /\ r.holders = l.register.holders
    BY <1>1, <1>2 DEF Q!Register
  <1> HIDE DEF r
  <1>5. /\ k \in LedgerType /\ k.register = r /\ k.nextSlot = l.nextSlot
        /\ k.outstanding = l.outstanding /\ k.log = l.log
    BY ONLY <1>1, <1>3, <1>4 DEF LedgerType
  <1> QED BY <1>3, <1>5, VotesKeepLedger

QuotaCore ==
    /\ ledger \in [Ledger -> LedgerType]
    /\ \A n \in Ledger : LedgerCore(ledger[n])
    /\ ids \in [Ledger -> SUBSET Slots]
    /\ wired \subseteq Ledger

LEMMA QuotaCoreInit ==
    ASSUME Q!QuotaAssumption, Q!Init
    PROVE  QuotaCore
  <1> DEFINE l == [register |-> Q!EmptyRegister, nextSlot |-> 0, outstanding |-> {}, log |-> {}]
  <1>1. Q!EmptyRegister \in Q!Register
    BY DEF Q!EmptyRegister, Q!Register
  <1>2. l \in LedgerType
    BY <1>1 DEF LedgerType
  <1>3. Logged(l, "admit") = {} /\ Logged(l, "release") = {}
    BY DEF Logged
  <1>4. l.outstanding = {} /\ Q!TotalAmount({}) = 0
    <2>1. {} \in SUBSET Q!Reservation /\ IsFiniteSet({})
      BY FS_EmptySet
    <2> QED BY <2>1, TotalIsSum, SumOnEmpty
  <1>5. LedgerCore(l)
    BY <1>2, <1>3, <1>4, FS_EmptySet DEF LedgerCore, Q!QuotaAssumption
  <1> HIDE DEF l
  <1>6. ledger = [n \in Ledger |-> l] /\ ids = [n \in Ledger |-> {}] /\ wired = {}
    BY DEF Q!Init, l
  <1> QED BY <1>2, <1>5, <1>6 DEF QuotaCore

\* A step changes one ledger, or none.
LEMMA OneLedgerStep ==
    ASSUME QuotaCore, NEW n \in Ledger, NEW l, LedgerCore(l), ledger' = [ledger EXCEPT ![n] = l],
           ids' \in [Ledger -> SUBSET Slots], wired' \subseteq Ledger
    PROVE  QuotaCore'
  <1>1. l \in LedgerType
    BY DEF LedgerCore
  <1>2. ledger' \in [Ledger -> LedgerType]
    BY <1>1 DEF QuotaCore
  <1>3. \A m \in Ledger : ledger'[m] = l \/ ledger'[m] = ledger[m]
    BY DEF QuotaCore
  <1>4. \A m \in Ledger : LedgerCore(ledger'[m])
    BY <1>3 DEF QuotaCore
  <1> QED BY <1>2, <1>4 DEF QuotaCore

LEMMA QuotaCoreStep ==
    ASSUME Q!QuotaAssumption, Slots \subseteq Nat, QuotaCore, Q!Next
    PROVE  QuotaCore'
  <1>1. PICK n \in Ledger :
            \/ \E v \in Voter, c \in Requester : Q!LedgerGrant(n, v, c)
            \/ \E c \in Requester, amount \in Amount :
                   \/ Q!LedgerAdmit(n, c, amount)
                   \/ Q!HookAdmit(n, c, amount)
                   \/ Q!HookReconcile(n, c, amount)
            \/ \E slot \in ids[n] : Q!LedgerRelease(n, slot)
            \/ Q!Wire(n)
            \/ \E c \in Requester : Q!HookRefused(n, c)
    BY DEF Q!Next
  <1>2. LedgerCore(ledger[n]) /\ ids \in [Ledger -> SUBSET Slots] /\ wired \subseteq Ledger
    BY DEF QuotaCore
  <1> DEFINE l == ledger[n]
  <1>3. ASSUME NEW v \in Voter, NEW c \in Requester, Q!LedgerGrant(n, v, c)
        PROVE  QuotaCore'
    <2>1. ledger' = [ledger EXCEPT ![n] = Q!GrantPending(l, v, c)] /\ ids' = ids /\ wired' = wired
          /\ l.nextSlot \in Slots
      BY <1>3 DEF Q!LedgerGrant, Q!PendingSlotInBound
    <2>2. LedgerCore(Q!GrantPending(l, v, c))
      BY <1>2, <2>1, GrantKeepsLedger
    <2> QED BY <1>2, <2>1, <2>2, OneLedgerStep
  <1>4. ASSUME NEW c \in Requester, NEW amount \in Amount, Q!LedgerAdmit(n, c, amount)
        PROVE  QuotaCore'
    <2>1. /\ ledger' = [ledger EXCEPT ![n] = Q!AfterAdmit(l, c, amount)] /\ wired' = wired
          /\ l.nextSlot \in Slots
      BY <1>4 DEF Q!LedgerAdmit, Q!PendingSlotInBound
    <2>2. ids' \in [Ledger -> SUBSET Slots]
      <3>1. \E x \in SUBSET Slots : ids' = [ids EXCEPT ![n] = x]
        BY <1>2, <1>4, <2>1 DEF Q!LedgerAdmit
      <3> QED BY <1>2, <3>1
    <2>3. LedgerCore(Q!AfterAdmit(l, c, amount))
      BY <1>2, <2>1, AdmitKeepsLedger
    <2> QED BY <1>2, <2>1, <2>2, <2>3, OneLedgerStep
  <1>5. ASSUME NEW c \in Requester, NEW amount \in Amount,
               Q!HookAdmit(n, c, amount) \/ Q!HookReconcile(n, c, amount)
        PROVE  QuotaCore'
    <2> DEFINE g == Q!AllGranted(l, c)
    <2>1. ledger' = [ledger EXCEPT ![n] = Q!AfterAdmit(g, c, amount)] /\ wired' = wired
          /\ l.nextSlot \in Slots
      BY <1>5 DEF Q!HookAdmit, Q!HookReconcile, Q!PendingSlotInBound
    <2>2. LedgerCore(g) /\ g.nextSlot \in Slots
      BY <1>2, <2>1, AllGrantedKeepsLedger
    <2>3. ids' \in [Ledger -> SUBSET Slots]
      <3>1. ids' = ids \/ \E x \in SUBSET Slots : ids' = [ids EXCEPT ![n] = x]
        BY <1>2, <1>5, <2>2 DEF Q!HookAdmit, Q!HookReconcile
      <3> QED BY <1>2, <3>1
    <2> HIDE DEF g
    <2>4. LedgerCore(Q!AfterAdmit(g, c, amount))
      BY <2>2, AdmitKeepsLedger
    <2> QED BY <1>2, <2>1, <2>3, <2>4, OneLedgerStep
  <1>6. ASSUME NEW slot \in ids[n], Q!LedgerRelease(n, slot)
        PROVE  QuotaCore'
    <2>1. PICK res \in l.outstanding :
              /\ ledger' = [ledger EXCEPT ![n] = Q!Discharged(l, res)]
              /\ ids' = [ids EXCEPT ![n] = @ \ {slot}]
              /\ wired' = wired
      BY <1>6 DEF Q!LedgerRelease
    <2>2. LedgerCore(Q!Discharged(l, res))
      BY <1>2, <2>1, DischargeKeepsLedger
    <2>3. ids' \in [Ledger -> SUBSET Slots]
      BY <1>2, <2>1
    <2> QED BY <1>2, <2>1, <2>2, <2>3, OneLedgerStep
  <1>7. CASE Q!Wire(n)
    BY <1>7 DEF Q!Wire, QuotaCore
  <1>8. ASSUME NEW c \in Requester, Q!HookRefused(n, c)
        PROVE  QuotaCore'
    <2>1. PICK before :
              /\ ledger' = [ledger EXCEPT ![n].register.grants =
                     [v \in Voter |-> IF v \in before
                                      THEN [epoch |-> ledger[n].nextSlot, candidate |-> c]
                                      ELSE @[v]]]
              /\ ids' = ids /\ wired' = wired /\ l.nextSlot \in Slots
      BY <1>8 DEF Q!HookRefused, Q!PendingSlotInBound
    <2> DEFINE k == [l EXCEPT !.register.grants =
                        [v \in Voter |-> IF v \in before
                                         THEN [epoch |-> l.nextSlot, candidate |-> c]
                                         ELSE l.register.grants[v]]]
    <2>2. ledger' = [ledger EXCEPT ![n] = k]
      BY <2>1
    <2>3. LedgerCore(k)
      BY <1>2, <2>1, SomeGrantsKeepLedger
    <2> HIDE DEF k
    <2> QED BY <1>2, <2>1, <2>2, <2>3, OneLedgerStep
  <1> QED BY <1>1, <1>3, <1>4, <1>5, <1>6, <1>7, <1>8

LEMMA QuotaCoreSuffices ==
    ASSUME Q!QuotaAssumption, Slots \subseteq Nat, QuotaCore
    PROVE  Q!QuotaInv
  <1>1. ASSUME NEW n \in Ledger
        PROVE  LedgerCore(ledger[n]) /\ ledger[n] \in LedgerType
    BY DEF QuotaCore, LedgerCore
  <1>2. Q!TypeOK
    BY <1>1 DEF Q!TypeOK, QuotaCore, LedgerType
  <1>3. Q!WithinBudget
    BY <1>1 DEF Q!WithinBudget, Q!Reserved, LedgerCore
  <1>4. Q!BalanceFromLog
    <2> SUFFICES ASSUME NEW n \in Ledger
                 PROVE  Q!TotalAmount(ledger[n].outstanding)
                          = Q!TotalAmount(Logged(ledger[n], "admit"))
                            - Q!TotalAmount(Logged(ledger[n], "release"))
      BY DEF Q!BalanceFromLog, Q!Reserved, Logged
    <2> DEFINE l == ledger[n]
               Adm == Logged(l, "admit")
               Rel == Logged(l, "release")
    <2>1. Adm \in SUBSET Q!Reservation /\ IsFiniteSet(Adm) /\ Rel \in SUBSET Adm
          /\ l.outstanding = Adm \ Rel
      BY <1>1, LoggedIn DEF LedgerCore
    <2> HIDE DEF Adm, Rel, l
    <2>2. Q!TotalAmount(Adm \ Rel) = Q!TotalAmount(Adm) - Q!TotalAmount(Rel)
      BY <2>1, Totals
    <2>3. Q!TotalAmount(l.outstanding) = Q!TotalAmount(Adm) - Q!TotalAmount(Rel)
      BY <2>1, <2>2
    <2> QED BY <2>3 DEF Adm, Rel, l
  <1>5. Q!SlotsAreFencedOnce
    <2> SUFFICES ASSUME NEW n \in Ledger
                 PROVE  /\ \A x, y \in ledger[n].log :
                              (x.op = y.op /\ x.res.slot = y.res.slot) => x = y
                        /\ \A x \in ledger[n].log :
                              ledger[n].register.holders[x.res.slot] = x.res.candidate
      BY DEF Q!SlotsAreFencedOnce
    <2> DEFINE l == ledger[n]
    <2>1. LedgerCore(l) /\ l.log \subseteq [op : {"admit", "release"}, res : Q!Reservation]
      BY <1>1 DEF LedgerType
    <2>2. \A x \in l.log : x.res \in Logged(l, "admit")
      <3> TAKE x \in l.log
      <3>1. x.op = "admit" \/ x.op = "release"
        BY <2>1
      <3>2. x.res \in Logged(l, x.op)
        BY DEF Logged
      <3> QED BY <2>1, <3>1, <3>2 DEF LedgerCore
    <2>3. \A x, y \in l.log : x.op = y.op /\ x.res = y.res => x = y
      BY <2>1
    <2> HIDE DEF l
    <2>4. \A x, y \in l.log : x.res.slot = y.res.slot => x.res = y.res
      BY <2>1, <2>2 DEF LedgerCore
    <2>5. \A x \in l.log : l.register.holders[x.res.slot] = x.res.candidate
      BY <2>1, <2>2 DEF LedgerCore
    <2> QED BY <2>3, <2>4, <2>5 DEF l
  <1> QED BY <1>2, <1>3, <1>4, <1>5 DEF Q!QuotaInv

\* The pending slot of a ledger that went through admit() is above every vote.
LEMMA AdmissionLeavesFresh ==
    ASSUME NEW l, LedgerCore(l), l.nextSlot \in Slots, NEW c \in Requester, NEW amount \in Amount,
           NEW g, g = Q!AllGranted(l, c)
    PROVE  Q!GrantsAllVoters(Q!AfterAdmit(g, c, amount))
  <1>1. l \in LedgerType /\ l.nextSlot \in Nat /\ l.register \in Q!Register
    BY DEF LedgerCore, LedgerType
  <1>2. LedgerCore(g) /\ g.nextSlot = l.nextSlot
    BY AllGrantedKeepsLedger
  <1>3. \A v \in Voter : g.register.grants[v].epoch = l.nextSlot
    BY <1>1 DEF Q!AllGranted, LedgerType, Q!Register
  <1>4. g \in LedgerType /\ g.register \in Q!Register
    BY <1>2 DEF LedgerCore, LedgerType
  <1> DEFINE k == Q!AfterAdmit(g, c, amount)
  <1>5. k.nextSlot = g.nextSlot + 1 /\ k.register.grants = g.register.grants
    <2>1. CASE Q!Admits(g, c, amount)
      <3>1. k = Q!Charged(g, c, amount)
        BY <2>1 DEF Q!AfterAdmit
      <3>2. Q!Acquired(g.register, c, g.nextSlot).grants = g.register.grants
        BY <1>4 DEF Q!Acquired, Q!Register
      <3> HIDE DEF k
      <3> QED BY <1>4, <3>1, <3>2 DEF Q!Charged, LedgerType
    <2>2. CASE ~Q!Admits(g, c, amount)
      <3>1. k = Q!SpoilSlot(g)
        BY <2>2 DEF Q!AfterAdmit
      <3> HIDE DEF k
      <3> QED BY <1>4, <3>1 DEF Q!SpoilSlot, LedgerType
    <2> QED BY <2>1, <2>2
  <1> HIDE DEF k
  <1>6. k.nextSlot = l.nextSlot + 1 /\ \A v \in Voter : k.register.grants[v].epoch = l.nextSlot
    BY <1>2, <1>3, <1>5
  <1>7. Q!GrantsAllVoters(k)
    BY <1>1, <1>6 DEF Q!GrantsAllVoters, Q!GrantAccepted
  <1> QED BY <1>7 DEF k

LEMMA FreshStep ==
    ASSUME QuotaCore, Q!Next, NEW n \in wired, Q!GrantsAllVoters(ledger[n])
    PROVE  Q!GrantsAllVoters(ledger'[n])
  <1>0. n \in Ledger /\ ledger \in [Ledger -> LedgerType] /\ LedgerCore(ledger[n])
    BY DEF QuotaCore
  <1>1. PICK m \in Ledger :
            \/ \E v \in Voter, c \in Requester : Q!LedgerGrant(m, v, c)
            \/ \E c \in Requester, amount \in Amount :
                   \/ Q!LedgerAdmit(m, c, amount)
                   \/ Q!HookAdmit(m, c, amount)
                   \/ Q!HookReconcile(m, c, amount)
            \/ \E slot \in ids[m] : Q!LedgerRelease(m, slot)
            \/ Q!Wire(m)
            \/ \E c \in Requester : Q!HookRefused(m, c)
    BY DEF Q!Next
  <1>2. CASE m # n
    <2>1. ledger'[n] = ledger[n]
      BY <1>0, <1>1, <1>2 DEF Q!LedgerGrant, Q!LedgerAdmit, Q!HookAdmit, Q!HookReconcile,
          Q!LedgerRelease, Q!Wire, Q!HookRefused
    <2> QED BY <2>1
  <1>3. CASE m = n
    <2>1. ~(\E v \in Voter, c \in Requester : Q!LedgerGrant(m, v, c))
      BY <1>3 DEF Q!LedgerGrant
    <2>2. \A c \in Requester, amount \in Amount : ~Q!LedgerAdmit(m, c, amount)
      BY <1>3 DEF Q!LedgerAdmit
    <2>3. ~(\E c \in Requester : Q!HookRefused(m, c))
      BY <1>3 DEF Q!HookRefused, Q!GrantsAllVoters
    <2>4. ASSUME NEW c \in Requester, NEW amount \in Amount,
                 Q!HookAdmit(n, c, amount) \/ Q!HookReconcile(n, c, amount)
          PROVE  Q!GrantsAllVoters(ledger'[n])
      <3> DEFINE g == Q!AllGranted(ledger[n], c)
      <3>1. ledger'[n] = Q!AfterAdmit(g, c, amount) /\ ledger[n].nextSlot \in Slots
        BY <1>0, <2>4 DEF Q!HookAdmit, Q!HookReconcile, Q!PendingSlotInBound
      <3>2. Q!GrantsAllVoters(Q!AfterAdmit(g, c, amount))
        BY <1>0, <3>1, AdmissionLeavesFresh
      <3> QED BY <3>1, <3>2
    <2>5. ASSUME NEW slot \in ids[n], Q!LedgerRelease(n, slot)
          PROVE  Q!GrantsAllVoters(ledger'[n])
      <3>1. PICK res \in ledger[n].outstanding : ledger'[n] = Q!Discharged(ledger[n], res)
        BY <1>0, <2>5 DEF Q!LedgerRelease
      <3>2. ledger'[n].register = ledger[n].register /\ ledger'[n].nextSlot = ledger[n].nextSlot
        BY <1>0, <3>1 DEF Q!Discharged, LedgerType
      <3> QED BY <3>2 DEF Q!GrantsAllVoters
    <2>6. CASE Q!Wire(n)
      BY <2>6 DEF Q!Wire
    <2> QED BY <1>1, <1>3, <2>1, <2>2, <2>3, <2>4, <2>5, <2>6
  <1> QED BY <1>2, <1>3

(***************************************************************************)
(* The address pools.                                                      *)
(***************************************************************************)

\* What the operator surface and the pools keep together is inductive.
AddressCore == I!AddressInv

\* The slot of an address in scope is one of the pool's, and two addresses of
\* one pool have two slots.
LEMMA SlotOfAddress ==
    ASSUME I!IpamAssumption, I!TypeOK, NEW n \in Host, NEW a \in I!Addr, I!InScope(n, a)
    PROVE  /\ SiteOf[n] \in Site /\ pool[SiteOf[n]] \in Pools /\ pool[SiteOf[n]] # None
           /\ pool[SiteOf[n]].base \in Int /\ pool[SiteOf[n]].len \in Nat /\ a \in Int
           /\ I!Slot(n, a) = a - pool[SiteOf[n]].base
           /\ I!Slot(n, a) \in 0 .. pool[SiteOf[n]].len - 1
           /\ I!Slot(n, a) \in Slots
  <1>1. SiteOf[n] \in Site /\ pool[SiteOf[n]] # None
    BY DEF I!InScope, I!IpamAssumption
  <1>2. pool[SiteOf[n]] \in Pools
    BY <1>1 DEF I!TypeOK
  <1> DEFINE p == pool[SiteOf[n]]
  <1>3. p \in I!Pool
    BY <1>2 DEF I!IpamAssumption
  <1>4. p.base \in I!Addr /\ p.len \in Nat
    BY <1>3 DEF I!Pool
  <1>5. p.base \in Int /\ a \in Int
    BY <1>4 DEF I!Addr
  <1>6. I!Slot(n, a) = a - p.base /\ I!Slot(n, a) \in 0 .. p.len - 1
    BY DEF I!InScope, I!Slot, I!IndexOf
  <1>7. I!Slot(n, a) \in Slots
    BY <1>2, <1>6 DEF I!IpamAssumption
  <1> QED BY <1>1, <1>2, <1>4, <1>5, <1>6, <1>7

LEMMA AddressCoreInit ==
    ASSUME I!IpamAssumption, I!Init
    PROVE  AddressCore
  <1>1. I!EmptyRegister \in I!Register
    BY DEF I!EmptyRegister, I!Register
  <1>2. I!TypeOK
    BY <1>1 DEF I!TypeOK, I!Init, I!IpamAssumption
  <1>3. \A n \in Purpose : records[n] = None
    BY DEF I!Init
  <1> QED BY <1>2, <1>3 DEF AddressCore, I!AddressInv, I!RecordedOnce, I!AllocatedIsHeld, I!Init

\* A record and a slot of its own.
HeldBy(b, reg) == reg[SiteOf[b.node]].holders[I!Slot(b.node, b.addr)] = b.node

LEMMA HeldForm ==
    I!AllocatedIsHeld <=>
        \A name \in Purpose \ stranded : records[name] # None /\ records[name].allocated =>
            I!InScope(records[name].node, records[name].addr) /\ HeldBy(records[name], slots)
  BY DEF I!AllocatedIsHeld, HeldBy

\* The same of the next state, for a step that leaves the pools alone.
LEMMA HeldNext ==
    ASSUME pool' = pool,
           \A m \in Purpose \ stranded' : \A x : x = records'[m] /\ x # None /\ x.allocated =>
               /\ I!InScope(x.node, x.addr)
               /\ slots'[SiteOf[x.node]].holders[I!Slot(x.node, x.addr)] = x.node
    PROVE  I!AllocatedIsHeld'
  BY DEF I!AllocatedIsHeld, I!InScope, I!Slot

\* A pool is bound, perhaps over another: the records made in that one are
\* stranded, and those of the other sites keep their slots.
LEMMA BindKeepsAddresses ==
    ASSUME I!IpamAssumption, AddressCore, NEW s \in Site, NEW p \in Pools, I!BindPool(s, p)
    PROVE  AddressCore'
  <1>0. I!TypeOK /\ I!RecordedOnce /\ I!AllocatedIsHeld
    BY DEF AddressCore, I!AddressInv
  <1>1. /\ records' = records
        /\ stranded' = stranded \cup {n \in Purpose : records[n] # None /\ SiteOf[records[n].node] = s}
    BY DEF I!BindPool
  <1>2. /\ pool' = [pool EXCEPT ![s] = p] /\ slots' = [slots EXCEPT ![s] = I!EmptyRegister]
        /\ binds' = binds + 1 /\ binds < MaxBinds
    BY DEF I!BindPool
  <1>3. I!EmptyRegister \in I!Register
    BY DEF I!EmptyRegister, I!Register
  <1>4. I!TypeOK'
    <2>1. pool' \in [Site -> Pools \cup {None}] /\ slots' \in [Site -> I!Register]
      BY <1>0, <1>2, <1>3 DEF I!TypeOK
    <2>2. /\ binds' \in 0 .. MaxBinds /\ records' \in [Purpose -> I!Binding \cup {None}]
          /\ stranded' \subseteq Purpose
      BY <1>0, <1>1, <1>2 DEF I!TypeOK, I!IpamAssumption
    <2>3. p.len \in Nat
      BY DEF I!IpamAssumption, I!Pool
    <2>4. \A t \in Site, v \in Voter \ {CHOOSE w \in Voter : TRUE} :
              pool'[t] # None => slots'[t].grants[v].epoch < pool'[t].len
      <3> TAKE t \in Site, v \in Voter \ {CHOOSE w \in Voter : TRUE}
      <3>1. CASE t = s
        <4>1. pool'[t] = p /\ slots'[t] = I!EmptyRegister
          BY <1>0, <1>2, <3>1 DEF I!TypeOK
        <4>2. I!EmptyRegister.grants[v].epoch = -1
          BY DEF I!EmptyRegister, I!NoGrant
        <4> QED BY <2>3, <4>1, <4>2
      <3>2. CASE t # s
        <4>1. pool'[t] = pool[t] /\ slots'[t] = slots[t]
          BY <1>0, <1>2, <3>2 DEF I!TypeOK
        <4> QED BY <1>0, <4>1 DEF I!TypeOK
      <3> QED BY <3>1, <3>2
    <2> QED BY <2>1, <2>2, <2>4 DEF I!TypeOK
  <1>5. I!RecordedOnce'
    BY <1>0, <1>1 DEF I!RecordedOnce
  <1>6. I!AllocatedIsHeld'
    <2> SUFFICES ASSUME NEW name \in Purpose \ stranded', records[name] # None, records[name].allocated
                 PROVE  /\ I!InScope(records[name].node, records[name].addr)'
                        /\ HeldBy(records[name], slots)'
      BY <1>1 DEF I!AllocatedIsHeld, HeldBy
    <2> DEFINE b == records[name]
    <2>1. I!InScope(b.node, b.addr) /\ HeldBy(b, slots)
      BY <1>0, <1>1, HeldForm
    <2>2. SiteOf[b.node] # s /\ SiteOf[b.node] \in Site
      <3>1. b.node \in Host
        BY <1>0 DEF I!TypeOK, I!Binding
      <3> QED BY <1>1, <2>1, <3>1 DEF I!InScope, I!IpamAssumption
    <2>3. pool'[SiteOf[b.node]] = pool[SiteOf[b.node]] /\ slots'[SiteOf[b.node]] = slots[SiteOf[b.node]]
      BY <1>0, <1>2, <2>2 DEF I!TypeOK
    <2> QED BY <1>1, <2>1, <2>3 DEF I!InScope, HeldBy, I!Slot
  <1> QED BY <1>4, <1>5, <1>6 DEF AddressCore, I!AddressInv

\* A step that leaves the pools alone and gives the register of one site another value.
LEMMA RegisterStep ==
    ASSUME I!TypeOK, NEW s \in Site, NEW r \in I!Register, slots' = [slots EXCEPT ![s] = r],
           \A v \in Voter \ {CHOOSE w \in Voter : TRUE} :
               pool[s] # None => r.grants[v].epoch < pool[s].len,
           records' \in [Purpose -> I!Binding \cup {None}], UNCHANGED <<pool, binds>>,
           stranded' \subseteq Purpose
    PROVE  I!TypeOK'
  <1>1. slots' \in [Site -> I!Register]
    BY DEF I!TypeOK
  <1>2. \A t \in Site : slots'[t] = IF t = s THEN r ELSE slots[t]
    BY DEF I!TypeOK
  <1>3. \A t \in Site, v \in Voter \ {CHOOSE w \in Voter : TRUE} :
              pool'[t] # None => slots'[t].grants[v].epoch < pool'[t].len
    <2> TAKE t \in Site, v \in Voter \ {CHOOSE w \in Voter : TRUE}
    <2>1. CASE t = s
      BY <1>2, <2>1
    <2>2. CASE t # s
      BY <1>2, <2>2 DEF I!TypeOK
    <2> QED BY <2>1, <2>2
  <1> QED BY <1>1, <1>3 DEF I!TypeOK

\* A vote reaches the register of the node's site.
LEMMA GrantKeepsAddresses ==
    ASSUME I!IpamAssumption, AddressCore, NEW n \in Host, NEW a \in I!Addr,
           NEW v \in Voter \ {CHOOSE w \in Voter : TRUE}, I!GrantFor(v, n, a)
    PROVE  AddressCore'
  <1>0. I!TypeOK /\ I!RecordedOnce /\ I!AllocatedIsHeld
    BY DEF AddressCore, I!AddressInv
  <1> DEFINE s == SiteOf[n]
             e == I!Slot(n, a)
             r == I!Granted(slots[s], v, n, e)
  <1>1. /\ I!InScope(n, a) /\ records' = records /\ pool' = pool /\ binds' = binds /\ stranded' = stranded
        /\ slots' = [slots EXCEPT ![s] = r]
    BY DEF I!GrantFor
  <1>2. /\ s \in Site /\ pool[s] # None /\ pool[s].len \in Nat
        /\ e \in 0 .. pool[s].len - 1 /\ e \in Slots
    BY <1>0, <1>1, SlotOfAddress
  <1>3. slots[s] \in I!Register
    BY <1>0, <1>2 DEF I!TypeOK
  <1>4. r \in I!Register /\ r.holders = slots[s].holders
    <2>1. [epoch |-> e, candidate |-> n] \in I!Grant
      BY <1>2 DEF I!Grant
    <2> QED BY <1>3, <2>1 DEF I!Granted, I!Register
  <1>5. \A w \in Voter \ {CHOOSE x \in Voter : TRUE} : r.grants[w].epoch < pool[s].len
    <2> TAKE w \in Voter \ {CHOOSE x \in Voter : TRUE}
    <2>1. slots[s].grants[w].epoch < pool[s].len
      BY <1>0, <1>2 DEF I!TypeOK
    <2>2. r.grants[w] = slots[s].grants[w] \/ r.grants[w] = [epoch |-> e, candidate |-> n]
      BY <1>3 DEF I!Granted, I!Register
    <2> HIDE DEF r
    <2> QED BY <1>2, <2>1, <2>2
  <1> HIDE DEF r
  <1>6. I!TypeOK'
    <2>1. records' \in [Purpose -> I!Binding \cup {None}] /\ stranded' \subseteq Purpose
      BY <1>0, <1>1 DEF I!TypeOK
    <2> QED BY <1>0, <1>1, <1>2, <1>4, <1>5, <2>1, RegisterStep
  <1>7. \A t \in Site : slots'[t].holders = slots[t].holders
    BY <1>0, <1>1, <1>4 DEF I!TypeOK
  <1>8. I!AllocatedIsHeld'
    <2> SUFFICES ASSUME NEW name \in Purpose \ stranded, records[name] # None, records[name].allocated
                 PROVE  /\ I!InScope(records[name].node, records[name].addr)'
                        /\ HeldBy(records[name], slots)'
      BY <1>1 DEF I!AllocatedIsHeld, HeldBy
    <2> DEFINE b == records[name]
    <2>1. I!InScope(b.node, b.addr) /\ HeldBy(b, slots)
      BY <1>0, HeldForm
    <2>2. SiteOf[b.node] \in Site
      <3>1. b.node \in Host
        BY <1>0 DEF I!TypeOK, I!Binding
      <3> QED BY <2>1, <3>1 DEF I!InScope, I!IpamAssumption
    <2> QED BY <1>1, <1>7, <2>1, <2>2 DEF I!InScope, HeldBy, I!Slot
  <1> QED BY <1>0, <1>1, <1>6, <1>8 DEF AddressCore, I!AddressInv, I!RecordedOnce

\* Two records with different addresses do not share a slot.
LEMMA SlotsOfTwo ==
    ASSUME I!IpamAssumption, I!TypeOK, NEW n \in Host, NEW a \in I!Addr, I!InScope(n, a),
           NEW m \in Host, NEW d \in I!Addr, I!InScope(m, d), a # d, SiteOf[m] = SiteOf[n]
    PROVE  I!Slot(m, d) # I!Slot(n, a)
  <1>1. /\ I!Slot(n, a) = a - pool[SiteOf[n]].base /\ a \in Int /\ pool[SiteOf[n]].base \in Int
        /\ I!Slot(m, d) = d - pool[SiteOf[m]].base /\ d \in Int
    BY SlotOfAddress
  <1> QED BY <1>1

\* The record of an address: its slot goes to the node if the register says so,
\* and no other record has this slot.
LEMMA PutKeepsAddresses ==
    ASSUME I!IpamAssumption, AddressCore, NEW name \in Purpose, NEW n \in Host, NEW a \in I!Addr,
           I!Put(name, n, a)
    PROVE  AddressCore'
  <1>0. I!TypeOK /\ I!RecordedOnce /\ I!AllocatedIsHeld
    BY DEF AddressCore, I!AddressInv
  <1> DEFINE s == SiteOf[n]
             e == I!Slot(n, a)
             r == I!Acquired(slots[s], n, e)
             b == I!BindingFor(n, a)
  <1>1. /\ I!EnsureFree(name, a) /\ I!InScope(n, a) /\ pool' = pool /\ binds' = binds
        /\ stranded' = stranded \ {name}
        /\ records' = [records EXCEPT ![name] = b]
        /\ slots' = [slots EXCEPT ![s] = r]
    BY DEF I!Put
  <1>2. /\ s \in Site /\ pool[s] # None /\ e \in Slots
    BY <1>0, <1>1, SlotOfAddress
  <1>3. slots[s] \in I!Register
    BY <1>0, <1>2 DEF I!TypeOK
  <1>4. /\ r \in I!Register /\ r.grants = slots[s].grants
        /\ \A f \in Slots : f # e => r.holders[f] = slots[s].holders[f]
    BY <1>2, <1>3 DEF I!Acquired, I!Register
  <1>5. b \in I!Binding /\ b.node = n /\ b.addr = a /\ (b.allocated => r.holders[e] = n)
    <2>1. I!Acquires(slots[s], n, e) \in BOOLEAN
      <3>1. I!IsQuorum(I!Cardinality(I!Backers(slots[s], n, e))) \in BOOLEAN
        BY DEF I!IsQuorum
      <3>2. CASE slots[s].holders[e] # NoNode
        BY <3>2 DEF I!Acquires
      <3>3. CASE slots[s].holders[e] = NoNode
        <4> DEFINE q == I!IsQuorum(I!Cardinality(I!Backers(slots[s], n, e)))
        <4>1. I!Acquires(slots[s], n, e) = IF slots[s].holders[e] # NoNode
                                           THEN slots[s].holders[e] = n ELSE q
          BY DEF I!Acquires
        <4>2. q \in BOOLEAN
          BY <3>1
        <4> HIDE DEF q
        <4> QED BY <3>3, <4>1, <4>2
      <3> QED BY <3>2, <3>3
    <2>2. b \in I!Binding /\ b.node = n /\ b.addr = a /\ b.allocated = I!Acquires(slots[s], n, e)
      BY <2>1 DEF I!BindingFor, I!Binding
    <2>3. I!Acquires(slots[s], n, e) => r.holders[e] = n
      BY <1>2, <1>3 DEF I!Acquired, I!Register
    <2> QED BY <2>2, <2>3
  <1> HIDE DEF r, b
  <1>6. /\ records' \in [Purpose -> I!Binding \cup {None}] /\ stranded' \subseteq Purpose
        /\ records'[name] = b
        /\ \A m \in Purpose : m # name => records'[m] = records[m]
    BY <1>0, <1>1, <1>5 DEF I!TypeOK
  <1>7. I!TypeOK'
    <2>1. \A v \in Voter \ {CHOOSE w \in Voter : TRUE} :
              pool[s] # None => r.grants[v].epoch < pool[s].len
      BY <1>0, <1>2, <1>4 DEF I!TypeOK
    <2> QED BY <1>0, <1>1, <1>2, <1>4, <1>6, <2>1, RegisterStep
  <1>8. \A m \in Purpose : m # name /\ records[m] # None => records[m].addr # a
    BY <1>1 DEF I!EnsureFree
  <1>9. I!RecordedOnce'
    BY <1>0, <1>5, <1>6, <1>8 DEF I!RecordedOnce
  <1>10. slots'[s] = r /\ \A t \in Site : t # s => slots'[t] = slots[t]
    BY <1>0, <1>1, <1>2 DEF I!TypeOK
  <1>11. ASSUME NEW m \in Purpose \ stranded', NEW x, x = records'[m], x # None, x.allocated
         PROVE  /\ I!InScope(x.node, x.addr)
                /\ slots'[SiteOf[x.node]].holders[I!Slot(x.node, x.addr)] = x.node
    <2>1. CASE m = name
      BY <1>1, <1>5, <1>6, <1>10, <1>11, <2>1
    <2>2. CASE m # name
      <3> DEFINE c == records[m]
      <3>1. records'[m] = c /\ c.addr # a /\ c \in I!Binding
        BY <1>0, <1>6, <1>8, <1>11, <2>2 DEF I!TypeOK
      <3>2. I!InScope(c.node, c.addr) /\ slots[SiteOf[c.node]].holders[I!Slot(c.node, c.addr)] = c.node
        BY <1>0, <1>1, <1>11, <2>2, <3>1 DEF I!AllocatedIsHeld
      <3>3. c.node \in Host /\ c.addr \in I!Addr
        BY <3>1 DEF I!Binding
      <3>4. SiteOf[c.node] \in Site /\ I!Slot(c.node, c.addr) \in Slots
        BY <1>0, <3>2, <3>3, SlotOfAddress
      <3>5. SiteOf[c.node] = s => I!Slot(c.node, c.addr) # e
        BY <1>0, <1>1, <3>1, <3>2, <3>3, SlotsOfTwo
      <3> HIDE DEF c, e, s
      <3>6. slots'[SiteOf[c.node]].holders[I!Slot(c.node, c.addr)] = c.node
        BY <1>4, <1>10, <3>2, <3>4, <3>5
      <3> QED BY <1>11, <3>1, <3>2, <3>6
    <2> QED BY <2>1, <2>2
  <1>12. I!AllocatedIsHeld'
    BY <1>1, <1>11, HeldNext
  <1> QED BY <1>1, <1>7, <1>9, <1>12 DEF AddressCore, I!AddressInv

\* A release gives back the slot of its own record only.
LEMMA ReleaseKeepsAddresses ==
    ASSUME I!IpamAssumption, AddressCore, NEW name \in Purpose, I!Release(name)
    PROVE  AddressCore'
  <1>0. I!TypeOK /\ I!RecordedOnce /\ I!AllocatedIsHeld
    BY DEF AddressCore, I!AddressInv
  <1> DEFINE b == records[name]
             s == SiteOf[b.node]
             e == I!Slot(b.node, b.addr)
             r == I!Released(slots[s], b.node, e)
  <1>1. /\ b # None /\ pool' = pool /\ binds' = binds /\ stranded' = stranded \ {name}
        /\ records' = [records EXCEPT ![name] = None]
        /\ slots' = IF I!InScope(b.node, b.addr) THEN [slots EXCEPT ![s] = r] ELSE slots
    BY DEF I!Release
  <1>2. b \in I!Binding /\ b.node \in Host /\ b.addr \in I!Addr
    BY <1>0, <1>1 DEF I!TypeOK, I!Binding
  <1>3. /\ records' \in [Purpose -> I!Binding \cup {None}] /\ stranded' \subseteq Purpose
        /\ records'[name] = None
        /\ \A m \in Purpose : m # name => records'[m] = records[m]
    BY <1>0, <1>1 DEF I!TypeOK
  <1>4. I!RecordedOnce'
    BY <1>0, <1>3 DEF I!RecordedOnce
  <1>5. ASSUME I!InScope(b.node, b.addr)
        PROVE  /\ s \in Site /\ e \in Slots /\ r \in I!Register /\ r.grants = slots[s].grants
               /\ \A f \in Slots : f # e => r.holders[f] = slots[s].holders[f]
    <2>1. s \in Site /\ e \in Slots
      BY <1>0, <1>2, <1>5, SlotOfAddress
    <2>2. slots[s] \in I!Register
      BY <1>0, <2>1 DEF I!TypeOK
    <2> QED BY <2>1, <2>2 DEF I!Released, I!Register
  <1>6. I!TypeOK'
    <2>1. CASE I!InScope(b.node, b.addr)
      <3>1. \A v \in Voter \ {CHOOSE w \in Voter : TRUE} :
              pool[s] # None => r.grants[v].epoch < pool[s].len
        BY <1>0, <1>5, <2>1 DEF I!TypeOK
      <3>2. slots' = [slots EXCEPT ![s] = r]
        BY <1>1, <2>1
      <3> HIDE DEF r, s
      <3> QED BY <1>0, <1>1, <1>3, <1>5, <2>1, <3>1, <3>2, RegisterStep
    <2>2. CASE ~I!InScope(b.node, b.addr)
      BY <1>0, <1>1, <1>3, <2>2 DEF I!TypeOK
    <2> QED BY <2>1, <2>2
  <1>7. ASSUME NEW m \in Purpose \ stranded', NEW x, x = records'[m], x # None, x.allocated
         PROVE  /\ I!InScope(x.node, x.addr)
                /\ slots'[SiteOf[x.node]].holders[I!Slot(x.node, x.addr)] = x.node
    <2> DEFINE c == records[m]
    <2>0. m # name /\ records'[m] = c
      BY <1>3, <1>7
    <2>1. c.addr # b.addr /\ c \in I!Binding
      BY <1>0, <1>1, <1>7, <2>0 DEF I!TypeOK, I!RecordedOnce
    <2>2. I!InScope(c.node, c.addr) /\ slots[SiteOf[c.node]].holders[I!Slot(c.node, c.addr)] = c.node
      BY <1>0, <1>1, <1>7, <2>0 DEF I!AllocatedIsHeld
    <2>3. c.node \in Host /\ c.addr \in I!Addr
      BY <2>1 DEF I!Binding
    <2>4. SiteOf[c.node] \in Site /\ I!Slot(c.node, c.addr) \in Slots
      BY <1>0, <2>2, <2>3, SlotOfAddress
    <2>5. slots'[SiteOf[c.node]].holders[I!Slot(c.node, c.addr)] = c.node
      <3>1. CASE I!InScope(b.node, b.addr)
        <4>1. SiteOf[c.node] = s => I!Slot(c.node, c.addr) # e
          BY <1>0, <1>2, <2>1, <2>2, <2>3, <3>1, SlotsOfTwo
        <4>2. slots'[s] = r /\ \A t \in Site : t # s => slots'[t] = slots[t]
          BY <1>0, <1>1, <1>5, <3>1 DEF I!TypeOK
        <4> HIDE DEF c, e, s, r
        <4> QED BY <1>5, <2>2, <2>4, <3>1, <4>1, <4>2
      <3>2. CASE ~I!InScope(b.node, b.addr)
        BY <1>1, <2>2, <3>2
      <3> QED BY <3>1, <3>2
    <2> HIDE DEF c
    <2> QED BY <1>7, <2>0, <2>2, <2>5
  <1>8. I!AllocatedIsHeld'
    BY <1>1, <1>7, HeldNext
  <1> QED BY <1>1, <1>4, <1>6, <1>8 DEF AddressCore, I!AddressInv

LEMMA AddressCoreStep ==
    ASSUME I!IpamAssumption, AddressCore, I!Next
    PROVE  AddressCore'
  <1>1. CASE \E s \in Site, p \in Pools : I!BindPool(s, p)
    BY <1>1, BindKeepsAddresses
  <1>2. CASE \E n \in Host, a \in I!Addr : \E v \in Voter \ {CHOOSE w \in Voter : TRUE} :
                I!GrantFor(v, n, a)
    BY <1>2, GrantKeepsAddresses
  <1>3. CASE \E n \in Host, a \in I!Addr : \E name \in Purpose :
                I!Reserve(name, n, a) \/ I!Allocate(name, n, a)
    BY <1>3, PutKeepsAddresses DEF I!Reserve, I!Allocate
  <1>4. CASE \E name \in Purpose : I!Release(name)
    BY <1>4, ReleaseKeepsAddresses
  <1> QED BY <1>1, <1>2, <1>3, <1>4 DEF I!Next

\* The slot of an address names it back.
LEMMA SlotsAreAddresses ==
    ASSUME I!IpamAssumption, AddressCore
    PROVE  I!SlotsRoundTrip
  <1>1. 2^Width \in Nat
    <2>1. Width \in Nat
      BY DEF I!IpamAssumption
    <2>2. IsFiniteSet(1..Width) /\ Cardinality(1..Width) = Width
      <3>1. 1 \in Int /\ Width \in Int
        BY <2>1
      <3>2. IsFiniteSet(1..Width) /\ Cardinality(1..Width) = IF 1 > Width THEN 0 ELSE Width - 1 + 1
        BY <3>1, FS_Interval
      <3> QED BY <2>1, <3>2
    <2>3. IsFiniteSet(SUBSET (1..Width)) /\ Cardinality(SUBSET (1..Width)) = 2^Cardinality(1..Width)
      BY <2>2, FS_SUBSET
    <2>4. Cardinality(SUBSET (1..Width)) \in Nat
      BY <2>3, FS_CardinalityType
    <2> QED BY <2>2, <2>3, <2>4
  <1> SUFFICES ASSUME NEW s \in Site, NEW a \in I!Addr, pool[s] # None, I!IndexOf(pool[s], a) # None
               PROVE  I!AddrAt(pool[s], I!IndexOf(pool[s], a)) = a
    BY DEF I!SlotsRoundTrip
  <1> DEFINE p == pool[s]
             w == 2^Width
             i == I!IndexOf(p, a)
  <1>2. p \in Pools
    BY DEF AddressCore, I!AddressInv, I!TypeOK
  <1>3. p \in I!Pool
    BY <1>2 DEF I!IpamAssumption
  <1>4. p.base \in 0 .. w - 1 /\ p.len \in Nat /\ a \in 0 .. w - 1 /\ w \in Nat
    BY <1>1, <1>3 DEF I!Pool, I!Addr
  <1>5. i = a - p.base /\ i \in 0 .. p.len - 1
    BY DEF I!IndexOf
  <1>6. I!AddrAt(p, i) = IF i >= p.len THEN None ELSE (p.base + i) % w
    BY DEF I!AddrAt
  <1> HIDE DEF w, p, i
  <1>7. p.base + i = a /\ ~(i >= p.len)
    BY <1>4, <1>5
  <1>8. a % w = a
    BY <1>4
  <1>9. I!AddrAt(p, i) = a
    BY <1>6, <1>7, <1>8
  <1> QED BY <1>9 DEF p, i

(***************************************************************************)
(* The job scheduler.                                                      *)
(***************************************************************************)

\* The positions of a sequence whose element is in P.
Positions(q, P) == {i \in DOMAIN q : q[i] \in P}

Count(q, P) == Cardinality(Positions(q, P))

LEMMA PositionsAreFinite ==
    ASSUME NEW E, NEW q \in Seq(E), NEW P
    PROVE  /\ DOMAIN q = 1..Len(q) /\ Len(q) \in Nat
           /\ Positions(q, P) \subseteq 1..Len(q)
           /\ IsFiniteSet(Positions(q, P)) /\ Count(q, P) \in Nat
  <1>1. DOMAIN q = 1..Len(q) /\ Len(q) \in Nat
    OBVIOUS
  <1>2. Positions(q, P) \subseteq 1..Len(q)
    BY <1>1 DEF Positions
  <1>3. IsFiniteSet(1..Len(q))
    BY <1>1, FS_Interval
  <1>4. IsFiniteSet(Positions(q, P))
    BY <1>2, <1>3, FS_Subset
  <1> QED BY <1>1, <1>2, <1>4, FS_CardinalityType DEF Count

\* One element more.
LEMMA CountAppend ==
    ASSUME NEW E, NEW q \in Seq(E), NEW x \in E, NEW P
    PROVE  Count(Append(q, x), P) = IF x \in P THEN Count(q, P) + 1 ELSE Count(q, P)
  <1>1. /\ DOMAIN q = 1..Len(q) /\ Len(q) \in Nat
        /\ Positions(q, P) \subseteq 1..Len(q)
        /\ IsFiniteSet(Positions(q, P))
    BY PositionsAreFinite
  <1> DEFINE a == Append(q, x)
             k == Len(q) + 1
  <1>2. DOMAIN a = 1..k /\ a[k] = x /\ \A i \in 1..Len(q) : a[i] = q[i]
    BY <1>1
  <1> HIDE DEF a
  <1>3. 1..k = 1..Len(q) \cup {k} /\ k \notin 1..Len(q)
    BY <1>1
  <1>4. CASE x \in P
    <2>1. Positions(a, P) = Positions(q, P) \cup {k} /\ k \notin Positions(q, P)
      BY <1>1, <1>2, <1>3, <1>4 DEF Positions
    <2>2. Cardinality(Positions(q, P) \cup {k}) = Cardinality(Positions(q, P)) + 1
      BY <1>1, <2>1, FS_AddElement
    <2> QED BY <1>4, <2>1, <2>2 DEF Count, a
  <1>5. CASE x \notin P
    <2>1. Positions(a, P) = Positions(q, P)
      BY <1>1, <1>2, <1>3, <1>5 DEF Positions
    <2> QED BY <1>5, <2>1 DEF Count, a
  <1> QED BY <1>4, <1>5

\* One element replaced.
LEMMA CountReplace ==
    ASSUME NEW E, NEW q \in Seq(E), NEW i \in DOMAIN q, NEW P,
           NEW t, DOMAIN t = DOMAIN q, \A k \in DOMAIN q : k # i => t[k] = q[k]
    PROVE  /\ (q[i] \in P <=> t[i] \in P) => Count(t, P) = Count(q, P)
           /\ q[i] \in P /\ t[i] \notin P => Count(t, P) = Count(q, P) - 1
  <1>1. IsFiniteSet(Positions(q, P)) /\ Count(q, P) \in Nat
    BY PositionsAreFinite
  <1>2. ASSUME q[i] \in P <=> t[i] \in P
        PROVE  Count(t, P) = Count(q, P)
    <2>1. Positions(t, P) = Positions(q, P)
      BY <1>2 DEF Positions
    <2> QED BY <2>1 DEF Count
  <1>3. ASSUME q[i] \in P, t[i] \notin P
        PROVE  Count(t, P) = Count(q, P) - 1
    <2>1. Positions(t, P) = Positions(q, P) \ {i} /\ i \in Positions(q, P)
      BY <1>3 DEF Positions
    <2>2. Cardinality(Positions(q, P) \ {i}) = Cardinality(Positions(q, P)) - 1
      BY <1>1, <2>1, FS_RemoveElement
    <2> QED BY <2>1, <2>2 DEF Count
  <1> QED BY <1>2, <1>3

\* The positions of a finite set of naturals can be numbered in order.
LEMMA NthIsBijection ==
    ASSUME NEW K \in SUBSET Nat, IsFiniteSet(K)
    PROVE  [n \in 1..Cardinality(K) |-> Nth(K, n)] \in Bijection(1..Cardinality(K), K)
  <1> DEFINE m == Cardinality(K)
             Upto(i) == {k \in K : k <= i}
             rank == [i \in K |-> Cardinality(Upto(i))]
  <1>1. m \in Nat
    BY FS_CardinalityType
  <1>2. \A i \in K : /\ IsFiniteSet(Upto(i)) /\ Cardinality(Upto(i)) \in Nat
                     /\ Cardinality(Upto(i)) <= m /\ Cardinality(Upto(i)) # 0
    <2> TAKE i \in K
    <2>1. Upto(i) \in SUBSET K /\ i \in Upto(i)
      OBVIOUS
    <2>2. IsFiniteSet(Upto(i)) /\ Cardinality(Upto(i)) <= m
      BY <2>1, FS_Subset
    <2>3. Cardinality(Upto(i)) \in Nat /\ Cardinality(Upto(i)) # 0
      BY <2>1, <2>2, FS_CardinalityType, FS_EmptySet
    <2> QED BY <2>2, <2>3
  <1>3. \A i, k \in K : i < k => Cardinality(Upto(i)) # Cardinality(Upto(k))
    <2> TAKE i, k \in K
    <2> HAVE i < k
    <2>0. i \in Nat /\ k \in Nat /\ \A x \in K : x \in Nat
      OBVIOUS
    <2>0a. \A x \in K : x <= i => x <= k
      BY <2>0
    <2>0b. k <= k /\ ~(k <= i)
      BY <2>0
    <2>1. Upto(i) \in SUBSET Upto(k) /\ k \in Upto(k) /\ k \notin Upto(i)
      BY <2>0a, <2>0b
    <2>2. Cardinality(Upto(k)) = Cardinality(Upto(i)) => Upto(k) = Upto(i)
      BY <1>2, <2>1, FS_Subset
    <2> QED BY <2>1, <2>2
  <1>4. rank \in [K -> 1..m]
    BY <1>1, <1>2
  <1>5. \A i, k \in K : rank[i] = rank[k] => i = k
    <2> TAKE i, k \in K
    <2>1. rank[i] = Cardinality(Upto(i)) /\ rank[k] = Cardinality(Upto(k)) /\ i \in Nat /\ k \in Nat
      OBVIOUS
    <2>2. i < k \/ k < i \/ i = k
      BY <2>1
    <2> HIDE DEF rank, Upto
    <2> QED BY <1>3, <2>1, <2>2
  <1>6. rank \in Injection(K, 1..m)
    BY <1>4, <1>5 DEF Injection, IsInjective
  <1>7. IsFiniteSet(1..m) /\ Cardinality(1..m) = m
    <2>1. IsFiniteSet(1..m) /\ Cardinality(1..m) = IF 1 > m THEN 0 ELSE m - 1 + 1
      BY <1>1, FS_Interval
    <2> QED BY <1>1, <2>1
  <1>8. rank \in Surjection(K, 1..m)
    <2> HIDE DEF rank
    <2> QED BY <1>6, <1>7, FS_Injection
  <1>9. \A n \in 1..m : \E i \in K : rank[i] = n
    BY <1>8 DEF Surjection
  <1>10. \A n \in 1..m : Nth(K, n) \in K /\ rank[Nth(K, n)] = n
    <2> TAKE n \in 1..m
    <2>1. \E i \in K : Cardinality({k \in K : k <= i}) = n
      BY <1>9
    <2>2. Nth(K, n) \in K /\ Cardinality({k \in K : k <= Nth(K, n)}) = n
      BY <2>1 DEF Nth
    <2> QED BY <2>2
  <1> DEFINE f == [n \in 1..m |-> Nth(K, n)]
  <1> HIDE DEF rank, m
  <1>11. f \in [1..m -> K] /\ \A n \in 1..m : rank[f[n]] = n
    BY <1>10
  <1>12. \A i \in K : \E n \in 1..m : f[n] = i
    <2> TAKE i \in K
    <2>1. rank[i] \in 1..m
      BY <1>4
    <2>2. f[rank[i]] \in K /\ rank[f[rank[i]]] = rank[i]
      BY <1>11, <2>1
    <2> HIDE DEF f
    <2>3. f[rank[i]] = i
      BY <1>5, <2>2
    <2> QED BY <2>1, <2>3
  <1>13. f \in Bijection(1..m, K)
    <2> HIDE DEF f
    <2>1. \A n, k \in 1..m : f[n] = f[k] => n = k
      BY <1>11
    <2> QED BY <1>11, <1>12, <2>1 DEF Bijection, Injection, Surjection, IsInjective
  <1> QED BY <1>13 DEF m

\* Keeping some positions of a sequence, in their order.
Kept(q, K) == [n \in 1..Cardinality(K) |-> q[Nth(K, n)]]

LEMMA CountKept ==
    ASSUME NEW E, NEW q \in Seq(E), NEW K \in SUBSET (DOMAIN q), NEW P
    PROVE  /\ Kept(q, K) \in Seq(E)
           /\ Count(Kept(q, K), P) = Cardinality(Positions(q, P) \cap K)
  <1>1. DOMAIN q = 1..Len(q) /\ Len(q) \in Nat
    OBVIOUS
  <1>2. K \in SUBSET Nat /\ IsFiniteSet(K)
    <2>1. IsFiniteSet(1..Len(q))
      BY <1>1, FS_Interval
    <2> QED BY <1>1, <2>1, FS_Subset
  <1> DEFINE m == Cardinality(K)
             f == [n \in 1..m |-> Nth(K, n)]
             t == Kept(q, K)
  <1>3. m \in Nat /\ f \in Bijection(1..m, K)
    BY <1>2, NthIsBijection, FS_CardinalityType
  <1>4. t = [n \in 1..m |-> q[f[n]]]
    BY DEF Kept
  <1> HIDE DEF m, f, t
  <1>5. /\ f \in [1..m -> K] /\ (\A n, k \in 1..m : f[n] = f[k] => n = k)
        /\ \A i \in K : \E n \in 1..m : f[n] = i
    BY <1>3 DEF Bijection, Injection, Surjection, IsInjective
  <1>6. \A n \in 1..m : q[f[n]] \in E
    BY <1>1, <1>5
  <1>7. t \in Seq(E) /\ DOMAIN t = 1..m
    BY <1>3, <1>4, <1>6
  <1> DEFINE A == Positions(t, P)
             B == Positions(q, P) \cap K
             g == [n \in A |-> f[n]]
  <1>8. \A n \in 1..m : n \in A <=> f[n] \in B
    BY <1>4, <1>5, <1>7 DEF Positions
  <1>9. A \subseteq 1..m
    BY <1>7 DEF Positions
  <1> HIDE DEF A, B
  <1>10. g \in [A -> B]
    BY <1>8, <1>9
  <1>11. \A n, k \in A : g[n] = g[k] => n = k
    BY <1>5, <1>9
  <1>12. \A i \in B : \E n \in A : g[n] = i
    <2> TAKE i \in B
    <2>1. i \in K
      BY DEF B
    <2>2. PICK n \in 1..m : f[n] = i
      BY <1>5, <2>1
    <2> QED BY <1>8, <2>2
  <1> HIDE DEF g
  <1>13. g \in Bijection(A, B)
    BY <1>10, <1>11, <1>12 DEF Bijection, Injection, Surjection, IsInjective
  <1>14. IsFiniteSet(A)
    <2>1. IsFiniteSet(1..m)
      BY <1>3, FS_Interval
    <2> QED BY <1>9, <2>1, FS_Subset
  <1>15. ExistsBijection(A, B)
    BY <1>13 DEF ExistsBijection
  <1>16. Cardinality(B) = Cardinality(A)
    BY <1>14, <1>15, FS_Bijection
  <1> QED BY <1>7, <1>16 DEF A, B, t, Count

\* What a run or a row is to a job.
RunningOf(j) == {r \in Run : Running(r, j)}
TerminalOf(j) == {r \in Run : Terminal(r, j)}

EngineType == [runs : Seq(Run), backoff : [Job -> Nat]]

\* What the engine keeps of every job: its finished runs and its failures stay
\* within the caps.
EngineOK(e) ==
    /\ e \in EngineType
    /\ \A j \in Job : Count(e.runs, TerminalOf(j)) <= HistoryCap /\ e.backoff[j] <= MaxBackoff

LEMMA KindsOfRuns ==
    ASSUME NEW j \in Job, NEW k \in Job, NEW r \in Run
    PROVE  /\ r \in RunningOf(j) <=> r.job = j /\ r.status = "Running"
           /\ r \in TerminalOf(j) <=> r.job = j /\ r.status # "Running"
           /\ \A st \in Status : [r EXCEPT !.status = st] \in Run
           /\ j # k /\ (r \in RunningOf(j) \/ r \in TerminalOf(j))
                 => r \notin RunningOf(k) /\ r \notin TerminalOf(k)
           /\ r \in RunningOf(j) \/ r \in TerminalOf(j) <=> r.job = j
  BY DEF RunningOf, TerminalOf, Running, Terminal, Run

\* The oldest finished runs beyond the cap go, and nothing else does.
LEMMA PruneEngine ==
    ASSUME NEW e \in EngineType, NEW j \in Job
    PROVE  /\ Prune(e, j) \in EngineType /\ Prune(e, j).backoff = e.backoff
           /\ \A k \in Job : Count(Prune(e, j).runs, RunningOf(k)) = Count(e.runs, RunningOf(k))
           /\ \A k \in Job : k # j => Count(Prune(e, j).runs, TerminalOf(k)) = Count(e.runs, TerminalOf(k))
           /\ Count(Prune(e, j).runs, TerminalOf(j)) <= HistoryCap
  <1> DEFINE q == e.runs
             After(i) == {k \in i..Len(q) : Terminal(q[k], j)}
             K == {i \in DOMAIN q : Terminal(q[i], j) => Cardinality(After(i)) <= HistoryCap}
  <1>0. q \in Seq(Run) /\ DOMAIN q = 1..Len(q) /\ Len(q) \in Nat /\ \A i \in DOMAIN q : q[i] \in Run
    BY DEF EngineType
  <1>1. Prune(e, j) = [e EXCEPT !.runs = Kept(q, K)]
    BY DEF Prune, Kept
  <1>2. K \in SUBSET (DOMAIN q)
    OBVIOUS
  <1>3. Kept(q, K) \in Seq(Run)
    <2> HIDE DEF K, q
    <2> QED BY <1>0, <1>2, CountKept
  <1>4. Prune(e, j) \in EngineType /\ Prune(e, j).backoff = e.backoff /\ Prune(e, j).runs = Kept(q, K)
    <2> HIDE DEF K
    <2> QED BY <1>1, <1>3 DEF EngineType
  <1>5. \A P : Count(Kept(q, K), P) = Cardinality(Positions(q, P) \cap K)
    <2> HIDE DEF K, q
    <2> QED BY <1>0, <1>2, CountKept
  <1>6. \A i \in DOMAIN q : Terminal(q[i], j) <=> q[i] \in TerminalOf(j)
    BY <1>0 DEF TerminalOf
  <1>7. ASSUME NEW P, \A i \in DOMAIN q : q[i] \in P => q[i] \notin TerminalOf(j)
        PROVE  Count(Kept(q, K), P) = Count(q, P)
    <2>1. Positions(q, P) \cap K = Positions(q, P)
      BY <1>6, <1>7 DEF Positions
    <2> QED BY <1>5, <2>1 DEF Count
  <1>8. \A k \in Job : Count(Kept(q, K), RunningOf(k)) = Count(q, RunningOf(k))
    <2> TAKE k \in Job
    <2>1. \A i \in DOMAIN q : q[i] \in RunningOf(k) => q[i] \notin TerminalOf(j)
      BY <1>0 DEF RunningOf, TerminalOf, Running, Terminal
    <2> QED BY <1>7, <2>1
  <1>9. \A k \in Job : k # j => Count(Kept(q, K), TerminalOf(k)) = Count(q, TerminalOf(k))
    <2> TAKE k \in Job
    <2> HAVE k # j
    <2>1. \A i \in DOMAIN q : q[i] \in TerminalOf(k) => q[i] \notin TerminalOf(j)
      BY <1>0 DEF TerminalOf, Terminal
    <2> QED BY <1>7, <2>1
  <1>10. Count(Kept(q, K), TerminalOf(j)) <= HistoryCap
    <2> DEFINE C == Positions(q, TerminalOf(j)) \cap K
    <2>1. Count(Kept(q, K), TerminalOf(j)) = Cardinality(C)
      BY <1>5
    <2>2. HistoryCap \in Nat
      BY SchedulerAssumption
    <2>3. CASE C = {}
      <3>1. Cardinality(C) = 0
        BY <2>3, FS_EmptySet
      <3> HIDE DEF C, K, q
      <3> QED BY <2>1, <2>2, <3>1
    <2>4. CASE C # {}
      <3>1. C \in SUBSET Nat
        BY <1>0
      <3>2. PICK i \in C : \A k \in C : i <= k
        BY <2>4, <3>1, LeastNatural
      <3>3. i \in DOMAIN q /\ Terminal(q[i], j) /\ Cardinality(After(i)) <= HistoryCap
        BY <1>6 DEF Positions
      <3>4. C \in SUBSET After(i)
        <4> SUFFICES ASSUME NEW k \in C PROVE k \in i..Len(q) /\ Terminal(q[k], j)
          OBVIOUS
        <4>1. k \in DOMAIN q /\ Terminal(q[k], j)
          BY <1>6 DEF Positions
        <4>2. i <= k
          BY <3>2
        <4> QED BY <1>0, <3>3, <4>1, <4>2
      <3>5. IsFiniteSet(After(i))
        <4>1. IsFiniteSet(i..Len(q))
          BY <1>0, <3>3, FS_Interval
        <4> QED BY <4>1, FS_Subset
      <3>6. Cardinality(C) <= Cardinality(After(i)) /\ Cardinality(C) \in Nat /\ Cardinality(After(i)) \in Nat
        <4> HIDE DEF C, After
        <4>1. IsFiniteSet(C)
          BY <3>4, <3>5, FS_Subset
        <4> QED BY <3>4, <3>5, <4>1, FS_Subset, FS_CardinalityType
      <3> HIDE DEF C, After
      <3> QED BY <2>1, <2>2, <3>3, <3>6
    <2> QED BY <2>3, <2>4
  <1> QED BY <1>4, <1>8, <1>9, <1>10

\* The oldest running run of the job ends.
LEMMA TerminateEngine ==
    ASSUME NEW e \in EngineType, NEW j \in Job, HasRunning(e, j), NEW st \in Exit
    PROVE  /\ Terminate(e, j, st) \in EngineType /\ Terminate(e, j, st).backoff = e.backoff
           /\ \A k \in Job : k # j =>
                 /\ Count(Terminate(e, j, st).runs, RunningOf(k)) = Count(e.runs, RunningOf(k))
                 /\ Count(Terminate(e, j, st).runs, TerminalOf(k)) = Count(e.runs, TerminalOf(k))
           /\ Count(Terminate(e, j, st).runs, RunningOf(j)) = Count(e.runs, RunningOf(j)) - 1
  <1> DEFINE q == e.runs
             R1 == {i \in DOMAIN q : Running(q[i], j)}
             IsFirst(i) == Running(q[i], j) /\ \A k \in 1..i - 1 : ~Running(q[k], j)
             f == CHOOSE i \in DOMAIN q : IsFirst(i)
             x == [q[f] EXCEPT !.status = st]
             t == [q EXCEPT ![f] = x]
  <1>0. q \in Seq(Run) /\ DOMAIN q = 1..Len(q) /\ Len(q) \in Nat /\ \A i \in DOMAIN q : q[i] \in Run
    BY DEF EngineType
  <1>1. \E i \in DOMAIN q : IsFirst(i)
    <2>1. R1 \in SUBSET Nat /\ R1 # {}
      BY <1>0 DEF HasRunning
    <2>2. PICK i \in R1 : \A k \in R1 : i <= k
      BY <2>1, LeastNatural
    <2>3. i \in 1..Len(q) /\ i \in Nat
      BY <1>0
    <2>4. \A k \in 1..i - 1 : k \in DOMAIN q /\ ~(i <= k)
      BY <1>0, <2>3
    <2>5. IsFirst(i)
      BY <2>2, <2>4
    <2> QED BY <1>0, <2>3, <2>5
  <1>2. f \in DOMAIN q /\ Running(q[f], j)
    BY <1>1
  <1>3. Terminate(e, j, st) = [e EXCEPT !.runs = t]
    BY DEF Terminate
  <1> HIDE DEF f
  <1>4. q[f] \in Run /\ x \in Run /\ x.job = j /\ q[f].job = j /\ x.status # "Running" /\ q[f].status = "Running"
    BY <1>0, <1>2 DEF Running, Run, Exit, Status
  <1> HIDE DEF x
  <1>5. t \in Seq(Run)
    BY <1>0, <1>2, <1>4
  <1> HIDE DEF t
  <1>6. Terminate(e, j, st) \in EngineType /\ Terminate(e, j, st).backoff = e.backoff /\ Terminate(e, j, st).runs = t
    BY <1>3, <1>5 DEF EngineType
  <1>7. t = [q EXCEPT ![f] = x]
    BY DEF t
  <1> HIDE DEF q
  <1>8. \A P : /\ (q[f] \in P <=> x \in P) => Count(t, P) = Count(q, P)
               /\ q[f] \in P /\ x \notin P => Count(t, P) = Count(q, P) - 1
    <2> TAKE P
    <2>1. q \in Seq(Run) /\ f \in DOMAIN q
      BY <1>0, <1>2
    <2>2. DOMAIN t = DOMAIN q /\ t[f] = x /\ \A k \in DOMAIN q : k # f => t[k] = q[k]
      BY <1>7, <2>1
    <2>3. /\ (q[f] \in P <=> t[f] \in P) => Count(t, P) = Count(q, P)
          /\ q[f] \in P /\ t[f] \notin P => Count(t, P) = Count(q, P) - 1
      BY ONLY <2>1, <2>2, CountReplace
    <2> QED BY <2>2, <2>3
  <1>9. \A k \in Job : k # j => /\ q[f] \notin RunningOf(k) /\ x \notin RunningOf(k)
                                /\ q[f] \notin TerminalOf(k) /\ x \notin TerminalOf(k)
    BY <1>4, KindsOfRuns
  <1>10. q[f] \in RunningOf(j) /\ x \notin RunningOf(j)
    BY <1>4, KindsOfRuns
  <1> QED BY <1>6, <1>8, <1>9, <1>10 DEF q

\* The report of an exit takes at most one of the job's running runs, and
\* nothing from any other job.
Reported(e, k, j) ==
    /\ EngineOK(k)
    /\ \A i \in Job : i # j => Count(k.runs, RunningOf(i)) = Count(e.runs, RunningOf(i))
    /\ Count(k.runs, RunningOf(j)) >= Count(e.runs, RunningOf(j)) - 1

LEMMA CountsAreNat ==
    ASSUME NEW e \in EngineType, NEW P
    PROVE  Count(e.runs, P) \in Nat
  <1>1. e.runs \in Seq(Run)
    BY DEF EngineType
  <1> QED BY <1>1, PositionsAreFinite

LEMMA ReportEngine ==
    ASSUME NEW e, EngineOK(e), NEW j \in Job, HasRunning(e, j), NEW st \in Exit, NEW b \in 0..MaxBackoff
    PROVE  Reported(e, Prune([Terminate(e, j, st) EXCEPT !.backoff[j] = b], j), j)
  <1> DEFINE t == Terminate(e, j, st)
             u == [t EXCEPT !.backoff[j] = b]
             k == Prune(u, j)
  <1>0. e \in EngineType
    BY DEF EngineOK
  <1>1. /\ t \in EngineType /\ t.backoff = e.backoff
        /\ \A i \in Job : i # j =>
                 /\ Count(t.runs, RunningOf(i)) = Count(e.runs, RunningOf(i))
                 /\ Count(t.runs, TerminalOf(i)) = Count(e.runs, TerminalOf(i))
        /\ Count(t.runs, RunningOf(j)) = Count(e.runs, RunningOf(j)) - 1
    BY <1>0, TerminateEngine
  <1> HIDE DEF t
  <1>2. b \in Nat
    BY SchedulerAssumption
  <1>3. u \in EngineType /\ u.runs = t.runs /\ u.backoff = [t.backoff EXCEPT ![j] = b]
    BY <1>1, <1>2 DEF EngineType
  <1> HIDE DEF u
  <1>4. /\ k \in EngineType /\ k.backoff = u.backoff
        /\ \A i \in Job : Count(k.runs, RunningOf(i)) = Count(u.runs, RunningOf(i))
        /\ \A i \in Job : i # j => Count(k.runs, TerminalOf(i)) = Count(u.runs, TerminalOf(i))
        /\ Count(k.runs, TerminalOf(j)) <= HistoryCap
    BY <1>3, PruneEngine
  <1> HIDE DEF k
  <1>5. \A i \in Job : k.backoff[i] <= MaxBackoff
    <2> TAKE i \in Job
    <2>1. e.backoff \in [Job -> Nat] /\ e.backoff[i] <= MaxBackoff
      BY <1>0 DEF EngineOK, EngineType
    <2>2. k.backoff = [e.backoff EXCEPT ![j] = b]
      BY <1>1, <1>3, <1>4
    <2>3. k.backoff[i] = IF i = j THEN b ELSE e.backoff[i]
      BY <2>1, <2>2
    <2>4. b <= MaxBackoff
      BY SchedulerAssumption
    <2> QED BY <2>1, <2>3, <2>4
  <1>6. \A i \in Job : Count(k.runs, TerminalOf(i)) <= HistoryCap
    BY <1>1, <1>3, <1>4 DEF EngineOK
  <1>7. EngineOK(k)
    BY <1>4, <1>5, <1>6 DEF EngineOK
  <1>8. \A i \in Job : i # j => Count(k.runs, RunningOf(i)) = Count(e.runs, RunningOf(i))
    BY <1>1, <1>3, <1>4
  <1>9. Count(k.runs, RunningOf(j)) = Count(e.runs, RunningOf(j)) - 1
    BY <1>1, <1>3, <1>4
  <1>10. Count(e.runs, RunningOf(j)) \in Nat
    BY <1>0, CountsAreNat
  <1>11. Count(k.runs, RunningOf(j)) >= Count(e.runs, RunningOf(j)) - 1
    BY <1>9, <1>10
  <1> QED BY <1>7, <1>8, <1>11 DEF Reported, t, u, k

LEMMA ReportNothing ==
    ASSUME NEW e, EngineOK(e), NEW j \in Job
    PROVE  Reported(e, e, j)
  <1>1. Count(e.runs, RunningOf(j)) \in Nat
    BY CountsAreNat DEF EngineOK
  <1> QED BY <1>1 DEF Reported

LEMMA SucceedEngine ==
    ASSUME NEW e, EngineOK(e), NEW j \in Job
    PROVE  Reported(e, Succeed(e, j), j)
  <1>1. CASE jobs[j] = None \/ ~HasRunning(e, j)
    BY <1>1, ReportNothing DEF Succeed
  <1>2. CASE ~(jobs[j] = None \/ ~HasRunning(e, j))
    <2>1. 0 \in 0..MaxBackoff /\ "Succeeded" \in Exit
      BY SchedulerAssumption DEF Exit
    <2>2. Reported(e, Prune([Terminate(e, j, "Succeeded") EXCEPT !.backoff[j] = 0], j), j)
      BY <1>2, <2>1, ReportEngine
    <2> QED BY <1>2, <2>2 DEF Succeed
  <1> QED BY <1>1, <1>2

LEMMA FailEngine ==
    ASSUME NEW e, EngineOK(e), NEW j \in Job
    PROVE  Reported(e, Fail(e, j), j)
  <1>1. CASE jobs[j] = None \/ e.backoff[j] >= MaxBackoff \/ ~HasRunning(e, j)
    BY <1>1, ReportNothing DEF Fail
  <1>2. CASE ~(jobs[j] = None \/ e.backoff[j] >= MaxBackoff \/ ~HasRunning(e, j))
    <2> DEFINE b == e.backoff[j] + 1
               t == Terminate(e, j, "Failed")
    <2>1. b \in 0..MaxBackoff /\ "Failed" \in Exit
      BY <1>2, SchedulerAssumption DEF Exit, EngineOK, EngineType
    <2>2. t \in EngineType /\ t.backoff = e.backoff
      BY <1>2, <2>1, TerminateEngine DEF EngineOK
    <2>3. [t EXCEPT !.backoff[j] = @ + 1] = [t EXCEPT !.backoff[j] = b]
      <3> HIDE DEF t
      <3> QED BY <2>2
    <2>4. Fail(e, j) = Prune([t EXCEPT !.backoff[j] = b], j)
      <3>1. Fail(e, j) = Prune([t EXCEPT !.backoff[j] = @ + 1], j)
        BY <1>2 DEF Fail
      <3> HIDE DEF t, b
      <3> QED BY <2>3, <3>1
    <2> HIDE DEF b
    <2>5. Reported(e, Prune([Terminate(e, j, "Failed") EXCEPT !.backoff[j] = b], j), j)
      BY <1>2, <2>1, ReportEngine
    <2> QED BY <2>4, <2>5
  <1> QED BY <1>1, <1>2

LEMMA CountSame ==
    ASSUME NEW q, NEW t, NEW P, DOMAIN t = DOMAIN q, \A i \in DOMAIN q : t[i] \in P <=> q[i] \in P
    PROVE  Count(t, P) = Count(q, P)
  <1>1. Positions(t, P) = Positions(q, P)
    BY DEF Positions
  <1> QED BY <1>1 DEF Count

LEMMA CountNone ==
    ASSUME NEW t, NEW P, \A i \in DOMAIN t : t[i] \notin P
    PROVE  Count(t, P) = 0
  <1>1. Positions(t, P) = {}
    BY DEF Positions
  <1> QED BY <1>1, FS_EmptySet DEF Count

\* Replace ends whatever runs of the job.
ClearedRuns(e, j) ==
    [i \in DOMAIN e.runs |->
        IF Running(e.runs[i], j) THEN [e.runs[i] EXCEPT !.status = "Failed"] ELSE e.runs[i]]

LEMMA ClearedEngine ==
    ASSUME NEW e \in EngineType, NEW j \in Job
    PROVE  /\ ClearedRuns(e, j) \in Seq(Run)
           /\ Count(ClearedRuns(e, j), RunningOf(j)) = 0
           /\ \A k \in Job : k # j =>
                 /\ Count(ClearedRuns(e, j), RunningOf(k)) = Count(e.runs, RunningOf(k))
                 /\ Count(ClearedRuns(e, j), TerminalOf(k)) = Count(e.runs, TerminalOf(k))
  <1> DEFINE q == e.runs
             t == ClearedRuns(e, j)
  <1>0. q \in Seq(Run) /\ DOMAIN q = 1..Len(q) /\ Len(q) \in Nat /\ \A i \in DOMAIN q : q[i] \in Run
    BY DEF EngineType
  <1>1. DOMAIN t = DOMAIN q
    BY DEF ClearedRuns
  <1>2. \A i \in DOMAIN q :
            IF q[i].job = j /\ q[i].status = "Running"
            THEN t[i] = [q[i] EXCEPT !.status = "Failed"] ELSE t[i] = q[i]
    BY DEF ClearedRuns, Running
  <1>3. \A i \in DOMAIN q : /\ t[i] \in Run /\ t[i].job = q[i].job /\ t[i] \notin RunningOf(j)
                            /\ t[i].job # j => t[i] = q[i]
    <2> TAKE i \in DOMAIN q
    <2>1. q[i] \in Run
      BY <1>0
    <2>2. CASE q[i].job = j /\ q[i].status = "Running"
      BY <1>2, <2>1, <2>2 DEF Run, Status, RunningOf, Running
    <2>3. CASE ~(q[i].job = j /\ q[i].status = "Running")
      BY <1>2, <2>1, <2>3 DEF RunningOf, Running
    <2> QED BY <2>2, <2>3
  <1>4. t \in Seq(Run)
    <2>1. t = [i \in 1..Len(q) |-> t[i]]
      BY <1>0 DEF ClearedRuns
    <2>2. \A i \in 1..Len(q) : t[i] \in Run
      BY <1>0, <1>3
    <2> HIDE DEF t, q
    <2> QED BY <1>0, <2>1, <2>2
  <1> HIDE DEF t, q
  <1>5. Count(t, RunningOf(j)) = 0
    BY <1>1, <1>3, CountNone
  <1>6. ASSUME NEW k \in Job, k # j
        PROVE  /\ Count(t, RunningOf(k)) = Count(q, RunningOf(k))
               /\ Count(t, TerminalOf(k)) = Count(q, TerminalOf(k))
    <2>1. \A i \in DOMAIN q : /\ t[i] \in RunningOf(k) <=> q[i] \in RunningOf(k)
                              /\ t[i] \in TerminalOf(k) <=> q[i] \in TerminalOf(k)
      <3> TAKE i \in DOMAIN q
      <3>1. CASE t[i].job = j
        <4>1. t[i].job # k /\ q[i].job # k
          BY <1>3, <1>6, <3>1
        <4> QED BY <4>1 DEF RunningOf, TerminalOf, Running, Terminal
      <3>2. CASE t[i].job # j
        BY <1>3, <3>2
      <3> QED BY <3>1, <3>2
    <2> QED BY <1>1, <2>1, CountSame
  <1> QED BY <1>4, <1>5, <1>6 DEF t, q

\* A run starts: the others' runs stay, the job has one running run more, or
\* just this one where it replaces the others.
LEMMA StartedEngine ==
    ASSUME NEW e, EngineOK(e), NEW j \in Job
    PROVE  /\ EngineOK(Started(e, j))
           /\ \A k \in Job : k # j => Count(Started(e, j).runs, RunningOf(k)) = Count(e.runs, RunningOf(k))
           /\ Count(Started(e, j).runs, RunningOf(j)) =
                 (IF jobs[j].policy = "Replace" THEN 0 ELSE Count(e.runs, RunningOf(j))) + 1
  <1>0. e \in EngineType
    BY DEF EngineOK
  <1> DEFINE r == [job |-> j, status |-> "Running"]
             q == IF jobs[j].policy = "Replace" THEN ClearedRuns(e, j) ELSE e.runs
             u == [e EXCEPT !.runs = Append(q, r)]
             k == Prune(u, j)
  <1>1. Started(e, j) = k
    <2>1. CASE jobs[j].policy = "Replace"
      <3> DEFINE c == [e EXCEPT !.runs = ClearedRuns(e, j)]
      <3>1. c.runs = ClearedRuns(e, j) /\ [c EXCEPT !.runs = Append(@, r)] = [e EXCEPT !.runs = Append(ClearedRuns(e, j), r)]
        <4> DEFINE cr == ClearedRuns(e, j)
        <4> HIDE DEF cr
        <4> QED BY <1>0 DEF EngineType
      <3>2. Started(e, j) = Prune([c EXCEPT !.runs = Append(@, r)], j)
        BY <2>1 DEF Started, ClearedRuns
      <3> QED BY <2>1, <3>1, <3>2
    <2>2. CASE jobs[j].policy # "Replace"
      BY <2>2 DEF Started
    <2> QED BY <2>1, <2>2
  <1>2. /\ q \in Seq(Run)
        /\ \A i \in Job : i # j => /\ Count(q, RunningOf(i)) = Count(e.runs, RunningOf(i))
                                    /\ Count(q, TerminalOf(i)) = Count(e.runs, TerminalOf(i))
        /\ Count(q, RunningOf(j)) = IF jobs[j].policy = "Replace" THEN 0 ELSE Count(e.runs, RunningOf(j))
    BY <1>0, ClearedEngine DEF EngineType
  <1> HIDE DEF q
  <1>3. r \in Run /\ r.job = j /\ r.status = "Running"
    BY DEF Run, Status
  <1> HIDE DEF r
  <1>4. Append(q, r) \in Seq(Run)
    BY <1>2, <1>3
  <1>5. \A P : Count(Append(q, r), P) = IF r \in P THEN Count(q, P) + 1 ELSE Count(q, P)
    <2> TAKE P
    <2>1. q \in Seq(Run) /\ r \in Run
      BY <1>2, <1>3
    <2> QED BY ONLY <2>1, CountAppend
  <1>6. u \in EngineType /\ u.runs = Append(q, r) /\ u.backoff = e.backoff
    <2> DEFINE a == Append(q, r)
    <2> HIDE DEF a
    <2>1. a \in Seq(Run)
      BY <1>4 DEF a
    <2>2. u = [e EXCEPT !.runs = a]
      BY DEF a
    <2> HIDE DEF u
    <2>3. u \in EngineType /\ u.runs = a /\ u.backoff = e.backoff
      BY <1>0, <2>1, <2>2 DEF EngineType
    <2> QED BY <2>3 DEF a
  <1> HIDE DEF u
  <1>7. /\ k \in EngineType /\ k.backoff = u.backoff
        /\ \A i \in Job : Count(k.runs, RunningOf(i)) = Count(u.runs, RunningOf(i))
        /\ \A i \in Job : i # j => Count(k.runs, TerminalOf(i)) = Count(u.runs, TerminalOf(i))
        /\ Count(k.runs, TerminalOf(j)) <= HistoryCap
    BY <1>6, PruneEngine
  <1> HIDE DEF k
  <1>8. r \in RunningOf(j) /\ \A i \in Job : i # j => r \notin RunningOf(i) /\ r \notin TerminalOf(i)
    BY <1>3, KindsOfRuns
  <1>9. \A i \in Job : i # j => Count(k.runs, RunningOf(i)) = Count(e.runs, RunningOf(i))
    BY <1>2, <1>5, <1>6, <1>7, <1>8
  <1>10. Count(k.runs, RunningOf(j)) = Count(q, RunningOf(j)) + 1
    BY <1>5, <1>6, <1>7, <1>8
  <1>11. \A i \in Job : Count(k.runs, TerminalOf(i)) <= HistoryCap
    <2> TAKE i \in Job
    <2>1. CASE i = j
      BY <1>7, <2>1
    <2>2. CASE i # j
      <3>1. Count(k.runs, TerminalOf(i)) = Count(e.runs, TerminalOf(i))
        BY <1>2, <1>5, <1>6, <1>7, <1>8, <2>2
      <3> QED BY <3>1 DEF EngineOK
    <2> QED BY <2>1, <2>2
  <1>12. EngineOK(k)
    BY <1>6, <1>7, <1>11 DEF EngineOK
  <1> QED BY <1>1, <1>2, <1>9, <1>10, <1>12

-----------------------------------------------------------------------------
(* stop_live: every child of the job is charged as a failure. *)

\* What the failures of a job leave of the engine.
StoppedEngines(j) ==
    {e \in EngineType :
        /\ EngineOK(e)
        /\ \A k \in Job : k # j => Count(e.runs, RunningOf(k)) = Count(engine.runs, RunningOf(k))}

FailMap(j, A, f) ==
    f = [s \in SUBSET A |-> IF s = {} THEN engine ELSE Fail(f[s \ {Picked(s)}], j)]

LEMMA StoppedEngine ==
    ASSUME EngineOK(engine), NEW j \in Job, NEW A, IsFiniteSet(A)
    PROVE  FoldSet(LAMBDA p, e : Fail(e, j), engine, A) \in StoppedEngines(j)
  <1> DEFINE D == StoppedEngines(j)
             F == [q \in A \X D |-> Fail(q[2], j)]
  <1>1. engine \in D
    BY DEF StoppedEngines, EngineOK
  <1>2. \A e \in D : Fail(e, j) \in D
    <2> TAKE e \in D
    <2>1. EngineOK(e) /\ \A k \in Job : k # j => Count(e.runs, RunningOf(k)) = Count(engine.runs, RunningOf(k))
      BY DEF StoppedEngines
    <2>2. Reported(e, Fail(e, j), j)
      BY <2>1, FailEngine
    <2> QED BY <2>1, <2>2 DEF Reported, EngineOK, StoppedEngines
  <1>3. \A x \in A : \A e \in D : F[<<x, e>>] = Fail(e, j) /\ F[<<x, e>>] \in D
    BY <1>2
  <1> HIDE DEF D, F
  <1>4. PICK f : FoldMap(F, engine, A, f)
    BY FoldMapExists
  <1>5. \A s \in SUBSET A : f[s] \in D
    BY <1>1, <1>3, <1>4, FoldMapStays
  <1>6. FailMap(j, A, f)
    <2>0. \A s \in SUBSET A : s # {} => Picked(s) \in A
      BY DEF Picked
    <2>1. \A s \in SUBSET A : s # {} => F[<<Picked(s), f[s \ {Picked(s)}]>>] =
            Fail(f[s \ {Picked(s)}], j)
      BY <1>3, <1>5, <2>0
    <2>2. f = [s \in SUBSET A |-> IF s = {} THEN engine ELSE F[<<Picked(s), f[s \ {Picked(s)}]>>]]
      BY <1>4 DEF FoldMap
    <2> QED BY <2>1, <2>2 DEF FailMap
  <1> DEFINE g == CHOOSE h : FailMap(j, A, h)
  <1>7. FailMap(j, A, g)
    BY <1>6
  <1>8. FoldSet(LAMBDA p, e : Fail(e, j), engine, A) = g[A]
    BY DEF FoldSet, MapThenFoldSet, FailMap, Picked
  <1> HIDE DEF g
  <1>9. g[{}] \in D
    BY <1>1, <1>7 DEF FailMap
  <1>10. \A s \in SUBSET A : s # {} /\ g[s \ {Picked(s)}] \in D => g[s] \in D
    BY <1>2, <1>7 DEF FailMap
  <1>11. g[A] \in D
    BY <1>9, <1>10, FoldInvariant
  <1> QED BY <1>8, <1>11 DEF D

\* The rows that say a job runs.
RunningRows(j) == {r \in Row : r.job = j /\ r.status = "Running"}

\* One row of the job, if one says Running, takes the status; no other job's does.
LEMMA RewrittenRows ==
    ASSUME NEW rows \in Seq(Row), NEW j \in Job, NEW st \in Exit
    PROVE  /\ Rewritten(rows, j, st) \in Seq(Row)
           /\ \A k \in Job : k # j =>
                 Count(Rewritten(rows, j, st), RunningRows(k)) = Count(rows, RunningRows(k))
           /\ Count(Rewritten(rows, j, st), RunningRows(j)) >= Count(rows, RunningRows(j)) - 1
  <1> DEFINE opn == {i \in DOMAIN rows : rows[i].job = j /\ rows[i].status = "Running"}
  <1>0. /\ DOMAIN rows = 1..Len(rows) /\ Len(rows) \in Nat /\ \A i \in DOMAIN rows : rows[i] \in Row
        /\ Count(rows, RunningRows(j)) \in Nat
    BY PositionsAreFinite
  <1>1. CASE opn = {}
    <2>1. Rewritten(rows, j, st) = rows
      BY <1>1 DEF Rewritten
    <2> QED BY <1>0, <2>1
  <1>2. CASE opn # {}
    <2> DEFINE f == CHOOSE i \in opn : \A k \in opn : k <= i
               x == [rows[f] EXCEPT !.status = st]
               t == [rows EXCEPT ![f] = x]
    <2>1. opn \in SUBSET Nat /\ \A m \in opn : m <= Len(rows)
      BY <1>0
    <2>2. \E i \in opn : \A k \in opn : k <= i
      <3> HIDE DEF opn
      <3> QED BY <1>0, <1>2, <2>1, GreatestNatural
    <2>3. f \in opn
      BY <2>2
    <2>4. Rewritten(rows, j, st) = t
      BY <1>2 DEF Rewritten
    <2>5. f \in DOMAIN rows /\ rows[f].job = j /\ rows[f].status = "Running"
      BY <2>3
    <2> HIDE DEF f
    <2>6. /\ rows[f] \in Row /\ x \in Row /\ x.job = j /\ x.status # "Running"
      BY <1>0, <2>5 DEF Row, Exit, Status
    <2> HIDE DEF x
    <2>7. t \in Seq(Row) /\ DOMAIN t = DOMAIN rows /\ t[f] = x /\ \A k \in DOMAIN rows : k # f => t[k] = rows[k]
      BY <1>0, <2>5, <2>6
    <2> HIDE DEF t
    <2>8. \A P : /\ (rows[f] \in P <=> t[f] \in P) => Count(t, P) = Count(rows, P)
                 /\ rows[f] \in P /\ t[f] \notin P => Count(t, P) = Count(rows, P) - 1
      <3> TAKE P
      <3>1. rows \in Seq(Row) /\ f \in DOMAIN rows
        BY <2>5
      <3> QED BY ONLY <3>1, <2>7, CountReplace
    <2>9. \A k \in Job : k # j => rows[f] \notin RunningRows(k) /\ t[f] \notin RunningRows(k)
      BY <2>5, <2>6, <2>7 DEF RunningRows
    <2>10. rows[f] \in RunningRows(j) /\ t[f] \notin RunningRows(j)
      BY <2>5, <2>6, <2>7 DEF RunningRows
    <2>11. Count(t, RunningRows(j)) = Count(rows, RunningRows(j)) - 1
      BY <2>8, <2>10
    <2>12. Count(t, RunningRows(j)) >= Count(rows, RunningRows(j)) - 1
      BY <1>0, <2>11
    <2> QED BY <2>4, <2>7, <2>8, <2>9, <2>12
  <1> QED BY <1>1, <1>2

StoppedRows(j) ==
    {rows \in Seq(Row) :
        \A k \in Job : k # j => Count(rows, RunningRows(k)) = Count(history, RunningRows(k))}

RewriteMap(j, A, f) ==
    f = [s \in SUBSET A |-> IF s = {} THEN history ELSE Rewritten(f[s \ {Picked(s)}], j, "Failed")]

LEMMA StoppedHistory ==
    ASSUME history \in Seq(Row), NEW j \in Job, NEW A, IsFiniteSet(A)
    PROVE  FoldSet(LAMBDA p, rows : Rewritten(rows, j, "Failed"), history, A) \in StoppedRows(j)
  <1> DEFINE D == StoppedRows(j)
             F == [q \in A \X D |-> Rewritten(q[2], j, "Failed")]
  <1>1. history \in D
    BY DEF StoppedRows
  <1>2. \A e \in D : Rewritten(e, j, "Failed") \in D
    <2> TAKE e \in D
    <2>1. e \in Seq(Row) /\ \A k \in Job : k # j => Count(e, RunningRows(k)) = Count(history, RunningRows(k))
      BY DEF StoppedRows
    <2>2. "Failed" \in Exit
      BY DEF Exit
    <2>3. /\ Rewritten(e, j, "Failed") \in Seq(Row)
          /\ \A k \in Job : k # j =>
                 Count(Rewritten(e, j, "Failed"), RunningRows(k)) = Count(e, RunningRows(k))
      BY <2>1, <2>2, RewrittenRows
    <2> QED BY <2>1, <2>3 DEF StoppedRows
  <1>3. \A x \in A : \A e \in D : F[<<x, e>>] = Rewritten(e, j, "Failed") /\ F[<<x, e>>] \in D
    BY <1>2
  <1> HIDE DEF D, F
  <1>4. PICK f : FoldMap(F, history, A, f)
    BY FoldMapExists
  <1>5. \A s \in SUBSET A : f[s] \in D
    BY <1>1, <1>3, <1>4, FoldMapStays
  <1>6. RewriteMap(j, A, f)
    <2>0. \A s \in SUBSET A : s # {} => Picked(s) \in A
      BY DEF Picked
    <2>1. \A s \in SUBSET A : s # {} => F[<<Picked(s), f[s \ {Picked(s)}]>>] =
            Rewritten(f[s \ {Picked(s)}], j, "Failed")
      BY <1>3, <1>5, <2>0
    <2>2. f = [s \in SUBSET A |-> IF s = {} THEN history ELSE F[<<Picked(s), f[s \ {Picked(s)}]>>]]
      BY <1>4 DEF FoldMap
    <2> QED BY <2>1, <2>2 DEF RewriteMap
  <1> DEFINE g == CHOOSE h : RewriteMap(j, A, h)
  <1>7. RewriteMap(j, A, g)
    BY <1>6
  <1>8. FoldSet(LAMBDA p, rows : Rewritten(rows, j, "Failed"), history, A) = g[A]
    BY DEF FoldSet, MapThenFoldSet, RewriteMap, Picked
  <1> HIDE DEF g
  <1>9. g[{}] \in D
    BY <1>1, <1>7 DEF RewriteMap
  <1>10. \A s \in SUBSET A : s # {} /\ g[s \ {Picked(s)}] \in D => g[s] \in D
    BY <1>2, <1>7 DEF RewriteMap
  <1>11. g[A] \in D
    BY <1>9, <1>10, FoldInvariant
  <1> QED BY <1>8, <1>11 DEF D

-----------------------------------------------------------------------------
(* The invariant of the scheduler, in terms of counts. *)

\* The children of a job in a table of processes.
KidsOf(kids, j) == {p \in Pid : kids[p] = j}

SchedulerTypes ==
    /\ jobs \in [Job -> Definition \cup {None}]
    /\ since \in [Job -> 0..Period \cup {None}]
    /\ live \in [Pid -> Job \cup {None}]
    /\ exited \in [Pid -> Exit \cup {None}]
    /\ nextPid \in 1..MaxPids + 1

\* Every child of every job has a run and a row that say Running.
Accounted(kids, e, rows) ==
    \A j \in Job : /\ Cardinality(KidsOf(kids, j)) <= Count(e.runs, RunningOf(j))
                   /\ Cardinality(KidsOf(kids, j)) <= Count(rows, RunningRows(j))

SchedulerCore ==
    /\ SchedulerTypes /\ EngineOK(engine) /\ history \in Seq(Row)
    /\ Accounted(live, engine, history)

LEMMA KidsAreFinite ==
    ASSUME NEW kids, NEW j
    PROVE  /\ IsFiniteSet(KidsOf(kids, j))
           /\ Cardinality(KidsOf(kids, j)) \in Nat
  <1>1. IsFiniteSet(Pid)
    BY SchedulerAssumption, FS_Interval DEF Pid
  <1>2. KidsOf(kids, j) \in SUBSET Pid
    BY DEF KidsOf
  <1>3. IsFiniteSet(KidsOf(kids, j))
    BY <1>1, <1>2, FS_Subset
  <1> QED BY <1>3, FS_CardinalityType

LEMMA CountsOfState ==
    ASSUME SchedulerCore, NEW j \in Job
    PROVE  /\ CountRunning(j) = Count(engine.runs, RunningOf(j))
           /\ {i \in DOMAIN engine.runs : Terminal(engine.runs[i], j)} = Positions(engine.runs, TerminalOf(j))
           /\ {i \in DOMAIN history : history[i].job = j /\ history[i].status = "Running"}
                 = Positions(history, RunningRows(j))
           /\ HasRunning(engine, j) <=> Positions(engine.runs, RunningOf(j)) # {}
  <1>1. engine.runs \in Seq(Run) /\ history \in Seq(Row)
    BY DEF SchedulerCore, EngineOK, EngineType
  <1>2. /\ \A i \in DOMAIN engine.runs : engine.runs[i] \in Run
        /\ \A i \in DOMAIN history : history[i] \in Row
    BY <1>1
  <1>3. {i \in DOMAIN engine.runs : Running(engine.runs[i], j)} = Positions(engine.runs, RunningOf(j))
    BY <1>2 DEF Positions, RunningOf
  <1>4. {i \in DOMAIN engine.runs : Terminal(engine.runs[i], j)} = Positions(engine.runs, TerminalOf(j))
    BY <1>2 DEF Positions, TerminalOf
  <1>5. {i \in DOMAIN history : history[i].job = j /\ history[i].status = "Running"}
                 = Positions(history, RunningRows(j))
    BY <1>2 DEF Positions, RunningRows
  <1>6. HasRunning(engine, j) <=> Positions(engine.runs, RunningOf(j)) # {}
    BY <1>3 DEF HasRunning
  <1> QED BY <1>3, <1>4, <1>5, <1>6 DEF CountRunning, Count

LEMMA SchedulerCoreSuffices ==
    ASSUME SchedulerCore
    PROVE  SchedulerInv
  <1>1. TypeOK
    BY DEF SchedulerCore, SchedulerTypes, EngineOK, EngineType, TypeOK
  <1>2. ASSUME NEW j \in Job
        PROVE  /\ Cardinality(Children(j)) <= CountRunning(j)
               /\ Cardinality(Children(j)) <=
                     Cardinality({i \in DOMAIN history : history[i].job = j /\ history[i].status = "Running"})
               /\ Cardinality({i \in DOMAIN engine.runs : Terminal(engine.runs[i], j)}) <= HistoryCap
               /\ engine.backoff[j] <= MaxBackoff
    <2>1. Accounted(live, engine, history) /\ EngineOK(engine)
      BY DEF SchedulerCore
    <2>2. Cardinality(Children(j)) <= Count(engine.runs, RunningOf(j))
          /\ Cardinality(Children(j)) <= Count(history, RunningRows(j))
      BY <2>1 DEF Accounted, Children, KidsOf
    <2>3. Count(engine.runs, TerminalOf(j)) <= HistoryCap /\ engine.backoff[j] <= MaxBackoff
      BY <2>1 DEF EngineOK
    <2> QED BY <2>2, <2>3, CountsOfState DEF Count
  <1> QED BY <1>1, <1>2 DEF SchedulerInv, ChildrenHaveRuns, ChildrenHaveRows, RunHistoryBounded, BackoffBounded

LEMMA SchedulerCoreInit ==
    ASSUME Init
    PROVE  SchedulerCore
  <1>1. SchedulerTypes
    BY SchedulerAssumption DEF SchedulerTypes, Init
  <1>2. engine \in EngineType /\ engine.runs = <<>> /\ \A j \in Job : engine.backoff[j] = 0
    BY DEF EngineType, Init
  <1>3. \A P : Count(<<>>, P) = 0
    BY CountNone
  <1>4. EngineOK(engine)
    BY <1>2, <1>3, SchedulerAssumption DEF EngineOK
  <1>5. \A j \in Job : KidsOf(live, j) = {}
    BY SchedulerAssumption DEF Init, KidsOf
  <1>6. Accounted(live, engine, history)
    <2> SUFFICES ASSUME NEW j \in Job
                 PROVE  /\ Cardinality(KidsOf(live, j)) <= Count(engine.runs, RunningOf(j))
                        /\ Cardinality(KidsOf(live, j)) <= Count(history, RunningRows(j))
      BY DEF Accounted
    <2>1. Cardinality(KidsOf(live, j)) = 0
      BY <1>5, FS_EmptySet
    <2>2. Count(engine.runs, RunningOf(j)) = 0
      BY <1>2, <1>3
    <2>3. Count(history, RunningRows(j)) = 0
      BY <1>3 DEF Init
    <2> QED BY <2>1, <2>2, <2>3
  <1>7. history \in Seq(Row)
    BY DEF Init
  <1> QED BY <1>1, <1>4, <1>6, <1>7 DEF SchedulerCore

\* After stop_live every child that is left has its run and its row.
LEMMA StopAccounts ==
    ASSUME SchedulerCore, NEW j \in Job, jobs[j] # None
    PROVE  /\ EngineOK(EngineAfterStop(j)) /\ HistoryAfterStop(j) \in Seq(Row)
           /\ LiveAfterStop(j) \in [Pid -> Job \cup {None}]
           /\ ExitedAfterStop(j) \in [Pid -> Exit \cup {None}]
           /\ Accounted(LiveAfterStop(j), EngineAfterStop(j), HistoryAfterStop(j))
           /\ jobs[j].policy = "Replace" => \A p \in Pid : LiveAfterStop(j)[p] # j
           /\ jobs[j].policy # "Replace" => /\ LiveAfterStop(j) = live /\ EngineAfterStop(j) = engine
                                           /\ HistoryAfterStop(j) = history
  <1>0. /\ SchedulerTypes /\ EngineOK(engine) /\ history \in Seq(Row) /\ Accounted(live, engine, history)
        /\ live \in [Pid -> Job \cup {None}] /\ exited \in [Pid -> Exit \cup {None}]
    BY DEF SchedulerCore, SchedulerTypes
  <1>1. CASE ~StopsLive(j)
    <2>1. /\ LiveAfterStop(j) = live /\ EngineAfterStop(j) = engine
          /\ HistoryAfterStop(j) = history /\ ExitedAfterStop(j) = exited
      BY <1>1 DEF LiveAfterStop, EngineAfterStop, HistoryAfterStop, ExitedAfterStop
    <2> QED BY <1>0, <1>1, <2>1 DEF StopsLive
  <1>2. CASE StopsLive(j)
    <2> DEFINE K == Children(j)
               L == LiveAfterStop(j)
               e == EngineAfterStop(j)
               h == HistoryAfterStop(j)
    <2>1. IsFiniteSet(K)
      BY KidsAreFinite DEF Children, KidsOf
    <2>2. e = FoldSet(LAMBDA p, x : Fail(x, j), engine, K)
      BY <1>2 DEF EngineAfterStop
    <2>3. h = FoldSet(LAMBDA p, rows : Rewritten(rows, j, "Failed"), history, K)
      BY <1>2 DEF HistoryAfterStop
    <2> HIDE DEF K, e, h
    <2>4. e \in StoppedEngines(j)
      BY <1>0, <2>1, <2>2, StoppedEngine
    <2>5. h \in StoppedRows(j)
      BY <1>0, <2>1, <2>3, StoppedHistory
    <2>6. EngineOK(e) /\ \A k \in Job : k # j => Count(e.runs, RunningOf(k)) = Count(engine.runs, RunningOf(k))
      BY <2>4 DEF StoppedEngines
    <2>7. h \in Seq(Row) /\ \A k \in Job : k # j => Count(h, RunningRows(k)) = Count(history, RunningRows(k))
      BY <2>5 DEF StoppedRows
    <2>8. L = [p \in Pid |-> IF live[p] = j THEN None ELSE live[p]]
      BY <1>2 DEF LiveAfterStop
    <2> HIDE DEF L
    <2>9. L \in [Pid -> Job \cup {None}] /\ \A p \in Pid : L[p] # j
      BY <1>0, <2>8, SchedulerAssumption
    <2>10. \A k \in Job : k # j => KidsOf(L, k) = KidsOf(live, k)
      BY <2>8, SchedulerAssumption DEF KidsOf
    <2>11. Accounted(L, e, h)
      <3> SUFFICES ASSUME NEW k \in Job
                   PROVE  /\ Cardinality(KidsOf(L, k)) <= Count(e.runs, RunningOf(k))
                          /\ Cardinality(KidsOf(L, k)) <= Count(h, RunningRows(k))
        BY DEF Accounted
      <3>1. CASE k = j
        <4>1. KidsOf(L, k) = {}
          BY <2>9, <3>1 DEF KidsOf
        <4>2. Cardinality(KidsOf(L, k)) = 0
          BY <4>1, FS_EmptySet
        <4>3. Count(e.runs, RunningOf(k)) \in Nat /\ Count(h, RunningRows(k)) \in Nat
          BY <2>6, <2>7, CountsAreNat, PositionsAreFinite DEF EngineOK
        <4> QED BY <4>2, <4>3
      <3>2. CASE k # j
        BY <1>0, <2>6, <2>7, <2>10, <3>2 DEF Accounted
      <3> QED BY <3>1, <3>2
    <2>12. ExitedAfterStop(j) \in [Pid -> Exit \cup {None}]
      BY <1>0, <1>2 DEF ExitedAfterStop, Exit
    <2> QED BY <1>2, <2>6, <2>7, <2>9, <2>11, <2>12 DEF StopsLive, L, e, h
  <1> QED BY <1>1, <1>2

\* One child more of a job is at most one more.
LEMMA OneChildMore ==
    ASSUME NEW kids, NEW p \in Pid, NEW j \in Job,
           NEW next, next[p] = j, \A x \in Pid : x # p => next[x] = kids[x]
    PROVE  /\ \A k \in Job : k # j =>
                 Cardinality(KidsOf(next, k)) <= Cardinality(KidsOf(kids, k))
           /\ Cardinality(KidsOf(next, j)) <= Cardinality(KidsOf(kids, j)) + 1
  <1>1. ASSUME NEW k \in Job, k # j
        PROVE  Cardinality(KidsOf(next, k)) <= Cardinality(KidsOf(kids, k))
    <2>1. KidsOf(next, k) \in SUBSET KidsOf(kids, k)
      BY <1>1 DEF KidsOf
    <2> QED BY <2>1, KidsAreFinite, FS_Subset
  <1>2. Cardinality(KidsOf(next, j)) <= Cardinality(KidsOf(kids, j)) + 1
    <2> DEFINE K == KidsOf(kids, j)
               N == KidsOf(next, j)
    <2>1. N = K \cup {p}
      BY DEF KidsOf
    <2>2. IsFiniteSet(K) /\ Cardinality(K) \in Nat
      BY KidsAreFinite
    <2> HIDE DEF K, N
    <2>3. Cardinality(K \cup {p}) = IF p \in K THEN Cardinality(K) ELSE Cardinality(K) + 1
      BY <2>2, FS_AddElement
    <2>4. Cardinality(N) <= Cardinality(K) + 1
      BY <2>1, <2>2, <2>3
    <2> QED BY <2>4 DEF K, N
  <1> QED BY <1>1, <1>2

\* A job fires, without a child: the run that starts only adds to the account.
LEMMA StartAccounts ==
    ASSUME SchedulerCore, NEW j \in Job, jobs[j] # None
    PROVE  /\ EngineOK(Started(EngineAfterStop(j), j))
           /\ Accounted(LiveAfterStop(j), Started(EngineAfterStop(j), j), HistoryAfterStop(j))
           /\ \A p \in Pid : \A next, rows :
                 /\ next[p] = j /\ \A x \in Pid : x # p => next[x] = LiveAfterStop(j)[x]
                 /\ rows = Append(HistoryAfterStop(j), [job |-> j, status |-> "Running", pid |-> p])
                 => Accounted(next, Started(EngineAfterStop(j), j), rows)
           /\ Count(Started(EngineAfterStop(j), j).runs, RunningOf(j)) >=
                 Cardinality(KidsOf(LiveAfterStop(j), j)) + 1
  <1> DEFINE L == LiveAfterStop(j)
             e == EngineAfterStop(j)
             h == HistoryAfterStop(j)
             u == Started(e, j)
             Kids(k) == Cardinality(KidsOf(L, k))
  <1>1. /\ EngineOK(e) /\ h \in Seq(Row) /\ L \in [Pid -> Job \cup {None}] /\ Accounted(L, e, h)
        /\ jobs[j].policy = "Replace" => \A p \in Pid : L[p] # j
    BY StopAccounts
  <1> HIDE DEF L, e, h
  <1>2. /\ EngineOK(u)
        /\ \A k \in Job : k # j => Count(u.runs, RunningOf(k)) = Count(e.runs, RunningOf(k))
        /\ Count(u.runs, RunningOf(j)) =
                 (IF jobs[j].policy = "Replace" THEN 0 ELSE Count(e.runs, RunningOf(j))) + 1
    BY <1>1, StartedEngine
  <1> HIDE DEF u
  <1>3. \A k \in Job : /\ Kids(k) \in Nat
                       /\ Count(e.runs, RunningOf(k)) \in Nat /\ Count(h, RunningRows(k)) \in Nat
                       /\ Kids(k) <= Count(e.runs, RunningOf(k)) /\ Kids(k) <= Count(h, RunningRows(k))
    <2> TAKE k \in Job
    <2>1. Kids(k) \in Nat
      BY KidsAreFinite
    <2>2. Count(e.runs, RunningOf(k)) \in Nat /\ Count(h, RunningRows(k)) \in Nat
      BY <1>1, CountsAreNat, PositionsAreFinite DEF EngineOK
    <2> QED BY <1>1, <2>1, <2>2 DEF Accounted
  <1>4. Count(u.runs, RunningOf(j)) >= Kids(j) + 1
    <2>1. CASE jobs[j].policy = "Replace"
      <3>1. KidsOf(L, j) = {}
        BY <1>1, <2>1 DEF KidsOf
      <3>2. Kids(j) = 0
        BY <3>1, FS_EmptySet
      <3>3. Count(u.runs, RunningOf(j)) = 1
        BY <1>2, <2>1
      <3> HIDE DEF Kids
      <3> QED BY <3>2, <3>3
    <2>2. CASE jobs[j].policy # "Replace"
      <3>1. Count(u.runs, RunningOf(j)) = Count(e.runs, RunningOf(j)) + 1
        BY <1>2, <2>2
      <3>2. /\ Kids(j) \in Nat /\ Count(e.runs, RunningOf(j)) \in Nat
            /\ Kids(j) <= Count(e.runs, RunningOf(j))
        BY <1>3
      <3> HIDE DEF Kids
      <3> QED BY <3>1, <3>2
    <2> QED BY <2>1, <2>2
  <1>5. \A k \in Job : Kids(k) <= Count(u.runs, RunningOf(k))
    <2> TAKE k \in Job
    <2>1. CASE k = j
      <3>1. /\ Kids(j) \in Nat /\ Count(u.runs, RunningOf(j)) \in Nat
            /\ Count(u.runs, RunningOf(j)) >= Kids(j) + 1
        BY <1>2, <1>3, <1>4, CountsAreNat DEF EngineOK
      <3>2. Kids(j) <= Count(u.runs, RunningOf(j))
        <4> HIDE DEF Kids
        <4> QED BY <3>1
      <3> QED BY <2>1, <3>2
    <2>2. CASE k # j
      BY <1>2, <1>3, <2>2
    <2> QED BY <2>1, <2>2
  <1>6. Accounted(L, u, h)
    BY <1>3, <1>5 DEF Accounted
  <1>7. ASSUME NEW p \in Pid, NEW next, NEW rows,
               next[p] = j, \A x \in Pid : x # p => next[x] = L[x],
               rows = Append(h, [job |-> j, status |-> "Running", pid |-> p])
        PROVE  Accounted(next, u, rows)
    <2> DEFINE r == [job |-> j, status |-> "Running", pid |-> p]
               More(k) == Cardinality(KidsOf(next, k))
    <2>1. r \in Row /\ r \in RunningRows(j) /\ \A k \in Job : k # j => r \notin RunningRows(k)
      BY DEF Row, Status, RunningRows
    <2>2. rows = Append(h, r)
      BY <1>7
    <2> HIDE DEF r
    <2>3. \A P : Count(rows, P) = IF r \in P THEN Count(h, P) + 1 ELSE Count(h, P)
      <3> TAKE P
      <3>1. h \in Seq(Row) /\ r \in Row
        BY <1>1, <2>1
      <3>2. Count(Append(h, r), P) = IF r \in P THEN Count(h, P) + 1 ELSE Count(h, P)
        BY ONLY <3>1, CountAppend
      <3> QED BY <2>2, <3>2
    <2>4. (\A k \in Job : k # j => More(k) <= Kids(k)) /\ More(j) <= Kids(j) + 1
      <3>1. j \in Job /\ p \in Pid
        BY <1>7
      <3>2. next[p] = j /\ \A x \in Pid : x # p => next[x] = L[x]
        BY <1>7
      <3> QED BY ONLY <3>1, <3>2, OneChildMore
    <2>5. \A k \in Job : More(k) \in Nat
      BY KidsAreFinite
    <2> SUFFICES ASSUME NEW k \in Job
                 PROVE  More(k) <= Count(u.runs, RunningOf(k)) /\ More(k) <= Count(rows, RunningRows(k))
      BY DEF Accounted
    <2>6. /\ Kids(k) \in Nat /\ More(k) \in Nat /\ Count(h, RunningRows(k)) \in Nat
          /\ Count(u.runs, RunningOf(k)) \in Nat
          /\ Kids(k) <= Count(h, RunningRows(k)) /\ Kids(k) <= Count(u.runs, RunningOf(k))
      BY <1>2, <1>3, <1>5, <2>5, CountsAreNat DEF EngineOK
    <2>7. CASE k = j
      <3>1. Count(rows, RunningRows(k)) = Count(h, RunningRows(k)) + 1
        BY <2>1, <2>3, <2>7
      <3>2. Count(u.runs, RunningOf(k)) >= Kids(k) + 1 /\ More(k) <= Kids(k) + 1
        BY <1>4, <2>4, <2>7
      <3> HIDE DEF Kids, More
      <3> QED BY <2>6, <3>1, <3>2
    <2>8. CASE k # j
      <3>1. Count(rows, RunningRows(k)) = Count(h, RunningRows(k))
        BY <2>1, <2>3, <2>8
      <3>2. More(k) <= Kids(k)
        BY <2>4, <2>8
      <3> HIDE DEF Kids, More
      <3> QED BY <2>6, <3>1, <3>2
    <2> QED BY <2>7, <2>8
  <1> QED BY <1>2, <1>4, <1>6, <1>7 DEF L, e, h, u

-----------------------------------------------------------------------------
(* The steps of the scheduler. *)

\* The account survives what leaves every job's children where they were.
LEMMA AccountOfFewer ==
    ASSUME NEW kids, NEW next, NEW e, NEW rows, Accounted(kids, e, rows), EngineOK(e), rows \in Seq(Row),
           \A j \in Job : KidsOf(next, j) \subseteq KidsOf(kids, j)
    PROVE  Accounted(next, e, rows)
  <1> SUFFICES ASSUME NEW j \in Job
               PROVE  /\ Cardinality(KidsOf(next, j)) <= Count(e.runs, RunningOf(j))
                      /\ Cardinality(KidsOf(next, j)) <= Count(rows, RunningRows(j))
    BY DEF Accounted
  <1>1. KidsOf(next, j) \in SUBSET KidsOf(kids, j)
    OBVIOUS
  <1>2. Cardinality(KidsOf(next, j)) <= Cardinality(KidsOf(kids, j))
    BY <1>1, KidsAreFinite, FS_Subset
  <1>3. Cardinality(KidsOf(next, j)) \in Nat /\ Cardinality(KidsOf(kids, j)) \in Nat
    BY KidsAreFinite
  <1>4. Count(e.runs, RunningOf(j)) \in Nat /\ Count(rows, RunningRows(j)) \in Nat
    BY CountsAreNat, PositionsAreFinite DEF EngineOK
  <1>5. /\ Cardinality(KidsOf(kids, j)) <= Count(e.runs, RunningOf(j))
        /\ Cardinality(KidsOf(kids, j)) <= Count(rows, RunningRows(j))
    BY DEF Accounted
  <1> QED BY <1>2, <1>3, <1>4, <1>5

\* Only the engine's failure count of a job starts over.
LEMMA BackoffReset ==
    ASSUME NEW e, EngineOK(e), NEW j \in Job
    PROVE  /\ EngineOK([e EXCEPT !.backoff[j] = 0])
           /\ [e EXCEPT !.backoff[j] = 0].runs = e.runs
  <1> DEFINE u == [e EXCEPT !.backoff[j] = 0]
  <1>1. u \in EngineType /\ u.runs = e.runs /\ u.backoff = [e.backoff EXCEPT ![j] = 0]
    BY DEF EngineOK, EngineType
  <1>2. \A k \in Job : u.backoff[k] <= MaxBackoff
    BY <1>1, SchedulerAssumption DEF EngineOK, EngineType
  <1> HIDE DEF u
  <1>3. EngineOK(u)
    BY <1>1, <1>2 DEF EngineOK
  <1> QED BY <1>1, <1>3 DEF u

LEMMA SchedulerParts ==
    ASSUME SchedulerCore
    PROVE  /\ SchedulerTypes /\ EngineOK(engine) /\ history \in Seq(Row)
           /\ Accounted(live, engine, history)
  BY DEF SchedulerCore

\* Registering and deregistering: the children keep their runs.
LEMMA RegistrationKeeps ==
    ASSUME SchedulerCore, NEW j \in Job,
           (\E d \in Definition : Register(j, d)) \/ Deregister(j)
    PROVE  SchedulerCore'
  <1>1. engine' = [engine EXCEPT !.backoff[j] = 0] /\ UNCHANGED <<live, exited, history, nextPid>>
    BY DEF Register, Deregister
  <1>2. EngineOK(engine') /\ engine'.runs = engine.runs
    BY <1>1, SchedulerParts, BackoffReset
  <1>3. SchedulerTypes'
    BY SchedulerParts DEF SchedulerTypes, Register, Deregister
  <1>4. Accounted(live, engine', history)
    BY <1>2, SchedulerParts DEF Accounted
  <1> QED BY <1>1, <1>2, <1>3, <1>4, SchedulerParts DEF SchedulerCore

LEMMA FireUnplaceableKeeps ==
    ASSUME SchedulerCore, NEW j \in Job, FireUnplaceable(j)
    PROVE  SchedulerCore'
  <1>1. jobs[j] # None
    BY DEF FireUnplaceable, Due
  <1>2. /\ EngineOK(EngineAfterStop(j)) /\ HistoryAfterStop(j) \in Seq(Row)
        /\ LiveAfterStop(j) \in [Pid -> Job \cup {None}]
        /\ ExitedAfterStop(j) \in [Pid -> Exit \cup {None}]
        /\ Accounted(LiveAfterStop(j), EngineAfterStop(j), HistoryAfterStop(j))
    BY <1>1, StopAccounts
  <1>3. /\ engine' = EngineAfterStop(j) /\ history' = HistoryAfterStop(j)
        /\ live' = LiveAfterStop(j) /\ exited' = ExitedAfterStop(j)
        /\ UNCHANGED <<jobs, since, nextPid>>
    BY DEF FireUnplaceable
  <1>4. SchedulerTypes'
    BY <1>2, <1>3, SchedulerParts DEF SchedulerTypes
  <1> QED BY <1>2, <1>3, <1>4 DEF SchedulerCore

LEMMA FireWorkloadKeeps ==
    ASSUME SchedulerCore, NEW j \in Job, FireWorkload(j)
    PROVE  SchedulerCore'
  <1> DEFINE L == LiveAfterStop(j)
             h == HistoryAfterStop(j)
             u == Started(EngineAfterStop(j), j)
             r == [job |-> j, status |-> "Running", pid |-> nextPid]
  <1>1. jobs[j] # None /\ nextPid \in Pid
    BY DEF FireWorkload, Admits, Due
  <1>2. /\ h \in Seq(Row) /\ L \in [Pid -> Job \cup {None}]
        /\ ExitedAfterStop(j) \in [Pid -> Exit \cup {None}]
    BY <1>1, StopAccounts
  <1>3. /\ EngineOK(u)
        /\ \A p \in Pid : \A next, rows :
              /\ next[p] = j /\ \A x \in Pid : x # p => next[x] = L[x]
              /\ rows = Append(h, [job |-> j, status |-> "Running", pid |-> p])
              => Accounted(next, u, rows)
    BY <1>1, StartAccounts
  <1>4. /\ engine' = u /\ live' = [L EXCEPT ![nextPid] = j] /\ history' = Append(h, r)
        /\ exited' = ExitedAfterStop(j) /\ nextPid' = nextPid + 1 /\ jobs' = jobs
        /\ since' = [since EXCEPT ![j] = 0]
    BY DEF FireWorkload
  <1> HIDE DEF L, h, u
  <1>5. live'[nextPid] = j /\ \A x \in Pid : x # nextPid => live'[x] = L[x]
    BY <1>1, <1>2, <1>4
  <1>6. Accounted(live', engine', history')
    BY <1>1, <1>3, <1>4, <1>5
  <1>7. live' \in [Pid -> Job \cup {None}]
    BY <1>1, <1>2, <1>4
  <1>8. nextPid' \in 1..MaxPids + 1
    BY <1>1, <1>4, SchedulerAssumption DEF Pid
  <1>9. since' \in [Job -> 0..Period \cup {None}]
    BY <1>4, SchedulerParts, SchedulerAssumption DEF SchedulerTypes
  <1>10. SchedulerTypes'
    BY <1>2, <1>4, <1>7, <1>8, <1>9, SchedulerParts DEF SchedulerTypes
  <1>11. r \in Row
    BY <1>1 DEF Row, Status
  <1> HIDE DEF r
  <1>12. history' \in Seq(Row)
    BY <1>2, <1>4, <1>11
  <1> QED BY <1>3, <1>4, <1>6, <1>10, <1>12 DEF SchedulerCore

LEMMA FireSpawnFailsKeeps ==
    ASSUME SchedulerCore, NEW j \in Job, FireSpawnFails(j)
    PROVE  SchedulerCore'
  <1>1. jobs[j] # None
    BY DEF FireSpawnFails, Admits, Due
  <1>2. /\ HistoryAfterStop(j) \in Seq(Row) /\ LiveAfterStop(j) \in [Pid -> Job \cup {None}]
        /\ ExitedAfterStop(j) \in [Pid -> Exit \cup {None}]
    BY <1>1, StopAccounts
  <1>3. /\ EngineOK(Started(EngineAfterStop(j), j))
        /\ Accounted(LiveAfterStop(j), Started(EngineAfterStop(j), j), HistoryAfterStop(j))
    BY <1>1, StartAccounts
  <1>4. /\ engine' = Started(EngineAfterStop(j), j) /\ history' = HistoryAfterStop(j)
        /\ live' = LiveAfterStop(j) /\ exited' = ExitedAfterStop(j)
        /\ since' = [since EXCEPT ![j] = 0] /\ UNCHANGED <<jobs, nextPid>>
    BY DEF FireSpawnFails
  <1>5. since' \in [Job -> 0..Period \cup {None}]
    BY <1>4, SchedulerParts, SchedulerAssumption DEF SchedulerTypes
  <1>6. SchedulerTypes'
    BY <1>2, <1>4, <1>5, SchedulerParts DEF SchedulerTypes
  <1> QED BY <1>2, <1>3, <1>4, <1>6 DEF SchedulerCore

LEMMA FireObservabilityKeeps ==
    ASSUME SchedulerCore, NEW j \in Job, FireObservability(j)
    PROVE  SchedulerCore'
  <1> DEFINE L == LiveAfterStop(j)
             h == HistoryAfterStop(j)
             u == Started(EngineAfterStop(j), j)
             v == Succeed(u, j)
             r == [job |-> j, status |-> "Succeeded", pid |-> None]
             rows == Append(h, r)
             Kids(k) == Cardinality(KidsOf(L, k))
             C(k) == Count(u.runs, RunningOf(k))
             D(k) == Count(v.runs, RunningOf(k))
  <1>1. jobs[j] # None
    BY DEF FireObservability, Admits, Due
  <1>2. /\ h \in Seq(Row) /\ L \in [Pid -> Job \cup {None}]
        /\ ExitedAfterStop(j) \in [Pid -> Exit \cup {None}]
    BY <1>1, StopAccounts
  <1>3. EngineOK(u) /\ Accounted(L, u, h) /\ C(j) >= Kids(j) + 1
    BY <1>1, StartAccounts
  <1>4. /\ engine' = v /\ history' = rows
        /\ live' = L /\ exited' = ExitedAfterStop(j)
        /\ since' = [since EXCEPT ![j] = 0] /\ UNCHANGED <<jobs, nextPid>>
    BY DEF FireObservability
  <1> HIDE DEF L, h, u
  <1>5. Reported(u, v, j)
    BY <1>3, SucceedEngine
  <1> HIDE DEF v
  <1>6. EngineOK(v) /\ (\A k \in Job : k # j => D(k) = C(k)) /\ D(j) >= C(j) - 1
    BY <1>5 DEF Reported
  <1>7. r \in Row /\ \A k \in Job : r \notin RunningRows(k)
    BY DEF Row, Status, RunningRows
  <1> HIDE DEF r
  <1>8. \A k \in Job : Count(rows, RunningRows(k)) = Count(h, RunningRows(k))
    BY <1>2, <1>7, CountAppend
  <1>9. rows \in Seq(Row)
    BY <1>2, <1>7
  <1> HIDE DEF rows
  <1>10. \A k \in Job : Kids(k) \in Nat /\ C(k) \in Nat /\ D(k) \in Nat
    BY <1>3, <1>6, KidsAreFinite, CountsAreNat DEF EngineOK
  <1>11. \A k \in Job : Kids(k) <= C(k) /\ Kids(k) <= Count(h, RunningRows(k))
    BY <1>3 DEF Accounted
  <1>12. \A k \in Job : Kids(k) <= D(k)
    <2> HIDE DEF Kids, C, D
    <2>1. Kids(j) <= D(j)
      BY <1>3, <1>6, <1>10
    <2> QED BY <1>6, <1>11, <2>1
  <1>13. Accounted(L, v, rows)
    BY <1>8, <1>11, <1>12 DEF Accounted
  <1>14. since' \in [Job -> 0..Period \cup {None}]
    BY <1>4, SchedulerParts, SchedulerAssumption DEF SchedulerTypes
  <1>15. SchedulerTypes'
    BY <1>2, <1>4, <1>14, SchedulerParts DEF SchedulerTypes
  <1> QED BY <1>4, <1>6, <1>9, <1>13, <1>15 DEF SchedulerCore

\* A reap takes one run, one row and the child they stand for.
LEMMA ReapKeeps ==
    ASSUME SchedulerCore, NEW p \in Pid, Reap(p)
    PROVE  SchedulerCore'
  <1> DEFINE j == live[p]
             v == IF exited[p] = "Succeeded" THEN Succeed(engine, j) ELSE Fail(engine, j)
             rows == Rewritten(history, j, exited[p])
             Kids(k) == Cardinality(KidsOf(live, k))
             Left(k) == Cardinality(KidsOf(live', k))
             C(k) == Count(engine.runs, RunningOf(k))
             D(k) == Count(v.runs, RunningOf(k))
             G(k) == Count(history, RunningRows(k))
             H(k) == Count(rows, RunningRows(k))
  <1>0. /\ SchedulerTypes /\ EngineOK(engine) /\ history \in Seq(Row)
        /\ Accounted(live, engine, history)
        /\ live \in [Pid -> Job \cup {None}] /\ exited \in [Pid -> Exit \cup {None}]
    BY SchedulerParts DEF SchedulerTypes
  <1>1. j \in Job /\ exited[p] \in Exit /\ j # None
    BY <1>0 DEF Reap
  <1>2. /\ engine' = v /\ history' = rows /\ live' = [live EXCEPT ![p] = None]
        /\ UNCHANGED <<jobs, since, exited, nextPid>>
    BY DEF Reap
  <1>3. Reported(engine, v, j)
    BY <1>0, <1>1, SucceedEngine, FailEngine
  <1>4. /\ rows \in Seq(Row)
        /\ (\A k \in Job : k # j => H(k) = G(k)) /\ H(j) >= G(j) - 1
    BY <1>0, <1>1, RewrittenRows
  <1>5. KidsOf(live', j) = KidsOf(live, j) \ {p} /\ p \in KidsOf(live, j)
    BY <1>0, <1>1, <1>2 DEF KidsOf
  <1>6. \A k \in Job : k # j => KidsOf(live', k) = KidsOf(live, k)
    BY <1>0, <1>1, <1>2, SchedulerAssumption DEF KidsOf
  <1> HIDE DEF j, v, rows
  <1>7. EngineOK(v) /\ (\A k \in Job : k # j => D(k) = C(k)) /\ D(j) >= C(j) - 1
    BY <1>3 DEF Reported
  <1>8. Left(j) = Kids(j) - 1
    BY <1>5, KidsAreFinite, FS_RemoveElement
  <1>9. /\ \A k \in Job : Kids(k) \in Nat /\ C(k) \in Nat /\ D(k) \in Nat /\ G(k) \in Nat /\ H(k) \in Nat
        /\ \A k \in Job : Kids(k) <= C(k) /\ Kids(k) <= G(k)
    <2>1. \A k \in Job : Kids(k) \in Nat
      BY KidsAreFinite
    <2>2. \A k \in Job : C(k) \in Nat /\ D(k) \in Nat
      BY <1>0, <1>7, CountsAreNat DEF EngineOK
    <2>3. \A k \in Job : G(k) \in Nat /\ H(k) \in Nat
      BY <1>0, <1>4, PositionsAreFinite
    <2>4. \A k \in Job : Kids(k) <= C(k) /\ Kids(k) <= G(k)
      BY <1>0 DEF Accounted
    <2> QED BY <2>1, <2>2, <2>3, <2>4
  <1>10. \A k \in Job : k # j => Left(k) = Kids(k)
    BY <1>6
  <1>11. \A k \in Job : Left(k) <= D(k) /\ Left(k) <= H(k)
    <2> HIDE DEF Kids, Left, C, D, G, H
    <2>1. Left(j) <= D(j) /\ Left(j) <= H(j)
      BY <1>1, <1>4, <1>7, <1>8, <1>9
    <2>2. \A k \in Job : k # j => Left(k) <= D(k) /\ Left(k) <= H(k)
      BY <1>4, <1>7, <1>9, <1>10
    <2> QED BY <2>1, <2>2
  <1>12. Accounted(live', v, rows)
    BY <1>11 DEF Accounted
  <1>13. SchedulerTypes'
    BY <1>0, <1>2 DEF SchedulerTypes
  <1> QED BY <1>2, <1>4, <1>7, <1>12, <1>13 DEF SchedulerCore

\* The steps that leave the engine and the history alone.
LEMMA QuietStepKeeps ==
    ASSUME SchedulerCore,
           \/ \E j \in Job : FireSkipped(j)
           \/ \E p \in Pid : \E how \in Exit : ChildExits(p, how)
           \/ ReapAborts
           \/ ClockTick
           \/ UNCHANGED vars
    PROVE  SchedulerCore'
  <1>0. /\ SchedulerTypes /\ EngineOK(engine) /\ history \in Seq(Row)
        /\ Accounted(live, engine, history)
    BY SchedulerParts
  <1>1. UNCHANGED <<engine, history, nextPid, jobs>>
    BY DEF FireSkipped, ChildExits, ReapAborts, ClockTick, vars
  <1>2. live' = live \/ live' = [p \in Pid |-> None]
    BY DEF FireSkipped, ChildExits, ReapAborts, ClockTick, vars
  <1>3. \A j \in Job : KidsOf(live', j) \subseteq KidsOf(live, j)
    BY <1>2, SchedulerAssumption DEF KidsOf
  <1>4. Accounted(live', engine, history)
    BY <1>0, <1>3, AccountOfFewer
  <1>5. live' \in [Pid -> Job \cup {None}]
    BY <1>0, <1>2 DEF SchedulerTypes
  <1>6. since' \in [Job -> 0..Period \cup {None}]
    <2>0. since \in [Job -> 0..Period \cup {None}] /\ Period \in Nat
      BY <1>0, SchedulerAssumption DEF SchedulerTypes
    <2>1. CASE \E j \in Job : FireSkipped(j)
      BY <2>0, <2>1 DEF FireSkipped
    <2>2. CASE ClockTick
      <3>1. since' = [j \in Job |-> IF since[j] # None /\ since[j] < Period THEN since[j] + 1 ELSE since[j]]
        BY <2>2 DEF ClockTick
      <3>2. \A j \in Job : since[j] # None /\ since[j] < Period => since[j] + 1 \in 0..Period
        BY <2>0
      <3> QED BY <2>0, <3>1, <3>2
    <2>3. CASE since' = since
      BY <2>0, <2>3
    <2> QED BY <2>1, <2>2, <2>3 DEF FireSkipped, ChildExits, ReapAborts, ClockTick, vars
  <1>7. exited' \in [Pid -> Exit \cup {None}]
    <2>0. exited \in [Pid -> Exit \cup {None}]
      BY <1>0 DEF SchedulerTypes
    <2>1. CASE \E p \in Pid : \E how \in Exit : ChildExits(p, how)
      BY <2>0, <2>1 DEF ChildExits
    <2>2. CASE ReapAborts
      BY <2>0, <2>2 DEF ReapAborts, Exit
    <2>3. CASE exited' = exited
      BY <2>0, <2>3
    <2> QED BY <2>1, <2>2, <2>3 DEF FireSkipped, ChildExits, ReapAborts, ClockTick, vars
  <1>8. SchedulerTypes'
    BY <1>0, <1>1, <1>5, <1>6, <1>7 DEF SchedulerTypes
  <1> QED BY <1>0, <1>1, <1>4, <1>8 DEF SchedulerCore

LEMMA SchedulerCoreStep ==
    ASSUME SchedulerCore, [Next]_vars
    PROVE  SchedulerCore'
  <1>1. ASSUME NEW j \in Job, (\E d \in Definition : Register(j, d)) \/ Deregister(j)
        PROVE  SchedulerCore'
    BY <1>1, RegistrationKeeps
  <1>2. ASSUME NEW j \in Job, FireUnplaceable(j) PROVE SchedulerCore'
    BY <1>2, FireUnplaceableKeeps
  <1>3. ASSUME NEW j \in Job, FireWorkload(j) PROVE SchedulerCore'
    BY <1>3, FireWorkloadKeeps
  <1>4. ASSUME NEW j \in Job, FireSpawnFails(j) PROVE SchedulerCore'
    BY <1>4, FireSpawnFailsKeeps
  <1>5. ASSUME NEW j \in Job, FireObservability(j) PROVE SchedulerCore'
    BY <1>5, FireObservabilityKeeps
  <1>6. ASSUME NEW p \in Pid, Reap(p) PROVE SchedulerCore'
    BY <1>6, ReapKeeps
  <1> QED BY <1>1, <1>2, <1>3, <1>4, <1>5, <1>6, QuietStepKeeps DEF Next

-----------------------------------------------------------------------------
(* One child at a time under Forbid and Replace. *)

\* What NoSecondChild says of a step.
SingleChildStep ==
    \A j \in Job, p \in Pid :
        live[p] # j /\ live'[p] = j /\ jobs[j].policy # "Allow"
            => \A q \in Pid \ {p} : live'[q] # j

\* Where a job admits a new run under Forbid or Replace, none of its children
\* is left.
LEMMA NoChildLeft ==
    ASSUME SchedulerCore, NEW j \in Job, Admits(j), jobs[j].policy # "Allow"
    PROVE  \A p \in Pid : LiveAfterStop(j)[p] # j
  <1>0. jobs[j] # None /\ jobs[j].placeable
    BY DEF Admits, Due
  <1>1. CASE jobs[j].policy = "Replace"
    BY <1>0, <1>1, StopAccounts
  <1>2. CASE jobs[j].policy # "Replace"
    <2>1. LiveAfterStop(j) = live
      BY <1>0, <1>2, StopAccounts
    <2>2. jobs[j] \in Definition
      BY <1>0, SchedulerParts DEF SchedulerTypes
    <2>3. jobs[j].policy = "Forbid"
      BY <1>2, <2>2 DEF Definition, Policy
    <2>4. Positions(engine.runs, RunningOf(j)) = {}
      BY <2>3, CountsOfState DEF Admits
    <2>5. Count(engine.runs, RunningOf(j)) = 0
      BY <2>4, FS_EmptySet DEF Count
    <2>6. Cardinality(KidsOf(live, j)) <= Count(engine.runs, RunningOf(j))
      BY SchedulerParts DEF Accounted
    <2>7. IsFiniteSet(KidsOf(live, j)) /\ Cardinality(KidsOf(live, j)) \in Nat
      BY KidsAreFinite
    <2>8. Cardinality(KidsOf(live, j)) = 0
      BY <2>5, <2>6, <2>7
    <2>9. KidsOf(live, j) = {}
      BY <2>7, <2>8, FS_EmptySet
    <2> QED BY <2>1, <2>9 DEF KidsOf
  <1> QED BY <1>1, <1>2

LEMMA SingleChild ==
    ASSUME SchedulerCore, [Next]_vars
    PROVE  SingleChildStep
  <1> SUFFICES ASSUME NEW j \in Job, NEW p \in Pid, live[p] # j, live'[p] = j, jobs[j].policy # "Allow"
               PROVE  \A q \in Pid \ {p} : live'[q] # j
    BY DEF SingleChildStep
  <1>0. live \in [Pid -> Job \cup {None}] /\ j # None
    BY SchedulerParts, SchedulerAssumption DEF SchedulerTypes
  <1>1. \A k \in Job : jobs[k] # None => LiveAfterStop(k) \in [Pid -> Job \cup {None}]
    BY StopAccounts
  <1>2. \A k \in Job : jobs[k] # None => \A q \in Pid : LiveAfterStop(k)[q] = live[q] \/ LiveAfterStop(k)[q] = None
    BY <1>0 DEF LiveAfterStop
  <1>3. ASSUME \A q \in Pid : live'[q] = live[q] \/ live'[q] = None
        PROVE  FALSE
    BY <1>0, <1>3
  <1>4. ASSUME NEW k \in Job, FireWorkload(k)
        PROVE  \A q \in Pid \ {p} : live'[q] # j
    <2>1. /\ jobs[k] # None /\ nextPid \in Pid /\ live' = [LiveAfterStop(k) EXCEPT ![nextPid] = k]
          /\ Admits(k)
      BY <1>4 DEF FireWorkload, Admits, Due
    <2> DEFINE L == LiveAfterStop(k)
    <2>2. /\ L \in [Pid -> Job \cup {None}]
          /\ \A q \in Pid : L[q] = live[q] \/ L[q] = None
      BY <1>1, <1>2, <2>1
    <2> HIDE DEF L
    <2>3. live'[nextPid] = k /\ \A q \in Pid : q # nextPid => live'[q] = L[q]
      BY <2>1, <2>2 DEF L
    <2>4. p = nextPid /\ k = j
      BY <1>0, <2>2, <2>3
    <2>5. \A q \in Pid : L[q] # j
      BY <2>1, <2>4, NoChildLeft DEF L
    <2> QED BY <2>3, <2>4, <2>5
  <1>5. ASSUME NEW k \in Job, FireUnplaceable(k) \/ FireSpawnFails(k) \/ FireObservability(k)
        PROVE  \A q \in Pid : live'[q] = live[q] \/ live'[q] = None
    <2>1. jobs[k] # None /\ live' = LiveAfterStop(k)
      BY <1>5 DEF FireUnplaceable, FireSpawnFails, FireObservability, Admits, Due
    <2> QED BY <1>2, <2>1
  <1>6. ASSUME NEW q \in Pid, Reap(q)
        PROVE  \A x \in Pid : live'[x] = live[x] \/ live'[x] = None
    BY <1>0, <1>6 DEF Reap
  <1>7. ASSUME ReapAborts
        PROVE  \A x \in Pid : live'[x] = live[x] \/ live'[x] = None
    BY <1>7 DEF ReapAborts
  <1>8. ASSUME live' = live
        PROVE  \A x \in Pid : live'[x] = live[x] \/ live'[x] = None
    BY <1>8
  <1>9. CASE Next
    <2>1. CASE \E k \in Job : FireWorkload(k)
      BY <1>4, <2>1
    <2>2. CASE \E k \in Job : FireUnplaceable(k) \/ FireSpawnFails(k) \/ FireObservability(k)
      BY <1>3, <1>5, <2>2
    <2>3. CASE \E q \in Pid : Reap(q)
      BY <1>3, <1>6, <2>3
    <2>4. CASE ReapAborts
      BY <1>3, <1>7, <2>4
    <2>5. CASE live' = live
      BY <1>3, <1>8, <2>5
    <2> QED BY <1>9, <2>1, <2>2, <2>3, <2>4, <2>5 DEF Next, Register, Deregister, FireSkipped, ChildExits, ClockTick
  <1> QED BY <1>3, <1>8, <1>9 DEF vars

(***************************************************************************)
(* The node as a whole.                                                    *)
(***************************************************************************)

\* The jobs, the ledger and the pools change in their own steps only.
LEMMA JobSteps ==
    ASSUME [MCNext]_mcVars
    PROVE  [Next]_vars
  BY DEF MCNext, LocalNext, mcVars, localVars, InMigration

LEMMA LedgerSteps ==
    ASSUME [MCNext]_mcVars
    PROVE  Q!Next \/ UNCHANGED <<ledger, ids, wired>>
  BY DEF MCNext, mcVars, sharedVars, ledgerVars, InMigration, LedgerStops

LEMMA PoolSteps ==
    ASSUME [MCNext]_mcVars
    PROVE  I!Next \/ UNCHANGED <<pool, slots, records, binds, stranded>>
  BY DEF MCNext, mcVars, sharedVars, poolVars, InMigration

LEMMA QuotaCoreAlways ==
    ASSUME Q!QuotaAssumption, Slots \subseteq Nat
    PROVE  MCSpec => []QuotaCore
  <1>1. MCInit => QuotaCore
    BY QuotaCoreInit DEF MCInit
  <1>2. QuotaCore /\ [MCNext]_mcVars => QuotaCore'
    <2> SUFFICES ASSUME QuotaCore, [MCNext]_mcVars PROVE QuotaCore'
      OBVIOUS
    <2>1. CASE Q!Next
      BY <2>1, QuotaCoreStep
    <2>2. CASE UNCHANGED <<ledger, ids, wired>>
      BY <2>2 DEF QuotaCore
    <2> QED BY <2>1, <2>2, LedgerSteps
  <1> QED BY <1>1, <1>2, PTL DEF MCSpec

LEMMA AddressCoreAlways ==
    ASSUME I!IpamAssumption
    PROVE  MCSpec => []AddressCore
  <1>1. MCInit => AddressCore
    BY AddressCoreInit DEF MCInit
  <1>2. AddressCore /\ [MCNext]_mcVars => AddressCore'
    <2> SUFFICES ASSUME AddressCore, [MCNext]_mcVars PROVE AddressCore'
      OBVIOUS
    <2>1. CASE I!Next
      BY <2>1, AddressCoreStep
    <2>2. CASE UNCHANGED <<pool, slots, records, binds, stranded>>
      BY <2>2 DEF AddressCore, I!AddressInv, I!TypeOK, I!RecordedOnce, I!AllocatedIsHeld,
          I!InScope, I!Slot
    <2> QED BY <2>1, <2>2, PoolSteps
  <1> QED BY <1>1, <1>2, PTL DEF MCSpec

\* Admission, for any ledgers, amounts, budget, voters, sites, pools (also ones
\* that reach beyond the family) and purposes, and however often pools are
\* replaced.
THEOREM AdmissionHolds ==
    ASSUME Q!QuotaAssumption, Slots \subseteq Nat, I!IpamAssumption
    PROVE  MCSpec => []AdmissionInv
  <1>1. QuotaCore /\ AddressCore => AdmissionInv
    BY QuotaCoreSuffices, SlotsAreAddresses DEF AdmissionInv, AddressCore
  <1> QED BY <1>1, QuotaCoreAlways, AddressCoreAlways, PTL

\* An admission through the hook never wedges it: whatever the ledger's voters
\* answered and whoever reserved in between, the pending slot of a wired ledger
\* that every voter could still grant is, one step later, again one they can.
THEOREM HookNeverWedges ==
    ASSUME Q!QuotaAssumption, Slots \subseteq Nat
    PROVE  MCSpec => HookSlotStaysFresh
  <1>1. QuotaCore /\ [MCNext]_mcVars =>
          [\A n \in wired : Q!GrantsAllVoters(ledger[n]) => Q!GrantsAllVoters(ledger'[n])]_(Q!vars)
    <2> SUFFICES ASSUME QuotaCore, [MCNext]_mcVars
                 PROVE  [\A n \in wired : Q!GrantsAllVoters(ledger[n]) => Q!GrantsAllVoters(ledger'[n])]_(Q!vars)
      OBVIOUS
    <2>1. CASE Q!Next
      BY <2>1, FreshStep
    <2>2. CASE UNCHANGED <<ledger, ids, wired>>
      BY <2>2 DEF Q!vars
    <2> QED BY <2>1, <2>2, LedgerSteps
  <1> QED BY <1>1, QuotaCoreAlways, PTL DEF MCSpec, HookSlotStaysFresh, Q!HookSlotStaysFresh

LEMMA SchedulerCoreAlways == MCSpec => []SchedulerCore
  <1>1. MCInit => SchedulerCore
    BY SchedulerCoreInit DEF MCInit
  <1>2. SchedulerCore /\ [MCNext]_mcVars => SchedulerCore'
    BY JobSteps, SchedulerCoreStep
  <1> QED BY <1>1, <1>2, PTL DEF MCSpec

\* The scheduler, for any jobs, caps, budgets and periods: every child
\* process has a run the engine counts as running and a row of run_history
\* that says so, through replacement, re-registration, failing spawns and
\* exits reaped in any order, and what prune_terminals and fail keep stays
\* within the caps.
THEOREM SchedulerHolds == MCSpec => []SchedulerInv
  <1>1. SchedulerCore => SchedulerInv
    BY SchedulerCoreSuffices
  <1> QED BY <1>1, SchedulerCoreAlways, PTL

\* A tick puts no second process of a Forbid or Replace job next to one that
\* is supervised: where has_running finds none, or stop_live has killed them,
\* none is left.
THEOREM NoSecondChildHolds == MCSpec => NoSecondChild
  <1>1. SchedulerCore /\ [MCNext]_mcVars => [SingleChildStep]_vars
    BY JobSteps, SingleChild
  <1> QED BY <1>1, SchedulerCoreAlways, PTL DEF MCSpec, NoSecondChild, SingleChildStep

(***************************************************************************)
(* The declared workloads.                                                 *)
(***************************************************************************)

\* What the portal records, and what reaches the resource plane directly.
PortalOps ==
    [act : {"apply"}, kind : {"Workload"}, name : Name, image : Image \cup {Plain}, replicas : W!Count]
    \cup [act : {"edit"}, kind : {"Workload"}, name : Name, image : Image \cup {Plain}]
    \cup [act : {"scale"}, kind : {"Workload"}, name : Name, replicas : W!Count]
    \cup [act : {"rollout"}, kind : {"Workload"}, name : Name]
    \cup [act : {"schedule"}, kind : W!JobKind, name : Name, command : Command]
    \cup [act : {"delete"}, kind : W!JobKind, name : Name]

PlaneOps == PortalOps \cup [act : {"delete"}, kind : W!Kind, name : Name]

Declared(g) == [image : Image \cup {Plain}, replicas : W!Count, generation : 0..g, deleted : BOOLEAN]

\* Manifests none of which was rolled out more than g times.
IsManifest(m, g) ==
    /\ m \in [W!Kind -> [Name -> Declared(g) \cup W!Scheduled \cup {None}]]
    /\ m["Workload"] \in [Name -> Declared(g) \cup {None}]
    /\ \A k \in W!JobKind : m[k] \in [Name -> W!Scheduled \cup {None}]

\* What an operation that is carried out leaves of its resource.
LEMMA BodyTyped ==
    ASSUME W!WorkloadAssumption, NEW g \in Nat, NEW m, IsManifest(m, g), NEW op \in PlaneOps,
           W!Upserts(op) \/ W!Exists(m, op)
    PROVE  /\ op.name \in Name /\ op.kind \in W!Kind
           /\ op.kind = "Workload" => W!BodyAfter(m, op) \in Declared(g + 1)
           /\ op.kind = "Workload" /\ op.act # "rollout" => W!BodyAfter(m, op) \in Declared(g)
           /\ op.kind # "Workload" => op.kind \in W!JobKind /\ W!BodyAfter(m, op) \in W!Scheduled
  <1> DEFINE b == W!BodyAfter(m, op)
             old == m[op.kind][op.name]
  <1>1. op.name \in Name /\ op.kind \in W!Kind
    BY DEF PlaneOps, PortalOps, W!Kind
  <1>2. 0..g \subseteq 0..g + 1 /\ 0 \in 0..g /\ \A x \in 0..g : x + 1 \in 0..g + 1
    OBVIOUS
  <1>3. Declared(g) \subseteq Declared(g + 1)
    BY <1>2 DEF Declared
  <1>4. W!Exists(m, op) => /\ op.kind = "Workload" => old \in Declared(g)
                           /\ op.kind \in W!JobKind => old \in W!Scheduled
    BY <1>1 DEF W!Exists, IsManifest
  <1>5. CASE op.act = "apply"
    <2>1. op.kind = "Workload" /\ op.image \in Image \cup {Plain} /\ op.replicas \in W!Count
      BY <1>5 DEF PlaneOps, PortalOps
    <2>2. b = [image |-> op.image, replicas |-> op.replicas, generation |-> 0, deleted |-> FALSE]
      BY <1>5 DEF W!BodyAfter, W!Body
    <2>3. b \in Declared(g)
      BY <1>2, <2>1, <2>2 DEF Declared
    <2> HIDE DEF b
    <2> QED BY <1>1, <1>3, <2>1, <2>3 DEF b
  <1>6. CASE op.act = "edit"
    <2>1. op.kind = "Workload" /\ op.image \in Image \cup {Plain} /\ old \in Declared(g)
      BY <1>4, <1>6 DEF PlaneOps, PortalOps, W!Upserts
    <2>2. b = [old EXCEPT !.image = op.image]
      BY <1>6 DEF W!BodyAfter
    <2>3. b \in Declared(g)
      BY <2>1, <2>2 DEF Declared
    <2> HIDE DEF b
    <2> QED BY <1>1, <1>3, <2>1, <2>3 DEF b
  <1>7. CASE op.act = "scale"
    <2>1. op.kind = "Workload" /\ op.replicas \in W!Count /\ old \in Declared(g)
      BY <1>4, <1>7 DEF PlaneOps, PortalOps, W!Upserts
    <2>2. b = [old EXCEPT !.replicas = op.replicas]
      BY <1>7 DEF W!BodyAfter
    <2>3. b \in Declared(g)
      BY <2>1, <2>2 DEF Declared
    <2> HIDE DEF b
    <2> QED BY <1>1, <1>3, <2>1, <2>3 DEF b
  <1>8. CASE op.act = "rollout"
    <2>1. op.kind = "Workload" /\ old \in Declared(g)
      BY <1>4, <1>8 DEF PlaneOps, PortalOps, W!Upserts
    <2>2. b = [old EXCEPT !.generation = @ + 1]
      BY <1>8 DEF W!BodyAfter
    <2>3. b \in Declared(g + 1)
      BY <1>2, <2>1, <2>2 DEF Declared
    <2> HIDE DEF b
    <2> QED BY <1>1, <1>8, <2>1, <2>3 DEF b
  <1>9. CASE op.act = "schedule"
    <2>1. op.kind \in W!JobKind /\ op.kind # "Workload" /\ op.command \in Command
      BY <1>9 DEF PlaneOps, PortalOps, W!JobKind
    <2>2. b = [command |-> op.command, deleted |-> FALSE]
      BY <1>9 DEF W!BodyAfter
    <2>3. b \in W!Scheduled
      BY <2>1, <2>2 DEF W!Scheduled
    <2> HIDE DEF b
    <2> QED BY <1>1, <2>1, <2>3 DEF b
  <1>10. CASE op.act = "delete"
    <2>1. b = [old EXCEPT !.deleted = TRUE]
      BY <1>10 DEF W!BodyAfter
    <2>2. W!Exists(m, op)
      BY <1>10 DEF W!Upserts
    <2>3. CASE op.kind = "Workload"
      <3>1. b \in Declared(g)
        BY <1>4, <2>1, <2>2, <2>3 DEF Declared
      <3> HIDE DEF b
      <3> QED BY <1>1, <1>3, <2>3, <3>1 DEF b
    <2>4. CASE op.kind # "Workload"
      <3>1. op.kind \in W!JobKind
        BY <1>1, <2>4 DEF W!Kind
      <3>2. b \in W!Scheduled
        BY <1>4, <2>1, <2>2, <3>1 DEF W!Scheduled
      <3> HIDE DEF b
      <3> QED BY <1>1, <2>4, <3>1, <3>2 DEF b
    <2> QED BY <2>3, <2>4
  <1> QED BY <1>5, <1>6, <1>7, <1>8, <1>9, <1>10 DEF PlaneOps, PortalOps

\* The manifests after an operation; only a rollout counts a generation.
LEMMA ManifestTyped ==
    ASSUME W!WorkloadAssumption, NEW g \in Nat, NEW m, IsManifest(m, g), NEW op \in PlaneOps
    PROVE  /\ IsManifest(W!ManifestAfter(m, op), g + 1)
           /\ op.act # "rollout" => IsManifest(W!ManifestAfter(m, op), g)
  <1> DEFINE b == W!BodyAfter(m, op)
  <1>1. 0..g \subseteq 0..g + 1
    OBVIOUS
  <1>2. Declared(g) \subseteq Declared(g + 1)
    BY <1>1 DEF Declared
  <1>3. IsManifest(m, g + 1)
    BY <1>2 DEF IsManifest
  <1>4. CASE W!Upserts(op) \/ W!Exists(m, op)
    <2>1. W!ManifestAfter(m, op) = [m EXCEPT ![op.kind][op.name] = b]
      BY <1>4 DEF W!ManifestAfter
    <2>2. /\ op.name \in Name /\ op.kind \in W!Kind
          /\ op.kind = "Workload" => b \in Declared(g + 1)
          /\ op.kind = "Workload" /\ op.act # "rollout" => b \in Declared(g)
          /\ op.kind # "Workload" => op.kind \in W!JobKind /\ b \in W!Scheduled
      BY <1>4, BodyTyped
    <2>3. "Workload" \in W!Kind /\ W!JobKind \subseteq W!Kind /\ "Workload" \notin W!JobKind
      BY DEF W!Kind, W!JobKind
    <2> HIDE DEF b
    <2>4. IsManifest([m EXCEPT ![op.kind][op.name] = b], g + 1)
      BY <1>3, <2>2, <2>3 DEF IsManifest
    <2>5. op.act # "rollout" => IsManifest([m EXCEPT ![op.kind][op.name] = b], g)
      BY <2>2, <2>3 DEF IsManifest
    <2> QED BY <2>1, <2>4, <2>5
  <1>5. CASE ~(W!Upserts(op) \/ W!Exists(m, op))
    BY <1>3, <1>5 DEF W!ManifestAfter
  <1> QED BY <1>4, <1>5

AnyBody == [image : Image \cup {Plain}, replicas : W!Count, generation : Nat, deleted : BOOLEAN]

\* Every state the resource plane may be in.
Manifests ==
    {m \in [W!Kind -> [Name -> AnyBody \cup W!Scheduled \cup {None}]] : \E g \in Nat : IsManifest(m, g)}

LEMMA BodiesAre ==
    ASSUME NEW g \in Nat
    PROVE  Declared(g) \subseteq AnyBody
  <1>1. 0..g \subseteq Nat
    OBVIOUS
  <1> QED BY <1>1 DEF Declared, AnyBody

LEMMA ManifestsAre ==
    ASSUME NEW m, NEW g \in Nat, IsManifest(m, g)
    PROVE  m \in Manifests
  <1>1. m \in [W!Kind -> [Name -> AnyBody \cup W!Scheduled \cup {None}]]
    BY BodiesAre DEF IsManifest
  <1> QED BY <1>1 DEF Manifests

LEMMA ManifestsStay ==
    ASSUME W!WorkloadAssumption, NEW m \in Manifests, NEW op \in PortalOps
    PROVE  W!ManifestAfter(m, op) \in Manifests
  <1>1. PICK g \in Nat : IsManifest(m, g)
    BY DEF Manifests
  <1>2. op \in PlaneOps /\ g + 1 \in Nat
    BY DEF PlaneOps
  <1>3. IsManifest(W!ManifestAfter(m, op), g + 1)
    BY <1>1, <1>2, ManifestTyped
  <1> QED BY <1>2, <1>3, ManifestsAre

LEMMA NothingDeclared ==
    ASSUME NEW g \in Nat
    PROVE  IsManifest(W!NoManifest, g)
  <1>1. "Workload" \in W!Kind /\ W!JobKind \subseteq W!Kind
    BY DEF W!Kind, W!JobKind
  <1> QED BY <1>1 DEF IsManifest, W!NoManifest

\* The fold of a journal is well defined, operation by operation.
LEMMA FoldedSteps ==
    ASSUME W!WorkloadAssumption, NEW ops \in Seq(PortalOps)
    PROVE  /\ W!Folded(ops)[0] = W!NoManifest
           /\ \A i \in 1..Len(ops) : W!Folded(ops)[i] = W!ManifestAfter(W!Folded(ops)[i - 1], ops[i])
  <1> DEFINE N == Len(ops)
             IsAfter(f) == f = [i \in 0..N |-> IF i = 0 THEN W!NoManifest
                                               ELSE W!ManifestAfter(f[i - 1], ops[i])]
             h == CHOOSE f : IsAfter(f)
             F == [x \in Manifests \X (1..N) |-> W!ManifestAfter(x[1], ops[x[2]])]
  <1>1. N \in Nat /\ \A i \in 1..N : ops[i] \in PortalOps
    OBVIOUS
  <1>2. W!Folded(ops) = h
    BY DEF W!Folded
  <1> HIDE DEF N
  <1>3. \E f : IsAfter(f)
    <2>1. PICK f : IterateMap(F, W!NoManifest, N, f)
      BY <1>1, IterateExists
    <2>2. W!NoManifest \in Manifests
      BY NothingDeclared, ManifestsAre
    <2>3. \A m \in Manifests : \A i \in 1..N : F[<<m, i>>] = W!ManifestAfter(m, ops[i])
      OBVIOUS
    <2>4. \A m \in Manifests : \A i \in 1..N : F[<<m, i>>] \in Manifests
      BY <1>1, <2>3, ManifestsStay
    <2> HIDE DEF F
    <2>5. \A i \in 0..N : f[i] \in Manifests
      BY ONLY <1>1, <2>1, <2>2, <2>4, IterateStays
    <2>6. \A i \in 0..N : i # 0 => i - 1 \in 0..N /\ i \in 1..N
      BY <1>1
    <2>7. f = [i \in 0..N |-> IF i = 0 THEN W!NoManifest ELSE F[<<f[i - 1], i>>]]
      BY <2>1 DEF IterateMap
    <2>8. \A i \in 0..N : i # 0 => F[<<f[i - 1], i>>] = W!ManifestAfter(f[i - 1], ops[i])
      BY <2>3, <2>5, <2>6
    <2>9. IsAfter(f)
      BY <2>7, <2>8
    <2> QED BY <2>9
  <1>4. IsAfter(h)
    BY <1>3
  <1> HIDE DEF h
  <1>5. h[0] = W!NoManifest
    BY <1>1, <1>4
  <1>6. \A i \in 1..N : h[i] = W!ManifestAfter(h[i - 1], ops[i])
    BY <1>1, <1>4
  <1> QED BY <1>2, <1>5, <1>6 DEF N

\* Journals that start alike fold alike.
LEMMA FoldedAlike ==
    ASSUME W!WorkloadAssumption, NEW s \in Seq(PortalOps), NEW t \in Seq(PortalOps),
           Len(s) <= Len(t), \A i \in 1..Len(s) : s[i] = t[i]
    PROVE  \A i \in 0..Len(s) : W!Folded(s)[i] = W!Folded(t)[i]
  <1> DEFINE N == Len(s)
             a == W!Folded(s)
             b == W!Folded(t)
             Same == {i \in 0..N : a[i] = b[i]}
  <1>1. N \in Nat /\ Len(t) \in Nat
    OBVIOUS
  <1>2. a[0] = b[0] /\ \A i \in 1..N : a[i] = W!ManifestAfter(a[i - 1], s[i])
    BY FoldedSteps
  <1>3. \A i \in 1..N : b[i] = W!ManifestAfter(b[i - 1], t[i])
    BY <1>1, FoldedSteps
  <1>4. \A i \in 1..N : s[i] = t[i]
    OBVIOUS
  <1> HIDE DEF N, a, b
  <1>5. 0 \in Same
    BY <1>1, <1>2
  <1>6. \A i \in 0..N : i # N /\ i \in Same => i + 1 \in Same
    <2> SUFFICES ASSUME NEW i \in 0..N, i # N, a[i] = b[i]
                 PROVE  i + 1 \in Same
      OBVIOUS
    <2>1. i + 1 \in 1..N /\ i + 1 \in 0..N /\ (i + 1) - 1 = i
      BY <1>1
    <2>2. a[i + 1] = W!ManifestAfter(a[i], s[i + 1]) /\ b[i + 1] = W!ManifestAfter(b[i], t[i + 1])
      BY <1>2, <1>3, <2>1
    <2> QED BY <1>4, <2>1, <2>2
  <1> HIDE DEF Same
  <1>7. \A i \in 0..N : i \in Same
    BY ONLY <1>1, <1>5, <1>6, InductionUpTo
  <1> QED BY <1>7 DEF Same, N, a, b

\* A supervised workload: its replicas are of its image, no more than desired.
Supervised(st) ==
    /\ st \in [image : Image, desired : W!Count, replicas : Seq(W!Replica)]
    /\ Len(st.replicas) <= st.desired
    /\ \A i \in 1..Len(st.replicas) : st.replicas[i].image = st.image

LEMMA ScaledSupervised ==
    ASSUME W!WorkloadAssumption, NEW st, Supervised(st), NEW d \in W!Count,
           NEW k \in 0..W!Shortfall(st, d)
    PROVE  Supervised(W!Scaled(st, d, k))
  <1> DEFINE old == st.replicas
             more == [i \in 1..k |-> [image |-> st.image, alive |-> TRUE]]
             new == IF Len(old) > d THEN SubSeq(old, 1, d) ELSE old \o more
  <1>1. old \in Seq(W!Replica) /\ Len(old) \in Nat /\ d \in Nat /\ st.image \in Image
    BY DEF Supervised, W!Count, W!WorkloadAssumption
  <1>2. k \in Nat /\ (Len(old) <= d => Len(old) + k <= d)
    BY <1>1 DEF W!Shortfall
  <1>3. W!Scaled(st, d, k) = [st EXCEPT !.desired = d, !.replicas = new]
    BY DEF W!Scaled, Supervised
  <1>4. \A i \in 1..Len(old) : old[i] \in W!Replica /\ old[i].image = st.image
    BY <1>1 DEF Supervised
  <1>5. /\ new \in Seq(W!Replica) /\ Len(new) <= d
        /\ \A i \in 1..Len(new) : new[i].image = st.image
    <2>1. CASE Len(old) > d
      <3>1. new = SubSeq(old, 1, d) /\ new \in Seq(W!Replica)
        BY <1>1, <2>1
      <3>2. Len(new) = d /\ \A i \in 1..d : new[i] = old[i]
        BY <1>1, <2>1, <3>1
      <3> HIDE DEF new, old
      <3> QED BY <1>1, <1>4, <2>1, <3>1, <3>2
    <2>2. CASE ~(Len(old) > d)
      <3>1. more \in Seq(W!Replica) /\ Len(more) = k /\ \A i \in 1..k : more[i].image = st.image
        BY <1>1, <1>2 DEF W!Replica
      <3> HIDE DEF more
      <3>2. new = old \o more
        BY <2>2
      <3>3. /\ new \in Seq(W!Replica) /\ Len(new) = Len(old) + k
            /\ \A i \in 1..Len(old) + k : new[i] = IF i <= Len(old) THEN old[i] ELSE more[i - Len(old)]
        <4>1. old \in Seq(W!Replica) /\ more \in Seq(W!Replica) /\ Len(more) = k /\ k \in Nat
          BY <1>1, <1>2, <3>1
        <4> HIDE DEF old, new
        <4>2. new \in Seq(W!Replica)
          BY <3>2, <4>1
        <4>3. Len(new) = Len(old) + k
          <5>1. Len(old \o more) = Len(old) + Len(more)
            BY ONLY <4>1
          <5> QED BY ONLY <3>2, <4>1, <5>1
        <4>4. \A i \in 1..Len(old) + k : new[i] = IF i <= Len(old) THEN old[i] ELSE more[i - Len(old)]
          BY <3>2, <4>1
        <4> QED BY <4>2, <4>3, <4>4
      <3>4. \A i \in 1..Len(old) + k : IF i <= Len(old) THEN i \in 1..Len(old) ELSE i - Len(old) \in 1..k
        BY <1>1, <1>2
      <3> HIDE DEF new, old
      <3> QED BY <1>1, <1>2, <1>4, <2>2, <3>1, <3>3, <3>4
    <2> QED BY <2>1, <2>2
  <1> HIDE DEF new
  <1> QED BY <1>3, <1>5 DEF Supervised

LEMMA RestartedSupervised ==
    ASSUME W!WorkloadAssumption, NEW st, Supervised(st), NEW ok
    PROVE  Supervised(W!Restarted(st, ok))
  <1> DEFINE old == st.replicas
             N == Len(old)
             new == [i \in 1..N |-> IF ~old[i].alive /\ i \in ok THEN [image |-> st.image, alive |-> TRUE]
                                    ELSE old[i]]
  <1>1. /\ old \in Seq(W!Replica) /\ N \in Nat /\ DOMAIN old = 1..N /\ st.image \in Image
        /\ \A i \in 1..N : old[i] \in W!Replica /\ old[i].image = st.image
    BY DEF Supervised
  <1>2. W!Restarted(st, ok) = [st EXCEPT !.replicas = new]
    BY <1>1 DEF W!Restarted, Supervised
  <1>3. new \in Seq(W!Replica) /\ Len(new) = N /\ \A i \in 1..N : new[i].image = st.image
    <2> HIDE DEF N
    <2> QED BY <1>1 DEF W!Replica
  <1>4. N <= st.desired
    BY DEF Supervised
  <1> HIDE DEF new, N
  <1> QED BY <1>2, <1>3, <1>4 DEF Supervised

LEMMA OutcomesSupervised ==
    ASSUME W!WorkloadAssumption, NEW st, Supervised(st), NEW d \in W!Count,
           NEW x \in W!ScaleOutcomes(st, d)
    PROVE  Supervised(x)
  <1> DEFINE all == W!Shortfall(st, d)
  <1>1. all \in Nat
    <2>1. Len(st.replicas) \in Nat /\ d \in Nat
      BY DEF Supervised, W!Count
    <2> QED BY <2>1 DEF W!Shortfall
  <1> HIDE DEF all
  <1>2. \/ \E ok \in SUBSET W!Place : x = W!Restarted(W!Scaled(st, d, all), ok)
        \/ \E k \in 0..all - 1 : x = W!Scaled(st, d, k)
    BY DEF W!ScaleOutcomes, all
  <1>3. all \in 0..all /\ \A k \in 0..all - 1 : k \in 0..all
    BY <1>1
  <1>4. \A k \in 0..all : Supervised(W!Scaled(st, d, k))
    BY ScaledSupervised DEF all
  <1>5. \A ok \in SUBSET W!Place : Supervised(W!Restarted(W!Scaled(st, d, all), ok))
    BY <1>3, <1>4, RestartedSupervised
  <1> QED BY <1>2, <1>3, <1>4, <1>5

\* reconcile() leaves a supervised workload, or none.
LEMMA ReconciledSupervised ==
    ASSUME W!WorkloadAssumption, NEW st, st # None => Supervised(st),
           NEW image \in Image \cup {Plain}, NEW d \in W!Count, NEW x \in W!Reconciled(st, image, d)
    PROVE  x # None => Supervised(x)
  <1>1. CASE x = st
    BY <1>1
  <1>2. CASE st # None /\ x \in W!ScaleOutcomes(st, d)
    BY <1>2, OutcomesSupervised
  <1>3. CASE image \in Image /\ x \in W!ScaleOutcomes(W!Fresh(image), d)
    <2>1. Supervised(W!Fresh(image))
      <3> DEFINE f == W!Fresh(image)
      <3>1. f = [image |-> image, desired |-> 0, replicas |-> <<>>] /\ 0 \in W!Count /\ Len(<<>>) = 0
        BY DEF W!Fresh, W!Count, W!WorkloadAssumption
      <3>2. f \in [image : Image, desired : W!Count, replicas : Seq(W!Replica)]
        BY <1>3, <3>1
      <3> QED BY <3>1, <3>2 DEF Supervised
    <2> QED BY <1>3, <2>1, OutcomesSupervised
  <1> QED BY <1>1, <1>2, <1>3 DEF W!Reconciled, W!Admitted

\* Every revision of a workload declares an image and a number of replicas.
AreRevisions(r) ==
    /\ r \in [W!Kind -> [Name -> SUBSET (AnyBody \cup W!Scheduled)]]
    /\ r["Workload"] \in [Name -> SUBSET AnyBody]

AreRunning(s) ==
    /\ s = [n \in Name |-> s[n]]
    /\ \A n \in Name : s[n] # None => Supervised(s[n])

\* A registered name has a scheduled manifest that is not deleted.
Firing(m, r) ==
    \A n \in Name : r[n] # None => \E k \in W!JobKind : m[k][n] # None /\ ~m[k][n].deleted

LEMMA KindsAre == "Workload" \in W!Kind /\ W!JobKind \subseteq W!Kind /\ "Workload" \notin W!JobKind
  BY DEF W!Kind, W!JobKind

LEMMA RevisionAdded ==
    ASSUME W!WorkloadAssumption, NEW g \in Nat, NEW m, IsManifest(m, g), NEW op \in PlaneOps,
           W!Upserts(op) \/ W!Exists(m, op), NEW r, AreRevisions(r)
    PROVE  AreRevisions([r EXCEPT ![op.kind][op.name] = @ \cup {W!BodyAfter(m, op)}])
  <1> DEFINE b == W!BodyAfter(m, op)
  <1>1. /\ op.name \in Name /\ op.kind \in W!Kind
        /\ op.kind = "Workload" => b \in AnyBody
        /\ op.kind # "Workload" => b \in W!Scheduled
    BY BodyTyped, BodiesAre
  <1> HIDE DEF b
  <1>2. AreRevisions([r EXCEPT ![op.kind][op.name] = @ \cup {b}])
    BY <1>1, KindsAre DEF AreRevisions
  <1> QED BY <1>2 DEF b

\* Whatever an operation does to a registration, one that stays or comes has
\* a manifest that is not deleted.
LEMMA FiringStays ==
    ASSUME W!WorkloadAssumption, NEW g \in Nat, NEW m, IsManifest(m, g), NEW op \in PortalOps,
           W!Upserts(op) \/ W!Exists(m, op), registered \in [Name -> Command \cup {None}],
           Firing(m, registered), NEW c \in W!RegisteredAfter(op)
    PROVE  Firing(W!ManifestAfter(m, op), [registered EXCEPT ![op.name] = c])
  <1> DEFINE b == W!BodyAfter(m, op)
             new == W!ManifestAfter(m, op)
             reg == [registered EXCEPT ![op.name] = c]
  <1>1. op.name \in Name /\ op.kind \in W!Kind
    BY BodyTyped DEF PlaneOps
  <1>2. /\ new = [m EXCEPT ![op.kind][op.name] = b]
        /\ \A k \in W!Kind, n \in Name :
              new[k][n] = IF k = op.kind /\ n = op.name THEN b ELSE m[k][n]
    BY <1>1 DEF W!ManifestAfter, IsManifest
  <1> HIDE DEF new
  <1> SUFFICES ASSUME NEW n \in Name, reg[n] # None
               PROVE  \E k \in W!JobKind : new[k][n] # None /\ ~new[k][n].deleted
    BY DEF Firing, new
  <1>3. CASE n # op.name
    BY <1>2, <1>3, KindsAre DEF Firing
  <1>4. CASE n = op.name /\ op.act = "schedule"
    <2>1. op.kind \in W!JobKind
      BY <1>4 DEF PortalOps, W!JobKind
    <2>2. b = [command |-> op.command, deleted |-> FALSE] /\ op.command \in Command
      BY <1>4 DEF W!BodyAfter, PortalOps
    <2> HIDE DEF b
    <2>3. b \in W!Scheduled /\ b.deleted = FALSE
      BY <2>2 DEF W!Scheduled
    <2>4. b # None /\ ~b.deleted
      BY <2>3 DEF W!WorkloadAssumption
    <2> QED BY <1>2, <1>4, <2>1, <2>4, KindsAre
  <1>5. CASE n = op.name /\ op.act = "delete"
    BY <1>1, <1>5 DEF W!RegisteredAfter
  <1>6. CASE n = op.name /\ op.act \notin {"schedule", "delete"}
    <2>1. op.kind = "Workload"
      BY <1>6 DEF PortalOps
    <2>2. c = registered[op.name]
      BY <1>6 DEF W!RegisteredAfter
    <2>3. registered[n] # None
      BY <1>1, <1>6, <2>2
    <2>4. PICK k \in W!JobKind : m[k][n] # None /\ ~m[k][n].deleted
      BY <2>3 DEF Firing
    <2>5. new[k][n] = m[k][n]
      BY <1>2, <2>1, KindsAre
    <2> QED BY <2>4, <2>5
  <1> QED BY <1>3, <1>4, <1>5, <1>6

\* The whole handler of an operation that is carried out.
LEMMA PerformKeeps ==
    ASSUME W!WorkloadAssumption, NEW g \in Nat, IsManifest(manifest, g), AreRevisions(revisions),
           AreRunning(running), registered \in [Name -> Command \cup {None}],
           NEW op \in PortalOps, W!Upserts(op) \/ W!Exists(manifest, op), W!Perform(op)
    PROVE  /\ IsManifest(manifest', g + 1) /\ AreRevisions(revisions') /\ AreRunning(running')
           /\ registered' \in [Name -> Command \cup {None}]
           /\ manifest' = W!ManifestAfter(manifest, op)
           /\ Firing(manifest, registered) => Firing(manifest', registered')
  <1> DEFINE b == W!BodyAfter(manifest, op)
  <1>1. op \in PlaneOps
    BY DEF PlaneOps
  <1>2. op.name \in Name /\ op.kind \in W!Kind /\ (op.kind = "Workload" => b \in AnyBody)
    BY <1>1, BodyTyped, BodiesAre
  <1>3. manifest' = W!ManifestAfter(manifest, op)
    BY DEF W!Perform
  <1>4. IsManifest(manifest', g + 1)
    BY <1>1, <1>3, ManifestTyped
  <1>5. AreRevisions(revisions')
    BY <1>1, RevisionAdded DEF W!Perform
  <1>6. AreRunning(running')
    <2>1. PICK st \in W!RunningAfter(op, b) : running' = [running EXCEPT ![op.name] = st]
      BY DEF W!Perform
    <2>2. st # None => Supervised(st)
      <3>1. CASE op.act \in {"apply", "scale"}
        <4>1. op.kind = "Workload"
          BY <3>1 DEF PortalOps
        <4>2. b.image \in Image \cup {Plain} /\ b.replicas \in W!Count
          BY <1>2, <4>1 DEF AnyBody
        <4>3. st \in W!Reconciled(running[op.name], b.image, b.replicas)
          BY <2>1, <3>1 DEF W!RunningAfter
        <4>4. running[op.name] # None => Supervised(running[op.name])
          BY <1>2 DEF AreRunning
        <4> HIDE DEF b
        <4> QED BY <4>2, <4>3, <4>4, ReconciledSupervised
      <3>2. CASE op.act \notin {"apply", "scale"}
        BY <1>2, <2>1, <3>2 DEF W!RunningAfter, AreRunning
      <3> QED BY <3>1, <3>2
    <2> QED BY <1>2, <2>1, <2>2 DEF AreRunning
  <1>7. PICK c \in W!RegisteredAfter(op) : registered' = [registered EXCEPT ![op.name] = c]
    BY DEF W!Perform
  <1>8. registered' \in [Name -> Command \cup {None}]
    <2>1. op.act = "schedule" => op.command \in Command
      BY DEF PortalOps
    <2>2. c \in Command \cup {None}
      BY <1>2, <1>7, <2>1 DEF W!RegisteredAfter
    <2> QED BY <1>7, <2>2
  <1>9. Firing(manifest, registered) => Firing(manifest', registered')
    BY <1>3, <1>7, FiringStays
  <1> QED BY <1>3, <1>4, <1>5, <1>6, <1>8, <1>9

\* What replay still has to fold back is the end of the journal.
JournalKept ==
    /\ journal \in Seq(PortalOps) /\ missed \in Nat /\ Len(journal) + missed <= MaxOps
    /\ pending \in Seq(PortalOps) /\ Len(pending) <= Len(journal)
    /\ \A i \in 1..Len(pending) : pending[i] = journal[Len(journal) - Len(pending) + i]

\* What has been folded back, or recorded since.
FoldedBack == Len(journal) - Len(pending)

PlaneTyped ==
    /\ IsManifest(manifest, FoldedBack + missed) /\ AreRevisions(revisions) /\ AreRunning(running)
    /\ registered \in [Name -> Command \cup {None}] /\ behind \subseteq W!Kind \X Name
    /\ direct \in 0..MaxDirect /\ restarts \in 0..MaxRestarts

\* Two states of the plane agree, but for what the journal is behind on.
AgreeBut(m, f, b) ==
    \A k \in W!Kind, n \in Name : <<k, n>> \notin b => m[k][n] = f[k][n]

\* While nothing came over the resource-op tier, the manifests are those of
\* the journal as far as it is folded back, but for what could not be
\* appended, and what fires is declared.
PlaneFollows ==
    direct = 0 => /\ AgreeBut(manifest, W!Folded(journal)[FoldedBack], behind)
                  /\ Firing(manifest, registered)

WorkloadCore == JournalKept /\ PlaneTyped /\ PlaneFollows

LEMMA FoldedBackNat ==
    ASSUME JournalKept
    PROVE  FoldedBack \in Nat /\ FoldedBack <= Len(journal) /\ Len(journal) \in Nat /\ Len(pending) \in Nat
  BY DEF JournalKept, FoldedBack

LEMMA WorkloadCoreInit ==
    ASSUME W!WorkloadAssumption, W!Init
    PROVE  WorkloadCore
  <1>1. journal = <<>> /\ pending = <<>> /\ Len(<<>>) = 0 /\ <<>> \in Seq(PortalOps)
    BY DEF W!Init
  <1>2. JournalKept /\ FoldedBack = 0
    BY <1>1 DEF JournalKept, FoldedBack, W!WorkloadAssumption, W!Init
  <1>3. IsManifest(manifest, FoldedBack + missed) /\ behind \subseteq W!Kind \X Name
    BY <1>2, NothingDeclared DEF W!Init
  <1>4. AreRevisions(revisions) /\ AreRunning(running) /\ registered \in [Name -> Command \cup {None}]
    BY KindsAre DEF W!Init, AreRevisions, AreRunning
  <1>5. direct \in 0..MaxDirect /\ restarts \in 0..MaxRestarts
    BY DEF W!Init, W!WorkloadAssumption
  <1>6. manifest = W!Folded(journal)[FoldedBack]
    <2>1. W!Folded(journal)[0] = W!NoManifest
      BY <1>1, FoldedSteps
    <2> QED BY <1>2, <2>1 DEF W!Init
  <1>7. Firing(manifest, registered)
    BY DEF Firing, W!Init
  <1> QED BY <1>2, <1>3, <1>4, <1>5, <1>6, <1>7 DEF WorkloadCore, PlaneTyped, PlaneFollows, AgreeBut

\* An operation touches its own manifest, and a whole body forgets what was
\* there.
LEMMA AfterAgrees ==
    ASSUME W!WorkloadAssumption, NEW m, NEW g \in Nat, IsManifest(m, g),
           NEW f \in Manifests, NEW b, AgreeBut(m, f, b), NEW op \in PortalOps
    PROVE  /\ AgreeBut(W!ManifestAfter(m, op), W!ManifestAfter(f, op), b)
           /\ W!Upserts(op) =>
                 AgreeBut(W!ManifestAfter(m, op), W!ManifestAfter(f, op), b \ {W!Slot(op)})
           /\ AgreeBut(W!ManifestAfter(m, op), f, b \cup {W!Slot(op)})
  <1> DEFINE x == W!BodyAfter(m, op)
             y == W!BodyAfter(f, op)
             new == W!ManifestAfter(m, op)
             old == W!ManifestAfter(f, op)
  <1>1. op.kind \in W!Kind /\ op.name \in Name
    BY DEF PortalOps, W!Kind, W!JobKind
  <1>2. \A k \in W!Kind, n \in Name :
           new[k][n] = IF k = op.kind /\ n = op.name /\ (W!Upserts(op) \/ W!Exists(m, op)) THEN x ELSE m[k][n]
    BY <1>1 DEF W!ManifestAfter, IsManifest
  <1>3. \A k \in W!Kind, n \in Name :
           old[k][n] = IF k = op.kind /\ n = op.name /\ (W!Upserts(op) \/ W!Exists(f, op)) THEN y ELSE f[k][n]
    BY <1>1 DEF W!ManifestAfter, Manifests
  <1>4. W!Upserts(op) => x = y
    BY DEF W!Upserts, W!BodyAfter
  <1>5. m[op.kind][op.name] = f[op.kind][op.name] => x = y /\ (W!Exists(m, op) <=> W!Exists(f, op))
    BY DEF W!BodyAfter, W!Exists
  <1> HIDE DEF x, y, new, old
  <1>6. AgreeBut(new, old, b)
    BY <1>1, <1>2, <1>3, <1>4, <1>5 DEF AgreeBut
  <1>7. ASSUME W!Upserts(op) PROVE AgreeBut(new, old, b \ {W!Slot(op)})
    BY <1>1, <1>2, <1>3, <1>4, <1>7 DEF AgreeBut, W!Slot
  <1>8. AgreeBut(new, f, b \cup {W!Slot(op)})
    BY <1>1, <1>2 DEF AgreeBut, W!Slot
  <1> QED BY <1>6, <1>7, <1>8 DEF new, old

\* Folding a journal gives manifests, as far as one goes.
LEMMA FoldedIsManifest ==
    ASSUME W!WorkloadAssumption, NEW ops \in Seq(PortalOps), NEW i \in 0..Len(ops)
    PROVE  W!Folded(ops)[i] \in Manifests
  <1> DEFINE N == Len(ops)
             h == W!Folded(ops)
             Good == {k \in 0..N : h[k] \in Manifests}
  <1>1. N \in Nat /\ \A k \in 1..N : ops[k] \in PortalOps
    OBVIOUS
  <1>2. h[0] = W!NoManifest /\ \A k \in 1..N : h[k] = W!ManifestAfter(h[k - 1], ops[k])
    BY FoldedSteps
  <1>3. W!NoManifest \in Manifests
    BY NothingDeclared, ManifestsAre
  <1> HIDE DEF N, h
  <1>4. 0 \in Good
    BY <1>1, <1>2, <1>3
  <1>5. \A k \in 0..N : k # N /\ k \in Good => k + 1 \in Good
    <2> SUFFICES ASSUME NEW k \in 0..N, k # N, h[k] \in Manifests
                 PROVE  k + 1 \in Good
      OBVIOUS
    <2>1. k + 1 \in 1..N /\ k + 1 \in 0..N /\ (k + 1) - 1 = k
      BY <1>1
    <2>2. h[k + 1] = W!ManifestAfter(h[k], ops[k + 1])
      BY <1>2, <2>1
    <2> QED BY <1>1, <2>1, <2>2, ManifestsStay
  <1> HIDE DEF Good
  <1>6. \A k \in 0..N : k \in Good
    BY ONLY <1>1, <1>4, <1>5, InductionUpTo
  <1> QED BY <1>6 DEF Good, N, h

\* One operation more in the journal.
LEMMA JournalExtends ==
    ASSUME W!WorkloadAssumption, JournalKept, W!Serving, NEW op \in PortalOps,
           Len(journal) + missed < MaxOps, W!Recorded(op), pending' = pending
    PROVE  /\ JournalKept' /\ FoldedBack = Len(journal) /\ FoldedBack' = FoldedBack + 1
           /\ W!Folded(journal')[FoldedBack'] = W!ManifestAfter(W!Folded(journal)[FoldedBack], op)
  <1> DEFINE N == Len(journal)
             j == Append(journal, op)
  <1>1. /\ journal' = j /\ pending' = <<>> /\ pending = <<>> /\ Len(<<>>) = 0 /\ N \in Nat
        /\ missed' = missed /\ missed \in Nat /\ N + missed < MaxOps
    BY DEF W!Recorded, W!Serving, JournalKept
  <1>2. /\ j \in Seq(PortalOps) /\ Len(j) = N + 1 /\ j[N + 1] = op
        /\ \A i \in 1..N : journal[i] = j[i]
    BY DEF JournalKept
  <1>3. JournalKept' /\ FoldedBack = N /\ FoldedBack' = N + 1
    <2> HIDE DEF j
    <2>1. /\ Len(journal') = N + 1 /\ N + 1 + missed' <= MaxOps /\ missed' \in Nat
          /\ Len(pending) = 0 /\ Len(pending') = 0
      BY <1>1, <1>2 DEF W!WorkloadAssumption
    <2>2. FoldedBack = N /\ FoldedBack' = N + 1
      BY <1>1, <2>1 DEF FoldedBack
    <2>3. JournalKept'
      BY <1>1, <1>2, <2>1 DEF JournalKept
    <2> QED BY <2>2, <2>3
  <1> HIDE DEF j
  <1>4. journal \in Seq(PortalOps) /\ N <= Len(j) /\ N \in 0..N /\ N + 1 \in 1..Len(j) /\ (N + 1) - 1 = N
    BY <1>1, <1>2 DEF JournalKept
  <1>5. W!Folded(journal)[N] = W!Folded(j)[N]
    BY <1>2, <1>4, FoldedAlike
  <1>6. W!Folded(j)[N + 1] = W!ManifestAfter(W!Folded(j)[N], op)
    <2> HIDE DEF N
    <2>1. \A i \in 1..Len(j) : W!Folded(j)[i] = W!ManifestAfter(W!Folded(j)[i - 1], j[i])
      BY <1>2, FoldedSteps
    <2> QED BY <1>2, <1>4, <2>1
  <1> QED BY <1>1, <1>3, <1>5, <1>6

LEMMA PortalKeeps ==
    ASSUME W!WorkloadAssumption, WorkloadCore, NEW op \in PortalOps, W!Portal(op)
    PROVE  WorkloadCore'
  <1> DEFINE f == W!Folded(journal)[FoldedBack]
  <1>1. /\ W!Serving /\ (W!Upserts(op) \/ W!Exists(manifest, op)) /\ W!Perform(op) /\ W!Record(op)
        /\ pending' = pending /\ direct' = direct /\ restarts' = restarts
    BY DEF W!Portal
  <1>2. FoldedBack \in Nat /\ JournalKept /\ missed \in Nat /\ FoldedBack + missed \in Nat
    BY FoldedBackNat DEF WorkloadCore, JournalKept
  <1>3. /\ IsManifest(manifest', FoldedBack + missed + 1) /\ AreRevisions(revisions') /\ AreRunning(running')
        /\ registered' \in [Name -> Command \cup {None}]
        /\ manifest' = W!ManifestAfter(manifest, op)
        /\ Firing(manifest, registered) => Firing(manifest', registered')
    BY <1>1, <1>2, PerformKeeps DEF WorkloadCore, PlaneTyped
  <1>4. f \in Manifests
    BY <1>2, FoldedBackNat, FoldedIsManifest DEF JournalKept
  <1>5. W!Slot(op) \in W!Kind \X Name
    BY DEF W!Slot, PortalOps, W!Kind, W!JobKind
  <1>6. ASSUME AgreeBut(manifest, f, behind)
        PROVE  /\ AgreeBut(manifest', W!ManifestAfter(f, op), behind)
               /\ W!Upserts(op) => AgreeBut(manifest', W!ManifestAfter(f, op), behind \ {W!Slot(op)})
               /\ AgreeBut(manifest', f, behind \cup {W!Slot(op)})
    BY <1>2, <1>3, <1>4, <1>6, AfterAgrees DEF WorkloadCore, PlaneTyped
  <1>7. CASE W!Recorded(op)
    <2>1. /\ JournalKept' /\ FoldedBack' = FoldedBack + 1 /\ missed' = missed
          /\ W!Folded(journal')[FoldedBack'] = W!ManifestAfter(f, op)
          /\ behind' = IF W!Upserts(op) THEN behind \ {W!Slot(op)} ELSE behind
      BY <1>1, <1>2, <1>7, JournalExtends DEF W!Recorded, W!Record
    <2>2. FoldedBack' + missed' = FoldedBack + missed + 1
      BY <1>2, <2>1
    <2>3. PlaneTyped'
      BY <1>1, <1>3, <2>1, <2>2 DEF WorkloadCore, PlaneTyped
    <2>4. PlaneFollows'
      BY <1>1, <1>3, <1>6, <2>1 DEF WorkloadCore, PlaneFollows
    <2> QED BY <2>1, <2>3, <2>4 DEF WorkloadCore
  <1>8. CASE W!NotRecorded(op)
    <2>1. journal' = journal /\ behind' = behind \cup {W!Slot(op)} /\ missed' = missed + 1
      BY <1>8 DEF W!NotRecorded
    <2>2. JournalKept' /\ FoldedBack' = FoldedBack /\ FoldedBack' + missed' = FoldedBack + missed + 1
      <3>1. FoldedBack' = FoldedBack
        BY <1>1, <2>1 DEF FoldedBack
      <3>2. Len(journal) + missed < MaxOps /\ Len(journal) \in Nat /\ MaxOps \in Nat
        BY <1>1, <1>2, FoldedBackNat DEF W!Record, W!WorkloadAssumption
      <3>3. missed' \in Nat /\ Len(journal') + missed' <= MaxOps
        BY <1>2, <2>1, <3>2
      <3>4. JournalKept'
        BY <1>1, <1>2, <2>1, <3>3 DEF JournalKept
      <3>5. FoldedBack' + missed' = FoldedBack + missed + 1
        BY <1>2, <2>1, <3>1
      <3> QED BY <3>1, <3>4, <3>5
    <2>3. PlaneTyped'
      BY <1>1, <1>3, <1>5, <2>1, <2>2 DEF WorkloadCore, PlaneTyped
    <2>4. PlaneFollows'
      BY <1>1, <1>3, <1>6, <2>1, <2>2 DEF WorkloadCore, PlaneFollows
    <2> QED BY <2>2, <2>3, <2>4 DEF WorkloadCore
  <1> QED BY <1>1, <1>7, <1>8 DEF W!Record

LEMMA ReplayKeeps ==
    ASSUME W!WorkloadAssumption, WorkloadCore, W!Replay
    PROVE  WorkloadCore'
  <1> DEFINE op == Head(pending)
  <1>1. /\ pending # <<>> /\ pending' = Tail(pending) /\ journal' = journal /\ direct' = direct
        /\ restarts' = restarts /\ behind' = behind /\ missed' = missed
    BY DEF W!Replay, W!journalVars
  <1>2. /\ JournalKept /\ FoldedBack \in Nat /\ Len(journal) \in Nat /\ Len(pending) \in Nat
        /\ missed \in Nat /\ FoldedBack + missed \in Nat
    BY FoldedBackNat DEF WorkloadCore, JournalKept
  <1>3. /\ Len(pending) > 0 /\ Len(pending') = Len(pending) - 1 /\ pending' \in Seq(PortalOps)
        /\ op = pending[1] /\ op \in PortalOps
        /\ \A i \in 1..Len(pending) - 1 : pending'[i] = pending[i + 1]
    BY <1>1, <1>2 DEF JournalKept
  <1> HIDE DEF op
  <1>4. /\ FoldedBack' = FoldedBack + 1 /\ FoldedBack + 1 \in 1..Len(journal)
        /\ op = journal[FoldedBack + 1] /\ (FoldedBack + 1) - 1 = FoldedBack
    BY <1>1, <1>2, <1>3 DEF JournalKept, FoldedBack
  <1>5. JournalKept'
    <2>1. \A i \in 1..Len(pending') : pending'[i] = journal[Len(journal) - Len(pending') + i]
      <3> SUFFICES ASSUME NEW i \in 1..Len(pending')
                   PROVE  pending'[i] = journal[Len(journal) - Len(pending') + i]
        OBVIOUS
      <3>1. i \in 1..Len(pending) - 1 /\ i + 1 \in 1..Len(pending)
        BY <1>2, <1>3
      <3>2. pending'[i] = journal[Len(journal) - Len(pending) + (i + 1)]
        BY <1>3, <3>1, <1>2 DEF JournalKept
      <3>3. Len(journal) - Len(pending) + (i + 1) = Len(journal) - Len(pending') + i
        BY <1>2, <1>3, <3>1
      <3> QED BY <3>2, <3>3
    <2>2. Len(pending') <= Len(journal)
      BY <1>2, <1>3 DEF JournalKept
    <2> QED BY <1>1, <1>2, <1>3, <2>1, <2>2 DEF JournalKept
  <1>6. W!Folded(journal)[FoldedBack + 1] = W!ManifestAfter(W!Folded(journal)[FoldedBack], op)
    <2>1. \A i \in 1..Len(journal) :
             W!Folded(journal)[i] = W!ManifestAfter(W!Folded(journal)[i - 1], journal[i])
      BY <1>2, FoldedSteps DEF JournalKept
    <2> QED BY <1>4, <2>1
  <1>7. FoldedBack' + missed' = FoldedBack + missed + 1
    BY <1>1, <1>2, <1>4
  <1>8. AgreeBut(manifest, W!Folded(journal)[FoldedBack], behind) =>
            AgreeBut(W!ManifestAfter(manifest, op), W!Folded(journal)[FoldedBack + 1], behind)
    <2>1. FoldedBack \in 0..Len(journal) /\ journal \in Seq(PortalOps)
      BY <1>2, FoldedBackNat DEF JournalKept
    <2>2. W!Folded(journal)[FoldedBack] \in Manifests
      BY <2>1, FoldedIsManifest
    <2>3. IsManifest(manifest, FoldedBack + missed)
      BY DEF WorkloadCore, PlaneTyped
    <2> DEFINE f == W!Folded(journal)[FoldedBack]
    <2>4. f \in Manifests /\ W!Folded(journal)[FoldedBack + 1] = W!ManifestAfter(f, op)
      BY <1>6, <2>2
    <2> HIDE DEF f
    <2>5. AgreeBut(manifest, f, behind) => AgreeBut(W!ManifestAfter(manifest, op), W!ManifestAfter(f, op), behind)
      BY <1>2, <1>3, <2>3, <2>4, AfterAgrees
    <2> QED BY <2>4, <2>5 DEF f
  <1>9. CASE W!Upserts(op) \/ W!Exists(manifest, op)
    <2>1. W!Perform(op)
      BY <1>9 DEF W!Replay, op
    <2>2. /\ IsManifest(manifest', FoldedBack + missed + 1) /\ AreRevisions(revisions') /\ AreRunning(running')
          /\ registered' \in [Name -> Command \cup {None}]
          /\ manifest' = W!ManifestAfter(manifest, op)
          /\ Firing(manifest, registered) => Firing(manifest', registered')
      BY <1>2, <1>3, <1>9, <2>1, PerformKeeps DEF WorkloadCore, PlaneTyped
    <2>3. PlaneTyped'
      BY <1>1, <1>7, <2>2 DEF WorkloadCore, PlaneTyped
    <2>4. PlaneFollows'
      BY <1>1, <1>4, <1>8, <2>2 DEF WorkloadCore, PlaneFollows
    <2> QED BY <1>5, <2>3, <2>4 DEF WorkloadCore
  <1>10. CASE ~(W!Upserts(op) \/ W!Exists(manifest, op))
    <2>1. /\ manifest' = manifest /\ revisions' = revisions /\ running' = running
          /\ registered' = registered
      BY <1>10 DEF W!Replay, op
    <2>2. W!ManifestAfter(manifest, op) = manifest
      BY <1>10 DEF W!ManifestAfter
    <2>3. IsManifest(manifest, FoldedBack + missed + 1)
      <3>1. op \in PlaneOps /\ IsManifest(manifest, FoldedBack + missed)
        BY <1>3 DEF PlaneOps, WorkloadCore, PlaneTyped
      <3> QED BY <1>2, <2>2, <3>1, ManifestTyped
    <2>4. PlaneTyped'
      BY <1>1, <1>7, <2>1, <2>3 DEF WorkloadCore, PlaneTyped
    <2>5. PlaneFollows'
      BY <1>1, <1>4, <1>8, <2>1, <2>2 DEF WorkloadCore, PlaneFollows
    <2> QED BY <1>5, <2>4, <2>5 DEF WorkloadCore
  <1> QED BY <1>9, <1>10

LEMMA DirectKeeps ==
    ASSUME W!WorkloadAssumption, WorkloadCore, NEW op \in PlaneOps, op.act # "rollout", W!Direct(op)
    PROVE  WorkloadCore'
  <1>1. /\ W!Upserts(op) \/ W!Exists(manifest, op)
        /\ direct < MaxDirect /\ direct' = direct + 1
        /\ manifest' = W!ManifestAfter(manifest, op)
        /\ revisions' = [revisions EXCEPT ![op.kind][op.name] = @ \cup {W!BodyAfter(manifest, op)}]
        /\ running' = running /\ registered' = registered /\ journal' = journal
        /\ pending' = pending /\ restarts' = restarts /\ behind' = behind /\ missed' = missed
    BY DEF W!Direct, W!journalVars
  <1>2. FoldedBack + missed \in Nat /\ JournalKept' /\ FoldedBack' = FoldedBack
    BY <1>1, FoldedBackNat DEF WorkloadCore, JournalKept, FoldedBack
  <1>3. IsManifest(manifest', FoldedBack' + missed')
    BY <1>1, <1>2, ManifestTyped DEF WorkloadCore, PlaneTyped
  <1>4. AreRevisions(revisions')
    BY <1>1, <1>2, RevisionAdded DEF WorkloadCore, PlaneTyped
  <1>5. direct' \in 0..MaxDirect /\ direct' # 0
    BY <1>1 DEF WorkloadCore, PlaneTyped, W!WorkloadAssumption
  <1> QED BY <1>1, <1>2, <1>3, <1>4, <1>5 DEF WorkloadCore, PlaneTyped, PlaneFollows

\* Deaths and sweeps touch the replicas only.
LEMMA RunningKeeps ==
    ASSUME WorkloadCore, AreRunning(running'), manifest' = manifest, revisions' = revisions,
           registered' = registered, journal' = journal, pending' = pending, direct' = direct,
           restarts' = restarts, behind' = behind, missed' = missed
    PROVE  WorkloadCore'
  BY DEF WorkloadCore, JournalKept, PlaneTyped, PlaneFollows, FoldedBack

LEMMA DiesKeeps ==
    ASSUME WorkloadCore, NEW n \in Name, W!ReplicaDies(n)
    PROVE  WorkloadCore'
  <1>1. PICK i \in DOMAIN running[n].replicas :
           running' = [running EXCEPT ![n].replicas[i].alive = FALSE]
    BY DEF W!ReplicaDies
  <1> DEFINE st == running[n]
             old == st.replicas
             r == [old[i] EXCEPT !.alive = FALSE]
             new == [old EXCEPT ![i] = r]
  <1>2. Supervised(st) /\ AreRunning(running)
    BY DEF W!ReplicaDies, WorkloadCore, PlaneTyped, AreRunning
  <1>3. old \in Seq(W!Replica) /\ i \in 1..Len(old) /\ old[i] \in W!Replica /\ Len(old) \in Nat
    BY <1>1, <1>2 DEF Supervised
  <1>4. r \in W!Replica /\ r.image = old[i].image
    BY <1>3 DEF W!Replica
  <1>5. running' = [running EXCEPT ![n] = [st EXCEPT !.replicas = new]]
    BY <1>1, <1>2, <1>3 DEF AreRunning
  <1> HIDE DEF r
  <1>6. new \in Seq(W!Replica) /\ Len(new) = Len(old) /\ \A k \in 1..Len(old) : new[k].image = old[k].image
    BY <1>3, <1>4
  <1> HIDE DEF new
  <1>7. Supervised([st EXCEPT !.replicas = new])
    BY <1>2, <1>3, <1>6 DEF Supervised
  <1>8. AreRunning(running')
    <2> HIDE DEF st
    <2> QED BY <1>2, <1>5, <1>7 DEF AreRunning
  <1> QED BY <1>8, RunningKeeps DEF W!ReplicaDies, W!journalVars

LEMMA SweepKeeps ==
    ASSUME W!WorkloadAssumption, WorkloadCore, W!Sweep
    PROVE  WorkloadCore'
  <1>1. PICK ok \in [Name -> SUBSET W!Place] :
           running' = [n \in Name |-> IF running[n] = None THEN None ELSE W!Restarted(running[n], ok[n])]
    BY DEF W!Sweep
  <1>2. \A n \in Name : running[n] # None => Supervised(W!Restarted(running[n], ok[n]))
    BY RestartedSupervised DEF WorkloadCore, PlaneTyped, AreRunning
  <1>3. AreRunning(running')
    BY <1>1, <1>2 DEF AreRunning
  <1> QED BY <1>3, RunningKeeps DEF W!Sweep, W!journalVars

LEMMA RestartKeeps ==
    ASSUME W!WorkloadAssumption, WorkloadCore, W!Restart
    PROVE  WorkloadCore'
  <1>1. /\ restarts < MaxRestarts /\ restarts' = restarts + 1 /\ manifest' = W!NoManifest
        /\ revisions' = [k \in W!Kind |-> [n \in Name |-> {}]]
        /\ running' = [n \in Name |-> None] /\ registered' = [n \in Name |-> None]
        /\ pending' = journal /\ journal' = journal /\ direct' = direct
        /\ behind' = {} /\ missed' = missed
    BY DEF W!Restart
  <1>2. journal \in Seq(PortalOps) /\ Len(journal) \in Nat /\ missed \in Nat
    BY DEF WorkloadCore, JournalKept
  <1>3. FoldedBack' = 0
    BY <1>1, <1>2 DEF FoldedBack
  <1>4. JournalKept'
    BY <1>1, <1>2 DEF WorkloadCore, JournalKept
  <1>5. IsManifest(manifest', FoldedBack' + missed')
    BY <1>1, <1>2, <1>3, NothingDeclared
  <1>6. AreRevisions(revisions') /\ AreRunning(running') /\ registered' \in [Name -> Command \cup {None}]
    BY <1>1, KindsAre DEF AreRevisions, AreRunning
  <1>7. restarts' \in 0..MaxRestarts
    BY <1>1 DEF WorkloadCore, PlaneTyped, W!WorkloadAssumption
  <1>8. manifest' = W!Folded(journal')[FoldedBack'] /\ Firing(manifest', registered')
    <2>1. W!Folded(journal)[0] = W!NoManifest
      BY <1>2, FoldedSteps
    <2>2. Firing(manifest', registered')
      BY <1>1 DEF Firing
    <2> QED BY <1>1, <1>3, <2>1, <2>2
  <1> QED BY <1>1, <1>4, <1>5, <1>6, <1>7, <1>8 DEF WorkloadCore, PlaneTyped, PlaneFollows, AgreeBut

LEMMA WorkloadCoreStep ==
    ASSUME W!WorkloadAssumption, WorkloadCore, W!Next
    PROVE  WorkloadCore'
  <1>1. W!JobKind \subseteq W!Kind
    BY KindsAre
  <1>2. \A n \in Name : \A i \in Image \cup {Plain} : \A k \in W!Count : W!Apply(n, i, k) => WorkloadCore'
    <2> TAKE n \in Name
    <2> TAKE i \in Image \cup {Plain}
    <2> TAKE k \in W!Count
    <2>1. W!ApplyOp(n, i, k) \in PortalOps
      BY DEF W!ApplyOp, PortalOps
    <2> QED BY <2>1, PortalKeeps DEF W!Apply
  <1>3. ASSUME NEW n \in Name, NEW i \in Image \cup {Plain}, NEW k \in W!Count, W!DirectApply(n, i, k)
        PROVE  WorkloadCore'
    <2>1. W!ApplyOp(n, i, k) \in PlaneOps /\ W!ApplyOp(n, i, k).act # "rollout"
      BY DEF W!ApplyOp, PlaneOps, PortalOps
    <2> QED BY <1>3, <2>1, DirectKeeps DEF W!DirectApply
  <1>4. ASSUME NEW n \in Name, NEW i \in Image \cup {Plain}, W!Edit(n, i)
        PROVE  WorkloadCore'
    <2> DEFINE op == [act |-> "edit", kind |-> "Workload", name |-> n, image |-> i]
    <2>1. op \in PortalOps
      BY DEF PortalOps
    <2>2. W!Portal(op)
      BY <1>4 DEF W!Edit
    <2> HIDE DEF op
    <2> QED BY <2>1, <2>2, PortalKeeps
  <1>5. ASSUME NEW n \in Name, NEW k \in W!Count, W!Scale(n, k)
        PROVE  WorkloadCore'
    <2> DEFINE op == [act |-> "scale", kind |-> "Workload", name |-> n, replicas |-> k]
    <2>1. op \in PortalOps
      BY DEF PortalOps
    <2>2. W!Portal(op)
      BY <1>5 DEF W!Scale
    <2> HIDE DEF op
    <2> QED BY <2>1, <2>2, PortalKeeps
  <1>6. ASSUME NEW n \in Name, W!Rollout(n)
        PROVE  WorkloadCore'
    <2>1. W!Op("rollout", "Workload", n) \in PortalOps
      BY DEF PortalOps, W!Op
    <2> QED BY <1>6, <2>1, PortalKeeps DEF W!Rollout
  <1>7. ASSUME NEW n \in Name, NEW kind \in W!Kind, W!DirectDelete(kind, n)
        PROVE  WorkloadCore'
    <2>1. W!Op("delete", kind, n) \in PlaneOps /\ W!Op("delete", kind, n).act # "rollout"
      BY DEF PlaneOps, W!Op
    <2> QED BY <1>7, <2>1, DirectKeeps DEF W!DirectDelete
  <1>8. ASSUME NEW n \in Name, NEW kind \in W!Kind, NEW rev \in revisions[kind][n], W!Rollback(kind, n, rev)
        PROVE  WorkloadCore'
    <2>1. CASE kind = "Workload"
      <3>1. rev \in AnyBody
        BY <2>1 DEF WorkloadCore, PlaneTyped, AreRevisions
      <3>2. rev.image \in Image \cup {Plain} /\ rev.replicas \in W!Count
        BY <3>1 DEF AnyBody
      <3>3. W!Apply(n, rev.image, rev.replicas)
        BY <1>8, <2>1 DEF W!Rollback
      <3> QED BY <1>2, <3>2, <3>3
    <2>2. CASE kind # "Workload"
      <3>1. W!Apply(n, Plain, 1)
        BY <1>8, <2>2 DEF W!Rollback
      <3>2. 1 \in W!Count /\ Plain \in Image \cup {Plain}
        BY DEF W!Count, W!WorkloadAssumption
      <3> QED BY <1>2, <3>1, <3>2
    <2> QED BY <2>1, <2>2
  <1>9. ASSUME NEW n \in Name, NEW kind \in W!JobKind, W!DeleteScheduled(kind, n)
        PROVE  WorkloadCore'
    <2>1. W!Op("delete", kind, n) \in PortalOps
      BY DEF PortalOps, W!Op
    <2> QED BY <1>9, <2>1, PortalKeeps DEF W!DeleteScheduled
  <1>10. ASSUME NEW n \in Name, NEW kind \in W!JobKind, NEW c \in Command, W!ApplyScheduled(kind, n, c)
         PROVE  WorkloadCore'
    <2> DEFINE op == [act |-> "schedule", kind |-> kind, name |-> n, command |-> c]
    <2>1. op \in PortalOps
      BY DEF PortalOps
    <2>2. W!Portal(op)
      BY <1>10 DEF W!ApplyScheduled
    <2> HIDE DEF op
    <2> QED BY <2>1, <2>2, PortalKeeps
  <1> QED BY <1>2, <1>3, <1>4, <1>5, <1>6, <1>7, <1>8, <1>9, <1>10,
             DiesKeeps, SweepKeeps, RestartKeeps, ReplayKeeps DEF W!Next

LEMMA WorkloadCoreSuffices ==
    ASSUME W!WorkloadAssumption, WorkloadCore
    PROVE  W!ReplicaInv /\ W!JournalTellsManifests /\ W!DeletedStopsFiring
  <1>1. /\ FoldedBack \in Nat /\ FoldedBack <= Len(journal) /\ Len(journal) \in Nat
        /\ Len(pending) \in Nat /\ JournalKept
    BY FoldedBackNat DEF WorkloadCore
  <1>2. Declared(FoldedBack + missed) \subseteq W!Workload
    <2>1. 0..FoldedBack + missed \subseteq 0..MaxOps
      BY <1>1 DEF JournalKept, W!WorkloadAssumption
    <2> QED BY <2>1 DEF Declared, W!Workload
  <1>3. W!TypeOK
    <2>1. manifest["Workload"] \in [Name -> W!Workload \cup {None}]
      BY <1>2 DEF WorkloadCore, PlaneTyped, IsManifest
    <2>2. \A k \in W!JobKind : manifest[k] \in [Name -> W!Scheduled \cup {None}]
      BY DEF WorkloadCore, PlaneTyped, IsManifest
    <2>3. \A n \in Name : running[n] # None =>
             running[n].image \in Image /\ running[n].desired \in W!Count /\ running[n].replicas \in Seq(W!Replica)
      BY DEF WorkloadCore, PlaneTyped, AreRunning, Supervised
    <2>4. Len(journal) + missed \in 0..MaxOps /\ missed \in Nat /\ Len(pending) \in 0..MaxOps
      BY <1>1 DEF JournalKept, W!WorkloadAssumption
    <2> QED BY <2>1, <2>2, <2>3, <2>4 DEF W!TypeOK, WorkloadCore, PlaneTyped
  <1>4. W!ReplicasAreOfOneImage
    <2> SUFFICES ASSUME NEW n \in Name, running[n] # None
                 PROVE  /\ Len(running[n].replicas) <= running[n].desired
                        /\ \A i \in DOMAIN running[n].replicas :
                              running[n].replicas[i].image = running[n].image
      BY DEF W!ReplicasAreOfOneImage
    <2>1. Supervised(running[n])
      BY DEF WorkloadCore, PlaneTyped, AreRunning
    <2>2. DOMAIN running[n].replicas = 1..Len(running[n].replicas)
      BY <2>1 DEF Supervised
    <2> QED BY <2>1, <2>2 DEF Supervised
  <1>5. W!Serving => FoldedBack = Len(journal)
    <2>1. Len(<<>>) = 0
      OBVIOUS
    <2> QED BY <1>1, <2>1 DEF W!Serving, FoldedBack
  <1>6. W!JournalTellsManifests
    BY <1>5 DEF W!JournalTellsManifests, WorkloadCore, PlaneFollows, AgreeBut
  <1>7. W!DeletedStopsFiring
    BY DEF W!DeletedStopsFiring, WorkloadCore, PlaneFollows, Firing
  <1> QED BY <1>3, <1>4, <1>6, <1>7 DEF W!ReplicaInv

LEMMA WorkloadSteps ==
    ASSUME [MCNext]_mcVars
    PROVE  W!Next \/ UNCHANGED workloadVars
  BY DEF MCNext, LocalNext, mcVars, localVars, InMigration

\* The declared workloads, for any names, images and commands: through image
\* changes, failing fetches and spawns, deaths, sweeps and restarts, every
\* replica of a workload runs its image; the manifests served are those
\* replaying the journal gives, but for the ones of which the last append
\* failed and no whole body was recorded since; and no name of which every schedule is
\* deleted is registered.
THEOREM WorkloadsHold ==
    ASSUME W!WorkloadAssumption
    PROVE  MCSpec => []WorkloadInv
  <1>1. MCInit => WorkloadCore
    BY WorkloadCoreInit DEF MCInit
  <1>2. WorkloadCore /\ [MCNext]_mcVars => WorkloadCore'
    <2> SUFFICES ASSUME WorkloadCore, [MCNext]_mcVars PROVE WorkloadCore'
      OBVIOUS
    <2>1. CASE W!Next
      BY <2>1, WorkloadCoreStep
    <2>2. CASE UNCHANGED workloadVars
      BY <2>2 DEF workloadVars, WorkloadCore, JournalKept, PlaneTyped, PlaneFollows, FoldedBack
    <2> QED BY <2>1, <2>2, WorkloadSteps
  <1>3. WorkloadCore => WorkloadInv
    BY WorkloadCoreSuffices DEF WorkloadInv
  <1> QED BY <1>1, <1>2, <1>3, PTL DEF MCSpec

(***************************************************************************)
(* The signal store.                                                       *)
(***************************************************************************)

\* A block holds finitely many signals, at most as many as configured.
IsBlock(b) ==
    /\ b.latest \in Nat
    /\ IsFiniteSet(DOMAIN b.signals) /\ Cardinality(DOMAIN b.signals) <= Capacity

\* A block that keeps the signal until the deadline d.
Keeps(b, id, d) == id \in DOMAIN b.signals /\ d <= b.latest

KeptUntil(o, s, id, d) == Keeps(o, id, d) \/ \E i \in 1..Len(s) : Keeps(s[i], id, d)

BlocksKept ==
    /\ IsBlock(open) /\ \E X : sealed \in Seq(X)
    /\ \A i \in 1..Len(sealed) : IsBlock(sealed[i]) /\ Cardinality(DOMAIN sealed[i].signals) = Capacity

\* What is held was written, and not later than now.
WrittenBefore ==
    /\ DOMAIN open.signals \subseteq DOMAIN ticks
    /\ \A i \in 1..Len(sealed) : DOMAIN sealed[i].signals \subseteq DOMAIN ticks
    /\ \A id \in DOMAIN ticks : ticks[id] \in 0..now
    /\ now \in Nat /\ clock \in 0..now

\* The latest deadline of a payload is that of one of the blocks that hold it.
PromisesKept ==
    \A id \in DOMAIN promised :
        promised[id] \in Nat /\ (promised[id] > now => KeptUntil(open, sealed, id, promised[id]))

PoliciesTyped == \A i \in DOMAIN policies : policies[i].window \in Nat \cup {None}

SignalCore == BlocksKept /\ WrittenBefore /\ PromisesKept /\ PoliciesTyped

LEMMA SameCardinality == \A X : S!Cardinality(X) = Cardinality(X)
  BY DEF S!Cardinality, Cardinality

LEMMA WithIs ==
    ASSUME NEW f, NEW k, NEW v
    PROVE  /\ DOMAIN S!With(f, k, v) = DOMAIN f \cup {k}
           /\ S!With(f, k, v)[k] = v
           /\ \A x \in DOMAIN f : x # k => S!With(f, k, v)[x] = f[x]
  BY DEF S!With

LEMMA OrInsertIs ==
    ASSUME NEW f, NEW k, NEW v
    PROVE  /\ DOMAIN S!OrInsert(f, k, v) = DOMAIN f \cup {k}
           /\ \A x \in DOMAIN f : S!OrInsert(f, k, v)[x] = f[x]
           /\ k \notin DOMAIN f => S!OrInsert(f, k, v)[k] = v
  <1>1. CASE k \in DOMAIN f
    <2>1. S!OrInsert(f, k, v) = f
      BY <1>1 DEF S!OrInsert
    <2> QED BY <1>1, <2>1
  <1>2. CASE k \notin DOMAIN f
    <2>1. S!OrInsert(f, k, v) = S!With(f, k, v)
      BY <1>2 DEF S!OrInsert
    <2>2. /\ DOMAIN S!With(f, k, v) = DOMAIN f \cup {k}
          /\ S!With(f, k, v)[k] = v
          /\ \A x \in DOMAIN f : x # k => S!With(f, k, v)[x] = f[x]
      BY DEF S!With
    <2> QED BY ONLY <1>2, <2>1, <2>2
  <1> QED BY <1>1, <1>2

LEMMA LargerOf ==
    ASSUME NEW a \in Nat, NEW b \in Nat
    PROVE  /\ S!Max({a, b}) \in {a, b} /\ S!Max({a, b}) \in Nat
           /\ S!Max({a, b}) >= a /\ S!Max({a, b}) >= b
  <1>1. \E x \in {a, b} : \A y \in {a, b} : x >= y
    OBVIOUS
  <1>2. S!Max({a, b}) \in {a, b} /\ \A y \in {a, b} : S!Max({a, b}) >= y
    BY <1>1 DEF S!Max
  <1> QED BY <1>2

\* A window is a natural number, whichever policies match.
LEMMA WindowNat ==
    ASSUME S!StoreAssumption, PoliciesTyped, NEW kind, NEW labels
    PROVE  S!EffectiveWindow(kind, labels) \in Nat
  <1> DEFINE ws == {policies[i].window : i \in S!Matching(kind, labels)} \ {None}
  <1>1. ws \in SUBSET Nat
    BY DEF PoliciesTyped, S!Matching
  <1>2. S!EffectiveWindow(kind, labels) = IF ws = {} THEN Retention ELSE S!Min(ws)
    BY DEF S!EffectiveWindow
  <1>3. Retention \in Nat
    BY DEF S!StoreAssumption
  <1> HIDE DEF ws
  <1>4. ASSUME ws # {} PROVE S!Min(ws) \in ws
    <2>1. \E n \in ws : \A m \in ws : n <= m
      BY <1>1, <1>4, LeastNatural
    <2> QED BY <2>1 DEF S!Min
  <1> QED BY <1>1, <1>2, <1>3, <1>4

\* The latest tick is not later than now.
LEMMA LatestTickNow ==
    ASSUME SignalCore
    PROVE  S!LatestTick \in 0..now
  <1> DEFINE X == {ticks[id] : id \in S!Held} \cup {0}
  <1>1. now \in Nat /\ \A id \in DOMAIN ticks : ticks[id] \in 0..now
    BY DEF SignalCore, WrittenBefore
  <1>2. DOMAIN sealed = 1..Len(sealed)
    BY DEF SignalCore, BlocksKept
  <1>3. S!Held \subseteq DOMAIN ticks
    BY <1>2 DEF SignalCore, WrittenBefore, S!Held
  <1>4. X \in SUBSET Nat /\ X # {} /\ \A x \in X : x <= now /\ x \in 0..now
    BY <1>1, <1>3
  <1>5. S!LatestTick = S!Max(X)
    BY DEF S!LatestTick
  <1> HIDE DEF X
  <1>6. \E n \in X : \A m \in X : m <= n
    BY <1>1, <1>4, GreatestNatural
  <1>7. \E n \in X : \A m \in X : n >= m
    BY <1>4, <1>6
  <1>8. S!Max(X) \in X
    BY <1>7 DEF S!Max
  <1> QED BY <1>4, <1>5, <1>8

\* A block that takes a signal keeps what it held, and the signal until its
\* deadline.
LEMMA AdmittedKeeps ==
    ASSUME S!StoreAssumption, NEW b, IsBlock(b), ~S!Full(b), NEW id, NEW signal, NEW expiry \in Nat
    PROVE  /\ IsBlock(S!Admitted(b, id, signal, expiry))
           /\ DOMAIN S!Admitted(b, id, signal, expiry).signals = DOMAIN b.signals \cup {id}
           /\ \A d \in Nat : d <= expiry => Keeps(S!Admitted(b, id, signal, expiry), id, d)
           /\ \A x : \A d \in Nat : Keeps(b, x, d) => Keeps(S!Admitted(b, id, signal, expiry), x, d)
  <1> DEFINE new == S!Admitted(b, id, signal, expiry)
             D == DOMAIN b.signals
  <1>1. new = [signals |-> S!OrInsert(b.signals, id, signal), latest |-> S!Max({b.latest, expiry})]
    BY DEF S!Admitted
  <1>2. new.latest \in Nat /\ new.latest >= b.latest /\ new.latest >= expiry
    BY <1>1, LargerOf DEF IsBlock
  <1>3. DOMAIN new.signals = D \cup {id}
    <2>1. new.signals = S!OrInsert(b.signals, id, signal)
      BY <1>1
    <2>2. DOMAIN S!OrInsert(b.signals, id, signal) = D \cup {id}
      BY ONLY OrInsertIs
    <2> QED BY <2>1, <2>2
  <1>4. IsFiniteSet(D) /\ Cardinality(D) \in Nat /\ Cardinality(D) < Capacity /\ Capacity \in Nat /\ b.latest \in Nat
    BY SameCardinality, FS_CardinalityType DEF IsBlock, S!Full, S!StoreAssumption
  <1>5. IsFiniteSet(D \cup {id}) /\ Cardinality(D \cup {id}) <= Capacity
    BY <1>4, FS_AddElement
  <1> HIDE DEF new, D
  <1>6. IsBlock(new) /\ DOMAIN new.signals = DOMAIN b.signals \cup {id}
    BY <1>2, <1>3, <1>5 DEF IsBlock, D
  <1>7. \A d \in Nat : d <= expiry => Keeps(new, id, d)
    BY <1>2, <1>3 DEF Keeps
  <1>8. \A x : \A d \in Nat : Keeps(b, x, d) => Keeps(new, x, d)
    BY <1>2, <1>4, <1>6 DEF Keeps
  <1> QED BY <1>6, <1>7, <1>8 DEF new

LEMMA EmptyIsBlock ==
    ASSUME S!StoreAssumption
    PROVE  IsBlock(S!EmptyBlock) /\ ~S!Full(S!EmptyBlock) /\ DOMAIN S!EmptyBlock.signals = {}
  <1>1. S!EmptyBlock.signals = <<>> /\ S!EmptyBlock.latest = 0
    BY DEF S!EmptyBlock
  <1>2. DOMAIN <<>> = {}
    OBVIOUS
  <1>3. DOMAIN S!EmptyBlock.signals = {}
    BY <1>1, <1>2
  <1>4. Cardinality({}) = 0 /\ IsFiniteSet({}) /\ S!Cardinality({}) = 0
    BY FS_EmptySet, SameCardinality
  <1>5. Capacity \in Nat \ {0}
    BY DEF S!StoreAssumption
  <1> QED BY <1>1, <1>3, <1>4, <1>5 DEF IsBlock, S!Full

\* Storing a signal keeps what was kept, and the signal until its deadline.
LEMMA StoreKeeps ==
    ASSUME S!StoreAssumption, BlocksKept, NEW id, NEW signal, NEW expiry \in Nat,
           S!Store(id, signal, expiry)
    PROVE  /\ BlocksKept'
           /\ \A d \in Nat : d <= expiry => KeptUntil(open', sealed', id, d)
           /\ \A x : \A d \in Nat : KeptUntil(open, sealed, x, d) => KeptUntil(open', sealed', x, d)
           /\ \A Y : id \in Y /\ DOMAIN open.signals \subseteq Y
                       /\ (\A i \in 1..Len(sealed) : DOMAIN sealed[i].signals \subseteq Y)
                => /\ DOMAIN open'.signals \subseteq Y
                   /\ \A i \in 1..Len(sealed') : DOMAIN sealed'[i].signals \subseteq Y
  <1>1. IsBlock(open) /\ Capacity \in Nat
    BY DEF BlocksKept, S!StoreAssumption
  <1>2. PICK X : sealed \in Seq(X)
    BY DEF BlocksKept
  <1>3. CASE S!Full(open)
    <2> DEFINE new == S!Admitted(S!EmptyBlock, id, signal, expiry)
               N == Len(sealed)
    <2>1. sealed' = Append(sealed, open) /\ open' = new
      BY <1>3 DEF S!Store
    <2>2. /\ IsBlock(new) /\ DOMAIN new.signals = {id}
          /\ \A d \in Nat : d <= expiry => Keeps(new, id, d)
      BY EmptyIsBlock, AdmittedKeeps
    <2> HIDE DEF new
    <2>3. /\ sealed' \in Seq(X \cup {open}) /\ N \in Nat /\ Len(sealed') = N + 1 /\ sealed'[N + 1] = open
          /\ \A i \in 1..N : sealed'[i] = sealed[i]
      BY <1>2, <2>1
    <2>4. Cardinality(DOMAIN open.signals) = Capacity
      <3>1. Cardinality(DOMAIN open.signals) \in Nat
        BY <1>1, FS_CardinalityType DEF IsBlock
      <3> QED BY <1>1, <1>3, <3>1, SameCardinality DEF IsBlock, S!Full
    <2> HIDE DEF N
    <2>5. \A i \in 1..N + 1 : i \in 1..N \/ i = N + 1
      BY <2>3
    <2>6. \A i \in 1..N : i \in 1..N + 1
      BY <2>3
    <2>7. N + 1 \in 1..N + 1
      BY <2>3
    <2>8. BlocksKept'
      <3>1. \A i \in 1..N : IsBlock(sealed[i]) /\ Cardinality(DOMAIN sealed[i].signals) = Capacity
        BY DEF BlocksKept, N
      <3>2. \A i \in 1..N + 1 : IsBlock(sealed'[i]) /\ Cardinality(DOMAIN sealed'[i].signals) = Capacity
        BY <1>1, <2>3, <2>4, <2>5, <3>1
      <3>3. IsBlock(open')
        BY <2>1, <2>2
      <3> QED BY <2>3, <3>2, <3>3 DEF BlocksKept, IsBlock
    <2>9. \A d \in Nat : d <= expiry => KeptUntil(open', sealed', id, d)
      BY <2>1, <2>2 DEF KeptUntil, Keeps
    <2>10. \A x : \A d \in Nat : KeptUntil(open, sealed, x, d) => KeptUntil(open', sealed', x, d)
      <3> SUFFICES ASSUME NEW x, NEW d \in Nat, KeptUntil(open, sealed, x, d)
                   PROVE  \E i \in 1..Len(sealed') : Keeps(sealed'[i], x, d)
        BY DEF KeptUntil, Keeps
      <3>1. CASE Keeps(open, x, d)
        BY <2>3, <2>7, <3>1
      <3>2. CASE \E i \in 1..N : Keeps(sealed[i], x, d)
        BY <2>3, <2>6, <3>2
      <3> QED BY <3>1, <3>2 DEF KeptUntil, N
    <2>11. \A Y : id \in Y /\ DOMAIN open.signals \subseteq Y
                       /\ (\A i \in 1..Len(sealed) : DOMAIN sealed[i].signals \subseteq Y)
                => /\ DOMAIN open'.signals \subseteq Y
                   /\ \A i \in 1..Len(sealed') : DOMAIN sealed'[i].signals \subseteq Y
      BY <2>1, <2>2, <2>3, <2>5 DEF N
    <2> QED BY <2>8, <2>9, <2>10, <2>11
  <1>4. CASE ~S!Full(open)
    <2> DEFINE new == S!Admitted(open, id, signal, expiry)
    <2>1. sealed' = sealed /\ open' = new
      BY <1>4 DEF S!Store
    <2>2. /\ IsBlock(new) /\ DOMAIN new.signals = DOMAIN open.signals \cup {id}
          /\ \A d \in Nat : d <= expiry => Keeps(new, id, d)
          /\ \A x : \A d \in Nat : Keeps(open, x, d) => Keeps(new, x, d)
      BY <1>1, <1>4, AdmittedKeeps
    <2> HIDE DEF new
    <2>3. BlocksKept'
      BY <2>1, <2>2 DEF BlocksKept, IsBlock
    <2>4. \A d \in Nat : d <= expiry => KeptUntil(open', sealed', id, d)
      BY <2>1, <2>2 DEF KeptUntil, Keeps
    <2>5. \A x : \A d \in Nat : KeptUntil(open, sealed, x, d) => KeptUntil(open', sealed', x, d)
      BY <2>1, <2>2 DEF KeptUntil, Keeps
    <2>6. \A Y : id \in Y /\ DOMAIN open.signals \subseteq Y
                       /\ (\A i \in 1..Len(sealed) : DOMAIN sealed[i].signals \subseteq Y)
                => /\ DOMAIN open'.signals \subseteq Y
                   /\ \A i \in 1..Len(sealed') : DOMAIN sealed'[i].signals \subseteq Y
      BY <2>1, <2>2
    <2> QED BY <2>3, <2>4, <2>5, <2>6
  <1> QED BY <1>3, <1>4

\* A write that is admitted.
LEMMA AdmitKeeps ==
    ASSUME S!StoreAssumption, SignalCore, NEW id, NEW kind, NEW labels, NEW tick \in 0..now,
           S!Admit(id, kind, labels, tick), now' = now, clock' = clock, policies' = policies
    PROVE  SignalCore'
  <1> DEFINE expiry == tick + S!EffectiveWindow(kind, labels)
             due == IF id \in DOMAIN promised THEN S!Max({promised[id], expiry}) ELSE expiry
  <1>1. expiry \in Nat /\ now \in Nat
    BY WindowNat DEF SignalCore, WrittenBefore
  <1>2. /\ S!Store(id, [kind |-> kind, labels |-> labels], expiry)
        /\ ticks' = S!OrInsert(ticks, id, tick) /\ promised' = S!With(promised, id, due)
    BY DEF S!Admit
  <1> HIDE DEF expiry
  <1>3. /\ BlocksKept'
        /\ \A d \in Nat : d <= expiry => KeptUntil(open', sealed', id, d)
        /\ \A x : \A d \in Nat : KeptUntil(open, sealed, x, d) => KeptUntil(open', sealed', x, d)
        /\ \A Y : id \in Y /\ DOMAIN open.signals \subseteq Y
                       /\ (\A i \in 1..Len(sealed) : DOMAIN sealed[i].signals \subseteq Y)
                => /\ DOMAIN open'.signals \subseteq Y
                   /\ \A i \in 1..Len(sealed') : DOMAIN sealed'[i].signals \subseteq Y
    BY <1>1, <1>2, StoreKeeps DEF SignalCore
  <1>4. /\ DOMAIN ticks' = DOMAIN ticks \cup {id}
        /\ \A x \in DOMAIN ticks : ticks'[x] = ticks[x]
        /\ id \notin DOMAIN ticks => ticks'[id] = tick
    BY <1>2 DEF S!OrInsert, S!With
  <1>5. WrittenBefore'
    <2>1. /\ DOMAIN open'.signals \subseteq DOMAIN ticks'
          /\ \A i \in 1..Len(sealed') : DOMAIN sealed'[i].signals \subseteq DOMAIN ticks'
      <3>1. /\ id \in DOMAIN ticks' /\ DOMAIN open.signals \subseteq DOMAIN ticks'
            /\ \A i \in 1..Len(sealed) : DOMAIN sealed[i].signals \subseteq DOMAIN ticks'
        BY <1>4 DEF SignalCore, WrittenBefore
      <3> QED BY <1>3, <3>1
    <2>2. \A x \in DOMAIN ticks' : ticks'[x] \in 0..now
      BY <1>4 DEF SignalCore, WrittenBefore
    <2> QED BY <2>1, <2>2 DEF SignalCore, WrittenBefore
  <1>6. due \in Nat /\ (due > now => KeptUntil(open', sealed', id, due))
    <2>1. CASE id \in DOMAIN promised
      <3>1. promised[id] \in Nat /\ (promised[id] > now => KeptUntil(open, sealed, id, promised[id]))
        BY <2>1 DEF SignalCore, PromisesKept
      <3>2. due \in {promised[id], expiry} /\ due \in Nat
        BY <1>1, <2>1, <3>1, LargerOf
      <3> HIDE DEF due
      <3>3. CASE due = expiry
        BY <1>1, <1>3, <3>3
      <3>4. CASE due = promised[id]
        BY <1>3, <3>1, <3>4
      <3> QED BY <3>2, <3>3, <3>4
    <2>2. CASE id \notin DOMAIN promised
      <3>1. due = expiry
        BY <2>2
      <3> HIDE DEF due
      <3> QED BY <1>1, <1>3, <3>1
    <2> QED BY <2>1, <2>2
  <1> HIDE DEF due
  <1>7. /\ DOMAIN promised' = DOMAIN promised \cup {id} /\ promised'[id] = due
        /\ \A x \in DOMAIN promised : x # id => promised'[x] = promised[x]
    BY <1>2 DEF S!With
  <1>8. PromisesKept'
    <2> SUFFICES ASSUME NEW x \in DOMAIN promised'
                 PROVE  promised'[x] \in Nat /\ (promised'[x] > now' => KeptUntil(open', sealed', x, promised'[x]))
      BY DEF PromisesKept
    <2>1. CASE x = id
      <3>1. due \in Nat /\ (due > now' => KeptUntil(open', sealed', id, due))
        BY <1>6
      <3>2. promised'[x] = due
        BY <1>7, <2>1
      <3> QED BY <3>1, <3>2, <2>1
    <2>2. CASE x # id
      <3>1. x \in DOMAIN promised /\ promised'[x] = promised[x]
        BY <1>7, <2>2
      <3>2. promised[x] \in Nat /\ (promised[x] > now => KeptUntil(open, sealed, x, promised[x]))
        BY <3>1 DEF SignalCore, PromisesKept
      <3> DEFINE d == promised[x]
      <3>3. d \in Nat /\ (d > now' => KeptUntil(open, sealed, x, d))
        BY <3>2
      <3>4. promised'[x] = d
        BY <3>1
      <3> QED BY <1>3, <3>3, <3>4
    <2> QED BY <2>1, <2>2
  <1>9. PoliciesTyped'
    BY DEF SignalCore, PoliciesTyped
  <1> QED BY <1>3, <1>5, <1>8, <1>9 DEF SignalCore

\* What compaction leaves: blocks there were, and every one whose deadline has
\* not come.
LEMMA RetainedIs ==
    ASSUME NEW X, NEW blocks \in Seq(X)
    PROVE  /\ S!Retained(blocks) \in Seq(X)
           /\ \A j \in 1..Len(S!Retained(blocks)) : \E i \in 1..Len(blocks) : S!Retained(blocks)[j] = blocks[i]
           /\ \A i \in 1..Len(blocks) : now < blocks[i].latest =>
                 \E j \in 1..Len(S!Retained(blocks)) : S!Retained(blocks)[j] = blocks[i]
  <1> DEFINE N == Len(blocks)
             P == {i \in 1..N : now < blocks[i].latest}
             IsAmong(f) == f = [i \in 0..N |-> IF i = 0 THEN <<>>
                                   ELSE IF now < blocks[i].latest THEN Append(f[i - 1], blocks[i]) ELSE f[i - 1]]
             g == CHOOSE f : IsAmong(f)
  <1>1. S!Retained(blocks) = g[N]
    BY DEF S!Retained
  <1>2. N \in Nat
    OBVIOUS
  <1> HIDE DEF N
  <1>3. \A i \in 0..N : i # 0 => (i \in P <=> now < blocks[i].latest)
    BY <1>2
  <1> HIDE DEF P
  <1>4. \A f : IsSelection(blocks, P, f) <=> IsAmong(f)
    BY <1>3 DEF IsSelection, N
  <1>5. IsSelection(blocks, P, g)
    BY <1>4, SelectionExists
  <1> HIDE DEF g
  <1>6. /\ g[N] \in Seq(X)
        /\ \A j \in 1..Len(g[N]) : \E i \in 1..N : i \in P /\ g[N][j] = blocks[i]
        /\ \A i \in 1..N : i \in P => \E j \in 1..Len(g[N]) : g[N][j] = blocks[i]
    BY <1>5, SelectionIs DEF N
  <1> QED BY <1>1, <1>6 DEF N, P

LEMMA CompactKeeps ==
    ASSUME S!StoreAssumption, SignalCore, S!Compact
    PROVE  SignalCore'
  <1>1. /\ sealed' = S!Retained(sealed) /\ open' = open /\ ticks' = ticks /\ promised' = promised
        /\ now' = now /\ clock' = clock /\ policies' = policies
    BY DEF S!Compact
  <1>2. PICK X : sealed \in Seq(X)
    BY DEF SignalCore, BlocksKept
  <1>3. /\ sealed' \in Seq(X)
        /\ \A j \in 1..Len(sealed') : \E i \in 1..Len(sealed) : sealed'[j] = sealed[i]
        /\ \A i \in 1..Len(sealed) : now < sealed[i].latest =>
              \E j \in 1..Len(sealed') : sealed'[j] = sealed[i]
    BY <1>1, <1>2, RetainedIs
  <1>4. BlocksKept'
    <2>1. \A j \in 1..Len(sealed') :
             IsBlock(sealed'[j]) /\ Cardinality(DOMAIN sealed'[j].signals) = Capacity
      BY <1>3 DEF SignalCore, BlocksKept
    <2>2. IsBlock(open')
      BY <1>1 DEF SignalCore, BlocksKept
    <2> QED BY <1>3, <2>1, <2>2 DEF BlocksKept, IsBlock
  <1>5. WrittenBefore'
    <2>1. \A j \in 1..Len(sealed') : DOMAIN sealed'[j].signals \subseteq DOMAIN ticks
      BY <1>3 DEF SignalCore, WrittenBefore
    <2> QED BY <1>1, <2>1 DEF SignalCore, WrittenBefore
  <1>6. PromisesKept'
    <2> SUFFICES ASSUME NEW id \in DOMAIN promised, promised[id] > now
                 PROVE  KeptUntil(open', sealed', id, promised[id])
      BY <1>1 DEF SignalCore, PromisesKept
    <2> DEFINE d == promised[id]
    <2>1. d \in Nat /\ d > now /\ now \in Nat /\ KeptUntil(open, sealed, id, d)
      BY DEF SignalCore, PromisesKept, WrittenBefore
    <2> HIDE DEF d
    <2>2. CASE Keeps(open, id, d)
      BY <1>1, <2>2 DEF KeptUntil, d
    <2>3. CASE \E i \in 1..Len(sealed) : Keeps(sealed[i], id, d)
      <3>1. PICK i \in 1..Len(sealed) : Keeps(sealed[i], id, d)
        BY <2>3
      <3>2. sealed[i].latest \in Nat
        BY DEF SignalCore, BlocksKept, IsBlock
      <3>3. now < sealed[i].latest
        BY <2>1, <3>1, <3>2 DEF Keeps
      <3>4. \E j \in 1..Len(sealed') : Keeps(sealed'[j], id, d)
        BY <1>3, <3>1, <3>3
      <3> QED BY <3>4 DEF KeptUntil, d
    <2> QED BY <2>1, <2>2, <2>3 DEF KeptUntil
  <1>7. PoliciesTyped'
    BY <1>1 DEF SignalCore, PoliciesTyped
  <1> QED BY <1>4, <1>5, <1>6, <1>7 DEF SignalCore

LEMMA WriteKeeps ==
    ASSUME S!StoreAssumption, SignalCore, NEW id, NEW kind, NEW labels, NEW tick \in 0..now,
           S!WriteLabeled(id, kind, labels, tick)
    PROVE  SignalCore'
  <1>1. now' = now /\ clock' = clock /\ policies' = policies
    BY DEF S!WriteLabeled
  <1>2. CASE S!Admit(id, kind, labels, tick)
    BY <1>1, <1>2, AdmitKeeps
  <1>3. CASE UNCHANGED <<open, sealed, ticks, buckets, promised>>
    BY <1>1, <1>3 DEF SignalCore, BlocksKept, WrittenBefore, PromisesKept, PoliciesTyped
  <1> QED BY <1>2, <1>3 DEF S!WriteLabeled

LEMMA SignalCoreInit ==
    ASSUME S!StoreAssumption, S!SignalInit
    PROVE  SignalCore
  <1>1. Len(<<>>) = 0 /\ DOMAIN <<>> = {} /\ <<>> \in Seq({})
    OBVIOUS
  <1>2. /\ policies = <<>> /\ open = S!EmptyBlock /\ sealed = <<>> /\ ticks = <<>>
        /\ now = 0 /\ clock = 0 /\ promised = <<>>
    BY DEF S!SignalInit
  <1>3. Len(sealed) = 0 /\ (\A i \in 1..Len(sealed) : FALSE) /\ \E X : sealed \in Seq(X)
    BY <1>1, <1>2
  <1>4. BlocksKept
    BY <1>2, <1>3, EmptyIsBlock DEF BlocksKept
  <1>5. WrittenBefore
    BY <1>1, <1>2, <1>3, EmptyIsBlock DEF WrittenBefore
  <1>6. PromisesKept /\ PoliciesTyped
    BY <1>1, <1>2 DEF PromisesKept, PoliciesTyped
  <1> QED BY <1>4, <1>5, <1>6 DEF SignalCore

LEMMA SignalCoreStep ==
    ASSUME S!StoreAssumption, SignalCore, S!SignalNext
    PROVE  SignalCore'
  <1>1. now \in Nat /\ clock \in 0..now /\ now \in 0..now
    BY DEF SignalCore, WrittenBefore
  <1>2. ASSUME NEW s \in Source, S!Emit(s) PROVE SignalCore'
    <2> DEFINE tick == IF s.component THEN clock ELSE now
               id == [text |-> s.text, value |-> 0, at |-> tick]
    <2>1. tick \in 0..now /\ S!WriteLabeled(id, s.kind, s.labels, tick)
      BY <1>1, <1>2 DEF S!Emit
    <2> HIDE DEF tick, id
    <2> QED BY <2>1, WriteKeeps
  <1>3. ASSUME NEW r \in Rule, S!EvaluateRule(r) PROVE SignalCore'
    <2> DEFINE id == [text |-> r.emit, value |-> S!CountOf(r.kind), at |-> -1]
    <2>1. S!WriteLabeled(id, "Metric", {r.id}, S!LatestTick)
      BY <1>3 DEF S!EvaluateRule
    <2> HIDE DEF id
    <2> QED BY <2>1, LatestTickNow, WriteKeeps
  <1>4. ASSUME NEW ps \in PolicySet, S!SetPolicies(ps) PROVE SignalCore'
    <2>1. /\ policies' = ps /\ open' = open /\ sealed' = sealed /\ ticks' = ticks
          /\ now' = now /\ clock' = clock /\ promised' = promised
      BY <1>4 DEF S!SetPolicies
    <2>2. PoliciesTyped'
      BY <1>4, <2>1 DEF S!StoreAssumption, PoliciesTyped
    <2> QED BY <2>1, <2>2 DEF SignalCore, BlocksKept, WrittenBefore, PromisesKept
  <1>5. ASSUME S!Second PROVE SignalCore'
    <2>1. /\ now' = now + 1 /\ open' = open /\ sealed' = sealed /\ ticks' = ticks
          /\ policies' = policies /\ clock' = clock /\ promised' = promised
      BY <1>5 DEF S!Second
    <2>2. now' \in Nat /\ clock' \in 0..now' /\ 0..now \subseteq 0..now'
      BY <1>1, <2>1
    <2>3. WrittenBefore'
      BY <2>1, <2>2 DEF SignalCore, WrittenBefore
    <2>4. PromisesKept'
      <3>1. \A id \in DOMAIN promised : promised[id] \in Nat /\ (promised[id] > now' => promised[id] > now)
        BY <1>1, <2>1 DEF SignalCore, PromisesKept
      <3> QED BY <2>1, <3>1 DEF SignalCore, PromisesKept
    <2> QED BY <2>1, <2>3, <2>4 DEF SignalCore, BlocksKept, PoliciesTyped
  <1>6. ASSUME S!AdvanceClock PROVE SignalCore'
    <2>1. /\ clock' = now /\ now' = now /\ open' = open /\ sealed' = sealed /\ ticks' = ticks
          /\ policies' = policies /\ promised' = promised
      BY <1>6 DEF S!AdvanceClock
    <2>2. WrittenBefore'
      BY <1>1, <2>1 DEF SignalCore, WrittenBefore
    <2> QED BY <2>1, <2>2 DEF SignalCore, BlocksKept, PromisesKept, PoliciesTyped
  <1> QED BY <1>2, <1>3, <1>4, <1>5, <1>6, CompactKeeps DEF S!SignalNext

LEMMA SignalCoreSuffices ==
    ASSUME SignalCore
    PROVE  S!SignalInv
  <1>1. DOMAIN sealed = 1..Len(sealed)
    BY DEF SignalCore, BlocksKept
  <1>2. S!HeldUntilDeadline
    BY <1>1 DEF S!HeldUntilDeadline, S!Holds, SignalCore, PromisesKept, KeptUntil, Keeps
  <1>3. S!BlocksAreWhole
    <2>1. \A i \in DOMAIN sealed : S!Cardinality(DOMAIN sealed[i].signals) = Capacity
      BY <1>1, SameCardinality DEF SignalCore, BlocksKept
    <2>2. S!Held \subseteq DOMAIN ticks
      BY <1>1 DEF SignalCore, WrittenBefore, S!Held
    <2> QED BY <2>1, <2>2 DEF S!BlocksAreWhole
  <1> QED BY <1>2, <1>3 DEF S!SignalInv

LEMMA SignalSteps ==
    ASSUME [MCNext]_mcVars
    PROVE  S!SignalNext \/ UNCHANGED signalVars
  BY DEF MCNext, LocalNext, mcVars, localVars, InMigration

\* The signal store, for any sources, rules, policies and capacity: "never
\* early".  A signal is held until the last deadline any write of its payload
\* was given, although a payload keeps its first tick, may lie in several
\* blocks and the policies change between its writes.
THEOREM SignalsHold ==
    ASSUME S!StoreAssumption
    PROVE  MCSpec => []SignalInv
  <1>1. MCInit => SignalCore
    BY SignalCoreInit DEF MCInit
  <1>2. SignalCore /\ [MCNext]_mcVars => SignalCore'
    <2> SUFFICES ASSUME SignalCore, [MCNext]_mcVars PROVE SignalCore'
      OBVIOUS
    <2>1. CASE S!SignalNext
      BY <2>1, SignalCoreStep
    <2>2. CASE UNCHANGED signalVars
      BY <2>2 DEF signalVars, SignalCore, BlocksKept, WrittenBefore, PromisesKept, PoliciesTyped
    <2> QED BY <2>1, <2>2, SignalSteps
  <1>3. SignalCore => SignalInv
    BY SignalCoreSuffices DEF SignalInv
  <1> QED BY <1>1, <1>2, <1>3, PTL DEF MCSpec
=============================================================================
