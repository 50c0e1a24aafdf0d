--------------------------- MODULE ProgressProofs ---------------------------
(***************************************************************************)
(* Proofs about the components of MCProgress: the UDP load balancer counts *)
(* its relay tasks, a command takes only its own answers, the pillar-udp   *)
(* pumps deliver in order and implement the byte pipe, and the two         *)
(* throttles bound the guessing of passwords.  Each is proved for its own  *)
(* specification and then for the composition.                             *)
(***************************************************************************)
EXTENDS MCProgress, InductionLemmas


-----------------------------------------------------------------------------
(* UdpDataplane *)

\* The i-th backend of the live ones exists as long as there are more than i.
LEMMA NthExists ==
  ASSUME NEW live \in SUBSET Nat, IsFiniteSet(live)
  PROVE  \A i \in Nat : i < Cardinality(live) =>
            \E b \in live : Cardinality({a \in live : a < b}) = i
<1> DEFINE T == {i \in Nat : i < Cardinality(live) =>
                    \E b \in live : Cardinality({a \in live : a < b}) = i}
<1>c. Cardinality(live) \in Nat
  BY FS_CardinalityType
<1>n. \A a, b \in live : (a < b \/ a = b \/ b < a) /\ ~(a < b /\ b <= a) /\ (a <= b <=> a < b \/ a = b)
  OBVIOUS
<1>1. 0 \in T
  <2> SUFFICES ASSUME 0 < Cardinality(live)
               PROVE  \E b \in live : Cardinality({a \in live : a < b}) = 0
    OBVIOUS
  <2>1. live # {}
    BY FS_EmptySet
  <2>2. PICK b \in live : \A a \in live : b <= a
    BY <2>1, LeastNatural
  <2>3. {a \in live : a < b} = {}
    BY <2>2, <1>n
  <2> QED BY <2>2, <2>3, FS_EmptySet
<1>2. ASSUME NEW i \in Nat, i \in T
      PROVE  i + 1 \in T
  <2> SUFFICES ASSUME i + 1 < Cardinality(live)
               PROVE  \E b \in live : Cardinality({a \in live : a < b}) = i + 1
    OBVIOUS
  <2>1. PICK b \in live : Cardinality({a \in live : a < b}) = i
    BY <1>2, <1>c
  <2> DEFINE below == {a \in live : a < b}
             above == {a \in live : b < a}
  <2>2. IsFiniteSet(below) /\ b \notin below
    BY FS_Subset
  <2>3. Cardinality(below \cup {b}) = i + 1 /\ IsFiniteSet(below \cup {b})
    BY <2>1, <2>2, FS_AddElement
  <2>4. above # {}
    <3> SUFFICES ASSUME above = {} PROVE FALSE
      OBVIOUS
    <3>1. live = below \cup {b}
      BY <1>n
    <3> QED BY <2>3, <3>1
  <2>5. PICK d \in above : \A a \in above : d <= a
    BY <2>4, LeastNatural
  <2>6. {a \in live : a < d} = below \cup {b}
    <3>1. ASSUME NEW a \in live
          PROVE  a < d <=> a < b \/ a = b
      <4>1. a \in Nat /\ b \in Nat /\ d \in Nat /\ b < d
        BY <2>5
      <4>2. b < a => d <= a
        BY <2>5
      <4> QED BY <4>1, <4>2
    <3> QED BY <3>1
  <2> QED BY <2>3, <2>5, <2>6
<1> HIDE DEF T
<1>3. Nat \subseteq T
  BY <1>1, <1>2, InductionOnNat
<1> QED BY <1>3 DEF T

\* So does a least-loaded backend: of the smallest counts the first.
LEMMA LeastLoadedExists ==
  ASSUME NEW live \in SUBSET Nat, live # {}, NEW n, \A b \in live : n[b] \in Nat
  PROVE  \E b \in live : \A a \in live : n[b] < n[a] \/ (n[b] = n[a] /\ b <= a)
<1> DEFINE C == {n[b] : b \in live}
<1>1. PICK m \in C : \A k \in C : m <= k
  BY LeastNatural
<1> DEFINE B == {b \in live : n[b] = m}
<1>2. PICK b \in B : \A a \in B : b <= a
  BY <1>1, LeastNatural
<1>3. \A a \in live : n[b] <= n[a] /\ n[b] \in Nat /\ n[a] \in Nat
  BY <1>1, <1>2
<1>4. \A a \in live : n[b] = n[a] => b <= a
  BY <1>2
<1>5. \A a \in live : n[b] < n[a] \/ (n[b] = n[a] /\ b <= a)
  BY <1>3, <1>4
<1> QED BY <1>2, <1>5

BalancerTypeOK ==
    /\ policy \in [algorithm : D!Algorithm, sticky : BOOLEAN, active : BOOLEAN]
    /\ outstanding \in [D!Backend -> Nat]
    /\ sticky \in [Client -> D!Backend \cup {None}]
    /\ cursor \in Nat
    /\ picked # None => /\ picked.client \in Client
                        /\ picked.live \in SUBSET D!Backend /\ picked.live # {}
    /\ relays \in [D!Slot -> D!Relay \cup {None}]

TasksOf(b) == {s \in D!Slot : relays[s] # None /\ relays[s].backend = b}

\* The instance's cardinality is the library's.
LEMMA CardBridge == \A S : D!Cardinality(S) = Cardinality(S) /\ D!IsFiniteSet(S) = IsFiniteSet(S)
  BY DEF D!Cardinality, D!IsFiniteSet, Cardinality, IsFiniteSet

\* select_backend of every policy picks one of the live backends.
LEMMA SelectedIsLive ==
  ASSUME D!DataplaneAssumption, BalancerTypeOK,
         NEW c \in Client, NEW live \in SUBSET D!Backend, live # {}
  PROVE  D!SelectBackend(c, live) \in live
<1>1. live \in SUBSET Nat /\ IsFiniteSet(live)
  <2>1. D!Backend = 1..Backends /\ Backends \in Nat
    BY DEF D!Backend, D!DataplaneAssumption
  <2>2. IsFiniteSet(1..Backends)
    BY <2>1, FS_Interval
  <2>3. IsFiniteSet(live)
    BY <2>1, <2>2, FS_Subset
  <2> QED BY <2>1, <2>3
<1>2. Cardinality(live) \in Nat /\ Cardinality(live) # 0
  BY <1>1, FS_CardinalityType, FS_EmptySet
<1>3. \A i \in Nat : i % Cardinality(live) \in Nat /\ i % Cardinality(live) < Cardinality(live)
  BY <1>2
<1>4. ASSUME NEW i \in Nat
      PROVE  D!Nth(live, i % D!Cardinality(live)) \in live
  <2>1. \E b \in live : Cardinality({a \in live : a < b}) = i % Cardinality(live)
    BY <1>1, <1>3, NthExists
  <2> QED BY <2>1, CardBridge DEF D!Nth
<1>5. D!LeastLoaded(live) \in live
  <2>1. \A b \in live : outstanding[b] \in Nat
    BY DEF BalancerTypeOK
  <2>2. \E b \in live : \A a \in live :
            outstanding[b] < outstanding[a] \/ (outstanding[b] = outstanding[a] /\ b <= a)
    BY <1>1, <2>1, LeastLoadedExists
  <2> QED BY <2>2 DEF D!LeastLoaded
<1>6. cursor \in Nat /\ Hash[c] \in Nat /\ policy.algorithm \in D!Algorithm
  BY DEF BalancerTypeOK, D!DataplaneAssumption
<1>7. D!Nth(live, cursor % D!Cardinality(live)) \in live
  BY <1>4, <1>6
<1>8. D!Nth(live, Hash[c] % D!Cardinality(live)) \in live
  BY <1>4, <1>6
<1>9. CASE D!Pinned(c, live)
  BY <1>9 DEF D!SelectBackend, D!Pinned
<1>10. CASE ~D!Pinned(c, live)
  BY <1>5, <1>6, <1>7, <1>8, <1>10 DEF D!SelectBackend, D!Algorithm
<1> QED BY <1>9, <1>10

BalancerCore == BalancerTypeOK /\ \A b \in D!Backend : outstanding[b] = Cardinality(TasksOf(b))

\* There are finitely many relay tasks at a backend.
LEMMA TasksFinite ==
  ASSUME D!DataplaneAssumption, NEW b
  PROVE  IsFiniteSet(TasksOf(b))
<1>1. D!Slot = 1..MaxInFlight /\ MaxInFlight \in Nat
  BY DEF D!Slot, D!DataplaneAssumption
<1>2. IsFiniteSet(1..MaxInFlight)
  BY <1>1, FS_Interval
<1>3. TasksOf(b) \subseteq 1..MaxInFlight
  BY <1>1 DEF TasksOf
<1> QED BY <1>2, <1>3, FS_Subset

\* The balancer starts with no relay task and all counts at zero.
LEMMA BalancerInit ==
  ASSUME D!DataplaneAssumption, D!DataplaneInit
  PROVE  BalancerCore
<1>1. BalancerTypeOK
  BY DEF D!DataplaneInit, BalancerTypeOK
<1>2. \A b : TasksOf(b) = {}
  BY DEF D!DataplaneInit, TasksOf
<1> QED BY <1>1, <1>2, FS_EmptySet DEF D!DataplaneInit, BalancerCore

\* Picking, forwarding, a task's end, the prober and the clients keep counts
\* and tasks together.
LEMMA BalancerNext ==
  ASSUME D!DataplaneAssumption, BalancerCore, [D!DataplaneNext]_(D!dataplaneVars)
  PROVE  BalancerCore'
<1>t. BalancerTypeOK /\ \A b \in D!Backend : outstanding[b] = Cardinality(TasksOf(b))
  BY DEF BalancerCore
<1>r. ASSUME UNCHANGED <<relays, outstanding>>, BalancerTypeOK'
      PROVE  BalancerCore'
  <2>1. \A b : TasksOf(b)' = TasksOf(b)
    BY <1>r DEF TasksOf
  <2> QED BY <1>t, <1>r, <2>1 DEF BalancerCore
<1>1. ASSUME NEW c \in Client, D!Receive(c) PROVE BalancerCore'
  <2>1. BalancerTypeOK'
    BY <1>t, <1>1 DEF BalancerTypeOK, D!Receive
  <2> QED BY <1>1, <1>r, <2>1 DEF D!Receive
<1>2. ASSUME picked # None, NEW s \in D!Slot, D!Forward(s) PROVE BalancerCore'
  <2> DEFINE c == picked.client
             live == picked.live
             b == D!SelectBackend(c, live)
             task == [client |-> c, backend |-> b]
  <2>1. c \in Client /\ live \in SUBSET D!Backend /\ live # {}
    BY <1>t, <1>2 DEF BalancerTypeOK
  <2>2. b \in D!Backend
    BY <1>t, <2>1, SelectedIsLive
  <2>3. /\ relays[s] = None
        /\ cursor' \in {cursor, (cursor + 1) % CursorMod}
        /\ sticky' \in {sticky, [sticky EXCEPT ![c] = b]}
        /\ outstanding' = [outstanding EXCEPT ![b] = @ + 1]
        /\ relays' = [relays EXCEPT ![s] = task]
        /\ picked' = None /\ policy' = policy
    BY <1>2 DEF D!Forward
  <2> HIDE DEF c, live, b
  <2>4. task \in D!Relay /\ task # None /\ task.backend = b
    BY <2>1, <2>2 DEF D!Relay, D!DataplaneAssumption
  <2> HIDE DEF task
  <2>5. BalancerTypeOK'
    <3>1. cursor' \in Nat
      <4>1. CursorMod \in Nat \ {0} /\ cursor \in Nat
        BY <1>t DEF D!DataplaneAssumption, BalancerTypeOK
      <4> QED BY <2>3, <4>1
    <3>2. sticky' \in [Client -> D!Backend \cup {None}]
      BY <1>t, <2>1, <2>2, <2>3 DEF BalancerTypeOK
    <3>3. outstanding' \in [D!Backend -> Nat]
      BY <1>t, <2>2, <2>3 DEF BalancerTypeOK
    <3>4. relays' \in [D!Slot -> D!Relay \cup {None}]
      BY <1>t, <2>3, <2>4 DEF BalancerTypeOK
    <3> QED BY <1>t, <2>3, <3>1, <3>2, <3>3, <3>4 DEF BalancerTypeOK
  <2>6. \A d \in D!Backend : TasksOf(d)' = IF d = b THEN TasksOf(b) \cup {s} ELSE TasksOf(d)
    BY <1>t, <2>3, <2>4 DEF TasksOf, BalancerTypeOK
  <2>7. s \notin TasksOf(b)
    BY <2>3 DEF TasksOf
  <2>8. Cardinality(TasksOf(b) \cup {s}) = outstanding[b] + 1
    BY <1>t, <2>2, <2>7, TasksFinite, FS_AddElement
  <2>9. \A d \in D!Backend : outstanding'[d] = Cardinality(TasksOf(d)')
    BY <1>t, <2>2, <2>3, <2>6, <2>8 DEF BalancerTypeOK
  <2> QED BY <2>5, <2>9 DEF BalancerCore
<1>3. ASSUME NEW s \in D!Slot, D!RelayEnds(s) PROVE BalancerCore'
  <2> DEFINE b == relays[s].backend
  <2>1. /\ relays[s] # None
        /\ relays' = [relays EXCEPT ![s] = None]
        /\ outstanding' = [outstanding EXCEPT ![b] = @ - 1]
        /\ UNCHANGED <<policy, sticky, cursor, picked>>
    BY <1>3 DEF D!RelayEnds
  <2>2. b \in D!Backend
    <3>1. relays[s] \in D!Relay
      BY <1>t, <2>1 DEF BalancerTypeOK
    <3> QED BY <3>1 DEF D!Relay
  <2>3. s \in TasksOf(b)
    BY <2>1 DEF TasksOf
  <2>4. \A d \in D!Backend : TasksOf(d)' = IF d = b THEN TasksOf(b) \ {s} ELSE TasksOf(d)
    BY <1>t, <2>1, <2>3 DEF TasksOf, BalancerTypeOK
  <2> HIDE DEF b
  <2>5. Cardinality(TasksOf(b) \ {s}) = outstanding[b] - 1 /\ Cardinality(TasksOf(b) \ {s}) \in Nat
    BY <1>t, <2>2, <2>3, TasksFinite, FS_RemoveElement, FS_CardinalityType
  <2>6. BalancerTypeOK'
    <3>1. outstanding' \in [D!Backend -> Nat]
      BY <1>t, <2>1, <2>2, <2>5 DEF BalancerTypeOK
    <3>2. relays' \in [D!Slot -> D!Relay \cup {None}]
      BY <1>t, <2>1 DEF BalancerTypeOK
    <3> QED BY <1>t, <2>1, <3>1, <3>2 DEF BalancerTypeOK
  <2>7. \A d \in D!Backend : outstanding'[d] = Cardinality(TasksOf(d)')
    BY <1>t, <2>1, <2>2, <2>4, <2>5 DEF BalancerTypeOK
  <2> QED BY <2>6, <2>7 DEF BalancerCore
<1>4. ASSUME \/ \E lost \in BOOLEAN : D!ProbeAnswered(lost)
             \/ D!ProbeStored
             \/ \E b \in D!Backend : D!MarkUnhealthy(b) \/ D!BackendChanges(b)
      PROVE  BalancerCore'
  <2>1. UNCHANGED <<policy, outstanding, sticky, cursor, picked, relays>>
    BY <1>4 DEF D!ProbeAnswered, D!ProbeStored, D!MarkUnhealthy, D!BackendChanges
  <2>2. BalancerTypeOK'
    BY <1>t, <2>1 DEF BalancerTypeOK
  <2> QED BY <2>1, <2>2, <1>r
<1>5. ASSUME UNCHANGED D!dataplaneVars PROVE BalancerCore'
  <2>1. UNCHANGED <<policy, outstanding, sticky, cursor, picked, relays>>
    BY <1>5 DEF D!dataplaneVars
  <2>2. BalancerTypeOK'
    BY <1>t, <2>1 DEF BalancerTypeOK
  <2> QED BY <2>1, <2>2, <1>r
<1> QED BY <1>1, <1>2, <1>3, <1>4, <1>5 DEF D!DataplaneNext

\* The inductive invariant implies the checked one.
LEMMA BalancerCoreSuffices == BalancerCore => D!DataplaneInv
  BY CardBridge DEF BalancerCore, D!DataplaneInv, TasksOf

\* UdpDataplane, for any number of backends and clients and every policy: a
\* backend's outstanding count is the number of its relay tasks, and what was
\* picked was a backend.
THEOREM CountsAreRelayTasks ==
  ASSUME D!DataplaneAssumption
  PROVE  D!DataplaneSpec => []D!DataplaneInv
<1>1. D!DataplaneInit => BalancerCore
  BY BalancerInit
<1>2. BalancerCore /\ [D!DataplaneNext]_(D!dataplaneVars) => BalancerCore'
  BY BalancerNext
<1> QED BY <1>1, <1>2, BalancerCoreSuffices, PTL DEF D!DataplaneSpec

-----------------------------------------------------------------------------
(* ClientWire *)

Exits == {"running", "success", "failure", "usage"}

Request == [cmd : Nat, dial : Nat, pos : Nat \ {0}, copies : 1..MaxCopies]
Evaluation == [cmd : Nat, pos : Nat \ {0}, verdict : {"OK", "ERR"}]

CommandTypeOK ==
    /\ cli \in [n : 0..MaxWork, ops : Nat, acks : Seq({"OK", "ERR"}), exit : Exits]
    /\ dials \in Nat /\ held \in BOOLEAN
    /\ requests \in SUBSET Request
    /\ evaluated \in SUBSET Evaluation
    /\ replies \subseteq {"OK", "ERR", "garbled", "unsealable"}
    /\ Len(cli.acks) <= cli.ops /\ (cli.exit = "running" => cli.n # 0)

\* The open dial is the latest, and it is about the next operation.
DialIsCurrent ==
    /\ dial # None => /\ cli.exit = "running" /\ Len(cli.acks) < cli.ops
                      /\ dial.id = dials /\ dial.tier \in 1..Len(Tiers)
    /\ dial = None => replies = {}

\* Requests of this command are about operations sent so far, those of the open
\* dial about the next one.
RequestsInOrder ==
    \A q \in requests :
        /\ q.cmd \in 1..cli.n
        /\ q.cmd = cli.n => q.dial <= dials /\ q.pos <= Len(cli.acks) + 1
        /\ dial # None /\ q.cmd = cli.n /\ q.dial = dial.id => q.pos = Len(cli.acks) + 1

EvaluatedInOrder ==
    \A e \in evaluated : /\ e.cmd <= cli.n
                         /\ e.cmd = cli.n => e.pos <= Len(cli.acks) + 1

Carried(i) == \E e \in evaluated : e.cmd = cli.n /\ e.pos = i /\ e.verdict = "OK"

OkIsCarried ==
    /\ "OK" \in replies => Carried(Len(cli.acks) + 1)
    /\ \A i \in DOMAIN cli.acks : cli.acks[i] = "OK" => Carried(i)
    /\ cli.exit = "success" => \A i \in 1..cli.ops : Carried(i)

WireCore ==
    CommandTypeOK /\ DialIsCurrent /\ RequestsInOrder /\ EvaluatedInOrder /\ OkIsCarried

\* A verdict that was recorded stays recorded.
LEMMA CarriedVerdict == \A i : "OK" \in W!Verdicts(i) <=> Carried(i)
  BY DEF W!Verdicts, Carried

\* The inductive invariant implies the checked one.
LEMMA WireCoreSuffices ==
  ASSUME W!WireAssumption, WireCore
  PROVE  W!WireInv
<1> USE DEF WireCore
<1>1. W!WireTypeOK
  <2>1. Tiers \in Seq({"udp", "quic", "https"})
    BY DEF W!WireAssumption
  <2>2. DOMAIN Tiers = 1..Len(Tiers)
    BY <2>1
  <2>3. cli.n \in 0..MaxWork /\ cli.exit \in Exits /\ Len(cli.acks) <= cli.ops
    BY DEF CommandTypeOK
  <2>4. \A q \in requests : q.copies \in 1..MaxCopies /\ q.cmd \in 1..cli.n
    BY DEF CommandTypeOK, Request, RequestsInOrder
  <2>5. replies \subseteq {"OK", "ERR", "garbled", "unsealable"} /\ held \in BOOLEAN
    BY DEF CommandTypeOK
  <2> QED BY <2>2, <2>3, <2>4, <2>5 DEF DialIsCurrent, W!WireTypeOK, Exits
<1>2. W!OkIsMine
  BY CarriedVerdict DEF W!OkIsMine, OkIsCarried
<1>3. W!DocumentsInOrder
  BY DEF W!DocumentsInOrder, W!Verdicts, EvaluatedInOrder
<1> QED BY <1>1, <1>2, <1>3 DEF W!WireInv

\* A client that has not started has nothing under way.
LEMMA WireCoreInit ==
  ASSUME W!WireAssumption, W!WireInit
  PROVE  WireCore
<1>1. CommandTypeOK
  <2>1. held \in BOOLEAN
    BY Zenon DEF W!WireInit
  <2>2. /\ cli = [n |-> 0, ops |-> 0, acks |-> << >>, exit |-> "success"]
        /\ dial = None /\ dials = 0 /\ requests = {} /\ replies = {} /\ evaluated = {}
    BY Zenon DEF W!WireInit
  <2>3. MaxWork \in Nat
    BY DEF W!WireAssumption
  <2> QED BY <2>1, <2>2, <2>3 DEF CommandTypeOK, Exits
<1>2. DialIsCurrent /\ RequestsInOrder /\ EvaluatedInOrder
  BY DEF W!WireInit, DialIsCurrent, RequestsInOrder, EvaluatedInOrder
<1>3. OkIsCarried
  BY DEF W!WireInit, OkIsCarried
<1> QED BY <1>1, <1>2, <1>3 DEF WireCore

\* A command that begins: none of what is under way is its own.
LEMMA CommandBegins ==
  ASSUME W!WireAssumption, WireCore, cli.exit # "running", cli.n < MaxWork,
         NEW k \in Nat, NEW x \in {"usage", "running"},
         cli' = [n |-> cli.n + 1, ops |-> k, acks |-> << >>, exit |-> x],
         dials' \in {0, dials},
         UNCHANGED <<dial, held, requests, replies, evaluated>>
  PROVE  WireCore'
<1> USE DEF WireCore
<1>0. dial = None /\ replies = {} /\ cli.n \in Nat
  BY DEF DialIsCurrent, CommandTypeOK
<1>1. CommandTypeOK'
  <2>1. cli' \in [n : 0..MaxWork, ops : Nat, acks : Seq({"OK", "ERR"}), exit : Exits]
    BY <1>0 DEF Exits, W!WireAssumption
  <2>2. Len(cli'.acks) <= cli'.ops /\ cli'.n # 0
    BY <1>0
  <2> QED BY <2>1, <2>2 DEF CommandTypeOK
<1>2. DialIsCurrent'
  BY <1>0 DEF DialIsCurrent
<1>3. \A q \in requests : q.cmd \in 1..cli.n
  BY DEF RequestsInOrder
<1>4. RequestsInOrder'
  BY <1>0, <1>3 DEF RequestsInOrder
<1>5. \A e \in evaluated : e.cmd \in Nat /\ e.cmd <= cli.n
  BY DEF EvaluatedInOrder, CommandTypeOK, Evaluation
<1>6. EvaluatedInOrder'
  BY <1>0, <1>5 DEF EvaluatedInOrder
<1>7. OkIsCarried'
  BY <1>0 DEF OkIsCarried
<1> QED BY <1>1, <1>2, <1>4, <1>6, <1>7

\* A new dial: its number is fresh.
LEMMA DialKeeps ==
  ASSUME W!WireAssumption, WireCore, cli.exit = "running", Len(cli.acks) < cli.ops,
         NEW t \in 1..Len(Tiers), W!Dial(t), UNCHANGED <<cli, evaluated>>
  PROVE  WireCore'
<1> USE DEF WireCore
<1>1. PICK copies \in W!Copies(Tiers[t]) :
        /\ dial' = [id |-> dials + 1, tier |-> t]
        /\ dials' = dials + 1 /\ held' = FALSE
        /\ replies' = {}
        /\ requests' =
             IF copies = 0 THEN requests
             ELSE requests \cup {[cmd |-> cli.n, dial |-> dials + 1, pos |-> Len(cli.acks) + 1,
                                  copies |-> copies]}
  BY DEF W!Dial
<1>2. copies # 0 => copies \in 1..MaxCopies
  BY DEF W!Copies, W!WireAssumption
<1> DEFINE new == [cmd |-> cli.n, dial |-> dials + 1, pos |-> Len(cli.acks) + 1, copies |-> copies]
<1>3. /\ dials \in Nat /\ cli.n \in Nat /\ Len(cli.acks) \in Nat
      /\ cli.acks \in Seq({"OK", "ERR"})
  BY DEF CommandTypeOK
<1>4. copies # 0 => new \in Request
  BY <1>2, <1>3 DEF Request
<1>5. requests' \subseteq requests \cup {new} /\ (copies = 0 => requests' = requests)
  BY <1>1
<1>6. CommandTypeOK'
  <2>1. held' \in BOOLEAN
    BY Zenon, <1>1
  <2>2. dials' = dials + 1 /\ replies' = {}
    BY <1>1
  <2> QED BY <1>3, <1>4, <1>5, <2>1, <2>2 DEF CommandTypeOK
<1>7. DialIsCurrent'
  BY <1>1, <1>3 DEF DialIsCurrent
<1>8. cli.n \in 1..cli.n
  BY <1>3 DEF CommandTypeOK
<1>9. RequestsInOrder'
  <2> SUFFICES ASSUME NEW q \in requests'
               PROVE  /\ q.cmd \in 1..cli.n
                      /\ q.cmd = cli.n => q.dial <= dials' /\ q.pos <= Len(cli.acks) + 1
                      /\ q.cmd = cli.n /\ q.dial = dials + 1 => q.pos = Len(cli.acks) + 1
    BY <1>1 DEF RequestsInOrder
  <2>1. CASE q \in requests
    <3>1. q.dial \in Nat /\ q.cmd \in 1..cli.n
      BY <2>1 DEF CommandTypeOK, Request, RequestsInOrder
    <3>2. q.cmd = cli.n => q.dial <= dials /\ q.pos <= Len(cli.acks) + 1
      BY <2>1 DEF RequestsInOrder
    <3> QED BY <1>1, <1>3, <3>1, <3>2
  <2>2. CASE q = new
    BY <1>1, <1>3, <1>8, <2>2
  <2> QED BY <1>5, <2>1, <2>2
<1>10. EvaluatedInOrder'
  BY DEF EvaluatedInOrder
<1>11. OkIsCarried'
  BY <1>1 DEF OkIsCarried, Carried
<1> QED BY <1>6, <1>7, <1>9, <1>10, <1>11

\* The dial is closed; the command goes on, fails, or has one more answer.
LEMMA HangupKeeps ==
  ASSUME W!WireAssumption, WireCore, W!Hangup, evaluated' = evaluated, dial # None,
         \/ cli' = [cli EXCEPT !.exit = "failure"]
         \/ \E kind \in replies : /\ kind \in {"OK", "ERR"}
                                  /\ cli' = [cli EXCEPT !.acks = Append(@, kind)]
  PROVE  WireCore'
<1> USE DEF WireCore
<1>1. dial' = None /\ held' = FALSE /\ replies' = {} /\ UNCHANGED <<dials, requests>>
  BY DEF W!Hangup
<1>2. /\ cli.acks \in Seq({"OK", "ERR"}) /\ Len(cli.acks) \in Nat
      /\ cli \in [n : 0..MaxWork, ops : Nat, acks : Seq({"OK", "ERR"}), exit : Exits]
      /\ cli.ops \in Nat /\ cli.n # 0
  BY DEF CommandTypeOK, DialIsCurrent
<1>3. Len(cli.acks) < cli.ops
  BY DEF DialIsCurrent
<1>4. CASE cli' = [cli EXCEPT !.exit = "failure"]
  <2>1. /\ cli'.n = cli.n /\ cli'.ops = cli.ops /\ cli'.acks = cli.acks /\ cli'.exit = "failure"
        /\ cli' \in [n : 0..MaxWork, ops : Nat, acks : Seq({"OK", "ERR"}), exit : Exits]
    BY <1>2, <1>4 DEF Exits
  <2>2. CommandTypeOK'
    BY <1>1, <2>1 DEF CommandTypeOK
  <2>3. DialIsCurrent'
    BY <1>1 DEF DialIsCurrent
  <2>4. RequestsInOrder'
    BY <1>1, <2>1 DEF RequestsInOrder
  <2>5. EvaluatedInOrder'
    BY <2>1 DEF EvaluatedInOrder
  <2>6. OkIsCarried'
    BY <1>1, <2>1 DEF OkIsCarried, Carried
  <2> QED BY <2>2, <2>3, <2>4, <2>5, <2>6
<1>5. ASSUME NEW kind \in replies, kind \in {"OK", "ERR"},
             cli' = [cli EXCEPT !.acks = Append(@, kind)]
      PROVE  WireCore'
  <2> DEFINE acks == Append(cli.acks, kind)
  <2>0. /\ acks \in Seq({"OK", "ERR"}) /\ Len(acks) = Len(cli.acks) + 1
        /\ acks[Len(cli.acks) + 1] = kind /\ DOMAIN acks = 1..(Len(cli.acks) + 1)
        /\ \A i \in 1..Len(cli.acks) : acks[i] = cli.acks[i]
        /\ DOMAIN cli.acks = 1..Len(cli.acks)
    BY <1>2, <1>5
  <2> HIDE DEF acks
  <2>1. /\ cli'.n = cli.n /\ cli'.ops = cli.ops /\ cli'.acks = acks /\ cli'.exit = cli.exit
        /\ cli' \in [n : 0..MaxWork, ops : Nat, acks : Seq({"OK", "ERR"}), exit : Exits]
    <3>1. cli' = [cli EXCEPT !.acks = acks]
      BY <1>5 DEF acks
    <3> QED BY <1>2, <2>0, <3>1
  <2>2. CommandTypeOK'
    <3>1. held' \in BOOLEAN
      BY Zenon, <1>1
    <3>2. replies' = {} /\ dials' = dials /\ requests' = requests
      BY <1>1
    <3> QED BY <1>2, <1>3, <2>0, <2>1, <3>1, <3>2 DEF CommandTypeOK
  <2>3. DialIsCurrent'
    BY <1>1 DEF DialIsCurrent
  <2>4. RequestsInOrder'
    <3> SUFFICES ASSUME NEW q \in requests
                 PROVE  /\ q.cmd \in 1..cli.n
                        /\ q.cmd = cli.n => q.dial <= dials /\ q.pos <= Len(acks) + 1
      BY <1>1, <2>1 DEF RequestsInOrder
    <3>1. q.pos \in Nat /\ q.cmd \in 1..cli.n
          /\ (q.cmd = cli.n => q.dial <= dials /\ q.pos <= Len(cli.acks) + 1)
      BY DEF RequestsInOrder, CommandTypeOK, Request
    <3> QED BY <1>2, <2>0, <3>1
  <2>5. EvaluatedInOrder'
    <3> SUFFICES ASSUME NEW e \in evaluated
                 PROVE  e.cmd <= cli.n /\ (e.cmd = cli.n => e.pos <= Len(acks) + 1)
      BY <2>1 DEF EvaluatedInOrder
    <3>1. e.pos \in Nat /\ e.cmd <= cli.n /\ (e.cmd = cli.n => e.pos <= Len(cli.acks) + 1)
      BY DEF EvaluatedInOrder, CommandTypeOK, Evaluation
    <3> QED BY <1>2, <2>0, <3>1
  <2>6. OkIsCarried'
    <3>1. \A i : Carried(i)' = Carried(i)
      BY <2>1 DEF Carried
    <3>2. ASSUME NEW i \in 1..(Len(cli.acks) + 1), acks[i] = "OK"
          PROVE  Carried(i)
      <4>1. CASE i = Len(cli.acks) + 1
        BY <1>5, <2>0, <3>2, <4>1 DEF OkIsCarried
      <4>2. CASE i \in 1..Len(cli.acks)
        BY <2>0, <3>2, <4>2 DEF OkIsCarried
      <4> QED BY <1>2, <4>1, <4>2
    <3>3. cli'.exit # "success"
      BY <2>1 DEF DialIsCurrent
    <3> QED BY <1>1, <2>0, <2>1, <3>1, <3>2, <3>3 DEF OkIsCarried
  <2> QED BY <2>2, <2>3, <2>4, <2>5, <2>6
<1> QED BY <1>4, <1>5

\* Falling back to the next tier.
LEMMA NextTierKeeps ==
  ASSUME W!WireAssumption, WireCore, dial # None, W!NextTier, evaluated' = evaluated
  PROVE  WireCore'
<1>1. /\ cli.exit = "running" /\ Len(cli.acks) < cli.ops /\ dial.tier \in 1..Len(Tiers)
      /\ Len(Tiers) \in Nat
  BY DEF WireCore, DialIsCurrent, W!WireAssumption
<1>2. CASE dial.tier < Len(Tiers) /\ W!Dial(dial.tier + 1) /\ UNCHANGED cli
  <2>1. dial.tier + 1 \in 1..Len(Tiers)
    BY <1>1, <1>2
  <2> QED BY <1>1, <1>2, <2>1, DialKeeps
<1>3. CASE cli' = [cli EXCEPT !.exit = "failure"] /\ W!Hangup
  BY <1>3, HangupKeeps
<1> QED BY <1>2, <1>3 DEF W!NextTier

\* The node answers: an OK to the open dial says that the next operation was
\* carried out.
LEMMA AnswerKeeps ==
  ASSUME W!WireAssumption, WireCore, NEW q \in requests, NEW answer,
         answer \subseteq {"OK", "ERR", "garbled", "unsealable"}, W!Reply(q, answer),
         UNCHANGED <<cli, dial, dials, held>>,
         requests' \subseteq (requests \ {q}) \cup
                       (IF q.copies = 1 THEN {} ELSE {[q EXCEPT !.copies = @ - 1]}),
         NEW new \in SUBSET [cmd : {q.cmd}, pos : {q.pos}, verdict : {"OK", "ERR"}],
         evaluated' = evaluated \cup new,
         "OK" \in answer => \E e \in new : e.verdict = "OK"
  PROVE  WireCore'
<1> USE DEF WireCore
<1>1. /\ q \in Request /\ q.cmd \in 1..cli.n /\ Len(cli.acks) \in Nat
      /\ (q.cmd = cli.n => q.dial <= dials /\ q.pos <= Len(cli.acks) + 1)
      /\ (dial # None /\ q.cmd = cli.n /\ q.dial = dial.id => q.pos = Len(cli.acks) + 1)
  BY DEF CommandTypeOK, RequestsInOrder
<1> DEFINE less == [q EXCEPT !.copies = @ - 1]
<1>2. /\ less.cmd = q.cmd /\ less.dial = q.dial /\ less.pos = q.pos
      /\ (q.copies # 1 => less \in Request)
  BY <1>1 DEF Request, W!WireAssumption
<1>3. \A r \in requests' : r \in requests \/ (r = less /\ q.copies # 1)
  OBVIOUS
<1> HIDE DEF less
<1>4. \A e \in new : e \in Evaluation /\ e.cmd = q.cmd /\ e.pos = q.pos
  BY <1>1 DEF Evaluation, Request
<1>5. replies' \subseteq {"OK", "ERR", "garbled", "unsealable"} /\ (dial = None => replies' = {})
  BY DEF W!Reply, CommandTypeOK, DialIsCurrent
<1>6. CommandTypeOK'
  <2>1. requests' \in SUBSET Request
    BY <1>2, <1>3 DEF CommandTypeOK
  <2>2. evaluated' \in SUBSET Evaluation
    BY <1>4 DEF CommandTypeOK
  <2> QED BY <1>5, <2>1, <2>2 DEF CommandTypeOK
<1>7. DialIsCurrent'
  BY <1>5 DEF DialIsCurrent
<1>8. RequestsInOrder'
  BY <1>1, <1>2, <1>3 DEF RequestsInOrder
<1>9. EvaluatedInOrder'
  BY <1>1, <1>4 DEF EvaluatedInOrder
<1>10. OkIsCarried'
  <2>1. \A i : Carried(i) => Carried(i)'
    BY DEF Carried
  <2>2. ASSUME "OK" \in replies' PROVE Carried(Len(cli.acks) + 1)'
    <3>1. CASE "OK" \in replies
      BY <2>1, <3>1 DEF OkIsCarried
    <3>2. CASE "OK" \in answer /\ dial # None /\ q.cmd = cli.n /\ q.dial = dial.id
      BY <1>1, <1>4, <3>2 DEF Carried
    <3> QED BY <2>2, <3>1, <3>2 DEF W!Reply
  <2> QED BY <2>1, <2>2 DEF OkIsCarried
<1> QED BY <1>6, <1>7, <1>8, <1>9, <1>10

\* Every step of the client, the node and the network keeps the invariant.
LEMMA WireCoreNext ==
  ASSUME W!WireAssumption, WireCore, [W!WireNext]_(W!wireVars)
  PROVE  WireCore'
<1>0. /\ cli \in [n : 0..MaxWork, ops : Nat, acks : Seq({"OK", "ERR"}), exit : Exits]
      /\ MaxWork \in Nat
  BY DEF WireCore, CommandTypeOK, W!WireAssumption
<1>1. CASE W!Usage
  BY <1>1, CommandBegins DEF W!Usage
<1>2. ASSUME NEW n \in 1..MaxWork, W!Run(n) PROVE WireCore'
  <2>1. cli.n < MaxWork /\ n \in Nat
    BY <1>0, <1>2 DEF W!Run
  <2> QED BY <1>2, <2>1, CommandBegins DEF W!Run
<1>3. CASE W!SendNext
  <2>1. 1 \in 1..Len(Tiers)
    BY DEF W!WireAssumption
  <2> QED BY <1>3, <2>1, DialKeeps DEF W!SendNext
<1>4. CASE W!Timeout
  BY <1>4, NextTierKeeps DEF W!Timeout
<1>5. CASE W!Finish
  <2>1. PICK x \in {"failure", "success"} :
          /\ cli' = [cli EXCEPT !.exit = x]
          /\ x = "success" => "ERR" \notin W!Range(cli.acks)
    BY <1>5 DEF W!Finish
  <2>2. /\ cli'.n = cli.n /\ cli'.ops = cli.ops /\ cli'.acks = cli.acks /\ cli'.exit = x
        /\ cli' \in [n : 0..MaxWork, ops : Nat, acks : Seq({"OK", "ERR"}), exit : Exits]
    BY <1>0, <2>1 DEF Exits
  <2>3. dial = None /\ Len(cli.acks) = cli.ops /\ UNCHANGED <<dial, dials, held, requests, replies, evaluated>>
    BY <1>5 DEF W!Finish
  <2>4. CommandTypeOK'
    BY <2>2, <2>3 DEF WireCore, CommandTypeOK
  <2>5. DialIsCurrent' /\ RequestsInOrder' /\ EvaluatedInOrder'
    BY <2>2, <2>3 DEF WireCore, DialIsCurrent, RequestsInOrder, EvaluatedInOrder
  <2>6. \A i : Carried(i)' = Carried(i)
    BY <2>2, <2>3 DEF Carried
  <2>7. x = "success" => \A i \in 1..cli.ops : cli.acks[i] = "OK"
    <3>1. cli.acks \in Seq({"OK", "ERR"}) /\ DOMAIN cli.acks = 1..cli.ops
      BY <1>0, <2>3
    <3>2. \A i \in 1..cli.ops : cli.acks[i] \in {"OK", "ERR"} /\ cli.acks[i] \in W!Range(cli.acks)
      <4> TAKE i \in 1..cli.ops
      <4>1. cli.acks[i] \in {"OK", "ERR"}
        <5> DEFINE acks == cli.acks
        <5>1. acks \in Seq({"OK", "ERR"}) /\ i \in 1..Len(acks)
          BY <3>1, <2>3
        <5> HIDE DEF acks
        <5>2. acks[i] \in {"OK", "ERR"}
          BY <5>1
        <5> QED BY <5>2 DEF acks
      <4>2. cli.acks[i] \in W!Range(cli.acks)
        BY <3>1 DEF W!Range
      <4> QED BY <4>1, <4>2
    <3> QED BY <2>1, <3>2
  <2>8. DOMAIN cli.acks = 1..cli.ops
    BY <1>0, <2>3
  <2>9. OkIsCarried'
    BY <2>2, <2>3, <2>6, <2>7, <2>8 DEF WireCore, OkIsCarried
  <2> QED BY <2>4, <2>5, <2>9 DEF WireCore
<1>6. ASSUME NEW kind \in replies, W!Receive(kind) PROVE WireCore'
  <2>1. dial # None
    BY <1>6 DEF WireCore, DialIsCurrent
  <2>2. CASE W!NextTier
    BY <1>6, <2>1, <2>2, NextTierKeeps DEF W!Receive
  <2>3. CASE cli' = [cli EXCEPT !.exit = "failure"] /\ W!Hangup
    BY <1>6, <2>1, <2>3, HangupKeeps DEF W!Receive
  <2>4. CASE kind \in {"OK", "ERR"} /\ cli' = [cli EXCEPT !.acks = Append(@, kind)] /\ W!Hangup
    BY <1>6, <2>1, <2>4, HangupKeeps DEF W!Receive
  <2> QED BY <1>6, <2>2, <2>3, <2>4 DEF W!Receive
<1>7. ASSUME NEW q \in requests, W!Evaluate(q) PROVE WireCore'
  <2>0. PICK verdict \in {"OK", "ERR"} : \E answer \in {{}, {verdict}, {"garbled"}, {"unsealable"}} :
        /\ requests' = (requests \ {q}) \cup
                       (IF q.copies = 1 THEN {} ELSE {[q EXCEPT !.copies = @ - 1]})
        /\ evaluated' = evaluated \cup {[cmd |-> q.cmd, pos |-> q.pos, verdict |-> verdict]}
        /\ W!Reply(q, answer)
        /\ UNCHANGED <<cli, dial, dials, held>>
    BY <1>7 DEF W!Evaluate
  <2>1. PICK answer \in {{}, {verdict}, {"garbled"}, {"unsealable"}} :
        /\ requests' = (requests \ {q}) \cup
                       (IF q.copies = 1 THEN {} ELSE {[q EXCEPT !.copies = @ - 1]})
        /\ evaluated' = evaluated \cup {[cmd |-> q.cmd, pos |-> q.pos, verdict |-> verdict]}
        /\ W!Reply(q, answer)
        /\ UNCHANGED <<cli, dial, dials, held>>
    BY <2>0
  <2> DEFINE new == {[cmd |-> q.cmd, pos |-> q.pos, verdict |-> verdict]}
  <2>2. new \in SUBSET [cmd : {q.cmd}, pos : {q.pos}, verdict : {"OK", "ERR"}]
    BY <2>1
  <2>3. "OK" \in answer => \E e \in new : e.verdict = "OK"
    BY <2>1
  <2>4. answer \subseteq {"OK", "ERR", "garbled", "unsealable"}
    BY <2>1
  <2> HIDE DEF new
  <2> QED BY <2>1, <2>2, <2>3, <2>4, AnswerKeeps DEF new
<1>8. ASSUME NEW q \in requests, W!Refuse(q) PROVE WireCore'
  <2>1. PICK answer \in {{}, {"ERR"}} :
        /\ requests' = requests \ {q}
        /\ W!Reply(q, answer)
        /\ UNCHANGED <<cli, dial, dials, held, evaluated>>
    BY <1>8 DEF W!Refuse
  <2>2. answer \subseteq {"OK", "ERR", "garbled", "unsealable"} /\ "OK" \notin answer
    BY <2>1
  <2>3. evaluated' = evaluated \cup {}
    BY <2>1
  <2>4. {} \in SUBSET [cmd : {q.cmd}, pos : {q.pos}, verdict : {"OK", "ERR"}]
    OBVIOUS
  <2>5. requests' \subseteq (requests \ {q}) \cup
                       (IF q.copies = 1 THEN {} ELSE {[q EXCEPT !.copies = @ - 1]})
    BY <2>1
  <2> QED BY <2>1, <2>2, <2>3, <2>4, <2>5, AnswerKeeps
<1>9. CASE W!Hold \/ W!LetGo
  <2>1. held' \in BOOLEAN /\ UNCHANGED <<cli, dial, dials, requests, replies, evaluated>>
    BY <1>9 DEF W!Hold, W!LetGo
  <2> QED BY <2>1 DEF WireCore, CommandTypeOK, DialIsCurrent, RequestsInOrder,
              EvaluatedInOrder, OkIsCarried, Carried
<1>10. CASE UNCHANGED W!wireVars
  BY <1>10 DEF W!wireVars, WireCore, CommandTypeOK, DialIsCurrent, RequestsInOrder,
              EvaluatedInOrder, OkIsCarried, Carried
<1> QED BY <1>1, <1>2, <1>3, <1>4, <1>5, <1>6, <1>7, <1>8, <1>9, <1>10 DEF W!WireNext

\* ClientWire, for any number of operations, tiers and repeated datagrams: every
\* OK a command records was given to that operation, and the documents of a
\* manifest are evaluated in their order.
THEOREM AnswersAreTheirOwn ==
  ASSUME W!WireAssumption
  PROVE  W!WireSpec => []W!WireInv
<1>1. W!WireInit => WireCore
  BY WireCoreInit
<1>2. WireCore /\ [W!WireNext]_(W!wireVars) => WireCore'
  BY WireCoreNext
<1>3. WireCore => W!WireInv
  BY WireCoreSuffices
<1> QED BY <1>1, <1>2, <1>3, PTL DEF W!WireSpec

-----------------------------------------------------------------------------
(* UdpStream *)

\* Two sequences with the same elements are the same.
LEMMA SameSequence ==
  ASSUME NEW S, NEW s \in Seq(S), NEW t \in Seq(S), Len(s) = Len(t),
         \A i \in 1..Len(s) : s[i] = t[i]
  PROVE  s = t
<1>1. s \in [1..Len(s) -> S] /\ t \in [1..Len(s) -> S]
  OBVIOUS
<1> QED BY <1>1

\* What a concatenation holds, and where.
LEMMA ConcatFacts ==
  ASSUME NEW S, NEW s \in Seq(S), NEW t \in Seq(S)
  PROVE  /\ s \o t \in Seq(S) /\ Len(s \o t) = Len(s) + Len(t)
         /\ \A j \in 1..Len(s) : (s \o t)[j] = s[j]
         /\ \A j \in 1..Len(t) : (s \o t)[Len(s) + j] = t[j]
<1>1. s \o t \in Seq(S) /\ Len(s \o t) = Len(s) + Len(t)
  OBVIOUS
<1>2. \A j \in 1..Len(s) : (s \o t)[j] = s[j]
  OBVIOUS
<1>3. \A j \in 1..Len(t) : (s \o t)[Len(s) + j] = t[j]
  <2> TAKE j \in 1..Len(t)
  <2>1. Len(s) + j \in 1..(Len(s) + Len(t)) /\ ~(Len(s) + j <= Len(s)) /\ (Len(s) + j) - Len(s) = j
    OBVIOUS
  <2> QED BY <2>1
<1> QED BY <1>1, <1>2, <1>3

\* The bytes after the a-th up to the b-th.
Bytes(a, b) == [i \in 1..(b - a) |-> a + i]

\* A run of bytes as a sequence.
LEMMA BytesFacts ==
  ASSUME NEW a \in Nat, NEW b \in Nat, a <= b
  PROVE  /\ Bytes(a, b) \in Seq(Nat) /\ Len(Bytes(a, b)) = b - a
         /\ DOMAIN Bytes(a, b) = 1..(b - a)
         /\ \A i \in 1..(b - a) : Bytes(a, b)[i] = a + i
<1>1. Bytes(a, b) \in [1..(b - a) -> Nat] /\ b - a \in Nat
  BY DEF Bytes
<1>2. Bytes(a, b) \in Seq(Nat) /\ Len(Bytes(a, b)) = b - a
  BY <1>1
<1> QED BY <1>2 DEF Bytes

\* Its bytes are within the stream's bound.
LEMMA BytesType ==
  ASSUME NEW a \in Nat, NEW b \in Nat, a <= b, NEW n \in Nat, b <= n
  PROVE  Bytes(a, b) \in Seq(1..n)
<1>1. Bytes(a, b) \in [1..(b - a) -> 1..n] /\ b - a \in Nat
  BY DEF Bytes
<1> QED BY <1>1

\* Two runs that meet make one.
LEMMA BytesJoin ==
  ASSUME NEW a \in Nat, NEW b \in Nat, NEW c \in Nat, a <= b, b <= c
  PROVE  Bytes(a, b) \o Bytes(b, c) = Bytes(a, c)
<1> DEFINE l == Bytes(a, b)  r == Bytes(b, c)
<1>1. /\ l \in Seq(Nat) /\ Len(l) = b - a /\ r \in Seq(Nat) /\ Len(r) = c - b
      /\ (\A i \in 1..(b - a) : l[i] = a + i) /\ (\A i \in 1..(c - b) : r[i] = b + i)
  BY BytesFacts
<1> HIDE DEF l, r
<1>2. Len(l \o r) = c - a /\ l \o r \in Seq(Nat)
  BY <1>1
<1>3. \A i \in 1..(c - a) : (l \o r)[i] = a + i
  <2> TAKE i \in 1..(c - a)
  <2>1. CASE i <= b - a
    BY <1>1, <2>1
  <2>2. CASE ~(i <= b - a)
    <3>1. i - (b - a) \in 1..(c - b)
      BY <2>2
    <3>2. (l \o r)[i] = r[i - (b - a)]
      BY <1>1, <2>2
    <3> QED BY <1>1, <3>1, <3>2
  <2> QED BY <2>1, <2>2
<1>4. Bytes(a, c) \in Seq(Nat) /\ Len(Bytes(a, c)) = c - a /\ \A i \in 1..(c - a) : Bytes(a, c)[i] = a + i
  BY BytesFacts
<1>5. l \o r = Bytes(a, c)
  <2>1. \A i \in 1..Len(l \o r) : (l \o r)[i] = Bytes(a, c)[i]
    BY <1>2, <1>3, <1>4
  <2> QED BY <1>2, <1>4, <2>1, SameSequence
<1> QED BY <1>5 DEF l, r

\* A part of a run is a run.
LEMMA BytesSub ==
  ASSUME NEW a \in Nat, NEW b \in Nat, a <= b, NEW i \in Nat, NEW j \in Nat,
         i <= j, j <= b - a
  PROVE  SubSeq(Bytes(a, b), i + 1, j) = Bytes(a + i, a + j)
<1> DEFINE l == Bytes(a, b)  r == Bytes(a + i, a + j)
<1>1. l \in Seq(Nat) /\ Len(l) = b - a /\ \A k \in 1..(b - a) : l[k] = a + k
  BY BytesFacts
<1>2. r \in Seq(Nat) /\ Len(r) = (a + j) - (a + i) /\ \A k \in 1..((a + j) - (a + i)) : r[k] = a + i + k
  <2>1. a + i \in Nat /\ a + j \in Nat /\ a + i <= a + j
    OBVIOUS
  <2> QED BY <2>1, BytesFacts
<1>3. r \in Seq(Nat) /\ Len(r) = j - i /\ \A k \in 1..(j - i) : r[k] = a + i + k
  BY <1>2
<1> HIDE DEF l, r
<1>4. SubSeq(l, i + 1, j) \in Seq(Nat) /\ Len(SubSeq(l, i + 1, j)) = j - i
  BY <1>1
<1>5. \A k \in 1..(j - i) : SubSeq(l, i + 1, j)[k] = a + i + k
  <2> TAKE k \in 1..(j - i)
  <2>1. SubSeq(l, i + 1, j)[k] = l[k + i]
    BY <1>1
  <2>2. k + i \in 1..(b - a)
    OBVIOUS
  <2> QED BY <1>1, <2>1, <2>2
<1>6. SubSeq(l, i + 1, j) = r
  <2>1. \A k \in 1..Len(r) : SubSeq(l, i + 1, j)[k] = r[k]
    BY <1>3, <1>5
  <2> QED BY <1>3, <1>4, <2>1, SameSequence
<1> QED BY <1>6 DEF l, r

\* The bytes of a stretch after the i-th, up to the j-th.
Part(bytes, i, j) == SubSeq(bytes, i + 1, j)

LEMMA BytesPart ==
  \A a, b, i, j \in Nat :
     a <= b /\ i <= j /\ j <= b - a => Part(Bytes(a, b), i, j) = Bytes(a + i, a + j)
  BY BytesSub, Zenon DEF Part

\* The first bytes are a prefix of more of them.
LEMMA BytesPrefix ==
  ASSUME NEW a \in Nat, NEW b \in Nat, a <= b
  PROVE  U!IsPrefix(Bytes(0, a), Bytes(0, b))
<1>1. Len(Bytes(0, a)) = a /\ Len(Bytes(0, b)) = b
  BY BytesFacts
<1>2. SubSeq(Bytes(0, a), 1, a) = Bytes(0, a) /\ SubSeq(Bytes(0, b), 1, a) = Bytes(0, a)
  <2>0. 0 \in Nat /\ 0 <= a /\ 0 <= b /\ a <= a - 0 /\ a <= b - 0
    OBVIOUS
  <2>1. SubSeq(Bytes(0, a), 0 + 1, a) = Bytes(0 + 0, 0 + a)
    BY <2>0, BytesSub
  <2>2. SubSeq(Bytes(0, b), 0 + 1, a) = Bytes(0 + 0, 0 + a)
    BY <2>0, BytesSub
  <2> QED BY <2>1, <2>2
<1> QED BY <1>1, <1>2 DEF U!IsPrefix

\* The number of frames n bytes take, rounded up.
LEMMA Ceiling ==
  ASSUME NEW n \in Nat, NEW p \in Nat \ {0}
  PROVE  LET k == (n + p - 1) \div p
         IN  /\ k \in Nat /\ n <= k * p
             /\ \A i \in 1..k : (i - 1) * p < n /\ (i - 1) * p + p = i * p /\ i <= i * p /\ (i-1)*p \in Nat
<1> DEFINE k == (n + p - 1) \div p
<1>1. k \in Nat /\ k * p <= n + p - 1 /\ n + p - 1 < k * p + p
  OBVIOUS
<1> HIDE DEF k
<1>2. \A i \in 1..k : (i - 1) * p < n /\ (i - 1) * p + p = i * p /\ i <= i * p /\ (i-1)*p \in Nat
  <2> TAKE i \in 1..k
  <2>1. (i - 1) * p + p = i * p
    OBVIOUS
  <2>2. i * p <= k * p
    BY <1>1
  <2>3. (i - 1) * p < n
    BY <1>1, <2>1, <2>2
  <2>4. i <= i * p
    OBVIOUS
  <2> QED BY <2>1, <2>3, <2>4
<1> QED BY <1>1, <1>2 DEF k

\* The bytes of the full frames are no more than the buffer holds.
LEMMA WholeFrames ==
  ASSUME NEW n \in Nat, NEW p \in Nat \ {0}
  PROVE  (n \div p) * p \in 0..n
  OBVIOUS

\* Where the frames of a stream end: no frame is empty or larger than p.
Marks(b, n, p) ==
    /\ b \in [Nat -> Nat] /\ b[0] = 0
    /\ \A q, r \in Nat : q <= r => b[q] <= b[r]
    /\ \A q \in Nat : q < n => q < b[q + 1] /\ b[q + 1] - b[q] \in 1..p

Cut(j, n, p) == IF j * p > n THEN n ELSE j * p

\* The marks c go on where the m marks of b stop, for n more bytes in k frames.
Extends(c, b, m, n, p, k) ==
    /\ Marks(c, m + k, p)
    /\ \A q \in 0..m : c[q] = b[q]
    /\ c[m + k] = b[m] + n
    /\ \A j \in 1..k : /\ c[(m + j) - 1] = b[m] + (j - 1) * p
                       /\ c[m + j] = b[m] + Cut(j, n, p)

\* Cutting n more bytes into frames extends the marks.
LEMMA MarksExtend ==
  ASSUME NEW p \in Nat \ {0}, NEW m \in Nat, NEW n \in Nat, NEW b, Marks(b, m, p),
         NEW k, k = (n + p - 1) \div p
  PROVE  \E c : Extends(c, b, m, n, p, k)
<1> DEFINE l == b[m]
           c == [q \in Nat |-> IF q <= m THEN b[q] ELSE l + Cut(q - m, n, p)]
<1>1. /\ k \in Nat /\ n <= k * p
      /\ \A i \in 1..k : /\ (i - 1) * p < n /\ (i - 1) * p + p = i * p /\ i <= i * p
                         /\ (i - 1) * p \in Nat
  BY Ceiling
<1>2. l \in Nat /\ m <= l
  <2>1. l \in Nat
    BY DEF Marks
  <2>2. CASE m = 0
    BY <2>1, <2>2
  <2>3. CASE m # 0
    <3>1. m - 1 \in Nat /\ m - 1 < m /\ (m - 1) + 1 = m
      BY <2>3
    <3>2. m - 1 < b[(m - 1) + 1]
      BY <3>1 DEF Marks
    <3> QED BY <2>1, <3>1, <3>2
  <2> QED BY <2>2, <2>3
<1>3. \A j \in Nat : Cut(j, n, p) \in Nat /\ j * p \in Nat
  BY DEF Cut
<1>4. \A i, j \in Nat : i <= j => Cut(i, n, p) <= Cut(j, n, p)
  <2> SUFFICES ASSUME NEW i \in Nat, NEW j \in Nat, i <= j
               PROVE  Cut(i, n, p) <= Cut(j, n, p)
    OBVIOUS
  <2>1. i * p <= j * p
    OBVIOUS
  <2> QED BY <1>3, <2>1 DEF Cut
<1>5. c \in [Nat -> Nat]
  <2> SUFFICES ASSUME NEW q \in Nat PROVE (IF q <= m THEN b[q] ELSE l + Cut(q - m, n, p)) \in Nat
    OBVIOUS
  <2>1. CASE q <= m
    BY <2>1 DEF Marks
  <2>2. CASE ~(q <= m)
    BY <1>2, <1>3, <2>2
  <2> QED BY <2>1, <2>2
<1>6. \A q \in 0..m : c[q] = b[q]
  OBVIOUS
<1>7. \A j \in Nat : j # 0 => c[m + j] = l + Cut(j, n, p)
  <2> TAKE j \in Nat
  <2> HAVE j # 0
  <2>1. m + j \in Nat /\ ~(m + j <= m) /\ (m + j) - m = j
    OBVIOUS
  <2> QED BY <2>1
<1>8. Cut(0, n, p) = 0 /\ c[m] = l
  BY DEF Cut
<1>9. \A j \in 1..k : Cut(j - 1, n, p) = (j - 1) * p
  BY <1>1 DEF Cut
<1>10. \A j \in 1..k : c[(m + j) - 1] = l + (j - 1) * p
  <2> TAKE j \in 1..k
  <2>1. CASE j = 1
    BY <1>2, <1>8, <2>1
  <2>2. CASE j # 1
    <3>1. j - 1 \in Nat /\ j - 1 # 0 /\ (m + j) - 1 = m + (j - 1)
      BY <1>1, <2>2
    <3> QED BY <1>7, <1>9, <3>1
  <2> QED BY <2>1, <2>2
<1>11. \A j \in 1..k : c[m + j] = l + Cut(j, n, p)
  BY <1>1, <1>7
<1>12. c[m + k] = l + n
  <2>1. CASE k = 0
    <3>1. n = 0
      BY <1>1, <2>1
    <3> QED BY <1>2, <1>8, <2>1, <3>1
  <2>2. CASE k # 0
    <3>1. Cut(k, n, p) = n
      BY <1>1, <1>3 DEF Cut
    <3> QED BY <1>1, <1>7, <2>2, <3>1
  <2> QED BY <2>1, <2>2
<1>13. \A q, r \in Nat : q <= r => c[q] <= c[r]
  <2> SUFFICES ASSUME NEW q \in Nat, NEW r \in Nat, q <= r PROVE c[q] <= c[r]
    OBVIOUS
  <2>1. CASE r <= m
    BY <2>1 DEF Marks
  <2>2. CASE q <= m /\ ~(r <= m)
    <3>1. b[q] <= l /\ b[q] \in Nat
      BY <2>2 DEF Marks
    <3> QED BY <1>2, <1>3, <2>2, <3>1
  <2>3. CASE ~(q <= m)
    <3>1. q - m \in Nat /\ r - m \in Nat /\ q - m <= r - m /\ ~(r <= m)
      BY <2>3
    <3>2. Cut(q - m, n, p) <= Cut(r - m, n, p) /\ Cut(q - m, n, p) \in Nat /\ Cut(r - m, n, p) \in Nat
      BY <1>3, <1>4, <3>1
    <3> QED BY <1>2, <2>3, <3>1, <3>2
  <2> QED BY <2>1, <2>2, <2>3
<1>14. ASSUME NEW q \in Nat, q < m + k
       PROVE  q < c[q + 1] /\ c[q + 1] - c[q] \in 1..p
  <2>1. CASE q < m
    <3>1. q \in 0..m /\ q + 1 \in 0..m
      BY <2>1
    <3>2. c[q] = b[q] /\ c[q + 1] = b[q + 1]
      BY <1>6, <3>1
    <3> QED BY <2>1, <3>2 DEF Marks
  <2>2. CASE ~(q < m)
    <3> DEFINE j == (q - m) + 1
    <3>1. j \in 1..k /\ (m + j) - 1 = q /\ m + j = q + 1
      BY <1>1, <1>14, <2>2
    <3> HIDE DEF j
    <3>2. c[q] = l + (j - 1) * p /\ c[q + 1] = l + Cut(j, n, p)
      BY <1>10, <1>11, <3>1
    <3>3. (j - 1) * p < n /\ (j - 1) * p + p = j * p /\ j <= j * p /\ (j - 1) * p \in Nat /\ j * p \in Nat
      BY <1>1, <1>3, <3>1
    <3>4. Cut(j, n, p) - (j - 1) * p \in 1..p
      BY <3>3 DEF Cut
    <3>5. j <= Cut(j, n, p)
      <4>1. (j - 1) <= (j - 1) * p
        BY <3>1
      <4> QED BY <3>1, <3>3, <4>1 DEF Cut
    <3>6. c[q + 1] - c[q] = Cut(j, n, p) - (j - 1) * p
      BY <1>2, <1>3, <3>1, <3>2, <3>3
    <3>7. q < c[q + 1]
      <4>1. Cut(j, n, p) \in Nat /\ j \in Nat
        BY <1>3, <3>1
      <4> HIDE DEF l, c
      <4> QED BY <1>2, <3>1, <3>2, <3>5, <4>1
    <3> QED BY <3>4, <3>6, <3>7
  <2> QED BY <2>1, <2>2
<1>15. c[0] = 0
  BY DEF Marks
<1> HIDE DEF c
<1>16. Marks(c, m + k, p)
  BY <1>5, <1>13, <1>14, <1>15 DEF Marks
<1> QED BY <1>6, <1>10, <1>11, <1>12, <1>16 DEF Extends

-----------------------------------------------------------------------------
Frame(b, q) == Bytes(b[q], b[q + 1])

SentLen(s) == Len(sent[s])
KeptLen(s) == Len(write_buf[s])
QueueLen(s) == Len(queue[s])
FlightLen(s) == Len(pending[s])

\* How many frames a side has taken to send, and was given in all.
Taken(s) == send_seq[s] + FlightLen(s)
Given(s) == send_seq[s] + FlightLen(s) + QueueLen(s)

PumpTypeOK ==
    /\ write_buf \in [U!Side -> Seq(Nat)] /\ sent \in [U!Side -> Seq(Nat)]
    /\ queue \in [U!Side -> Seq(Seq(Nat))] /\ pending \in [U!Side -> Seq(Seq(Nat))]
    /\ send_seq \in [U!Side -> Nat] /\ recv_seq \in [U!Side -> Nat]
    /\ inbound \in [U!Side -> Seq(1..MaxBytes)]
    /\ open \in [U!Side -> BOOLEAN] /\ running \in [U!Side -> BOOLEAN]
    /\ accepts \in 0..MaxAccepts
    /\ net \in SUBSET U!Datagram
    /\ \A s \in U!Side : FlightLen(s) <= 1

\* A side hands over the bytes 1, 2, ... and keeps the ones that follow.
Buffered(s) ==
    /\ sent[s] = Bytes(0, SentLen(s))
    /\ write_buf[s] = Bytes(SentLen(s), SentLen(s) + KeptLen(s))
    /\ SentLen(s) + KeptLen(s) <= U!Limit(s)

\* What is in flight and what is queued are the frames that follow the
\* acknowledged ones, up to the last byte handed over.
Framed(s, b) ==
    /\ Marks(b, Given(s), MaxPayload) /\ b[Given(s)] = SentLen(s)
    /\ \A k \in 1..FlightLen(s) : pending[s][k] = Frame(b, (send_seq[s] + k) - 1)
    /\ \A k \in 1..QueueLen(s) : queue[s][k] = Frame(b, (Taken(s) + k) - 1)

\* The datagrams on their way carry frames that were taken, and the other side
\* has read whole frames, all it counts as long as it reads at all.
Delivered(s, b) ==
    /\ \A d \in net : d.tag = "data" /\ d.to = U!Other(s)
                        => d.seq < Taken(s) /\ d.chunk = Frame(b, d.seq)
    /\ recv_seq[U!Other(s)] <= Taken(s)
    /\ \E r \in 0..recv_seq[U!Other(s)] :
          /\ inbound[U!Other(s)] = Bytes(0, b[r])
          /\ open[U!Other(s)] => r = recv_seq[U!Other(s)]

\* Numbers mean the same to both sides; a listener that starts over breaks this
\* for the stream it sends.
Joint(s) == s = "dialer" \/ accepts <= 1

Flow(s) == \E b \in [Nat -> Nat] : Framed(s, b) /\ (Joint(s) => Delivered(s, b))

AcksTell ==
    accepts <= 1 =>
        \A s \in U!Side :
            /\ send_seq[s] <= recv_seq[U!Other(s)]
            /\ \A d \in net : d.tag = "ack" /\ d.to = s => d.seq < recv_seq[U!Other(s)]

NotYetAccepted ==
    accepts = 0 => /\ ~open["listener"] /\ ~running["listener"]
                   /\ send_seq["listener"] = 0 /\ recv_seq["listener"] = 0
                   /\ pending["listener"] = << >> /\ queue["listener"] = << >>
                   /\ sent["listener"] = << >>

StreamCore ==
    /\ PumpTypeOK /\ (\A s \in U!Side : Buffered(s)) /\ (\A s \in U!Side : Flow(s))
    /\ AcksTell /\ NotYetAccepted

\* There are two sides.
LEMMA OtherSide ==
    /\ "dialer" \in U!Side /\ "listener" \in U!Side
    /\ U!Other("dialer") = "listener" /\ U!Other("listener") = "dialer"
    /\ \A s \in U!Side : U!Other(s) \in U!Side /\ U!Other(s) # s /\ U!Other(U!Other(s)) = s
    /\ \A s, t \in U!Side : t = s \/ t = U!Other(s)
  BY DEF U!Side, U!Other

\* The bounds of the streams.
LEMMA LimitFacts ==
  ASSUME U!StreamAssumption, NEW s
  PROVE  /\ U!Limit(s) \in Nat /\ U!Limit(s) <= MaxBytes /\ MaxBytes \in Nat
         /\ MaxPayload \in Nat \ {0}
  BY DEF U!StreamAssumption, U!Limit

\* The type invariant, at one side.
LEMMA PumpFacts ==
  ASSUME PumpTypeOK, NEW s \in U!Side
  PROVE  /\ write_buf[s] \in Seq(Nat) /\ sent[s] \in Seq(Nat)
         /\ queue[s] \in Seq(Seq(Nat)) /\ pending[s] \in Seq(Seq(Nat))
         /\ KeptLen(s) \in Nat /\ SentLen(s) \in Nat
         /\ QueueLen(s) \in Nat /\ FlightLen(s) \in Nat /\ FlightLen(s) <= 1
         /\ send_seq[s] \in Nat /\ recv_seq[s] \in Nat
         /\ inbound[s] \in Seq(1..MaxBytes)
         /\ Taken(s) \in Nat /\ Given(s) \in Nat
         /\ Taken(s) = send_seq[s] + FlightLen(s) /\ Given(s) = Taken(s) + QueueLen(s)
<1>1. /\ write_buf[s] \in Seq(Nat) /\ sent[s] \in Seq(Nat)
      /\ queue[s] \in Seq(Seq(Nat)) /\ pending[s] \in Seq(Seq(Nat))
      /\ send_seq[s] \in Nat /\ recv_seq[s] \in Nat
      /\ inbound[s] \in Seq(1..MaxBytes) /\ FlightLen(s) <= 1
  BY DEF PumpTypeOK
<1>2. /\ KeptLen(s) \in Nat /\ SentLen(s) \in Nat
      /\ QueueLen(s) \in Nat /\ FlightLen(s) \in Nat
  BY <1>1 DEF KeptLen, SentLen, QueueLen, FlightLen
<1>3. /\ Taken(s) \in Nat /\ Given(s) \in Nat
      /\ Taken(s) = send_seq[s] + FlightLen(s) /\ Given(s) = Taken(s) + QueueLen(s)
  BY <1>1, <1>2 DEF Taken, Given
<1> QED BY <1>1, <1>2, <1>3

\* Neither what was sent nor what is kept passes the bound.
LEMMA BufferedLength ==
  ASSUME U!StreamAssumption, PumpTypeOK, NEW s \in U!Side, Buffered(s)
  PROVE  /\ SentLen(s) + KeptLen(s) <= U!Limit(s)
         /\ SentLen(s) + KeptLen(s) <= MaxBytes /\ SentLen(s) <= MaxBytes
<1>1. SentLen(s) + KeptLen(s) <= U!Limit(s)
  BY DEF Buffered
<1>2. SentLen(s) \in Nat /\ KeptLen(s) \in Nat
  BY PumpFacts
<1>3. U!Limit(s) \in Nat /\ U!Limit(s) <= MaxBytes /\ MaxBytes \in Nat
  BY LimitFacts
<1> QED BY <1>1, <1>2, <1>3

\* What the frames of a side look like, wherever they are.
LEMMA FramesAreTyped ==
  ASSUME U!StreamAssumption, PumpTypeOK, NEW s \in U!Side, Buffered(s), NEW b, Framed(s, b),
         NEW q \in Nat, q < Given(s)
  PROVE  /\ q \in 0..MaxBytes /\ b[q] \in Nat /\ b[q + 1] \in Nat /\ b[q] <= b[q + 1]
         /\ b[q + 1] <= SentLen(s) /\ SentLen(s) <= MaxBytes
         /\ Frame(b, q) \in Seq(1..MaxBytes) /\ Frame(b, q) \in Seq(Nat)
         /\ Len(Frame(b, q)) \in 1..MaxPayload
<1>0. /\ SentLen(s) \in Nat /\ KeptLen(s) \in Nat /\ send_seq[s] \in Nat
      /\ FlightLen(s) \in Nat /\ QueueLen(s) \in Nat /\ Given(s) \in Nat
  BY PumpFacts
<1>1. U!Limit(s) \in Nat /\ U!Limit(s) <= MaxBytes /\ MaxBytes \in Nat /\ MaxPayload \in Nat \ {0}
  BY LimitFacts
<1>2. SentLen(s) <= MaxBytes
  BY BufferedLength
<1>3. b[q] \in Nat /\ b[q + 1] \in Nat /\ b[q] <= b[q + 1] /\ q < b[q + 1] /\ b[q + 1] - b[q] \in 1..MaxPayload
  BY DEF Framed, Marks
<1>4. b[q + 1] <= b[Given(s)] /\ b[Given(s)] = SentLen(s)
  <2>1. q + 1 <= Given(s)
    BY <1>0
  <2>2. b[Given(s)] = SentLen(s) /\ \A u, v \in Nat : u <= v => b[u] <= b[v]
    BY DEF Framed, Marks
  <2> QED BY <1>0, <2>1, <2>2
<1>5. q \in 0..MaxBytes
  BY <1>0, <1>1, <1>2, <1>3, <1>4
<1>6. Frame(b, q) \in Seq(1..MaxBytes) /\ Frame(b, q) \in Seq(Nat) /\ Len(Frame(b, q)) = b[q + 1] - b[q]
  <2>1. b[q + 1] <= MaxBytes
    BY <1>0, <1>1, <1>2, <1>3, <1>4
  <2>2. Bytes(b[q], b[q + 1]) \in Seq(1..MaxBytes)
    BY <1>1, <1>3, <2>1, BytesType
  <2> QED BY <1>3, <2>2, BytesFacts DEF Frame
<1> QED BY <1>2, <1>3, <1>4, <1>5, <1>6

\* dial: nothing written, nothing sent but perhaps a SYN.
LEMMA StreamCoreInit ==
  ASSUME U!StreamAssumption, U!Init
  PROVE  StreamCore
<1>0. MaxBytes \in Nat /\ MaxPayload \in Nat \ {0} /\ MaxAccepts \in Nat
  BY DEF U!StreamAssumption
<1>1. /\ \A s \in U!Side : /\ write_buf[s] = << >> /\ queue[s] = << >> /\ pending[s] = << >>
                           /\ sent[s] = << >> /\ inbound[s] = << >>
                           /\ send_seq[s] = 0 /\ recv_seq[s] = 0
      /\ accepts = 0 /\ ~open["listener"] /\ ~running["listener"]
  BY OtherSide DEF U!Init
<1>2. U!Syn \in U!Datagram /\ U!Syn.tag = "syn"
  <2>1. << >> \in Seq(1..MaxBytes)
    OBVIOUS
  <2> QED BY <1>0, <2>1 DEF U!Syn, U!Datagram, U!Side
<1>3. PumpTypeOK
  <2>1. write_buf \in [U!Side -> Seq(Nat)] /\ sent \in [U!Side -> Seq(Nat)]
    BY DEF U!Init
  <2>2. queue \in [U!Side -> Seq(Seq(Nat))] /\ pending \in [U!Side -> Seq(Seq(Nat))]
    BY DEF U!Init
  <2>3. send_seq \in [U!Side -> Nat] /\ recv_seq \in [U!Side -> Nat]
    BY DEF U!Init
  <2>4. inbound \in [U!Side -> Seq(1..MaxBytes)]
    BY DEF U!Init
  <2>5. open \in [U!Side -> BOOLEAN] /\ running \in [U!Side -> BOOLEAN]
    BY DEF U!Init
  <2>6. net \in SUBSET U!Datagram
    BY <1>2 DEF U!Init
  <2>7. accepts \in 0..MaxAccepts
    BY <1>0, <1>1
  <2>8. \A s \in U!Side : FlightLen(s) <= 1
    BY <1>1 DEF FlightLen
  <2> QED BY <2>1, <2>2, <2>3, <2>4, <2>5, <2>6, <2>7, <2>8 DEF PumpTypeOK
<1>4. ASSUME NEW s \in U!Side PROVE Buffered(s)
  <2>1. Bytes(0, 0) = << >>
    BY DEF Bytes
  <2>2. sent[s] = << >> /\ write_buf[s] = << >> /\ SentLen(s) = 0 /\ KeptLen(s) = 0
    BY <1>1 DEF SentLen, KeptLen
  <2>3. 0 <= U!Limit(s)
    BY LimitFacts
  <2> QED BY <2>1, <2>2, <2>3 DEF Buffered
<1>5. ASSUME NEW s \in U!Side PROVE Flow(s)
  <2> DEFINE b == [q \in Nat |-> 0]
  <2>1. Given(s) = 0 /\ Taken(s) = 0 /\ SentLen(s) = 0 /\ FlightLen(s) = 0 /\ QueueLen(s) = 0
    BY <1>1 DEF Given, Taken, SentLen, FlightLen, QueueLen
  <2>2. Framed(s, b)
    BY <2>1, <1>0 DEF Framed, Marks
  <2>3. Delivered(s, b)
    <3>1. \A d \in net : d.tag # "data"
      BY <1>2 DEF U!Init
    <3>2. U!Other(s) \in U!Side
      BY OtherSide
    <3>3. inbound[U!Other(s)] = Bytes(0, b[0]) /\ recv_seq[U!Other(s)] = 0
      BY <1>1, <3>2 DEF Bytes
    <3> QED BY <2>1, <3>1, <3>3 DEF Delivered
  <2> QED BY <2>2, <2>3 DEF Flow
<1>6. AcksTell
  <2>1. \A d \in net : d.tag # "ack"
    BY <1>2 DEF U!Init
  <2> QED BY <1>1, <2>1, OtherSide DEF AcksTell
<1>7. NotYetAccepted
  BY <1>1, OtherSide DEF NotYetAccepted
<1> QED BY <1>3, <1>4, <1>5, <1>6, <1>7 DEF StreamCore

\* What holds of the frames of two queues holds of the joined ones.
LEMMA JoinedLengths ==
  ASSUME NEW S, NEW q \in Seq(S), NEW p \in Seq(S),
         \A k \in 1..Len(q) : Len(q[k]) \in 1..MaxPayload,
         \A k \in 1..Len(p) : Len(p[k]) \in 1..MaxPayload
  PROVE  \A c \in U!Range(q \o p) : Len(c) \in 1..MaxPayload
<1> DEFINE u == q \o p
<1>1. /\ u \in Seq(S) /\ Len(u) = Len(q) + Len(p)
      /\ \A j \in 1..Len(q) : u[j] = q[j]
      /\ \A j \in 1..Len(p) : u[Len(q) + j] = p[j]
  BY ConcatFacts
<1>2. Len(q) \in Nat /\ Len(p) \in Nat
  OBVIOUS
<1> HIDE DEF u
<1>3. ASSUME NEW i \in 1..(Len(q) + Len(p)) PROVE Len(u[i]) \in 1..MaxPayload
  <2>1. CASE i <= Len(q)
    <3>1. i \in 1..Len(q)
      BY <1>2, <2>1
    <3> QED BY <1>1, <3>1
  <2>2. CASE ~(i <= Len(q))
    <3> DEFINE j == i - Len(q)
    <3>1. j \in 1..Len(p) /\ Len(q) + j = i
      BY <1>2, <2>2
    <3> HIDE DEF j
    <3>2. u[i] = p[j]
      BY <1>1, <3>1
    <3> QED BY <3>1, <3>2
  <2> QED BY <2>1, <2>2
<1>4. DOMAIN u = 1..(Len(q) + Len(p))
  BY <1>1
<1>5. \A c \in U!Range(u) : Len(c) \in 1..MaxPayload
  BY <1>3, <1>4 DEF U!Range
<1> QED BY <1>5 DEF u

\* The inductive invariant implies the checked one.
LEMMA StreamCoreSuffices ==
  ASSUME U!StreamAssumption, StreamCore, listening \in BOOLEAN
  PROVE  U!StreamInv
<1>0. PumpTypeOK /\ (\A s \in U!Side : Buffered(s)) /\ (\A s \in U!Side : Flow(s)) /\ AcksTell
  BY DEF StreamCore
<1>b. MaxBytes \in Nat
  BY DEF U!StreamAssumption
<1>1. ASSUME NEW s \in U!Side
      PROVE  /\ U!Range(write_buf[s]) \cup U!Range(sent[s]) \cup U!Range(inbound[s]) \subseteq 1..MaxBytes
             /\ FlightLen(s) <= 1
             /\ \A c \in U!Range(queue[s] \o pending[s]) : Len(c) \in 1..MaxPayload
  <2>1. /\ SentLen(s) \in Nat /\ KeptLen(s) \in Nat
        /\ U!Limit(s) \in Nat /\ U!Limit(s) <= MaxBytes
    BY <1>0, LimitFacts, PumpFacts
  <2>2. SentLen(s) + KeptLen(s) <= MaxBytes /\ SentLen(s) <= MaxBytes
    BY <1>0, BufferedLength
  <2>3. sent[s] \in Seq(1..MaxBytes) /\ write_buf[s] \in Seq(1..MaxBytes)
    <3> DEFINE l == SentLen(s)  n == l + KeptLen(s)
    <3>0. l \in Nat /\ n \in Nat /\ 0 <= l /\ l <= n /\ l <= MaxBytes /\ n <= MaxBytes
      BY <2>1, <2>2
    <3> HIDE DEF l, n
    <3>1. Bytes(0, l) \in Seq(1..MaxBytes)
      BY <1>b, <3>0, BytesType
    <3>2. Bytes(l, n) \in Seq(1..MaxBytes)
      BY <1>b, <3>0, BytesType
    <3> USE DEF l, n
    <3> QED BY <1>0, <3>1, <3>2 DEF Buffered
  <2>4. inbound[s] \in Seq(1..MaxBytes) /\ FlightLen(s) <= 1
    BY <1>0 DEF PumpTypeOK
  <2>5. \A x \in Seq(1..MaxBytes) : U!Range(x) \subseteq 1..MaxBytes
    <3> TAKE x \in Seq(1..MaxBytes)
    <3>1. \A i \in DOMAIN x : x[i] \in 1..MaxBytes
      BY <1>b
    <3> QED BY <3>1 DEF U!Range
  <2>6. PICK b \in [Nat -> Nat] : Framed(s, b)
    BY <1>0 DEF Flow
  <2>n. /\ send_seq[s] \in Nat /\ FlightLen(s) \in Nat /\ QueueLen(s) \in Nat
        /\ Taken(s) = send_seq[s] + FlightLen(s) /\ Given(s) = Taken(s) + QueueLen(s)
    BY <1>0, PumpFacts
  <2>7. \A k \in 1..FlightLen(s) : Len(pending[s][k]) \in 1..MaxPayload
    <3> TAKE k \in 1..FlightLen(s)
    <3>1. (send_seq[s] + k) - 1 \in Nat /\ (send_seq[s] + k) - 1 < Given(s)
      BY <2>n
    <3>2. Len(Frame(b, (send_seq[s] + k) - 1)) \in 1..MaxPayload
      BY <1>0, <2>6, <3>1, FramesAreTyped
    <3> QED BY <2>6, <3>2 DEF Framed
  <2>8. \A k \in 1..QueueLen(s) : Len(queue[s][k]) \in 1..MaxPayload
    <3> TAKE k \in 1..QueueLen(s)
    <3>1. (Taken(s) + k) - 1 \in Nat /\ (Taken(s) + k) - 1 < Given(s)
      BY <2>n
    <3>2. Len(Frame(b, (Taken(s) + k) - 1)) \in 1..MaxPayload
      BY <1>0, <2>6, <3>1, FramesAreTyped
    <3> QED BY <2>6, <3>2 DEF Framed
  <2>9. queue[s] \in Seq(Seq(Nat)) /\ pending[s] \in Seq(Seq(Nat))
    BY <1>0, PumpFacts
  <2>10. \A c \in U!Range(queue[s] \o pending[s]) : Len(c) \in 1..MaxPayload
    <3> DEFINE S == Seq(Nat)  q == queue[s]  p == pending[s]
    <3>1. /\ q \in Seq(S) /\ p \in Seq(S)
          /\ \A k \in 1..Len(q) : Len(q[k]) \in 1..MaxPayload
          /\ \A k \in 1..Len(p) : Len(p[k]) \in 1..MaxPayload
      BY <2>7, <2>8, <2>9 DEF QueueLen, FlightLen
    <3> HIDE DEF S, q, p
    <3>2. \A c \in U!Range(q \o p) : Len(c) \in 1..MaxPayload
      BY ONLY <3>1, JoinedLengths
    <3> QED BY <3>2 DEF q, p
  <2> QED BY <2>3, <2>4, <2>5, <2>10
<1>2. U!TypeOK
  BY <1>0, <1>1 DEF U!TypeOK, PumpTypeOK, FlightLen
<1>3. U!AckedMeansReceived
  <2> SUFFICES ASSUME accepts = 1, NEW s \in U!Side
               PROVE  /\ send_seq[s] <= recv_seq[U!Other(s)]
                      /\ recv_seq[U!Other(s)] <= send_seq[s] + FlightLen(s)
    BY DEF U!AckedMeansReceived, FlightLen
  <2>1. accepts <= 1
    OBVIOUS
  <2>2. PICK b \in [Nat -> Nat] : Delivered(s, b)
    BY <1>0, <2>1 DEF Flow, Joint
  <2> QED BY <1>0, <2>1, <2>2 DEF AcksTell, Delivered, Taken, FlightLen
<1>4. ASSUME NEW s \in U!Side, Joint(s)
      PROVE  U!IsPrefix(inbound[U!Other(s)], sent[s])
  <2>1. PICK b \in [Nat -> Nat] : Framed(s, b) /\ Delivered(s, b)
    BY <1>0, <1>4 DEF Flow
  <2>2. PICK r \in 0..recv_seq[U!Other(s)] : inbound[U!Other(s)] = Bytes(0, b[r])
    BY <2>1 DEF Delivered
  <2>3. /\ FlightLen(s) \in Nat /\ QueueLen(s) \in Nat /\ send_seq[s] \in Nat
        /\ recv_seq[U!Other(s)] \in Nat /\ SentLen(s) \in Nat
        /\ Taken(s) \in Nat /\ Given(s) = Taken(s) + QueueLen(s) /\ Given(s) \in Nat
    BY <1>0, OtherSide, PumpFacts
  <2>4. r \in Nat /\ Given(s) \in Nat /\ r <= Given(s)
    <3>1. recv_seq[U!Other(s)] <= Taken(s)
      BY <2>1 DEF Delivered
    <3> QED BY <2>3, <3>1
  <2>5. b[r] \in Nat /\ b[r] <= SentLen(s)
    BY <2>1, <2>4 DEF Framed, Marks
  <2>6. sent[s] = Bytes(0, SentLen(s))
    BY <1>0 DEF Buffered
  <2>7. U!IsPrefix(Bytes(0, b[r]), Bytes(0, SentLen(s)))
    BY <2>3, <2>5, BytesPrefix
  <2> QED BY <2>2, <2>6, <2>7
<1>5. U!ReadsAPrefix
  BY <1>4, OtherSide DEF U!ReadsAPrefix, Joint
<1> QED BY <1>2, <1>3, <1>5 DEF U!StreamInv

-----------------------------------------------------------------------------
\* What a step leaves alone.
LEMMA FramedSame ==
  ASSUME NEW s, sent'[s] = sent[s], send_seq'[s] = send_seq[s], pending'[s] = pending[s],
         queue'[s] = queue[s]
  PROVE  /\ SentLen(s)' = SentLen(s) /\ Taken(s)' = Taken(s) /\ Given(s)' = Given(s)
         /\ \A b : Framed(s, b) => Framed(s, b)'
<1>1. /\ SentLen(s)' = SentLen(s) /\ FlightLen(s)' = FlightLen(s) /\ QueueLen(s)' = QueueLen(s)
  BY DEF SentLen, FlightLen, QueueLen
<1>2. Taken(s)' = Taken(s) /\ Given(s)' = Given(s)
  BY <1>1 DEF Taken, Given
<1> QED BY <1>1, <1>2 DEF Framed

\* A step that neither writes nor hands over.
LEMMA BufferedSame ==
  ASSUME NEW s, sent'[s] = sent[s], write_buf'[s] = write_buf[s], Buffered(s)
  PROVE  Buffered(s)'
<1>1. SentLen(s)' = SentLen(s) /\ KeptLen(s)' = KeptLen(s)
  BY DEF SentLen, KeptLen
<1> QED BY <1>1 DEF Buffered, U!Limit

\* A datagram more, and perhaps a frame taken, on the way to a reader that does
\* nothing.
LEMMA DeliveredSame ==
  ASSUME PumpTypeOK, NEW s \in U!Side, NEW b, Delivered(s, b), NEW m,
         net' \subseteq net \cup {m}, Taken(s)' \in Nat, Taken(s) <= Taken(s)',
         m.tag = "data" /\ m.to = U!Other(s) => m.seq < Taken(s)' /\ m.chunk = Frame(b, m.seq),
         recv_seq'[U!Other(s)] = recv_seq[U!Other(s)],
         inbound'[U!Other(s)] = inbound[U!Other(s)],
         open'[U!Other(s)] => open[U!Other(s)]
  PROVE  Delivered(s, b)'
<1>1. Taken(s) \in Nat /\ recv_seq[U!Other(s)] \in Nat
  BY PumpFacts, OtherSide
<1>2. \A d \in net : d.seq \in Nat
  BY DEF PumpTypeOK, U!Datagram
<1>3. ASSUME NEW d \in net', d.tag = "data", d.to = U!Other(s)
      PROVE  d.seq < Taken(s)' /\ d.chunk = Frame(b, d.seq)
  <2>1. CASE d \in net
    <3>1. d.seq < Taken(s) /\ d.chunk = Frame(b, d.seq) /\ d.seq \in Nat
      BY <1>2, <1>3, <2>1 DEF Delivered
    <3> QED BY <1>1, <3>1
  <2>2. CASE d = m
    BY <1>3, <2>2
  <2> QED BY <2>1, <2>2
<1>4. recv_seq'[U!Other(s)] <= Taken(s)'
  <2>1. recv_seq[U!Other(s)] <= Taken(s)
    BY DEF Delivered
  <2> QED BY <1>1, <2>1
<1>5. \E r \in 0..recv_seq'[U!Other(s)] :
          /\ inbound'[U!Other(s)] = Bytes(0, b[r])
          /\ open'[U!Other(s)] => r = recv_seq'[U!Other(s)]
  BY DEF Delivered
<1> QED BY <1>3, <1>4, <1>5 DEF Delivered

\* Marks that agree cut the same frames.
LEMMA SameFrames ==
  ASSUME NEW b, NEW c, NEW m \in Nat, \A q \in 0..m : c[q] = b[q], NEW q \in Nat, q < m
  PROVE  Frame(c, q) = Frame(b, q)
<1>1. q \in 0..m /\ q + 1 \in 0..m
  OBVIOUS
<1> QED BY <1>1 DEF Frame

\* The frames a buffer is cut into.
LEMMA FramesOfBytes ==
  ASSUME MaxPayload \in Nat \ {0}, NEW l \in Nat, NEW n \in Nat
  PROVE  LET k == (n + MaxPayload - 1) \div MaxPayload
             fr == U!Frames(Bytes(l, l + n))
         IN  /\ k \in Nat /\ fr \in Seq(Seq(Nat)) /\ Len(fr) = k
             /\ \A j \in 1..k : fr[j] = Bytes(l + (j - 1) * MaxPayload, l + Cut(j, n, MaxPayload))
<1> DEFINE p == MaxPayload
           k == (n + p - 1) \div p
           bytes == Bytes(l, l + n)
           fr == U!Frames(bytes)
<1>1. /\ k \in Nat /\ n <= k * p
      /\ \A i \in 1..k : /\ (i - 1) * p < n /\ (i - 1) * p + p = i * p /\ i <= i * p
                         /\ (i - 1) * p \in Nat
  BY Ceiling
<1>2. Len(bytes) = n
  <2>1. l + n \in Nat /\ l <= l + n /\ (l + n) - l = n
    OBVIOUS
  <2> QED BY <2>1, BytesFacts
<1>3. fr = [i \in 1..k |-> SubSeq(bytes, (i - 1) * p + 1, IF i * p > n THEN n ELSE i * p)]
  BY <1>2 DEF U!Frames
<1> HIDE DEF k, fr, bytes
<1>4. ASSUME NEW j \in 1..k
      PROVE  /\ fr[j] = Bytes(l + (j - 1) * p, l + Cut(j, n, p))
             /\ fr[j] \in Seq(Nat)
  <2> DEFINE x == (j - 1) * p  y == Cut(j, n, p)
  <2>1. x \in Nat /\ x < n /\ x + p = j * p
    BY <1>1, <1>4
  <2>2. y \in Nat /\ x <= y /\ y <= n
    BY <2>1 DEF Cut
  <2>3. fr[j] = SubSeq(bytes, x + 1, y)
    BY <1>3 DEF Cut
  <2> HIDE DEF x, y
  <2>4. SubSeq(Bytes(l, l + n), x + 1, y) = Bytes(l + x, l + y)
    <3> DEFINE z == l + n
    <3>1. z \in Nat /\ l <= z /\ y <= z - l
      BY <2>2
    <3> HIDE DEF z
    <3>2. SubSeq(Bytes(l, z), x + 1, y) = Bytes(l + x, l + y)
      <4>1. x <= y /\ x \in Nat /\ y \in Nat /\ l \in Nat /\ z \in Nat /\ l <= z /\ y <= z - l
        BY <2>1, <2>2, <3>1
      <4>2. Part(Bytes(l, z), x, y) = Bytes(l + x, l + y)
        BY ONLY <4>1, BytesPart
      <4> QED BY ONLY <4>2 DEF Part
    <3> QED BY <3>2 DEF z
  <2>5. Bytes(l + x, l + y) \in Seq(Nat)
    <3>1. l + x \in Nat /\ l + y \in Nat /\ l + x <= l + y
      BY <2>1, <2>2
    <3> QED BY <3>1, BytesFacts
  <2> QED BY <2>3, <2>4, <2>5 DEF x, y, bytes
<1>5. fr \in [1..k -> Seq(Nat)]
  BY <1>3, <1>4
<1>6. fr \in Seq(Seq(Nat)) /\ Len(fr) = k
  BY <1>1, <1>5
<1> QED BY <1>1, <1>4, <1>6 DEF k, fr, bytes

\* poll_write and poll_flush: the frames handed over continue the stream.
LEMMA HandOverKeeps ==
  ASSUME U!StreamAssumption, StreamCore, NEW s \in U!Side, running[s], NEW len \in Nat,
         NEW buf, buf = Bytes(SentLen(s), SentLen(s) + len), SentLen(s) + len <= U!Limit(s),
         NEW n \in 0..len, U!HandOver(s, buf, n),
         UNCHANGED <<pending, send_seq, recv_seq, inbound, open, running, accepts, net>>
  PROVE  StreamCore'
<1>0. PumpTypeOK /\ (\A t \in U!Side : Buffered(t)) /\ (\A t \in U!Side : Flow(t))
      /\ AcksTell /\ NotYetAccepted
  BY DEF StreamCore
<1>p. MaxPayload \in Nat \ {0} /\ MaxBytes \in Nat
  BY DEF U!StreamAssumption
<1> DEFINE l == SentLen(s)
           k == (n + MaxPayload - 1) \div MaxPayload
           fr == U!Frames(Bytes(l, l + n))
<1>1. /\ l \in Nat /\ send_seq[s] \in Nat /\ FlightLen(s) \in Nat /\ QueueLen(s) \in Nat
      /\ Taken(s) \in Nat /\ Given(s) \in Nat /\ KeptLen(s) \in Nat
      /\ Taken(s) = send_seq[s] + FlightLen(s) /\ Given(s) = Taken(s) + QueueLen(s)
      /\ recv_seq[U!Other(s)] \in Nat
  BY <1>0, PumpFacts, OtherSide
<1>q. queue[s] \in Seq(Seq(Nat)) /\ sent[s] \in Seq(Nat)
  BY <1>0, PumpFacts
<1> HIDE DEF l
<1>2. Len(buf) = len /\ SubSeq(buf, 1, n) = Bytes(l, l + n) /\ SubSeq(buf, n + 1, len) = Bytes(l + n, l + len)
  <2> DEFINE z == l + len
  <2>1. z \in Nat /\ l <= z /\ z - l = len /\ n \in Nat /\ 0 \in Nat /\ n <= z - l /\ len <= z - l /\ 0 <= n /\ n <= len
    BY <1>1
  <2>2. buf = Bytes(l, z)
    BY DEF l
  <2> HIDE DEF z
  <2>3. Len(buf) = len
    BY <1>1, <2>1, <2>2, BytesFacts
  <2>4. SubSeq(Bytes(l, z), 1, n) = Bytes(l, l + n)
    <3>1. l \in Nat /\ z \in Nat /\ l <= z /\ n \in Nat /\ n <= z - l /\ 0 <= n /\ 0 \in Nat
      BY <1>1, <2>1
    <3>2. Part(Bytes(l, z), 0, n) = Bytes(l + 0, l + n)
      BY ONLY <3>1, BytesPart
    <3>3. 0 + 1 = 1 /\ l + 0 = l
      BY <3>1
    <3> QED BY ONLY <3>2, <3>3 DEF Part
  <2>5. SubSeq(Bytes(l, z), n + 1, len) = Bytes(l + n, l + len)
    <3>1. l \in Nat /\ z \in Nat /\ l <= z /\ n \in Nat /\ n <= len /\ len \in Nat /\ len <= z - l
      BY <1>1, <2>1
    <3>2. Part(Bytes(l, z), n, len) = Bytes(l + n, l + len)
      BY ONLY <3>1, BytesPart
    <3> QED BY ONLY <3>2 DEF Part
  <2> QED BY <2>2, <2>3, <2>4, <2>5, Zenon
<1>3. /\ k \in Nat /\ fr \in Seq(Seq(Nat)) /\ Len(fr) = k
      /\ \A j \in 1..k : fr[j] = Bytes(l + (j - 1) * MaxPayload, l + Cut(j, n, MaxPayload))
  <2>1. n \in Nat
    OBVIOUS
  <2> QED BY <1>1, <1>p, <2>1, FramesOfBytes, Zenon
<1> HIDE DEF k, fr
<1>4. /\ queue' = [queue EXCEPT ![s] = queue[s] \o fr]
      /\ sent' = [sent EXCEPT ![s] = sent[s] \o Bytes(l, l + n)]
      /\ write_buf' = [write_buf EXCEPT ![s] = Bytes(l + n, l + len)]
  BY <1>2 DEF U!HandOver, fr
<1>5. sent[s] \o Bytes(l, l + n) = Bytes(0, l + n)
  <2> DEFINE z == l + n
  <2>1. z \in Nat /\ l <= z /\ 0 <= l /\ 0 \in Nat
    BY <1>1
  <2> HIDE DEF z
  <2>2. Bytes(0, l) \o Bytes(l, z) = Bytes(0, z)
    BY <1>1, <2>1, BytesJoin
  <2>3. sent[s] = Bytes(0, l)
    BY <1>0 DEF Buffered, l
  <2> QED BY <2>2, <2>3 DEF z
<1>6. /\ sent'[s] = Bytes(0, l + n) /\ write_buf'[s] = Bytes(l + n, l + len)
      /\ queue'[s] = queue[s] \o fr
      /\ \A t \in U!Side : t # s => sent'[t] = sent[t] /\ write_buf'[t] = write_buf[t] /\ queue'[t] = queue[t]
  BY <1>0, <1>4, <1>5 DEF PumpTypeOK
<1>7. /\ SentLen(s)' = l + n /\ KeptLen(s)' = len - n
      /\ Bytes(0, l + n) \in Seq(Nat) /\ Bytes(l + n, l + len) \in Seq(Nat)
  <2> DEFINE y == l + n  z == l + len
  <2>1. y \in Nat /\ z \in Nat /\ 0 <= y /\ y <= z /\ z - y = len - n /\ y - 0 = y
    BY <1>1
  <2>2. sent'[s] = Bytes(0, y) /\ write_buf'[s] = Bytes(y, z)
    BY <1>6
  <2> HIDE DEF y, z
  <2>3. Len(Bytes(0, y)) = y /\ Len(Bytes(y, z)) = len - n /\ Bytes(0, y) \in Seq(Nat) /\ Bytes(y, z) \in Seq(Nat)
    BY <2>1, BytesFacts
  <2> QED BY <2>2, <2>3 DEF SentLen, KeptLen, y, z
<1>8. /\ queue[s] \o fr \in Seq(Seq(Nat)) /\ QueueLen(s)' = QueueLen(s) + k
      /\ FlightLen(s)' = FlightLen(s)
      /\ \A j \in 1..QueueLen(s) : queue'[s][j] = queue[s][j]
      /\ \A j \in 1..k : queue'[s][QueueLen(s) + j] = fr[j]
  <2> DEFINE q == queue[s]
  <2>1. q \in Seq(Seq(Nat)) /\ fr \in Seq(Seq(Nat)) /\ Len(q) \in Nat /\ Len(fr) = k
    BY <1>3, <1>q
  <2> HIDE DEF q
  <2>2. /\ q \o fr \in Seq(Seq(Nat)) /\ Len(q \o fr) = Len(q) + Len(fr)
        /\ \A j \in 1..Len(q) : (q \o fr)[j] = q[j]
        /\ \A j \in 1..Len(fr) : (q \o fr)[Len(q) + j] = fr[j]
    <3> DEFINE S == Seq(Nat)
    <3>1. q \in Seq(S) /\ fr \in Seq(S)
      BY <2>1
    <3> HIDE DEF S
    <3>2. /\ q \o fr \in Seq(S) /\ Len(q \o fr) = Len(q) + Len(fr)
          /\ \A j \in 1..Len(q) : (q \o fr)[j] = q[j]
          /\ \A j \in 1..Len(fr) : (q \o fr)[Len(q) + j] = fr[j]
      BY ONLY <3>1, ConcatFacts
    <3> QED BY <3>2 DEF S
  <2> QED BY <1>6, <2>1, <2>2 DEF QueueLen, FlightLen, q
<1>9. PumpTypeOK'
  <2>1. queue' \in [U!Side -> Seq(Seq(Nat))]
    BY <1>0, <1>4, <1>8 DEF PumpTypeOK
  <2>2. sent' \in [U!Side -> Seq(Nat)]
    BY <1>0, <1>4, <1>5, <1>7 DEF PumpTypeOK
  <2>3. write_buf' \in [U!Side -> Seq(Nat)]
    BY <1>0, <1>4, <1>7 DEF PumpTypeOK
  <2> QED BY <1>0, <2>1, <2>2, <2>3 DEF PumpTypeOK, FlightLen
<1>10. ASSUME NEW t \in U!Side PROVE Buffered(t)'
  <2>1. CASE t # s
    BY <1>0, <1>6, <2>1, BufferedSame
  <2>2. CASE t = s
    <3>1. (l + n) + (len - n) = l + len
      BY <1>1
    <3> QED BY <1>6, <1>7, <2>2, <3>1 DEF Buffered, l, U!Limit
  <2> QED BY <2>1, <2>2
<1>11. ASSUME NEW t \in U!Side, t # s PROVE Flow(t)'
  <2>1. PICK b \in [Nat -> Nat] : Framed(t, b) /\ (Joint(t) => Delivered(t, b))
    BY <1>0 DEF Flow
  <2>2. Framed(t, b)' /\ Taken(t)' = Taken(t)
    BY <1>6, <1>11, <2>1, FramedSame
  <2>3. Joint(t)' => Delivered(t, b)'
    BY <2>1, <2>2 DEF Joint, Delivered
  <2> QED BY <2>2, <2>3 DEF Flow
<1>12. Flow(s)'
  <2>1. PICK b \in [Nat -> Nat] : Framed(s, b) /\ (Joint(s) => Delivered(s, b))
    BY <1>0 DEF Flow
  <2>2. Marks(b, Given(s), MaxPayload) /\ b[Given(s)] = l
    BY <2>1 DEF Framed, l
  <2>3. PICK c : /\ Marks(c, Given(s) + k, MaxPayload)
                 /\ \A q \in 0..Given(s) : c[q] = b[q]
                 /\ c[Given(s) + k] = b[Given(s)] + n
                 /\ \A j \in 1..k : /\ c[(Given(s) + j) - 1] = b[Given(s)] + (j - 1) * MaxPayload
                                    /\ c[Given(s) + j] = b[Given(s)] + Cut(j, n, MaxPayload)
    <3>1. n \in Nat
      OBVIOUS
    <3> DEFINE g == Given(s)
    <3>2. g \in Nat /\ MaxPayload \in Nat \ {0} /\ Marks(b, g, MaxPayload)
      BY <1>1, <1>p, <2>2
    <3>3. k = (n + MaxPayload - 1) \div MaxPayload
      BY DEF k
    <3> HIDE DEF g
    <3>4. \E c : Extends(c, b, g, n, MaxPayload, k)
      BY ONLY <3>1, <3>2, <3>3, MarksExtend
    <3> QED BY <3>4 DEF g, Extends
  <2>4. ASSUME NEW q \in Nat, q < Given(s) PROVE Frame(c, q) = Frame(b, q)
    <3>1. q \in 0..Given(s) /\ q + 1 \in 0..Given(s)
      BY <1>1, <2>4
    <3> QED BY <2>3, <3>1 DEF Frame
  <2>5. Given(s)' = Given(s) + k /\ Taken(s)' = Taken(s)
    <3>1. Taken(s)' = send_seq[s] + FlightLen(s)
      BY <1>8 DEF Taken
    <3>2. Given(s)' = send_seq[s] + FlightLen(s) + (QueueLen(s) + k)
      BY <1>8 DEF Given
    <3>3. k \in Nat
      BY <1>3
    <3> QED BY <1>1, <3>1, <3>2, <3>3
  <2>6. Framed(s, c)'
    <3>1. Marks(c, Given(s)', MaxPayload) /\ c[Given(s)'] = SentLen(s)'
      BY <1>7, <2>2, <2>3, <2>5
    <3>2. \A j \in 1..FlightLen(s)' : pending'[s][j] = Frame(c, (send_seq'[s] + j) - 1)
      <4> SUFFICES ASSUME NEW j \in 1..FlightLen(s)
                   PROVE  pending[s][j] = Frame(c, (send_seq[s] + j) - 1)
        BY <1>8
      <4>1. (send_seq[s] + j) - 1 \in Nat /\ (send_seq[s] + j) - 1 < Given(s)
        BY <1>1
      <4> QED BY <2>1, <2>4, <4>1 DEF Framed
    <3>3. ASSUME NEW j \in 1..QueueLen(s)'
          PROVE  queue'[s][j] = Frame(c, (Taken(s)' + j) - 1)
      <4>0. j \in 1..(QueueLen(s) + k) /\ k \in Nat
        BY <1>3, <1>8
      <4>1. CASE j <= QueueLen(s)
        <5>1. (Taken(s) + j) - 1 \in Nat /\ (Taken(s) + j) - 1 < Given(s) /\ j \in 1..QueueLen(s)
          BY <1>1, <4>0, <4>1
        <5>2. queue[s][j] = Frame(b, (Taken(s) + j) - 1)
          BY <2>1, <5>1 DEF Framed
        <5> QED BY <1>8, <2>4, <2>5, <5>1, <5>2
      <4>2. CASE ~(j <= QueueLen(s))
        <5> DEFINE i == j - QueueLen(s)
        <5>1. i \in 1..k /\ QueueLen(s) + i = j /\ (Taken(s) + j) - 1 = (Given(s) + i) - 1
              /\ ((Given(s) + i) - 1) + 1 = Given(s) + i
          BY <1>1, <4>0, <4>2
        <5> HIDE DEF i
        <5>2. queue'[s][j] = fr[i]
          BY <1>8, <5>1
        <5>3. fr[i] = Bytes(l + (i - 1) * MaxPayload, l + Cut(i, n, MaxPayload))
          BY <1>3, <5>1
        <5>4. Frame(c, (Given(s) + i) - 1) = Bytes(l + (i - 1) * MaxPayload, l + Cut(i, n, MaxPayload))
          BY <2>2, <2>3, <5>1 DEF Frame
        <5> QED BY <2>5, <5>1, <5>2, <5>3, <5>4
      <4> QED BY <4>1, <4>2
    <3> QED BY <3>1, <3>2, <3>3 DEF Framed
  <2>7. ASSUME Delivered(s, b) PROVE Delivered(s, c)'
    <3>1. \A d \in net : d.tag = "data" /\ d.to = U!Other(s)
                           => d.seq < Taken(s) /\ d.chunk = Frame(c, d.seq)
      <4> SUFFICES ASSUME NEW d \in net, d.tag = "data", d.to = U!Other(s)
                   PROVE  d.seq < Taken(s) /\ d.chunk = Frame(c, d.seq)
        OBVIOUS
      <4>1. d.seq < Taken(s) /\ d.chunk = Frame(b, d.seq)
        BY <2>7 DEF Delivered
      <4>2. d.seq \in Nat
        BY <1>0 DEF PumpTypeOK, U!Datagram
      <4>3. d.seq < Given(s)
        BY <1>1, <4>1, <4>2
      <4> QED BY <2>4, <4>1, <4>2, <4>3
    <3>2. PICK r \in 0..recv_seq[U!Other(s)] :
              /\ inbound[U!Other(s)] = Bytes(0, b[r])
              /\ open[U!Other(s)] => r = recv_seq[U!Other(s)]
      BY <2>7 DEF Delivered
    <3>3. recv_seq[U!Other(s)] <= Taken(s)
      BY <2>7 DEF Delivered
    <3>4. r \in 0..Given(s)
      BY <1>1, <3>3
    <3>5. c[r] = b[r]
      BY <2>3, <3>4
    <3> QED BY <2>5, <3>1, <3>2, <3>3, <3>5 DEF Delivered
  <2>8. c \in [Nat -> Nat]
    BY <2>3 DEF Marks
  <2> QED BY <2>1, <2>6, <2>7, <2>8 DEF Flow, Joint
<1>13. AcksTell'
  BY <1>0 DEF AcksTell
<1>14. NotYetAccepted'
  <2>1. accepts = 0 => s # "listener"
    BY <1>0 DEF NotYetAccepted
  <2> QED BY <1>0, <1>6, <2>1, OtherSide DEF NotYetAccepted
<1> QED BY <1>9, <1>10, <1>11, <1>12, <1>13, <1>14 DEF StreamCore

\* A step that touches neither side's frames nor the reader.
LEMMA FlowSame ==
  ASSUME PumpTypeOK, NEW s \in U!Side, Flow(s),
         sent'[s] = sent[s], send_seq'[s] = send_seq[s], pending'[s] = pending[s],
         queue'[s] = queue[s],
         NEW m, net' \subseteq net \cup {m},
         \A b : Framed(s, b) /\ m.tag = "data" /\ m.to = U!Other(s)
                  => m.seq < Taken(s) /\ m.chunk = Frame(b, m.seq),
         recv_seq'[U!Other(s)] = recv_seq[U!Other(s)],
         inbound'[U!Other(s)] = inbound[U!Other(s)],
         open'[U!Other(s)] => open[U!Other(s)],
         Joint(s)' => Joint(s)
  PROVE  Flow(s)'
<1>1. PICK b \in [Nat -> Nat] : Framed(s, b) /\ (Joint(s) => Delivered(s, b))
  BY DEF Flow
<1>2. Framed(s, b)' /\ Taken(s)' = Taken(s)
  BY <1>1, FramedSame
<1>3. Taken(s) \in Nat
  BY PumpFacts
<1>4. ASSUME Delivered(s, b) PROVE Delivered(s, b)'
  <2>1. Taken(s)' \in Nat /\ Taken(s) <= Taken(s)'
    BY <1>2, <1>3
  <2>2. m.tag = "data" /\ m.to = U!Other(s) => m.seq < Taken(s)' /\ m.chunk = Frame(b, m.seq)
    BY <1>1, <1>2
  <2> QED BY <1>4, <2>1, <2>2, DeliveredSame
<1> QED BY <1>1, <1>2, <1>4 DEF Flow

\* poll_write buffers and hands over full frames.
LEMMA PollWriteKeeps ==
  ASSUME U!StreamAssumption, StreamCore, NEW s \in U!Side, NEW n \in 1..MaxBytes,
         U!PollWrite(s, n)
  PROVE  StreamCore'
<1> DEFINE l == SentLen(s)
           w == KeptLen(s)
           g == l + w
           buf == write_buf[s] \o [i \in 1..n |-> g + i]
<1>0. PumpTypeOK /\ Buffered(s) /\ MaxBytes \in Nat /\ MaxPayload \in Nat \ {0}
  BY DEF StreamCore, U!StreamAssumption
<1>1. /\ running[s] /\ g + n <= U!Limit(s) /\ U!HandOver(s, buf, U!FullFrames(buf))
      /\ UNCHANGED <<pending, send_seq, recv_seq, inbound, open, running, accepts, net>>
  BY DEF U!PollWrite, SentLen, KeptLen
<1>2. l \in Nat /\ w \in Nat
  BY <1>0, PumpFacts
<1>3. write_buf[s] = Bytes(l, g)
  BY <1>0 DEF Buffered
<1> HIDE DEF l, w
<1>4. g \in Nat /\ l <= g /\ n \in Nat /\ g <= g + n /\ (g + n) - g = n /\ g + n \in Nat
      /\ w + n \in Nat /\ g + n = l + (w + n)
  BY <1>0, <1>2
<1> HIDE DEF g
<1>5. [i \in 1..n |-> g + i] = Bytes(g, g + n)
  BY <1>4 DEF Bytes
<1> DEFINE z == g + n
<1>6. z \in Nat /\ g <= z
  BY <1>4
<1> HIDE DEF z
<1>7. Bytes(l, g) \o Bytes(g, z) = Bytes(l, z)
  BY ONLY <1>2, <1>4, <1>6, BytesJoin
<1>8. buf = Bytes(l, z)
  BY <1>3, <1>5, <1>7 DEF z
<1> DEFINE len == w + n
<1>9. len \in Nat /\ z = l + len /\ z - l = len /\ l <= z
  BY <1>2, <1>4 DEF z
<1>10. Len(buf) = len
  BY <1>2, <1>6, <1>8, <1>9, BytesFacts
<1> HIDE DEF len, buf
<1> DEFINE k == U!FullFrames(buf)
<1>11. k \in 0..len
  BY <1>0, <1>9, <1>10, WholeFrames DEF U!FullFrames
<1> HIDE DEF k
<1>12. buf = Bytes(SentLen(s), SentLen(s) + len) /\ SentLen(s) + len <= U!Limit(s)
  <2>1. l + len <= U!Limit(s) /\ buf = Bytes(l, l + len)
    BY <1>1, <1>8, <1>9 DEF z
  <2> QED BY <2>1 DEF l
<1> QED BY <1>1, <1>9, <1>11, <1>12, HandOverKeeps DEF k

\* poll_flush hands over the rest.
LEMMA PollFlushKeeps ==
  ASSUME U!StreamAssumption, StreamCore, NEW s \in U!Side, U!PollFlush(s)
  PROVE  StreamCore'
<1> DEFINE len == KeptLen(s)
           buf == write_buf[s]
<1>0. PumpTypeOK /\ Buffered(s)
  BY DEF StreamCore
<1>1. /\ running[s] /\ U!HandOver(s, buf, len)
      /\ UNCHANGED <<pending, send_seq, recv_seq, inbound, open, running, accepts, net>>
  BY DEF U!PollFlush, KeptLen
<1>2. len \in Nat /\ len \in 0..len
  BY <1>0, PumpFacts
<1>3. buf = Bytes(SentLen(s), SentLen(s) + len) /\ SentLen(s) + len <= U!Limit(s)
  BY <1>0 DEF Buffered
<1> HIDE DEF len, buf
<1> QED BY <1>1, <1>2, <1>3, HandOverKeeps

\* A frame that is sent, once more or for the first time.
LEMMA SentFrameFits ==
  ASSUME U!StreamAssumption, PumpTypeOK, NEW s \in U!Side, Buffered(s), NEW b, Framed(s, b),
         send_seq[s] < Given(s)
  PROVE  U!Data(U!Other(s), send_seq[s], Frame(b, send_seq[s])) \in U!Datagram
<1>1. send_seq[s] \in Nat
  BY PumpFacts
<1>2. send_seq[s] \in 0..MaxBytes /\ Frame(b, send_seq[s]) \in Seq(1..MaxBytes)
  BY <1>1, FramesAreTyped
<1>3. U!Other(s) \in U!Side
  BY OtherSide
<1> QED BY <1>2, <1>3 DEF U!Data, U!Datagram

\* The interval's retransmission repeats the frame in flight.
LEMMA RetransmitKeeps ==
  ASSUME U!StreamAssumption, StreamCore, NEW s \in U!Side, U!Retransmit(s)
  PROVE  StreamCore'
<1>0. PumpTypeOK /\ (\A t \in U!Side : Buffered(t)) /\ (\A t \in U!Side : Flow(t))
      /\ AcksTell /\ NotYetAccepted
  BY DEF StreamCore
<1> DEFINE m == U!Data(U!Other(s), send_seq[s], pending[s][1])
<1>1. /\ running[s] /\ pending[s] # << >> /\ net' \subseteq net \cup {m} /\ net' \in {net, net \cup {m}}
      /\ UNCHANGED <<write_buf, queue, pending, sent, send_seq, recv_seq, inbound, open,
                     running, accepts>>
  BY DEF U!Retransmit, U!Send
<1>2. /\ send_seq[s] \in Nat /\ FlightLen(s) \in Nat /\ QueueLen(s) \in Nat
      /\ Taken(s) = send_seq[s] + FlightLen(s) /\ Given(s) = Taken(s) + QueueLen(s)
      /\ FlightLen(s) <= 1
  BY <1>0, PumpFacts
<1>3. FlightLen(s) # 0
  <2>1. pending[s] \in Seq(Seq(Nat))
    BY <1>0, PumpFacts
  <2> QED BY <1>1, <2>1 DEF FlightLen
<1>4. 1 \in 1..FlightLen(s) /\ send_seq[s] < Taken(s) /\ send_seq[s] < Given(s) /\ (send_seq[s] + 1) - 1 = send_seq[s]
  BY <1>2, <1>3
<1>5. \A b : Framed(s, b) => pending[s][1] = Frame(b, send_seq[s])
  BY <1>4 DEF Framed
<1>6. /\ m.tag = "data" /\ m.to = U!Other(s) /\ m.seq = send_seq[s] /\ m.chunk = pending[s][1]
  BY DEF U!Data
<1>7. m \in U!Datagram
  <2>1. PICK b : Framed(s, b)
    BY <1>0 DEF Flow
  <2>2. U!Data(U!Other(s), send_seq[s], Frame(b, send_seq[s])) \in U!Datagram
    BY <1>0, <1>4, <2>1, SentFrameFits
  <2> QED BY <1>5, <2>1, <2>2
<1> HIDE DEF m
<1>8. PumpTypeOK'
  BY <1>0, <1>1, <1>7 DEF PumpTypeOK, FlightLen
<1>9. ASSUME NEW t \in U!Side PROVE Buffered(t)'
  BY <1>0, <1>1, BufferedSame
<1>10. ASSUME NEW t \in U!Side PROVE Flow(t)'
  <2>1. Joint(t)' => Joint(t)
    BY <1>1 DEF Joint
  <2>2. ASSUME NEW b, Framed(t, b), m.tag = "data", m.to = U!Other(t)
        PROVE  m.seq < Taken(t) /\ m.chunk = Frame(b, m.seq)
    <3>1. t = s
      BY <1>6, <2>2, OtherSide
    <3> QED BY <1>4, <1>5, <1>6, <2>2, <3>1
  <2> QED BY <1>0, <1>1, <2>1, <2>2, FlowSame
<1>11. AcksTell'
  BY <1>0, <1>1, <1>6 DEF AcksTell
<1>12. NotYetAccepted'
  BY <1>0, <1>1 DEF NotYetAccepted
<1> QED BY <1>8, <1>9, <1>10, <1>11, <1>12 DEF StreamCore

\* The application drops its stream.
LEMMA DropKeeps ==
  ASSUME U!StreamAssumption, StreamCore, NEW s \in U!Side, U!Drop(s)
  PROVE  StreamCore'
<1>0. PumpTypeOK /\ (\A t \in U!Side : Buffered(t)) /\ (\A t \in U!Side : Flow(t))
      /\ AcksTell /\ NotYetAccepted
  BY DEF StreamCore
<1>1. /\ open' = [open EXCEPT ![s] = FALSE] /\ write_buf' = [write_buf EXCEPT ![s] = << >>]
      /\ UNCHANGED <<queue, pending, sent, send_seq, recv_seq, inbound, running, accepts, net>>
  BY DEF U!Drop
<1>2. PumpTypeOK'
  BY <1>0, <1>1 DEF PumpTypeOK, FlightLen
<1>3. ASSUME NEW t \in U!Side PROVE Buffered(t)'
  <2>1. CASE t # s
    <3>1. write_buf'[t] = write_buf[t]
      BY <1>0, <1>1, <2>1 DEF PumpTypeOK
    <3> QED BY <1>0, <1>1, <3>1, BufferedSame
  <2>2. CASE t = s
    <3>1. SentLen(t)' = SentLen(t) /\ write_buf'[t] = << >>
      BY <1>0, <1>1, <2>2 DEF PumpTypeOK, SentLen
    <3>2. KeptLen(t)' = 0
      BY <3>1 DEF KeptLen
    <3>3. SentLen(t) \in Nat /\ KeptLen(t) \in Nat /\ U!Limit(t) \in Nat
      BY <1>0, PumpFacts, LimitFacts
    <3> DEFINE l == SentLen(t)
    <3>4. sent[t] = Bytes(0, l) /\ l + KeptLen(t) <= U!Limit(t)
      BY <1>0 DEF Buffered
    <3> HIDE DEF l
    <3>5. l + 0 <= U!Limit(t) /\ l + 0 = l /\ l \in Nat
      BY <3>3, <3>4 DEF l
    <3>6. Bytes(l, l) = << >>
      <4>1. Bytes(l, l) \in Seq(Nat) /\ Len(Bytes(l, l)) = l - l
        BY <3>5, BytesFacts
      <4> QED BY <3>5, <4>1
    <3> QED BY <1>1, <3>1, <3>2, <3>4, <3>5, <3>6 DEF Buffered, l, U!Limit
  <2> QED BY <2>1, <2>2
<1>4. ASSUME NEW t \in U!Side PROVE Flow(t)'
  <2> DEFINE m == U!Syn
  <2>1. m.tag # "data"
    BY DEF U!Syn
  <2> HIDE DEF m
  <2>2. (Joint(t)' => Joint(t)) /\ (open'[U!Other(t)] => open[U!Other(t)])
    BY <1>0, <1>1, OtherSide DEF Joint, PumpTypeOK
  <2> QED BY <1>0, <1>1, <2>1, <2>2, FlowSame
<1>5. AcksTell'
  BY <1>0, <1>1 DEF AcksTell
<1>6. NotYetAccepted'
  BY <1>0, <1>1 DEF NotYetAccepted, PumpTypeOK
<1> QED BY <1>2, <1>3, <1>4, <1>5, <1>6 DEF StreamCore

\* The pump ends, having noticed the drop or having lost what it receives from.
LEMMA PumpEndsKeeps ==
  ASSUME StreamCore, NEW s \in U!Side, U!PumpEnds(s) \/ U!PumpClosed(s)
  PROVE  StreamCore'
<1>0. PumpTypeOK /\ (\A t \in U!Side : Buffered(t)) /\ (\A t \in U!Side : Flow(t))
      /\ AcksTell /\ NotYetAccepted
  BY DEF StreamCore
<1>1. /\ running' = [running EXCEPT ![s] = FALSE]
      /\ UNCHANGED <<write_buf, queue, pending, sent, send_seq, recv_seq, inbound, open, accepts,
                     net>>
  BY DEF U!PumpEnds, U!PumpClosed
<1>2. PumpTypeOK'
  BY <1>0, <1>1 DEF PumpTypeOK, FlightLen
<1>3. ASSUME NEW t \in U!Side PROVE Buffered(t)'
  BY <1>0, <1>1, BufferedSame
<1>4. ASSUME NEW t \in U!Side PROVE Flow(t)'
  <2> DEFINE m == U!Syn
  <2>1. m.tag # "data"
    BY DEF U!Syn
  <2> HIDE DEF m
  <2>2. Joint(t)' => Joint(t)
    BY <1>1 DEF Joint
  <2> QED BY <1>0, <1>1, <2>1, <2>2, FlowSame
<1>5. AcksTell'
  BY <1>0, <1>1 DEF AcksTell
<1>6. NotYetAccepted'
  BY <1>0, <1>1 DEF NotYetAccepted, PumpTypeOK
<1> QED BY <1>2, <1>3, <1>4, <1>5, <1>6 DEF StreamCore

\* The pump takes the next chunk and sends it.
LEMMA TakeChunkKeeps ==
  ASSUME U!StreamAssumption, StreamCore, NEW s \in U!Side, U!TakeChunk(s)
  PROVE  StreamCore'
<1>0. PumpTypeOK /\ (\A t \in U!Side : Buffered(t)) /\ (\A t \in U!Side : Flow(t))
      /\ AcksTell /\ NotYetAccepted
  BY DEF StreamCore
<1> DEFINE q == queue[s]
           m == U!Data(U!Other(s), send_seq[s], Head(q))
<1>1. /\ running[s] /\ pending[s] = << >> /\ q # << >>
      /\ pending' = [pending EXCEPT ![s] = <<Head(q)>>] /\ queue' = [queue EXCEPT ![s] = Tail(q)]
      /\ net' \subseteq net \cup {m} /\ net' \in {net, net \cup {m}}
      /\ UNCHANGED <<write_buf, sent, send_seq, recv_seq, inbound, open, running, accepts>>
  BY DEF U!TakeChunk, U!Send
<1>2. /\ send_seq[s] \in Nat /\ QueueLen(s) \in Nat /\ Taken(s) \in Nat
      /\ Taken(s) = send_seq[s] + FlightLen(s) /\ Given(s) = Taken(s) + QueueLen(s)
      /\ q \in Seq(Seq(Nat))
  BY <1>0, PumpFacts
<1>q. QueueLen(s) = Len(q)
  BY DEF QueueLen
<1> HIDE DEF q
<1>3. /\ Head(q) = q[1] /\ Head(q) \in Seq(Nat) /\ Tail(q) \in Seq(Seq(Nat)) /\ Len(q) \in Nat \ {0}
      /\ Len(Tail(q)) = Len(q) - 1
  BY <1>1, <1>2
<1>4. \A k \in 1..(Len(q) - 1) : Tail(q)[k] = q[k + 1]
  BY <1>1, <1>2
<1>5. /\ pending'[s] = <<Head(q)>> /\ queue'[s] = Tail(q)
      /\ \A t \in U!Side : t # s => pending'[t] = pending[t] /\ queue'[t] = queue[t]
  BY <1>0, <1>1 DEF PumpTypeOK
<1>6. FlightLen(s) = 0 /\ FlightLen(s)' = 1 /\ QueueLen(s)' = QueueLen(s) - 1
  BY <1>1, <1>3, <1>5, <1>q DEF FlightLen, QueueLen
<1>7. Taken(s)' = Taken(s) + 1 /\ Given(s)' = Given(s) /\ Taken(s) = send_seq[s] /\ SentLen(s)' = SentLen(s)
  <2>1. Taken(s)' = send_seq[s] + 1 /\ Given(s)' = (send_seq[s] + 1) + (QueueLen(s) - 1)
    BY <1>1, <1>6 DEF Taken, Given
  <2>2. SentLen(s)' = SentLen(s)
    BY <1>1 DEF SentLen
  <2> QED BY <1>2, <1>6, <2>1, <2>2
<1>n. /\ send_seq[s] \in Nat /\ QueueLen(s) \in Nat \ {0} /\ Taken(s) \in Nat
      /\ Taken(s) = send_seq[s] /\ Given(s) = Taken(s) + QueueLen(s) /\ Taken(s)' = Taken(s) + 1
  <2>1. QueueLen(s) # 0
    BY <1>3, <1>q
  <2> QED BY <1>2, <1>7, <2>1
<1>8. 1 \in 1..QueueLen(s) /\ send_seq[s] < Given(s) /\ (Taken(s) + 1) - 1 = send_seq[s]
  BY ONLY <1>n
<1>9. \A b : Framed(s, b) => Head(q) = Frame(b, send_seq[s])
  BY <1>3, <1>8 DEF Framed, q
<1>10. /\ m.tag = "data" /\ m.to = U!Other(s) /\ m.seq = send_seq[s] /\ m.chunk = Head(q)
  BY DEF U!Data
<1>11. m \in U!Datagram
  <2>1. PICK b : Framed(s, b)
    BY <1>0 DEF Flow
  <2>2. U!Data(U!Other(s), send_seq[s], Frame(b, send_seq[s])) \in U!Datagram
    BY <1>0, <1>8, <2>1, SentFrameFits
  <2> QED BY <1>9, <2>1, <2>2
<1> HIDE DEF m
<1>12. PumpTypeOK'
  <2>1. pending' \in [U!Side -> Seq(Seq(Nat))] /\ queue' \in [U!Side -> Seq(Seq(Nat))]
    <3>1. <<Head(q)>> \in Seq(Seq(Nat))
      BY <1>3
    <3> QED BY <1>0, <1>1, <1>3, <3>1 DEF PumpTypeOK
  <2>2. \A t \in U!Side : FlightLen(t)' <= 1
    <3> TAKE t \in U!Side
    <3>1. CASE t = s
      BY <1>6, <3>1
    <3>2. CASE t # s
      BY <1>0, <1>5, <3>2 DEF PumpTypeOK, FlightLen
    <3> QED BY <3>1, <3>2
  <2> QED BY <1>0, <1>1, <1>11, <2>1, <2>2 DEF PumpTypeOK
<1>13. ASSUME NEW t \in U!Side PROVE Buffered(t)'
  BY <1>0, <1>1, BufferedSame
<1>14. ASSUME NEW t \in U!Side, t # s PROVE Flow(t)'
  <2>1. Joint(t)' => Joint(t)
    BY <1>1 DEF Joint
  <2>2. m.to # U!Other(t)
    BY <1>10, <1>14, OtherSide
  <2> QED BY <1>0, <1>1, <1>5, <1>14, <2>1, <2>2, FlowSame
<1>15. Flow(s)'
  <2>1. PICK b \in [Nat -> Nat] : Framed(s, b) /\ (Joint(s) => Delivered(s, b))
    BY <1>0 DEF Flow
  <2>2. Framed(s, b)'
    <3>1. Marks(b, Given(s)', MaxPayload) /\ b[Given(s)'] = SentLen(s)'
      BY <1>7, <2>1 DEF Framed
    <3>2. \A k \in 1..FlightLen(s)' : pending'[s][k] = Frame(b, (send_seq'[s] + k) - 1)
      <4>1. pending'[s][1] = Frame(b, send_seq[s])
        BY <1>5, <1>9, <2>1
      <4>2. (send_seq[s] + 1) - 1 = send_seq[s] /\ 1..1 = {1}
        BY <1>2
      <4> QED BY <1>1, <1>6, <4>1, <4>2
    <3>3. ASSUME NEW k \in 1..QueueLen(s)'
          PROVE  queue'[s][k] = Frame(b, (Taken(s)' + k) - 1)
      <4>1. k \in 1..(Len(q) - 1) /\ k + 1 \in 1..QueueLen(s)
        BY <1>2, <1>6, <1>q
      <4>2. queue'[s][k] = q[k + 1]
        BY <1>4, <1>5, <4>1
      <4>3. q[k + 1] = Frame(b, (Taken(s) + (k + 1)) - 1)
        BY <2>1, <4>1 DEF Framed, q
      <4>4. (Taken(s) + (k + 1)) - 1 = ((Taken(s) + 1) + k) - 1
        <5>1. k \in Nat
          BY <4>1
        <5> QED BY ONLY <1>n, <5>1
      <4> QED BY <1>7, <4>2, <4>3, <4>4
    <3> QED BY <3>1, <3>2, <3>3 DEF Framed
  <2>3. ASSUME Delivered(s, b) PROVE Delivered(s, b)'
    <3>1. Taken(s)' \in Nat /\ Taken(s) <= Taken(s)'
      BY ONLY <1>n
    <3>2. m.tag = "data" /\ m.to = U!Other(s) => m.seq < Taken(s)' /\ m.chunk = Frame(b, m.seq)
      <4>1. send_seq[s] < Taken(s)'
        BY <1>2, <1>7
      <4> QED BY <1>9, <1>10, <2>1, <4>1
    <3> QED BY <1>0, <1>1, <2>3, <3>1, <3>2, DeliveredSame
  <2> QED BY <1>1, <2>1, <2>2, <2>3 DEF Flow, Joint
<1>16. AcksTell'
  BY <1>0, <1>1, <1>10 DEF AcksTell
<1>17. NotYetAccepted'
  <2>1. accepts = 0 => s # "listener"
    BY <1>0, <1>1 DEF NotYetAccepted
  <2> QED BY <1>0, <1>1, <1>5, <2>1, OtherSide DEF NotYetAccepted
<1> QED BY <1>12, <1>13, <1>14, <1>15, <1>16, <1>17 DEF StreamCore

\* An ACK ends the frame in flight only when it carries its number, and then
\* the other side has counted that frame.
LEMMA HandleAckKeeps ==
  ASSUME U!StreamAssumption, StreamCore, NEW m \in net, running[m.to], U!HandleAck(m.to, m)
  PROVE  StreamCore'
<1>0. PumpTypeOK /\ (\A t \in U!Side : Buffered(t)) /\ (\A t \in U!Side : Flow(t))
      /\ AcksTell /\ NotYetAccepted
  BY DEF StreamCore
<1> DEFINE s == m.to
           fits == pending[s] # << >> /\ m.seq = send_seq[s]
<1>1. s \in U!Side /\ m.seq \in Nat
  BY <1>0 DEF PumpTypeOK, U!Datagram
<1>2. /\ m.tag = "ack"
      /\ pending' = [pending EXCEPT ![s] = IF fits THEN << >> ELSE pending[s]]
      /\ send_seq' = [send_seq EXCEPT ![s] = IF fits THEN send_seq[s] + 1 ELSE send_seq[s]]
      /\ UNCHANGED <<write_buf, queue, sent, recv_seq, inbound, open, running, accepts, net>>
  BY DEF U!HandleAck
<1>s. m.to = s
  OBVIOUS
<1> HIDE DEF s
<1>3. CASE ~fits
  <2>1. pending' = pending /\ send_seq' = send_seq
    BY <1>0, <1>1, <1>2, <1>3 DEF PumpTypeOK
  <2>2. PumpTypeOK'
    BY <1>0, <1>2, <2>1 DEF PumpTypeOK, FlightLen
  <2>3. ASSUME NEW t \in U!Side PROVE Buffered(t)'
    BY <1>0, <1>2, BufferedSame
  <2>4. ASSUME NEW t \in U!Side PROVE Flow(t)'
    <3>1. Joint(t)' => Joint(t)
      BY <1>2 DEF Joint
    <3> QED BY <1>0, <1>2, <2>1, <3>1, FlowSame
  <2>5. AcksTell' /\ NotYetAccepted'
    BY <1>0, <1>2, <2>1 DEF AcksTell, NotYetAccepted
  <2> QED BY <2>2, <2>3, <2>4, <2>5 DEF StreamCore
<1>4. CASE fits
  <2>1. /\ pending'[s] = << >> /\ send_seq'[s] = send_seq[s] + 1
        /\ \A t \in U!Side : t # s => pending'[t] = pending[t] /\ send_seq'[t] = send_seq[t]
    BY <1>0, <1>1, <1>2, <1>4 DEF PumpTypeOK
  <2>2. /\ send_seq[s] \in Nat /\ FlightLen(s) \in Nat /\ QueueLen(s) \in Nat /\ FlightLen(s) <= 1
        /\ Taken(s) = send_seq[s] + FlightLen(s) /\ Given(s) = Taken(s) + QueueLen(s)
        /\ pending[s] \in Seq(Seq(Nat))
    BY <1>0, <1>1, PumpFacts
  <2>3. FlightLen(s) = 1 /\ FlightLen(s)' = 0 /\ QueueLen(s)' = QueueLen(s) /\ SentLen(s)' = SentLen(s)
    <3>1. FlightLen(s) # 0
      BY <1>4, <2>2 DEF FlightLen
    <3>2. FlightLen(s)' = 0 /\ QueueLen(s)' = QueueLen(s) /\ SentLen(s)' = SentLen(s)
      BY <1>2, <2>1 DEF FlightLen, QueueLen, SentLen
    <3> QED BY <2>2, <3>1, <3>2
  <2>4. Taken(s)' = Taken(s) /\ Given(s)' = Given(s)
    <3>1. Taken(s)' = (send_seq[s] + 1) + 0 /\ Given(s)' = (send_seq[s] + 1) + 0 + QueueLen(s)
      BY <2>1, <2>3 DEF Taken, Given
    <3> QED BY <2>2, <2>3, <3>1
  <2>5. PumpTypeOK'
    <3>1. pending' \in [U!Side -> Seq(Seq(Nat))]
      <4>1. << >> \in Seq(Seq(Nat))
        OBVIOUS
      <4> QED BY <1>0, <1>1, <1>2, <1>4, <4>1 DEF PumpTypeOK
    <3>3. send_seq' \in [U!Side -> Nat]
      <4>1. send_seq[s] + 1 \in Nat
        BY <2>2
      <4> QED BY <1>0, <1>1, <1>2, <1>4, <4>1 DEF PumpTypeOK
    <3>2. \A t \in U!Side : FlightLen(t)' <= 1
      <4> TAKE t \in U!Side
      <4>1. CASE t = s
        BY <2>3, <4>1
      <4>2. CASE t # s
        BY <1>0, <2>1, <4>2 DEF PumpTypeOK, FlightLen
      <4> QED BY <4>1, <4>2
    <3> QED BY <1>0, <1>2, <3>1, <3>2, <3>3 DEF PumpTypeOK
  <2>6. ASSUME NEW t \in U!Side PROVE Buffered(t)'
    BY <1>0, <1>2, BufferedSame
  <2>7. ASSUME NEW t \in U!Side, t # s PROVE Flow(t)'
    <3>1. Joint(t)' => Joint(t)
      BY <1>2 DEF Joint
    <3> QED BY <1>0, <1>2, <2>1, <2>7, <3>1, FlowSame
  <2>8. Flow(s)'
    <3>1. PICK b \in [Nat -> Nat] : Framed(s, b) /\ (Joint(s) => Delivered(s, b))
      BY <1>0, <1>1 DEF Flow
    <3>2. Framed(s, b)'
      <4>1. 1..FlightLen(s)' = {}
        BY <2>3
      <4> QED BY <1>2, <2>3, <2>4, <3>1, <4>1 DEF Framed
    <3>3. Joint(s)' => Delivered(s, b)'
      BY <1>2, <2>4, <3>1 DEF Joint, Delivered
    <3> QED BY <3>2, <3>3 DEF Flow
  <2>9. AcksTell'
    <3> SUFFICES ASSUME accepts <= 1, NEW t \in U!Side
                 PROVE  /\ send_seq'[t] <= recv_seq[U!Other(t)]
                        /\ \A d \in net : d.tag = "ack" /\ d.to = t => d.seq < recv_seq[U!Other(t)]
      BY <1>2 DEF AcksTell
    <3>1. /\ send_seq[t] <= recv_seq[U!Other(t)]
          /\ \A d \in net : d.tag = "ack" /\ d.to = t => d.seq < recv_seq[U!Other(t)]
      BY <1>0 DEF AcksTell
    <3>2. CASE t # s
      BY <2>1, <3>1, <3>2
    <3>3. CASE t = s
      <4>1. m.seq < recv_seq[U!Other(t)] /\ m.seq = send_seq[t]
        BY <1>2, <1>4, <1>s, <3>1, <3>3
      <4>2. recv_seq[U!Other(t)] \in Nat
        BY <1>0, OtherSide, PumpFacts
      <4> QED BY <1>1, <2>1, <3>1, <3>3, <4>1, <4>2
    <3> QED BY <3>2, <3>3
  <2>10. NotYetAccepted'
    <3>1. accepts = 0 => s # "listener"
      BY <1>0, <1>s DEF NotYetAccepted
    <3> QED BY <1>0, <1>2, <2>1, <3>1, OtherSide DEF NotYetAccepted
  <2> QED BY <2>5, <2>6, <2>7, <2>8, <2>9, <2>10 DEF StreamCore
<1> QED BY <1>3, <1>4

\* A DATA frame is handed on once and in order, however often it arrives.
LEMMA HandleDataKeeps ==
  ASSUME U!StreamAssumption, StreamCore, NEW m \in net, running[m.to], U!HandleData(m.to, m)
  PROVE  StreamCore'
<1>0. PumpTypeOK /\ (\A t \in U!Side : Buffered(t)) /\ (\A t \in U!Side : Flow(t))
      /\ AcksTell /\ NotYetAccepted
  BY DEF StreamCore
<1> DEFINE s == m.to
           o == U!Other(s)
           a == U!Ack(o, m.seq)
           fits == m.seq = recv_seq[s]
           chunk == m.chunk
           seq == m.seq
<1>1. s \in U!Side /\ seq \in Nat /\ seq \in 0..MaxBytes /\ chunk \in Seq(1..MaxBytes) /\ m \in U!Datagram
  BY <1>0 DEF PumpTypeOK, U!Datagram
<1>2. /\ m.tag = "data" /\ net' \subseteq net \cup {a} /\ net' \in {net, net \cup {a}}
      /\ recv_seq' = [recv_seq EXCEPT ![s] = IF fits THEN recv_seq[s] + 1 ELSE recv_seq[s]]
      /\ inbound' = [inbound EXCEPT ![s] = IF fits /\ open[s] THEN inbound[s] \o chunk ELSE inbound[s]]
      /\ running' = [running EXCEPT ![s] = ~(fits /\ ~open[s])]
      /\ UNCHANGED <<write_buf, queue, pending, sent, send_seq, open, accepts>>
  BY DEF U!HandleData, U!Send
<1>3. /\ o \in U!Side /\ o # s /\ U!Other(o) = s /\ m.to = s /\ m.seq = seq /\ m.chunk = chunk
      /\ U!Other(s) = o /\ running[s] /\ (fits <=> seq = recv_seq[s])
  BY <1>1, OtherSide
<1>4. a \in U!Datagram /\ a.tag = "ack" /\ a.to = o /\ a.seq = seq
  BY <1>1, <1>3 DEF U!Ack, U!Datagram
<1> HIDE DEF s, o, a, fits, chunk, seq
<1>5. /\ recv_seq'[s] = (IF fits THEN recv_seq[s] + 1 ELSE recv_seq[s])
      /\ inbound'[s] = (IF fits /\ open[s] THEN inbound[s] \o chunk ELSE inbound[s])
      /\ recv_seq'[o] = recv_seq[o] /\ inbound'[o] = inbound[o]
  BY <1>0, <1>1, <1>2, <1>3 DEF PumpTypeOK
<1>6. /\ recv_seq[s] \in Nat /\ recv_seq[o] \in Nat /\ send_seq[o] \in Nat /\ FlightLen(o) \in Nat
      /\ FlightLen(o) <= 1 /\ Taken(o) = send_seq[o] + FlightLen(o) /\ Taken(o) \in Nat
  BY <1>0, <1>1, <1>3, PumpFacts
<1>7. PumpTypeOK'
  <2>1. recv_seq' \in [U!Side -> Nat]
    <3>1. (IF fits THEN recv_seq[s] + 1 ELSE recv_seq[s]) \in Nat
      BY <1>6
    <3> QED BY <1>0, <1>2, <3>1 DEF PumpTypeOK
  <2>2. inbound' \in [U!Side -> Seq(1..MaxBytes)]
    <3> DEFINE S == 1..MaxBytes  i == inbound[s]
    <3>1. i \in Seq(S) /\ chunk \in Seq(S)
      BY <1>0, <1>1, PumpFacts
    <3> HIDE DEF S, i
    <3>2. i \o chunk \in Seq(S)
      BY <3>1
    <3>3. (IF fits /\ open[s] THEN inbound[s] \o chunk ELSE inbound[s]) \in Seq(1..MaxBytes)
      BY <3>1, <3>2 DEF S, i
    <3> QED BY <1>0, <1>2, <3>3 DEF PumpTypeOK
  <2>3. running' \in [U!Side -> BOOLEAN]
    BY <1>0, <1>2 DEF PumpTypeOK
  <2>4. net' \in SUBSET U!Datagram
    BY <1>0, <1>2, <1>4 DEF PumpTypeOK
  <2> QED BY <1>0, <1>2, <2>1, <2>2, <2>3, <2>4 DEF PumpTypeOK, FlightLen
<1>8. ASSUME NEW t \in U!Side PROVE Buffered(t)'
  BY <1>0, <1>2, BufferedSame
<1>9. Flow(s)'
  <2>1. (Joint(s)' => Joint(s)) /\ a.tag # "data"
    BY <1>2, <1>4 DEF Joint
  <2> QED BY <1>0, <1>1, <1>2, <1>3, <1>5, <2>1, FlowSame
<1>10. ASSUME Joint(o) PROVE seq < Taken(o)
  <2>1. PICK b \in [Nat -> Nat] : Delivered(o, b)
    BY <1>0, <1>3, <1>10 DEF Flow
  <2> QED BY <1>2, <1>3, <2>1 DEF Delivered
<1>11. Flow(o)'
  <2>1. PICK b \in [Nat -> Nat] : Framed(o, b) /\ (Joint(o) => Delivered(o, b))
    BY <1>0, <1>3 DEF Flow
  <2>2. Framed(o, b)' /\ Taken(o)' = Taken(o)
    BY <1>2, <2>1, FramedSame
  <2>3. ASSUME Joint(o) PROVE Delivered(o, b)'
    <3>1. /\ \A d \in net : d.tag = "data" /\ d.to = s => d.seq < Taken(o) /\ d.chunk = Frame(b, d.seq)
          /\ recv_seq[s] <= Taken(o)
          /\ \E r \in 0..recv_seq[s] : inbound[s] = Bytes(0, b[r]) /\ (open[s] => r = recv_seq[s])
      BY <1>3, <2>1, <2>3 DEF Delivered
    <3>2. PICK r \in 0..recv_seq[s] : inbound[s] = Bytes(0, b[r]) /\ (open[s] => r = recv_seq[s])
      BY <3>1
    <3>3. \A d \in net' : d.tag = "data" /\ d.to = s => d.seq < Taken(o) /\ d.chunk = Frame(b, d.seq)
      BY <1>2, <1>4, <3>1
    <3>4. seq < Taken(o) /\ chunk = Frame(b, seq)
      BY <1>2, <1>3, <3>1
    <3>5. recv_seq'[s] <= Taken(o) /\ recv_seq'[s] \in Nat /\ recv_seq[s] <= recv_seq'[s]
      <4>1. /\ seq \in Nat /\ recv_seq[s] \in Nat /\ Taken(o) \in Nat /\ seq < Taken(o)
            /\ recv_seq[s] <= Taken(o) /\ (fits <=> seq = recv_seq[s])
            /\ recv_seq'[s] = (IF fits THEN recv_seq[s] + 1 ELSE recv_seq[s])
        BY <1>1, <1>3, <1>5, <1>6, <3>1, <3>4
      <4> QED BY ONLY <4>1
    <3>6. \E x \in 0..recv_seq'[s] : inbound'[s] = Bytes(0, b[x]) /\ (open[s] => x = recv_seq'[s])
      <4>1. CASE ~(fits /\ open[s])
        <5>1. inbound'[s] = inbound[s] /\ r \in 0..recv_seq'[s] /\ (open[s] => recv_seq'[s] = recv_seq[s])
          BY <1>5, <1>6, <3>5, <4>1
        <5> QED BY <3>2, <5>1
      <4>2. CASE fits /\ open[s]
        <5>1. r = seq /\ recv_seq'[s] = seq + 1 /\ inbound'[s] = inbound[s] \o chunk
          BY <1>3, <1>5, <3>2, <4>2
        <5>2. b[seq] \in Nat /\ b[seq + 1] \in Nat /\ b[seq] <= b[seq + 1]
          BY <1>1, <2>1 DEF Framed, Marks
        <5> DEFINE x == b[seq]  y == b[seq + 1]
        <5>3. x \in Nat /\ y \in Nat /\ x <= y /\ 0 \in Nat /\ 0 <= x
          BY <5>2
        <5>4. inbound[s] = Bytes(0, x) /\ chunk = Bytes(x, y)
          BY <3>2, <3>4, <5>1 DEF Frame
        <5> HIDE DEF x, y
        <5>5. Bytes(0, x) \o Bytes(x, y) = Bytes(0, y)
          BY ONLY <5>3, BytesJoin
        <5>6. seq + 1 \in 0..recv_seq'[s]
          <6>1. seq \in Nat /\ recv_seq'[s] = seq + 1
            BY <1>1, <5>1
          <6> QED BY ONLY <6>1
        <5> QED BY <5>1, <5>4, <5>5, <5>6 DEF y
      <4> QED BY <4>1, <4>2
    <3> QED BY <1>2, <1>3, <2>2, <3>3, <3>5, <3>6 DEF Delivered
  <2> QED BY <1>2, <2>1, <2>2, <2>3 DEF Flow, Joint
<1>12. ASSUME NEW t \in U!Side PROVE Flow(t)'
  BY <1>3, <1>9, <1>11, OtherSide
<1>13. AcksTell'
  <2> SUFFICES ASSUME accepts <= 1, NEW t \in U!Side
               PROVE  /\ send_seq[t] <= recv_seq'[U!Other(t)]
                      /\ \A d \in net' : d.tag = "ack" /\ d.to = t => d.seq < recv_seq'[U!Other(t)]
    BY <1>2 DEF AcksTell
  <2>1. /\ send_seq[t] <= recv_seq[U!Other(t)]
        /\ \A d \in net : d.tag = "ack" /\ d.to = t => d.seq < recv_seq[U!Other(t)]
    BY <1>0 DEF AcksTell
  <2>2. CASE t = s
    BY <1>2, <1>3, <1>4, <1>5, <2>1, <2>2
  <2>3. CASE t = o
    <3>1. seq < Taken(o)
      BY <1>10 DEF Joint
    <3>2. /\ send_seq[o] <= recv_seq[s]
          /\ \A d \in net : d.tag = "ack" /\ d.to = o => d.seq < recv_seq[s]
      BY <1>3, <2>1, <2>3
    <3>3. seq <= recv_seq[s]
      BY <1>1, <1>6, <3>1, <3>2
    <3>4. seq < recv_seq'[s] /\ recv_seq[s] <= recv_seq'[s] /\ recv_seq'[s] \in Nat
      BY <1>1, <1>3, <1>5, <1>6, <3>3
    <3>5. send_seq[o] <= recv_seq'[s]
      BY <1>6, <3>2, <3>4
    <3>6. ASSUME NEW d \in net', d.tag = "ack", d.to = o PROVE d.seq < recv_seq'[s]
      <4>1. CASE d = a
        BY <1>4, <3>4, <4>1
      <4>2. CASE d \in net
        <5>1. d.seq \in Nat
          BY <1>0, <4>2 DEF PumpTypeOK, U!Datagram
        <5>2. d.seq < recv_seq[s]
          BY <3>2, <3>6, <4>2
        <5> QED BY <1>6, <3>4, <5>1, <5>2
      <4> QED BY <1>2, <4>1, <4>2
    <3> QED BY <1>3, <2>3, <3>5, <3>6
  <2> QED BY <1>3, <2>2, <2>3, OtherSide
<1>14. NotYetAccepted'
  <2>1. accepts = 0 => s # "listener"
    BY <1>0, <1>3 DEF NotYetAccepted
  <2>2. running'["listener"] = running["listener"] \/ s = "listener"
    BY <1>0, <1>2, OtherSide DEF PumpTypeOK
  <2>3. recv_seq'["listener"] = recv_seq["listener"] \/ s = "listener"
    BY <1>0, <1>2, OtherSide DEF PumpTypeOK
  <2> QED BY <1>0, <1>2, <2>1, <2>2, <2>3 DEF NotYetAccepted
<1> QED BY <1>7, <1>8, <1>12, <1>13, <1>14 DEF StreamCore

\* An empty stream.
LEMMA NoBytes == Bytes(0, 0) = << >> /\ Marks([q \in Nat |-> 0], 0, MaxPayload)
<1>1. Bytes(0, 0) \in Seq(Nat) /\ Len(Bytes(0, 0)) = 0 - 0
  BY BytesFacts
<1> QED BY <1>1 DEF Marks

\* The accept loop starts a pump over; the stream it hands out starts with the
\* first frame or empty.
LEMMA AcceptKeeps ==
  ASSUME U!StreamAssumption, StreamCore, NEW m \in net, U!Accept(m)
  PROVE  StreamCore'
<1>0. PumpTypeOK /\ (\A t \in U!Side : Buffered(t)) /\ (\A t \in U!Side : Flow(t))
      /\ AcksTell /\ NotYetAccepted
  BY DEF StreamCore
<1> DEFINE a == U!Ack("dialer", m.seq)
           chunk == m.chunk
           seq == m.seq
           first == m.tag = "data" /\ m.seq = 0
<1>1. seq \in Nat /\ seq \in 0..MaxBytes /\ chunk \in Seq(1..MaxBytes) /\ m \in U!Datagram
  BY <1>0 DEF PumpTypeOK, U!Datagram
<1>2. /\ m.to = "listener" /\ accepts < MaxAccepts /\ accepts' = accepts + 1
      /\ write_buf' = [write_buf EXCEPT !["listener"] = << >>]
      /\ queue' = [queue EXCEPT !["listener"] = << >>]
      /\ pending' = [pending EXCEPT !["listener"] = << >>]
      /\ sent' = [sent EXCEPT !["listener"] = << >>]
      /\ send_seq' = [send_seq EXCEPT !["listener"] = 0]
      /\ recv_seq' = [recv_seq EXCEPT !["listener"] = IF first THEN 1 ELSE 0]
      /\ inbound' = [inbound EXCEPT !["listener"] = IF first THEN chunk ELSE << >>]
      /\ open' = [open EXCEPT !["listener"] = TRUE]
      /\ running' = [running EXCEPT !["listener"] = TRUE]
      /\ net' \in {net, net \cup {a}}
      /\ net' # net => m.tag = "data"
  BY DEF U!Accept, U!Send
<1>3. a \in U!Datagram /\ a.tag = "ack" /\ a.to = "dialer" /\ a.seq = seq
  BY <1>1, OtherSide DEF U!Ack, U!Datagram
<1>4. m.seq = seq /\ m.chunk = chunk /\ (first <=> m.tag = "data" /\ seq = 0)
  OBVIOUS
<1> HIDE DEF a, chunk, seq, first
<1>5. /\ write_buf'["listener"] = << >> /\ queue'["listener"] = << >> /\ pending'["listener"] = << >>
      /\ sent'["listener"] = << >> /\ send_seq'["listener"] = 0
      /\ recv_seq'["listener"] = (IF first THEN 1 ELSE 0)
      /\ inbound'["listener"] = (IF first THEN chunk ELSE << >>)
      /\ open'["listener"] = TRUE
  BY <1>0, <1>2, OtherSide DEF PumpTypeOK
<1>6. /\ write_buf'["dialer"] = write_buf["dialer"] /\ queue'["dialer"] = queue["dialer"]
      /\ pending'["dialer"] = pending["dialer"] /\ sent'["dialer"] = sent["dialer"]
      /\ send_seq'["dialer"] = send_seq["dialer"] /\ recv_seq'["dialer"] = recv_seq["dialer"]
      /\ inbound'["dialer"] = inbound["dialer"] /\ open'["dialer"] = open["dialer"]
  BY <1>0, <1>2, OtherSide DEF PumpTypeOK
<1>7. /\ accepts \in Nat /\ accepts' \in Nat /\ accepts' # 0 /\ accepts' \in 0..MaxAccepts
      /\ (accepts' <= 1 <=> accepts = 0)
  <2>1. accepts \in 0..MaxAccepts /\ MaxAccepts \in Nat
    BY <1>0 DEF PumpTypeOK, U!StreamAssumption
  <2> QED BY <1>2, <2>1
<1>8. /\ SentLen("listener")' = 0 /\ KeptLen("listener")' = 0 /\ QueueLen("listener")' = 0
      /\ FlightLen("listener")' = 0
  BY <1>5 DEF SentLen, KeptLen, QueueLen, FlightLen
<1>9. Taken("listener")' = 0 /\ Given("listener")' = 0
  BY <1>5, <1>8 DEF Taken, Given
<1>10. /\ send_seq["dialer"] \in Nat /\ FlightLen("dialer") \in Nat /\ FlightLen("dialer") <= 1
       /\ Taken("dialer") = send_seq["dialer"] + FlightLen("dialer") /\ Taken("dialer") \in Nat
       /\ recv_seq["dialer"] \in Nat
  BY <1>0, OtherSide, PumpFacts
<1>11. PumpTypeOK'
  <2>1. /\ write_buf' \in [U!Side -> Seq(Nat)] /\ sent' \in [U!Side -> Seq(Nat)]
        /\ send_seq' \in [U!Side -> Nat] /\ recv_seq' \in [U!Side -> Nat]
        /\ open' \in [U!Side -> BOOLEAN] /\ running' \in [U!Side -> BOOLEAN]
    <3>1. << >> \in Seq(Nat) /\ (IF first THEN 1 ELSE 0) \in Nat
      OBVIOUS
    <3>2. write_buf' \in [U!Side -> Seq(Nat)] /\ sent' \in [U!Side -> Seq(Nat)]
      BY <1>0, <1>2, <3>1 DEF PumpTypeOK
    <3>3. send_seq' \in [U!Side -> Nat] /\ recv_seq' \in [U!Side -> Nat]
      BY <1>0, <1>2, <3>1 DEF PumpTypeOK
    <3>4. open' \in [U!Side -> BOOLEAN] /\ running' \in [U!Side -> BOOLEAN]
      BY <1>0, <1>2 DEF PumpTypeOK
    <3> QED BY <3>2, <3>3, <3>4
  <2>2. queue' \in [U!Side -> Seq(Seq(Nat))] /\ pending' \in [U!Side -> Seq(Seq(Nat))]
    <3>1. << >> \in Seq(Seq(Nat))
      OBVIOUS
    <3> QED BY <1>0, <1>2, <3>1 DEF PumpTypeOK
  <2>3. inbound' \in [U!Side -> Seq(1..MaxBytes)]
    <3>1. (IF first THEN chunk ELSE << >>) \in Seq(1..MaxBytes)
      <4>1. chunk \in Seq(1..MaxBytes) /\ << >> \in Seq(1..MaxBytes)
        BY <1>1
      <4> QED BY ONLY <4>1
    <3> QED BY <1>0, <1>2, <3>1 DEF PumpTypeOK
  <2>4. net' \in SUBSET U!Datagram
    BY <1>0, <1>2, <1>3 DEF PumpTypeOK
  <2>5. \A t \in U!Side : FlightLen(t)' <= 1
    <3> TAKE t \in U!Side
    <3>1. FlightLen("dialer")' = FlightLen("dialer")
      BY <1>6 DEF FlightLen
    <3>2. t = "dialer" \/ t = "listener"
      BY DEF U!Side
    <3> QED BY <1>8, <1>10, <3>1, <3>2
  <2> QED BY <1>7, <2>1, <2>2, <2>3, <2>4, <2>5 DEF PumpTypeOK
<1>12. ASSUME NEW t \in U!Side PROVE Buffered(t)'
  <2>1. CASE t = "dialer"
    BY <1>0, <1>6, <2>1, BufferedSame
  <2>2. CASE t = "listener"
    <3>1. U!Limit("listener") \in Nat
      BY LimitFacts
    <3> QED BY <1>5, <1>8, <2>2, <3>1, NoBytes DEF Buffered, U!Limit
  <2> QED BY <2>1, <2>2 DEF U!Side
<1>13. Flow("dialer")'
  <2>1. PICK b \in [Nat -> Nat] : Framed("dialer", b) /\ Delivered("dialer", b)
    BY <1>0, OtherSide DEF Flow, Joint
  <2>2. Framed("dialer", b)' /\ Taken("dialer")' = Taken("dialer")
    BY <1>6, <2>1, FramedSame
  <2>3. \A d \in net : d.tag = "data" /\ d.to = "listener"
                         => d.seq < Taken("dialer") /\ d.chunk = Frame(b, d.seq)
    BY <2>1, OtherSide DEF Delivered
  <2>4. \A d \in net' : d.tag = "data" /\ d.to = "listener"
                         => d.seq < Taken("dialer") /\ d.chunk = Frame(b, d.seq)
    BY <1>2, <1>3, <2>3
  <2>5. first => 0 < Taken("dialer") /\ chunk = Frame(b, 0)
    BY <1>2, <1>4, <2>3
  <2>6. b[0] = 0 /\ Frame(b, 0) = Bytes(0, b[1])
    BY <2>1 DEF Framed, Marks, Frame
  <2>7. recv_seq'["listener"] <= Taken("dialer") /\ inbound'["listener"] = Bytes(0, b[recv_seq'["listener"]])
        /\ recv_seq'["listener"] \in 0..recv_seq'["listener"]
    <3>1. CASE first
      BY <1>5, <1>10, <2>5, <2>6, <3>1
    <3>2. CASE ~first
      BY <1>5, <1>10, <2>6, <3>2, NoBytes
    <3> QED BY <3>1, <3>2
  <2> QED BY <2>2, <2>4, <2>7, OtherSide DEF Flow, Delivered
<1>14. Flow("listener")'
  <2> DEFINE b == [q \in Nat |-> 0]
  <2>1. b \in [Nat -> Nat] /\ Marks(b, 0, MaxPayload) /\ b[0] = 0
    BY NoBytes
  <2> HIDE DEF b
  <2>2. Framed("listener", b)'
    <3>1. 1..0 = {}
      OBVIOUS
    <3> QED BY <1>8, <1>9, <2>1, <3>1 DEF Framed
  <2>3. ASSUME Joint("listener")' PROVE Delivered("listener", b)'
    <3>1. accepts = 0
      BY <1>7, <2>3 DEF Joint
    <3>2. PICK c \in [Nat -> Nat] : Framed("listener", c) /\ Delivered("listener", c)
      BY <1>0, <3>1, OtherSide DEF Flow, Joint
    <3>3. Taken("listener") = 0
      <4>1. FlightLen("listener") = 0 /\ send_seq["listener"] = 0
        BY <1>0, <3>1 DEF NotYetAccepted, FlightLen
      <4> QED BY <4>1 DEF Taken
    <3>4. \A d \in net : ~(d.tag = "data" /\ d.to = "dialer")
      <4> SUFFICES ASSUME NEW d \in net, d.tag = "data", d.to = "dialer" PROVE FALSE
        OBVIOUS
      <4>1. d.seq < 0
        BY <3>2, <3>3, OtherSide DEF Delivered
      <4>2. d.seq \in Nat
        BY <1>0 DEF PumpTypeOK, U!Datagram
      <4> QED BY <4>1, <4>2
    <3>5. \A d \in net' : ~(d.tag = "data" /\ d.to = "dialer")
      BY <1>2, <1>3, <3>4
    <3>6. recv_seq["dialer"] = 0
      <4>1. recv_seq["dialer"] <= 0
        BY <3>2, <3>3, OtherSide DEF Delivered
      <4> QED BY <1>10, <4>1
    <3>7. inbound["dialer"] = Bytes(0, 0)
      <4>1. PICK r \in 0..0 : inbound["dialer"] = Bytes(0, c[r])
        BY <3>2, <3>6, OtherSide DEF Delivered
      <4>2. r = 0 /\ c[0] = 0
        BY <3>2, <4>1 DEF Framed, Marks
      <4> QED BY <4>1, <4>2
    <3> QED BY <1>6, <1>9, <2>1, <3>5, <3>6, <3>7, OtherSide DEF Delivered
  <2> QED BY <2>1, <2>2, <2>3 DEF Flow
<1>15. AcksTell'
  <2> SUFFICES ASSUME accepts' <= 1
               PROVE  \A t \in U!Side :
                         /\ send_seq'[t] <= recv_seq'[U!Other(t)]
                         /\ \A d \in net' : d.tag = "ack" /\ d.to = t => d.seq < recv_seq'[U!Other(t)]
    BY DEF AcksTell
  <2>0. accepts = 0 /\ accepts <= 1
    BY <1>7
  <2>1. /\ recv_seq["listener"] = 0 /\ send_seq["dialer"] <= recv_seq["listener"]
        /\ \A d \in net : d.tag = "ack" /\ d.to = "dialer" => d.seq < recv_seq["listener"]
        /\ \A d \in net : d.tag = "ack" /\ d.to = "listener" => d.seq < recv_seq["dialer"]
    BY <1>0, <2>0, OtherSide DEF AcksTell, NotYetAccepted
  <2>2. send_seq["dialer"] = 0
    BY <1>10, <2>1
  <2>3. \A d \in net : ~(d.tag = "ack" /\ d.to = "dialer")
    <3> SUFFICES ASSUME NEW d \in net, d.tag = "ack", d.to = "dialer" PROVE FALSE
      OBVIOUS
    <3>1. d.seq < 0
      BY <2>1
    <3>2. d.seq \in Nat
      BY <1>0 DEF PumpTypeOK, U!Datagram
    <3> QED BY <3>1, <3>2
  <2>4. m.tag = "data" => seq = 0
    <3> HAVE m.tag = "data"
    <3>1. PICK b \in [Nat -> Nat] : Delivered("dialer", b)
      BY <1>0, OtherSide DEF Flow, Joint
    <3>2. seq < Taken("dialer")
      BY <1>2, <1>4, <3>1, OtherSide DEF Delivered
    <3> QED BY <1>1, <1>10, <2>2, <3>2
  <2>5. \A d \in net' : d.tag = "ack" /\ d.to = "dialer" => d.seq < recv_seq'["listener"]
    <3> SUFFICES ASSUME NEW d \in net', d.tag = "ack", d.to = "dialer"
                 PROVE  d.seq < recv_seq'["listener"]
      OBVIOUS
    <3>1. d = a /\ m.tag = "data"
      BY <1>2, <2>3
    <3> QED BY <1>3, <1>4, <1>5, <2>4, <3>1
  <2>6. \A d \in net' : d.tag = "ack" /\ d.to = "listener" => d.seq < recv_seq'["dialer"]
    BY <1>2, <1>3, <1>6, <2>1
  <2>7. send_seq'["dialer"] <= recv_seq'["listener"] /\ send_seq'["listener"] <= recv_seq'["dialer"]
    BY <1>5, <1>6, <1>10, <2>2
  <2> QED BY <2>5, <2>6, <2>7 DEF U!Side, U!Other
<1>16. NotYetAccepted'
  BY <1>7 DEF NotYetAccepted
<1>17. ASSUME NEW t \in U!Side PROVE Flow(t)'
  BY <1>13, <1>14 DEF U!Side
<1> QED BY <1>11, <1>12, <1>15, <1>16, <1>17 DEF StreamCore

\* A step elsewhere, or of the accept loop alone.
LEMMA StreamCoreSame ==
  ASSUME StreamCore, UNCHANGED U!vars \/ U!ListenerEnds
  PROVE  StreamCore'
<1>0. PumpTypeOK /\ (\A t \in U!Side : Buffered(t)) /\ (\A t \in U!Side : Flow(t))
      /\ AcksTell /\ NotYetAccepted
  BY DEF StreamCore
<1>1. UNCHANGED <<write_buf, queue, pending, sent, send_seq, recv_seq, inbound, open, running,
                  accepts, net>>
  BY DEF U!vars, U!ListenerEnds
<1>2. PumpTypeOK'
  BY <1>0, <1>1 DEF PumpTypeOK, FlightLen
<1>3. ASSUME NEW t \in U!Side PROVE Buffered(t)'
  BY <1>0, <1>1, BufferedSame
<1>4. ASSUME NEW t \in U!Side PROVE Flow(t)'
  <2> DEFINE m == U!Syn
  <2>1. m.tag # "data"
    BY DEF U!Syn
  <2> HIDE DEF m
  <2>2. Joint(t)' => Joint(t)
    BY <1>1 DEF Joint
  <2> QED BY <1>0, <1>1, <2>1, <2>2, FlowSame
<1>5. AcksTell'
  BY <1>0, <1>1 DEF AcksTell
<1>6. NotYetAccepted'
  BY <1>0, <1>1 DEF NotYetAccepted, PumpTypeOK
<1> QED BY <1>2, <1>3, <1>4, <1>5, <1>6 DEF StreamCore

\* Every step of the pumps, the applications and the network.
LEMMA StreamCoreNext ==
  ASSUME U!StreamAssumption, StreamCore, [U!Next]_U!vars
  PROVE  StreamCore'
<1>1. ASSUME NEW s \in U!Side, U!PollFlush(s) PROVE StreamCore'
  BY <1>1, PollFlushKeeps
<1>2. ASSUME NEW s \in U!Side, U!TakeChunk(s) PROVE StreamCore'
  BY <1>2, TakeChunkKeeps
<1>3. ASSUME NEW s \in U!Side, U!Retransmit(s) PROVE StreamCore'
  BY <1>3, RetransmitKeeps
<1>4. ASSUME NEW s \in U!Side, U!Drop(s) PROVE StreamCore'
  BY <1>4, DropKeeps
<1>5. ASSUME NEW s \in U!Side, U!PumpEnds(s) \/ U!PumpClosed(s) PROVE StreamCore'
  BY <1>5, PumpEndsKeeps
<1>6. ASSUME NEW s \in U!Side, NEW n \in 1..MaxBytes, U!PollWrite(s, n) PROVE StreamCore'
  BY <1>6, PollWriteKeeps
<1>7. ASSUME NEW m \in net, U!Handle(m) PROVE StreamCore'
  BY <1>7, AcceptKeeps, HandleDataKeeps, HandleAckKeeps DEF U!Handle
<1>8. CASE UNCHANGED U!vars \/ U!ListenerEnds
  BY <1>8, StreamCoreSame
<1> QED BY <1>1, <1>2, <1>3, <1>4, <1>5, <1>6, <1>7, <1>8 DEF U!Next

\* The accept loop runs or has ended.
LEMMA AcceptLoopKeeps ==
  ASSUME listening \in BOOLEAN, [U!Next]_U!vars
  PROVE  listening' \in BOOLEAN
<1>1. CASE U!ListenerEnds
  BY Zenon, <1>1 DEF U!ListenerEnds
<1>2. ASSUME NEW s \in U!Side, \/ U!PollFlush(s) \/ U!TakeChunk(s) \/ U!Retransmit(s) \/ U!Drop(s)
                              \/ U!PumpEnds(s) \/ U!PumpClosed(s)
                              \/ \E n \in 1..MaxBytes : U!PollWrite(s, n)
      PROVE  listening' = listening
  BY Zenon, <1>2 DEF U!PollFlush, U!TakeChunk, U!Retransmit, U!Drop, U!PumpEnds, U!PumpClosed,
                     U!PollWrite
<1>3. ASSUME NEW m \in net, U!Handle(m)
      PROVE  listening' = listening
  BY Zenon, <1>3 DEF U!Handle, U!Accept, U!HandleData, U!HandleAck
<1>4. CASE UNCHANGED U!vars
  BY Zenon, <1>4 DEF U!vars
<1> QED BY <1>1, <1>2, <1>3, <1>4 DEF U!Next

\* StreamCore, with the accept loop.
StreamAll == StreamCore /\ listening \in BOOLEAN

LEMMA StreamAllInit == ASSUME U!StreamAssumption PROVE U!Init => StreamAll
<1>1. U!Init => listening \in BOOLEAN
  BY Zenon DEF U!Init
<1> QED BY <1>1, StreamCoreInit DEF StreamAll

LEMMA StreamAllNext ==
  ASSUME U!StreamAssumption PROVE StreamAll /\ [U!Next]_U!vars => StreamAll'
  BY StreamCoreNext, AcceptLoopKeeps DEF StreamAll

\* UdpStream, for every frame size, any number of bytes and of re-accepted
\* streams: whatever the network loses, repeats or reorders, a frame counted as
\* acknowledged was handed on by the other pump, and each side reads a prefix of
\* what the other wrote.
THEOREM StreamsDeliverInOrder ==
  ASSUME U!StreamAssumption
  PROVE  U!Spec => []U!StreamInv
<1>1. U!Init => StreamAll
  BY StreamAllInit
<1>2. StreamAll /\ [U!Next]_U!vars => StreamAll'
  BY StreamAllNext
<1>3. StreamAll => U!StreamInv
  BY StreamCoreSuffices DEF StreamAll
<1> QED BY <1>1, <1>2, <1>3, PTL DEF U!Spec

\* A part of a sequence is a sequence.
LEMMA SubSeqFacts ==
  ASSUME NEW S, NEW s \in Seq(S), NEW n \in 0..Len(s)
  PROVE  SubSeq(s, 1, n) \in Seq(S)
  OBVIOUS

\* What is appended to is a prefix of the result.
LEMMA ConcatIsLonger ==
  ASSUME NEW S, NEW s \in Seq(S), NEW t \in Seq(S)
  PROVE  /\ U!Pipe!IsPrefix(s, s \o t)
         /\ t # << >> => U!Pipe!IsStrictPrefix(s, s \o t)
         /\ t = << >> => s \o t = s
<1>1. s \o t \in Seq(S) /\ Len(s \o t) = Len(s) + Len(t)
  OBVIOUS
<1>2. SubSeq(s, 1, Len(s)) = s
  OBVIOUS
<1>3. SubSeq(s \o t, 1, Len(s)) = s
  <2> DEFINE u == s \o t
  <2>1. u \in Seq(S) /\ Len(s) \in 0..Len(u) /\ \A i \in 1..Len(s) : u[i] = s[i]
    <3>1. \A i \in 1..Len(s) : u[i] = s[i]
      OBVIOUS
    <3> QED BY <1>1, <3>1
  <2> HIDE DEF u
  <2>2. SubSeq(u, 1, Len(s)) \in Seq(S) /\ Len(SubSeq(u, 1, Len(s))) = Len(s)
    BY <2>1
  <2>3. \A i \in 1..Len(s) : SubSeq(u, 1, Len(s))[i] = s[i]
    BY <2>1
  <2>4. SubSeq(u, 1, Len(s)) = s
    <3> DEFINE v == SubSeq(u, 1, Len(s))
    <3>1. v \in Seq(S) /\ Len(v) = Len(s) /\ \A i \in 1..Len(v) : v[i] = s[i]
      BY <2>2, <2>3
    <3> HIDE DEF v
    <3>2. v = s
      BY <3>1, SameSequence
    <3> QED BY <3>2 DEF v
  <2> QED BY <2>4 DEF u
<1>4. U!Pipe!IsPrefix(s, s \o t)
  BY <1>1, <1>2, <1>3 DEF U!Pipe!IsPrefix
<1>5. t # << >> => s # s \o t
  <2> HAVE t # << >>
  <2>1. Len(t) # 0
    OBVIOUS
  <2> QED BY <1>1, <2>1
<1>6. t = << >> => s \o t = s
  OBVIOUS
<1> QED BY <1>4, <1>5, <1>6 DEF U!Pipe!IsStrictPrefix

\* A byte handed over stays handed over.
LEMMA HandOverIsWrite ==
  ASSUME PumpTypeOK, NEW s \in U!Side, NEW buf \in Seq(Nat), NEW n \in 0..Len(buf),
         U!HandOver(s, buf, n), UNCHANGED <<inbound, accepts>>
  PROVE  [U!Pipe!Next]_<<sent["dialer"], inbound["listener"], accepts>>
<1> DEFINE x == sent[s]  y == SubSeq(buf, 1, n)
<1>1. x \in Seq(Nat) /\ y \in Seq(Nat)
  BY PumpFacts, SubSeqFacts
<1>2. sent' = [sent EXCEPT ![s] = x \o y]
  BY DEF U!HandOver
<1> HIDE DEF x, y
<1>3. CASE s = "dialer"
  <2>1. sent'["dialer"] = x \o y /\ sent["dialer"] = x
    BY <1>2, <1>3 DEF PumpTypeOK, x
  <2>2. U!Pipe!IsPrefix(x, x \o y)
    BY <1>1, ConcatIsLonger
  <2> QED BY <2>1, <2>2 DEF U!Pipe!Next, U!Pipe!Write
<1>4. CASE s # "dialer"
  <2>1. sent'["dialer"] = sent["dialer"]
    BY <1>2, <1>4, OtherSide DEF PumpTypeOK
  <2> QED BY <2>1
<1> QED BY <1>3, <1>4

\* A step of the pumps is a write, a read or a reopening of the pipe, or the
\* pipe does not see it.
LEMMA StepIsPipeStep ==
  ASSUME U!StreamAssumption, PumpTypeOK, U!ReadsAPrefix', [U!Next]_U!vars
  PROVE  [U!Pipe!Next]_<<sent["dialer"], inbound["listener"], accepts>>
<1>p. MaxPayload \in Nat \ {0} /\ MaxBytes \in Nat
  BY DEF U!StreamAssumption
<1>1. ASSUME NEW s \in U!Side, NEW n \in 1..MaxBytes, U!PollWrite(s, n)
      PROVE  [U!Pipe!Next]_<<sent["dialer"], inbound["listener"], accepts>>
  <2> DEFINE g == SentLen(s) + KeptLen(s)
             w == write_buf[s]
             tail == [i \in 1..n |-> g + i]
             buf == w \o tail
             k == U!FullFrames(buf)
  <2>1. U!HandOver(s, buf, k) /\ UNCHANGED <<inbound, accepts>>
    BY <1>1 DEF U!PollWrite, SentLen, KeptLen
  <2>2. w \in Seq(Nat) /\ g \in Nat
    BY PumpFacts
  <2> HIDE DEF g, w
  <2>3. tail \in [1..n -> Nat] /\ n \in Nat
    BY <1>p, <2>2
  <2>4. tail \in Seq(Nat)
    BY <2>3
  <2> HIDE DEF tail
  <2>5. buf \in Seq(Nat) /\ Len(buf) \in Nat
    BY <2>2, <2>4
  <2> HIDE DEF buf
  <2>6. k \in 0..Len(buf)
    BY <1>p, <2>5, WholeFrames DEF U!FullFrames
  <2> HIDE DEF k
  <2> QED BY <2>1, <2>5, <2>6, HandOverIsWrite
<1>2. ASSUME NEW s \in U!Side, U!PollFlush(s)
      PROVE  [U!Pipe!Next]_<<sent["dialer"], inbound["listener"], accepts>>
  <2> DEFINE w == write_buf[s]
  <2>1. U!HandOver(s, w, Len(w)) /\ UNCHANGED <<inbound, accepts>>
    BY <1>2 DEF U!PollFlush
  <2>2. w \in Seq(Nat)
    BY PumpFacts
  <2> HIDE DEF w
  <2>3. Len(w) \in 0..Len(w)
    BY <2>2
  <2> QED BY <2>1, <2>2, <2>3, HandOverIsWrite
<1>3. ASSUME NEW s \in U!Side, U!TakeChunk(s) \/ U!Retransmit(s) \/ U!Drop(s) \/ U!PumpEnds(s)
                              \/ U!PumpClosed(s)
      PROVE  UNCHANGED <<sent["dialer"], inbound["listener"], accepts>>
  BY <1>3 DEF U!TakeChunk, U!Retransmit, U!Drop, U!PumpEnds, U!PumpClosed
<1>4. ASSUME NEW m \in net, U!Accept(m)
      PROVE  [U!Pipe!Next]_<<sent["dialer"], inbound["listener"], accepts>>
  <2>1. accepts' = accepts + 1 /\ sent'["dialer"] = sent["dialer"]
    BY <1>4, OtherSide DEF U!Accept, PumpTypeOK
  <2>2. U!Pipe!IsPrefix(inbound'["listener"], sent["dialer"])
    BY <2>1 DEF U!ReadsAPrefix, U!IsPrefix, U!Pipe!IsPrefix
  <2> QED BY <2>1, <2>2 DEF U!Pipe!Next, U!Pipe!Reopen
<1>5. ASSUME NEW m \in net, U!HandleAck(m.to, m)
      PROVE  UNCHANGED <<sent["dialer"], inbound["listener"], accepts>>
  BY <1>5 DEF U!HandleAck
<1>6. ASSUME NEW m \in net, U!HandleData(m.to, m)
      PROVE  [U!Pipe!Next]_<<sent["dialer"], inbound["listener"], accepts>>
  <2> DEFINE i == inbound["listener"]  c == m.chunk  S == 1..MaxBytes
  <2>1. i \in Seq(S) /\ c \in Seq(S)
    BY OtherSide, PumpFacts DEF PumpTypeOK, U!Datagram
  <2>2. UNCHANGED <<sent, accepts>> /\ (inbound'["listener"] = i \/ inbound'["listener"] = i \o c)
    BY <1>6, OtherSide DEF U!HandleData, PumpTypeOK
  <2>i. inbound["listener"] = i
    OBVIOUS
  <2> HIDE DEF i, c, S
  <2>3. CASE inbound'["listener"] = i \o c /\ c # << >>
    <3>1. U!Pipe!IsStrictPrefix(i, i \o c)
      BY <2>1, <2>3, ConcatIsLonger
    <3>2. U!Pipe!IsPrefix(inbound'["listener"], sent["dialer"])
      BY <2>2 DEF U!ReadsAPrefix, U!IsPrefix, U!Pipe!IsPrefix
    <3> QED BY <2>2, <2>3, <2>i, <3>1, <3>2 DEF U!Pipe!Next, U!Pipe!Read
  <2>4. CASE inbound'["listener"] = i \o c /\ c = << >>
    <3>1. i \o c = i
      BY <2>1, <2>4, ConcatIsLonger
    <3> QED BY <2>2, <2>4, <2>i, <3>1
  <2> QED BY <2>2, <2>3, <2>4, <2>i
<1>7. CASE UNCHANGED U!vars \/ U!ListenerEnds
  BY <1>7 DEF U!vars, U!ListenerEnds
<1> QED BY <1>1, <1>2, <1>3, <1>4, <1>5, <1>6, <1>7 DEF U!Next, U!Handle

\* The pumps, the accept loop and the network implement the byte pipe.
THEOREM PumpsImplementThePipe ==
  ASSUME U!StreamAssumption
  PROVE  U!Spec => U!ImplementsPipe
<1>1. U!Init => U!Pipe!Init
  BY OtherSide DEF U!Init, U!Pipe!Init
<1>2. PumpTypeOK /\ U!ReadsAPrefix' /\ [U!Next]_U!vars
        => [U!Pipe!Next]_<<sent["dialer"], inbound["listener"], accepts>>
  BY StepIsPipeStep
<1>3. U!Init => StreamAll
  BY StreamAllInit
<1>4. StreamAll /\ [U!Next]_U!vars => StreamAll'
  BY StreamAllNext
<1>5. StreamAll => PumpTypeOK /\ U!ReadsAPrefix
  BY StreamCoreSuffices DEF StreamAll, StreamCore, U!StreamInv
<1> QED BY <1>1, <1>2, <1>3, <1>4, <1>5, PTL DEF U!Spec, U!ImplementsPipe, U!Pipe!Spec

-----------------------------------------------------------------------------
(* AccountLockout *)

\* What a history sums up to, from age 0 to age n.
UpTo(h, n) == SumOn(h, 0..n)

\* The instance's sum is the one the sum lemmas are about.
LEMMA RecentIsUpTo ==
  ASSUME NEW h, NEW n
  PROVE  L!Recent(h, n) = UpTo(h, n)
  BY DEF L!Recent, UpTo, SumOn, L!MapThenSumSet, MapThenSumSet, L!MapThenFoldSet, MapThenFoldSet

\* The window of age 0.
LEMMA UpToZero ==
  ASSUME NEW h, h[0] \in Nat
  PROVE  UpTo(h, 0) = h[0]
<1>1. SumOn(h, {} \cup {0}) = SumOn(h, {}) + h[0]
  <2>1. IsFiniteSet({}) /\ \A x \in {} : h[x] \in Int
    BY FS_EmptySet
  <2>2. 0 \notin {} /\ h[0] \in Int
    OBVIOUS
  <2> QED BY ONLY <2>1, <2>2, SumOnAdd
<1>2. 0..0 = {} \cup {0}
  OBVIOUS
<1>3. SumOn(h, {}) = 0
  BY SumOnEmpty
<1> QED BY <1>1, <1>2, <1>3 DEF UpTo

\* A window one second longer.
LEMMA UpToStep ==
  ASSUME NEW N \in Nat, NEW h \in [0..N -> Nat], NEW n \in 0..N, n # 0
  PROVE  UpTo(h, n) = UpTo(h, n - 1) + h[n]
<1> DEFINE S == 0..(n - 1)
<1>1. IsFiniteSet(S) /\ \A x \in S : h[x] \in Int
  <2>1. 0 \in Int /\ n - 1 \in Int
    OBVIOUS
  <2>2. IsFiniteSet(S)
    BY <2>1, FS_Interval
  <2> QED BY <2>2
<1>2. n \notin S /\ h[n] \in Int /\ 0..n = S \cup {n}
  OBVIOUS
<1> HIDE DEF S
<1>3. SumOn(h, S \cup {n}) = SumOn(h, S) + h[n]
  BY ONLY <1>1, <1>2, SumOnAdd
<1> QED BY <1>2, <1>3 DEF UpTo, S

\* Windows count events.
LEMMA UpToType ==
  ASSUME NEW N \in Nat, NEW h \in [0..N -> Nat]
  PROVE  \A n \in 0..N : UpTo(h, n) \in Nat
<1> DEFINE T == {n \in Nat : n <= N => UpTo(h, n) \in Nat}
<1>1. 0 \in T
  BY UpToZero
<1>2. ASSUME NEW n \in Nat, n \in T PROVE n + 1 \in T
  <2> SUFFICES ASSUME n + 1 <= N PROVE UpTo(h, n + 1) \in Nat
    OBVIOUS
  <2> DEFINE m == n + 1
  <2>1. m \in 0..N /\ m # 0 /\ m - 1 = n /\ n <= N
    OBVIOUS
  <2> HIDE DEF m
  <2>2. UpTo(h, m) = UpTo(h, m - 1) + h[m] /\ h[m] \in Nat
    BY <2>1, UpToStep
  <2>3. UpTo(h, n) \in Nat
    BY <1>2, <2>1
  <2> QED BY <2>1, <2>2, <2>3 DEF m
<1> HIDE DEF T
<1>3. Nat \subseteq T
  BY <1>1, <1>2, InductionOnNat
<1> QED BY <1>3 DEF T

\* One more event of age 0 counts in every window.
OneMore(h, k) == k = [h EXCEPT ![0] = h[0] + 1]

\* One more event of age 0 counts in every window.
LEMMA UpToBump ==
  ASSUME NEW N \in Nat, NEW h \in [0..N -> Nat], NEW k, OneMore(h, k)
  PROVE  k \in [0..N -> Nat] /\ \A n \in 0..N : UpTo(k, n) = UpTo(h, n) + 1
<1> DEFINE T == {n \in Nat : n <= N => UpTo(k, n) = UpTo(h, n) + 1}
<1>0. k \in [0..N -> Nat] /\ k[0] = h[0] + 1 /\ \A n \in 0..N : n # 0 => k[n] = h[n]
  BY DEF OneMore
<1>h. \A n \in 0..N : UpTo(h, n) \in Nat /\ h[n] \in Nat
  BY UpToType
<1>1. 0 \in T
  <2>1. h[0] \in Nat /\ k[0] \in Nat
    BY <1>0
  <2>2. UpTo(h, 0) = h[0] /\ UpTo(k, 0) = k[0]
    BY <2>1, UpToZero
  <2> QED BY <1>0, <2>2
<1>2. ASSUME NEW n \in Nat, n \in T PROVE n + 1 \in T
  <2> SUFFICES ASSUME n + 1 <= N PROVE UpTo(k, n + 1) = UpTo(h, n + 1) + 1
    OBVIOUS
  <2> DEFINE m == n + 1
  <2>1. m \in 0..N /\ m # 0 /\ m - 1 = n /\ n <= N /\ n \in 0..N
    OBVIOUS
  <2> HIDE DEF m
  <2>2. UpTo(h, m) = UpTo(h, m - 1) + h[m] /\ UpTo(k, m) = UpTo(k, m - 1) + k[m]
    BY <1>0, <2>1, UpToStep
  <2>3. UpTo(k, n) = UpTo(h, n) + 1 /\ k[m] = h[m]
    BY <1>0, <1>2, <2>1
  <2>4. UpTo(h, n) \in Nat /\ h[m] \in Nat
    BY <1>h, <2>1
  <2> QED BY <2>1, <2>2, <2>3, <2>4 DEF m
<1>3. Nat \subseteq T
  <2> HIDE DEF T
  <2> QED BY <1>1, <1>2, InductionOnNat
<1>4. ASSUME NEW n \in 0..N PROVE UpTo(k, n) = UpTo(h, n) + 1
  <2>1. n \in Nat /\ n <= N
    OBVIOUS
  <2>2. n \in T
    BY <1>3, <2>1
  <2> QED BY <2>1, <2>2
<1> QED BY <1>0, <1>4

\* A second later every window holds what the window one shorter held.
LEMMA UpToOlder ==
  ASSUME NEW N \in Nat, NEW h \in [0..N -> Nat]
  PROVE  /\ L!Older(h) \in [0..N -> Nat]
         /\ UpTo(L!Older(h), 0) = 0
         /\ \A n \in 0..N : n # 0 => UpTo(L!Older(h), n) = UpTo(h, n - 1)
<1> DEFINE k == L!Older(h)
           T == {n \in Nat : n + 1 <= N => UpTo(k, n + 1) = UpTo(h, n)}
<1>0. k \in [0..N -> Nat] /\ k[0] = 0 /\ \A n \in 0..N : n # 0 => k[n] = h[n - 1]
  BY DEF L!Older
<1>h. \A n \in 0..N : UpTo(h, n) \in Nat /\ h[n] \in Nat
  BY UpToType
<1> HIDE DEF k
<1>z. UpTo(k, 0) = 0
  BY <1>0, UpToZero
<1>1. 0 \in T
  <2> SUFFICES ASSUME 1 <= N PROVE UpTo(k, 1) = UpTo(h, 0)
    OBVIOUS
  <2>1. 1 \in 0..N /\ 0 \in 0..N /\ 1 # 0 /\ 1 - 1 = 0
    OBVIOUS
  <2>2. UpTo(k, 1) = UpTo(k, 1 - 1) + k[1]
    BY <1>0, <2>1, UpToStep
  <2>3. k[1] = h[0] /\ h[0] \in Nat
    BY <1>0, <2>1
  <2>4. UpTo(h, 0) = h[0]
    BY <2>3, UpToZero
  <2> QED BY <1>z, <2>1, <2>2, <2>3, <2>4
<1>2. ASSUME NEW n \in Nat, n \in T PROVE n + 1 \in T
  <2> SUFFICES ASSUME n + 2 <= N PROVE UpTo(k, (n + 1) + 1) = UpTo(h, n + 1)
    OBVIOUS
  <2> DEFINE m == n + 1  q == n + 2
  <2>1. /\ m \in 0..N /\ q \in 0..N /\ m # 0 /\ q # 0 /\ m - 1 = n /\ q - 1 = m /\ m + 1 = q
        /\ n + 1 = m /\ m <= N
    OBVIOUS
  <2> HIDE DEF m, q
  <2>2. UpTo(h, m) = UpTo(h, m - 1) + h[m] /\ UpTo(k, q) = UpTo(k, q - 1) + k[q]
    BY <1>0, <2>1, UpToStep
  <2>3. UpTo(k, m) = UpTo(h, n) /\ k[q] = h[m]
    BY <1>0, <1>2, <2>1
  <2> QED BY <2>1, <2>2, <2>3
<1>3. Nat \subseteq T
  <2> HIDE DEF T
  <2> QED BY <1>1, <1>2, InductionOnNat
<1>4. ASSUME NEW n \in 0..N, n # 0 PROVE UpTo(k, n) = UpTo(h, n - 1)
  <2> DEFINE m == n - 1
  <2>1. m \in Nat /\ m + 1 = n /\ n <= N
    BY <1>4
  <2> HIDE DEF m
  <2>2. m + 1 <= N => UpTo(k, m + 1) = UpTo(h, m)
    BY <1>3, <2>1
  <2> QED BY <2>1, <2>2 DEF m
<1> QED BY <1>0, <1>z, <1>4 DEF k

\* A window without events sums up to nothing.
LEMMA UpToNothing ==
  ASSUME NEW N \in Nat, NEW h \in [0..N -> Nat], NEW a \in 0..N, \A j \in 0..a : h[j] = 0
  PROVE  UpTo(h, a) = 0
<1> DEFINE T == {n \in Nat : n <= a => UpTo(h, n) = 0}
<1>1. 0 \in T
  BY UpToZero
<1>2. ASSUME NEW n \in Nat, n \in T PROVE n + 1 \in T
  <2> SUFFICES ASSUME n + 1 <= a PROVE UpTo(h, n + 1) = 0
    OBVIOUS
  <2> DEFINE m == n + 1
  <2>1. m \in 0..N /\ m # 0 /\ m - 1 = n /\ n <= a /\ m \in 0..a
    OBVIOUS
  <2> HIDE DEF m
  <2>2. UpTo(h, m) = UpTo(h, m - 1) + h[m] /\ h[m] = 0
    BY <2>1, UpToStep
  <2>3. UpTo(h, n) = 0
    BY <1>2, <2>1
  <2> QED BY <2>1, <2>2, <2>3 DEF m
<1>3. Nat \subseteq T
  <2> HIDE DEF T
  <2> QED BY <1>1, <1>2, InductionOnNat
<1> QED BY <1>3

\* A longer window holds no less.
LEMMA UpToGrows ==
  ASSUME NEW N \in Nat, NEW h \in [0..N -> Nat], NEW n \in 0..N, n # 0
  PROVE  UpTo(h, n - 1) <= UpTo(h, n)
<1>1. UpTo(h, n) = UpTo(h, n - 1) + h[n] /\ h[n] \in Nat
  BY UpToStep
<1>2. n - 1 \in 0..N
  OBVIOUS
<1>3. UpTo(h, n - 1) \in Nat
  BY <1>2, UpToType
<1> QED BY <1>1, <1>3

-----------------------------------------------------------------------------
\* The smaller of two numbers.
LEMMA SmallerOfTwo ==
  ASSUME NEW x \in Nat, NEW y \in Nat
  PROVE  L!Min({x, y}) \in {x, y} /\ L!Min({x, y}) <= x /\ L!Min({x, y}) <= y /\ L!Min({x, y}) \in Nat
<1>1. \E z \in {x, y} : \A w \in {x, y} : z <= w
  <2>1. CASE x <= y
    BY <2>1
  <2>2. CASE ~(x <= y)
    BY <2>2
  <2> QED BY <2>1, <2>2
<1> QED BY <1>1 DEF L!Min

\* The tokens an attempt would find.
Avail(b) == L!Refilled(b).tokens

\* The refill step of RateLimiter::allow yields a bucket within its capacity.
LEMMA RefilledFacts ==
  ASSUME L!PolicyAssumption, NEW b \in L!Bucket \cup {None}
  PROVE  /\ L!Refilled(b) \in L!Bucket /\ L!Refilled(b).idle = 0
         /\ Avail(b) \in 0..Capacity /\ L!Refilled(b).tokens = Avail(b)
<1>0. Capacity \in Nat /\ Refill \in Nat /\ None \notin L!Bucket
  BY DEF L!PolicyAssumption
<1>1. CASE b = None
  BY <1>0, <1>1 DEF L!Refilled, L!Bucket, Avail
<1>2. CASE b # None
  <2> DEFINE x == b.tokens + Refill * b.idle
  <2>1. b \in L!Bucket
    BY <1>2
  <2>2. b.tokens \in Nat /\ b.idle \in Nat
    BY <1>0, <2>1 DEF L!Bucket
  <2>3. Refill * b.idle \in Nat
    BY <1>0, <2>2
  <2>4. x \in Nat
    BY <2>2, <2>3
  <2>5. L!Refilled(b) = [tokens |-> L!Min({Capacity, x}), idle |-> 0]
    BY <1>2 DEF L!Refilled
  <2> HIDE DEF x
  <2>6. L!Min({Capacity, x}) \in Nat /\ L!Min({Capacity, x}) <= Capacity
    BY <1>0, <2>4, SmallerOfTwo
  <2> QED BY <1>0, <2>5, <2>6 DEF L!Bucket, Avail
<1> QED BY <1>1, <1>2

\* A bucket just refilled has what it says.
LEMMA AvailOfFresh ==
  ASSUME L!PolicyAssumption, NEW b \in L!Bucket, b.idle = 0
  PROVE  Avail(b) = b.tokens
<1>0. Capacity \in Nat /\ Refill \in Nat /\ b # None
  BY DEF L!PolicyAssumption
<1>1. b.tokens \in Nat /\ b.tokens <= Capacity /\ b.tokens + Refill * b.idle = b.tokens
  BY <1>0 DEF L!Bucket
<1>2. L!Min({Capacity, b.tokens}) = b.tokens
  <2> DEFINE x == b.tokens
  <2>1. x \in Nat /\ x <= Capacity
    BY <1>1
  <2> HIDE DEF x
  <2>2. L!Min({Capacity, x}) \in {Capacity, x} /\ L!Min({Capacity, x}) <= x
    BY <1>0, <2>1, SmallerOfTwo
  <2>3. L!Min({Capacity, x}) = x
    BY <1>0, <2>1, <2>2
  <2> QED BY <2>3 DEF x
<1> QED BY <1>0, <1>1, <1>2 DEF Avail, L!Refilled

\* A second adds at most one refill.
LEMMA AvailOneSecondLater ==
  ASSUME L!PolicyAssumption, NEW b \in L!Bucket, NEW c, c = [b EXCEPT !.idle = L!Min({Capacity, b.idle + 1})]
  PROVE  c \in L!Bucket /\ Avail(c) <= Avail(b) + Refill
<1>0. Capacity \in Nat /\ Refill \in Nat /\ None \notin L!Bucket
  BY DEF L!PolicyAssumption
<1> DEFINE t == b.tokens  d == b.idle  e == L!Min({Capacity, d + 1})
<1>1. t \in Nat /\ d \in Nat /\ t <= Capacity /\ b = [tokens |-> t, idle |-> d]
  BY <1>0 DEF L!Bucket
<1>2. c = [tokens |-> t, idle |-> e]
  BY <1>1
<1> HIDE DEF t, d
<1>3. e \in Nat /\ e <= Capacity /\ e <= d + 1
  <2> DEFINE f == d + 1
  <2>1. f \in Nat
    BY <1>1
  <2> HIDE DEF f
  <2>2. L!Min({Capacity, f}) \in Nat /\ L!Min({Capacity, f}) <= Capacity /\ L!Min({Capacity, f}) <= f
    BY <1>0, <2>1, SmallerOfTwo
  <2> QED BY <2>2 DEF f
<1> HIDE DEF e
<1>4. c \in L!Bucket
  BY <1>0, <1>1, <1>2, <1>3 DEF L!Bucket
<1> DEFINE x == t + Refill * d  y == t + Refill * e
<1>5. Refill * d \in Nat /\ Refill * e \in Nat /\ Refill * e <= Refill * d + Refill
  <2>1. Refill * d \in Nat /\ Refill * e \in Nat
    BY <1>0, <1>1, <1>3
  <2>2. Refill * e <= Refill * (d + 1)
    BY <1>0, <1>1, <1>3
  <2>3. Refill * (d + 1) = Refill * d + Refill
    BY <1>0, <1>1
  <2> QED BY <2>1, <2>2, <2>3
<1>6. x \in Nat /\ y \in Nat /\ y <= x + Refill
  BY <1>0, <1>1, <1>5
<1>7. Avail(b) = L!Min({Capacity, x}) /\ Avail(c) = L!Min({Capacity, y})
  <2>1. b # None /\ c # None
    BY <1>0, <1>4
  <2>2. b.tokens = t /\ b.idle = d /\ c.tokens = t /\ c.idle = e
    BY <1>2 DEF t, d
  <2> QED BY <2>1, <2>2 DEF Avail, L!Refilled
<1> HIDE DEF x, y
<1>8. /\ L!Min({Capacity, x}) \in {Capacity, x} /\ L!Min({Capacity, y}) \in Nat
      /\ L!Min({Capacity, y}) <= Capacity /\ L!Min({Capacity, y}) <= y
  BY <1>0, <1>6, SmallerOfTwo
<1>9. L!Min({Capacity, y}) <= L!Min({Capacity, x}) + Refill
  BY <1>0, <1>6, <1>8
<1> QED BY <1>4, <1>7, <1>9

-----------------------------------------------------------------------------
\* Whatever a bucket let through lately was paid for by its capacity and its
\* refill, less what is left in it.
Paid(i) ==
    \A s \in 0..Window : UpTo(passed[i], s) + Avail(buckets[i]) <= Capacity + Refill * s

\* An entry counts at least the guesses of the last cooldown; since a lock
\* nothing was evaluated.
CountedIn(e, g) ==
    LockoutSecs > 0 =>
        /\ e = None => UpTo(g, LockoutSecs - 1) = 0
        /\ e # None /\ e.lockAge = None
              => UpTo(g, LockoutSecs - 1) <= e.failures
        /\ e # None /\ e.lockAge # None
              => /\ UpTo(g, LockoutSecs - 1) <= MaxFailures
                 /\ \A j \in 0..LockoutSecs : j < e.lockAge => g[j] = 0

\* An entry that is not locked counts fewer failures than the threshold.
BelowThreshold(e) == e # None /\ e.lockAge = None => e.failures < MaxFailures

ThrottleCore ==
    /\ L!TypeOK
    /\ \A i \in Id : Paid(i) /\ CountedIn(by_id[i], guesses[i]) /\ BelowThreshold(by_id[i])

\* The policy's numbers, and that None is none of the values.
LEMMA NoneFacts ==
  ASSUME L!PolicyAssumption
  PROVE  /\ None \notin L!Attempts /\ None \notin L!Bucket /\ None \notin Nat
         /\ LockoutSecs \in Nat /\ Window \in Nat /\ MaxFailures \in Nat \ {0}
         /\ Capacity \in Nat \ {0} /\ Refill \in Nat \ {0}
  BY DEF L!PolicyAssumption

\* A history without events.
LEMMA ZeroHistory ==
  ASSUME NEW N \in Nat, NEW h, h = [a \in 0..N |-> 0]
  PROVE  h \in [0..N -> Nat] /\ \A n \in 0..N : UpTo(h, n) = 0
<1>1. h \in [0..N -> Nat]
  OBVIOUS
<1>2. ASSUME NEW n \in 0..N PROVE UpTo(h, n) = 0
  <2>1. \A j \in 0..n : h[j] = 0
    OBVIOUS
  <2> QED BY <1>1, <2>1, UpToNothing
<1> QED BY <1>1, <1>2

\* What a cleared identifier starts from.
LEMMA ClearedIsCounted ==
  ASSUME L!PolicyAssumption
  PROVE  L!NoGuess \in [0..LockoutSecs -> Nat] /\ CountedIn(None, L!NoGuess) /\ BelowThreshold(None)
<1>1. LockoutSecs \in Nat
  BY NoneFacts
<1>2. L!NoGuess \in [0..LockoutSecs -> Nat] /\ \A n \in 0..LockoutSecs : UpTo(L!NoGuess, n) = 0
  BY <1>1, ZeroHistory DEF L!NoGuess
<1>3. LockoutSecs > 0 => LockoutSecs - 1 \in 0..LockoutSecs
  BY <1>1
<1> QED BY <1>2, <1>3 DEF CountedIn, BelowThreshold

\* An identifier without a bucket.
LEMMA EmptyIsPaid ==
  ASSUME L!PolicyAssumption
  PROVE  LET h == [a \in 0..Window |-> 0]
         IN  /\ h \in [0..Window -> Nat]
             /\ \A s \in 0..Window : UpTo(h, s) + Avail(None) <= Capacity + Refill * s
<1> DEFINE h == [a \in 0..Window |-> 0]
<1>1. Window \in Nat /\ Capacity \in Nat /\ Refill \in Nat
  BY NoneFacts
<1>2. h \in [0..Window -> Nat] /\ \A n \in 0..Window : UpTo(h, n) = 0
  BY <1>1, ZeroHistory
<1>3. Avail(None) = Capacity
  BY DEF Avail, L!Refilled
<1> HIDE DEF h
<1>4. ASSUME NEW s \in 0..Window PROVE UpTo(h, s) + Avail(None) <= Capacity + Refill * s
  <2>1. Refill * s \in Nat
    BY <1>1
  <2> QED BY <1>1, <1>2, <1>3, <2>1
<1> QED BY <1>2, <1>4 DEF h

\* No identifier is known at the start.
LEMMA ThrottleCoreInit ==
  ASSUME L!PolicyAssumption, L!Init
  PROVE  ThrottleCore
<1>1. L!TypeOK
  BY ClearedIsCounted, EmptyIsPaid DEF L!Init, L!TypeOK
<1>2. ASSUME NEW i \in Id PROVE Paid(i) /\ CountedIn(by_id[i], guesses[i]) /\ BelowThreshold(by_id[i])
  BY ClearedIsCounted, EmptyIsPaid DEF L!Init, Paid
<1> QED BY <1>1, <1>2 DEF ThrottleCore

\* The inductive invariant implies the checked one.
LEMMA ThrottleCoreSuffices ==
  ASSUME L!PolicyAssumption, ThrottleCore
  PROVE  L!ThrottleInv
<1>0. L!TypeOK /\ \A i \in Id : Paid(i) /\ CountedIn(by_id[i], guesses[i]) /\ BelowThreshold(by_id[i])
  BY DEF ThrottleCore
<1>1. ASSUME NEW i \in Id, LockoutSecs > 0
      PROVE  L!Recent(guesses[i], LockoutSecs - 1) <= MaxFailures
  <2> DEFINE e == by_id[i]  n == UpTo(guesses[i], LockoutSecs - 1)
  <2>1. L!Recent(guesses[i], LockoutSecs - 1) = n
    BY RecentIsUpTo
  <2>2. LockoutSecs \in Nat /\ MaxFailures \in Nat
    BY NoneFacts
  <2>3. guesses[i] \in [0..LockoutSecs -> Nat]
    BY <1>0 DEF L!TypeOK
  <2>4. n \in Nat
    <3>1. LockoutSecs - 1 \in 0..LockoutSecs
      BY <1>1, <2>2
    <3> QED BY <2>2, <2>3, <3>1, UpToType
  <2>5. CountedIn(e, guesses[i]) /\ BelowThreshold(e)
    BY <1>0
  <2>6. e \in L!Attempts \cup {None}
    BY <1>0 DEF L!TypeOK
  <2>7. e # None => e.failures \in Nat
    BY <2>2, <2>6 DEF L!Attempts
  <2>8. n <= MaxFailures
    <3> HIDE DEF e
    <3>1. CASE e = None
      BY <1>1, <2>2, <2>5, <3>1 DEF CountedIn
    <3>2. CASE e # None /\ e.lockAge = None
      <4>1. e.failures < MaxFailures /\ n <= e.failures
        BY <1>1, <2>5, <3>2 DEF CountedIn, BelowThreshold
      <4> HIDE DEF n
      <4> QED BY <2>2, <2>4, <2>7, <3>2, <4>1
    <3>3. CASE e # None /\ e.lockAge # None
      BY <1>1, <2>5, <3>3 DEF CountedIn
    <3> QED BY <3>1, <3>2, <3>3
  <2> QED BY <2>1, <2>8
<1>2. ASSUME NEW i \in Id, NEW s \in 0..Window
      PROVE  L!Recent(passed[i], s) <= Capacity + Refill * s
  <2>1. L!Recent(passed[i], s) = UpTo(passed[i], s)
    BY RecentIsUpTo
  <2>2. UpTo(passed[i], s) + Avail(buckets[i]) <= Capacity + Refill * s
    BY <1>0 DEF Paid
  <2>3. Avail(buckets[i]) \in 0..Capacity
    BY <1>0, RefilledFacts DEF L!TypeOK
  <2>4. Window \in Nat /\ Capacity \in Nat /\ Refill \in Nat
    BY NoneFacts
  <2>5. UpTo(passed[i], s) \in Nat
    BY <1>0, <2>4, UpToType DEF L!TypeOK
  <2>6. Refill * s \in Nat
    BY <2>4
  <2> QED BY <2>1, <2>2, <2>3, <2>4, <2>5, <2>6
<1> QED BY <1>0, <1>1, <1>2 DEF L!ThrottleInv, L!GuessRateBounded, L!BurstBounded

\* entry_expired: what an expired lock forgets is older than the cooldown.
LEMMA ExpiredFacts ==
  ASSUME L!PolicyAssumption, NEW s \in L!Attempts \cup {None}, NEW g \in [0..LockoutSecs -> Nat],
         CountedIn(s, g), BelowThreshold(s)
  PROVE  LET e == L!EntryExpired(s)
         IN  /\ e \in L!Attempts /\ BelowThreshold(e) /\ CountedIn(e, g)
             /\ e.lockAge # None => e = s
<1> DEFINE e == L!EntryExpired(s)
<1>0. LockoutSecs \in Nat /\ MaxFailures \in Nat \ {0} /\ None \notin Nat /\ None \notin L!Attempts
  BY NoneFacts
<1>f. /\ L!Fresh \in L!Attempts /\ L!Fresh.lockAge = None /\ L!Fresh.failures = 0 /\ L!Fresh # None
  BY <1>0 DEF L!Fresh, L!Attempts
<1>1. CASE s = None
  <2>1. e = L!Fresh
    BY <1>1 DEF L!EntryExpired
  <2>2. CountedIn(L!Fresh, g) /\ BelowThreshold(L!Fresh)
    BY <1>0, <1>1, <1>f DEF CountedIn, BelowThreshold
  <2> QED BY <1>f, <2>1, <2>2
<1>2. CASE s # None /\ s.lockAge # None /\ s.lockAge >= LockoutSecs
  <2>1. e = L!Fresh
    BY <1>2 DEF L!EntryExpired
  <2>2. LockoutSecs > 0 => UpTo(g, LockoutSecs - 1) = 0
    <3> HAVE LockoutSecs > 0
    <3> DEFINE a == LockoutSecs - 1
    <3>1. s.lockAge \in Nat
      BY <1>0, <1>2 DEF L!Attempts
    <3>2. a \in 0..LockoutSecs /\ \A j \in 0..a : j \in 0..LockoutSecs /\ j < s.lockAge
      BY <1>0, <1>2, <3>1
    <3>3. \A j \in 0..a : g[j] = 0
      BY <1>2, <3>2 DEF CountedIn
    <3> HIDE DEF a
    <3>4. UpTo(g, a) = 0
      BY <1>0, <3>2, <3>3, UpToNothing
    <3> QED BY <3>4 DEF a
  <2>3. CountedIn(L!Fresh, g) /\ BelowThreshold(L!Fresh)
    BY <1>0, <1>f, <2>2 DEF CountedIn, BelowThreshold
  <2> QED BY <1>f, <2>1, <2>3
<1>3. CASE s # None /\ ~(s.lockAge # None /\ s.lockAge >= LockoutSecs)
  <2>1. e = s /\ s \in L!Attempts
    BY <1>3 DEF L!EntryExpired
  <2> QED BY <2>1
<1> QED BY <1>1, <1>2, <1>3

\* A second later.
LEMMA TickKeepsCount ==
  ASSUME L!PolicyAssumption, NEW s \in L!Attempts \cup {None}, NEW g \in [0..LockoutSecs -> Nat],
         CountedIn(s, g), BelowThreshold(s), NEW t,
         t = IF s # None /\ s.lockAge # None
             THEN [s EXCEPT !.lockAge = L!Min({LockoutSecs, s.lockAge + 1})] ELSE s
  PROVE  t \in L!Attempts \cup {None} /\ CountedIn(t, L!Older(g)) /\ BelowThreshold(t)
<1>0. LockoutSecs \in Nat /\ MaxFailures \in Nat \ {0} /\ None \notin Nat /\ None \notin L!Attempts
  BY NoneFacts
<1> DEFINE k == L!Older(g)  n == LockoutSecs - 1
<1>1. /\ k \in [0..LockoutSecs -> Nat] /\ UpTo(k, 0) = 0
      /\ \A m \in 0..LockoutSecs : m # 0 => UpTo(k, m) = UpTo(g, m - 1)
  BY <1>0, UpToOlder
<1>2. /\ k[0] = 0 /\ \A m \in 0..LockoutSecs : m # 0 => k[m] = g[m - 1]
  BY <1>0 DEF L!Older
<1>3. LockoutSecs > 0 => UpTo(k, n) <= UpTo(g, n) /\ UpTo(k, n) \in Nat /\ UpTo(g, n) \in Nat
  <2> HAVE LockoutSecs > 0
  <2>1. n \in 0..LockoutSecs
    BY <1>0
  <2> HIDE DEF n, k
  <2>2. UpTo(k, n) \in Nat /\ UpTo(g, n) \in Nat
    BY <1>0, <1>1, <2>1, UpToType
  <2>3. CASE n = 0
    BY <1>1, <2>2, <2>3
  <2>4. CASE n # 0
    <3>1. UpTo(g, n - 1) <= UpTo(g, n)
      BY <1>0, <2>1, <2>4, UpToGrows
    <3> QED BY <1>1, <2>1, <2>2, <2>4, <3>1
  <2> QED BY <2>3, <2>4
<1>s. CountedIn(s, g) /\ BelowThreshold(s)
  OBVIOUS
<1> HIDE DEF k
<1>4. CASE s = None
  <2>1. t = None
    BY <1>4
  <2>2. LockoutSecs > 0 => UpTo(k, n) = 0
    BY <1>3, <1>4 DEF CountedIn
  <2> QED BY <2>1, <2>2 DEF CountedIn, BelowThreshold, k
<1>5. CASE s # None /\ s.lockAge = None
  <2>1. t = s /\ s \in L!Attempts
    BY <1>5
  <2>2. s.failures \in Nat
    BY <1>0, <2>1 DEF L!Attempts
  <2>3. LockoutSecs > 0 => UpTo(k, n) <= s.failures
    <3> HAVE LockoutSecs > 0
    <3>1. UpTo(g, n) <= s.failures
      BY <1>5, <1>s DEF CountedIn
    <3> HIDE DEF n
    <3> QED BY <1>3, <2>2, <3>1
  <2> QED BY <1>5, <2>1, <2>3 DEF CountedIn, k
<1>6. CASE s # None /\ s.lockAge # None
  <2> DEFINE a == s.lockAge  c == L!Min({LockoutSecs, a + 1})
  <2>1. s \in L!Attempts /\ a \in Nat /\ a <= LockoutSecs /\ s.failures \in 0..MaxFailures
    BY <1>0, <1>6 DEF L!Attempts
  <2>2. c \in Nat /\ c <= LockoutSecs /\ c <= a + 1
    <3> HIDE DEF a
    <3> DEFINE f == a + 1
    <3>1. f \in Nat
      BY <2>1
    <3> HIDE DEF f
    <3>2. L!Min({LockoutSecs, f}) \in Nat /\ L!Min({LockoutSecs, f}) <= LockoutSecs /\ L!Min({LockoutSecs, f}) <= f
      BY <1>0, <3>1, SmallerOfTwo
    <3> QED BY <3>2 DEF f
  <2>3. t = [s EXCEPT !.lockAge = c]
    BY <1>6
  <2> HIDE DEF c
  <2>4. t \in L!Attempts /\ t.lockAge = c /\ t # None
    BY <1>0, <2>1, <2>2, <2>3 DEF L!Attempts
  <2>5. c # None
    BY <1>0, <2>2
  <2>6. CountedIn(t, k)
    <3> SUFFICES ASSUME LockoutSecs > 0
                 PROVE  UpTo(k, n) <= MaxFailures /\ \A j \in 0..LockoutSecs : j < c => k[j] = 0
      BY <2>4, <2>5 DEF CountedIn
    <3>1. UpTo(g, n) <= MaxFailures /\ \A j \in 0..LockoutSecs : j < a => g[j] = 0
      BY <1>6, <1>s DEF CountedIn
    <3> HIDE DEF n, a
    <3>2. UpTo(k, n) <= MaxFailures
      BY <1>0, <1>3, <3>1
    <3>3. ASSUME NEW j \in 0..LockoutSecs, j < c PROVE k[j] = 0
      <4>1. CASE j = 0
        BY <1>2, <4>1
      <4>2. CASE j # 0
        <5>1. j - 1 \in 0..LockoutSecs /\ j - 1 < a
          <6>1. /\ LockoutSecs \in Nat /\ a \in Nat /\ c \in Nat /\ c <= a + 1 /\ j < c /\ j # 0
                /\ j \in 0..LockoutSecs
            BY <1>0, <2>1, <2>2, <3>3, <4>2
          <6> QED BY ONLY <6>1
        <5>2. g[j - 1] = 0
          BY <3>1, <5>1
        <5> QED BY <1>2, <4>2, <5>2
      <4> QED BY <4>1, <4>2
    <3> QED BY <3>2, <3>3
  <2> QED BY <2>4, <2>5, <2>6 DEF BelowThreshold, k
<1> QED BY <1>4, <1>5, <1>6

\* The bucket's own step, with or without a token.
LEMMA ConsumeKeeps ==
  ASSUME L!PolicyAssumption, L!TypeOK, NEW i \in Id, L!Consume(i)
  PROVE  /\ buckets' \in [Id -> L!Bucket \cup {None}]
         /\ \A j \in Id : j # i => buckets'[j] = buckets[j]
         /\ L!Allows(i) => Avail(buckets'[i]) = Avail(buckets[i]) - 1
         /\ ~L!Allows(i) => Avail(buckets'[i]) = Avail(buckets[i])
<1> DEFINE b == L!Refilled(buckets[i])
           c == [b EXCEPT !.tokens = b.tokens - 1]
           d == IF L!Allows(i) THEN c ELSE b
<1>0. Capacity \in Nat
  BY NoneFacts
<1>1. buckets \in [Id -> L!Bucket \cup {None}] /\ buckets[i] \in L!Bucket \cup {None}
  BY DEF L!TypeOK
<1>2. b \in L!Bucket /\ b.idle = 0 /\ b.tokens = Avail(buckets[i]) /\ Avail(buckets[i]) \in 0..Capacity
  BY <1>1, RefilledFacts
<1>3. L!Allows(i) <=> b.tokens >= 1
  BY DEF L!Allows
<1>4. buckets' = [buckets EXCEPT ![i] = d]
  BY DEF L!Consume
<1> HIDE DEF b
<1>5. L!Allows(i) => c \in L!Bucket /\ c.idle = 0 /\ c.tokens = b.tokens - 1
  BY <1>0, <1>2, <1>3 DEF L!Bucket
<1>6. d \in L!Bucket
  BY <1>2, <1>5
<1>7. L!Allows(i) => Avail(c) = b.tokens - 1
  <2> HAVE L!Allows(i)
  <2> HIDE DEF c
  <2> QED BY <1>5, AvailOfFresh
<1>8. Avail(b) = b.tokens
  BY <1>2, AvailOfFresh
<1>9. buckets'[i] = d /\ \A j \in Id : j # i => buckets'[j] = buckets[j]
  BY <1>1, <1>4
<1>10. buckets' \in [Id -> L!Bucket \cup {None}]
  BY <1>1, <1>4, <1>6
<1> QED BY <1>2, <1>7, <1>8, <1>9, <1>10

\* An attempt the bucket refuses changes nothing an attempt could find.
LEMMA RateLimitedKeeps ==
  ASSUME L!PolicyAssumption, ThrottleCore, NEW i \in Id, L!RateLimited(i)
  PROVE  ThrottleCore'
<1>0. L!TypeOK /\ \A j \in Id : Paid(j) /\ CountedIn(by_id[j], guesses[j]) /\ BelowThreshold(by_id[j])
  BY DEF ThrottleCore
<1>1. ~L!Allows(i) /\ L!Consume(i) /\ UNCHANGED <<by_id, guesses, passed>>
  BY DEF L!RateLimited
<1>2. /\ buckets' \in [Id -> L!Bucket \cup {None}]
      /\ \A j \in Id : Avail(buckets'[j]) = Avail(buckets[j])
  BY <1>0, <1>1, ConsumeKeeps
<1>3. L!TypeOK'
  BY <1>0, <1>1, <1>2 DEF L!TypeOK
<1>4. \A j \in Id : Paid(j)'
  BY <1>0, <1>1, <1>2 DEF Paid
<1>5. \A j \in Id : CountedIn(by_id[j], guesses[j])' /\ BelowThreshold(by_id[j])'
  BY <1>0, <1>1 DEF CountedIn, BelowThreshold
<1> QED BY <1>3, <1>4, <1>5 DEF ThrottleCore

\* What is let through is paid for.
LEMMA AdmittedIsPaid ==
  ASSUME L!PolicyAssumption, L!TypeOK, \A j \in Id : Paid(j), NEW i \in Id, L!Admitted(i)
  PROVE  /\ buckets' \in [Id -> L!Bucket \cup {None}] /\ passed' \in [Id -> [0..Window -> Nat]]
         /\ \A j \in Id : Paid(j)'
<1>0. Window \in Nat /\ Capacity \in Nat /\ Refill \in Nat
  BY NoneFacts
<1>1. L!Allows(i) /\ L!Consume(i) /\ passed' = [passed EXCEPT ![i][0] = @ + 1]
  BY DEF L!Admitted
<1>2. /\ buckets' \in [Id -> L!Bucket \cup {None}]
      /\ \A j \in Id : j # i => buckets'[j] = buckets[j]
      /\ Avail(buckets'[i]) = Avail(buckets[i]) - 1
  BY <1>1, ConsumeKeeps
<1> DEFINE h == passed[i]
           k == [h EXCEPT ![0] = h[0] + 1]
<1>3. passed \in [Id -> [0..Window -> Nat]] /\ h \in [0..Window -> Nat]
  BY DEF L!TypeOK
<1>4. passed' = [passed EXCEPT ![i] = k]
  BY <1>1, <1>3
<1>h. passed[i] = h
  OBVIOUS
<1> HIDE DEF h
<1>5. OneMore(h, k)
  BY DEF OneMore
<1> HIDE DEF k
<1>6. k \in [0..Window -> Nat] /\ \A n \in 0..Window : UpTo(k, n) = UpTo(h, n) + 1
  BY <1>0, <1>3, <1>5, UpToBump
<1>7. passed' \in [Id -> [0..Window -> Nat]] /\ passed'[i] = k /\ \A j \in Id : j # i => passed'[j] = passed[j]
  BY <1>3, <1>4, <1>6
<1>8. ASSUME NEW j \in Id PROVE Paid(j)'
  <2>1. CASE j # i
    BY <1>2, <1>7, <2>1 DEF Paid
  <2>2. CASE j = i
    <3> SUFFICES ASSUME NEW s \in 0..Window
                 PROVE  UpTo(k, s) + Avail(buckets'[i]) <= Capacity + Refill * s
      BY <1>7, <2>2 DEF Paid
    <3> DEFINE u == UpTo(h, s)  v == Avail(buckets[i])  w == Capacity + Refill * s
    <3>1. u + v <= w
      BY <1>h DEF Paid
    <3>2. UpTo(k, s) = u + 1 /\ Avail(buckets'[i]) = v - 1
      BY <1>2, <1>6
    <3>3. u \in Nat
      BY <1>0, <1>3, UpToType
    <3>4. v \in 0..Capacity
      BY RefilledFacts DEF L!TypeOK
    <3> HIDE DEF u, v, w
    <3>5. (u + 1) + (v - 1) = u + v
      BY <1>0, <3>3, <3>4
    <3> QED BY <3>1, <3>2, <3>5 DEF w
  <2> QED BY <2>1, <2>2
<1> QED BY <1>2, <1>7, <1>8

\* A refused attempt leaves the lock as it is.
LEMMA LoginLockedKeeps ==
  ASSUME L!PolicyAssumption, ThrottleCore, NEW i \in Id, L!LoginLocked(i)
  PROVE  ThrottleCore'
<1>0. L!TypeOK /\ \A j \in Id : Paid(j) /\ CountedIn(by_id[j], guesses[j]) /\ BelowThreshold(by_id[j])
  BY DEF ThrottleCore
<1>1. /\ L!Admitted(i) /\ L!EntryExpired(by_id[i]).lockAge # None /\ UNCHANGED guesses
      /\ by_id' = [by_id EXCEPT ![i] = L!EntryExpired(by_id[i])]
  BY DEF L!LoginLocked, L!Locked, L!AfterCheck
<1>2. by_id[i] \in L!Attempts \cup {None} /\ guesses[i] \in [0..LockoutSecs -> Nat]
  BY <1>0 DEF L!TypeOK
<1>3. L!EntryExpired(by_id[i]) = by_id[i]
  BY <1>0, <1>1, <1>2, ExpiredFacts
<1>4. by_id' = by_id
  BY <1>0, <1>1, <1>3 DEF L!TypeOK
<1>5. /\ buckets' \in [Id -> L!Bucket \cup {None}] /\ passed' \in [Id -> [0..Window -> Nat]]
      /\ \A j \in Id : Paid(j)'
  BY <1>0, <1>1, AdmittedIsPaid
<1>6. L!TypeOK'
  BY <1>0, <1>1, <1>4, <1>5 DEF L!TypeOK
<1>7. \A j \in Id : CountedIn(by_id[j], guesses[j])' /\ BelowThreshold(by_id[j])'
  BY <1>0, <1>1, <1>4 DEF CountedIn, BelowThreshold
<1> QED BY <1>5, <1>6, <1>7 DEF ThrottleCore

\* record_failure counts the guess, and locks at the threshold.
LEMMA FailureIsCounted ==
  ASSUME L!PolicyAssumption, NEW s \in L!Attempts \cup {None}, NEW g \in [0..LockoutSecs -> Nat],
         CountedIn(s, g), BelowThreshold(s), L!EntryExpired(s).lockAge = None,
         NEW k, OneMore(g, k)
  PROVE  LET t == L!AfterFailure(L!EntryExpired(s))
         IN  t \in L!Attempts /\ k \in [0..LockoutSecs -> Nat] /\ CountedIn(t, k) /\ BelowThreshold(t)
<1> DEFINE e == L!EntryExpired(s)
           n == e.failures + 1
           t == L!AfterFailure(e)
           q == LockoutSecs - 1
<1>0. LockoutSecs \in Nat /\ MaxFailures \in Nat \ {0} /\ None \notin Nat /\ None \notin L!Attempts
  BY NoneFacts
<1>1. e \in L!Attempts /\ BelowThreshold(e) /\ CountedIn(e, g) /\ e.lockAge = None
  BY ExpiredFacts
<1>2. L!EntryExpired(e) = e
  BY <1>0, <1>1 DEF L!EntryExpired
<1>3. t = [failures |-> n, lockAge |-> IF n >= MaxFailures THEN 0 ELSE None]
  BY <1>1, <1>2 DEF L!AfterFailure
<1> HIDE DEF e
<1>4. e.failures \in Nat /\ e.failures < MaxFailures /\ e # None
  BY <1>0, <1>1 DEF L!Attempts, BelowThreshold
<1>5. n \in 1..MaxFailures /\ n = e.failures + 1
  BY <1>0, <1>4
<1> HIDE DEF n, t
<1>6. t \in L!Attempts /\ t # None /\ t.failures = n /\ t.lockAge = (IF n >= MaxFailures THEN 0 ELSE None)
  BY <1>0, <1>3, <1>5 DEF L!Attempts
<1>7. k \in [0..LockoutSecs -> Nat] /\ \A m \in 0..LockoutSecs : UpTo(k, m) = UpTo(g, m) + 1
  BY <1>0, UpToBump
<1>8. BelowThreshold(t)
  BY <1>0, <1>5, <1>6 DEF BelowThreshold
<1>9. LockoutSecs > 0 => UpTo(k, q) <= n
  <2> HAVE LockoutSecs > 0
  <2>1. UpTo(g, q) <= e.failures
    BY <1>1, <1>4 DEF CountedIn
  <2>2. q \in 0..LockoutSecs
    BY <1>0
  <2> HIDE DEF q
  <2>3. UpTo(g, q) \in Nat
    BY <1>0, <2>2, UpToType
  <2>4. UpTo(k, q) = UpTo(g, q) + 1
    BY <1>7, <2>2
  <2> QED BY <1>4, <1>5, <2>1, <2>3, <2>4
<1>10. CountedIn(t, k)
  <2> SUFFICES ASSUME LockoutSecs > 0
               PROVE  /\ t.lockAge = None => UpTo(k, q) <= t.failures
                      /\ t.lockAge # None => /\ UpTo(k, q) <= MaxFailures
                                             /\ \A j \in 0..LockoutSecs : j < t.lockAge => k[j] = 0
    BY <1>6 DEF CountedIn
  <2>1. UpTo(k, q) <= n
    BY <1>9
  <2>2. n >= MaxFailures => n = MaxFailures
    BY <1>0, <1>5
  <2>3. t.lockAge # None => t.lockAge = 0 /\ n = MaxFailures
    BY <1>6, <2>2
  <2> QED BY <1>6, <2>1, <2>3
<1> QED BY <1>6, <1>7, <1>8, <1>10 DEF t, e

\* A wrong password.
LEMMA LoginFailsKeeps ==
  ASSUME L!PolicyAssumption, ThrottleCore, NEW i \in Id, L!LoginFails(i)
  PROVE  ThrottleCore'
<1> DEFINE g == guesses[i]
           k == [g EXCEPT ![0] = g[0] + 1]
           t == L!AfterFailure(L!EntryExpired(by_id[i]))
<1>0. L!TypeOK /\ \A j \in Id : Paid(j) /\ CountedIn(by_id[j], guesses[j]) /\ BelowThreshold(by_id[j])
  BY DEF ThrottleCore
<1>2. /\ by_id \in [Id -> L!Attempts \cup {None}] /\ guesses \in [Id -> [0..LockoutSecs -> Nat]]
      /\ by_id[i] \in L!Attempts \cup {None} /\ g \in [0..LockoutSecs -> Nat]
  BY <1>0 DEF L!TypeOK
<1>1. /\ L!Admitted(i) /\ L!EntryExpired(by_id[i]).lockAge = None
      /\ by_id' = [by_id EXCEPT ![i] = t] /\ guesses' = [guesses EXCEPT ![i] = k]
  BY <1>2 DEF L!LoginFails, L!Locked, L!AfterCheck
<1>g. guesses[i] = g
  OBVIOUS
<1> HIDE DEF g
<1>k. OneMore(g, k)
  BY DEF OneMore
<1> HIDE DEF k
<1>3. t \in L!Attempts /\ k \in [0..LockoutSecs -> Nat] /\ CountedIn(t, k) /\ BelowThreshold(t)
  BY <1>0, <1>1, <1>2, <1>g, <1>k, FailureIsCounted
<1> HIDE DEF t
<1>4. /\ by_id'[i] = t /\ guesses'[i] = k
      /\ \A j \in Id : j # i => by_id'[j] = by_id[j] /\ guesses'[j] = guesses[j]
  BY <1>1, <1>2
<1>5. /\ buckets' \in [Id -> L!Bucket \cup {None}] /\ passed' \in [Id -> [0..Window -> Nat]]
      /\ \A j \in Id : Paid(j)'
  BY <1>0, <1>1, AdmittedIsPaid
<1>6. L!TypeOK'
  BY <1>1, <1>2, <1>3, <1>5 DEF L!TypeOK
<1>7. ASSUME NEW j \in Id PROVE CountedIn(by_id'[j], guesses'[j]) /\ BelowThreshold(by_id'[j])
  BY <1>0, <1>3, <1>4
<1>8. \A j \in Id : CountedIn(by_id[j], guesses[j])' /\ BelowThreshold(by_id[j])'
  BY <1>7 DEF CountedIn, BelowThreshold
<1> QED BY <1>5, <1>6, <1>8 DEF ThrottleCore

\* An identifier is cleared, the bucket apart.
LEMMA ClearKeeps ==
  ASSUME L!PolicyAssumption, ThrottleCore, NEW i \in Id,
         by_id' = [by_id EXCEPT ![i] = None], guesses' = [guesses EXCEPT ![i] = L!NoGuess],
         buckets' \in [Id -> L!Bucket \cup {None}], passed' \in [Id -> [0..Window -> Nat]],
         \A j \in Id : Paid(j)'
  PROVE  ThrottleCore'
<1>0. L!TypeOK /\ \A j \in Id : CountedIn(by_id[j], guesses[j]) /\ BelowThreshold(by_id[j])
  BY DEF ThrottleCore
<1>1. L!NoGuess \in [0..LockoutSecs -> Nat] /\ CountedIn(None, L!NoGuess) /\ BelowThreshold(None)
  BY ClearedIsCounted
<1>2. /\ by_id'[i] = None /\ guesses'[i] = L!NoGuess
      /\ \A j \in Id : j # i => by_id'[j] = by_id[j] /\ guesses'[j] = guesses[j]
  BY <1>0 DEF L!TypeOK
<1>3. L!TypeOK'
  BY <1>0, <1>1 DEF L!TypeOK
<1>4. ASSUME NEW j \in Id PROVE CountedIn(by_id'[j], guesses'[j]) /\ BelowThreshold(by_id'[j])
  BY <1>0, <1>1, <1>2
<1>5. \A j \in Id : CountedIn(by_id[j], guesses[j])' /\ BelowThreshold(by_id[j])'
  BY <1>4 DEF CountedIn, BelowThreshold
<1> QED BY <1>3, <1>5 DEF ThrottleCore

\* A second passes for every identifier.
LEMMA TickKeepsThrottle ==
  ASSUME L!PolicyAssumption, ThrottleCore, L!Tick
  PROVE  ThrottleCore'
<1>0. L!TypeOK /\ \A j \in Id : Paid(j) /\ CountedIn(by_id[j], guesses[j]) /\ BelowThreshold(by_id[j])
  BY DEF ThrottleCore
<1>n. Window \in Nat /\ Capacity \in Nat /\ Refill \in Nat /\ LockoutSecs \in Nat /\ None \notin L!Bucket
  BY NoneFacts
<1>1. ASSUME NEW i \in Id
      PROVE  /\ by_id'[i] \in L!Attempts \cup {None} /\ guesses'[i] \in [0..LockoutSecs -> Nat]
             /\ CountedIn(by_id'[i], guesses'[i]) /\ BelowThreshold(by_id'[i])
  <2> DEFINE s == by_id[i]  g == guesses[i]  t == by_id'[i]
  <2>1. s \in L!Attempts \cup {None} /\ g \in [0..LockoutSecs -> Nat]
    BY <1>0 DEF L!TypeOK
  <2>2. /\ t = IF s # None /\ s.lockAge # None
               THEN [s EXCEPT !.lockAge = L!Min({LockoutSecs, s.lockAge + 1})] ELSE s
        /\ guesses'[i] = L!Older(g)
    BY DEF L!Tick
  <2>3. CountedIn(s, g) /\ BelowThreshold(s)
    BY <1>0
  <2> HIDE DEF s, g, t
  <2>4. t \in L!Attempts \cup {None} /\ CountedIn(t, L!Older(g)) /\ BelowThreshold(t)
    BY <2>1, <2>2, <2>3, TickKeepsCount
  <2>5. L!Older(g) \in [0..LockoutSecs -> Nat]
    BY <1>n, <2>1, UpToOlder
  <2> QED BY <2>2, <2>4, <2>5 DEF t
<1>2. ASSUME NEW i \in Id
      PROVE  /\ buckets'[i] \in L!Bucket \cup {None} /\ passed'[i] \in [0..Window -> Nat]
             /\ Paid(i)'
  <2> DEFINE b == buckets[i]  c == buckets'[i]  h == passed[i]  k == L!Older(h)
  <2>1. b \in L!Bucket \cup {None} /\ h \in [0..Window -> Nat]
    BY <1>0 DEF L!TypeOK
  <2>2. /\ c = IF b # None THEN [b EXCEPT !.idle = L!Min({Capacity, b.idle + 1})] ELSE b
        /\ passed'[i] = k
    BY DEF L!Tick
  <2>3. \A s \in 0..Window : UpTo(h, s) + Avail(b) <= Capacity + Refill * s
    BY <1>0 DEF Paid
  <2> HIDE DEF b, c, h
  <2>4. c \in L!Bucket \cup {None} /\ Avail(c) <= Avail(b) + Refill
    <3>1. Avail(b) \in 0..Capacity
      BY <2>1, RefilledFacts
    <3>2. CASE b = None
      BY <1>n, <2>2, <3>1, <3>2
    <3>3. CASE b # None
      BY <2>1, <2>2, <3>3, AvailOneSecondLater
    <3> QED BY <3>2, <3>3
  <2>5. Avail(b) \in 0..Capacity /\ Avail(c) \in 0..Capacity
    BY <2>1, <2>4, RefilledFacts
  <2>6. /\ k \in [0..Window -> Nat] /\ UpTo(k, 0) = 0
        /\ \A n \in 0..Window : n # 0 => UpTo(k, n) = UpTo(h, n - 1)
    BY <1>n, <2>1, UpToOlder
  <2> HIDE DEF k
  <2>7. ASSUME NEW s \in 0..Window PROVE UpTo(k, s) + Avail(c) <= Capacity + Refill * s
    <3>1. CASE s = 0
      BY <1>n, <2>5, <2>6, <3>1
    <3>2. CASE s # 0
      <4> DEFINE r == s - 1
      <4>1. r \in 0..Window /\ r \in Nat /\ s = r + 1
        BY <1>n, <3>2
      <4>2. UpTo(k, s) = UpTo(h, r)
        BY <2>6, <3>2
      <4> HIDE DEF r
      <4>3. Refill * s = Refill * r + Refill /\ Refill * r \in Nat
        BY <1>n, <4>1
      <4>4. UpTo(h, r) + Avail(b) <= Capacity + Refill * r
        BY <2>3, <4>1
      <4>5. UpTo(h, r) \in Nat
        BY <1>n, <2>1, <4>1, UpToType
      <4> QED BY <1>n, <2>4, <2>5, <4>2, <4>3, <4>4, <4>5
    <3> QED BY <3>1, <3>2
  <2>8. Paid(i)'
    BY <2>2, <2>7 DEF Paid, c
  <2> QED BY <2>2, <2>4, <2>6, <2>8 DEF c
<1>3. L!TypeOK'
  <2>1. by_id' \in [Id -> L!Attempts \cup {None}]
    BY <1>1 DEF L!Tick
  <2>2. buckets' \in [Id -> L!Bucket \cup {None}]
    BY <1>2 DEF L!Tick
  <2>3. guesses' \in [Id -> [0..LockoutSecs -> Nat]]
    BY <1>1 DEF L!Tick
  <2>4. passed' \in [Id -> [0..Window -> Nat]]
    BY <1>2 DEF L!Tick
  <2> QED BY <2>1, <2>2, <2>3, <2>4 DEF L!TypeOK
<1>4. \A i \in Id : CountedIn(by_id[i], guesses[i])' /\ BelowThreshold(by_id[i])'
  BY <1>1 DEF CountedIn, BelowThreshold
<1> QED BY <1>2, <1>3, <1>4 DEF ThrottleCore

\* Every outcome of dispatch_login, the admin's unlock, time and a restart.
LEMMA ThrottleCoreNext ==
  ASSUME L!PolicyAssumption, ThrottleCore, [L!Next]_L!vars
  PROVE  ThrottleCore'
<1>0. L!TypeOK /\ \A j \in Id : Paid(j)
  BY DEF ThrottleCore
<1>1. ASSUME NEW i \in Id, L!RateLimited(i) PROVE ThrottleCore'
  BY <1>1, RateLimitedKeeps
<1>2. ASSUME NEW i \in Id, L!LoginLocked(i) PROVE ThrottleCore'
  BY <1>2, LoginLockedKeeps
<1>3. ASSUME NEW i \in Id, L!LoginFails(i) PROVE ThrottleCore'
  BY <1>3, LoginFailsKeeps
<1>4. ASSUME NEW i \in Id, L!LoginSucceeds(i) PROVE ThrottleCore'
  <2>1. /\ L!Admitted(i) /\ by_id' = [by_id EXCEPT ![i] = None]
        /\ guesses' = [guesses EXCEPT ![i] = L!NoGuess]
    BY <1>4 DEF L!LoginSucceeds
  <2>2. /\ buckets' \in [Id -> L!Bucket \cup {None}] /\ passed' \in [Id -> [0..Window -> Nat]]
        /\ \A j \in Id : Paid(j)'
    BY <1>0, <2>1, AdmittedIsPaid
  <2> QED BY <2>1, <2>2, ClearKeeps
<1>5. ASSUME NEW i \in Id, L!AdminUnlock(i) PROVE ThrottleCore'
  <2>1. /\ by_id' = [by_id EXCEPT ![i] = None] /\ guesses' = [guesses EXCEPT ![i] = L!NoGuess]
        /\ UNCHANGED <<buckets, passed>>
    BY <1>5 DEF L!AdminUnlock
  <2>2. /\ buckets' \in [Id -> L!Bucket \cup {None}] /\ passed' \in [Id -> [0..Window -> Nat]]
        /\ \A j \in Id : Paid(j)'
    BY <1>0, <2>1 DEF L!TypeOK, Paid
  <2> QED BY <2>1, <2>2, ClearKeeps
<1>6. CASE L!Tick
  BY <1>6, TickKeepsThrottle
<1>7. CASE L!Restart
  <2>1. L!TypeOK'
    BY <1>7, ClearedIsCounted, EmptyIsPaid DEF L!Restart, L!TypeOK
  <2>2. ASSUME NEW i \in Id
        PROVE  Paid(i)' /\ CountedIn(by_id'[i], guesses'[i]) /\ BelowThreshold(by_id'[i])
    BY <1>7, ClearedIsCounted, EmptyIsPaid DEF L!Restart, Paid
  <2>3. \A i \in Id : CountedIn(by_id[i], guesses[i])' /\ BelowThreshold(by_id[i])'
    BY <2>2 DEF CountedIn, BelowThreshold
  <2> QED BY <2>1, <2>2, <2>3 DEF ThrottleCore
<1>8. CASE UNCHANGED L!vars
  <2>1. UNCHANGED <<by_id, buckets, guesses, passed>>
    BY <1>8 DEF L!vars
  <2>2. L!TypeOK'
    BY <1>0, <2>1 DEF L!TypeOK
  <2>3. \A i \in Id : Paid(i)' /\ CountedIn(by_id[i], guesses[i])' /\ BelowThreshold(by_id[i])'
    BY <2>1 DEF ThrottleCore, Paid, CountedIn, BelowThreshold
  <2> QED BY <2>2, <2>3 DEF ThrottleCore
<1> QED BY <1>1, <1>2, <1>3, <1>4, <1>5, <1>6, <1>7, <1>8 DEF L!Next

\* AccountLockout, for every policy and any number of identifiers: the wrong
\* passwords evaluated within one cooldown never exceed max_failures, and over
\* any s seconds the bucket lets no more attempts through than its capacity and
\* s refills.
THEOREM GuessingIsThrottled ==
  ASSUME L!PolicyAssumption
  PROVE  L!Init /\ [][L!Next]_L!vars => []L!ThrottleInv
<1>1. L!Init => ThrottleCore
  BY ThrottleCoreInit
<1>2. ThrottleCore /\ [L!Next]_L!vars => ThrottleCore'
  BY ThrottleCoreNext
<1>3. ThrottleCore => L!ThrottleInv
  BY ThrottleCoreSuffices
<1> QED BY <1>1, <1>2, <1>3, PTL

-----------------------------------------------------------------------------
(* The composition *)

\* A step of the composition is a step of one component and leaves the others
\* alone.
LEMMA StepOfOne ==
  ASSUME [MCNext]_mcVars
  PROVE  /\ [L!Next]_(L!vars) /\ [U!Next]_(U!vars) /\ [W!WireNext]_(W!wireVars)
         /\ [D!DataplaneNext]_(D!dataplaneVars)
<1>1. /\ L!vars = loginVars /\ U!vars = streamVars /\ W!wireVars = commandVars
      /\ D!dataplaneVars = balancerVars
  BY DEF L!vars, loginVars, U!vars, streamVars, W!wireVars, commandVars, D!dataplaneVars,
         balancerVars
<1>2. /\ L!vars' = loginVars' /\ U!vars' = streamVars' /\ W!wireVars' = commandVars'
      /\ D!dataplaneVars' = balancerVars'
  BY DEF L!vars, loginVars, U!vars, streamVars, W!wireVars, commandVars, D!dataplaneVars,
         balancerVars
<1>3. /\ UNCHANGED loginVars \/ L!Next
      /\ UNCHANGED streamVars \/ U!Next
      /\ UNCHANGED commandVars \/ W!WireNext
      /\ UNCHANGED balancerVars \/ D!DataplaneNext
  <2>1. CASE UNCHANGED mcVars
    BY <2>1 DEF mcVars
  <2>2. CASE MCNext
    BY <2>2 DEF MCNext, InLease, InLogin, InStream, InCommand, InBalancer
  <2> QED BY <2>1, <2>2
<1> QED BY <1>1, <1>2, <1>3

\* MCProgress.ThrottleInv, for every policy.
THEOREM ThrottleHolds ==
  ASSUME L!PolicyAssumption
  PROVE  MCSpec => []ThrottleInv
<1>1. MCInit => L!Init
  BY DEF MCInit
<1>2. [MCNext]_mcVars => [L!Next]_(L!vars)
  BY StepOfOne
<1>3. L!Init /\ [][L!Next]_(L!vars) => []L!ThrottleInv
  BY GuessingIsThrottled
<1> QED BY <1>1, <1>2, <1>3, PTL DEF MCSpec, ThrottleInv

\* MCProgress.TransportInv: streams, commands and relay counts, for every size
\* of the three.
THEOREM TransportHolds ==
  ASSUME U!StreamAssumption, W!WireAssumption, D!DataplaneAssumption
  PROVE  MCSpec => []TransportInv
<1>1. MCInit => U!Init /\ W!WireInit /\ D!DataplaneInit
  BY DEF MCInit
<1>2. [MCNext]_mcVars => /\ [U!Next]_(U!vars) /\ [W!WireNext]_(W!wireVars)
                         /\ [D!DataplaneNext]_(D!dataplaneVars)
  BY StepOfOne
<1>3. U!Init /\ [][U!Next]_(U!vars) => []U!StreamInv
  BY StreamsDeliverInOrder DEF U!Spec
<1>4. W!WireInit /\ [][W!WireNext]_(W!wireVars) => []W!WireInv
  BY AnswersAreTheirOwn DEF W!WireSpec
<1>5. D!DataplaneInit /\ [][D!DataplaneNext]_(D!dataplaneVars) => []D!DataplaneInv
  BY CountsAreRelayTasks DEF D!DataplaneSpec
<1> QED BY <1>1, <1>2, <1>3, <1>4, <1>5, PTL DEF MCSpec, TransportInv

\* MCProgress.ImplementsPipe: the composition implements the byte pipe from the
\* dialer to the listener.
THEOREM PipeIsImplemented ==
  ASSUME U!StreamAssumption
  PROVE  MCSpec => ImplementsPipe
<1>1. MCInit => U!Init
  BY DEF MCInit
<1>2. [MCNext]_mcVars => [U!Next]_(U!vars)
  BY StepOfOne
<1>3. U!Init /\ [][U!Next]_(U!vars) => U!ImplementsPipe
  BY PumpsImplementThePipe DEF U!Spec
<1> QED BY <1>1, <1>2, <1>3, PTL DEF MCSpec, ImplementsPipe
=============================================================================
