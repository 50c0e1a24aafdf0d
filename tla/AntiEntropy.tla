---------------------------- MODULE AntiEntropy ----------------------------
(***************************************************************************)
(* Replicas of the event log kept together by gossip and by the            *)
(* digest-driven sync of crates/pillar-eventlog (antientropy.rs) over the  *)
(* request/response protocol of crates/pillar-net (antientropy.rs).        *)
(*                                                                         *)
(* Gossip may lose, repeat and reorder: a signed event may be ingested     *)
(* anywhere at any time, or never.  A request is answered at most once and *)
(* an answer applied at most once; either may be lost, and the answer is   *)
(* computed from a digest that may be out of date when it is applied.      *)
(***************************************************************************)
EXTENDS EventLog, Functions, FiniteSets

CONSTANTS
    HashOrder,      \* a permutation of the ids: the byte order of their hashes
    MaxInFlight     \* bound: requests and answers on the wire

ASSUME AntiEntropyAssumption ==
    /\ HashOrder \in Seq(1..MaxEvents) /\ Range(HashOrder) = 1..MaxEvents
    /\ MaxInFlight \in Nat

VARIABLE net        \* sync requests and answers in flight

aeVars == <<content, log, net>>

Request == [from : Replica, digest : [Author -> 0..MaxSeq]]
Answer == [to : Replica, events : Seq(1..MaxEvents)]

AETypeOK == TypeOK /\ \A m \in net : m \in Request \/ m \in Answer

AEInit == Init /\ net = {}

-----------------------------------------------------------------------------
\* A set of ids in the order of their hashes.
InHashOrder(S) ==
    LET Upto[i \in 0..Len(HashOrder)] ==
            IF i = 0 THEN <<>>
            ELSE IF HashOrder[i] \in S THEN Append(Upto[i - 1], HashOrder[i]) ELSE Upto[i - 1]
    IN Upto[Len(HashOrder)]

\* The tail of every chain beyond the advertised height.
Missing(l, digest) ==
    UNION {{l.bySeq[a][n] : n \in digest[a]..l.height[a] - 1} : a \in Author}

\* The missing events an event links to, prev first and the parents in the
\* order of their hashes.
LinksIn(missing, id) ==
    (IF content[id].prev \in missing THEN <<content[id].prev>> ELSE <<>>)
        \o InHashOrder(content[id].parents \cap missing)

\* One id after the other is emitted, onto what is emitted already.
EmitEach(emit, out, ids) ==
    LET After[i \in 0..Len(ids)] == IF i = 0 THEN out ELSE emit[<<ids[i], After[i - 1]>>]
    IN After[Len(ids)]

\* emit_in_causal_order: an event follows the missing events it links to.
EmitInCausalOrder(missing) ==
    LET Emit[x \in missing \X Seq(missing)] ==
            IF x[1] \in Range(x[2]) THEN x[2]
            ELSE Append(EmitEach(Emit, x[2], LinksIn(missing, x[1])), x[1])
    IN Emit

Emitted(missing) == EmitEach(EmitInCausalOrder(missing), <<>>, InHashOrder(missing))

\* Mutant of EventsMissingFrom: the events leave in the order of the set.
EventsMissingUnordered(l, digest) == InHashOrder(Missing(l, digest))

EventsMissingFrom(l, digest) == Emitted(Missing(l, digest))

\* apply_sync: each event is ingested in the order received.
Applied(l, events) ==
    LET After[i \in 0..Len(events)] == IF i = 0 THEN l ELSE Ingested(After[i - 1], events[i])
    IN After[Len(events)]

\* sync_from: one pull of r from s.
Synced(r, s) == Applied(log[r], EventsMissingFrom(log[s], log[r].height))

-----------------------------------------------------------------------------
SendRequest(r) ==
    /\ Cardinality(net) < MaxInFlight
    /\ net' = net \cup {[from |-> r, digest |-> log[r].height]}
    /\ UNCHANGED <<content, log>>

\* answer_sync, by any other replica.
SendAnswer(s, m) ==
    /\ m \in Request
    /\ s # m.from
    /\ net' = (net \ {m}) \cup {[to |-> m.from, events |-> EventsMissingFrom(log[s], m.digest)]}
    /\ UNCHANGED <<content, log>>

ApplyAnswer(m) ==
    /\ m \in Answer
    /\ log' = [log EXCEPT ![m.to] = Applied(@, m.events)]
    /\ net' = net \ {m}
    /\ UNCHANGED content

Lose(m) == net' = net \ {m} /\ UNCHANGED <<content, log>>

\* sync_from on two logs at hand, a half round of reconcile().
SyncFrom(r, s) ==
    /\ r # s
    /\ log' = [log EXCEPT ![r] = Synced(r, s)]
    /\ UNCHANGED <<content, net>>

AENext ==
    \/ Next /\ UNCHANGED net
    \/ \E r \in Replica : \/ SendRequest(r)
                          \/ \E m \in net : SendAnswer(r, m)
                          \/ \E s \in Replica : SyncFrom(r, s)
    \/ \E m \in net : ApplyAnswer(m) \/ Lose(m)

AESpec == AEInit /\ [][AENext]_aeVars

-----------------------------------------------------------------------------
\* No author has signed two events for one position of its chain.
Unforked ==
    \A i, j \in Id :
        content[i].author = content[j].author /\ content[i].seq = content[j].seq => i = j

\* The comment in sync_from, "a causally-ordered, content-addressed transfer
\* only ever yields admissible events": while no author forks, every event of
\* an answer is held once it is applied, however much the log has moved since
\* its digest was sent.
AnswersApplyWhole ==
    [][Unforked => \A m \in net :
          ApplyAnswer(m) => Range(m.events) \subseteq log'[m.to].events]_aeVars

\* One sync_from is enough for one direction: while no author forks, a pull
\* leaves nothing behind that the other side held.
OnePullIsEnough ==
    Unforked => \A r, s \in Replica : log[s].events \subseteq Synced(r, s).events

\* One pull is enough between any two replicas, in every state that gossip,
\* late answers and losses can leave, and the net holds only well-formed
\* requests and answers.
SyncInv == AETypeOK /\ OnePullIsEnough
=============================================================================
