----------------------------- MODULE KeyedStore -----------------------------
(***************************************************************************)
(* The keyed store of crates/pillar-keyedstore over the op log of          *)
(* crates/pillar-streamdb: replicas hold sets of stamped puts and          *)
(* tombstones, a read folds the set to the op with the highest stamp, logs *)
(* are merged by union and compacted to the ops that still count.          *)
(*                                                                         *)
(* The stamp is one number (the writers leave the logical part at zero)    *)
(* with the author as tiebreak.  Ops are sets of one field's writes: the   *)
(* fold treats fields apart.  `full` is what a replica that never          *)
(* compacts would hold, and is read by the properties only.                *)
(***************************************************************************)
EXTENDS Integers

CONSTANTS
    Replica,
    Field,      \* (collection, id, field) triples
    Author,     \* writers, compared as strings: natural numbers here
    Home,       \* the replicas each author writes on
    Kind,       \* Tomb or the value of a put; compared by content address
                \* when everything else is equal: naturals as well
    Tomb,
    MaxClock    \* bound on the clock of a replica

KeyedStoreAssumption ==
    /\ Author \subseteq Nat
    /\ Kind \subseteq Nat
    /\ Tomb \in Kind
    /\ Home \in [Author -> SUBSET Replica]
    /\ MaxClock \in Nat

Op == [field : Field, clock : 1 .. MaxClock, author : Author, kind : Kind]

VARIABLES
    log,      \* the op set of each replica
    full,     \* the op set without compaction
    clock     \* keyed_clock, the counter each replica stamps from

vars == <<log, full, clock>>

Init ==
    /\ log = [r \in Replica |-> {}]
    /\ full = [r \in Replica |-> {}]
    /\ clock = [r \in Replica |-> 0]

----------------------------------------------------------------------------
(* The fold. *)

\* Mutant of HappensAfter: authors are not compared.
HappensAfterClock(o, p) == o.clock > p.clock

\* happens_after(): clock, then author.
HappensAfter(o, p) ==
    \/ o.clock > p.clock
    \/ o.clock = p.clock /\ o.author > p.author

OpsFor(ops, f) == {o \in ops : o.field = f}

\* winner(): ops are visited by content address and a later one replaces the
\* best only if it beats it, so of equal stamps the first one stays.
Wins(o, ops) ==
    /\ o \in ops
    /\ \A p \in OpsFor(ops, o.field) \ {o} :
          \/ HappensAfter(o, p)
          \/ ~HappensAfter(p, o) /\ o.kind < p.kind

\* Mutant of Survives: the oldest op of a field is kept.
SurvivesOldest(o, ops) ==
    /\ o \in ops
    /\ \A p \in OpsFor(ops, o.field) \ {o} :
          \/ HappensAfter(p, o)
          \/ ~HappensAfter(o, p) /\ o.kind > p.kind

\* compact_reclaiming() under KeyedFieldReclaimPolicy: the greatest pair of
\* priority and content address, so of equal stamps the last one stays.
Survives(o, ops) ==
    /\ o \in ops
    /\ \A p \in OpsFor(ops, o.field) \ {o} :
          \/ HappensAfter(o, p)
          \/ ~HappensAfter(p, o) /\ o.kind > p.kind

----------------------------------------------------------------------------
(* Operations. *)

\* kv_put, kv_delete, doc_put_field, doc_delete_field under next_keyed_hlc().
Write(r, f, a, k) ==
    /\ r \in Home[a]
    /\ clock[r] < MaxClock
    /\ clock' = [clock EXCEPT ![r] = @ + 1]
    /\ LET o == [field |-> f, clock |-> clock[r] + 1, author |-> a, kind |-> k]
       IN  /\ log' = [log EXCEPT ![r] = @ \cup {o}]
           /\ full' = [full EXCEPT ![r] = @ \cup {o}]

\* merge(): the gossip join of another replica's op set.
Merge(r, s) ==
    /\ log' = [log EXCEPT ![r] = @ \cup log[s]]
    /\ full' = [full EXCEPT ![r] = @ \cup full[s]]
    /\ UNCHANGED clock

\* The log is replaced by a bootstrap of its reclaiming snapshot.
Compact(r) ==
    /\ log' = [log EXCEPT ![r] = {o \in @ : Survives(o, @)}]
    /\ UNCHANGED <<full, clock>>

Next ==
    \/ \E r \in Replica, f \in Field, a \in Author, k \in Kind : Write(r, f, a, k)
    \/ \E r, s \in Replica : Merge(r, s)
    \/ \E r \in Replica : Compact(r)

Spec == Init /\ [][Next]_vars

----------------------------------------------------------------------------
(* Properties. *)

\* The variables keep to their sets.
TypeOK ==
    /\ log \in [Replica -> SUBSET Op]
    /\ full \in [Replica -> SUBSET Op]
    /\ clock \in [Replica -> 0 .. MaxClock]

\* Whenever and wherever logs were compacted and merged, every field reads
\* as if nothing had ever been discarded ("compaction and the live fold can
\* never disagree on which op is authoritative").
ReadsLikeFullHistory ==
    \A r \in Replica, o \in Op : Wins(o, log[r]) <=> Wins(o, full[r])

\* No two writes of a field carry the same stamp.
StampsDiffer ==
    \A r, s \in Replica : \A o \in full[r], p \in full[s] :
        o.field = p.field /\ o.clock = p.clock /\ o.author = p.author => o = p

\* What KeyedFieldReclaimPolicy promises, where next_keyed_hlc() never repeats a
\* stamp: compaction changes no read, now or after any later merge.
CompactionKeepsReads == StampsDiffer => ReadsLikeFullHistory

\* Every field that was ever written has an op that decides it: the fold has
\* a result and compaction does not lose the field.
EveryFieldDecided ==
    \A r \in Replica : \A p \in full[r] :
        \E o \in log[r] : o.field = p.field /\ Wins(o, log[r])

\* A replica never falls back to an older write: the stamp that decides a
\* field is beaten only by a later one.
DecisionsMoveForward ==
    [][\A r \in Replica, o, p \in Op :
          /\ o.field = p.field
          /\ Wins(o, log[r])
          /\ Wins(p, log'[r])
          => ~HappensAfter(o, p)]_vars

\* On every replica, compacted or not, merged or not, each field that
\* was ever written still has an op that decides it, the one that would decide
\* it had nothing been discarded.
StoreInv == TypeOK /\ EveryFieldDecided /\ CompactionKeepsReads

\* An instance: every author writes on every replica.
Everywhere == [a \in Author |-> Replica]
=============================================================================
