---------------------------- MODULE SignalStore ----------------------------
(***************************************************************************)
(* The timeseries store of a node's observability plane                    *)
(* (crates/pillar-observability: block.rs, retention.rs) with the writers  *)
(* the live substrate puts in front of it (live.rs, recording.rs).         *)
(* Signals go into an open block that seals when it is full; retention     *)
(* policies decide, at the write, until when a signal is kept and whether  *)
(* it is kept at all; compaction drops sealed blocks whole.                *)
(*                                                                         *)
(* A signal's identity is its payload alone: what was written, the value   *)
(* where one is computed, and the tick where the format prints it.  The    *)
(* tick is seconds since the start of the node; components stamp with a    *)
(* clock that is only brought up to date by the sampling loop.             *)
(***************************************************************************)
EXTENDS Integers, Sequences, FiniteSets, FiniteSetsExt, Functions

CONSTANTS
    Source,       \* what producers report: [text, kind, labels, component]
    Rule,         \* recording rules: [id, kind, emit], counting signals of a kind
    PolicySet,    \* what an operator may install: sequences of policies
                  \*   [kind, selector, window, downsample], None where not set
    Capacity,     \* block_capacity
    Retention,    \* the default retention_window
    MaxTick, MaxBlocks, None

StoreAssumption ==
    /\ Capacity \in Nat \ {0} /\ {Retention, MaxTick, MaxBlocks} \subseteq Nat
    /\ \A ps \in PolicySet : \A i \in DOMAIN ps :
          {ps[i].window, ps[i].downsample} \subseteq Nat \cup {None}

VARIABLES
    policies,   \* the installed policies
    open,       \* the open block
    sealed,     \* the sealed blocks, oldest first
    ticks,      \* write_ticks: when a payload was written first
    buckets,    \* downsample_last: bucket -> tick of its representative
    now, clock, \* elapsed seconds, and the tick components stamp with
    promised,   \* ghost: the latest deadline any write of a payload was given
    lost        \* ghost: the most recent signal that was downsampled away

signalVars == <<policies, open, sealed, ticks, buckets, now, clock, promised, lost>>

EmptyBlock == [signals |-> <<>>, latest |-> 0]

SignalInit ==
    /\ policies = <<>>
    /\ open = EmptyBlock /\ sealed = <<>>
    /\ ticks = <<>> /\ buckets = <<>>
    /\ now = 0 /\ clock = 0
    /\ promised = <<>> /\ lost = None

\* The map f with k standing for v.
With(f, k, v) == [x \in DOMAIN f \cup {k} |-> IF x = k THEN v ELSE f[x]]

\* or_insert: what is there stays.
OrInsert(f, k, v) == IF k \in DOMAIN f THEN f ELSE With(f, k, v)

-----------------------------------------------------------------------------
\* Policies.

Matches(p, kind, labels) == p.kind = kind /\ p.selector \subseteq labels

Matching(kind, labels) == {i \in DOMAIN policies : Matches(policies[i], kind, labels)}

\* The shortest window of the matching policies, or the default.
EffectiveWindow(kind, labels) ==
    LET ws == {policies[i].window : i \in Matching(kind, labels)} \ {None}
    IN IF ws = {} THEN Retention ELSE Min(ws)

\* The first matching policy that downsamples.
Downsampling(kind, labels) ==
    LET ds == {i \in Matching(kind, labels) : policies[i].downsample # None}
    IN IF ds = {} THEN None ELSE policies[Min(ds)]

\* checked_div: an interval of zero has no buckets and admits everything.
HasBuckets(p) == p # None /\ p.downsample # 0

\* The key of a bucket: kind, selector and number, as the code formats it.
Bucket(p, tick) == <<p.kind, p.selector, tick \div p.downsample>>

-----------------------------------------------------------------------------
\* Blocks.

Full(block) == Cardinality(DOMAIN block.signals) >= Capacity

\* Mutant of Admitted: the deadline of the block is that of the last write.
AdmittedLastDeadline(block, id, signal, expiry) ==
    [signals |-> OrInsert(block.signals, id, signal), latest |-> expiry]

\* TimeseriesBlock::admit on a block that takes the signal.
Admitted(block, id, signal, expiry) ==
    [signals |-> OrInsert(block.signals, id, signal), latest |-> Max({block.latest, expiry})]

\* A full block refuses even what it holds: it is retired and a fresh one
\* opened.
Store(id, signal, expiry) ==
    IF Full(open)
    THEN /\ Len(sealed) < MaxBlocks
         /\ sealed' = Append(sealed, open)
         /\ open' = Admitted(EmptyBlock, id, signal, expiry)
    ELSE /\ open' = Admitted(open, id, signal, expiry)
         /\ UNCHANGED sealed

Holds(id) ==
    id \in DOMAIN open.signals \/ \E i \in DOMAIN sealed : id \in DOMAIN sealed[i].signals

Held == DOMAIN open.signals \cup UNION {DOMAIN sealed[i].signals : i \in DOMAIN sealed}

-----------------------------------------------------------------------------
\* Writes.

\* write_labeled of the payload id.
Admit(id, kind, labels, tick) ==
    LET expiry == tick + EffectiveWindow(kind, labels)
    IN /\ Store(id, [kind |-> kind, labels |-> labels], expiry)
       /\ ticks' = OrInsert(ticks, id, tick)
       /\ promised' = With(promised, id,
                           IF id \in DOMAIN promised THEN Max({promised[id], expiry}) ELSE expiry)

WriteLabeled(id, kind, labels, tick) ==
    LET p == Downsampling(kind, labels)
    IN /\ \/ /\ ~HasBuckets(p)
             /\ Admit(id, kind, labels, tick)
             /\ UNCHANGED <<buckets, lost>>
          \/ /\ HasBuckets(p) /\ Bucket(p, tick) \notin DOMAIN buckets
             /\ buckets' = With(buckets, Bucket(p, tick), tick)
             /\ Admit(id, kind, labels, tick)
             /\ UNCHANGED lost
          \/ /\ HasBuckets(p) /\ Bucket(p, tick) \in DOMAIN buckets
             /\ lost' = [policy |-> p, tick |-> tick]
             /\ UNCHANGED <<open, sealed, ticks, buckets, promised>>
       /\ UNCHANGED <<policies, now, clock>>

\* The node's own producers stamp with the elapsed seconds, components (by
\* emit_metric, emit_log, emit_span and emit_profile) with their clock.  The
\* tick is part of the payload.
Emit(s) ==
    LET tick == IF s.component THEN clock ELSE now
    IN WriteLabeled([text |-> s.text, value |-> 0, at |-> tick], s.kind, s.labels, tick)

\* latest_tick()
LatestTick == Max({ticks[id] : id \in Held} \cup {0})

\* The ungrouped Count of a rule over what is held.
CountOf(kind) ==
    Cardinality({id \in Held : \/ id \in DOMAIN open.signals /\ open.signals[id].kind = kind
                               \/ \E i \in DOMAIN sealed : /\ id \in DOMAIN sealed[i].signals
                                                           /\ sealed[i].signals[id].kind = kind})

\* live_obs_recording(): the rule is registered and evaluated at the latest
\* tick over a copy of the store.  A run begins and ends in this step, so the
\* Forbid policy of its job never skips it.  The payload of the derived metric
\* has no tick.
EvaluateRule(r) ==
    WriteLabeled([text |-> r.emit, value |-> CountOf(r.kind), at |-> -1], "Metric", {r.id}, LatestTick)

\* set_policies(): for the writes that come.
SetPolicies(ps) ==
    /\ ps # policies
    /\ policies' = ps
    /\ UNCHANGED <<open, sealed, ticks, buckets, now, clock, promised, lost>>

\* The blocks whose deadline has not come, in their order.
Retained(blocks) ==
    LET Among[i \in 0..Len(blocks)] ==
            IF i = 0 THEN <<>>
            ELSE IF now < blocks[i].latest THEN Append(Among[i - 1], blocks[i]) ELSE Among[i - 1]
    IN Among[Len(blocks)]

\* compact()
Compact ==
    /\ sealed' = Retained(sealed)
    /\ UNCHANGED <<policies, open, ticks, buckets, now, clock, promised, lost>>

\* A second passes; the sampling loop brings the components' clock up to date.
Second ==
    /\ now < MaxTick /\ now' = now + 1
    /\ UNCHANGED <<policies, open, sealed, ticks, buckets, clock, promised, lost>>

AdvanceClock ==
    /\ clock' = now
    /\ UNCHANGED <<policies, open, sealed, ticks, buckets, now, promised, lost>>

SignalNext ==
    \/ \E s \in Source : Emit(s)
    \/ \E r \in Rule : EvaluateRule(r)
    \/ \E ps \in PolicySet : SetPolicies(ps)
    \/ Compact \/ Second \/ AdvanceClock

SignalSpec == SignalInit /\ [][SignalNext]_signalVars

-----------------------------------------------------------------------------
\* "Never early" (block.rs): a signal is held until the deadline of every
\* write it had has passed, though only the first write of a payload is kept,
\* writes of it may lie in several blocks, components stamp in the past and
\* the policies change in between.
HeldUntilDeadline ==
    \A id \in DOMAIN promised : promised[id] > now => Holds(id)

\* Sealed blocks are as large as configured, and what is held was written.
BlocksAreWhole ==
    /\ \A i \in DOMAIN sealed : Cardinality(DOMAIN sealed[i].signals) = Capacity
    /\ Held \subseteq DOMAIN ticks

SignalInv == HeldUntilDeadline /\ BlocksAreWhole

\* "a signal falling in an already-represented bucket is dropped" (block.rs):
\* what was dropped fell into an interval of its policy that has a
\* representative.
DroppedWasRepresented ==
    lost # None =>
        LET p == lost.policy
        IN \E b \in DOMAIN buckets :
              /\ b[1] = p.kind /\ b[2] = p.selector
              /\ buckets[b] \div p.downsample = lost.tick \div p.downsample

-----------------------------------------------------------------------------
\* An instance: one metric, and the policies an operator may install for it, a
\* sample of every second or of every two seconds.
Metrics == {[text |-> "cpu", kind |-> "Metric", labels |-> {}, component |-> FALSE]}

Every(n) == <<[kind |-> "Metric", selector |-> {}, window |-> None, downsample |-> n]>>

Intervals == {Every(1), Every(2)}
=============================================================================
