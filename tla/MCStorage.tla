------------------------------ MODULE MCStorage ------------------------------
(***************************************************************************)
(* What a node stores and replicates: the event log and its anti-entropy,  *)
(* the keyed store, the durable operation store, the chain of segments and *)
(* the pinning of a database on foreign replicas.  They share no state, so *)
(* a behaviour follows one of them and the others stay in their initial    *)
(* states.                                                                 *)
(***************************************************************************)
EXTENDS AntiEntropy, StreamPersist, SegmentChain, GeoReplication

CONSTANTS Store, Field, Writer, Home, Kind, Tomb, MaxClock, s1, s2      \* KeyedStore

VARIABLES
    fields, full, clock,
    part    \* the component the behaviour follows

keyedVars == <<fields, full, clock>>

\* Hashes are ordered against the order of creation, so that a causal order is
\* never the order of the hashes.
NewestFirst == [i \in 1..MaxEvents |-> MaxEvents + 1 - i]

\* Writer 1 writes on both nodes, writer 2 on the second.
TwoHomes == 1 :> {s1, s2} @@ 2 :> {s2}

K == INSTANCE KeyedStore WITH Replica <- Store, Author <- Writer, log <- fields

ASSUME K!KeyedStoreAssumption
ASSUME ChainAssumption
ASSUME GeoAssumption

MCInit ==
    /\ AEInit /\ K!Init /\ PersistInit /\ ChainInit /\ GeoInit
    /\ part \in {"events", "keyed", "operations", "segments", "replication"}

\* A store that refused to open stays refused, and bounds on crashes and
\* faults end the others: only these may stop.
Stopped ==
    /\ part \in {"operations", "segments", "replication"}
    /\ UNCHANGED <<aeVars, keyedVars, persistVars, chainVars, geoVars>>

MCNext ==
    /\ UNCHANGED part
    /\ \/ part = "events" /\ AENext /\ UNCHANGED <<keyedVars, persistVars, chainVars, geoVars>>
       \/ part = "keyed" /\ K!Next /\ UNCHANGED <<aeVars, persistVars, chainVars, geoVars>>
       \/ part = "operations" /\ PersistNext /\ UNCHANGED <<aeVars, keyedVars, chainVars, geoVars>>
       \/ part = "segments" /\ ChainNext /\ UNCHANGED <<aeVars, keyedVars, persistVars, geoVars>>
       \/ part = "replication" /\ GeoNext /\ UNCHANGED <<aeVars, keyedVars, persistVars, chainVars>>
       \/ Stopped

MCSpec == MCInit /\ [][MCNext]_<<aeVars, keyedVars, persistVars, chainVars, geoVars, part>>

\* KeyedStore: each field that was ever written is decided by the op that would
\* decide it had nothing been compacted away.
StoreInv == part = "keyed" => K!StoreInv

\* KeyedStore: a replica never falls back to an older write.
DecisionsMoveForward == K!DecisionsMoveForward

\* StreamPersist: what the log holds and what an append returned is on disk,
\* through every failing call and every crash.  SegmentChain: after a crash
\* between any two steps the store opens and shows every operation an append
\* returned; a rebuilt view is a past of the stream.
DurableInv == PersistInv /\ ChainInv

Symmetry == Permutations(Author) \cup Permutations(Replica) \cup Permutations(Operation)
=============================================================================
