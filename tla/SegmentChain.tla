----------------------------- MODULE SegmentChain ---------------------------
(***************************************************************************)
(* The node's own durable stream (pillar-streamdb/src/ipfs_persist.rs over *)
(* the content store of pillar-wire/src/store.rs): a chain of signed       *)
(* segments, one operation each, linked to its predecessor by content id,  *)
(* and a signed head record that names the newest one.  A node that starts *)
(* walks the chain from its head; a node with an empty disk rebuilds the   *)
(* stream from a head record and the segments its peers serve.             *)
(*                                                                         *)
(* A segment's id covers its payload and its predecessor's id, so it is    *)
(* modelled by the sequence of payloads up to it.  The steps of an append  *)
(* (store the block, pin it, advertise it, publish the head, record the    *)
(* operation) may each fail, and the node may crash between any two.       *)
(***************************************************************************)
EXTENDS Naturals, Sequences, SequencesExt, FiniteSets

CONSTANTS
    Operation,        \* operations
    Public,         \* TRUE for a public stream: its segments are advertised
    MaxChain,       \* bound: segments of a chain
    MaxTroubles,    \* bound: crashes and failing store calls
    None

ChainId == UNION {[1..n -> Operation] : n \in 1..MaxChain}

HeadRecord == [seq : Nat, target : ChainId]

ChainAssumption == MaxChain \in Nat /\ Public \in BOOLEAN /\ None \notin HeadRecord

VARIABLES
    blocks, pins, adverts,  \* the backend of the author's node: sets of ids
    diskHead,       \* its head record [seq, target], or None
    held,           \* the segments the running store has loaded
    ops, seq, head, \* the running handle: the set of operations, number and
                    \* the newest segment, << >> for none
    up,             \* the author's node runs
    step,           \* the append under way: [at, id, payload]
    acked,          \* history: operations whose append returned
    heads,          \* history: every head record published; peers may know any
    reader,         \* a rebuilt handle on another node: [ops, seq, head, secret] or None
    troubles

chainVars == <<blocks, pins, adverts, diskHead, held, ops, seq, head, up, step, acked,
               heads, reader, troubles>>

NoStep == [at |-> "idle"]
Chain(id) == {SubSeq(id, 1, n) : n \in 1..Len(id)}

ChainInit ==
    /\ blocks = {} /\ pins = {} /\ adverts = {} /\ held = {}
    /\ diskHead = None /\ ops = {} /\ seq = 0 /\ head = << >>
    /\ up = TRUE /\ step = NoStep /\ acked = {} /\ heads = {} /\ reader = None
    /\ troubles = 0

\* `append`: the new segment links to the handle's head.
StartAppend(p) ==
    /\ up /\ step = NoStep /\ Len(head) < MaxChain
    /\ step' = [at |-> "put", id |-> Append(head, p), payload |-> p]
    /\ UNCHANGED <<blocks, pins, adverts, diskHead, held, ops, seq, head, up, acked, heads,
                   reader, troubles>>

\* Mutant of Put: the segment stays in the memory of the store.
PutInMemory ==
    /\ step.at = "put"
    /\ held' = held \cup {step.id}
    /\ step' = [step EXCEPT !.at = "pin"]
    /\ UNCHANGED <<blocks, pins, adverts, diskHead, ops, seq, head, up, acked, heads, reader,
                   troubles>>

Put ==
    /\ step.at = "put"
    /\ blocks' = blocks \cup {step.id} /\ held' = held \cup {step.id}
    /\ step' = [step EXCEPT !.at = "pin"]
    /\ UNCHANGED <<pins, adverts, diskHead, ops, seq, head, up, acked, heads, reader, troubles>>

Pin ==
    /\ step.at = "pin" /\ step.id \in held
    /\ pins' = pins \cup {step.id}
    /\ step' = [step EXCEPT !.at = IF Public THEN "provide" ELSE "publish"]
    /\ UNCHANGED <<blocks, adverts, diskHead, held, ops, seq, head, up, acked, heads, reader,
                   troubles>>

Provide ==
    /\ step.at = "provide"
    /\ adverts' = adverts \cup {step.id}
    /\ step' = [step EXCEPT !.at = "publish"]
    /\ UNCHANGED <<blocks, pins, diskHead, held, ops, seq, head, up, acked, heads, reader,
                   troubles>>

DiskSeq == IF diskHead = None THEN 0 ELSE diskHead.seq
DiskChain == IF diskHead = None THEN << >> ELSE diskHead.target

\* `publish_head` accepts a sequence number above the current one only; the
\* handle's own number was advanced before it is asked.
PublishHead ==
    LET record == [seq |-> seq + 1, target |-> step.id]
    IN  /\ step.at = "publish" /\ seq + 1 > DiskSeq
        /\ seq' = seq + 1
        /\ diskHead' = record /\ heads' = heads \cup {record}
        /\ step' = [step EXCEPT !.at = "record"]
        /\ UNCHANGED <<blocks, pins, adverts, held, ops, head, up, acked, reader, troubles>>

RecordOp ==
    /\ step.at = "record"
    /\ head' = step.id /\ ops' = ops \cup {step.payload} /\ acked' = acked \cup {step.payload}
    /\ step' = NoStep
    /\ UNCHANGED <<blocks, pins, adverts, diskHead, held, seq, up, heads, reader, troubles>>

\* The backend refuses a call: the append returns its error.  Only the last
\* one has changed the handle by then.
StoreFails ==
    /\ step.at \in {"put", "pin", "provide", "publish"} /\ troubles < MaxTroubles
    /\ seq' = IF step.at = "publish" THEN seq + 1 ELSE seq
    /\ step' = NoStep
    /\ troubles' = troubles + 1
    /\ UNCHANGED <<blocks, pins, adverts, diskHead, held, ops, head, up, acked, heads, reader>>

CrashNode ==
    /\ up /\ troubles < MaxTroubles
    /\ up' = FALSE /\ step' = NoStep
    /\ held' = {} /\ ops' = {} /\ seq' = 0 /\ head' = << >>
    /\ troubles' = troubles + 1
    /\ UNCHANGED <<blocks, pins, adverts, diskHead, acked, heads, reader>>

\* `reload_from_backend` loads the pinned segments, `open_with_store` walks the
\* chain; a segment that is missing fails the open.
CanOpen == Chain(DiskChain) \subseteq (blocks \cap pins)

\* Mutant of OpenNode: the walk leaves the handle's head at the root.
OpenNodeAtRoot ==
    /\ ~up /\ CanOpen
    /\ up' = TRUE
    /\ held' = blocks \cap pins
    /\ head' = << >> /\ ops' = Range(DiskChain) /\ seq' = DiskSeq
    /\ UNCHANGED <<blocks, pins, adverts, diskHead, step, acked, heads, reader, troubles>>

OpenNode ==
    /\ ~up /\ CanOpen
    /\ up' = TRUE
    /\ held' = blocks \cap pins
    /\ head' = DiskChain /\ ops' = Range(DiskChain) /\ seq' = DiskSeq
    /\ UNCHANGED <<blocks, pins, adverts, diskHead, step, acked, heads, reader, troubles>>

\* `rehydrate`: another node walks the chain of a head record it was given,
\* fetching each segment; it cannot author until it unseals the signing key.
Rehydrate(record) ==
    /\ Chain(record.target) \subseteq blocks
    /\ reader' = [ops |-> Range(record.target), seq |-> record.seq, head |-> record.target,
                  secret |-> FALSE]
    /\ UNCHANGED <<blocks, pins, adverts, diskHead, held, ops, seq, head, up, step, acked,
                   heads, troubles>>

UnsealSigningKey ==
    /\ reader # None /\ ~reader.secret
    /\ reader' = [reader EXCEPT !.secret = TRUE]
    /\ UNCHANGED <<blocks, pins, adverts, diskHead, held, ops, seq, head, up, step, acked,
                   heads, troubles>>

\* The rebuilt handle appends to its own store.
ReaderAppend(p) ==
    /\ reader # None /\ reader.secret /\ Len(reader.head) < MaxChain
    /\ reader' = [reader EXCEPT !.ops = @ \cup {p}, !.seq = @ + 1, !.head = Append(@, p)]
    /\ UNCHANGED <<blocks, pins, adverts, diskHead, held, ops, seq, head, up, step, acked,
                   heads, troubles>>

ChainNext ==
    \/ \E p \in Operation : StartAppend(p) \/ ReaderAppend(p)
    \/ Put \/ Pin \/ Provide \/ PublishHead \/ RecordOp \/ StoreFails
    \/ CrashNode \/ OpenNode \/ UnsealSigningKey
    \/ \E record \in heads : Rehydrate(record)

ChainSpec == ChainInit /\ [][ChainNext]_chainVars

-----------------------------------------------------------------------------
(* Properties *)

AppendStep == [at : {"put", "pin", "provide", "publish", "record"}, id : ChainId, payload : Operation]

Rebuilt == [ops : SUBSET Operation, seq : Nat, head : ChainId, secret : BOOLEAN]

ChainTypeOK ==
    /\ blocks \cup pins \cup adverts \cup held \subseteq ChainId
    /\ head \in ChainId \cup {<< >>} /\ ops \subseteq Operation /\ acked \subseteq Operation
    /\ seq \in Nat /\ up \in BOOLEAN
    /\ diskHead \in HeadRecord \cup {None} /\ heads \subseteq HeadRecord
    /\ step = NoStep \/ step \in AppendStep
    /\ reader = None \/ reader \in Rebuilt

\* A crash between any two steps leaves a store that opens: every segment of
\* the published head's chain is stored and pinned.
HeadIsComplete == CanOpen

\* What an append returned is reachable from the head on disk, and a handle
\* that runs shows what a restart would: its operations are those of its
\* chain, which is the published one except between publishing and recording.
AckedIsReachable ==
    /\ acked \subseteq Range(DiskChain)
    /\ up => ops = Range(head)
    /\ up /\ step.at # "record" => head = DiskChain

\* The number a handle believes never falls behind the published one, so a
\* retry after a failure is never refused as stale.
NeverStale == up => seq >= DiskSeq

\* Rebuilt without the key, a view is one the author published at some time:
\* no operation is missing in the middle of it.
RebuiltIsAPast ==
    reader # None /\ ~reader.secret => [seq |-> reader.seq, target |-> reader.head] \in heads

\* How far the append under way has got: the new segment extends the handle's
\* chain, is stored before it is pinned, and both before the head names it.
StepProgress ==
    /\ step # NoStep => up /\ step.id = Append(head, step.payload)
    /\ step.at \in {"pin", "provide", "publish", "record"} => step.id \in blocks
    /\ step.at \in {"provide", "publish", "record"} => step.id \in pins
    /\ step.at = "record" => DiskChain = step.id

ChainInv ==
    /\ ChainTypeOK
    /\ HeadIsComplete
    /\ AckedIsReachable
    /\ NeverStale
    /\ RebuiltIsAPast
    /\ StepProgress

\* The head on disk only moves to a chain that extends the one before it,
\* under a larger number, whatever failed or crashed in between.
HeadOnlyExtends ==
    [][diskHead' # diskHead =>
        diskHead = None \/ (/\ diskHead'.seq > diskHead.seq
                            /\ IsStrictPrefix(diskHead.target, diskHead'.target))]_chainVars
=============================================================================
