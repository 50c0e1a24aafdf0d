---------------------------- MODULE StrictCofold ----------------------------
(***************************************************************************)
(* The strict co-fold of crates/pillar-streamdb (cofold.rs) over a lease   *)
(* register, and the revocation of RBAC grants that rides it               *)
(* (crates/pillar-rbac, document_sql_migration.rs).                        *)
(*                                                                         *)
(* A key is a partition.  The invariant of a grant key is UniqueOnce,      *)
(* which is QuotaCeiling at 1.  Whoever presents the epoch last proven for *)
(* a key is admitted: try_admit() asks for no candidate.  The stream is a  *)
(* content-addressed set, so an equal payload is counted again and stored  *)
(* once.  Grants are documents of the keyed store: puts issued on other    *)
(* replicas are in flight until they merge, and the write with the largest *)
(* stamp is the one that is read.  Stamps come from the writers' own       *)
(* clocks, so a put issued before a revocation may carry a larger one.     *)
(***************************************************************************)
EXTENDS LeaseRegister, Sequences

CONSTANTS
    GrantKey,   \* grant documents, revoked through UniqueOnce
    QuotaKey,   \* partitions under QuotaCeiling
    Ceiling,    \* its ceiling
    Payload,    \* payloads written to them
    MaxStamp    \* bound on the clocks

Key == GrantKey \cup QuotaKey

CofoldAssumption == GrantKey \cap QuotaKey = {} /\ Ceiling \in Nat /\ MaxStamp \in Nat

VARIABLES
    lease,      \* the LeaseRegister
    held,       \* the epoch last proven held for a key, -1 for none
    proved,     \* what each candidate was told it holds: <<key, epoch>>
    stream,     \* the log: key and payload of the operations it holds
    counts,     \* admissions per key, the invariant's own state
    admitted,   \* the admissions so far: key and epoch (read by properties only)
    docs,       \* the last write of each grant: stamp, live
    sent,       \* puts in flight: key and stamp
    stale       \* puts that were in flight when their key was revoked

cofoldVars == <<lease, held, proved, stream, counts, admitted, docs, sent, stale>>

CofoldInit ==
    /\ lease = EmptyRegister
    /\ held = [k \in Key |-> -1]
    /\ proved = [c \in Candidate |-> {}]
    /\ stream = {}
    /\ counts = [k \in Key |-> 0]
    /\ admitted = <<>>
    /\ docs = [k \in GrantKey |-> [stamp |-> 0, live |-> FALSE]]
    /\ sent = {} /\ stale = {}

-----------------------------------------------------------------------------
\* A voter's grant reaches the register.
Back(v, c, e) ==
    /\ lease' = Granted(lease, v, c, e)
    /\ UNCHANGED <<held, proved, stream, counts, admitted, docs, sent, stale>>

ReleaseLease(c, e) ==
    /\ lease' = Released(lease, c, e)
    /\ UNCHANGED <<held, proved, stream, counts, admitted, docs, sent, stale>>

\* acquire(): a recorded holder may prove an older epoch again.
Acquire(k, c, e) ==
    /\ Acquires(lease, c, e)
    /\ lease' = Acquired(lease, c, e)
    /\ held' = [held EXCEPT ![k] = e]
    /\ proved' = [proved EXCEPT ![c] = @ \cup {<<k, e>>}]
    /\ UNCHANGED <<stream, counts, admitted, docs, sent, stale>>

Limit(k) == IF k \in GrantKey THEN 1 ELSE Ceiling

\* The checks of try_admit(), the fence before the invariant.
Admits(k, e) == held[k] = e /\ counts[k] < Limit(k)

\* Mutant of TryAdmit: the invariant is asked before the fence.
TryAdmitInvariantFirst(k, e, p) ==
    /\ counts[k] < Limit(k)
    /\ counts' = [counts EXCEPT ![k] = @ + 1]
    /\ IF held[k] = e
       THEN /\ stream' = stream \cup {[key |-> k, payload |-> p]}
            /\ admitted' = Append(admitted, [key |-> k, epoch |-> e])
       ELSE UNCHANGED <<stream, admitted>>

\* try_admit() by whoever presents the epoch.
TryAdmit(k, e, p) ==
    /\ Admits(k, e)
    /\ counts' = [counts EXCEPT ![k] = @ + 1]
    /\ stream' = stream \cup {[key |-> k, payload |-> p]}
    /\ admitted' = Append(admitted, [key |-> k, epoch |-> e])

Admit(k, e, p) ==
    /\ k \in QuotaKey
    /\ TryAdmit(k, e, p)
    /\ UNCHANGED <<lease, held, proved, docs, sent, stale>>

\* A write merges into the document: the larger stamp stays.
Merged(k, stamp, live) ==
    [docs EXCEPT ![k] = IF stamp > @.stamp THEN [stamp |-> stamp, live |-> live] ELSE @]

Unused(k, stamp) ==
    docs[k].stamp # stamp /\ \A w \in sent \cup stale : w # [key |-> k, stamp |-> stamp]

\* put_grant() on some replica.
PutGrant(k, stamp) ==
    /\ Unused(k, stamp)
    /\ sent' = sent \cup {[key |-> k, stamp |-> stamp]}
    /\ UNCHANGED <<lease, held, proved, stream, counts, admitted, docs, stale>>

MergePut(w) ==
    /\ docs' = Merged(w.key, w.stamp, TRUE)
    /\ sent' = sent \ {w}
    /\ UNCHANGED <<lease, held, proved, stream, counts, admitted, stale>>

\* revoke_grant(): only an admitted tombstone deletes the document.
RevokeGrant(k, e, stamp) ==
    /\ k \in GrantKey
    /\ Unused(k, stamp)
    /\ TryAdmit(k, e, "revoke")
    /\ docs' = Merged(k, stamp, FALSE)
    /\ stale' = stale \cup {w \in sent : w.key = k}
    /\ UNCHANGED <<lease, held, proved, sent>>

CofoldNext ==
    \/ \E v \in Voter, c \in Candidate, e \in Epoch : Back(v, c, e)
    \/ \E c \in Candidate, e \in Epoch : ReleaseLease(c, e)
    \/ \E k \in Key, c \in Candidate, e \in Epoch : Acquire(k, c, e)
    \/ \E k \in Key, e \in Epoch, p \in Payload : Admit(k, e, p)
    \/ \E k \in GrantKey, s \in 1..MaxStamp :
        \/ PutGrant(k, s)
        \/ \E e \in Epoch : RevokeGrant(k, e, s)
    \/ \E w \in sent : MergePut(w)

CofoldSpec == CofoldInit /\ [][CofoldNext]_cofoldVars

-----------------------------------------------------------------------------
Operation == [key : Key, payload : Payload \cup {"revoke"}]
Admission == [key : Key, epoch : Epoch]

CofoldTypeOK ==
    /\ lease \in Register
    /\ held \in [Key -> Epoch \cup {-1}]
    /\ proved \in [Candidate -> SUBSET (Key \X Epoch)]
    /\ stream \in SUBSET Operation
    /\ counts \in [Key -> Nat]
    /\ admitted \in Seq(Admission)

OpsOf(k) == {o \in stream : o.key = k}
AdmissionsOf(k) == {i \in DOMAIN admitted : admitted[i].key = k}

\* A ceiling is spent by admissions alone, never by a writer that was fenced
\* off, and no partition is over it; the log holds at most one operation per
\* admission, fewer when payloads repeat, and at least one for a spent unit.
CeilingHolds ==
    \A k \in Key :
        /\ counts[k] = Cardinality(AdmissionsOf(k)) /\ counts[k] <= Limit(k)
        /\ Cardinality(OpsOf(k)) <= counts[k] /\ (OpsOf(k) = {} => counts[k] = 0)

\* The epoch held for a key is one the register awarded, to a candidate that
\* was told so.
HeldWasProved == \A k \in Key : held[k] # -1 => \E c \in Candidate : <<k, held[k]>> \in proved[c]

\* Whoever was told that it holds an epoch is the only one ever told so, a
\* recorded holder among them, and a majority of the voters still backs it there
\* or has moved on to a later epoch: nobody else can be backed at it any more.
MovedPast(c, e) ==
    {v \in Voter : lease.grants[v].epoch > e \/ lease.grants[v] = [epoch |-> e, candidate |-> c]}

EpochsAreProvedOnce ==
    /\ \A c, d \in Candidate : \A x \in proved[c], y \in proved[d] : x[2] = y[2] => c = d
    /\ \A e \in Epoch : lease.holders[e] # NoNode =>
            \E k \in Key : <<k, e>> \in proved[lease.holders[e]]
    /\ \A c \in Candidate : \A x \in proved[c] : IsQuorum(Cardinality(MovedPast(c, x[2])))

\* Whatever was admitted was admitted under an epoch that some candidate was
\* told it holds for the key, through releases and repeated acquisitions.
AdmittedUnderAward ==
    \A i \in DOMAIN admitted :
        \E c \in Candidate : <<admitted[i].key, admitted[i].epoch>> \in proved[c]

\* The fence of the strict co-fold: ceilings hold, nothing is admitted under an
\* epoch the register did not award for the key, and an epoch is only ever
\* awarded to one candidate.
CofoldInv ==
    /\ CofoldTypeOK
    /\ CeilingHolds
    /\ HeldWasProved
    /\ EpochsAreProvedOnce
    /\ AdmittedUnderAward

\* "never a bare AP delete that a stale/concurrent grant write could race back
\* into effect": a put that was in flight when its grant was revoked is never
\* the one that is read.
RevokedBeatsStaleGrants ==
    \A k \in GrantKey : docs[k].live => [key |-> k, stamp |-> docs[k].stamp] \notin stale
=============================================================================
