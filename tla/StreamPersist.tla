---------------------------- MODULE StreamPersist ---------------------------
(***************************************************************************)
(* The durable operation store of a stream (pillar-streamdb/src/           *)
(* persist.rs): a directory with one file per operation, named by the      *)
(* content address of its bytes.  An operation is written to a temporary   *)
(* file `<address>.tmp` in the same directory and renamed into place, and  *)
(* only then joins the set in memory.  Opening the directory reads every   *)
(* file in it and refuses the whole store when the name of one is not the  *)
(* address of its bytes.                                                   *)
(*                                                                         *)
(* The file system's calls are steps of their own: each may fail, and the  *)
(* process may crash between any two of them.                              *)
(***************************************************************************)
EXTENDS Naturals, Sequences, SequencesExt, FiniteSets

CONSTANTS
    StoredOp,         \* operations
    Exclusive,  \* the operations with an exclusive side effect
    Relaxed,    \* TRUE when the stream's policy refuses exclusive effects
    MaxCrashes, \* bound: crashes
    MaxFaults   \* bound: file system calls that fail

VARIABLES
    final,      \* operations with a file under their address
    tmp,        \* [StoredOp -> {"none", "partial", "full"}]: the temporary files
    opLog,        \* the set in memory
    handle,     \* "open", "down" (no process), "refused" (open failed)
    job,        \* the call under way: its kind, the operations still to persist,
                \* all of its operations, and whether the first is in its tmp file
    returned,   \* history: operations whose append returned their id
    crashes, faults

persistVars == <<final, tmp, opLog, handle, job, returned, crashes, faults>>

Idle == [kind |-> "idle", todo |-> << >>, all |-> {}, wrote |-> FALSE]

PersistInit ==
    /\ final = {} /\ opLog = {} /\ returned = {}
    /\ tmp = [o \in StoredOp |-> "none"]
    /\ handle = "open" /\ job = Idle
    /\ crashes = 0 /\ faults = 0

\* `append`: an effect the policy does not admit is refused before anything
\* is written.
Append1(o) ==
    /\ handle = "open" /\ job = Idle
    /\ Relaxed => o \notin Exclusive
    /\ job' = [kind |-> "append", todo |-> <<o>>, all |-> {o}, wrote |-> FALSE]
    /\ UNCHANGED <<final, tmp, opLog, handle, returned, crashes, faults>>

\* `merge_persistent`: what the peer holds, in the peer's order; the policy is
\* not asked.
MergePersistent(order) ==
    /\ handle = "open" /\ job = Idle
    /\ job' = [kind |-> "merge", todo |-> order, all |-> Range(order), wrote |-> FALSE]
    /\ UNCHANGED <<final, tmp, opLog, handle, returned, crashes, faults>>

\* Nothing is left to do for the next operation: `merge_persistent` finds it in
\* the log, or `persist_op` its file on disk.
Done == (job.kind = "merge" /\ Head(job.todo) \in opLog) \/ Head(job.todo) \in final

SkipExisting ==
    /\ job.todo # << >> /\ Done
    /\ job' = [job EXCEPT !.todo = Tail(@)]
    /\ UNCHANGED <<final, tmp, opLog, handle, returned, crashes, faults>>

Writing == job.todo # << >> /\ ~Done

WriteTmp ==
    /\ Writing /\ ~job.wrote
    /\ tmp' = [tmp EXCEPT ![Head(job.todo)] = "full"]
    /\ job' = [job EXCEPT !.wrote = TRUE]
    /\ UNCHANGED <<final, opLog, handle, returned, crashes, faults>>

Rename ==
    /\ Writing /\ job.wrote
    /\ final' = final \cup {Head(job.todo)}
    /\ tmp' = [tmp EXCEPT ![Head(job.todo)] = "none"]
    /\ job' = [job EXCEPT !.todo = Tail(@), !.wrote = FALSE]
    /\ UNCHANGED <<opLog, handle, returned, crashes, faults>>

\* A write that is cut short may leave part of the file behind.
CutShort == {tmp} \cup IF Writing /\ ~job.wrote
                       THEN {[tmp EXCEPT ![Head(job.todo)] = "partial"]} ELSE {}

\* The write or the rename fails: its error is returned and the log is left
\* alone.
CallFails ==
    /\ Writing /\ faults < MaxFaults
    /\ tmp' \in CutShort
    /\ job' = Idle
    /\ faults' = faults + 1
    /\ UNCHANGED <<final, opLog, handle, returned, crashes>>

\* Everything is on disk: the set in memory takes the operations.
Record ==
    /\ job.kind # "idle" /\ job.todo = << >>
    /\ opLog' = opLog \cup job.all
    /\ returned' = IF job.kind = "append" THEN returned \cup job.all ELSE returned
    /\ job' = Idle
    /\ UNCHANGED <<final, tmp, handle, crashes, faults>>

\* The process dies.
Crash ==
    /\ handle # "down" /\ crashes < MaxCrashes
    /\ tmp' \in CutShort
    /\ handle' = "down" /\ opLog' = {} /\ job' = Idle
    /\ crashes' = crashes + 1
    /\ UNCHANGED <<final, returned, faults>>

\* `open_with`: the name of every file must be the address of its bytes, and
\* that of a temporary file never is.
Leftovers == {o \in StoredOp : tmp[o] # "none"}

OpenStore ==
    /\ handle = "down"
    /\ IF Leftovers = {} THEN handle' = "open" /\ opLog' = final
                         ELSE handle' = "refused" /\ UNCHANGED opLog
    /\ UNCHANGED <<final, tmp, job, returned, crashes, faults>>

Orders == UNION {{s \in [1..n -> StoredOp] : IsInjective(s)} : n \in 1..2}

PersistNext ==
    \/ \E o \in StoredOp : Append1(o)
    \/ \E order \in Orders : MergePersistent(order)
    \/ SkipExisting \/ WriteTmp \/ Rename \/ CallFails \/ Record
    \/ Crash \/ OpenStore

PersistSpec == PersistInit /\ [][PersistNext]_persistVars

-----------------------------------------------------------------------------
(* Properties *)

Job == [kind : {"idle", "append", "merge"}, todo : Seq(StoredOp), all : SUBSET StoredOp, wrote : BOOLEAN]

PersistTypeOK ==
    /\ final \subseteq StoredOp /\ opLog \subseteq StoredOp /\ returned \subseteq StoredOp
    /\ tmp \in [StoredOp -> {"none", "partial", "full"}]
    /\ handle \in {"open", "down", "refused"}
    /\ job \in Job /\ (job.kind = "idle" => job = Idle)
    /\ handle # "open" => job = Idle /\ opLog = {}
    /\ crashes \in Nat /\ faults \in Nat

\* Disk before memory, through every failing call and every crash: what the
\* log holds and what an append returned is on disk under its address, and a
\* store that opens holds exactly that.
DurableFirst ==
    /\ opLog \subseteq final
    /\ returned \subseteq final
    /\ \A o \in final : tmp[o] = "none"

\* Only a call that failed half way or a crash leaves a temporary file, and a
\* merge that failed only leaves operations on disk ahead of the log.
DiskAheadOnlyAfterTrouble ==
    /\ faults = 0 /\ crashes = 0 => Cardinality(Leftovers) <= 1
    /\ handle = "open" /\ job = Idle /\ faults = 0 => final = opLog

\* What the loop over the operations of a call has done: whatever is no longer
\* to do is on disk, the temporary file that was written is that of the next
\* operation, and without trouble nothing else is on disk than what the log
\* holds or is about to.
JobProgress ==
    /\ Range(job.todo) \subseteq job.all
    /\ job.all \subseteq final \cup Range(job.todo)
    /\ job.wrote => Writing
    /\ handle = "open" /\ faults = 0 => final \subseteq opLog \cup job.all
    /\ faults = 0 /\ crashes = 0 => Leftovers = IF job.wrote THEN {Head(job.todo)} ELSE {}

PersistInv == PersistTypeOK /\ DurableFirst /\ DiskAheadOnlyAfterTrouble /\ JobProgress

\* What `append` documents: after a crash the store opens again and the
\* operations that were returned are back.
ReopensAfterCrash == handle # "refused"
=============================================================================
