---------------------------- MODULE WorkloadPlane ----------------------------
(***************************************************************************)
(* The declared resources of a node and what it runs for them: the portal  *)
(* handlers of crates/pillar-cli (web_serve.rs), the resource plane        *)
(* (resource.rs, lib.rs), the workload reconciler (workload_reconcile.rs)  *)
(* and the registrations handed to the scheduler runtime.                  *)
(*                                                                         *)
(* Every caller is authorised.  A body is reduced to what the runtime      *)
(* reads; Plain stands for every image that is no blob reference.          *)
(* A restart folds the journal back one operation per step, before the     *)
(* node serves anything else.                                              *)
(***************************************************************************)
EXTENDS Integers, Sequences

CONSTANTS
    Name,
    Image,          \* blob references
    Plain,          \* an image that cannot be fetched ("app:v1")
    Command,        \* executables of scheduled jobs
    MaxReplicas,    \* bound: replicas a caller declares
    MaxOps,         \* bound: operations to record in the journal
    MaxDirect,      \* bound: operations of the resource-op tier
    MaxRestarts,    \* bound: restarts of the node
    None

Count == 0..MaxReplicas
JobKind == {"CronJob", "Job"}
Kind == JobKind \cup {"Workload"}

Workload == [image : Image \cup {Plain}, replicas : Count, generation : 0..MaxOps, deleted : BOOLEAN]
Scheduled == [command : Command, deleted : BOOLEAN]
Replica == [image : Image, alive : BOOLEAN]

\* A rollback of a job declares one replica.
WorkloadAssumption ==
    /\ MaxReplicas \in Nat \ {0}
    /\ MaxOps \in Nat /\ MaxDirect \in Nat /\ MaxRestarts \in Nat
    /\ None \notin Scheduled

VARIABLES
    manifest,       \* Platform::view, by kind and name
    revisions,      \* Platform::applied: every body ever applied, by kind and name
    running,        \* WorkloadReconciler.workloads
    registered,     \* SchedulerRuntime.jobs, by name
    journal,        \* the durable portal operations
    pending,        \* what replay still has to fold back
    behind,         \* the manifests the journal is behind on, by kind and name
    missed,         \* how many operations were not appended
    direct, restarts

journalVars == <<journal, behind, missed>>
vars == <<manifest, revisions, running, registered, journalVars, pending, direct, restarts>>

NoManifest == [k \in Kind |-> [n \in Name |-> None]]

Init ==
    /\ manifest = NoManifest
    /\ revisions = [k \in Kind |-> [n \in Name |-> {}]]
    /\ running = [n \in Name |-> None]
    /\ registered = [n \in Name |-> None]
    /\ journal = <<>>
    /\ pending = <<>>
    /\ behind = {} /\ missed = 0
    /\ direct = 0
    /\ restarts = 0

-----------------------------------------------------------------------------
\* The reconciler.

Fresh(image) == [image |-> image, desired |-> 0, replicas |-> <<>>]

\* scale(): the surplus is dropped or the shortfall spawned, as far as it goes.
Scaled(st, desired, spawned) ==
    [st EXCEPT !.desired = desired,
               !.replicas = IF Len(@) > desired THEN SubSeq(@, 1, desired)
                            ELSE @ \o [i \in 1..spawned |-> [image |-> st.image, alive |-> TRUE]]]

\* reconcile_restarts: every dead replica whose spawn succeeds is replaced; ok
\* are the places at which one does.
Restarted(st, ok) ==
    [st EXCEPT !.replicas = [i \in DOMAIN @ |->
        IF ~@[i].alive /\ i \in ok THEN [image |-> st.image, alive |-> TRUE] ELSE @[i]]]

Place == 1..MaxReplicas

Shortfall(st, desired) == IF Len(st.replicas) < desired THEN desired - Len(st.replicas) ELSE 0

\* scale() and, when it succeeds, the restarts.
ScaleOutcomes(st, desired) ==
    LET all == Shortfall(st, desired)
    IN {Restarted(Scaled(st, desired, all), ok) : ok \in SUBSET Place}
       \cup {Scaled(st, desired, k) : k \in 0..all - 1}

\* Mutant of Admitted: the replicas of the old image stay.
AdmittedInPlace(st, image) ==
    IF st = None THEN Fresh(image) ELSE [st EXCEPT !.image = image]

\* A new image is admitted with an empty set of replicas.
Admitted(st, image) == Fresh(image)

\* reconcile(): a new image is fetched and admitted first.
Reconciled(st, image, desired) ==
    IF image = Plain THEN {st}
    ELSE IF (IF st = None THEN FALSE ELSE st.image = image) THEN ScaleOutcomes(st, desired)
    ELSE ScaleOutcomes(Admitted(st, image), desired) \cup {st}

-----------------------------------------------------------------------------
\* The operations, as they are recorded and as they are replayed.

Body(image, k) == [image |-> image, replicas |-> k, generation |-> 0, deleted |-> FALSE]

Exists(m, op) == m[op.kind][op.name] # None

\* The body an operation leaves, given the manifests before it.
BodyAfter(m, op) ==
    CASE op.act = "apply"    -> Body(op.image, op.replicas)
      [] op.act = "edit"     -> [m[op.kind][op.name] EXCEPT !.image = op.image]
      [] op.act = "scale"    -> [m[op.kind][op.name] EXCEPT !.replicas = op.replicas]
      [] op.act = "rollout"  -> [m[op.kind][op.name] EXCEPT !.generation = @ + 1]
      [] op.act = "schedule" -> [command |-> op.command, deleted |-> FALSE]
      [] op.act = "delete"   -> [m[op.kind][op.name] EXCEPT !.deleted = TRUE]

Upserts(op) == op.act \in {"apply", "schedule"}

\* apply() on the resource plane; a patch or delete of nothing is NotFound.
ManifestAfter(m, op) ==
    IF Upserts(op) \/ Exists(m, op) THEN [m EXCEPT ![op.kind][op.name] = BodyAfter(m, op)] ELSE m

\* drive_reconcile reads the body back, tombstones included.
RunningAfter(op, body) ==
    IF op.act \in {"apply", "scale"}
    THEN Reconciled(running[op.name], body.image, body.replicas)
    ELSE {running[op.name]}

\* register_scheduler_job skips a command it cannot read; delete deregisters
\* the name.
RegisteredAfter(op) ==
    CASE op.act = "schedule" -> {op.command, registered[op.name]}
      [] op.act = "delete"   -> {None}
      [] OTHER               -> {registered[op.name]}

\* The whole handler of an operation, but for its record.
Perform(op) ==
    /\ manifest' = ManifestAfter(manifest, op)
    /\ revisions' = [revisions EXCEPT ![op.kind][op.name] = @ \cup {BodyAfter(manifest, op)}]
    /\ \E st \in RunningAfter(op, BodyAfter(manifest, op)) : running' = [running EXCEPT ![op.name] = st]
    /\ \E c \in RegisteredAfter(op) : registered' = [registered EXCEPT ![op.name] = c]

Serving == pending = <<>>

Slot(op) == <<op.kind, op.name>>

\* The append: whatever the journal is behind on, a whole body puts right.
Recorded(op) ==
    /\ journal' = Append(journal, op)
    /\ behind' = IF Upserts(op) THEN behind \ {Slot(op)} ELSE behind
    /\ missed' = missed

\* The append fails: an error is logged, and what the handler did stands.
NotRecorded(op) ==
    /\ journal' = journal
    /\ behind' = behind \cup {Slot(op)}
    /\ missed' = missed + 1

Record(op) ==
    /\ Len(journal) + missed < MaxOps
    /\ Recorded(op) \/ NotRecorded(op)

Portal(op) ==
    /\ Serving
    /\ Upserts(op) \/ Exists(manifest, op)
    /\ Perform(op)
    /\ Record(op)
    /\ UNCHANGED <<pending, direct, restarts>>

Op(act, kind, n) == [act |-> act, kind |-> kind, name |-> n]
ApplyOp(n, image, k) ==
    [act |-> "apply", kind |-> "Workload", name |-> n, image |-> image, replicas |-> k]

Apply(n, image, k) == Portal(ApplyOp(n, image, k))
Edit(n, image) ==
    Portal([act |-> "edit", kind |-> "Workload", name |-> n, image |-> image])
Scale(n, k) ==
    Portal([act |-> "scale", kind |-> "Workload", name |-> n, replicas |-> k])
Rollout(n) == Portal(Op("rollout", "Workload", n))
ApplyScheduled(kind, n, c) ==
    Portal([act |-> "schedule", kind |-> kind, name |-> n, command |-> c])
DeleteScheduled(kind, n) == Portal(Op("delete", kind, n))

\* resource_rollback: the image and replicas of a stored revision, or their
\* defaults, are applied to the workload of that name.
Rollback(kind, n, rev) ==
    /\ rev \in revisions[kind][n]
    /\ IF kind = "Workload" THEN Apply(n, rev.image, rev.replicas) ELSE Apply(n, Plain, 1)

\* resource_op_apply: the resource plane only.
Direct(op) ==
    /\ Serving
    /\ direct < MaxDirect
    /\ direct' = direct + 1
    /\ Upserts(op) \/ Exists(manifest, op)
    /\ manifest' = ManifestAfter(manifest, op)
    /\ revisions' = [revisions EXCEPT ![op.kind][op.name] = @ \cup {BodyAfter(manifest, op)}]
    /\ UNCHANGED <<running, registered, journalVars, pending, restarts>>

DirectApply(n, image, k) == Direct(ApplyOp(n, image, k))
DirectDelete(kind, n) == Direct(Op("delete", kind, n))

-----------------------------------------------------------------------------
\* A process dies by itself.
ReplicaDies(n) ==
    /\ Serving
    /\ running[n] # None
    /\ \E i \in DOMAIN running[n].replicas :
          /\ running[n].replicas[i].alive
          /\ running' = [running EXCEPT ![n].replicas[i].alive = FALSE]
    /\ UNCHANGED <<manifest, revisions, registered, journalVars, pending, direct, restarts>>

\* The restart sweep of the node loop, for every workload.
Sweep ==
    /\ Serving
    /\ \E ok \in [Name -> SUBSET Place] :
          running' = [n \in Name |-> IF running[n] = None THEN None ELSE Restarted(running[n], ok[n])]
    /\ UNCHANGED <<manifest, revisions, registered, journalVars, pending, direct, restarts>>

\* The node restarts: memory and processes are gone, the journal is not, and
\* with the memory what the journal was behind on.
Restart ==
    /\ restarts < MaxRestarts
    /\ restarts' = restarts + 1
    /\ manifest' = NoManifest
    /\ revisions' = [k \in Kind |-> [n \in Name |-> {}]]
    /\ running' = [n \in Name |-> None]
    /\ registered' = [n \in Name |-> None]
    /\ pending' = journal
    /\ behind' = {}
    /\ UNCHANGED <<journal, missed, direct>>

\* apply_replayed; an operation that is refused now is dropped.
Replay ==
    /\ pending # <<>>
    /\ pending' = Tail(pending)
    /\ LET op == Head(pending)
       IN IF Upserts(op) \/ Exists(manifest, op) THEN Perform(op)
          ELSE UNCHANGED <<manifest, revisions, running, registered>>
    /\ UNCHANGED <<journalVars, direct, restarts>>

Next ==
    \/ \E n \in Name :
          \/ \E i \in Image \cup {Plain}, k \in Count : Apply(n, i, k) \/ DirectApply(n, i, k)
          \/ \E i \in Image \cup {Plain} : Edit(n, i)
          \/ \E k \in Count : Scale(n, k)
          \/ Rollout(n)
          \/ \E kind \in Kind : \/ DirectDelete(kind, n)
                                \/ \E rev \in revisions[kind][n] : Rollback(kind, n, rev)
          \/ \E kind \in JobKind : \/ DeleteScheduled(kind, n)
                                   \/ \E c \in Command : ApplyScheduled(kind, n, c)
          \/ ReplicaDies(n)
    \/ Sweep
    \/ Restart
    \/ Replay

Spec == Init /\ [][Next]_vars

-----------------------------------------------------------------------------
TypeOK ==
    /\ manifest["Workload"] \in [Name -> Workload \cup {None}]
    /\ \A k \in JobKind : manifest[k] \in [Name -> Scheduled \cup {None}]
    /\ \A n \in Name : running[n] # None =>
          running[n].image \in Image /\ running[n].desired \in Count /\ running[n].replicas \in Seq(Replica)
    /\ registered \in [Name -> Command \cup {None}]
    /\ Len(journal) + missed \in 0..MaxOps /\ missed \in Nat /\ Len(pending) \in 0..MaxOps
    /\ behind \subseteq Kind \X Name
    /\ direct \in 0..MaxDirect /\ restarts \in 0..MaxRestarts

\* reconcile() changes image and count together: through image changes, failed
\* fetches and spawns, deaths and sweeps, every replica of a workload runs the
\* image it was last admitted with and there are never more than asked for.
ReplicasAreOfOneImage ==
    \A n \in Name : running[n] # None =>
        /\ Len(running[n].replicas) <= running[n].desired
        /\ \A i \in DOMAIN running[n].replicas : running[n].replicas[i].image = running[n].image

\* The manifests after each operation of a journal.
Folded(ops) ==
    LET After[i \in 0..Len(ops)] ==
            IF i = 0 THEN NoManifest ELSE ManifestAfter(After[i - 1], ops[i])
    IN After

\* Every portal handler journals what it changes: as long as nothing came over
\* the resource-op tier, which records nothing, a manifest the node serves is
\* the one its journal folds back to and a restart does not change it, unless
\* an append about it failed and no whole body was recorded for it since.
JournalTellsManifests ==
    Serving /\ direct = 0 =>
        \A k \in Kind, n \in Name :
            <<k, n>> \notin behind => manifest[k][n] = Folded(journal)[Len(journal)][k][n]

\* resource_delete_cronjob, "a deleted CronJob/Job stops firing": under the
\* same condition a name all of whose scheduled manifests are deleted is not
\* registered, across the two kinds that share the name and across restarts.
\* A deletion that was not recorded is undone whole by a restart, manifest and
\* registration together.
DeletedStopsFiring ==
    \A n \in Name :
        /\ Serving /\ direct = 0
        /\ \A k \in JobKind : manifest[k][n] # None => manifest[k][n].deleted
        => registered[n] = None

\* The supervised replicas of a name all run the image that was admitted
\* last, never more of them than asked for.
ReplicaInv == TypeOK /\ ReplicasAreOfOneImage
=============================================================================
