----------------------------- MODULE Controller -----------------------------
(***************************************************************************)
(* crates/pillar-controller on top of the lease cluster.  A peer runs a    *)
(* controller under its node subkey: authorize() passes every gate and     *)
(* gives the right to fetch one image, run() checks the fetched bytes and  *)
(* starts the workload, and a deployment restarts what died.  Between the  *)
(* two the lease may be released and the register lost; neither run() nor  *)
(* a restart asks again.                                                   *)
(*                                                                         *)
(* A peer's node identifier is the peer itself, as NodeSubkey::node_id.    *)
(***************************************************************************)
EXTENDS LeaseCluster, Sequences

CONSTANTS
    Primary,    \* user primaries that may certify subkeys
    Workload,   \* declared: [name, target_node, image, effect, policy of its stream]
    Image,      \* contents a fetch may return
    MaxReplicas \* bound on started workloads

ControllerAssumption ==
    /\ Peer \subseteq Candidate
    /\ NoNode \notin Primary
    /\ MaxReplicas \in Nat
    /\ Workload \subseteq [name : {w.name : w \in Workload}, target_node : Peer, image : Image,
                           effect : {"Exclusive", "Convergent"}, policy : {"Strict", "Relaxed"}]

VARIABLES
    registered,  \* primaries the Registry knows
    signed_by,   \* signed_by[n]: the primary whose certificate was filed last
    granted,     \* subkeys that hold workload:run
    fetches,     \* AdmittedFetch values under way: [node, spec, epoch]
    replicas     \* the deployment: started workloads in order, with their process

identityVars == <<registered, signed_by, granted>>

controllerVars == <<identityVars, fetches, replicas>>

Fetch == [node : Peer, spec : Workload, epoch : Epoch]

Replica == [run : Fetch, image : Image, alive : BOOLEAN]

ControllerTypeOK ==
    /\ registered \subseteq Primary /\ granted \subseteq Peer
    /\ signed_by \in [Peer -> Primary \cup {NoNode}]
    /\ fetches \subseteq Fetch
    /\ replicas \in Seq(Replica)

ControllerInit ==
    /\ registered = {} /\ granted = {}
    /\ signed_by = [n \in Peer |-> NoNode]
    /\ fetches = {}
    /\ replicas = <<>>

-----------------------------------------------------------------------------
\* Identity and capabilities.

\* Registry::register.
RegisterPrimary(u) ==
    /\ registered' = registered \cup {u}
    /\ UNCHANGED <<signed_by, granted, fetches, replicas>>

\* Registry::issue_subkey with an authentic certificate: the last one filed
\* is the one that counts, whoever signed it.
IssueSubkey(n, u) ==
    /\ signed_by' = [signed_by EXCEPT ![n] = u]
    /\ UNCHANGED <<registered, granted, fetches, replicas>>

\* Registry::verify; handshake() notes the subkey when this holds, a note no
\* decision reads.
Verify(n) == signed_by[n] \in registered

\* CapabilityRegistry::grant of workload:run.
GrantRun(n) ==
    /\ granted' = granted \cup {n}
    /\ UNCHANGED <<registered, signed_by, fetches, replicas>>

\* CapabilityRegistry::authorize.
Authorized(n) == Verify(n) /\ n \in granted

\* ViewPolicy::admits.
PolicyAdmits(policy, effect) == policy = "Strict" \/ effect = "Convergent"

-----------------------------------------------------------------------------
\* Reconciling a declared workload.

\* Mutant of Fenced: any holder of the epoch will do.
FencedByAnyHolder(n, w, e) == w.effect = "Exclusive" => register[n].holders[e] # NoNode

\* The fence of an exclusive effect: the node holds the epoch in its own register.
Fenced(n, w, e) == w.effect = "Exclusive" => register[n].holders[e] = n

\* ResourceReconciler::authorize through Controller::authorize_fetch; the
\* first gate that refuses leaves everything as it was.
AuthorizeFetch(n, w, e) ==
    /\ Authorized(n)
    /\ w.target_node = n
    /\ PolicyAdmits(w.policy, w.effect)
    /\ Fenced(n, w, e)
    /\ fetches' = fetches \cup {[node |-> n, spec |-> w, epoch |-> e]}
    /\ UNCHANGED <<identityVars, replicas>>

\* AdmittedFetch::run with the bytes a peer sent, then spawn_process: wrong
\* bytes and a failed spawn use the authorisation up all the same.
Run(f, bytes, spawns) ==
    /\ Len(replicas) < MaxReplicas
    /\ fetches' = fetches \ {f}
    /\ replicas' = IF bytes = f.spec.image /\ spawns
                   THEN Append(replicas, [run |-> f, image |-> bytes, alive |-> TRUE])
                   ELSE replicas
    /\ UNCHANGED identityVars

\* A supervised process ends by itself.
Exit(i) ==
    /\ replicas[i].alive
    /\ replicas' = [replicas EXCEPT ![i].alive = FALSE]
    /\ UNCHANGED <<identityVars, fetches>>

\* Deployment::reconcile_restarts under RestartPolicy::Always: in order, up to
\* the first replica whose restart fails; restart() runs the staged file again.
\* Under Never the pass changes nothing.
ReconcileRestarts(upTo) ==
    /\ replicas' = [i \in DOMAIN replicas |->
                       IF i <= upTo THEN [replicas[i] EXCEPT !.alive = TRUE] ELSE replicas[i]]
    /\ UNCHANGED <<identityVars, fetches>>

ControllerStep ==
    \/ \E u \in Primary : RegisterPrimary(u) \/ \E n \in Peer : IssueSubkey(n, u)
    \/ \E n \in Peer : GrantRun(n)
    \/ \E n \in Peer, w \in Workload, e \in Epoch : AuthorizeFetch(n, w, e)
    \/ \E f \in fetches, b \in Image, s \in BOOLEAN : Run(f, b, s)
    \/ \E i \in DOMAIN replicas : Exit(i) \/ ReconcileRestarts(i)

ControllersNext ==
    \/ Next /\ UNCHANGED controllerVars
    \/ ControllerStep /\ UNCHANGED vars

ControllersSpec == Init /\ ControllerInit /\ [][ControllersNext]_<<vars, controllerVars>>

-----------------------------------------------------------------------------
\* Whatever runs as a fenced singleton was authorised by an award of its epoch
\* to its node, although the award is never looked at again.
RunsUnderAward ==
    \A i \in DOMAIN replicas :
        LET r == replicas[i].run
        IN r.spec.effect = "Exclusive" => r.node \in won[r.epoch]

\* So one epoch never has fenced workloads of two nodes, whatever was
\* declared, released, restarted or forgotten in between: no split brain.
NoSplitBrain ==
    \A i, j \in DOMAIN replicas :
        LET r == replicas[i].run
            q == replicas[j].run
        IN (r.spec.effect = "Exclusive" /\ q.spec.effect = "Exclusive" /\ r.epoch = q.epoch)
           => r.node = q.node

\* What runs is what was declared, under a stream that admits it.
RunsAsDeclared ==
    \A i \in DOMAIN replicas :
        LET s == replicas[i].run.spec
        IN replicas[i].image = s.image /\ (s.effect = "Exclusive" => s.policy = "Strict")

\* What a fetch under way carries over to run(), where nothing is asked again:
\* the award and the stream's policy were looked at when it was authorised.
FetchesUnderAward ==
    \A f \in fetches :
        f.spec.effect = "Exclusive" => f.node \in won[f.epoch] /\ f.spec.policy = "Strict"

\* A fenced workload only ever runs under an award of its epoch to its node, so
\* no epoch has two of them apart; and images are as declared (authorize(),
\* run(), reconcile_restarts()).
ControllerInv ==
    /\ ControllerTypeOK
    /\ FetchesUnderAward
    /\ RunsUnderAward
    /\ NoSplitBrain
    /\ RunsAsDeclared
=============================================================================
