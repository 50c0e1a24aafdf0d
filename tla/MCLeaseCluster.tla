--------------------------- MODULE MCLeaseCluster ---------------------------
(***************************************************************************)
(* The cluster of peers that fold the voters' grants, the controllers that *)
(* start fenced workloads under its awards, and the strict co-fold over a  *)
(* register of its own.  Co-fold and cluster share no state: a behaviour   *)
(* follows the cluster alone, the cluster under the controllers, or the    *)
(* co-fold, and what it does not follow stays in its initial state.        *)
(***************************************************************************)
EXTENDS Controller, StrictCofold, TLC

CONSTANTS c1, c2, i1, i2

VARIABLE part    \* what the behaviour follows

\* One singleton declared for either node, on a strict stream and on a relaxed one.
Workloads ==
    LET D(n, i, po) == [name |-> "w", target_node |-> n, image |-> i, effect |-> "Exclusive", policy |-> po]
    IN {D(n, i1, "Strict") : n \in {c1, c2}} \cup {D(n, i2, "Relaxed") : n \in {c1, c2}}

ASSUME ControllerAssumption
ASSUME CofoldAssumption

MCInit ==
    /\ Init /\ ControllerInit /\ CofoldInit
    /\ part \in {"leases", "controllers", "cofold"}

MCNext ==
    /\ UNCHANGED part
    /\ \/ part = "leases" /\ Next /\ UNCHANGED <<controllerVars, cofoldVars>>
       \/ part = "controllers" /\ ControllersNext /\ UNCHANGED cofoldVars
       \/ part = "cofold" /\ CofoldNext /\ UNCHANGED <<vars, controllerVars>>

MCSpec == MCInit /\ [][MCNext]_<<vars, controllerVars, cofoldVars, part>>

\* Controllers are followed through the votes on one epoch.
Bounded == part = "controllers" => \A g \in cast : g.epoch = 0

Symmetry == Permutations(Voter) \cup Permutations(Candidate) \cup Permutations(Payload)
=============================================================================
