--------------------------- MODULE TrustAuthority ---------------------------
(***************************************************************************)
(* The web of trust of crates/pillar-wot-authority, the fenced actors that *)
(* act on it and the decider of crates/pillar-rbac over it, as driven by   *)
(* `pillar trust` and `pillar revoke`                                      *)
(* (crates/pillar-cli/identity_trust_cli.rs).                              *)
(*                                                                         *)
(* A trust state is a record of the edges and the three kinds of           *)
(* revocation, so that a state can be compared with the one after it.      *)
(* `seen` is what was revoked when an actor last refreshed; the program    *)
(* keeps only its count.  Explicit grants and policies are arguments of    *)
(* the decider; targets by label or resource class, which read nothing but *)
(* the request, are left to All.                                           *)
(***************************************************************************)
EXTENDS Integers, SequencesExt

CONSTANTS
    Node, Owner,
    MaxDepth,       \* max_depth, the owner's budget
    Cert,           \* the certifications that may be signed
    Orders,         \* orders in which a hash set of them may be visited
    Actor,          \* fenced actors
    Policy,         \* policy events: target node or group, or All
    All,
    MaxRevocations  \* bound on revocation facts

TrustAssumption ==
    /\ Owner \in Node
    /\ MaxDepth \in Nat
    /\ Cert \subseteq [signer : Node, subject : Node, level : Nat]
    /\ Orders # {}
    /\ \A o \in Orders : o \in Seq(Cert) /\ Len(o) = Cardinality(Cert) /\ Range(o) = Cert
    /\ All \notin Node

VARIABLES
    trust,      \* WotAuthority
    mark,       \* the watermark of each FencedActor
    seen

vars == <<trust, mark, seen>>

NoTrust == [edges |-> {}, keys |-> {}, pairs |-> {}, direct |-> {}]

Revoked(t) == <<t.keys, t.pairs, t.direct>>

Init ==
    /\ trust = NoTrust
    /\ mark = [n \in Actor |-> 0]
    /\ seen = [n \in Actor |-> Revoked(NoTrust)]

-----------------------------------------------------------------------------
(* Reachability. *)

\* valid_edges()
Valid(t) ==
    {e \in t.edges : /\ {e.signer, e.subject} \cap t.keys = {}
                     /\ <<e.signer, e.subject>> \notin t.pairs}

Least(a, b) == IF a < b THEN a ELSE b
Greatest(a, b) == IF a > b THEN a ELSE b

\* What an edge of a signer with this budget grants.
Granted(budget, level) == Least(budget - 1, level)

\* One edge of a round; -1 stands for a node without an entry.
Relaxed(best, e) ==
    IF best[e.signer] <= 0
    THEN best
    ELSE [best EXCEPT ![e.subject] = Greatest(@, Granted(best[e.signer], e.level))]

\* One round over the edges in some order, of which the valid ones count.
Round(best, order, valid) ==
    LET After[i \in 0..Len(order)] ==
            IF i = 0 THEN best
            ELSE IF order[i] \in valid THEN Relaxed(After[i - 1], order[i]) ELSE After[i - 1]
    IN After[Len(order)]

\* Mutant of Rounds: one round is enough.
RoundsOnce(best, order, valid, budget) == Round(best, order, valid)

\* The rounds of the fixpoint; a round without a change leaves the next ones
\* without a change.
Rounds(best, order, valid, budget) ==
    LET After[k \in 0..budget + 1] ==
            IF k = 0 THEN best ELSE Round(After[k - 1], order, valid)
    IN After[budget + 1]

\* reachable_depth_from() for every node, and reachable_depth() with the owner
\* for root; -1 stands for None.
DepthsFrom(t, root, budget, order) ==
    LET best == Rounds([x \in Node |-> IF x = root THEN budget ELSE -1], order, Valid(t), budget)
    IN [n \in Node |-> IF {n, root} \cap t.keys # {} THEN -1 ELSE IF n = root THEN budget ELSE best[n]]

\* Any order gives the same depths, see DepthIsBestPath.
Depths(t) == DepthsFrom(t, Owner, MaxDepth, CHOOSE o \in Orders : TRUE)

IsGroupMember(t, parent, n) == \E e \in Valid(t) : e.signer = parent /\ e.subject = n

IsAuthoritative(t, n) == n \notin t.direct /\ Depths(t)[n] >= 0

RelayMinLevel == 2

CanRelay(t, n) ==
    /\ IsAuthoritative(t, n)
    /\ \E e \in Valid(t) : e.subject = n /\ e.level >= RelayMinLevel

-----------------------------------------------------------------------------
(* The decider. *)

TargetApplies(t, target, n) == target \in {All, n} \/ IsGroupMember(t, target, n)

\* The policies that apply and are met by a subject of this depth.
Satisfied(t, policies, n) ==
    LET depth == Depths(t)[n]
    IN {p \in policies : TargetApplies(t, p.target, n) /\ depth >= p.threshold}

\* explicit_grant(): of the grants for the pair a deny counts first.
ExplicitGrant(effects) ==
    IF "deny" \in effects THEN "deny" ELSE IF "allow" \in effects THEN "allow" ELSE "none"

\* decide(); steppedUp says that the capability needs no step-up or the
\* request carries a fresh one.
Decide(t, policies, effects, n, steppedUp) ==
    CASE ExplicitGrant(effects) = "deny"  -> FALSE
      [] ExplicitGrant(effects) = "allow" -> steppedUp
      [] ExplicitGrant(effects) = "none"  -> Satisfied(t, policies, n) # {} /\ steppedUp

\* explain(): the rung that produced the verdict.
Explain(t, policies, effects, n, steppedUp) ==
    CASE ExplicitGrant(effects) = "deny"  -> "explicit_deny"
      [] ExplicitGrant(effects) = "allow" -> IF steppedUp THEN "explicit_allow" ELSE "step_up_required"
      [] ExplicitGrant(effects) = "none"  ->
            IF Satisfied(t, policies, n) = {} THEN "deny_all"
            ELSE IF steppedUp THEN "depth_default" ELSE "step_up_required"

-----------------------------------------------------------------------------
(* Operations. *)

\* rev_count()
RevCount(t) == Cardinality(t.keys) + Cardinality(t.pairs) + Cardinality(t.direct)

Change(t) == trust' = t /\ UNCHANGED <<mark, seen>>

\* issue_edge(), by `pillar trust` and by whoever admits a subject.
IssueEdge(e) == Change([trust EXCEPT !.edges = @ \cup {e}])

MayRevoke == RevCount(trust) < MaxRevocations

RevokeKey(n) == MayRevoke /\ Change([trust EXCEPT !.keys = @ \cup {n}])

\* Mutant of RevokeEdge: the newest revocation replaces the others.
RevokeEdgeOnly(e) == MayRevoke /\ Change([trust EXCEPT !.pairs = {<<e.signer, e.subject>>}])

\* revoke_edge() names the endpoints: every level between them is revoked.
RevokeEdge(e) == MayRevoke /\ Change([trust EXCEPT !.pairs = @ \cup {<<e.signer, e.subject>>}])

RevokeGrant(n) == MayRevoke /\ Change([trust EXCEPT !.direct = @ \cup {n}])

Refresh(a) ==
    /\ mark' = [mark EXCEPT ![a] = RevCount(trust)]
    /\ seen' = [seen EXCEPT ![a] = Revoked(trust)]
    /\ UNCHANGED trust

\* The conditions of FencedActor::act(), which changes nothing.
CanAct(a, n) == mark[a] = RevCount(trust) /\ IsAuthoritative(trust, n)

Next ==
    \/ \E e \in Cert : IssueEdge(e) \/ RevokeEdge(e)
    \/ \E n \in Node : RevokeKey(n) \/ RevokeGrant(n)
    \/ \E a \in Actor : Refresh(a)

Spec == Init /\ [][Next]_vars

-----------------------------------------------------------------------------
(* Properties. *)

\* Every budget at which some chain of at most k valid edges arrives.
Arrivals(t, root, budget) ==
    LET After[k \in 0..budget] ==
            IF k = 0 THEN {<<root, budget>>}
            ELSE After[k - 1] \cup
                 {<<p[2].subject, Least(p[1] - 1, p[2].level)>> : p \in
                    {x \in (1..budget) \X Valid(t) : <<x[2].signer, x[1]>> \in After[k - 1]}}
    IN After[budget]

BestPaths(t, root, budget) ==
    LET arrivals == Arrivals(t, root, budget)
        budgets(n) == {a[2] : a \in {p \in arrivals : p[1] = n}}
    IN [n \in Node |-> IF {n, root} \cap t.keys # {} \/ budgets(n) = {} THEN -1 ELSE Max(budgets(n))]

\* reachable_depth() promises "the max over every path reaching it": the
\* rounds find it from every root, in whatever order a HashSet yields edges.
DepthIsBestPath ==
    \A root \in Node :
        LET best == BestPaths(trust, root, MaxDepth)
        IN \A o \in Orders : DepthsFrom(trust, root, MaxDepth, o) = best

\* Revocations are "authority-REDUCING": none of the three kinds ever gives
\* anyone depth, membership of a group, authority or relay rights.
RevocationOnlyReduces ==
    [][Revoked(trust') # Revoked(trust) =>
         LET before == Depths(trust)
             after == Depths(trust')
         IN \A n \in Node :
            /\ after[n] <= before[n]
            /\ IsAuthoritative(trust', n) => IsAuthoritative(trust, n)
            /\ CanRelay(trust', n) => CanRelay(trust, n)
            /\ \A g \in Node : IsGroupMember(trust', g, n) => IsGroupMember(trust, g, n)]_vars

\* Delegation narrows: whoever gains depth by an edge ends with less than its
\* signer has, however far the gain spreads, so nobody without depth can give
\* any and a leaf cannot extend the graph.
DelegationNarrows ==
    [][LET before == Depths(trust)
           after == Depths(trust')
       IN \A e \in trust'.edges \ trust.edges, n \in Node :
             after[n] > before[n] => after[n] < before[e.signer]]_vars

\* The fence of act(): an actor compares counts only, and still whoever may
\* act has seen every revocation there is.
ActorHasSeenAll ==
    \A a \in Actor, n \in Node :
        CanAct(a, n) => seen[a] = Revoked(trust)

\* explain() is "never a second, divergent explanation path": for every
\* policy set and request it names an allowing rung exactly when decide() allows.
ExplainMatchesDecide ==
    \A policies \in SUBSET Policy, effects \in SUBSET {"allow", "deny"}, n \in Node, steppedUp \in BOOLEAN :
        Decide(trust, policies, effects, n, steppedUp)
            <=> Explain(trust, policies, effects, n, steppedUp) \in {"explicit_allow", "depth_default"}
=============================================================================
