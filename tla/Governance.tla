----------------------------- MODULE Governance -----------------------------
(***************************************************************************)
(* The signed control operations of a node (crates/pillar-cli,             *)
(* web_serve.rs, control_op): break-glass recovery by quorum, invitations, *)
(* trust edges, RBAC grants, roles and groups, login observations, and the *)
(* queue of bootstrap requests (crates/pillar-bootstrap, request.rs).      *)
(*                                                                         *)
(* An operation of a signer the trust graph does not reach changes         *)
(* nothing.  Any other one first appends a signed act and then looks       *)
(* whether what it names exists: `acts` also holds the acts of refused     *)
(* operations, each kind once.  Listings, which change nothing, and the    *)
(* wording of the answers are left out.                                    *)
(***************************************************************************)
EXTENDS Integers, SequencesExt

CONSTANTS
    Owner,          \* the root of the trust graph
    Handle,         \* users, and the node identities they act under
    MaxDepth,       \* the owner's budget
    Level,          \* levels an edge may be signed with
    Cap,            \* capabilities, each a sequence of its colon-separated parts
    Role, Group,
    Place,          \* where logins come from: an origin at a point of a line
    MaxSpeed,       \* the distance one tick may cover
    MaxClock,       \* bound on the time of an observation
    MaxQuorum,      \* bound on the threshold of a recovery
    MaxActs,        \* bound on the kinds of acts in the log
    MaxRequests,    \* bound on bootstrap requests
    None

Node == {Owner} \cup Handle

\* An open recovery.
Quorum == [m : Nat, approvers : SUBSET Node]

GovernanceAssumption ==
    /\ Owner \notin Handle /\ None \notin Node
    /\ {MaxDepth, MaxSpeed, MaxClock, MaxQuorum, MaxActs, MaxRequests} \subseteq Nat
    /\ Level \subseteq Nat /\ Place \subseteq Int
    /\ IsFiniteSet(Handle) /\ IsFiniteSet(Level)
    /\ \A c \in Cap : c \in Seq(Range(c))
    /\ None \notin Quorum /\ None \notin [roles : SUBSET Role, members : SUBSET Handle]

VARIABLES
    edges,      \* the trust graph: certifications
    acts,       \* act_log: author, verb and subject of every signed act
    users,      \* the IAM records
    temp,       \* users whose credential is a one-time password
    recoveries, \* open recoveries: threshold and approvers
    asked,      \* thresholds asked for since the recovery was opened
    grants,     \* the rbac_grants documents, by document id
    roles, groups,
    history,    \* the last login observation of a user
    origins,    \* every origin observed for a user
    requests,   \* the bootstrap requests in the order of their ids
    deciders,   \* the queue's members
    sealed,     \* the cell keys sealed: request, receiver, approver
    escrowed    \* user requests whose offer is escrowed

trustVars == <<edges, users, temp>>
recoveryVars == <<recoveries, asked>>
iamVars == <<grants, roles, groups>>
loginVars == <<history, origins>>
queueVars == <<requests, deciders, sealed, escrowed>>
govVars == <<acts, trustVars, recoveryVars, iamVars, loginVars, queueVars>>

GovInit ==
    /\ edges = {} /\ users = {} /\ temp = {} /\ acts = {}
    /\ recoveries = [h \in Handle |-> None] /\ asked = [h \in Handle |-> {}]
    /\ grants = <<>>
    /\ roles = [r \in Role |-> None] /\ groups = [g \in Group |-> None]
    /\ history = [h \in Handle |-> None] /\ origins = [h \in Handle |-> {}]
    /\ requests = <<>> /\ deciders = {} /\ sealed = {} /\ escrowed = {}

-----------------------------------------------------------------------------
(* Who may act. *)

Cert == [signer : Node, subject : Node, level : Level \cup {0}]
Trust == [edges |-> edges, keys |-> {}, pairs |-> {}, direct |-> {}]

T == INSTANCE TrustAuthority WITH
        Orders <- {FoldSet(LAMBDA e, seq : Append(seq, e), <<>>, Cert)},
        Actor <- {}, All <- None, MaxRevocations <- 0,
        Policy <- {[target |-> None, threshold |-> 0]},
        trust <- Trust, mark <- <<>>, seen <- <<>>

Depth(n) == T!Depths(Trust)[n]

\* The decision of perform_signed_act(): any depth will do.
MayAct(n) == T!Decide(Trust, {[target |-> None, threshold |-> 0]}, {}, n, TRUE)

Verb == {"recovery_start", "recovery_approve", "invite", "reset", "edge", "grant", "role", "group",
         "impossible_travel", "new_origin"}

Act(n, verb, on) == [by |-> n, verb |-> verb, on |-> on]

\* Mutant of Signed: the decision is skipped.
SignedByAnyone(n, verbs, on) ==
    /\ acts' = acts \cup {Act(n, v, on) : v \in verbs}
    /\ Cardinality(acts') <= MaxActs

\* perform_signed_act(), for each of the verbs in turn.
Signed(n, verbs, on) ==
    /\ MayAct(n)
    /\ acts' = acts \cup {Act(n, v, on) : v \in verbs}
    /\ Cardinality(acts') <= MaxActs

-----------------------------------------------------------------------------
(* Recovery. *)

\* Mutant of RecoveryStart: the last threshold asked for counts.
RecoveryStartAnew(n, h, m) ==
    /\ h \in users
    /\ Signed(n, {"recovery_start"}, h)
    /\ recoveries' = [recoveries EXCEPT ![h] =
            [m |-> m, approvers |-> IF @ = None THEN {} ELSE @.approvers]]
    /\ asked' = [asked EXCEPT ![h] = @ \cup {m}]
    /\ UNCHANGED <<trustVars, iamVars, loginVars, queueVars>>

\* RecoveryOp::Start: opens a recovery, or raises the threshold of an open one.
RecoveryStart(n, h, m) ==
    /\ h \in users
    /\ Signed(n, {"recovery_start"}, h)
    /\ recoveries' = [recoveries EXCEPT ![h] =
            IF @ = None THEN [m |-> m, approvers |-> {}]
            ELSE [m |-> T!Greatest(@.m, m), approvers |-> @.approvers]]
    /\ asked' = [asked EXCEPT ![h] = @ \cup {m}]
    /\ UNCHANGED <<trustVars, iamVars, loginVars, queueVars>>

\* RecoveryOp::Approve: the approval that completes the quorum gives the user
\* a one-time password and closes the recovery.
RecoveryApprove(n, h) ==
    /\ recoveries[h] # None
    /\ Signed(n, {"recovery_approve"}, h)
    /\ LET approvers == recoveries[h].approvers \cup {n}
       IN IF Cardinality(approvers) < recoveries[h].m
          THEN /\ recoveries' = [recoveries EXCEPT ![h].approvers = approvers]
               /\ UNCHANGED <<asked, temp>>
          ELSE /\ temp' = temp \cup {h}
               /\ recoveries' = [recoveries EXCEPT ![h] = None]
               /\ asked' = [asked EXCEPT ![h] = {}]
    /\ UNCHANGED <<edges, users, iamVars, loginVars, queueVars>>

-----------------------------------------------------------------------------
(* Users, trust edges and grants. *)

\* UserOp::Invite: an invited user is reached from the owner at level 0.
Invite(n, h) ==
    /\ Signed(n, {"invite"}, h)
    /\ IF h \in users
       THEN UNCHANGED trustVars
       ELSE /\ users' = users \cup {h}
            /\ temp' = temp \cup {h}
            /\ edges' = edges \cup {[signer |-> Owner, subject |-> h, level |-> 0]}
    /\ UNCHANGED <<recoveryVars, iamVars, loginVars, queueVars>>

\* UserOp::SetPassword with force off: the user has a credential of its own.
SetPassword(n, h) ==
    /\ Signed(n, {"reset"}, h)
    /\ temp' = temp \ {h}
    /\ UNCHANGED <<edges, users, recoveryVars, iamVars, loginVars, queueVars>>

\* TrustOp::Edge
Edge(n, h, level) ==
    /\ Signed(n, {"edge"}, h)
    /\ edges' = edges \cup {[signer |-> n, subject |-> h, level |-> level]}
    /\ UNCHANGED <<users, temp, recoveryVars, iamVars, loginVars, queueVars>>

\* The id of a grant's document joins its two names with a colon.
GrantId(h, cap) == <<h>> \o cap

\* TrustOp::GrantAdd: the node's write clock only rises, so the last write of
\* a document is the one that is read.
GrantAdd(n, h, cap, effect) ==
    /\ Signed(n, {"grant"}, h)
    /\ grants' = [id \in DOMAIN grants \cup {GrantId(h, cap)} |->
                    IF id = GrantId(h, cap) THEN [subject |-> h, cap |-> cap, effect |-> effect]
                    ELSE grants[id]]
    /\ UNCHANGED <<roles, groups, trustVars, recoveryVars, loginVars, queueVars>>

\* TrustOp::GrantRm writes a tombstone, whether or not there is a grant.
GrantRm(n, h, cap) ==
    /\ Signed(n, {"grant"}, h)
    /\ grants' = [id \in DOMAIN grants \ {GrantId(h, cap)} |-> grants[id]]
    /\ UNCHANGED <<roles, groups, trustVars, recoveryVars, loginVars, queueVars>>

\* TrustOp::GrantCheck and Caps: the decider over the stored grants alone.
GrantCheck(h, cap) ==
    T!Decide(Trust, {}, {g.effect : g \in {x \in Range(grants) : x.subject = h /\ x.cap = cap}},
             h, TRUE)

-----------------------------------------------------------------------------
(* Roles and groups. *)

RoleAdd(n, r, caps) ==
    /\ Signed(n, {"role"}, r)
    /\ roles' = [roles EXCEPT ![r] = caps]
    /\ UNCHANGED <<grants, groups, trustVars, recoveryVars, loginVars, queueVars>>

RoleRm(n, r) ==
    /\ Signed(n, {"role"}, r)
    /\ roles' = [roles EXCEPT ![r] = None]
    /\ UNCHANGED <<grants, groups, trustVars, recoveryVars, loginVars, queueVars>>

\* Adding a group that exists replaces it, and its members are gone.
GroupAdd(n, g, rs) ==
    /\ Signed(n, {"group"}, g)
    /\ groups' = [groups EXCEPT ![g] = [roles |-> rs, members |-> {}]]
    /\ UNCHANGED <<grants, roles, trustVars, recoveryVars, loginVars, queueVars>>

GroupAddMember(n, g, h) ==
    /\ Signed(n, {"group"}, g)
    /\ groups' = IF groups[g] = None THEN groups
                 ELSE [groups EXCEPT ![g].members = @ \cup {h}]
    /\ UNCHANGED <<grants, roles, trustVars, recoveryVars, loginVars, queueVars>>

GroupRm(n, g) ==
    /\ Signed(n, {"group"}, g)
    /\ groups' = [groups EXCEPT ![g] = None]
    /\ UNCHANGED <<grants, roles, trustVars, recoveryVars, loginVars, queueVars>>

-----------------------------------------------------------------------------
(* Login observations. *)

Distance(a, b) == IF a < b THEN b - a ELSE a - b

\* A login that the last observed one cannot have reached in time; one that
\* is not later must be at the same place.
ImpossibleTravel(prev, place, at) ==
    IF at > prev.at THEN Distance(prev.place, place) > MaxSpeed * (at - prev.at)
    ELSE place # prev.place

\* login_observe(): the anomalies are signed before the observation is kept.
\* An origin is named by its place.
LoginObserve(n, h, place, at) ==
    LET travel == history[h] # None /\ ImpossibleTravel(history[h], place, at)
        new == origins[h] # {} /\ place \notin origins[h]
    IN /\ Depth(n) >= 0
       /\ Signed(n, {v \in {"impossible_travel", "new_origin"} :
                        IF v = "new_origin" THEN new ELSE travel}, h)
       /\ history' = [history EXCEPT ![h] = [place |-> place, at |-> at]]
       /\ origins' = [origins EXCEPT ![h] = @ \cup {place}]
       /\ UNCHANGED <<trustVars, recoveryVars, iamVars, queueVars>>

-----------------------------------------------------------------------------
(* Bootstrap requests. *)

Request(kind, h) == [kind |-> kind, subject |-> h, state |-> "pending", approver |-> None]

\* submit(): from a member's operation or from anyone over HTTP.
Submit(kind, h) ==
    /\ Len(requests) < MaxRequests
    /\ requests' = Append(requests, Request(kind, h))
    /\ UNCHANGED <<deciders, sealed, escrowed, acts, trustVars, recoveryVars, iamVars, loginVars>>

\* The caller of a decision becomes a member of the queue even when the
\* request is decided already.
Decided(i, n, state) ==
    IF requests[i].state = "pending"
    THEN [requests EXCEPT ![i].state = state, ![i].approver = n]
    ELSE requests

\* add_member() and approve(): a node is sealed the cell key, a user's offer
\* is escrowed.
Approve(n, i) ==
    LET r == requests[i]
        fresh == r.state = "pending"
    IN /\ Depth(n) >= 0
       /\ deciders' = deciders \cup {n}
       /\ requests' = Decided(i, n, "approved")
       /\ sealed' = IF fresh /\ r.kind = "node"
                    THEN sealed \cup {[request |-> i, to |-> r.subject, by |-> n]} ELSE sealed
       /\ escrowed' = IF fresh /\ r.kind = "user" THEN escrowed \cup {i} ELSE escrowed
       /\ UNCHANGED <<acts, trustVars, recoveryVars, iamVars, loginVars>>

\* add_member() and reject()
Reject(n, i) ==
    /\ Depth(n) >= 0
    /\ deciders' = deciders \cup {n}
    /\ requests' = Decided(i, n, "rejected")
    /\ UNCHANGED <<sealed, escrowed, acts, trustVars, recoveryVars, iamVars, loginVars>>

-----------------------------------------------------------------------------
Recovery ==
    \E n \in Node, h \in Handle :
        RecoveryApprove(n, h) \/ \E m \in 1..MaxQuorum : RecoveryStart(n, h, m)

Invites == \E n \in Node, h \in Handle : Invite(n, h)

Passwords == \E n \in Node, h \in Handle : SetPassword(n, h)

Edges == \E n \in Node, h \in Handle, l \in Level : Edge(n, h, l)

Grants ==
    \E n \in Node, h \in Handle, c \in Cap :
        GrantRm(n, h, c) \/ \E e \in {"allow", "deny"} : GrantAdd(n, h, c, e)

RolesAndGroups ==
    \E n \in Node :
        \/ \E r \in Role : RoleRm(n, r) \/ \E cs \in SUBSET Cap : RoleAdd(n, r, cs)
        \/ \E g \in Group :
            \/ GroupRm(n, g)
            \/ \E rs \in SUBSET Role : GroupAdd(n, g, rs)
            \/ \E h \in Handle : GroupAddMember(n, g, h)

Logins ==
    \E n \in Node, h \in Handle, p \in Place, at \in 0..MaxClock : LoginObserve(n, h, p, at)

Requests ==
    \/ \E kind \in {"node", "user"}, h \in Handle : Submit(kind, h)
    \/ \E n \in Node, i \in DOMAIN requests : Approve(n, i) \/ Reject(n, i)

GovNext ==
    Recovery \/ Invites \/ Passwords \/ Edges \/ Grants \/ RolesAndGroups \/ Logins \/ Requests

GovSpec == GovInit /\ [][GovNext]_govVars

-----------------------------------------------------------------------------
BootstrapRequest ==
    [kind : {"node", "user"}, subject : Handle, state : {"pending", "approved", "rejected"},
     approver : Node \cup {None}]

GrantDocument == [subject : Handle, cap : Cap, effect : {"allow", "deny"}]

GovTypeOK ==
    /\ edges \subseteq Cert
    /\ acts \subseteq [by : Node, verb : Verb, on : Handle \cup Role \cup Group]
    /\ users \subseteq Handle /\ temp \subseteq Handle
    /\ recoveries \in [Handle -> Quorum \cup {None}]
    /\ asked \in [Handle -> SUBSET Nat]
    /\ origins \in [Handle -> SUBSET Place]
    /\ DOMAIN roles = Role /\ DOMAIN groups = Group
    /\ requests \in Seq(BootstrapRequest)
    /\ \A id \in DOMAIN grants : grants[id] \in GrantDocument
    /\ IsFiniteSet(acts) /\ \A h \in Handle : IsFiniteSet(origins[h])

Signers(verb, on) == {a.by : a \in {x \in acts : x.verb = verb /\ x.on = on}}

\* A recovery that is open still lacks approvals, its threshold is the largest
\* one asked for, and each approver signed for it.
RecoveriesAreShort ==
    \A h \in Handle : IF recoveries[h] = None THEN asked[h] = {} ELSE
        /\ Cardinality(recoveries[h].approvers) < recoveries[h].m
        /\ recoveries[h].m \in asked[h] /\ \A m \in asked[h] : m <= recoveries[h].m
        /\ recoveries[h].approvers \subseteq Signers("recovery_approve", h)

\* Nobody the trust graph does not reach ever signed anything.
SignersMayAct == \A a \in acts : MayAct(a.by)

\* Whatever stands was signed for.
ChangesAreSigned ==
    /\ \A h \in users : Signers("invite", h) # {}
    /\ \A e \in edges : e.signer \in Signers("edge", e.subject) \/ e.subject \in users
    /\ \A id \in DOMAIN grants : Signers("grant", grants[id].subject) # {}
    /\ \A r \in Role : roles[r] # None => Signers("role", r) # {}
    /\ \A g \in Group : groups[g] # None => Signers("group", g) # {}

\* What a grant check answers for a user is what the document under that user's
\* id says, and nobody else's document has the id.
ChecksReadTheirGrant ==
    /\ \A id \in DOMAIN grants : id = GrantId(grants[id].subject, grants[id].cap)
    /\ \A h \in Handle, cap \in Cap :
        LET id == GrantId(h, cap)
        IN GrantCheck(h, cap) <=> /\ id \in DOMAIN grants
                                  /\ grants[id] = [subject |-> h, cap |-> cap, effect |-> "allow"]

\* Every origin but the first was reported as new, and only then.
NewOriginsReported ==
    \A h \in Handle : (Signers("new_origin", h) # {}) <=> (Cardinality(origins[h]) > 1)

\* A request is decided once: exactly the approved node requests have a key
\* sealed, one, to the node that asked and by the member that approved, and
\* exactly the approved user requests an escrowed offer.
RequestsDecidedOnce ==
    /\ {s.request : s \in sealed} =
            {i \in DOMAIN requests : requests[i].kind = "node" /\ requests[i].state = "approved"}
    /\ \A s \in sealed : s.to = requests[s.request].subject /\ s.by = requests[s.request].approver
    /\ \A s, t \in sealed : s.request = t.request => s = t
    /\ escrowed =
            {i \in DOMAIN requests : requests[i].kind = "user" /\ requests[i].state = "approved"}
    /\ \A i \in DOMAIN requests : requests[i].state # "pending" => requests[i].approver \in deciders

\* The governance of a node holds together: recoveries wait for their quorum,
\* every change has its signed act, every new origin its report, and every
\* request at most one decision.
GovernanceInv ==
    /\ GovTypeOK /\ SignersMayAct /\ RecoveriesAreShort /\ ChangesAreSigned
    /\ ChecksReadTheirGrant /\ NewOriginsReported /\ RequestsDecidedOnce

\* A recovery completes only after at least as many distinct members signed an
\* approval as any of its openings asked for.
RecoveryNeedsEveryQuorumAsked ==
    [][\A h \in Handle : recoveries[h] # None /\ recoveries'[h] = None =>
        \A m \in asked[h] : Cardinality({a.by : a \in {x \in acts' :
            x.verb = "recovery_approve" /\ x.on = h}}) >= m]_govVars
=============================================================================
