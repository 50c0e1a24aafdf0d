----------------------------- MODULE CellGroup -----------------------------
(***************************************************************************)
(* A cell of crates/pillar-cells/src/lib.rs: its members, the group key as *)
(* a number of epochs each sealed to a set of members, the objects placed  *)
(* under an epoch, the grants of users of other cells, and the pointer to  *)
(* a published root.  The actions are the calls that succeed; `pillar cell *)
(* rotate-key` is BeginRotate and EndRotate with nothing in between.       *)
(***************************************************************************)
EXTENDS Integers

CONSTANTS
    Node, Object,
    Class,      \* visibility: a kind, "public", "cell" or "sealed", and the nodes it is sealed to
    User, Mode, Tag, All, Root,
    Nothing,
    MaxEpoch    \* bound on the epochs of the key

Public == [kind |-> "public", to |-> {}]
Placement == [class : Class \cup {Public}, epoch : 0..MaxEpoch, tags : SUBSET Tag]

CellAssumption == MaxEpoch \in Nat /\ "ReadWrite" \in Mode /\ Nothing \notin Placement

VARIABLES
    members, keyEpoch, epochMembers, rotating,
    placed,     \* objects and their class, epoch and tags, Nothing when not placed
    grants,     \* triples of a user, a mode and a scope
    published, namePtr,
    known       \* history: the objects there were when a node was last a member

cellVars == <<members, keyEpoch, epochMembers, rotating, placed, grants, published, namePtr, known>>
keyVars == <<members, keyEpoch, epochMembers, rotating, known>>
sharingVars == <<grants, published, namePtr>>

CellInit ==
    /\ members = {} /\ keyEpoch = 0 /\ rotating = FALSE
    /\ epochMembers = [e \in 0..MaxEpoch |-> {}]
    /\ placed = [o \in Object |-> Nothing]
    /\ grants = {} /\ published = {} /\ namePtr = Nothing
    /\ known = [n \in Node |-> {}]

Objects == {o \in Object : placed[o] # Nothing}

\* admit(): the newcomer is sealed into the current epoch.  admit_versioned()
\* is the same for a node whose versions were negotiated.
Admit(n) ==
    /\ ~rotating /\ n \notin members
    /\ members' = members \cup {n}
    /\ epochMembers' = [epochMembers EXCEPT ![keyEpoch] = members']
    /\ UNCHANGED <<keyEpoch, rotating, placed, sharingVars, known>>

\* Mutant of Leave: the key is left for the next rotation.
LeaveWithoutRotation(n) ==
    /\ ~rotating /\ n \in members
    /\ members' = members \ {n}
    /\ known' = [known EXCEPT ![n] = Objects]
    /\ UNCHANGED <<keyEpoch, epochMembers, rotating, placed, sharingVars>>

\* leave(): the key rotates in the same call.
Leave(n) ==
    /\ ~rotating /\ n \in members
    /\ keyEpoch < MaxEpoch
    /\ members' = members \ {n}
    /\ keyEpoch' = keyEpoch + 1
    /\ epochMembers' = [epochMembers EXCEPT ![keyEpoch'] = members']
    /\ known' = [known EXCEPT ![n] = Objects]
    /\ UNCHANGED <<rotating, placed, sharingVars>>

\* begin_rotate()
BeginRotate ==
    /\ ~rotating /\ keyEpoch < MaxEpoch
    /\ rotating' = TRUE
    /\ UNCHANGED <<members, keyEpoch, epochMembers, placed, sharingVars, known>>

\* end_rotate()
EndRotate ==
    /\ rotating
    /\ keyEpoch' = keyEpoch + 1
    /\ epochMembers' = [epochMembers EXCEPT ![keyEpoch'] = members]
    /\ rotating' = FALSE
    /\ UNCHANGED <<members, placed, sharingVars, known>>

\* place_object()
PlaceObject(o, class, tags) ==
    /\ ~rotating /\ placed[o] = Nothing
    /\ placed' = [placed EXCEPT ![o] = [class |-> class, epoch |-> keyEpoch, tags |-> tags]]
    /\ UNCHANGED <<keyVars, sharingVars>>

\* node_can_decrypt()
NodeCanDecrypt(n, o) ==
    /\ placed[o] # Nothing
    /\ \/ placed[o].class.kind = "public"
       \/ placed[o].class.kind = "cell" /\ n \in epochMembers[placed[o].epoch]
       \/ placed[o].class.kind = "sealed" /\ n \in placed[o].class.to

\* add_grant() and revoke_grant()
AddGrant(g) ==
    /\ g \notin grants
    /\ grants' = grants \cup {g}
    /\ UNCHANGED <<keyVars, placed, published, namePtr>>

RevokeGrant(g) ==
    /\ g \in grants
    /\ grants' = grants \ {g}
    /\ UNCHANGED <<keyVars, placed, published, namePtr>>

\* user_can_read(), user_can_write(): an object not placed has no tags.
Covers(scope, o) == scope = All \/ (placed[o] # Nothing /\ scope \cap placed[o].tags # {})
UserCanRead(u, o) == \E g \in grants : g[1] = u /\ Covers(g[3], o)
UserCanWrite(u, o) == \E g \in grants : g[1] = u /\ g[2] = "ReadWrite" /\ Covers(g[3], o)

\* publish_root() and set_name_ptr()
PublishRoot(r) ==
    /\ r \notin published
    /\ published' = published \cup {r}
    /\ UNCHANGED <<keyVars, placed, grants, namePtr>>

SetNamePtr(r) ==
    /\ r \in published
    /\ namePtr' = r
    /\ UNCHANGED <<keyVars, placed, grants, published>>

Membership ==
    \/ \E n \in Node : Admit(n) \/ Leave(n)
    \/ BeginRotate \/ EndRotate
    \/ \E o \in Object, class \in Class : PlaceObject(o, class, {})

Sharing ==
    \/ \E o \in Object, tags \in SUBSET Tag : PlaceObject(o, Public, tags)
    \/ \E g \in User \X Mode \X ((SUBSET Tag \ {{}}) \cup {All}) : AddGrant(g) \/ RevokeGrant(g)
    \/ \E r \in Root : PublishRoot(r) \/ SetNamePtr(r)

CellSpec == CellInit /\ [][Membership \/ Sharing]_cellVars

-----------------------------------------------------------------------------
\* What the cell and its key are; a rotation begun has an epoch to move to.
CellTypeOK ==
    /\ members \subseteq Node
    /\ keyEpoch \in 0..MaxEpoch
    /\ epochMembers \in [0..MaxEpoch -> SUBSET Node]
    /\ rotating \in BOOLEAN /\ (rotating => keyEpoch < MaxEpoch)
    /\ placed \in [Object -> Placement \cup {Nothing}]
    /\ known \in [Node -> SUBSET Object]

\* The epoch in force is sealed to exactly the members, and nothing is placed
\* under an epoch still to come.
KeyFollowsMembers ==
    /\ epochMembers[keyEpoch] = members
    /\ \A o \in Objects : placed[o].epoch <= keyEpoch

\* Forward secrecy: a node outside the cell reads only those objects sealed to
\* the cell that were there when it last was a member, however often it, or
\* others, came and went.
LeaversFallBehind ==
    \A n \in Node \ members : \A o \in Objects :
        placed[o].class.kind = "cell" /\ NodeCanDecrypt(n, o) => o \in known[n]

\* Members read what is sealed under the epoch in force, latecomers included,
\* also while a rotation is under way.
MembersReadCurrent ==
    \A n \in members : \A o \in Objects :
        placed[o].class.kind = "cell" /\ placed[o].epoch = keyEpoch => NodeCanDecrypt(n, o)

\* Whoever writes may read.
WritersRead == \A u \in User, o \in Object : UserCanWrite(u, o) => UserCanRead(u, o)

\* The cell: its key follows its members.
CellInv == CellTypeOK /\ KeyFollowsMembers /\ LeaversFallBehind /\ MembersReadCurrent /\ WritersRead
=============================================================================
