-------------------------- MODULE KeyDistribution --------------------------
(***************************************************************************)
(* The offer ledger of crates/pillar-key-distribution: a user offers an    *)
(* escrowed key into a cell, the cell accepts, admission seals the key to  *)
(* the nodes the cell allows, and policy edits re-seal what is admitted.   *)
(* `pillar offer` (crates/pillar-cli/identity_trust_cli.rs) drives it too. *)
(*                                                                         *)
(* The offers live in a keyed store written by the ledger alone under an   *)
(* increasing clock, so the latest write decides and a set is enough.      *)
(* sealed_to is total: a record without an entry is sealed to nobody.      *)
(***************************************************************************)
CONSTANTS
    User, Cell, Node,
    Artifact,
    Root,       \* the artifacts of kind Root
    Foreign     \* nodes of other owners, fixed ground truth

ASSUME KeyDistributionAssumption ==
    /\ Root \subseteq Artifact
    /\ Foreign \subseteq Node

Record == [user : User, cell : Cell, artifact : Artifact]

VARIABLES
    cells,       \* cells with a policy
    selector,    \* user_selector of each cell
    allow,       \* node_allow of each cell
    registered,  \* artifacts known to the ledger
    offered, accepted, admitted, confirmed,
    sealed       \* sealed_to

policy == <<cells, selector, allow, registered>>
vars == <<cells, selector, allow, registered,
          offered, accepted, admitted, confirmed, sealed>>

Init ==
    /\ cells = {}
    /\ selector = [c \in Cell |-> {}]
    /\ allow = [c \in Cell |-> {}]
    /\ registered = {}
    /\ offered = {} /\ accepted = {} /\ admitted = {} /\ confirmed = {}
    /\ sealed = [r \in Record |-> {}]

----------------------------------------------------------------------------
(* Seal targets. *)

\* is_cross_owner() of the cell of the record.
CrossOwner(r) == allow[r.cell] \cap Foreign # {}

\* desired_seal(): foreign nodes only once confirmed.
DesiredSeal(nodes, isConfirmed) == IF isConfirmed THEN nodes ELSE nodes \ Foreign

\* Mutant of Resealed: a later edit does not reach what was sealed before.
ResealedNever(c, nodes) == sealed

\* reseal_admitted_records_of()
Resealed(c, nodes) ==
    [r \in Record |->
       IF r \in admitted /\ r.cell = c
       THEN DesiredSeal(nodes, r \in confirmed)
       ELSE sealed[r]]

----------------------------------------------------------------------------
(* Policy. *)

\* cell_mut() creates the policy; add_user() and remove_user() edit it.
EditSelector(c, users) ==
    /\ cells' = cells \cup {c}
    /\ selector' = [selector EXCEPT ![c] = users]
    /\ UNCHANGED <<allow, registered, offered, accepted, admitted, confirmed, sealed>>

AddUser(c, u) == EditSelector(c, selector[c] \cup {u})
RemoveUser(c, u) == EditSelector(c, selector[c] \ {u})

RegisterArtifact(a) ==
    /\ registered' = registered \cup {a}
    /\ UNCHANGED <<cells, selector, allow, offered, accepted, admitted, confirmed, sealed>>

\* add_node_to_allowlist() and remove_node_from_allowlist()
EditAllowlist(c, nodes) ==
    /\ c \in cells
    /\ allow' = [allow EXCEPT ![c] = nodes]
    /\ sealed' = Resealed(c, nodes)
    /\ UNCHANGED <<cells, selector, registered, offered, accepted, admitted, confirmed>>

AddNode(c, n) == EditAllowlist(c, allow[c] \cup {n})
RemoveNode(c, n) == EditAllowlist(c, allow[c] \ {n})

----------------------------------------------------------------------------
(* Offer, acceptance, confirmation, admission, revocation. *)

Offer(r) ==
    /\ r.artifact \in registered \ Root
    /\ r.cell \in cells
    /\ r.user \in selector[r.cell]
    /\ r \notin offered \cup admitted
    /\ offered' = offered \cup {r}
    /\ UNCHANGED <<policy, accepted, admitted, confirmed, sealed>>

CanAccept(r) == r \in offered \ accepted

Accept(r) ==
    /\ CanAccept(r)
    /\ accepted' = accepted \cup {r}
    /\ UNCHANGED <<policy, offered, admitted, confirmed, sealed>>

\* confirm_cross_owner() widens the seal of an admitted record at once.
ConfirmCrossOwner(r) ==
    /\ r \in offered \ confirmed
    /\ CrossOwner(r)
    /\ confirmed' = confirmed \cup {r}
    /\ sealed' = IF r \in admitted
                 THEN [sealed EXCEPT ![r] = allow[r.cell]]
                 ELSE sealed
    /\ UNCHANGED <<policy, offered, accepted, admitted>>

\* The conditions of admit(), given the acceptances so far.
CanAdmit(r, acceptances) ==
    /\ r.artifact \in registered \ Root
    /\ r \in (offered \cap acceptances) \ admitted
    /\ CrossOwner(r) => r \in confirmed

Admitted(r) ==
    /\ admitted' = admitted \cup {r}
    /\ sealed' = [sealed EXCEPT ![r] = DesiredSeal(allow[r.cell], r \in confirmed)]

Admit(r) ==
    /\ CanAdmit(r, accepted)
    /\ Admitted(r)
    /\ UNCHANGED <<policy, offered, accepted, confirmed>>

\* `pillar offer resolve`: accept()? and then admit()?.  The acceptance
\* stays when the admission is refused.
Resolve(r) ==
    /\ CanAccept(r)
    /\ accepted' = accepted \cup {r}
    /\ IF CanAdmit(r, accepted \cup {r})
       THEN Admitted(r)
       ELSE UNCHANGED <<admitted, sealed>>
    /\ UNCHANGED <<policy, offered, confirmed>>

\* revoke_offer() leaves acceptance and confirmation in place.
RevokeOffer(r) ==
    /\ r \in offered
    /\ offered' = offered \ {r}
    /\ admitted' = admitted \ {r}
    /\ sealed' = [sealed EXCEPT ![r] = {}]
    /\ UNCHANGED <<policy, accepted, confirmed>>

Next ==
    \/ \E c \in Cell, u \in User : AddUser(c, u) \/ RemoveUser(c, u)
    \/ \E c \in Cell, n \in Node : AddNode(c, n) \/ RemoveNode(c, n)
    \/ \E a \in Artifact : RegisterArtifact(a)
    \/ \E r \in Record :
         \/ Offer(r) \/ Accept(r) \/ ConfirmCrossOwner(r)
         \/ Admit(r) \/ Resolve(r) \/ RevokeOffer(r)

Spec == Init /\ [][Next]_vars

----------------------------------------------------------------------------
(* Properties. *)

\* The variables keep to their sets.
TypeOK ==
    /\ cells \subseteq Cell
    /\ selector \in [Cell -> SUBSET User]
    /\ allow \in [Cell -> SUBSET Node]
    /\ registered \subseteq Artifact
    /\ offered \subseteq Record
    /\ accepted \subseteq Record
    /\ admitted \subseteq Record
    /\ confirmed \subseteq Record
    /\ sealed \in [Record -> SUBSET Node]

\* Whatever edits, confirmations and revocations came between, an admitted
\* key is sealed to exactly the nodes its cell allows now (without foreign
\* ones until confirmed) and any other key to nobody.
SealedMatchesAllowlist ==
    \A r \in Record :
        sealed[r] = IF r \in admitted
                    THEN DesiredSeal(allow[r.cell], r \in confirmed)
                    ELSE {}

\* Nothing is admitted without a standing offer and an acceptance, nor if it
\* is a root: revoking the offer ends the admission in the same step.
AdmittedByBothSides ==
    /\ admitted \subseteq offered \cap accepted
    /\ \A r \in admitted : r.artifact \notin Root

\* A key reaches a foreign node only after the explicit confirmation, also
\* when the node was allowed after the admission.
ForeignNeedsConfirmation ==
    \A r \in Record : sealed[r] \cap Foreign # {} => r \in confirmed

\* What offer, accept, admit, revoke and the policy edits keep together: an
\* admitted key is sealed to exactly what the current policy gives, and it
\* has a standing offer and an acceptance.  The first part alone does not
\* survive an offer or a revocation, which must know that an admission has
\* its offer.
LedgerInv == TypeOK /\ SealedMatchesAllowlist /\ AdmittedByBothSides
=============================================================================
