--------------------------- MODULE GeoReplication ---------------------------
(***************************************************************************)
(* Pinning a cell's database on foreign replicas (crates/pillar-streamdb,  *)
(* geo_replication.rs): the owner signs grants and revokes remotes, a      *)
(* replica pins the segments offered to it under a grant.                  *)
(*                                                                         *)
(* Signed grants are copied and never expire: once issued, one can be      *)
(* presented at any later time.  Signatures are taken as unforgeable; a    *)
(* grant of another owner is one the trust never issued.                   *)
(***************************************************************************)
EXTENDS Integers, FiniteSets

CONSTANTS
    Remote,
    Segment,    \* segments of the cell's database
    Plain,      \* those that are not cell-encrypted
    MaxEpoch    \* bound on the epoch of a grant

GeoAssumption == Plain \subseteq Segment /\ MaxEpoch \in Nat

VARIABLES
    epochs,     \* ReplicationTrust: the epoch of each remote, -1 for none
    revoked,    \* remotes revoked and not granted since
    issued,     \* every grant signed: remote and epoch
    fenced,     \* the grants signed before the last revocation of their remote
    pinned      \* what each replica holds, with the grant it was pinned under

geoVars == <<epochs, revoked, issued, fenced, pinned>>

GeoInit ==
    /\ epochs = [r \in Remote |-> -1]
    /\ revoked = {} /\ issued = {} /\ fenced = {}
    /\ pinned = [r \in Remote |-> {}]

\* Mutant of NextEpoch: a remote keeps its epoch when it is granted again.
NextEpochKept(r) == IF epochs[r] = -1 THEN 0 ELSE epochs[r]

\* The epoch grant() signs: a new one after a revocation only.
NextEpoch(r) ==
    CASE r \in revoked              -> epochs[r] + 1
      [] r \notin revoked /\ epochs[r] = -1 -> 0
      [] OTHER                      -> epochs[r]

Grant(r) ==
    /\ NextEpoch(r) <= MaxEpoch
    /\ epochs' = [epochs EXCEPT ![r] = NextEpoch(r)]
    /\ revoked' = revoked \ {r}
    /\ issued' = issued \cup {[remote |-> r, epoch |-> NextEpoch(r)]}
    /\ UNCHANGED <<fenced, pinned>>

\* revoke(): a remote that was never granted is left alone.
Revoke(r) ==
    /\ epochs[r] # -1
    /\ revoked' = revoked \cup {r}
    /\ fenced' = fenced \cup {g \in issued : g.remote = r}
    /\ UNCHANGED <<epochs, issued, pinned>>

\* authorizes()
Authorizes(g) == g \in issued /\ g.remote \notin revoked /\ epochs[g.remote] = g.epoch

\* authorize_and_pin(): whoever presents the grant; the replica is not asked
\* whether the grant names it.
AuthorizeAndPin(r, g, s) ==
    /\ Authorizes(g)
    /\ s \notin Plain
    /\ pinned' = [pinned EXCEPT ![r] = @ \cup {[segment |-> s, grant |-> g]}]
    /\ UNCHANGED <<epochs, revoked, issued, fenced>>

GeoNext ==
    \/ \E r \in Remote : Grant(r) \/ Revoke(r)
    \/ \E r \in Remote, g \in issued, s \in Segment : AuthorizeAndPin(r, g, s)

GeoSpec == GeoInit /\ [][GeoNext]_geoVars

-----------------------------------------------------------------------------
SignedGrant == [remote : Remote, epoch : Nat]

GeoTypeOK ==
    /\ epochs \in [Remote -> Nat \cup {-1}]
    /\ revoked \subseteq Remote
    /\ issued \subseteq SignedGrant /\ fenced \subseteq issued
    /\ pinned \in [Remote -> SUBSET [segment : Segment, grant : SignedGrant]]

\* No grant signed before the last revocation of its remote is good again.
FencedStaysFenced == \A g \in fenced : ~Authorizes(g)

\* A trusted remote has a grant that is good.
TrustedHasAGrant ==
    \A r \in Remote : r \notin revoked /\ epochs[r] # -1 =>
        \E g \in issued : g.remote = r /\ Authorizes(g)

\* Nothing readable by the remote is ever pinned there, and nothing without a
\* grant the owner signed.
PinnedUnderGrant ==
    \A r \in Remote : \A p \in pinned[r] : p.segment \notin Plain /\ p.grant \in issued

\* Why a fenced grant stays so: no grant is ahead of its remote's epoch, the
\* epoch of a remote was signed, and a grant of the current epoch is fenced only
\* as long as the remote is revoked.
EpochsFence ==
    /\ \A g \in issued : g.epoch <= epochs[g.remote]
    /\ \A r \in Remote : epochs[r] # -1 => [remote |-> r, epoch |-> epochs[r]] \in issued
    /\ \A g \in fenced : g.epoch = epochs[g.remote] => g.remote \in revoked

\* No grant signed before the last revocation of its remote is good again,
\* every trusted remote has a grant that is, and what is pinned abroad was
\* pinned under one (grant(), revoke(), authorizes()).
ReplicationInv ==
    /\ GeoTypeOK
    /\ FencedStaysFenced
    /\ TrustedHasAGrant
    /\ PinnedUnderGrant
    /\ EpochsFence
=============================================================================
