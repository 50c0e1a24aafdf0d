-------------------------- MODULE RollingMigration --------------------------
(***************************************************************************)
(* The rolling migration of a view inside a cell,                          *)
(* crates/pillar-cells/src/migration.rs: a second view is built from the   *)
(* log while the first is served, members move over one by one as they     *)
(* declare a version that the new view is compatible with, and the old     *)
(* view is dropped once every live member has.                             *)
(*                                                                         *)
(* `age` is how long ago a member was last seen, cut off past the timeout, *)
(* where more makes no difference: time may run for ever.                  *)
(***************************************************************************)
EXTENDS Integers

CONSTANTS
    Node, First,    \* the nodes, and those tracked from the start
    Version, Target, Window,
    Timeout,        \* liveness_timeout
    None,
    MaxOps          \* bound on the operations appended

MigrationAssumption ==
    /\ First \subseteq Node /\ Target \in Version /\ Version \subseteq Nat
    /\ {Window, Timeout, MaxOps} \subseteq Nat
    /\ \A k \in 0..MaxOps : None # 1..k

VARIABLES
    tracked,    \* members
    oldLog, newLog,
    appended,   \* how many operations were appended: they are 1..appended
    declared,   \* declared_new_support
    age,        \* now - last_seen, None where a node was never seen
    cutOver,
    dead        \* nodes that will not be heard of again

migrationVars == <<tracked, oldLog, newLog, appended, declared, age, cutOver, dead>>

MigrationInit ==
    /\ tracked = First
    /\ oldLog = {} /\ newLog = None /\ appended = 0
    /\ declared = {}
    /\ age = [n \in Node |-> IF n \in First THEN 0 ELSE None]
    /\ cutOver = FALSE
    /\ dead = {}

\* add_member(): a node admitted during the migration.
AddMember(n) ==
    /\ n \notin tracked \cup dead
    /\ tracked' = tracked \cup {n}
    /\ age' = [age EXCEPT ![n] = 0]
    /\ UNCHANGED <<oldLog, newLog, appended, declared, cutOver, dead>>

\* append(): to both views, after the cutover too.
Append ==
    /\ appended < MaxOps
    /\ appended' = appended + 1
    /\ oldLog' = oldLog \cup {appended'}
    /\ newLog' = IF newLog = None THEN None ELSE newLog \cup {appended'}
    /\ UNCHANGED <<tracked, declared, age, cutOver, dead>>

\* begin_build_new_view()
BeginBuildNewView ==
    /\ newLog = None
    /\ newLog' = oldLog
    /\ UNCHANGED <<tracked, oldLog, appended, declared, age, cutOver, dead>>

\* heartbeat()
Heartbeat(n) ==
    /\ n \notin dead
    /\ age' = [age EXCEPT ![n] = 0]
    /\ UNCHANGED <<tracked, oldLog, newLog, appended, declared, cutOver, dead>>

Compatible(v) == v \in (Target - Window)..(Target + Window)

\* declare_member_version(): counts as a heartbeat, whether or not the version
\* negotiates.
DeclareMemberVersion(n, v) ==
    /\ n \notin dead
    /\ age' = [age EXCEPT ![n] = 0]
    /\ declared' = IF Compatible(v) THEN declared \cup {n} ELSE declared
    /\ UNCHANGED <<tracked, oldLog, newLog, appended, cutOver, dead>>

\* advance_time() by one.
AdvanceTime ==
    /\ age' = [n \in Node |-> IF age[n] = None \/ age[n] > Timeout THEN age[n] ELSE age[n] + 1]
    /\ UNCHANGED <<tracked, oldLog, newLog, appended, declared, cutOver, dead>>

\* A node stops for good.
Die(n) ==
    /\ n \notin dead
    /\ dead' = dead \cup {n}
    /\ UNCHANGED <<tracked, oldLog, newLog, appended, declared, age, cutOver>>

\* is_live()
IsLive(n) == age[n] # None /\ age[n] <= Timeout

\* Mutant of ReadyForCutover: waits for silent members as well.
ReadyForCutoverOfAll == newLog # None /\ tracked \subseteq declared

\* ready_for_cutover() before the cutover.
ReadyForCutover == newLog # None /\ {n \in tracked : IsLive(n)} \subseteq declared

\* attempt_cutover()
AttemptCutover ==
    /\ ~cutOver /\ ReadyForCutover
    /\ cutOver' = TRUE
    /\ oldLog' = {}
    /\ UNCHANGED <<tracked, newLog, appended, declared, age, dead>>

\* view_for() and read_view(): what a tracked member reads.
ReadView(n) == IF cutOver \/ (newLog # None /\ n \in declared) THEN newLog ELSE oldLog

MigrationNext ==
    \/ \E n \in Node :
        \/ AddMember(n) \/ Heartbeat(n) \/ Die(n)
        \/ \E v \in Version : DeclareMemberVersion(n, v)
    \/ Append \/ BeginBuildNewView \/ AdvanceTime \/ AttemptCutover

MigrationSpec == MigrationInit /\ [][MigrationNext]_migrationVars

-----------------------------------------------------------------------------
\* Each view that is kept holds every operation, whenever it was built: the old
\* one until the cutover, the new one from its building on.
ViewsAreWhole ==
    /\ appended \in 0..MaxOps
    /\ ~cutOver => oldLog = 1..appended
    /\ newLog \in {None, 1..appended}
    /\ cutOver => newLog # None

\* Every member reads every operation all along, whichever view it is served
\* from and whenever it declared, fell silent or came back.
NobodyIsLeftBehind == \A n \in tracked : ReadView(n) = 1..appended

\* Once a new view is built, members that stopped for good cannot hold it up.
SilentDoNotBlock ==
    (newLog # None /\ tracked \subseteq declared \cup dead)
        ~> (cutOver \/ ~(tracked \subseteq declared \cup dead))
=============================================================================
