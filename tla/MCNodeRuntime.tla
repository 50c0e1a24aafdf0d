---------------------------- MODULE MCNodeRuntime ----------------------------
(***************************************************************************)
(* What a node runs: the scheduled jobs, the declared workloads, the       *)
(* quota and the addresses handed to workloads, the signals it records,    *)
(* and the cell it is a member of with the migration of its views.  The    *)
(* scheduler and the workload reconciler supervise processes of their own  *)
(* (what they share, a registration by name, is the variable `registered`  *)
(* of WorkloadPlane), so a behaviour follows one of them and the others    *)
(* stay in their initial states.  Jobs share neither runs nor children and *)
(* names share nothing, so there is one of each.  A cell is followed in    *)
(* its membership or in what it shares.                                    *)
(***************************************************************************)
EXTENDS JobScheduler, CellGroup, TLC

CONSTANTS
    Name, Image, Plain, Command, MaxReplicas, MaxOps, MaxDirect, MaxRestarts,
    MaxRows, MaxRuns,   \* bounds on the rows and runs of the scheduler
    First, Version, Target, Window, Timeout,                \* RollingMigration
    Voter, ClusterSize, NoNode, Slots,                      \* registers
    Ledger, Requester, Amount, Budget,                      \* QuotaLedger
    Site, Host, SiteOf, Purpose, Pools, Width, MaxBinds,    \* Ipam
    c1, c2, n3, n4, west, east,                             \* hosts and sites by name
    Source, Rule, PolicySet, Capacity, Retention, MaxTick, MaxBlocks    \* SignalStore

VARIABLES manifest, revisions, running, registered, journal, pending, behind, missed, direct, restarts,
    tracked, oldLog, newLog, appended, declared, age, cutOver, dead,
    ledger, ids, wired,
    pool, slots, records, binds, stranded,
    policies, open, sealed, ticks, buckets, now, clock, promised, lost,
    part    \* the component the behaviour follows

workloadVars ==
    <<manifest, revisions, running, registered, journal, pending, behind, missed, direct, restarts>>

migrationVars == <<tracked, oldLog, newLog, appended, declared, age, cutOver, dead>>
ledgerVars == <<ledger, ids, wired>>
poolVars == <<pool, slots, records, binds, stranded>>
signalVars == <<policies, open, sealed, ticks, buckets, now, clock, promised, lost>>

\* In two halves: what the node itself runs, and what it hands out and shares.
localVars == <<vars, workloadVars, signalVars>>
sharedVars == <<migrationVars, cellVars, ledgerVars, poolVars>>
mcVars == <<localVars, sharedVars, part>>

W == INSTANCE WorkloadPlane
R == INSTANCE RollingMigration

ASSUME W!WorkloadAssumption
ASSUME R!MigrationAssumption
ASSUME CellAssumption

Q == INSTANCE QuotaLedger WITH Node <- Ledger, Candidate <- Requester, Epoch <- Slots

ASSUME Q!QuotaAssumption /\ Slots \subseteq Nat

\* Two nodes of one site, one of another, and one without a placement; one
\* pool ends at the last address of the family, the other reaches beyond it.
Placements == c1 :> west @@ c2 :> west @@ n3 :> east @@ n4 :> None
LastPools == {[base |-> 2, len |-> 2], [base |-> 3, len |-> 2]}

\* Of the voters one is away.
I == INSTANCE Ipam WITH
        Candidate <- Host, Name <- Purpose, Epoch <- Slots,
        Voter <- Voter \ {CHOOSE v \in Voter : TRUE}, register <- slots

ASSUME I!IpamAssumption

\* A component logs, a rule counts the lines; the policies cut the lines' window
\* or that of what the rule derives, which the first also downsamples.
Lines == {[text |-> "line", kind |-> "Log", labels |-> {"web"}, component |-> TRUE]}
LineCounts == {[id |-> "lines", kind |-> "Log", emit |-> "total"]}
Policies ==
    LET P(k, s, w, d) == [kind |-> k, selector |-> s, window |-> w, downsample |-> d]
    IN {<<>>, <<P("Log", {"web"}, 0, None)>>, <<P("Metric", {"lines"}, 1, 2), P("Metric", {}, 3, 0)>>}

S == INSTANCE SignalStore

ASSUME S!StoreAssumption

\* Objects sealed to the cell, and to one node that may be outside of it.
CellOrNode == {[kind |-> "cell", to |-> {}], [kind |-> "sealed", to |-> {CHOOSE n \in Node : TRUE}]}

MCInit ==
    /\ Init /\ W!Init /\ R!MigrationInit /\ CellInit
    /\ Q!Init /\ I!Init /\ S!SignalInit
    /\ part \in {"jobs", "workloads", "signals",
                 "migration", "membership", "sharing", "ledger", "pools"}

InMigration(A) ==
    part = "migration" /\ A /\ UNCHANGED <<localVars, cellVars, ledgerVars, poolVars, part>>

\* The epochs of the key and the slots of a ledger are bounded: a cell or a
\* ledger may come to a stop.
CellStops == keyEpoch = MaxEpoch /\ UNCHANGED cellVars
LedgerStops == (\E n \in Ledger : ~Q!PendingSlotInBound(n)) /\ UNCHANGED ledgerVars

LocalNext ==
    \/ part = "jobs" /\ Next /\ UNCHANGED <<workloadVars, signalVars>>
    \/ part = "workloads" /\ W!Next /\ UNCHANGED <<vars, signalVars>>
    \/ part = "signals" /\ S!SignalNext /\ UNCHANGED <<vars, workloadVars>>

MCNext ==
    \/ LocalNext /\ UNCHANGED <<sharedVars, part>>
    \/ InMigration(R!MigrationNext)
    \/ /\ \/ part = "membership" /\ (Membership \/ CellStops)
          \/ part = "sharing" /\ Sharing
       /\ UNCHANGED <<localVars, migrationVars, ledgerVars, poolVars, part>>
    \/ /\ part = "ledger" /\ (Q!Next \/ LedgerStops)
       /\ UNCHANGED <<localVars, migrationVars, cellVars, poolVars, part>>
    \/ /\ part = "pools" /\ I!Next
       /\ UNCHANGED <<localVars, migrationVars, cellVars, ledgerVars, part>>

\* Time passes, and the coordinator of the migration keeps trying to cut over.
MCSpec ==
    /\ MCInit /\ [][MCNext]_mcVars
    /\ WF_mcVars(InMigration(R!AdvanceTime)) /\ WF_mcVars(InMigration(R!AttemptCutover))

\* Rows and failed spawns are the only unbounded growth.
Bounded == Len(history) <= MaxRows /\ Len(engine.runs) <= MaxRuns

\* WorkloadPlane: every replica runs the image last admitted and there are
\* never more than asked for; the manifests served are those the journal folds
\* back to, but for what could not be appended; a name whose scheduled manifests are deleted does not fire.
WorkloadInv ==
    part = "workloads" => W!ReplicaInv /\ W!JournalTellsManifests /\ W!DeletedStopsFiring

\* CellGroup: the group key follows the members, so that whoever left reads
\* nothing placed since.  RollingMigration: every member reads every operation
\* whichever view it is served from.
CellsInv == CellInv /\ R!NobodyIsLeftBehind

\* QuotaLedger: reservations stay within the budget and agree with the log, and
\* every one has a slot of its own that was won.  Ipam: no address is recorded
\* under two names, what is recorded as allocated is held by its node until the
\* pool of its site is replaced, and the slot of an address names it back.
AdmissionInv ==
    /\ part = "ledger" => Q!QuotaInv
    /\ part = "pools" => I!AddressInv /\ I!SlotsRoundTrip

\* QuotaLedger: an admission through the hook, admitted or refused, leaves a
\* pending slot that every voter can still grant.
HookSlotStaysFresh == Q!HookSlotStaysFresh

\* SignalStore: a signal is held until the deadline of every write it had,
\* across rewrites, sealed blocks and changed policies.
SignalInv == part = "signals" => S!SignalInv

\* RollingMigration: members that fell silent do not hold up the cutover.
SilentDoNotBlock == R!SilentDoNotBlock
=============================================================================
