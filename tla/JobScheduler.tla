---------------------------- MODULE JobScheduler ----------------------------
(***************************************************************************)
(* The scheduler: the decision engine of crates/pillar-manifest            *)
(* (scheduler.rs) and the runtime of crates/pillar-controller              *)
(* (scheduler_runtime.rs) that drives it off the clock and owns the        *)
(* children it spawns.                                                     *)
(*                                                                         *)
(* A tick handles its due jobs one after the other and they share nothing, *)
(* so a step fires one due job; likewise a reap handles one exited child   *)
(* per step.  `since` is the time since last_fired, cut off at the period. *)
(* Placement is reduced to whether the registered tier is admissible.      *)
(***************************************************************************)
EXTENDS Integers, Sequences, FiniteSets, FiniteSetsExt

CONSTANTS
    Job,            \* job ids
    MaxBackoff,     \* Job.max_backoff
    HistoryCap,     \* Job.history_cap
    Period,         \* ScheduledJob.period, in ticks of the clock
    MaxPids,        \* bound: processes spawned in one behaviour
    None

ASSUME SchedulerAssumption ==
    /\ MaxBackoff \in Nat
    /\ HistoryCap \in Nat \ {0}
    /\ Period \in Nat
    /\ MaxPids \in Nat
    /\ None \notin Job

Pid == 1..MaxPids
Policy == {"Allow", "Forbid", "Replace"}
Kind == {"Workload", "Observability"}
Status == {"Running", "Succeeded", "Failed"}
Exit == {"Succeeded", "Failed"}

Definition == [policy : Policy, kind : Kind, placeable : BOOLEAN]
Run == [job : Job, status : Status]
Row == [job : Job, status : Status, pid : Pid \cup {None}]

VARIABLES
    jobs,       \* registered definitions
    since,      \* per job: time since it last fired
    engine,     \* Scheduler: [runs, backoff]
    live,       \* supervised children: pid to job
    exited,     \* how each process that has ended did end
    history,    \* SchedulerRuntime.history
    nextPid

vars == <<jobs, since, engine, live, exited, history, nextPid>>

TypeOK ==
    /\ jobs \in [Job -> Definition \cup {None}]
    /\ since \in [Job -> 0..Period \cup {None}]
    /\ engine.runs \in Seq(Run)
    /\ engine.backoff \in [Job -> Nat]
    /\ live \in [Pid -> Job \cup {None}]
    /\ exited \in [Pid -> Exit \cup {None}]
    /\ history \in Seq(Row)
    /\ nextPid \in 1..MaxPids + 1

Init ==
    /\ jobs = [j \in Job |-> None]
    /\ since = [j \in Job |-> None]
    /\ engine = [runs |-> <<>>, backoff |-> [j \in Job |-> 0]]
    /\ live = [p \in Pid |-> None]
    /\ exited = [p \in Pid |-> None]
    /\ history = <<>>
    /\ nextPid = 1

-----------------------------------------------------------------------------
\* The engine, as functions of its state.

Terminal(r, j) == r.job = j /\ r.status # "Running"
Running(r, j) == r.job = j /\ r.status = "Running"

HasRunning(e, j) == \E i \in DOMAIN e.runs : Running(e.runs[i], j)

\* The n-th smallest of a set of positions.
Nth(positions, n) == CHOOSE i \in positions : Cardinality({k \in positions : k <= i}) = n

\* prune_terminals: the oldest terminal runs beyond the cap are dropped.
Prune(e, j) ==
    LET recent(i) == Cardinality({k \in i..Len(e.runs) : Terminal(e.runs[k], j)}) <= HistoryCap
        kept == {i \in DOMAIN e.runs : Terminal(e.runs[i], j) => recent(i)}
    IN [e EXCEPT !.runs = [n \in 1..Cardinality(kept) |-> e.runs[Nth(kept, n)]]]

\* Mutant of Terminate: every running run of the job ends at once.
TerminateAll(e, j, status) ==
    [e EXCEPT !.runs = [i \in DOMAIN @ |->
        IF Running(@[i], j) THEN [@[i] EXCEPT !.status = status] ELSE @[i]]]

\* terminate_one_running: the oldest running run takes the status.
Terminate(e, j, status) ==
    LET first == CHOOSE i \in DOMAIN e.runs :
            /\ Running(e.runs[i], j)
            /\ \A k \in 1..i - 1 : ~Running(e.runs[k], j)
    IN [e EXCEPT !.runs[first].status = status]

\* Scheduler::succeed; a job that is no longer registered changes nothing.
Succeed(e, j) ==
    IF jobs[j] = None \/ ~HasRunning(e, j) THEN e
    ELSE Prune([Terminate(e, j, "Succeeded") EXCEPT !.backoff[j] = 0], j)

\* Scheduler::fail; with the budget exhausted the run is left running.
Fail(e, j) ==
    IF jobs[j] = None \/ e.backoff[j] >= MaxBackoff \/ ~HasRunning(e, j) THEN e
    ELSE Prune([Terminate(e, j, "Failed") EXCEPT !.backoff[j] = @ + 1], j)

\* Scheduler::fire once placement and policy have admitted the run.
Started(e, j) ==
    LET cleared == IF jobs[j].policy = "Replace"
                   THEN [e EXCEPT !.runs = [i \in DOMAIN @ |->
                            IF Running(@[i], j) THEN [@[i] EXCEPT !.status = "Failed"] ELSE @[i]]]
                   ELSE e
    IN Prune([cleared EXCEPT !.runs = Append(@, [job |-> j, status |-> "Running"])], j)

-----------------------------------------------------------------------------
\* The newest row of the job that still says Running takes the status.
Rewritten(rows, j, status) ==
    LET open == {i \in DOMAIN rows : rows[i].job = j /\ rows[i].status = "Running"}
    IN IF open = {} THEN rows
       ELSE [rows EXCEPT ![CHOOSE i \in open : \A k \in open : k <= i].status = status]

Children(j) == {p \in Pid : live[p] = j}

\* register_workload / register_observability, also over an existing job.
Register(j, d) ==
    /\ jobs' = [jobs EXCEPT ![j] = d]
    /\ since' = [since EXCEPT ![j] = None]
    /\ engine' = [engine EXCEPT !.backoff[j] = 0]
    /\ UNCHANGED <<live, exited, history, nextPid>>

\* Mutant of Deregister: the job's runs are forgotten with it.
DeregisterForgetsRuns(j) ==
    /\ jobs[j] # None
    /\ jobs' = [jobs EXCEPT ![j] = None]
    /\ engine' = [runs |-> SelectSeq(engine.runs, LAMBDA r : r.job # j),
                  backoff |-> [engine.backoff EXCEPT ![j] = 0]]
    /\ UNCHANGED <<since, live, exited, history, nextPid>>

\* deregister: a live child is left to end by itself.
Deregister(j) ==
    /\ jobs[j] # None
    /\ jobs' = [jobs EXCEPT ![j] = None]
    /\ engine' = [engine EXCEPT !.backoff[j] = 0]
    /\ UNCHANGED <<since, live, exited, history, nextPid>>

Due(j) == jobs[j] # None /\ IF since[j] = None THEN TRUE ELSE since[j] >= Period

\* stop_live, for Replace: every child is killed and charged as a failure.
StopsLive(j) == jobs[j].policy = "Replace"

EngineAfterStop(j) ==
    IF StopsLive(j) THEN FoldSet(LAMBDA p, e : Fail(e, j), engine, Children(j)) ELSE engine

HistoryAfterStop(j) ==
    IF StopsLive(j)
    THEN FoldSet(LAMBDA p, rows : Rewritten(rows, j, "Failed"), history, Children(j))
    ELSE history

LiveAfterStop(j) ==
    IF StopsLive(j) THEN [p \in Pid |-> IF live[p] = j THEN None ELSE live[p]] ELSE live

ExitedAfterStop(j) ==
    IF StopsLive(j)
    THEN [p \in Pid |-> IF live[p] = j /\ exited[p] = None THEN "Failed" ELSE exited[p]]
    ELSE exited

\* fire() refuses the tier: the job stays due.
FireUnplaceable(j) ==
    /\ Due(j)
    /\ ~jobs[j].placeable
    /\ engine' = EngineAfterStop(j)
    /\ history' = HistoryAfterStop(j)
    /\ live' = LiveAfterStop(j)
    /\ exited' = ExitedAfterStop(j)
    /\ UNCHANGED <<jobs, since, nextPid>>

\* Forbid while a run is recorded as running.
FireSkipped(j) ==
    /\ Due(j)
    /\ jobs[j].placeable
    /\ jobs[j].policy = "Forbid"
    /\ HasRunning(engine, j)
    /\ since' = [since EXCEPT ![j] = 0]
    /\ UNCHANGED <<jobs, engine, live, exited, history, nextPid>>

Admits(j) ==
    /\ Due(j)
    /\ jobs[j].placeable
    /\ jobs[j].policy = "Forbid" => ~HasRunning(engine, j)

\* A workload: the image is spawned as a process of its own.
FireWorkload(j) ==
    /\ Admits(j)
    /\ jobs[j].kind = "Workload"
    /\ nextPid \in Pid
    /\ since' = [since EXCEPT ![j] = 0]
    /\ engine' = Started(EngineAfterStop(j), j)
    /\ live' = [LiveAfterStop(j) EXCEPT ![nextPid] = j]
    /\ exited' = ExitedAfterStop(j)
    /\ history' = Append(HistoryAfterStop(j), [job |-> j, status |-> "Running", pid |-> nextPid])
    /\ nextPid' = nextPid + 1
    /\ UNCHANGED <<jobs>>

\* The spawn fails after the engine has recorded the run.
FireSpawnFails(j) ==
    /\ Admits(j)
    /\ jobs[j].kind = "Workload"
    /\ since' = [since EXCEPT ![j] = 0]
    /\ engine' = Started(EngineAfterStop(j), j)
    /\ live' = LiveAfterStop(j)
    /\ exited' = ExitedAfterStop(j)
    /\ history' = HistoryAfterStop(j)
    /\ UNCHANGED <<jobs, nextPid>>

\* An observability evaluation runs in the tick and succeeds at once.
FireObservability(j) ==
    /\ Admits(j)
    /\ jobs[j].kind = "Observability"
    /\ since' = [since EXCEPT ![j] = 0]
    /\ engine' = Succeed(Started(EngineAfterStop(j), j), j)
    /\ live' = LiveAfterStop(j)
    /\ exited' = ExitedAfterStop(j)
    /\ history' = Append(HistoryAfterStop(j), [job |-> j, status |-> "Succeeded", pid |-> None])
    /\ UNCHANGED <<jobs, nextPid>>

\* A child process ends (outside the runtime).
ChildExits(p, how) ==
    /\ live[p] # None
    /\ exited[p] = None
    /\ exited' = [exited EXCEPT ![p] = how]
    /\ UNCHANGED <<jobs, since, engine, live, history, nextPid>>

\* reap reports the exit to the engine, under the job's id.
Reap(p) ==
    LET j == live[p]
    IN /\ j # None
       /\ exited[p] # None
       /\ engine' = IF exited[p] = "Succeeded" THEN Succeed(engine, j) ELSE Fail(engine, j)
       /\ history' = Rewritten(history, j, exited[p])
       /\ live' = [live EXCEPT ![p] = None]
       /\ UNCHANGED <<jobs, since, exited, nextPid>>

\* A liveness poll raises an error: the drained list of children is dropped.
ReapAborts ==
    /\ \E p \in Pid : live[p] # None
    /\ live' = [p \in Pid |-> None]
    /\ exited' = [p \in Pid |-> IF live[p] # None /\ exited[p] = None THEN "Failed" ELSE exited[p]]
    /\ UNCHANGED <<jobs, since, engine, history, nextPid>>

\* The clock moves for every job.
ClockTick ==
    /\ \E j \in Job : since[j] # None /\ since[j] < Period
    /\ since' = [j \in Job |-> IF since[j] # None /\ since[j] < Period THEN since[j] + 1 ELSE since[j]]
    /\ UNCHANGED <<jobs, engine, live, exited, history, nextPid>>

Next ==
    \/ \E j \in Job : \/ \E d \in Definition : Register(j, d)
                      \/ Deregister(j)
                      \/ FireUnplaceable(j)
                      \/ FireSkipped(j)
                      \/ FireWorkload(j)
                      \/ FireSpawnFails(j)
                      \/ FireObservability(j)
    \/ \E p \in Pid : Reap(p) \/ \E how \in Exit : ChildExits(p, how)
    \/ ReapAborts
    \/ ClockTick

Spec == Init /\ [][Next]_vars

-----------------------------------------------------------------------------
\* The runs of a job the engine counts as running.
CountRunning(j) == Cardinality({i \in DOMAIN engine.runs : Running(engine.runs[i], j)})

\* Every supervised child is a run the engine still counts as running, through
\* replacement, re-registration, exhausted budgets and failed polls: the
\* engine never forgets a process that exists.
ChildrenHaveRuns == \A j \in Job : Cardinality(Children(j)) <= CountRunning(j)

\* Under Forbid and Replace a tick never puts a second process of the job next
\* to one it already supervises, whatever was registered before.
NoSecondChild ==
    [][\A j \in Job, p \in Pid :
          live[p] # j /\ live'[p] = j /\ jobs[j].policy # "Allow"
              => \A q \in Pid \ {p} : live'[q] # j]_vars

\* RunHistoryBounded of the engine: prune_terminals keeps at most HistoryCap
\* terminal runs of a job.
RunHistoryBounded ==
    \A j \in Job : Cardinality({i \in DOMAIN engine.runs : Terminal(engine.runs[i], j)}) <= HistoryCap

\* BackoffBounded of the engine: no sequence of failures and replacements
\* charges a job more than its budget.
BackoffBounded == \A j \in Job : engine.backoff[j] <= MaxBackoff

\* run_history shows every supervised child: a job has at least as many rows
\* that say Running as children, through exits reaped in any order (reap and
\* stop_live rewrite one row per child, found by job and not by pid).
ChildrenHaveRows ==
    \A j \in Job :
        Cardinality(Children(j)) <=
            Cardinality({i \in DOMAIN history : history[i].job = j /\ history[i].status = "Running"})

\* The engine's runs, the history rows and the operating system's children
\* stay accounted for, through failing spawns, deregistrations and reaps in
\* any order: every child has a run and a row, and neither the finished runs
\* nor the failure count of a job grows past its cap.
SchedulerInv ==
    /\ TypeOK
    /\ ChildrenHaveRuns /\ ChildrenHaveRows
    /\ RunHistoryBounded /\ BackoffBounded
=============================================================================
