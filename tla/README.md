# A TLA+ verification of pillar

pillar (`src/`) is a Rust workspace for a self-hosted, multi-node platform: a
web of trust signs everything, an event log and a keyed store replicate it,
quorum-fenced leases decide what must happen once, and each node runs declared
workloads and scheduled jobs behind a web portal. This directory holds TLA+
models of the stateful core of that program, TLC configurations that check
them on small instances, and TLAPS proofs for every instance of the parts the
rest builds on.

All names below are those of the source unless they name a module of this
directory. Source paths are relative to `src/crates/`.

## 1. The system

### 1.1 Inventory

| Component (source) | State it keeps | Operations | What is hard | What makes it correct |
|---|---|---|---|---|
| lease register (`pillar-coordination`) | last grant per voter, holder per epoch, in memory | `grant`, `try_acquire`, `release` | peers fold the same grants late, in different orders, twice; a restart forgets everything | an epoch is won by one candidate for ever; a backed epoch is eventually won |
| quota ledger and admission hook (`pillar-quota-ledger`, `pillar-manifest/admission.rs`) | register, next slot, outstanding reservations, op-log | `admit`, `confirm`, `release`, `reconcile` | votes collected one by one and refused half-way; repeated reconciles; several nodes | reservations within the attested budget, balance as the log tells, one slot each |
| address pools (`pillar-ipam`) | pool and register per site, records per purpose | `bind_pool`, `allocate_for`, `reserve`, `allocate`, `release` | record and register are two pieces of state; a site's pool is replaced; end of the address family | an address has one purpose, an allocated one is held unless its pool was replaced |
| portal accounts (`pillar-cli/web_serve.rs`, `pillar-web`, `pillar-iam`) | users, offers, custody, credentials, sessions, journal | login, second factor, invite, reset, forced change, disable, delete, passkeys | a parked login outlives what it was decided on; every handler has a replay arm; an append to the journal may fail | journal rebuilds the accounts it was told about and never gives more than was live; a forced account cannot act; nobody is locked out |
| login throttling (`pillar-web/account_lockout.rs`) | failures and lock per identifier, token bucket | attempt, failure, success, unlock, time | lazy expiry racing attempts | bounded guesses and bursts; locks end |
| portal sessions and WebAuthn (`web_serve.rs`, `pillar-identity`, `pillar-web/webauthn.rs`) | bearers, registry, parked logins, challenges, counters | login, promotion, register/assert ceremonies, sign-out, restart | replayed ceremonies, revocation between steps, what was not journaled is lost on restart | revoked bearers are dead; challenges are spent once; what was journaled survives |
| job scheduler (`pillar-manifest/scheduler.rs`, `pillar-controller/scheduler_runtime.rs`) | jobs, engine runs, history rows, children | register, deregister, tick, reap | spawn fails after the run is recorded; children exit in any order; re-registration | every child accounted for; never two under Forbid |
| workload plane (`web_serve.rs`, `resource.rs`, `workload_reconcile.rs`) | manifests, revisions, replicas, registrations, journal | apply, edit, scale, rollback, delete, reconcile, restart | fetches, spawns and appends fail half-way; two delete paths; some writes not journaled | replicas of one image; journal tells the manifests it was told about; a deleted schedule stops |
| event log and anti-entropy (`pillar-eventlog`, `pillar-net/antientropy.rs`) | events, heights, positions, tips | `append`, `ingest`, digests, `events_missing_from`, `reconcile` | loss, duplication, reordering, forks, answers to stale digests | whole chains, closed causal past, a pull leaves nothing behind |
| keyed store (`pillar-keyedstore`, `pillar-streamdb`) | set of stamped ops, per-node clock | put, delete, fold, merge, compact | compaction and merge at different times; stamps repeat on two nodes | compaction never changes a read; no falling back |
| key distribution and escrow (`pillar-key-distribution`) | offers, acceptances, admissions, seals, policy; envelopes, tokens | offer, accept, confirm, admit, revoke, policy edits; store, recover, sign | seals are stored while the policy they follow changes | seals follow the policy; both sides consent; one release per token |
| web of trust and RBAC (`pillar-wot-authority`, `pillar-rbac`) | edges, three kinds of revocation; actors' views | add edge, revoke edge/key/grant, refresh, decide, explain | depths relaxed in hash order; views compared by a count | depth of the best path; revocation only reduces; delegation narrows |
| governance operations and bootstrap queue (`web_serve.rs`, `pillar-ops`, `pillar-bootstrap/request.rs`) | trust edges, signed acts, recoveries, grants, roles, groups, login history, requests | invite, recover, grant, revoke, request, decide | a recovery is reopened while approvals come in; a request is decided twice | completion waits for every quorum asked; every change has its signed act; one decision per request |
| trust artifacts (`pillar-trust-artifacts`) | attests, revocations by epoch, budgets drawn | attest, revoke, admit, verify | attests rest on others that are revoked in between | a revoked attest stays dead, roles descend from genesis, budgets hold |
| OIDC provider (`pillar-oidc`) | clients, consents, codes, grants and two token indexes; signing keys | register, consent, authorize, redeem, refresh, revoke, introspect; rotate, prune | revocation while codes and refresh tokens are outstanding; keys pruned while tokens live | indexes agree with grants, what was cut off stays dead, a refresh token is spent once; tokens verify through the grace period |
| cells (`pillar-cells`) | members, key epochs, objects, grants, name; views of a migration | admit, leave, rotate, place, grant, publish; declare, heartbeat, cut over | members leave, come back and fall silent between the steps | who left reads nothing placed since; nobody is left behind by a cutover, nobody silent holds it up |
| strict co-fold (`pillar-streamdb/cofold.rs`, `pillar-rbac`) | register per partition, proven epoch, documents | acquire, admit, put, revoke | a writer acts on an epoch that was superseded; payloads repeat | nothing is admitted under an epoch that was not awarded; a unique key is claimed once |
| persistence (`persist.rs`, `ipfs_persist.rs`, `geo_replication.rs` of `pillar-streamdb`, `pillar-wire/store.rs`) | files, temporaries, log; blocks, pins, head; replication grants | append, open, rebuild, crash; grant, revoke, pin | an append is several store calls, each of which may fail or be the last | what was returned is durable and the store reopens; the head only extends; a revoked remote stays out |
| transports (`pillar-net/pillar_udp_transport.rs`, `udp_dataplane.rs`, `pillar-client/transport.rs`, operation server) | sequence numbers, frames, datagrams; tiers and answers of a command; health flags and relays | write, pump, accept, drop; dial, time out, answer; probe, forward, relay | loss, copies and reordering; lost sockets; late answers, held connections; flags that are old when read | a byte pipe; a command ends with answers of its own unless it is held; health follows |
| deployment controller and identity registry (`pillar-controller`, `pillar-identity`) | primaries, subkeys, capabilities, admitted fetches, children | register, certify, authorize, fetch, run, restart | the lease is not looked at again after authorize | a fenced workload runs under an award of its epoch |
| signal store (`pillar-observability`) | open and sealed blocks, policies, buckets, stamps | write, evaluate a rule, install policies, compact | policies change under standing deadlines and buckets; stamps lag | held until the last deadline; dropped only when represented |
| recovery library, IAM policies, gitops, topology, swarm, IPFS, SQL views, front end, crypto, gates | | | | not modelled, see section 6 |

### 1.2 How the parts interact

* The lease register is a value embedded by its users: the quota ledger (slot
  = epoch), each address pool (address offset = epoch) and each partition of a
  strict stream; the deployment controller asks a lease cluster. `LeaseRegister` is
  therefore a module of pure operators that the other modules extend.
* The admission hook calls the ledger once per reconcile of a workload.
* The portal drives accounts, sessions, workloads and governance under one
  lock, so a handler is one atomic step, and the interleavings are those of
  whole handlers: a multi-request exchange (password then second factor,
  begin then finish of a ceremony) can be interrupted between its requests.
* Whatever the portal changes is appended to a journal; a restart folds it. An
  append that fails is logged and not repeated: the change stands in memory.
* Grants, events and keyed ops are gossiped: they may be lost, delayed,
  repeated and reordered.
* The workload plane registers scheduled manifests with the job scheduler by
  name; trust decides who may call a handler (callers are authorised in the
  handler models, the decision itself is `TrustAuthority`). Governance acts
  are signed with the keys of portal users and decided over their trust edges.
* Commands reach a node over the client's tiers and its operation server; the
  datagrams of pillar-udp and of the load balancer cross a lossy network.
* The event log, the operation store and the segment chain are three ways the
  same signed operations are kept; none of them calls another.

## 2. Modules

| Module | Models | State and actions |
|---|---|---|
| `LeaseRegister` | `pillar-coordination/src/lib.rs` | Operators on a register `[grants, holders]`; absent map entries are epoch -1 and `NoNode`. |
| `LeaseCluster` | several peers over one stream of grants | `register[p]`, `cast` (signed grants), `won` (history of awards), `restarts`; `CastGrant`, `FoldGrant`, `TryAcquire`, `Release`, `Restart`. |
| `ExclusiveLease` | the abstract promise | `award[e]` is set once. |
| `LeaseClusterProofs` | proofs about lease cluster, controllers and co-fold | section 5 |
| `QuotaLedger` | ledger and admission hook | One ledger record per node; `LedgerGrant`, `LedgerAdmit`, `LedgerRelease`, and the admission hook's `reconcile` as one action per outcome, early returns included. |
| `Ipam` | pools and operator surface | `pool`, `register` per site, `records` per purpose, `stranded` (records whose pool was replaced). Addresses are numbers of `Width` bits, so the end of the family is reached. |
| `PortalAccounts` | account handlers, journal and replay | `live` (the portal state) and `replayed` (what folding the journal gives); one action per handler, each append with its own outcome; `behind` remembers the accounts and credentials an append failed for; `Restart`. |
| `AccountLockout` | both throttles | Ages instead of instants, cut off where they stop to matter, so time may run for ever. |
| `PortalSessions` | bearers, registry, ceremonies | One action per handler; counters and challenges keep their order; `lost` remembers which kinds of append failed for a credential. |
| `JobScheduler` | engine and runtime | `jobs`, `engine` (runs, backoff), `live` children, `exited`, `history`. One due job, one exited child per step. |
| `WorkloadPlane` | declared resources | `manifest`, `revisions`, `running`, `registered`, `journal`, `behind` (slots an append failed for); a restart replays one operation per step. |
| `EventLog` | `pillar-eventlog/src/lib.rs` | `content` (everything signed; the position is the hash), `log[r]` with events, heights, positions, tips; `Publish`, `AppendLocal`, `Ingest`. |
| `AntiEntropy` | sync on top of it | `net` of requests and answers; send, answer, apply, lose. Extends `EventLog`. |
| `EventLogProofs` | proofs about the event log and its anti-entropy | section 5 |
| `KeyedStore` | store over the op log | `log[r]` (possibly compacted), `full[r]` (what a replica that never compacts would hold; read by properties only), `clock[r]`. |
| `KeyDistribution` | offer ledger | Sets of offers, acceptances, confirmations and admissions, `sealed`, `policy`. |
| `KeyDistributionProofs` | proofs about ledger, escrow, artifacts and the web of trust | section 5 |
| `KeyEscrow` | escrow store | `envelope` (password it opens under), `consumed` tokens. |
| `StrictCofold` | fenced admission and document grants | `lease` register, the epoch `held` per key, the `stream` as a set of key and payload, the invariant's `counts`, `admitted` (every admission, read by properties only), documents with puts in flight; `Acquire`, `TryAdmit`, `PutGrant`, `MergePut`, `RevokeGrant`. |
| `StreamPersist` | durable operation store | Files and `.tmp` files of a directory, the log in memory, the calls of one append as steps, crashes and failing calls between them. |
| `SegmentChain` | IPFS-backed stream | Blocks, pins, adverts and the head file; an append is one step per store call; a reader rebuilds from the head. |
| `GeoReplication` | pinning on foreign replicas | Revocation epochs per remote, signed grants, pins. |
| `UdpStream` | pillar-udp stream transport | Per side the buffers, queue, the frame awaiting its acknowledgement, sequence numbers; `net` is the set of datagrams the network carries: one may be lost as it is sent, and is then delivered any number of times in any order; accept loop, drops, and sockets that fail (`ListenerEnds`, `PumpClosed`). |
| `BytePipe` | the abstract promise of a stream | What was written and what was read of it. |
| `ClientWire` | a command, its tiers and the operation server | Current operation, dial, whether the peer holds it, dials given up on, requests and replies in flight, what the node evaluated. |
| `UdpDataplane` | UDP load balancer | Health flags, counts of open relays, affinity, cursor, relay tasks, one probe; backends stop and come back. |
| `Governance` | governance handlers and bootstrap queue | One action per operation; `acts` is the signed log, `asked` remembers every quorum a recovery was opened with. |
| `TrustArtifacts` | signed attests | `attests`, `revoked`, `epoch`, `admitted`; the walk of a proof is an operator. |
| `OidcProvider` | endpoints and client registry | Clients, consents, codes, grants with their tokens and both indexes; `cut` and `redeemed` remember what was revoked and spent. |
| `SigningKeys` | custodied keys | Keys with their retirement, the current one, tokens signed. |
| `CellGroup` | a cell | Members, key epoch and who got it, objects, grants, published roots. |
| `RollingMigration` | replacing a view | Old and new log, declarations, ages since the last heartbeat, the cutover. |
| `Controller` | authorize, fetch, run, restart | Extends `LeaseCluster`; identity registry, capabilities, admitted fetches, replicas. |
| `SignalStore` | timeseries store | Blocks, policies, stamps and buckets; `promised` and `lost` remember deadlines given and the last signal dropped. |
| `TrustAuthority` | web of trust and RBAC | `trust` (edges and revocations), `mark` and `seen` per actor; `reachable_depth` as bounded rounds over a given order of the edges, decide and explain. |
| `StorageProofs` | proofs about keyed store, operation store, segment chain and geo-replication | section 5 |
| `NodeProofs` | proofs about cells, migrations, quota ledger, address pools, job scheduler, workloads and signals | section 5 |
| `PortalProofs` | proofs about signing keys, OIDC, sessions, accounts and governance | section 5 |
| `ProgressProofs` | proofs about throttling, streams, commands and the load balancer | section 5 |
| `InductionLemmas` | lemmas the proof modules share | Induction stated with sets; sums over finite sets, folds, recursion up to a bound, selections from a sequence, rounds over a list of edges. |
| `MCLeaseCluster`, `MCProgress`, `MCPortal`, `MCNodeRuntime`, `MCStorage`, `MCKeys` | instances for TLC; the violation runs use these or a component's own module | section 3 |

`PROJECT.json` maps every definition to the lines it stands for.

Data is reduced to what the properties tell apart. Signatures, ciphers and
passwords are what they decide; payloads, images and names are model values;
a hash is a position in the list of everything signed, which keeps the two
facts the code uses (equal content, equal hash; no link to a later content).

### Composition into runs

Where components share no state, one MC module holds several of them: the
variable `part`, chosen in the initial state, says which one a behaviour
follows, and the others stay where they started. An invariant of a component
is then checked in exactly the states that component reaches alone, and a
temporal property on exactly its behaviours (fairness is stated for the
actions of the chosen part). The composition adds no interaction and hides
none: where components do share state (ledger and register, sync and log,
hook and ledger, controller and lease cluster, co-fold and register, handlers
and journal) they are composed for real, by
`EXTENDS` or by embedding one's value in the other. A proof module extends the
MC module of its theme, or the components that MC module extends, so that a
theorem names the very definition the run checks.

## 3. Runs

| Run | Instance | Checks | Shows |
|---|---|---|---|
| `lease_safety` | 3 voters, 2 candidates that are also the 2 peers, 2 epochs (1 under controllers), 1 restart; 1 workload on either node, strict or relaxed, 2 images; one grant key and one quota key with ceiling 2, payloads that repeat | `LeaseInv`, `ImplementsExclusiveLease`, `ControllerInv`, `CofoldInv` | Whatever order two peers fold the grants in, with repeats, a release and a register loss, an epoch is never awarded to two candidates: the cluster implements `ExclusiveLease`. Fenced workloads run under an award of their epoch. On a strict stream only the epoch proven last is admitted, which was awarded to one candidate, and unique keys and ceilings hold. |
| `progress` | 3 voters, 1 peer; 1 identifier, threshold 2, cooldown 3, bucket 3; 2 bytes one way, 1 back, 2 accepts; 2 operations over 2 tiers; 2 backends, 2 relays, 2 stops | `BackedTopEpochIsWon`, `ThrottleInv`, `LockEnds`, `ImplementsPipe`, `FlushedIsRead`, `CommandEnds`, `HealthFollows`, `TransportInv` | The highest epoch a majority signed is awarded; guesses and bursts are bounded and locks end; pumps over a lossy network implement a byte pipe and deliver what was flushed while both ends keep their sockets; a command ends unless a peer holds its connection, and counts no answer that was not its own; health flags follow the backends. |
| `portal` | sessions: 2 users, 1 credential, 2 sessions, 1 parked login, 1 restart, 1 failing append; accounts: root and 1 user, 2 addresses, 1 passkey, 1 failing append; governance: 2 handles, depth 2, 4 acts; OIDC: 1 client, 5 tokens; 3 signing keys | `SessionsInv`, `RevokedNeverPromotes`, `AccountsInv`, `ReplayMatchesLive`, `GovernanceInv`, `RecoveryNeedsEveryQuorumAsked`, `OidcInv` | Revoked bearers are dead and challenges are spent once; a login is promoted by a live credential of its own user only; the journal rebuilds what it was told and otherwise only lags, nobody is locked out; a recovery waits for as many distinct signers as any of its openings asked for; what a revocation cut off stays dead; tokens verify for the grace period. |
| `node_runtime` | 1 job of every policy, 3 pids; 1 name, 2 images, 2 replicas; budget 5, amounts 0, 2, 3, 3 slots; 2-bit addresses, 2 pools of which one reaches beyond the family, 3 bindings, 2 of 3 voters present; cell and migration of 3 nodes; blocks of 2, 2 seconds | `SchedulerInv`, `NoSecondChild`, `WorkloadInv`, `AdmissionInv`, `HookSlotStaysFresh`, `CellsInv`, `SilentDoNotBlock`, `SignalInv` | Children, runs and rows stay accounted for and a Forbid job never has two children; replicas are of one image, the journal tells the manifests it was told and a deleted schedule does not fire; budget and balance hold and the hook's slot is never spoiled; addresses are recorded once and held when allocated, replaced pools excepted; who left a cell reads nothing placed since, and a cutover serves everybody and waits for nobody silent; a signal is held until its last deadline. |
| `storage` | 2 replicas, 2 authors, 3 events; 2 replicas, a writer on both and one on the second, clock 2; 3 operations, 2 crashes, 2 faults; 2 payloads, chains of 3, 2 troubles; 2 remotes, 2 epochs | `LogInv`, `SyncInv`, `ChainsOnlyGrow`, `AnswersApplyWhole`, `StoreInv`, `DecisionsMoveForward`, `DurableInv`, `HeadOnlyExtends`, `ReplicationInv` | Forks, gaps and duplicates leave every log whole and, while nobody forks, an answer applies whole however stale its digest; compaction never changes a read while stamps differ and no replica falls back; what an append returned survives every failing call and crash, and the head only extends; no grant from before a revocation is good again. |
| `keys` | 1 user, 2 cells, 3 nodes (2 foreign), a root and an operational key; 2 passwords, 4 tokens; 4 nodes and 5 certificates with a cycle and a shortcut, 4 orders; 2 attests, 2 epochs | `LedgerInv`, `EscrowInv`, `TrustInv`, `AuthorityNarrows` | Seals follow the policy in both directions; a token pays for one release; trust depths are those of the best path in every order of the edges, explain agrees with decide, revoked attests stay dead and budgets hold; authority only shrinks by a revocation and along a delegation. |
| `quota_two_nodes` | 2 ledgers of one attestation | `SharedBudgetRespected` (violated) | finding 1 |
| `portal_disabled` | the accounts part of `portal`, smaller | `DisabledNeverActive` (violated) | finding 2 |
| `keyed_tie` | the keyed part of `storage`, both writers on both replicas | `ReadsLikeFullHistory` (violated) | finding 3 |
| `stream_tmp_crash` | one crash during an append | `ReopensAfterCrash` (violated) | finding 4 |
| `fenced_revoke` | 1 grant, a put in flight, a revocation | `RevokedBeatsStaleGrants` (violated) | finding 5 |
| `downsample_interval` | 1 metric, intervals of 1 and 2 seconds, 4 seconds | `DroppedWasRepresented` (violated) | finding 6 |

Invariants that are conjunctions (`AdmissionInv`, `AccountsInv`, ...) contain the
module's type invariant and the named parts defined above them.

### Why the bounds are enough

* Three voters are the smallest cluster in which two majorities differ in more
  than their order and a minority exists; two epochs allow a vote to be too
  late for the lower one. Safety for any number is proved (section 5), so the
  controllers, which multiply the states, are followed through one epoch
  (`Bounded`); their invariant is proved for any number as well.
* A budget of 5 with amounts 2 and 3 is met exactly, exceeded by one request
  and left at zero; 0 is a legal amount and is included.
* One portal user besides root suffices because handlers touch one account
  and root; two addresses let one replace the other, and a passkey is revoked and
  enrolled again.
* One failing append (`MaxLost`) leaves one gap before, between and after appends
  that succeed, the second op of a handler included; the proofs are for any
  number. The workload plane counts failed appends with the others (`MaxOps`).
* Three bindings bind both sites and replace the pool of one of them, by the same
  pool or the other, after addresses were recorded in it.
* Two operations, the second only sent when the first is over, let an answer of
  the first arrive during the second; two tiers let a tier be given up.
* Two bytes make the second wait for the acknowledgement of the first, and two
  accepts let a stream be dropped and opened again by a late datagram.
* Two crashes or faults let a recovery itself be interrupted; a chain of three
  segments has a head, a parent and an interior.
* Quorums up to two with four acts let a recovery be opened with a threshold,
  approved, opened again with another and approved by the same signer.
* Five tokens and codes are a code, its pair, the pair of a refresh, and one
  of another grant. Three signing keys are a current one, one in its grace
  period and one pruned.
* Three nodes in a cell or a migration are one that leaves or falls silent,
  one that joins late and one that stays; versions 1, 2 and 4 lie below, at
  and beyond the window of target 2.
* Blocks of two signals and one sealed block let the same payload be written
  into both and one of them be dropped.
* Two sessions and one parked login allow each to be revoked while the other
  stands. `ChallengeTtl` 0 and `SessionTtl` 2 let both expire within the clock.
* One job with three pids allows a replaced child, its successor and one more;
  jobs share nothing. Rows and runs are cut by the state constraint `Bounded`
  (three of each), because history rows and failed spawns grow without bound.
* Three events are the smallest log with a chain of two, a fork of it or a
  causal parent in another chain. Hashes are ordered against creation, so a
  causal order never comes for free.
* Five certificates form a chain of three hops, a shortcut and a cycle, and
  are relaxed in four orders, with and against the chain.

### Fairness

* `progress`, lease part: weak fairness of folding each signed grant on each
  peer (anti-entropy re-delivers periodically and folding is idempotent) and
  of `try_acquire` (controllers retry in their reconcile loop). Nothing is
  assumed of voters, of `release` or of restarts, whose number is bounded.
* `progress`, login part: weak fairness of time alone. Attempts may keep
  coming or stop.
* `progress`, streams: weak fairness of the pump taking what is queued, and of
  an acknowledgement that keeps being sent; strong fairness of a
  retransmission getting through: the pump repeats the frame every 60 ms, and
  a datagram that is sent again and again is not lost every time. Nothing is
  assumed of sockets, which may fail.
* `progress`, commands: weak fairness of the command's own steps, among them the
  end of a wait in which nothing comes: a read of the UDP and HTTPS tiers and
  each wait of the QUIC tier but its write have a timeout of two seconds, and a TCP connect
  without an answer is ended by the operating system. A peer may hold a connection
  (`Hold`) by sending a part of an answer within every two seconds, or by taking no
  more of a QUIC request while it keeps the connection alive. Nothing is assumed
  of a peer that does so, and `CommandEnds` is stated for behaviours in which it
  is not done again and again.
* `progress`, load balancer: weak fairness of the forwarding loop, of relay
  tasks, which end by answer or timeout, and of the prober's loop. Backends
  stop and return finitely often (`MaxTroubles`).
* `node_runtime`, migration: time passes and the coordinator keeps trying to
  cut over. Members may stop for good.
* All other parts are safety only.

Deadlock is checked except where the bounded counters of a model end all its
behaviours: `progress`, `portal`, and the violation runs `quota_two_nodes`,
`fenced_revoke`, `stream_tmp_crash` and `downsample_interval`. In `storage`,
`keys` and `node_runtime` the only steps that may stand still are those of a
component whose bound is used up (`Stopped`, `CellStops`, `LedgerStops`, and the
last disjunct of `MCKeys`).

## 4. Findings

1. **Two nodes overspend a shared budget** (`quota_two_nodes`).
   `pillar-quota-ledger/src/lib.rs:221` checks against this ledger's own
   reservations, and nothing folds another node's op-log; the crate says "two
   nodes must never each admit 600m of a shared 1000m budget" (line 10).
2. **A disabled user gets a session** (`portal_disabled`). The second-factor
   handler (`pillar-cli/src/web_serve.rs:11426`) promotes a parked login and
   looks at no status, and disabling revokes sessions but no parked logins; the
   login handler says "Disabled accounts never obtain a session" (11541).
3. **Compaction and fold disagree on equal stamps** (`keyed_tie`).
   `winner()` (`pillar-keyedstore/src/lib.rs:189`) keeps the first of two ops
   with one stamp, `compact_reclaiming` (`pillar-streamdb/src/lib.rs:452`) the
   last; "compaction and the live fold can never disagree"
   (`pillar-keyedstore/src/lib.rs:437`). Stamps repeat when an actor writes on two
   nodes. This is about the libraries: the web server merges and compacts nothing.
4. **A crash during an append makes the store unopenable** (`stream_tmp_crash`).
   `persist_op` (`pillar-streamdb/src/persist.rs:250`) writes `<address>.tmp` and
   renames it; `open_with` compares the name of every file with the address of
   its bytes, so a left-over temporary file makes every later open fail with
   `Corrupt`. "A returned [`OpId`] is a persisted op — a subsequent crash +
   [`PersistentStream::open`] reloads it" (186).
5. **A revoked grant returns** (`fenced_revoke`). `revoke_grant`
   (`pillar-rbac/src/document_sql_migration.rs:127`) passes the fence and then
   deletes with an ordinary stamp; an older put with a larger stamp, merged
   later, wins. "Never a bare AP delete that a stale/concurrent grant write
   could race back into effect" (9).
6. **A larger downsample interval silences its series** (`downsample_interval`).
   The bucket key (`pillar-observability/src/block.rs:458`) has the number of the
   bucket and not the interval, so the numbers used under a smaller interval
   count as represented. Ticks are seconds since the start of the node: raising
   an interval of 10 to 60 after a day drops every sample of the next five days.
   "A signal falling in an already-represented bucket is dropped" (440).

### Known deviations

Met while translating; the models follow the code, and no run is devoted to
them. In each line the code comes first and the statement it departs from
second.

Ledger and addresses
: a refused admission still spoils its slot (`pillar-quota-ledger/src/lib.rs:230`, 32);
  reconcile drops the `ReservationId`, so its charge is never released
  (`pillar-manifest/src/admission.rs:188`, 49);
  `bind_pool` strands what was allocated from the old pool, which stays recorded
  as allocated and is held nowhere (`pillar-ipam/src/lib.rs:361`, `operator.rs:45`);
  `addr_at` wraps at the end of the family (`lib.rs:134`, 128);
  `reserve` accepts an address that can never be granted (`operator.rs:212`, 196);
  a released slot cannot be granted again by the same votes (`lib.rs:221`, 218);
  recording a purpose again strands its slot (`operator.rs:243`, 112).

Portal (`pillar-cli/src/web_serve.rs` where no file is named)
: a failed append to the journal is never repeated, and replay differs from what was
  live for good unless a later op about the same thing makes up for it (1403; "simply lags by that op until the
  next successful append", 1376). So a revoked passkey admits again after a failed append
  and a restart (11265; "Fail-closed and permanent", 11222), a passkey enrolled or an
  account invited may be gone, and a deleted manifest be back. `ReplayMatchesLive`,
  `CredentialsSurvive` and `JournalTellsManifests` say what a restart still guarantees;
  a contained caller keeps acting after an administrator's reset (9427, 9369);
  passkeys are filed under a subject that changes (11567, 11551);
  a verified address stays verified when it is replaced (`pillar-iam/src/lib.rs:412`, 9540);
  the export role is lost on restart (1828, 1823);
  the reset throttle is never consulted (677, 675);
  `revoke_all` leaves expired bearers in place (6776, 6736);
  challenges repeat after a restart (`pillar-web/src/webauthn.rs:123`, 103);
  a pending login may enrol a credential (11021, 309);
  a zero counter skips the regression check (`webauthn.rs:264`, 262);
  the age of a step-up is counted on a logical clock (3333, `pillar-rbac/src/key_export.rs:34`);
  signed acts are decided without the explicit grants (3165, 395).

Runtime
: a failed spawn blocks a Forbid job (`pillar-controller/src/scheduler_runtime.rs:291`, `pillar-manifest/src/scheduler.rs:53`);
  a job whose backoff is exhausted is still respawned (`scheduler.rs:286`, `scheduler_runtime.rs:44`);
  a reap may rewrite the row of another run (364, 105); the history grows without bound (108, 107);
  `resource_op_apply` is not journaled (`web_serve.rs:3974`, 1339);
  edit and rollout never reconcile (6274, 1870);
  `ResourceOp::Delete` does not deregister a schedule (3984, 1983);
  a rollback is not byte-identical (3725, 3689).
  `JournalTellsManifests` and `DeletedStopsFiring` are therefore stated for
  the handlers that do journal and deregister; the direct writes are actions
  of the model (`direct`).

Log, keys and trust
: a forked author never reconciles (`pillar-eventlog/src/lib.rs:665`, `antientropy.rs:184`), which is why the sync properties are conditional on `Unforked`;
  removing a user keeps its admissions (`pillar-key-distribution/src/lib.rs:246`, 225);
  a confirmation survives the revocation of what it confirmed (640, 563);
  `pillar offer resolve` cannot re-admit (`pillar-cli/src/identity_trust_cli.rs:744`, `pillar-key-distribution/src/lib.rs:674`);
  a failed decryption consumes the step-up token (984, 972);
  the RBAC depth rung ignores revoked grants (`pillar-rbac/src/lib.rs:654`, `pillar-wot-authority/src/lib.rs:100`);
  a satisfied general policy overrules an unsatisfied specific one (`pillar-rbac/src/lib.rs:636`, 174);
  `can_relay` counts an edge of a signer that is not reachable (`pillar-wot-authority/src/lib.rs:302`, 296);
  `decide_attest` never follows the authority pointer, so an attest of a role given without one outlives its giver's own (`pillar-trust-artifacts/src/lib.rs:473`);
  an attest that fails its verification stays stored (849);
  a later certificate by an unregistered primary displaces the chain of an admitted subkey (`pillar-identity/src/lib.rs:318`).

Governance and OIDC
: any reachable signer, invited at level 0 too, may approve a recovery and grant, where the comment speaks of authoritative admins (`web_serve.rs:574`); acts are logged before the subject is known to exist; adding a group replaces it and drops its members, whom no decision reads; the id of a grant joins subject and capability and may collide; all of it is in memory only;
  `authorize` does not look at a client's allowed scopes, and `token_refresh` not at its grant types;
  tokens of `client_credentials` are in no index, so that introspection calls them inactive;
  a code issued before its consent was revoked redeems after the consent is given again, and giving it again revives the earlier scopes;
  a code redeems after its redirect URI was removed.

Persistence, streams and cells
: `try_admit` asks for no candidate: whoever presents the epoch held for a key is
  admitted (`pillar-streamdb/src/cofold.rs:225`, "the only writer the reducer will admit", 12);
  an equal payload spends the ceiling again and leaves one operation in the
  content-addressed log (239, "On success the op is appended", 223);
  `acquire` lets a recorded holder return to an older epoch (`pillar-streamdb/src/cofold.rs`);
  `authorize_and_pin` does not compare the grant's remote with the replica (`geo_replication.rs`);
  the two seconds of a tier (`TIER_TIMEOUT`) are those of a read and not of the tier: a peer that keeps
  sending, a TCP connect and a QUIC write are waited for longer (`pillar-client/src/transport.rs:476`, 462, 406);
  a tier is also left when its answer is late or lost, so that an operation may be evaluated twice (`pillar-client/src/transport.rs:183`, "ONLY when the current one is unreachable");
  after a listener accepted a stream again, later frames are acknowledged and not delivered (`pillar-net/src/pillar_udp_transport.rs:242`);
  a member that declares the old version within the window counts as capable of the new view, and an append after the cutover refills the reclaimed log (`pillar-cells/src/migration.rs:225`).

Controller and signals
: neither `run` nor a restart looks at the lease again (`pillar-controller/src/lib.rs:623`, `deployment.rs:182`), and `reconcile_restarts` stops at the first replica that fails;
  the payload of a derived metric has neither tick nor labels, so that equal values of two rules with one emit name, of two groups or of two ranks are one signal (`pillar-observability/src/recording.rs`, the comment on `__rank`);
  a payload written again after its block sealed is held twice; `compact` is never called by the running node; `write` panics where a policy with an empty selector downsamples.

Read and not modelled
: a grant made after a review campaign closed is stale while none is active (`access_review.rs:18`); a session whose revocation was erased returns with a late merge (`pillarmsg_session.rs`); secrets of 2^61-1 and more are not recovered from their shares and duplicate shares are not refused (`pillar-recovery/src/lib.rs:303`); a spread of zero replicas returns all domains (`pillar-topology/src/lib.rs:564`); a failed dispatch is recorded as applied (`pillar-manifest/src/gitops.rs:336`).

## 5. Proofs

All proofs are checked by TLAPS with no admitted step. What a component assumes
of its constants is a definition (`CofoldAssumption`, `ChainAssumption`, ...) that
the MC module `ASSUME`s, so that TLC evaluates it on the instance, and that a
theorem has as its only hypothesis; the modules a run extends directly may
`ASSUME` theirs themselves. The assumptions are types, distinctness of the value for "nothing"
from the values it stands in for, and the structure the code relies on (at most
`ClusterSize` voters). A capability is a sequence of parts and a handle one part
of a grant's id: the proofs are for handles without a colon (the ids of others
may collide, section 4). Bounds such as `MaxClock`
are arbitrary naturals: the theorems hold for every bound.

Each proof has the same form: the invariant holds initially, every action keeps
it, temporal logic does the rest. What is worth reading is where the checked
property is not inductive, and what has to be added. An invariant called a core
(`LedgerCore`, `StreamCore`, ...) is that strengthening.

### Induction (`InductionLemmas`)

Sums, folds and recursive functions are part of the models, and what they compute
needs induction over data. The library's induction theorems have an operator as a
parameter, which the provers cannot instantiate, so induction is stated with sets
instead: every set of naturals that has an element has a least one, hence a
set with 0 that is closed under successor has all naturals, and a set of subsets
with `{}` that is closed under adding an element has every finite set. A
recursive function is shown to exist by building its graph up to a bound
(`SumTableExists`, `FoldTableExists`, `IterateExists`, `SelectionExists`), and a
proof about it is an induction on the set of the arguments where it holds. Rounds
over the edges of a graph (`reachable_depth`) are iterations of a relaxation
that only raises depths; `RoundsFindBest` says that one round more than the
root's budget ends at the best path from it, in every order of the edges.

### Lease cluster, controllers, co-fold (`LeaseClusterProofs`)

The exclusive award is not inductive: a
step sees the votes on one register, not how they came there. `LeaseInv` adds
that a voter signs one candidate per epoch (`OneCastPerEpoch`), that every
folded grant was signed (`GrantsAreCast`), that every holder is on record as
a winner (`HoldersWon`) and that every winner was signed for by a quorum
(`WonByQuorum`). Two quorums of at most `ClusterSize` voters share one
(`QuorumsIntersect`, from the cardinality theorems), which signed once.
* `LeaseInvariant`: `Spec => []LeaseInv`.
* `ExclusiveHolder`: `Spec => []AtMostOneHolderPerEpoch`.
* `LeaseRefinement`: the cluster implements `ExclusiveLease`, by the mapping
  from the history of awards to the single award.
* `ControllerInvariant`: fenced workloads run under an award of their epoch, in
  the composition with the cluster. Between `fetch` and `run` the lease is not
  looked at again, so the invariant also says that an admitted fetch was
  admitted under an award, and leans on `LeaseInv` for there being only one.
* `CofoldInvariant`: on a strict stream a unit of a ceiling is spent by an admission
  and by nothing else, unique keys are claimed once, and nothing is admitted under an
  epoch the register did not award for the key. The code asks a writer for the epoch
  only (section 4), so who wrote is not claimed. What is claimed of the epoch is that
  one candidate only was ever told it holds it: the register may name an older holder
  again, and what carries the proof is that a majority of the voters still backs that
  candidate or has moved on to later epochs (`EpochsAreProvedOnce`).

### Event log (`EventLogProofs`)

`LogInv` is inductive because admission looks only at the tip, the heights and
the parents held: `ChainsAreWhole` ties tips and heights to positions,
`HeldIsSigned` keeps ids within what was signed when more is signed.
* `LogInvariant`: `Spec => []LogInv`, for any number of replicas, authors and
  payloads, whatever is ingested.
* `AppendAlwaysValid`: the `expect` in `append` cannot fire.
* `LogOnlyGrows`: no step drops or moves an event.

Sync adds messages that are older than the logs they meet. `SyncCore` says of a
request that its digest is at most the height its sender has by now, and of an
answer that its events are signed and, while nobody forks, that every link of
each is held by the receiver or comes earlier in the answer. The second part is
what `emit_in_causal_order` is for: its recursion ends because a hash links only to
older content (`EmitExists`), its output has causes before effects
(`EmittedInOrder`), and a receiver that takes such an answer event by event refuses
none (`AppliedWhole`).
* `SyncHolds`: `AESpec => []SyncInv`; while no author forks, one pull leaves
  nothing behind.
* `AnswersTakenWhole`: while no author forks, every event of an answer is admitted,
  however stale the digest it was made for.
* `SyncKeepsChains`: the results about the log alone hold with sync running,
  forks included.

### Storage (`StorageProofs`)

* `StoreInvariant`, `StoreMovesForward`: compaction never changes a read while
  stamps differ, and no replica's decision falls back. The reads are maxima over
  what a replica holds, so the invariant (`StoreFolds`) compares that with
  everything it ever saw: each of the latter is covered, field by field, by an
  operation still held. Appending, merging and compacting each keep it.
* `PersistInvariant`: what `append` returned is on disk. `JobProgress` says how far
  the append in flight got, which is what a crash leaves behind.
  A crash is the end of the process: what the system was given to write is taken
  to survive. A loss of power, which can undo a write that was not synced, is not
  modelled.
* `ChainInvariant`, `HeadExtends`: a head on disk has its whole chain pinned, what
  was acknowledged is reachable from it, and it is replaced only by one that
  extends it. `StepProgress` relates each step of an append to what the earlier
  ones stored.
* `DurableStores`: the two together are `DurableInv`.
* `ReplicationInvariant`: a grant signed before a revocation stays refused; the
  epoch of a remote is above that of every fenced grant (`EpochsFence`).

### What a node runs (`NodeProofs`)

* `CellInvariant`: who left reads nothing placed since. Epochs of sealed objects
  must be tied to who was handed their key (`SealedEpochsWereKnown`).
* `MigrationInvariant`: every member reads every operation all along, from
  `ViewsAreWhole`.
* `CellsInvariant`: the two together.
* `AdmissionHolds`: reservations within the budget and as the log tells, a slot
  each; an address recorded once and held when allocated. `LedgerCore` keeps the log
  finite, the outstanding reservations equal to the admitted less the released,
  and every admission in a slot of its own, below the next one and held by its
  candidate; the sum over a set that grows or shrinks by one is then what the
  code adds or subtracts. Pools may be replaced at any time and reach beyond the
  address family: `stranded` names the records whose pool was replaced, and
  a slot is shown to belong to one address because `index_of` accepts only
  addresses of the family, for which `addr_at` does not wrap.
* `HookNeverWedges`: a wired hook whose pending slot every voter can grant has such
  a slot after every step, because an admission spends all votes on the pending
  slot and then moves on to the next, whether it is charged or refused.
* `SchedulerHolds`, `NoSecondChildHolds`: `Accounted` says that a job has at most as
  many children as running runs and as running rows. A replacement finishes
  the runs of all the children it stops, one by one in a fold, so the counts are
  carried through it (`FoldInvariant`); the cap on finished runs is a count of positions.
* `WorkloadsHold`: replicas of one image and no more than desired; the manifests are
  what the journal tells; a deleted schedule is not registered. `WorkloadCore`
  follows a restart through its replay: what is left to fold is the end of the
  journal, and while nothing came over the tier that is not journaled, the
  manifests are those of the part before it. A failed append takes its slot out of the
  claim (`behind`) until a whole body is recorded for it: an op touches one slot, so
  two sets of manifests that agree on the others still do after it.
* `SignalsHold`: a signal is held until its last deadline. `SignalCore` says that
  the payload of every promise still due is in a block that is kept at least until
  then (`PromisesKept`), through rewriting, sealing, new policies and compaction.

### Portal (`PortalProofs`)

* `SigningInvariant`, `OidcInvariant`: a token verifies through its key's grace
  period; both token indexes agree with the grants, what a revocation cut off
  stays dead and a refresh token is spent once.
* `SessionsInvariant`, `PromotionsAreBacked`: revoked bearers admit nothing,
  challenges are spent once and a restart brings back the credentials as far as
  they were journaled; a parked login is promoted only by an unrevoked credential of
  its own user.
* `AccountsInvariant`, `ReplayInvariant`: nobody is locked out, a forced account
  holds no operational offer, and the journal rebuilds what no append failed for
  and gives nothing that was not live. The invariant says of the live state and of
  the replayed one that each is good, and that the two agree on every account and
  credential the journal is not behind on: each handler and its replay arm is
  one function of a state that touches what its op is about, so it keeps the two in
  agreement when the op is appended and takes what it touched out of the claim when not.
* `GovernanceHolds`, `RecoveriesNeedQuorum`: an open recovery lacks approvals for
  the largest threshold asked for, and its approvers are among the signers of the
  log, so when it closes as many distinct members have signed as any opening
  asked for; whatever stands was signed for; a grant check answers from the one
  document with its id (`GrantIdsTellGrants`); requests are decided once. Whoever
  signed is still reached by the trust graph (`SignersMayAct`): edges are only
  added, and rounds over more edges end no lower (`RoundsMonotone`).

### Keys (`KeyDistributionProofs`)

`SealedMatchesAllowlist` alone is broken by an offer or a revocation unless an
admission is known to have its offer, so `LedgerInv` has both.
* `LedgerInvariant`: `Spec => []LedgerInv` (with `SealsFollowPolicy` and
  `ConsentOfBothSides` as its two readings).
* `ForeignGate`: no seal to a foreign node without a confirmation.
* `EscrowInvariant`: no root key is escrowed and a token pays for one release.
* `ArtifactInvariant`: a revoked attest stays dead, roles descend from the one
  genesis, budgets hold.
* `TrustHolds`: the rounds end with the best path in every order of the edges;
  whoever passes the fence, which compares counts, has seen every revocation
  (revocations only accumulate, so equal counts are equal sets); explain and
  decide agree. `TrustCore` keeps the revocations finite and each actor's mark
  the count of what it saw.
* `AuthorityOnlyNarrows`: no revocation adds depth, authority, relay rights or
  membership (`RoundsMonotone`), and who gains by a new edge ends below its signer
  (`NewEdgeNarrows`).

### Transports and throttles (`ProgressProofs`)

* `StreamsDeliverInOrder`, `PipeIsImplemented`: what is read is a prefix of what was
  written, also where an end loses its socket with frames queued, and from dialer to listener the pumps implement `BytePipe`. `StreamCore` cuts the bytes of a
  direction into frames: what is in flight and queued are the frames after the
  acknowledged ones, every datagram on its way carries a frame that was taken, and
  the other side has read whole frames, all it counts while it reads at all
  (`Flow`); an acknowledgement tells of a frame that arrived (`AcksTell`). A
  listener that accepts again starts its own numbers over: from then on the
  bytes it sends back are not claimed to arrive in order (`Joint`), while what it
  reads is still a prefix of what the dialer wrote.
* `TransportHolds`: the above with `WireCore` (dials, requests and evaluations are in
  the order of the operations, so an answer recorded is one to the operation that
  asked) and `BalancerCore` (the count of a backend is the number of its relay tasks).
* `ThrottleHolds`: for each stretch of past seconds, the requests let through in it
  and the tokens left are together at most the capacity and the refills of that
  stretch (`Paid`); the guesses of a cooldown are counted in the attempts
  (`CountedIn`), which are below the threshold unless locked (`BelowThreshold`).
  Where a lock stands, nothing was evaluated since it began.

`ExclusiveHolder`, `AppendAlwaysValid` and `ForeignGate` follow from the invariant
beside them, which the runs check; they have no run of their own.
`PersistInvariant`, `ChainInvariant`, `CellInvariant`, `MigrationInvariant`,
`SigningInvariant`, `ArtifactInvariant` and `StreamsDeliverInOrder` state parts of
the conjunctions the runs check. Every invariant, action property and refinement
that a passing run checks is stated by a theorem.

### Only model-checked

* Liveness under fairness, which the prover does not reach (it has no rule for
  `ENABLED`): `BackedTopEpochIsWon`, `LockEnds`, `FlushedIsRead`, `CommandEnds`,
  `HealthFollows`, `SilentDoNotBlock`.
* The properties of the violation runs, which do not hold.

## 6. Not modelled

* The browser front end and the rendering and parsing of the command line: they
  hold no state the node depends on. They, the tests kept inside the source
  files and the codecs are most of the lines of the repository, which is why
  the mapped lines are a small share of it: the mapped lines are the state
  machines of the node, and the remainder offers little for a model checker.
* The query language, alerts, correlation and metadata views of the
  observability plane, the OTLP import, SQL views: pure readers and converters.
* Topology and swarm descriptions, and the spread of replicas over domains:
  functions of a description.
* The IPFS node and blob provider beyond the store calls `SegmentChain` makes.
* IAM policy documents: they are evaluated per request and change by
  replacement. Access reviews and grants that expire would be worth a module.
* Vouched recovery as a library (`pillar-recovery`): the node's own recovery is
  in `Governance`; the arithmetic of secret sharing is no state machine.
* Gitops reconcile: a diff followed by one dispatch per resource.
* Join tokens and the founding of a first cell; the version gate between
  cells (`federation.rs`), one comparison before an append; key login and global
  identity.
* Ciphers, signatures and codecs enter as what they decide. Merge gates and
  test tooling are not part of the node.

## 7. Plan

1. Access reviews and expiring grants; join tokens; gitops reconcile with its
   failing dispatches.
2. The key-value and document tiers of the node over `KeyedStore`.
3. For each, the strengthened invariant beside the component and its theorem in
   the proof module of the theme. The liveness properties stay with TLC.

New components join the MC module of the theme they belong to.
