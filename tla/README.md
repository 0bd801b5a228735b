# A TLA+ model of coreline-orchestrator

The orchestrator accepts *jobs* (a prompt for a repository), starts coding
*workers* (child processes) for them under capacity and conflict limits,
collects their results and ends each job with an aggregated status. Several
orchestrator *runtimes* may share a control plane, and remote executors may run
workers. Everything is single-threaded JavaScript: there are no data races, but
every `await` lets another request, timer, exit handler or promise run, and most
operations are "read a record, await, write the whole record back". That, and
the expiry of leases and heartbeats, is what this model is about.

Paths below are relative to the repository's source root, `src/src/`.

## 1. Inventory

| Component | State it keeps | Operations | Works with | Hard behaviour | What makes it correct |
|---|---|---|---|---|---|
| State machine (`core/stateMachine.ts`, `core/models.ts`) | none; transition tables | `assertValid*Transition`, terminal sets | everybody | only *some* writers assert | a terminal status is final |
| Scheduler (`scheduler/scheduler.ts`, `policies.ts`) | `#dispatching`, timers | `submitJob`, `cancelJob`, `retryJob`, `dispatchLoop`, `claimRemoteJob`, `start`, `stop` | queue, store, worker manager, coordinator | a pass works on a snapshot while exits, stops and cancels go on; a failed start is retried by a timer | limits hold; no job is lost; a job ends once |
| Dispatch queue (`scheduler/queue.ts`, `sqliteQueue.ts`) | ordered job ids | `enqueue`, `dequeue`, `remove`, `list` | scheduler | re-enqueueing and order, restart | priority, then first come first served |
| Worker manager (`workers/workerManager.ts`) | `#runtimeHandles`, `#workerResults`, `#workerSettlements`, `#jobAggregationTasks`, `#workerHeartbeatTimers` | `createWorker`, `startWorker`, `stopWorker`, exit handler, aggregation, remote and reattach operations | scheduler, adapter, aggregator, store, coordinator, sessions | start, stop and exit of one worker overlap; the promise chain of a job's aggregation | no process out of reach; right verdict |
| Result aggregator (`results/resultAggregator.ts`) | none | `collectWorkerResult`, `aggregateJobResult` | worker manager | missing or malformed results | strict: one failed worker fails the job |
| Process runtime adapter (`runtime/processRuntimeAdapter.ts`) | child handles, timeout timers | `start`, `stop`, `getStatus`, `attachSession` | worker manager, operating system | signal, timeout and exit race | a stop ends the process |
| Recovery rules (`runtime/recovery.ts`) | none | `classifyWorkerRecoveryDisposition`, `terminatePersistedRuntime` | worker manager, reconciler | the record may be older than the process | a live process is not forgotten |
| Coordinator (`control/coordination.ts`, `sqliteCoordinator.ts`, `serviceCoordinator.ts`) | executors, leases, assignments | register, heartbeat, unregister; acquire, release, get lease; upsert, release worker heartbeat | scheduler, worker manager, reconciler, runtimes | expiry against late heartbeats; takeover; crash | one leader; fenced assignments |
| Orchestrator runtime (`index.ts`) | the objects above, heartbeat timers | `createOrchestratorRuntime`, `stopRuntime`, `stopOrchestrator` | all | drain while dispatching; forced reconciliation at start | what it owns is drained |
| Reconciler (`reconcile/`) | none | `reconcile`, cleanup | store, worker manager, coordinator | crash at any point; another runtime may own the worker | every orphan is repaired, nobody else's worker is |
| Cleanup (`reconcile/cleanup.ts`) | none | removal of worktrees, old logs and results | store, isolation | a pass starts workers meanwhile | no running worktree is removed |
| Remote plane (`control/remotePlane.ts`, `remoteExecutorAgent.ts`, `api/routes/internal.ts`) | claims in flight | claim, heartbeat, result, drain | scheduler, worker manager over HTTP | duplicated, late and lost calls | a result counts once and only from the owner |
| Executor daemon (`control/executorDaemon.ts`) | daemon state | start, drain, stop | agent | stop during start | claims are finished or released |
| Session manager (`sessions/`) | session records | create, attach, detach, cancel, send, runtime updates, reconcile | worker manager, adapter, API | stale whole-record writes | status, clients and worker agree |
| Session transports (`runtime/sessionWorkerClientAdapter.ts`, `codexStdioSessionClient.ts`) | transport state, subscribers, a polled or piped output | attach, detach, send, subscribe to output | session manager, realtime routes | history against live output; end of the process | no chunk is lost to a subscriber |
| State store (`storage/`) | files or sqlite rows, caches, logs, artifact index | CRUD, queries, append, import, cutover | all | two writes of a record under way; caches refreshed by overlapping calls; interrupted import | the last write is what a restart reads; the backends answer alike |
| Events (`core/eventBus.ts`, `serviceEventStream.ts`, `api/routes/events.ts`, `realtime.ts`) | subscribers, offsets | publish, subscribe, poll, replay | all | replay against live events | each event once, in order |
| HTTP routes, auth, audit (`api/`) | none between requests | requests | scheduler, worker and session manager | concurrency of the handlers they call | - |
| Isolation, logs, manifests | files, objects | create worktree, append, copy | worker manager, agents | I/O failures; a manifest before its blob | - |
| Worker SDK (`worker/sdk.ts`) | none | helpers for the programs that run as workers | - | - | - |
| Config, readiness, ops scripts, CLI | none | - | - | - | - |

`PROJECT.json` lists each with its sources and how far it is modelled, and, under
`hazards`, every place where this code can go wrong in a way a test would hardly
reach, with the property that covers it or the reason why none does.

## 2. Modules

| Module | Models | Proofs |
|---|---|---|
| `StateMachine` | the status tables and `#advanceJobToStatus` as pure operators | - |
| `JobControl` | scheduler and worker manager of one runtime over the shared store | `JobControlProofs` |
| `LeaderLease` | what the dispatch lease promises, abstractly | - |
| `Coordinator` | coordinator, heartbeats, leases and the life of several runtimes; implements `LeaderLease` | `CoordinatorProofs` |
| `Recovery` | crash, shutdown and restart of one runtime: reconciler, cleanup, both queues | `RecoveryProofs` |
| `MultiHost` | several runtimes over one store, one queue and one control plane | `MultiHostProofs` |
| `RemotePlane` | claims, remote heartbeats and results, executor agents and daemons, the requests between | `RemotePlaneProofs` |
| `Sessions` | session records under API calls, callbacks, the worker's life, restarts | `SessionsProofs` |
| `Realtime` | delivery of events and of session output to clients | `RealtimeProofs` |
| `AppendLog` | what a log promises, abstractly | - |
| `Storage` | the steps of concurrent calls of either store; implements `AppendLog` | `StorageProofs` |
| `StoreContract` | what a store keeps through import, cutover and rollback, abstractly | - |
| `StateStores` | both stores' operations and queries; implements `StoreContract` | `StorageProofs` |
| `MC...` | values and symmetry for TLC | - |

The modules share `StateMachine` and divide the system by question rather than by
file. `JobControl` has the dispatch pass, stop, exit and aggregation step by step;
`Recovery`, `RemotePlane` and `MultiHost` compose the parts of it that matter to
them, at the grain at which a crash, a lost request or another host can leave
something different behind, with the reconciler, the executors or the control
plane. A store operation is one step everywhere but in `Storage`, which shows what
of that the stores really give.

### JobControl

A step is the code between two awaits that touch shared state; a record that the
code keeps in a local variable over an await is in the state of its task:

| Variable | Code |
|---|---|
| `jobs`, `workers` | the store's records, reduced to the fields the control depends on |
| `queue`, `timers` | `DispatchQueue`; retried jobs waiting in `setTimeout` |
| `d` | the one dispatch pass (`#dispatching`) with its program counter, snapshot sets `act`, `wr`, the job and the records it holds (`snap`, `wrec`) |
| `cancel`, `stop` | `cancelJob` per job; `stopWorker` per caller (a cancel, or the operator's request) |
| `exit`, `rt` | `#handleWorkerExit` per worker; the child, its result file, its entry in `#runtimeHandles` |
| `results`, `agg` | `#workerResults`; `#jobAggregationTasks`: the waiters of a job's promise chain, its running task, and whether it has rejected |
| `up` | FALSE after an unhandled rejection, which ends a Node/Bun process |

`Pass` follows `dispatchLoop` line by line: `BeginPass` (231-248), per job
`DropJob`/`AtCapacity`/`SkipConflict`/`TakeJob` (250-286), `Prepare`, `LoopTest`,
then `createWorker` (`CreateWorker`, `LinkWorker`) and `startWorker` (`StartRead`
... `Register`), the failure path (`StartFailed`, `FailureRead`, `FailureWrite`,
`CreateRetry`) and `AfterLoop`. `Canceling`, `Stopping`, `Exiting` and
`Aggregating` are the other tasks. `Faults` says which I/O steps may fail: worktree
creation, spawn, the first heartbeat, writing the aggregated result.

Abstracted: ids are model values; all jobs are in one repository; the queue is a
set (a pass may visit it in any order, which includes the right one); published
events and artifacts are left out, and so is their failure; the timeout and the
signal escalation of the adapter are "the process ends somehow".

### Coordinator

Time is discrete: an expiring record keeps the ticks it has left. `Tick` happens
only when every timer set has fired since the last one (`Punctual`): the code's
heartbeat interval (1 s) against its TTLs (5 s lease and heartbeat, longer for
executors) relies on no runtime being blocked for a whole interval. Versions
count to `MaxVersion` and stay there. `pass` says which runtimes are in a
dispatch pass; it stands for the rest of `dispatchLoop`, whose details are
JobControl's. `until` is not in the code: it is the time during which a runtime
that was granted the lease may count on it, a history of the grant, kept to state
what the lease is worth. `Session` allows `Reattach`, the startup reconciliation's
takeover of a live session worker. `Service` puts heartbeats in flight, to be
delivered once in any order. A crash ends a runtime with its timers and its pass
and leaves records and children.

`BumpOnUnregister` tells the sqlite coordinator (which advances an assignment's
version when its executor unregisters) from the in-memory one.

### Recovery

| Variable | Code |
|---|---|
| `mode` | down, starting (forced reconcile), up, draining in `stopRuntime` |
| `jobs`, `workers` | the records, with what a restart reads of them: pid, worktree path, `cancelRequestedAt` |
| `os` | processes, result files and worktree directories, which outlive the orchestrator |
| `queue` | the dispatch queue; the memory one is lost with the process and filled from the records at the start, the sqlite one stays |
| `timers`, `d`, `exit`, `beat`, `cached`, `agg` | the runtime's memory: retry timers, pass, exit handlers, heartbeats, `#workerResults`, aggregation |
| `rc` | `Reconciler.reconcile`: the workers and jobs it listed, where it is |

`RcList` to `RcFinalize` are the reconcile pass: each listed worker is skipped or
terminated and marked lost, a fallback result is written, its job is put back or
left; then jobs whose workers have ended are finalized; `RcCleanup` is the
`CleanupManager` that ends the pass. `Crash` may take the processes along or leave them. The model
assumes that a job has one worker at a time, that a start is shorter than
`workerStaleAfterMs` (30 s), and that a signal to a live pid works. `Races` lets a
worker settle between being listed and being judged.

### MultiHost

Several runtimes over one sqlite store, queue and control plane: per host its life
(`run`), dispatch pass, reconcile pass and exit handlers; shared are the records,
the ordered `queue`, the dispatch `lease` and the `assigned` workers. `Boot` is a
start with its forced reconciliation, `Stop` to `Unregister` is `stopRuntime`,
`DeleteLease` the second half of `releaseLease`, which names the key only. Assumed:
running hosts renew in time (what `Coordinator` is about) and a lease
outlives a pass, all hosts see each other's processes (one machine, as in the
repository's two-host drill), listing and judging in a reconcile pass are one step.
Capacity, conflicts and failing starts are JobControl's. `Joins` lets a runtime
start while others run workers, `StopMidPass` lets one be stopped during a pass.

### RemotePlane

| Variable | Code |
|---|---|
| `jobs`, `queue`, `workers`, `lent`, `results` | the control plane's records, queue, assignments, `#workerResults` |
| `claim` | `claimRemoteJob`, one request per agent: its snapshot of active workers and queue |
| `agent` | an executor daemon: state, polling, `#claiming`, how it is being stopped |
| `task`, `active`, `timer` | `#executeClaim` of each claim, `#activeWorkers`, heartbeat intervals |
| `proc`, `stored` | the worker's process, its exit and result file; the result in the object store, blob and manifest |
| `net`, `srv` | requests not yet handled; handlers between the read and the write of a record |

A request is lost, or handled once at any later time, and its answer may be lost.
A rejected request in a promise that nobody awaits ends the agent's process with all its
tasks, which is what the runtime pinned in `package.json:8` does; its child
processes live on. `Lapse`, `RepairLost` and `FinalizeJob` are the reconciler on a
host where remote workers have no process. `Serial` serves claims one at a time,
`InOrder` keeps an interval heartbeat from being handled after something sent
later, `SharedFiles` is the transport without an object store.

### Sessions

One session-mode worker and the sessions of its life. Every API call (`call`), the
start and exit of the worker (`start`), the output callback (`pump`) and the repairs of a
start (`boot`) hold the copy of the record they read, and a step ends at a write of
it. Creating, attaching, detaching, sending and cancelling follow
`SessionManager` and the part of `WorkerManager` behind it; `Crash` forgets the calls, the handle
and the callbacks, and `BootWorker` and `BootSessions` are the reconciliation and
`reconcileSessions` of the next start. Left out: closing open sessions at shutdown,
the diagnostics, and the moment in which a reattached runtime has two handles.

### Realtime

An event is its place in the log and a chunk of output its place in the output, so
that what a client was sent (`conn[c].got`) can be compared with what there was.
`scope` is fixed at the start: the events of a job, a worker or a session; the
output of a session over the file transport, which polls a file; or over the stdio
transport, which pipes a process. `sub` is the connection's event subscription
with the offset, page and interval of `serviceEventStream.ts`; `stream` the output
subscriptions with the walk through transcript and history that precedes live
output. With `Hasty` FALSE clients do not close a connection
while its message is handled, resume before they subscribe, or detach twice: each of
these leaks a subscription or a client count in the code.

### Storage and StateStores

`Storage` runs overlapping calls on one kind of thing (`part`): a worker's or a
session's record, the event log or a transcript, in the file or the sqlite store.
The file store writes a temporary file, renames it, changes its cache, and rebuilds
the artifact index, with an await after each; a log is appended to, measured, read
and cached the same way. A statement of the sqlite store is one step. `Restart` ends every
call and reads the files again. `before` in a call is a history: the calls that had returned
when it began. As a log, both stores implement `AppendLog`; the event
log of the file store does so in its file only, lists of it are left out of the refinement.

`StateStores` has whole operations: what each store keeps, and what it answers to
get, list with filters and limits, find by identifier or reattach token, pages of
events and transcripts, and artifact lookup. `Start` runs on either backend and imports
the files into an empty database. With `Interrupt` the process may end inside the import.
No two updates carry one `updatedAt` (`times`): records updated in one millisecond would be
listed in an order that neither store promises. `Picked` is `Array.filter`; `Sorted` is
`Array.sort` and `order by`, as the k-th of a sorted list is the one with k - 1 smaller keys.

## 3. Runs

| Run | Question | Properties | Bounds |
|---|---|---|---|
| `jc_dispatch` | capacity, aggregation, progress and no unhandled rejection, when nothing fails and nobody stops anything | `NoLostJob`, `CapacityRespected`, `StrictAggregation`, `StaysUp` | 2 jobs, up to 2 workers each, 2 slots, 3 worker ids: a job can be short of workers, replaced, and wait for the other |
| `jc_retry` | one writer per repository, no lost job, no orphan, every job ends, under spawn failures and retries (fair) | `WriteExclusion`, `NoLostJob`, `NoOrphanProcess`, `EveryJobEnds` | 1 submitted job, 2 retry ids, 2 workers, write limit 1, `MaxRetries` 1; result files that agree and that are missing |
| `jc_stop` | a cancel and an operator's stop at any point, also both at once, with failing worktrees, heartbeats and aggregations | `CanceledWasRequested` | 1 job, 1 worker; the property is about one worker and proved for any number |
| `co_lease` | the lease has one holder, is honoured and comes back (fair); assignments change hands only with a newer version; a live worker stays fresh, an ended one is not renewed | `GrantHonoured`, `AliveIsFresh`, `SingleLeader`, `AssignmentFenced`, `EndedNotRenewed`, `LeaderReturns` | 2 runtimes, both may crash and one may be stopped, reattach, heartbeats in flight to a service that answers before the next tick, TTLs of 2 ticks, versions to 2 |
| `rc_restart` | what a crash or a shutdown at any point leaves is repaired (fair) | `NoStrayProcess`, `TreeKept`, `CompletedOnResults`, `Settles` | 1 submitted job and 1 retry id, 2 workers, both queues, failing worktrees, 1 crash or shutdown; a worker succeeds with a result file or fails without |
| `mh_takeover` | another host takes over from one that stops or crashes (fair) | `OneProcessPerJob`, `LostOnlyWhenGone`, `EveryJobEnds` | 2 hosts, 1 job, 2 workers, each host started once |
| `rp_claims` | a worker's result is that of its process, and the job ends, through lost requests, stops and crashes of executors (fair) | `ResultAfterExit`, `OneProcessPerJob`, `TerminalStays`, `EveryJobEnds` | 2 executors, 1 job, 2 workers, 1 fault of any kind |
| `se_records` | records of sessions under stale whole-record writes (fair) | `StatusMatchesClients`, `OnlyLateReopen`, `BootHeals`, `CancelStops`, `ExitSettles` | 2 sessions, 2 callers, 2 calls that change a session, 1 crash |
| `rt_delivery` | no gap between history and live events or output, nothing left subscribed (fair) | `NoSkip`, `Released`, `NothingDropped`, `EveryEventSeen` | 2 clients over files, 1 for events and stdio; 3 events, 2 chunks, 2 output subscriptions, pages of 1 |
| `st_records` | overlapping calls and restarts of a store | `NoLostUpdate`, `ArtifactFound`, `IsALog` | 3 writes, 3 entries, 2 readers, 1 restart, all kinds of part |
| `sp_parity` | both backends answer alike and implement one store | `Answers`, `Contract` | 1 job, 1 worker, 2 sessions, 1 artifact, 4 calls, 2 starts, every filter, page and limit |
| `mh_join` | a violation, see below | `LiveWorkerKept` | 2 hosts, the second starts while the first runs a worker |

Why the bounds suffice: two workers are enough for what one worker can be to
another (its sibling in the job, its rival for a slot, its successor after a repair); a
third id in `jc_dispatch` lets a job replace a sibling. Two runtimes are the leader and its rival,
two executors the one that fails and the one that stays. TTLs of two ticks
distinguish fresh, about to expire, and expired. Two overlapping writes and a
third that follows, two appends and a list between, are what the caches can confuse; a
page of one event makes every poll leave something behind. One crash meets every step;
a second one would meet only states that the first already leaves, records of any
status with or without processes, since a start begins from the records alone.

Deadlock is not checked: jobs end, ids, versions and calls run out, runtimes stay off.

### The disagreement

`mh_join` is the counterexample of `findings`: a runtime that starts beside a
running one reconciles with `forceRuntimeRecovery` (`index.ts:176`), which asks neither for
the age of a record nor for its assignment, kills the live workers of the other and
writes them off, where `docs/ARCHITECTURE.md:820` says that a fresh assignment suppresses the repair.

### Stated, and not true of the code

These properties are in the modules, marked so, because they are what one would
expect; no passing run has them. TLC refutes each under the constants named.

| Property | What the code does |
|---|---|
| `JobControl!JobEndsOnce` | a cancel writes a record read before the job ended (`Cancelable` not empty) |
| `JobControl!SlotsBacked` | a start that fails before its `try` leaves the worker `starting` and its slot used up (`Faults` with `"worktree"`) |
| `JobControl!NoLostJob`, `Faults` with `"worktree"` | such a start leaves its job, if another worker of it has moved it on, waiting for the worker that never runs, until a restart |
| `JobControl!CompletedMeansAllEnded` | the first worker ends before the second is created: the job is completed, the second runs on (two workers per job) |
| `JobControl!CapacityRespected`, with stops | a stop during a start ends the record, not the start: one process too many |
| `Coordinator!OnlyLeaderDispatches` | a pass longer than the lease starts workers under another leader |
| `RemotePlane!ClaimsWithinLimits`, `Serial` FALSE | two claims count the same workers; also, two claims in flight exceed an agent's capacity with 2 jobs, 2 slots and `Capacity` 1 |
| `RemotePlane!TerminalStays`, `InOrder` FALSE | an interval heartbeat that arrives after the result reopens the worker |
| `Sessions!CloseIsFinal` | a write of an operation that read the session before it was closed (what `OnlyLateReopen` allows, and nothing else) |
| `Realtime!CursorKept`, `OneChunkPerSequence` | the event stream of a session polls from the beginning; a reattached stdio transport numbers its output from 1 again |
| `Storage!EventsListed` | the file store's list of events may lack one whose append had returned, or show one twice, until the next change of the file |
| `StateStores!Contract`, `Interrupt` TRUE | an import interrupted between two tables is taken for complete at the next start (`sqliteStateStore.ts:68-72, 559-624`) |
| `Recovery!WorkerEndsOnce`, `Races` TRUE | a pass writes `lost` over a worker that finished after it was listed |
| `Recovery!PutBackCounts` | a job put back for a lost worker is failed by the fallback result of that worker |
| `MultiHost!OneProcessPerJob`, `Joins` or `StopMidPass` TRUE, `MaxBoots` 2, or a third host | a joining host restarts the other's job; a host stopped in a pass starts a worker nobody drains; a late release deletes the lease of the next holder, so that two of three hosts, or one that came back, dispatch at once |

Conditions on what does hold, also visible in the configurations:
- `NoLostJob`, `StrictAggregation` and `StaysUp` are stated for systems without stops;
  with them they fail by the stale writes of `JobEndsOnce`.
- `WriteExclusion` and `NoOrphanProcess` hold unless the first heartbeat can be
  rejected after the spawn: then the record is failed and the child runs on with
  no handle (`HeartbeatRejected`). The theorem `NoOrphans` has that assumption.
- `JobControl!EveryJobEnds` needs a slot per worker id: the leak of `SlotsBacked` can
  starve a host with fewer. In all modules a job that got no worker may be
  waiting for a model id.
- `EndedNotRenewed` and `AliveIsFresh` are for in-process backends or a service that
  answers in time: a later heartbeat may be delivered after the release.
- `Recovery!NoStrayProcess` is about processes with a pid on record: one spawned just
  before a crash has none, and nobody finds it again.
- A list of events over SSE may show live events before the history; no property
  asks for that order. A job may get more than `maxWorkers` workers over its life,
  and a lease taken over restarts its version at 1; no property speaks of either.

Seen while modelling `Recovery`, and allowed by its properties: a job put back at a start and
still waiting at the next periodic pass (15 s) is finalized as failed; so is one whose
repair was interrupted between the record and the queue; a worker record
created and never started is canceled at the start, and its job ends canceled with it; a
fallback result replaces a completed result file written while the orchestrator was down.

### Fairness

Weak fairness throughout, and only for what the code or the platform drives:
- `JobControl`: the pass is run by an interval timer, and promises, timers and exits
  settle; submitting, retrying, canceling and stopping are the client's choice and
  have none. A child is assumed to end: `timeoutSeconds` makes the adapter kill it.
- `Coordinator`: time and interval timers go on, a runtime that is up and may begin
  a pass does so and ends it; starting, stopping and crashing are nobody's duty.
- `Recovery`: the pass, the reconcile pass, retry timers, handlers and aggregations go on, a
  process ends, a shutdown finishes, and an orchestrator that is down is started again.
- `MultiHost`: the same of every host; the lease of a host that is gone lapses.
- `RemotePlane`: polls, claims, handlers, the tasks of an agent and the reconciler's
  interval go on, processes end, a drained daemon is stopped and a stopped one started.
  Losing a request, draining and crashing are bounded by `MaxFaults` and never owed.
- `Sessions`: the start and exit of the worker, the output callback, the repairs of
  a start, and calls under way go on; no client is obliged to call, no crash to happen.
- `Realtime`: handlers, intervals and output streams go on. An event published by another runtime is
  never emitted on this one, so that the polled log has to bring it.

## 4. Proofs

`tlapm` checks these for all values of the constants, under the assumptions that the
modules name: `Names` and `Bounds` (`JobControl`), `CoordinatorAssumption`,
`SessionsAssumption` (`NoSession` is no session, the bounds are naturals), `StorageAssumption`
(writes, entries and readers are different things, and writes are finitely many),
`StateStoresAssumption` (jobs, workers and sessions are different, finitely many, and some; every
worker and session has a job; the name of nothing is no record),
`RealtimeAssumption` (there are clients, finitely many, and a limit is at least one), and those of
`Recovery`, `RemotePlane` and `MultiHost` (the names of nothing are none of the ids, the bounds are
naturals). A theorem that needs more says so in its `ASSUME`; each such hypothesis restricts the
scenario, as the configuration of the run does, and is explained with the theorem.

`JobControlProofs`
- `Invariance`, `TypeCorrect`: `Spec => []JobInv`, `Spec => []TypeOK`. `TypeOK` is not
  inductive: `LinkWorker` puts the held worker id into a job, `StartFailed` joins the
  chain of the held job, a retry adds one to a retry count, and `Pop` takes the
  tail of a chain. `JobInv` adds `PassHolds` (what the pass holds at each program
  point, and that a retry is created only while retries are left), `Linked`
  (stored workers, exits and stops name real jobs) and `Awaited` (a running
  aggregation has a waiter). One lemma per group of actions, joined in `InvNext`.
- `NoOrphans`: without rejected heartbeats, `NoOrphanProcess` is inductive on top of
  `JobInv`. `HoldsSpawned` says which steps keep the pass at the point where it holds the child
  it spawned, `ChildSteps` which steps touch children, handles and exits at all.
- `CanceledOnRequest`: `CanceledWasRequested` needs `StopAsked` (a stop past its
  first write holds a record with the request in it); then each of the writers of
  worker records, whichever stale record it holds, keeps both.

- `StagesHold`, and all that follow, assume `Unstopped`: nobody cancels or stops, and no first
  heartbeat is rejected. Both leave a child running that no record counts (a stop's stale write
  ends the record of a worker still being started; the rejection fails it), after which the limits
  and the agreement below are false, as section 3 lists. `StageInv` relates each worker's record, its process, its
  exit handler and the pass that starts it.
- `CapacityKept`, `WritersKept`: `CapacityRespected` and `WriteExclusion`. `LimitInv`: each running
  child is in the pass's snapshot (`act`, `wr`) or is the worker being started, and a pass that
  found room has room until it has counted that worker. When the pass begins, `StageInv`
  says that every running child is in a schedulable record, hence in the new snapshot.
- `QueuedAreStored`, `ListedAreOwn`: `KnownInv` (queued jobs are stored; the one in hand
  has begun) and `ListedInv` (a job lists only workers created for it, in the store and in
  every copy). Lemmas of the next ones, and results of their own.
- `RejectionsHandled`: `StaysUp`, if nothing is retried and results can be written. Without these
  a rejection really is unhandled, in the code as in the model: a retry timer fires for a job that another
  worker's exit has ended, a failed write rejects in the exit handler.
- `JobsAreTended`: `NoLostJob`, where worktrees are created (`TreesCreated`). `TurnInv`: a job that
  has ended is not aggregated, nor does the pass hold an older end of it. `StrayInv`: a record left at
  `starting` by a failed spawn belongs to a job that has ended or that the failure path
  has still in hand. `ChainInv`: who waits for an aggregation. `TendedInv` then
  goes through every step that takes away the last task of a job: a worker that exits asks
  for an aggregation; an aggregation finds the job ready, or another worker has yet to
  exit; the pass that lets go of a job has started one or has put it back.
- `CompletionIsStrict`: `StrictAggregation`. A verdict is read from results; `StrictInv` says that
  results are noted of ended workers only, that a completed verdict was earned by workers
  that passed (which they stay), and what the pass, holding an older record, may still write
  over a completed job: only one that lists a worker it will never run.

`CoordinatorProofs`
- `TypeCorrect`, `GrantsHonoured`: `LeaseInv` is `TypeOK`, `GrantHonoured` and
  `OnlyUpBelieves`. The last is needed because `unregisterExecutor` deletes the
  runtime's lease; that breaks no grant only because `Scheduler.stop` gave it up before.
- `Leadership`: `Spec => SingleLeader`, the refinement of `LeaderLease`: the holder
  is the owner of an unexpired lease, the believers are the runtimes with time
  left on a grant. Acquiring is `Grant`, stopping and unregistering `Resign`,
  expiry `Lapse`, a crash `Crash`, everything else a stutter.
- `AssignmentsFenced`: an assignment's host changes only in `Upserted`, which
  advances the version.
- `LiveStayFresh`: `AliveIsFresh`, assuming `InTime`: a TTL lasts two heartbeat intervals at least
  (5 s against 1 s by default), and a service answers within one. `BeatInv` counts
  the ticks: the assignment of a live worker has two left, or its heartbeat is due or on its way, and
  `Tick` waits for what is due.
- `EndedStaysEnded`: `EndedNotRenewed`, whatever the TTLs: the exit has cleared the interval, so
  that only a request already sent can renew the assignment.

`RecoveryProofs`, assuming `~Races` (no worker settles between being listed by a reconcile pass and
being judged; otherwise `lost` is written over its result)
- `Invariance`, `TypeCorrect`: `RecoveryInv` says what is in memory at each stage of a start
  (`Quiet`), what record, process, result file, worktree and exit handler of a worker say of each
  other (`Kept`), that the worker being started and the one being repaired are nobody else's
  (`StartInv`, `RepairInv`), and on which results requested, pending and given verdicts rest (`Cited`, `VerdictInv`).
- `NoProcessStrays`, `TreesAreKept`, `CompletedIsEarned`: `NoStrayProcess`, `TreeKept`,
  `CompletedOnResults`, for any number of crashes at any step. The first two come from `Kept`;
  cleanup needs that a tree of a worker being started is not yet on record but its worker is. The last needs
  that nothing writes a result file over a completed one whose worker has ended (`Delivered`).

`RemotePlaneProofs`
- `Invariance`, `TypeCorrect`: `PlaneInv`, for any executors, workers, jobs and faults.
  `Stage` relates the task at the agent, the process, the stored object and the accepted result of a
  worker, `Requests` its task to its requests under way (one besides those of the interval, or
  one left by an agent that is gone), `ClaimHeld` the claims being served to the workers they created.
- `ResultsHaveEnded`: `ResultAfterExit`, from `Stage`.
- `EndsAreFinal`: `TerminalStays`, assuming `InOrder`: no interval heartbeat is overtaken. `OverInv`:
  a worker that has ended has no request under way that would write its status.
- `JobsHaveOneProcess`: `OneProcessPerJob`, assuming `Serial`: claims are served one at a time (two
  at once count the same workers). `OneAlive`: a worker whose process lives is in a schedulable record,
  so that a claim for its job finds it.

`MultiHostProofs`, assuming `Orderly`: runtimes start only while no running one has workers, and
none comes back (`LiveWorkerKept` and section 3 say what happens otherwise)
- `HostsHold`, `WrittenOffWhenGone`: `LostOnlyWhenGone`. `HostInv`: a worker that has not ended at a running
  host is being started there or assigned there (`Placed`), and the workers a reconcile pass has
  listed or picked are of hosts that are gone (`Judging`).
- `OneScheduler`, `OneProcess`: `OneProcessPerJob`, assuming also `OnePlanned`: no host is shut down
  during its pass, and beside one that may be shut down there is at most one other, which
  makes the second half of `releaseLease` harmless. `LeaseInv`: at most one host is in a pass, and has the
  lease or lost it to that late release; no two schedulable workers are of one job. That two
  running workers are of two jobs follows, for a takeover finds the job of a live worker busy.

`StorageProofs`
- `Invariance`: `Spec => []IndInv`, where `IndInv` is `TypeOK` with three parts, one for each
  thing that is stored. `Order`: a write knows only writes that had returned when it
  began, and once it has been renamed (cached), none of those is in the file (the cache) or still
  to come there. `Finding`: what a find that began alone knows, as long as it is alone: if nobody
  else is under way, an index rebuilt from a stored result has the artifact. `Logging`: which entries
  are in the file, by where their append is; what a list under way has seen of the file; that
  at most one append is under way on a transcript; and that a cache of the file's size is
  a prefix of the file wherever it can be believed. One lemma per group of steps
  (recording, listing, appending, restart) and part.
- `UpdatesKept`: `NoLostUpdate` for any number of overlapping writes and restarts, from `Order`.
- `ArtifactsFound`: `ArtifactFound`, from `Finding`.
- `LogRefined`: `Spec => IsALog`, the refinement of `AppendLog`. The append of a line is
  `Extend`, a list that begins is `Begin`, the step that ends it `Show`, a restart
  `Restart`, everything else stutters. `Show` needs from `Logging` that what a list returns
  is a prefix of the file, no shorter than the file was when the list began.

and there, of `StateStores`
- Filters and sorts first, for any data. `PickedAt`: the k-th element a filter leaves is the one
  with k of those left up to its place; `SortedIs`, `SortedOnly`: a sorted list has every
  element once, its keys grow, and no other list does; `SliceIs`, `PageIs`: what a page of that is. They
  go by induction, through the least number for which something fails (`LeastNumber`).
- `StoresKept`: `StoresSpec => []KeptInv`. A record's `updatedAt` must be no other record's on either
  backend (`RecordsInv`), or a sort would not be determined; `KeptInv` says so of both at once,
  since an import copies records of one to the other. It has the caches of the file store as the sorted
  directories, transcripts numbered as they were appended (on sqlite as a set of rows), and
  of an index no more than that it names stored owners that list the artifact: it may be incomplete.
  `StoresTyped` (`StoresTypeOK`) follows.
- `QueriesAnswered`: `Answers`, for any filters, limits and offsets, from any number of imports,
  interrupted or not. Both backends' lists are `Latest` of the records that match: one sorts
  and then filters, the other filters and then sorts (`PickedSorted`). An artifact that an index does not name
  is found by collecting (`ArtifactsAnswer`).
- `ImportsComplete`, `OneStore`: `Contract`, assuming `~Interrupt` (section 3 says what an
  interrupted import loses). `Imported`: what the database does not have yet is still to be copied, and the events
  to be copied are exactly those that follow the ones copied. `Owned`: a transcript is of a stored session;
  `isEmpty` does not look at transcripts, and this is why a database it calls empty holds
  nothing. Stores and appends are `Put`, `AppendEntry` and `AppendEvent`; the end of an import
  takes everything along; a start on the backend not in use goes back to what it held.

`SessionsProofs`
- `Invariance`: `Spec => []SessInv`. A record alone is not inductive, for any record may be
  overwritten by a copy read long before. So `SessInv` says of every copy, in `start`, `pump` and
  each `call`, what it says of the records (`Good`: status and clients agree, and there is one client
  more than calls at most), and by its place in the code what an operation knows of its copy:
  `#assertSessionOpen` has passed, the session exists and cannot vanish (`Known`), a session
  being created is nobody else's. `Booting`: during a start no call from before is
  under way, and once the worker is repaired it has ended or there is a handle on its
  runtime. `RecordsStay` is what every step does to the records; the
  operations' own parts follow from it, one lemma per actor.
- `TypeCorrect`: `TypeOK`, and `StatusAgrees`: `StatusMatchesClients`, both from `SessInv`.
- `LateReopens`: `OnlyLateReopen`. Of the writes to a closed record, those that do not write
  "closed" are by operations whose copy is neither absent nor closed.
- `BootsHeal`: `BootHeals`, from `Booting`: `reconcileSessions` closes what an ended worker left
  open, and a worker that has not ended has its handle by then.

`RealtimeProofs`
- `TypeCorrect`: `TypeOK`, with what it rests on (`TypeInv`: cursor and saved sequence never pass the
  output, and a chunk's number is at most its place in the transcript).
- `StreamsComplete`: `NothingDropped`, for every transport and whatever clients do. `Owned`: the stream a
  connection names is its own, open or closed. `OutInv`: a stream that is live has its socket open, and
  one that was closed but is still its connection's was closed by the end of the process. `Unbroken` is the
  property as an invariant. It hangs on two steps: `Open`, where the replay
  has reached all up to the sequence the stream begins after, and `Opened`, where a stdio stream goes over
  to live output only when nothing is unread (`ReadUp`).
- `NothingSkipped`: `NoSkip`. `FileInv`: chunk `k` of a file transport has the sequence `k`;
  what a connection has got, and what a stream is about to send on top of that, has no gap
  (`Told`, `Sent`). A replay cut at `history_limit` keeps the first entries after the cursor,
  so that it leaves no gap either (the lemmas on `Place`); one that kept the last entries would.
- `AllReleased`: `Released`, assuming `~Hasty`: no client closes while a message is handled, resumes
  before it subscribes, or detaches twice. Each of these leaks a subscription or a count, in the code
  as in the model (section 2). `HoldInv`: a subscription to come or open is held by the connection it is
  for (`Held`), at most one is opening for a connection (`OneOpening`), a connection keeps none while it
  waits for another (`Kept`), and the count is the number of attached connections (`Counts`).

Only model-checked: all liveness (`EveryJobEnds`, `LeaderReturns`, `Settles`, `CancelStops`,
`ExitSettles`, `EveryEventSeen`; fairness and `ENABLED` are out of the prover's
reach), and what the other theorems' properties are worth outside the hypotheses named above,
where a run goes beyond them. The type invariants that no run lists were checked with TLC. Induction
is by least numbers where a proof needs it (`StorageProofs`); what folds over results and the walk of
`#advanceJobToStatus` compute is left to TLC, and the modules avoid RECURSIVE operators, which
the prover cannot expand.

## 5. Not modelled

- Authentication, audit, request parsing, wire types, configuration, readiness checks,
  the worker SDK, the command line and the operations scripts: no state that outlives a
  call, or programs that drive the system from outside.
- Logs: lines appended to files and sliced on request. `CleanupManager`'s deletion of logs and results by age
  (`cleanup.ts:77-129`): files nothing reads any more.
- The adapter's timeout timer and its SIGTERM/SIGKILL escalation: "the process ends
  somehow" in every module, which includes every order of the two.
- Queue priorities: a pass may visit jobs in any order (`JobControl`, `Recovery`), or in
  that of one priority (`MultiHost`).
- Closing open sessions at shutdown, session diagnostics, and session-mode workers in
  `Recovery` and `MultiHost`: `Sessions` has their reattachment, `Coordinator` what it
  does to assignments.
- Checksums and downloads of the manifest transport: one writer per object.

## 6. Plan

In order of weight:
1. `StaysUp` of `JobControl` with retries, restricted to timers whose job nobody ends.
2. Session-mode workers and several workers per job in `Recovery`; priorities of the queue.
