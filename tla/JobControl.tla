----------------------------- MODULE JobControl -----------------------------
(***************************************************************************)
(* One orchestrator process: Scheduler (dispatch pass, cancel, retry) and  *)
(* WorkerManager (start, stop, exit handler, job aggregation) over the     *)
(* shared StateStore.  JavaScript runs one task at a time, but every       *)
(* `await` lets another task in: a task reads a whole record, suspends,    *)
(* and later writes the whole record back.  Here a step is the code        *)
(* between two awaits that touch shared state, a snapshot a task holds     *)
(* across an await is part of that task's state, and a store write takes   *)
(* effect in one step.  Reads that follow one another with no write of the *)
(* task in between are one step, and so are a worker's terminal record and *)
(* the result the same task notes for it.                                  *)
(*                                                                         *)
(* Not here: the order in which DispatchQueue.list returns jobs (a pass    *)
(* visits them in any order), leases and heartbeats (Coordinator), session *)
(* mode, remote workers, restarts, and the published copies of results     *)
(* (artifactTransportMode is shared_filesystem).                           *)
(***************************************************************************)
EXTENDS StateMachine, Sequences, FiniteSets

CONSTANTS
  Job, Worker,        \* ids that may be generated (the bound on both)
  NoJob, NoWorker, Dispatcher, Operator,
  Submitted,          \* jobs clients submit; the other ids serve retries
  Cancelable,         \* jobs a client may cancel
  Stoppable,          \* workers the operator may stop directly
  Retryable,          \* jobs a client may retry
  MaxWorkers,         \* job.maxWorkers
  MaxActiveWorkers,   \* config.maxActiveWorkers
  WriteCapable,       \* isolationMode = 'worktree', all jobs in one repository
  MaxWriteWorkersPerRepo,
  MaxRetries,         \* metadata.maxRetries
  Outcomes,           \* <<exit kind, status in the worker's result file>>
  Faults              \* which I/O steps may fail

Caller    == Job \cup {Operator}              \* who runs stopWorker
Requester == Caller \cup Worker \cup {Dispatcher}  \* who awaits aggregation

ExitKind   == {"ok", "error", "signal"}
ResultKind == {"none", "completed", "failed", "canceled"}

ASSUME Names ==
  /\ NoJob \notin Job /\ NoWorker \notin Worker
  /\ Job \cap Worker = {} /\ Operator \notin Job \cup Worker
  /\ Dispatcher \notin Job \cup Worker \cup {Operator}
ASSUME Bounds ==
  /\ Submitted \subseteq Job /\ Cancelable \subseteq Job
  /\ Retryable \subseteq Job /\ Stoppable \subseteq Worker
  /\ MaxWorkers \in Nat \ {0} /\ MaxActiveWorkers \in Nat \ {0}
  /\ MaxWriteWorkersPerRepo \in Nat \ {0} /\ MaxRetries \in Nat
  /\ WriteCapable \in BOOLEAN
  /\ Outcomes \subseteq ExitKind \X (ResultKind \ {"canceled"})
  /\ Faults \subseteq {"worktree", "spawn", "heartbeat", "aggregate"}
  /\ IsFiniteSet(Job) /\ IsFiniteSet(Worker)

VARIABLES
  jobs,     \* StateStore job records
  workers,  \* StateStore worker records
  queue,    \* DispatchQueue
  timers,   \* retried jobs whose setTimeout(enqueue) has not fired
  d,        \* the dispatch pass
  cancel,   \* cancelJob, one call per job
  stop,     \* stopWorker, one call per caller
  exit,     \* #handleWorkerExit, one per worker
  rt,       \* child processes, their result files and #runtimeHandles
  results,  \* WorkerManager#workerResults
  agg,      \* #jobAggregationTasks, one promise chain per job
  up        \* FALSE once an unhandled rejection has ended the process

vars == <<jobs, workers, queue, timers, d, cancel, stop, exit, rt, results, agg, up>>
store == <<jobs, workers>>
sched == <<queue, timers, d>>
tasks == <<cancel, stop, exit>>

-----------------------------------------------------------------------------
(* Records *)

JobRec    == [status: JobStatus \cup {"absent"}, workerIds: SUBSET Worker,
              retries: 0..(MaxRetries + 1)]
WorkerRec == [status: WorkerStatus \cup {"absent"}, job: Job \cup {NoJob},
              cancel: BOOLEAN, pid: BOOLEAN]

PassPc == {"idle", "visit", "prepare", "loop", "create", "link", "start", "starting",
           "dispatching", "worktree", "spawn", "active", "running", "register",
           "startFailed", "awaitAgg", "failed", "failWrite", "retry", "after"}
PassRec   == [pc: PassPc, todo: SUBSET Job, act: SUBSET Worker, wr: SUBSET Worker,
              job: Job \cup {NoJob}, base: Nat, started: Nat, snap: JobRec,
              worker: Worker \cup {NoWorker}, wrec: WorkerRec]
CancelRec == [pc: {"idle", "write", "list", "stopping", "done"}, rec: JobRec,
              todo: SUBSET Worker]
StopRec   == [pc: {"idle", "write", "act", "signal", "kill", "finalize", "agg"},
              worker: Worker \cup {NoWorker}, rec: WorkerRec, target: {"canceled", "lost"}]
ExitRec   == [pc: {"none", "registered", "finishing", "terminal", "release", "done"},
              rec: WorkerRec]
ChildRec  == [proc: {"none", "running"} \cup ExitKind, file: ResultKind, handle: BOOLEAN]
AggTask   == [pc: {"idle", "advance", "final"}, rec: JobRec,
              verdict: {"completed", "failed", "canceled"}]
AggRec    == [task: AggTask, chain: Seq(Requester), poisoned: BOOLEAN]

NoJobRec    == [status |-> "absent", workerIds |-> {}, retries |-> 0]
NoWorkerRec == [status |-> "absent", job |-> NoJob, cancel |-> FALSE, pid |-> FALSE]

IdlePass == [pc |-> "idle", todo |-> {}, act |-> {}, wr |-> {}, job |-> NoJob,
             base |-> 0, started |-> 0, snap |-> NoJobRec,
             worker |-> NoWorker, wrec |-> NoWorkerRec]
IdleStop == [pc |-> "idle", worker |-> NoWorker, rec |-> NoWorkerRec, target |-> "lost"]
IdleAgg  == [pc |-> "idle", rec |-> NoJobRec, verdict |-> "failed"]

Schedulable == {"created", "starting", "active"}        \* isSchedulableWorker
WriteActive == {"starting", "active"}

WorkersOf(j) == {w \in Worker : workers[w].job = j}
Busy(j)      == {w \in WorkersOf(j) : workers[w].status \in Schedulable}
FreshWorker  == {w \in Worker : workers[w].status = "absent"}
FreshJob     == {j \in Job \ Submitted : jobs[j].status = "absent"}
Elements(s)  == {s[i] : i \in DOMAIN s}

Init ==
  /\ jobs = [j \in Job |-> NoJobRec]
  /\ workers = [w \in Worker |-> NoWorkerRec]
  /\ queue = {} /\ timers = {} /\ d = IdlePass
  /\ cancel = [j \in Job |-> [pc |-> "idle", rec |-> NoJobRec, todo |-> {}]]
  /\ stop = [c \in Caller |-> IdleStop]
  /\ exit = [w \in Worker |-> [pc |-> "none", rec |-> NoWorkerRec]]
  /\ rt = [w \in Worker |-> [proc |-> "none", file |-> "none", handle |-> FALSE]]
  /\ results = [w \in Worker |-> "none"]
  /\ agg = [j \in Job |-> [task |-> IdleAgg, chain |-> <<>>, poisoned |-> FALSE]]
  /\ up = TRUE

PutJob(j, r)    == jobs' = [jobs EXCEPT ![j] = r]
PutWorker(w, r) == workers' = [workers EXCEPT ![w] = r]
At(pc)          == d.pc = pc
Go(pc)          == d' = [d EXCEPT !.pc = pc]

-----------------------------------------------------------------------------
(* Clients: submitJob and retryJob store a queued record, then enqueue it. *)

Submit(j) ==
  /\ j \in Submitted /\ jobs[j].status = "absent"
  /\ PutJob(j, [NoJobRec EXCEPT !.status = "queued"])
  /\ queue' = queue \cup {j}
  /\ UNCHANGED <<workers, timers, d, tasks, rt, results, agg, up>>

RetryOf(rec) == [status |-> "queued", workerIds |-> {}, retries |-> rec.retries + 1]

RetryJob(j) ==
  /\ j \in Retryable /\ jobs[j].status # "absent" /\ jobs[j].retries <= MaxRetries   \* bound: retries
  /\ \E r \in FreshJob : PutJob(r, RetryOf(jobs[j])) /\ queue' = queue \cup {r}
  /\ UNCHANGED <<workers, timers, d, tasks, rt, results, agg, up>>

RetryTimer(j) ==
  /\ j \in timers
  /\ timers' = timers \ {j} /\ queue' = queue \cup {j}
  /\ UNCHANGED <<store, d, tasks, rt, results, agg, up>>

-----------------------------------------------------------------------------
(* Scheduler.dispatchLoop.  A pass takes one snapshot of the queue and of  *)
(* the busy workers, then visits the queued jobs.                          *)

BeginPass ==
  /\ At("idle") /\ queue # {}
  /\ LET busy == {w \in Worker : workers[w].status \in Schedulable} IN
     d' = [IdlePass EXCEPT !.pc = "visit", !.todo = queue, !.act = busy,
             !.wr = {w \in busy : WriteCapable /\ workers[w].status \in WriteActive}]
  /\ UNCHANGED <<store, queue, timers, tasks, rt, results, agg, up>>

EndPass ==
  /\ At("visit") /\ d.todo = {}
  /\ d' = IdlePass
  /\ UNCHANGED <<store, queue, timers, tasks, rt, results, agg, up>>

\* Mutant: off by one at the capacity limit.
CanDispatchAtLimit == Cardinality(d.act) <= MaxActiveWorkers
\* Mutant: off by one at the write limit.
WriteConflictPastLimit == WriteCapable /\ Cardinality(d.wr) > MaxWriteWorkersPerRepo

CanDispatch   == Cardinality(d.act) < MaxActiveWorkers
WriteConflict == WriteCapable /\ Cardinality(d.wr) >= MaxWriteWorkersPerRepo
NotNeeded(j)  == jobs[j].status \in TerminalJob \/ Cardinality(Busy(j)) >= MaxWorkers

\* A terminal job, or one with all its workers, leaves the queue.
DropJob(j) ==
  /\ At("visit") /\ j \in d.todo /\ NotNeeded(j)
  /\ queue' = queue \ {j} /\ d' = [d EXCEPT !.todo = @ \ {j}]
  /\ UNCHANGED <<store, timers, tasks, rt, results, agg, up>>

\* At capacity (or out of model worker ids) the pass ends, the queue kept.
AtCapacity(j) ==
  /\ At("visit") /\ j \in d.todo /\ ~NotNeeded(j)
  /\ ~CanDispatch \/ FreshWorker = {}
  /\ d' = IdlePass
  /\ UNCHANGED <<store, queue, timers, tasks, rt, results, agg, up>>

SkipConflict(j) ==
  /\ At("visit") /\ j \in d.todo /\ ~NotNeeded(j) /\ CanDispatch /\ FreshWorker # {}
  /\ WriteConflict
  /\ d' = [d EXCEPT !.todo = @ \ {j}]
  /\ UNCHANGED <<store, queue, timers, tasks, rt, results, agg, up>>

TakeJob(j) ==
  /\ At("visit") /\ j \in d.todo /\ ~NotNeeded(j) /\ CanDispatch /\ FreshWorker # {}
  /\ ~WriteConflict
  /\ queue' = queue \ {j}
  /\ d' = [d EXCEPT !.pc = "prepare", !.todo = @ \ {j}, !.job = j, !.snap = jobs[j],
             !.base = Cardinality(Busy(j)), !.started = 0]
  /\ UNCHANGED <<store, timers, tasks, rt, results, agg, up>>

\* #advanceJobToStatus(currentJob, Preparing) writes the record read in TakeJob.
Prepare ==
  /\ At("prepare")
  /\ \/ Past(d.snap.status, "preparing") /\ UNCHANGED jobs
     \/ /\ ~Past(d.snap.status, "preparing")
        /\ PutJob(d.job, [d.snap EXCEPT !.status = "preparing"])
  /\ d' = [d EXCEPT !.pc = "loop", !.snap = NoJobRec]
  /\ UNCHANGED <<workers, queue, timers, tasks, rt, results, agg, up>>

WantsMore == /\ d.base + d.started < MaxWorkers
             /\ CanDispatch /\ ~WriteConflict /\ FreshWorker # {}

\* The while test, and createWorker's read of the latest job.
LoopTest ==
  /\ At("loop")
  /\ IF WantsMore THEN d' = [d EXCEPT !.pc = "create", !.snap = jobs[d.job]]
                  ELSE Go("after")
  /\ UNCHANGED <<store, queue, timers, tasks, rt, results, agg, up>>

CreateWorker ==
  /\ At("create")
  /\ \E w \in FreshWorker :
       /\ PutWorker(w, [NoWorkerRec EXCEPT !.status = "created", !.job = d.job])
       /\ d' = [d EXCEPT !.pc = "link", !.worker = w]
  /\ UNCHANGED <<jobs, queue, timers, tasks, rt, results, agg, up>>

\* createWorker's updateJob: the job as read before the worker was stored.
LinkWorker ==
  /\ At("link")
  /\ PutJob(d.job, [d.snap EXCEPT !.workerIds = @ \cup {d.worker}])
  /\ Go("start")
  /\ UNCHANGED <<workers, queue, timers, tasks, rt, results, agg, up>>

-----------------------------------------------------------------------------
(* WorkerManager.startWorker, awaited by the pass. *)

StartRead ==
  /\ At("start")
  /\ d' = [d EXCEPT !.snap = jobs[d.job], !.wrec = workers[d.worker],
             !.pc = IF ValidWorker(workers[d.worker].status, "starting")
                    THEN "starting" ELSE "failed"]
  /\ UNCHANGED <<store, queue, timers, tasks, rt, results, agg, up>>

StartingWrite ==
  /\ At("starting")
  /\ LET r == [d.wrec EXCEPT !.status = "starting"] IN
     PutWorker(d.worker, r) /\ d' = [d EXCEPT !.pc = "dispatching", !.wrec = r]
  /\ UNCHANGED <<jobs, queue, timers, tasks, rt, results, agg, up>>

\* #advanceJobToStatus(snap, target): one transition write per step.
AdvanceSnap(target, next) ==
  \/ Past(d.snap.status, target) /\ Go(next) /\ UNCHANGED jobs
  \/ /\ ~Past(d.snap.status, target) /\ ~AdvanceThrows(d.snap.status, target)
     /\ LET r == [d.snap EXCEPT !.status = NextStatus(@, target)] IN
        PutJob(d.job, r) /\ d' = [d EXCEPT !.snap = r]

\* Outside the try block: a throw here leaves the worker record starting.
DispatchingWrite ==
  /\ At("dispatching")
  /\ \/ AdvanceSnap("dispatching", "worktree")
     \/ AdvanceThrows(d.snap.status, "dispatching") /\ Go("failed") /\ UNCHANGED jobs
  /\ UNCHANGED <<workers, queue, timers, tasks, rt, results, agg, up>>

CreateWorktree ==
  /\ At("worktree")
  /\ \/ Go("spawn")
     \/ WriteCapable /\ "worktree" \in Faults /\ Go("failed")
  /\ UNCHANGED <<store, queue, timers, tasks, rt, results, agg, up>>

Spawn ==
  /\ At("spawn")
  /\ \/ Go("active") /\ rt' = [rt EXCEPT ![d.worker].proc = "running"]
     \/ "spawn" \in Faults /\ Go("startFailed") /\ UNCHANGED rt
  /\ UNCHANGED <<store, queue, timers, tasks, results, agg, up>>

\* Mutant: the pid is stored, the status is not advanced.
ActiveWriteKeepsStatus ==
  /\ At("active")
  /\ PutWorker(d.worker, [d.wrec EXCEPT !.pid = TRUE]) /\ Go("running")
  /\ UNCHANGED <<jobs, queue, timers, tasks, rt, results, agg, up>>

ActiveWrite ==
  /\ At("active")
  /\ PutWorker(d.worker, [d.wrec EXCEPT !.status = "active", !.pid = TRUE])
  /\ Go("running")
  /\ UNCHANGED <<jobs, queue, timers, tasks, rt, results, agg, up>>

RunningWrite ==
  /\ At("running") /\ AdvanceSnap("running", "register")
  /\ UNCHANGED <<workers, queue, timers, tasks, rt, results, agg, up>>

\* Mutant: the exit handler is registered, the handle is not.
RegisterNoHandle ==
  /\ At("register")
  /\ exit' = [exit EXCEPT ![d.worker].pc = "registered"]
  /\ d' = [d EXCEPT !.pc = "loop", !.started = @ + 1, !.act = @ \cup {d.worker},
             !.wr = IF WriteCapable THEN @ \cup {d.worker} ELSE @,
             !.snap = NoJobRec, !.worker = NoWorker, !.wrec = NoWorkerRec]
  /\ UNCHANGED <<store, queue, timers, cancel, stop, rt, results, agg, up>>

\* The handle and the exit handler are registered; the pass counts the worker.
Register ==
  /\ At("register")
  /\ rt' = [rt EXCEPT ![d.worker].handle = TRUE]
  /\ exit' = [exit EXCEPT ![d.worker].pc = "registered"]
  /\ d' = [d EXCEPT !.pc = "loop", !.started = @ + 1, !.act = @ \cup {d.worker},
             !.wr = IF WriteCapable THEN @ \cup {d.worker} ELSE @,
             !.snap = NoJobRec, !.worker = NoWorker, !.wrec = NoWorkerRec]
  /\ UNCHANGED <<store, queue, timers, cancel, stop, results, agg, up>>

\* #startWorkerHeartbeat rejects: startWorker fails while the child runs on.
HeartbeatRejected ==
  /\ At("register") /\ "heartbeat" \in Faults /\ Go("startFailed")
  /\ UNCHANGED <<store, queue, timers, tasks, rt, results, agg, up>>

-----------------------------------------------------------------------------
(* Joining a job's aggregation chain (#queueJobAggregation).  A rejected   *)
(* chain is never replaced, so a later request rejects at once.            *)

Join(j, who) == agg' = [agg EXCEPT ![j].chain =
                          IF agg[j].poisoned THEN @ ELSE Append(@, who)]
Settled(j, who) == who \notin Elements(agg[j].chain)

\* #finalizeStartFailure
StartFailed ==
  /\ At("startFailed")
  /\ PutWorker(d.worker, [d.wrec EXCEPT !.status = "failed"])
  /\ results' = [results EXCEPT ![d.worker] = "failed"]
  /\ Join(d.job, Dispatcher) /\ Go("awaitAgg")
  /\ UNCHANGED <<jobs, queue, timers, tasks, rt, up>>

AwaitAggregation ==
  /\ At("awaitAgg") /\ Settled(d.job, Dispatcher)
  /\ Go("failed")
  /\ UNCHANGED <<store, queue, timers, tasks, rt, results, agg, up>>

-----------------------------------------------------------------------------
(* #handleDispatchFailure on the latest record.  An invalid transition     *)
(* (from queued, or from a terminal status other than failed when a retry  *)
(* is due) rejects dispatchLoop: unhandled when the timer runs the pass,   *)
(* an error response when the restart route does.                          *)

ShouldRetry(r) == r.retries + 1 <= MaxRetries

FailureRead ==
  /\ At("failed")
  /\ LET r == jobs[d.job] IN
     \/ /\ ~ShouldRetry(r) /\ r.status \in TerminalJob
        /\ Go("after") /\ UNCHANGED up
     \/ /\ ShouldRetry(r) /\ r.status = "failed"
        /\ d' = [d EXCEPT !.pc = "retry", !.snap = r] /\ UNCHANGED up
     \/ /\ r.status # "failed" /\ ValidJob(r.status, "failed")
        /\ d' = [d EXCEPT !.pc = "failWrite", !.snap = r] /\ UNCHANGED up
     \/ /\ r.status # "failed" /\ ~ValidJob(r.status, "failed")
        /\ ShouldRetry(r) \/ r.status \notin TerminalJob
        /\ d' = IdlePass /\ up' \in BOOLEAN
  /\ UNCHANGED <<store, queue, timers, tasks, rt, results, agg>>

FailureWrite ==
  /\ At("failWrite")
  /\ LET r == [d.snap EXCEPT !.status = "failed"] IN
     /\ PutJob(d.job, r)
     /\ d' = [d EXCEPT !.snap = r, !.pc = IF ShouldRetry(r) THEN "retry" ELSE "after"]
  /\ UNCHANGED <<workers, queue, timers, tasks, rt, results, agg, up>>

\* Mutant: the retry is stored, its timer is not set.
CreateRetryNoTimer ==
  /\ At("retry")
  /\ \/ \E r \in FreshJob : PutJob(r, RetryOf(d.snap))
     \/ FreshJob = {} /\ UNCHANGED jobs
  /\ Go("after")
  /\ UNCHANGED <<workers, queue, timers, tasks, rt, results, agg, up>>

CreateRetry ==
  /\ At("retry")
  /\ \/ \E r \in FreshJob : PutJob(r, RetryOf(d.snap)) /\ timers' = timers \cup {r}
     \/ FreshJob = {} /\ UNCHANGED <<jobs, timers>>       \* bound: no id left
  /\ Go("after")
  /\ UNCHANGED <<workers, queue, tasks, rt, results, agg, up>>

\* After the while loop: re-enqueue a live job that lacks workers.
AfterLoop ==
  /\ At("after")
  /\ queue' = IF jobs[d.job].status \notin TerminalJob
                 /\ Cardinality(Busy(d.job)) < MaxWorkers
              THEN queue \cup {d.job} ELSE queue
  /\ d' = [d EXCEPT !.pc = "visit", !.job = NoJob, !.base = 0, !.started = 0,
             !.snap = NoJobRec, !.worker = NoWorker, !.wrec = NoWorkerRec]
  /\ UNCHANGED <<store, timers, tasks, rt, results, agg, up>>

-----------------------------------------------------------------------------
(* Scheduler.cancelJob(j); the bound is one accepted call per job. *)

CancelRead(j) ==
  /\ j \in Cancelable /\ cancel[j].pc = "idle"
  /\ ValidJob(jobs[j].status, "canceled")           \* else the call is refused
  /\ cancel' = [cancel EXCEPT ![j].pc = "write", ![j].rec = jobs[j]]
  /\ UNCHANGED <<store, sched, stop, exit, rt, results, agg, up>>

CancelWrite(j) ==
  /\ cancel[j].pc = "write"
  /\ PutJob(j, [cancel[j].rec EXCEPT !.status = "canceled"])
  /\ queue' = queue \ {j}
  /\ cancel' = [cancel EXCEPT ![j].pc = "list", ![j].rec = NoJobRec]
  /\ UNCHANGED <<workers, timers, d, stop, exit, rt, results, agg, up>>

CancelList(j) ==
  /\ cancel[j].pc = "list"
  /\ cancel' = [cancel EXCEPT ![j].pc = "stopping", ![j].todo = Busy(j)]
  /\ UNCHANGED <<store, sched, stop, exit, rt, results, agg, up>>

CancelDone(j) ==
  /\ cancel[j].pc = "stopping" /\ cancel[j].todo = {} /\ stop[j].pc = "idle"
  /\ cancel' = [cancel EXCEPT ![j].pc = "done"]
  /\ UNCHANGED <<store, sched, stop, exit, rt, results, agg, up>>

-----------------------------------------------------------------------------
(* WorkerManager.stopWorker(w), run by caller c: the operator, or the      *)
(* cancel of a job, which stops its workers one after the other.           *)

StopRead(c, w) ==
  /\ stop[c].pc = "idle" /\ workers[w].status # "absent"
  /\ \/ c = Operator /\ w \in Stoppable /\ UNCHANGED cancel
     \/ /\ c \in Job /\ cancel[c].pc = "stopping" /\ w \in cancel[c].todo
        /\ cancel' = [cancel EXCEPT ![c].todo = @ \ {w}]
  /\ stop' = [stop EXCEPT ![c] = [IdleStop EXCEPT !.pc = "write", !.worker = w,
                                                  !.rec = workers[w]]]
  /\ UNCHANGED <<store, sched, exit, rt, results, agg, up>>

StopWrite(c) ==
  /\ stop[c].pc = "write"
  /\ LET r == [stop[c].rec EXCEPT !.cancel = TRUE] IN
     /\ PutWorker(stop[c].worker, r)
     /\ stop' = [stop EXCEPT ![c].pc = "act", ![c].rec = r]
  /\ UNCHANGED <<jobs, sched, cancel, exit, rt, results, agg, up>>

\* isPersistedRuntimeIdentityLive for a process-mode worker.
Live(w, r) == r.pid /\ rt[w].proc = "running"

\* With a handle: runtimeAdapter.stop.  Without one: the disposition that
\* classifyWorkerRecoveryDisposition gives the record written in StopWrite.
StopAct(c) ==
  /\ stop[c].pc = "act"
  /\ LET w == stop[c].worker
         r == stop[c].rec IN
     stop' = IF rt[w].handle THEN [stop EXCEPT ![c].pc = "signal"]
             ELSE IF r.status \in TerminalWorker THEN [stop EXCEPT ![c] = IdleStop]
             ELSE IF r.status = "created"
                  THEN [stop EXCEPT ![c].pc = "finalize", ![c].target = "canceled"]
             ELSE IF Live(w, r)
                  THEN [stop EXCEPT ![c].pc = "kill", ![c].target = "canceled"]
             ELSE [stop EXCEPT ![c].pc = "finalize", ![c].target = "lost"]
  /\ UNCHANGED <<store, sched, cancel, exit, rt, results, agg, up>>

\* SIGTERM, then SIGKILL: both branches await the end of the process.
StopAwaitExit(c) ==
  /\ stop[c].pc \in {"signal", "kill"} /\ rt[stop[c].worker].proc # "running"
  /\ stop' = [stop EXCEPT ![c] = IF @.pc = "kill" THEN [@ EXCEPT !.pc = "finalize"]
                                 ELSE IdleStop]
  /\ UNCHANGED <<store, sched, cancel, exit, rt, results, agg, up>>

FallbackOf(status) == CASE status = "canceled" -> "canceled"
                        [] status = "finished" -> "completed"
                        [] OTHER -> "failed"

\* #finalizeWithoutRuntime, then #queueJobAggregation.
StopFinalize(c) ==
  /\ stop[c].pc = "finalize"
  /\ LET r == [stop[c].rec EXCEPT !.status = stop[c].target] IN
     /\ PutWorker(stop[c].worker, r)
     /\ results' = [results EXCEPT ![stop[c].worker] = FallbackOf(r.status)]
     /\ Join(r.job, c)
  /\ stop' = [stop EXCEPT ![c].pc = "agg"]
  /\ UNCHANGED <<jobs, sched, cancel, exit, rt, up>>

\* A rejected aggregation also rejects cancelJob, which stops no more workers.
StopDone(c) ==
  /\ stop[c].pc = "agg" /\ Settled(stop[c].rec.job, c)
  /\ stop' = [stop EXCEPT ![c] = IdleStop]
  /\ cancel' = IF c \in Job /\ agg[stop[c].rec.job].poisoned
               THEN [cancel EXCEPT ![c].pc = "done", ![c].todo = {}] ELSE cancel
  /\ UNCHANGED <<store, sched, exit, rt, results, agg, up>>

-----------------------------------------------------------------------------
(* A child process ends by itself, by its timeout or by a signal; its      *)
(* result file may be there or not.  #handleWorkerExit runs once the       *)
(* settlement is registered.                                               *)

ProcessExit(w) ==
  /\ rt[w].proc = "running"
  /\ \E o \in Outcomes : rt' = [rt EXCEPT ![w].proc = o[1], ![w].file = o[2]]
  /\ UNCHANGED <<store, sched, tasks, results, agg, up>>

\* A worker already terminal is left alone; a starting one throws, unhandled.
ExitRead(w) ==
  /\ exit[w].pc = "registered" /\ rt[w].proc # "running"
  /\ LET r == workers[w] IN
     \/ /\ r.status \in TerminalWorker
        /\ exit' = [exit EXCEPT ![w].pc = "done"]
        /\ rt' = [rt EXCEPT ![w].handle = FALSE] /\ UNCHANGED up
     \/ /\ r.status = "starting"
        /\ exit' = [exit EXCEPT ![w].pc = "done"] /\ up' = FALSE /\ UNCHANGED rt
     \/ /\ r.status \in {"created", "active", "finishing"}
        /\ exit' = [exit EXCEPT ![w] =
              [pc |-> IF r.status = "active" THEN "finishing" ELSE "terminal", rec |-> r]]
        /\ UNCHANGED <<rt, up>>
  /\ UNCHANGED <<store, sched, cancel, stop, results, agg>>

ExitFinishing(w) ==
  /\ exit[w].pc = "finishing"
  /\ LET r == [exit[w].rec EXCEPT !.status = "finishing"] IN
     PutWorker(w, r) /\ exit' = [exit EXCEPT ![w] = [pc |-> "terminal", rec |-> r]]
  /\ UNCHANGED <<jobs, sched, cancel, stop, rt, results, agg, up>>

\* Mutant: a worker ended by a signal counts as canceled.
SignalIsCanceled(r, kind) == CASE r.cancel \/ kind = "signal" -> "canceled"
                               [] kind = "ok"     -> "finished"
                               [] OTHER           -> "failed"
\* #determineTerminalWorkerStatus, #determineExecutionStatus
TerminalStatusOf(r, kind) == CASE r.cancel        -> "canceled"
                               [] kind = "ok"     -> "finished"
                               [] kind = "signal" -> "lost"
                               [] OTHER           -> "failed"
ExecutionStatusOf(r, kind) == CASE r.cancel    -> "canceled"
                                [] kind = "ok" -> "completed"
                                [] OTHER       -> "failed"

\* A structured result file wins over the status derived from the exit.
ExitTerminal(w) ==
  /\ exit[w].pc = "terminal"
  /\ LET r == exit[w].rec IN
     /\ PutWorker(w, [r EXCEPT !.status = TerminalStatusOf(r, rt[w].proc)])
     /\ results' = [results EXCEPT ![w] = IF rt[w].file # "none" THEN rt[w].file
                                          ELSE ExecutionStatusOf(r, rt[w].proc)]
  /\ exit' = [exit EXCEPT ![w].pc = "release"]
  /\ UNCHANGED <<jobs, sched, cancel, stop, rt, agg, up>>

\* Mutant: the exit handler does not ask for aggregation.
ExitReleaseSilent(w) ==
  /\ exit[w].pc = "release"
  /\ rt' = [rt EXCEPT ![w].handle = FALSE]
  /\ exit' = [exit EXCEPT ![w] = [pc |-> "done", rec |-> NoWorkerRec]]
  /\ UNCHANGED <<store, sched, cancel, stop, results, agg, up>>

ExitRelease(w) ==
  /\ exit[w].pc = "release"
  /\ rt' = [rt EXCEPT ![w].handle = FALSE]
  /\ exit' = [exit EXCEPT ![w] = [pc |-> "done", rec |-> NoWorkerRec]]
  /\ Join(exit[w].rec.job, w)
  /\ up' = ~agg[exit[w].rec.job].poisoned
  /\ UNCHANGED <<store, sched, cancel, stop, results>>

-----------------------------------------------------------------------------
(* #aggregateJobIfReady(j): the head of the chain reads the job and its    *)
(* workers, then writes through aggregating to the final status.           *)

Ready(j) ==
  /\ jobs[j].status \notin TerminalJob
  /\ WorkersOf(j) # {}
  /\ Cardinality(WorkersOf(j)) >= Cardinality(jobs[j].workerIds)
  /\ \A w \in WorkersOf(j) : workers[w].status \in TerminalWorker

ResultOf(w) == IF results[w] # "none" THEN results[w] ELSE FallbackOf(workers[w].status)

\* Mutant: one completed worker is enough.
LenientVerdict(j) == CASE \E w \in WorkersOf(j) : ResultOf(w) = "completed" -> "completed"
                       [] \E w \in WorkersOf(j) : ResultOf(w) = "canceled"  -> "canceled"
                       [] OTHER -> "failed"

\* determineJobResultStatus and mapJobResultToJobStatus
Verdict(j) == CASE \E w \in WorkersOf(j) : ResultOf(w) = "failed"   -> "failed"
                [] \E w \in WorkersOf(j) : ResultOf(w) = "canceled" -> "canceled"
                [] OTHER -> "completed"

Pop(j) == [agg[j] EXCEPT !.task = IdleAgg, !.chain = Tail(@)]

AggregateRead(j) ==
  /\ agg[j].task.pc = "idle" /\ agg[j].chain # <<>>
  /\ agg' = [agg EXCEPT ![j] =
       IF Ready(j) THEN [@ EXCEPT !.task = [pc |-> "advance", rec |-> jobs[j],
                                            verdict |-> Verdict(j)]]
                   ELSE Pop(j)]
  /\ UNCHANGED <<store, sched, tasks, rt, results, up>>

AggregateAdvance(j) ==
  /\ agg[j].task.pc = "advance"
  /\ LET r == agg[j].task.rec IN
     \/ /\ r.status = "aggregating"
        /\ agg' = [agg EXCEPT ![j].task.pc = "final"] /\ UNCHANGED jobs
     \/ /\ r.status # "aggregating"
        /\ LET n == [r EXCEPT !.status = NextStatus(@, "aggregating")] IN
           PutJob(j, n) /\ agg' = [agg EXCEPT ![j].task.rec = n]
  /\ UNCHANGED <<workers, sched, tasks, rt, results, up>>

AggregateFinal(j) ==
  /\ agg[j].task.pc = "final"
  /\ PutJob(j, [agg[j].task.rec EXCEPT !.status = agg[j].task.verdict])
  /\ agg' = [agg EXCEPT ![j] = Pop(j)]
  /\ UNCHANGED <<workers, sched, tasks, rt, results, up>>

\* The job result cannot be written: every waiter rejects, the chain stays
\* rejected, and an exit handler among the waiters ends the process.
AggregateFail(j) ==
  /\ agg[j].task.pc = "final" /\ "aggregate" \in Faults
  /\ agg' = [agg EXCEPT ![j] = [task |-> IdleAgg, chain |-> <<>>, poisoned |-> TRUE]]
  /\ up' = (Elements(agg[j].chain) \cap Worker = {})
  /\ UNCHANGED <<store, sched, tasks, rt, results>>

-----------------------------------------------------------------------------
Pass ==
  \/ BeginPass \/ EndPass \/ Prepare \/ LoopTest \/ CreateWorker \/ LinkWorker
  \/ StartRead \/ StartingWrite \/ DispatchingWrite \/ CreateWorktree \/ Spawn
  \/ ActiveWrite \/ RunningWrite \/ Register \/ HeartbeatRejected
  \/ StartFailed \/ AwaitAggregation
  \/ FailureRead \/ FailureWrite \/ CreateRetry \/ AfterLoop
  \/ \E j \in Job : DropJob(j) \/ AtCapacity(j) \/ SkipConflict(j) \/ TakeJob(j)

Client    == \E j \in Job : Submit(j) \/ RetryJob(j)
Canceling(j) == CancelRead(j) \/ CancelWrite(j) \/ CancelList(j) \/ CancelDone(j)
Stopping(c) ==
  \/ \E w \in Worker : StopRead(c, w)
  \/ StopWrite(c) \/ StopAct(c) \/ StopAwaitExit(c) \/ StopFinalize(c) \/ StopDone(c)
Exiting(w) == ExitRead(w) \/ ExitFinishing(w) \/ ExitTerminal(w) \/ ExitRelease(w)
Aggregating(j) ==
  AggregateRead(j) \/ AggregateAdvance(j) \/ AggregateFinal(j) \/ AggregateFail(j)

Next ==
  /\ up
  /\ \/ Client \/ Pass
     \/ \E j \in Job : RetryTimer(j) \/ Canceling(j) \/ Aggregating(j)
     \/ \E c \in Caller : Stopping(c)
     \/ \E w \in Worker : ProcessExit(w) \/ Exiting(w)

Spec == Init /\ [][Next]_vars

-----------------------------------------------------------------------------
(* Properties *)

\* Every record a task holds or has stored is one the code can build.
TypeOK ==
  /\ jobs \in [Job -> JobRec] /\ workers \in [Worker -> WorkerRec]
  /\ queue \subseteq Job /\ timers \subseteq Job
  /\ d \in PassRec /\ cancel \in [Job -> CancelRec] /\ stop \in [Caller -> StopRec]
  /\ exit \in [Worker -> ExitRec] /\ rt \in [Worker -> ChildRec]
  /\ results \in [Worker -> ResultKind] /\ agg \in [Job -> AggRec] /\ up \in BOOLEAN

(* What makes TypeOK inductive: the pass, the stops and the exits hold ids *)
(* and records of stored jobs and workers, a retry is created only while   *)
(* retries are left, and a running aggregation has somebody waiting.       *)

Starting == {"link", "start", "starting", "dispatching", "worktree", "spawn",
             "active", "running", "register", "startFailed"}
PassHolds ==
  /\ d.pc \notin {"idle", "visit"} => d.job \in Job
  /\ d.pc \in Starting => d.worker \in Worker
  /\ d.pc \in Starting \ {"link", "start"} => d.wrec.job \in Job
  /\ d.pc = "retry" => ShouldRetry(d.snap)
Linked ==
  /\ \A w \in Worker : workers[w].status # "absent" => workers[w].job \in Job
  /\ \A w \in Worker : exit[w].pc \in {"finishing", "terminal", "release"}
                          => exit[w].rec.job \in Job
  /\ \A c \in Caller : stop[c].pc # "idle"
                          => stop[c].worker \in Worker /\ stop[c].rec.job \in Job
Awaited == \A j \in Job : agg[j].task.pc # "idle" => agg[j].chain # <<>>

JobInv == TypeOK /\ PassHolds /\ Linked /\ Awaited

\* A running child process is always reachable: its handle is registered, so a
\* stop signals it and its end is observed, or the pass that spawned it is
\* still on its way to registering it (startWorker, stopWorker, exit handler).
NoOrphanProcess ==
  \A w \in Worker : rt[w].proc = "running" =>
    \/ rt[w].handle /\ exit[w].pc = "registered"
    \/ d.worker = w /\ d.pc \in {"active", "running", "register"}

\* A worker is recorded as canceled only when somebody asked for its stop,
\* whatever stale records the stop, start and exit tasks wrote meanwhile.
CanceledWasRequested ==
  \A w \in Worker : workers[w].status = "canceled" => workers[w].cancel

\* A stop that has written its record finalizes the worker with that request
\* in it: what makes CanceledWasRequested inductive.
StopAsked ==
  \A c \in Caller : stop[c].pc \in {"act", "kill", "finalize"} => stop[c].rec.cancel

\* The capacity limit counts processes, not records: never more children
\* than maxActiveWorkers are running (CapacityPolicy, dispatchLoop).
CapacityRespected ==
  Cardinality({w \in Worker : rt[w].proc = "running"}) <= MaxActiveWorkers

\* Never more write-capable children in one repository than the configured
\* limit (ConflictPolicy.hasWriteConflict over the pass's snapshot).
WriteExclusion ==
  WriteCapable => Cardinality({w \in Worker : rt[w].proc = "running"})
                    <= MaxWriteWorkersPerRepo

\* A job that has not ended has somebody who will move it on: it is queued,
\* about to be, in the hands of the pass, or one of its workers is still to
\* exit or its aggregation still to run.
NoLostJob ==
  up => \A j \in Job : jobs[j].status \in JobStatus \ TerminalJob =>
    \/ j \in queue \cup timers
    \/ d.job = j
    \/ agg[j].chain # <<>>
    \/ \E w \in WorkersOf(j) : exit[w].pc \in {"registered", "finishing", "terminal", "release"}
    \/ cancel[j].pc = "write"
    \/ \E c \in Caller : stop[c].pc # "idle" /\ stop[c].rec.job = j

\* Strict aggregation: a job is completed only if no worker it lists has
\* failed, however many workers were started for it meanwhile.
StrictAggregation ==
  \A j \in Job : jobs[j].status = "completed" =>
    \A w \in jobs[j].workerIds : results[w] # "failed"

\* Not true of the code: a worker that takes up a slot (isSchedulableWorker) is
\* being started or its exit is awaited, so that the slot is given back.
SlotsBacked ==
  up => \A w \in Worker : workers[w].status \in Schedulable =>
    \/ d.worker = w
    \/ exit[w].pc \in {"registered", "finishing", "terminal"}

\* No rejection goes unhandled, so the process keeps running.
StaysUp == up

\* Not true of the code: a job ends once, a terminal status is never overwritten.
JobEndsOnce ==
  [][\A j \in Job : jobs[j].status \in TerminalJob => jobs'[j].status = jobs[j].status]_vars

\* Not true of the code: a job is completed only when its workers have ended.
CompletedMeansAllEnded ==
  \A j \in Job : jobs[j].status = "completed" =>
    \A w \in WorkersOf(j) : workers[w].status \in TerminalWorker

\* The pass interval, timers, exits and promises all make progress.
Fairness ==
  /\ WF_vars(up /\ Pass) /\ \A j \in Job : WF_vars(up /\ RetryTimer(j))
  /\ \A j \in Job : WF_vars(up /\ (CancelWrite(j) \/ CancelList(j) \/ CancelDone(j)))
  /\ \A j \in Job : WF_vars(up /\ Aggregating(j))
  /\ \A c \in Caller : WF_vars(up /\ (StopWrite(c) \/ StopAct(c) \/ StopAwaitExit(c)
                                       \/ StopFinalize(c) \/ StopDone(c)))
  /\ \A j \in Job, w \in Worker : WF_vars(up /\ StopRead(j, w))
  /\ \A w \in Worker : WF_vars(up /\ ProcessExit(w)) /\ WF_vars(up /\ Exiting(w))

FairSpec == Spec /\ Fairness

\* Every submitted job ends for good, whatever its start, its processes and its
\* aggregation run into; only one that got no worker may wait for a model id.
EveryJobEnds ==
  <>[](\A j \in Job : jobs[j].status = "absent" \/ jobs[j].status \in TerminalJob
                        \/ (FreshWorker = {} /\ WorkersOf(j) = {}))
=============================================================================
