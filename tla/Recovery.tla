------------------------------ MODULE Recovery ------------------------------
(***************************************************************************)
(* An orchestrator that crashes, is shut down and starts again, over the   *)
(* records, processes, worktrees and result files it left: Reconciler      *)
(* (forced at startup, then periodic), CleanupManager, WorktreeManager,    *)
(* the persisted runtime identity of recovery.ts, both dispatch queues,    *)
(* and the runtime of index.ts.                                            *)
(*                                                                         *)
(* The dispatch pass, the exit handler and the aggregation are here at the *)
(* grain at which a crash leaves something different behind; JobControl    *)
(* has them in full.  A job has one worker at a time (maxWorkers = 1) and  *)
(* process mode.  A start takes less than workerStaleAfterMs.              *)
(***************************************************************************)
EXTENDS StateMachine, FiniteSets

CONSTANTS
  Job, Worker, NoJob, NoWorker,
  Submitted,         \* jobs clients submit; the other ids serve retries
  Backends,          \* dispatchQueueBackend: "memory", "sqlite"
  Outcomes,          \* <<exit kind, status in the worker's result file>>
  Faults,            \* {"worktree"} when git may fail
  Races,             \* a worker may settle between being listed and being judged
  MaxRetries,        \* metadata.maxRetries
  MaxCrashes         \* bound: crashes and shutdowns

ASSUME RecoveryAssumption ==
  /\ Submitted \subseteq Job /\ NoJob \notin Job /\ NoWorker \notin Worker
  /\ Backends \subseteq {"memory", "sqlite"}
  /\ Outcomes \subseteq {"ok", "error"} \X {"none", "completed", "failed"}
  /\ Faults \subseteq {"worktree"} /\ Races \in BOOLEAN
  /\ MaxRetries \in Nat /\ MaxCrashes \in Nat

VARIABLES
  mode,      \* the orchestrator: "down", "boot", "up", "draining"
  jobs,      \* job records: status, retryCount
  workers,   \* worker records: status, job, pid, worktreePath, cancelRequestedAt
  os,        \* processes, result files, worktree directories
  queue,     \* the dispatch queue
  timers,    \* retried jobs whose setTimeout(enqueue) has not fired
  d,         \* the dispatch pass
  exit,      \* #handleWorkerExit, one per worker
  beat,      \* workers whose assignment is active and fresh
  cached,    \* WorkerManager#workerResults
  agg,       \* #jobAggregationTasks: asked, and the task under way
  rc,        \* the reconcile pass
  crashes

store  == <<jobs, workers>>
memory == <<timers, exit, beat, cached, agg>>
vars == <<mode, store, os, queue, d, memory, rc, crashes>>

Running == mode \in {"up", "draining"}

NoRec   == [status |-> "absent", job |-> NoJob, pid |-> FALSE, tree |-> FALSE, cancel |-> FALSE]
NoPass  == [pc |-> "idle", todo |-> {}, job |-> NoJob, worker |-> NoWorker,
            snap |-> "absent"]
NoAgg   == [asked |-> FALSE, pc |-> "idle", snap |-> "absent", verdict |-> "failed"]
NoRecon == [pc |-> "idle", forced |-> FALSE, snap |-> [w \in {} |-> NoRec], repaired |-> {},
            todo |-> {}, worker |-> NoWorker, job |-> NoJob, status |-> "absent",
            verdict |-> "failed"]

Ended(w)     == workers[w].status \in TerminalWorker
WorkersOf(j) == {w \in Worker : workers[w].job = j}
Schedulable  == {"created", "starting", "active"}
Busy(j)      == {w \in WorkersOf(j) : workers[w].status \in Schedulable}
FreshWorker  == {w \in Worker : workers[w].status = "absent"}
JobEnded(j)  == jobs[j].status \in TerminalJob
Live(w)      == os.proc[w] = "live"

PutJob(j, s)    == jobs' = [jobs EXCEPT ![j].status = s]
PutWorker(w, s) == workers' = [workers EXCEPT ![w].status = s]

-----------------------------------------------------------------------------
(* The dispatch queue: JobQueue forgets it in a crash, SqliteDispatchQueue  *)
(* does not.  A job is in it once.                                         *)

Enqueued(j) == [queue EXCEPT !.jobs = @ \cup {j}]
Dequeued(j) == [queue EXCEPT !.jobs = @ \ {j}]

\* What is in memory goes, a queue in memory with it.
Forget ==
  /\ d' = NoPass /\ rc' = NoRecon /\ timers' = {} /\ beat' = {}
  /\ exit' = [w \in Worker |-> "none"] /\ cached' = [w \in Worker |-> "none"]
  /\ agg' = [j \in Job |-> NoAgg]
  /\ queue' = IF queue.backend = "sqlite" THEN queue ELSE [queue EXCEPT !.jobs = {}]

-----------------------------------------------------------------------------
(* Clients and retries *)

Submit(j) ==
  /\ mode = "up" /\ j \in Submitted /\ jobs[j].status = "absent"
  /\ PutJob(j, "queued") /\ queue' = Enqueued(j)
  /\ UNCHANGED <<mode, workers, os, d, memory, rc, crashes>>

RetryTimer(j) ==
  /\ Running /\ j \in timers
  /\ timers' = timers \ {j} /\ queue' = Enqueued(j)
  /\ UNCHANGED <<mode, store, os, d, exit, beat, cached, agg, rc, crashes>>

-----------------------------------------------------------------------------
(* Scheduler.dispatchLoop and WorkerManager.startWorker *)

Go(pc) == d' = [d EXCEPT !.pc = pc]
At(pc) == Running /\ d.pc = pc

BeginPass ==
  /\ mode = "up" /\ d.pc = "idle" /\ queue.jobs # {}
  /\ d' = [NoPass EXCEPT !.pc = "visit", !.todo = queue.jobs]
  /\ UNCHANGED <<mode, store, os, queue, memory, rc, crashes>>

\* Drop a job that ended or has its worker, else take it, and what it was.
Visit(j) ==
  /\ At("visit") /\ j \in d.todo
  /\ \/ /\ JobEnded(j) \/ Busy(j) # {}
        /\ d' = [d EXCEPT !.todo = @ \ {j}]
     \/ /\ ~JobEnded(j) /\ Busy(j) = {} /\ FreshWorker # {}
        /\ d' = [d EXCEPT !.pc = "prepare", !.todo = @ \ {j}, !.job = j, !.snap = jobs[j].status]
  /\ queue' = Dequeued(j)
  /\ UNCHANGED <<mode, store, os, memory, rc, crashes>>

\* The pass is through, or at capacity (as when no worker id is left).
EndPass ==
  /\ At("visit")
  /\ d.todo = {} \/ FreshWorker = {}
  /\ d' = NoPass
  /\ UNCHANGED <<mode, store, os, queue, memory, rc, crashes>>

\* #advanceJobToStatus(currentJob, Preparing), from the record just read.
Prepare ==
  /\ At("prepare") /\ Go("create")
  /\ IF Past(d.snap, "preparing") THEN UNCHANGED jobs ELSE PutJob(d.job, "preparing")
  /\ UNCHANGED <<mode, workers, os, queue, memory, rc, crashes>>

\* createWorker stores the worker and writes the job back as it was before.
CreateWorker ==
  /\ At("create")
  /\ \E w \in FreshWorker :
       /\ workers' = [workers EXCEPT ![w] = [NoRec EXCEPT !.status = "created", !.job = d.job]]
       /\ d' = [d EXCEPT !.pc = "start", !.worker = w]
  /\ UNCHANGED <<mode, jobs, os, queue, memory, rc, crashes>>

\* #advanceJobToStatus(current, target), or a throw when there is no such way.
Advanced(current, target) ==
  IF Past(current, target) THEN UNCHANGED jobs ELSE PutJob(d.job, target)

\* A throw leaves the record starting.
Starting ==
  /\ At("start") /\ PutWorker(d.worker, "starting")
  /\ LET now == jobs[d.job].status IN
     \/ AdvanceThrows(now, "dispatching") /\ Go("failed") /\ UNCHANGED jobs
     \/ ~AdvanceThrows(now, "dispatching") /\ Advanced(now, "dispatching") /\ Go("worktree")
  /\ UNCHANGED <<mode, os, queue, memory, rc, crashes>>

\* A failure here is outside the try block: the record stays starting.
CreateWorktree ==
  /\ At("worktree")
  /\ \/ os' = [os EXCEPT !.dir = @ \cup {d.worker}] /\ Go("spawn")
     \/ "worktree" \in Faults /\ Go("failed") /\ UNCHANGED os
  /\ UNCHANGED <<mode, store, queue, memory, rc, crashes>>

Spawn ==
  /\ At("spawn")
  /\ os' = [os EXCEPT !.proc[d.worker] = "live"] /\ Go("active")
  /\ UNCHANGED <<mode, store, queue, memory, rc, crashes>>

\* Until this write the pid and the worktree are only in memory.
ActiveWrite ==
  /\ At("active")
  /\ workers' = [workers EXCEPT ![d.worker] =
                   [@ EXCEPT !.status = "active", !.pid = TRUE, !.tree = TRUE]]
  /\ Go("register")
  /\ UNCHANGED <<mode, jobs, os, queue, memory, rc, crashes>>

\* The job is running, the assignment active, the exit watched.
Register ==
  /\ At("register") /\ Go("after") /\ Advanced(jobs[d.job].status, "running")
  /\ beat' = beat \cup {d.worker} /\ exit' = [exit EXCEPT ![d.worker] = "watch"]
  /\ UNCHANGED <<mode, workers, os, queue, timers, cached, agg, rc, crashes>>

FreshJob == {j \in Job \ Submitted : jobs[j].status = "absent"}

\* #handleDispatchFailure: fail the job, then perhaps retry it.  A status that
\* cannot fail any more rejects the whole pass, which nobody handles.
FailJob ==
  /\ At("failed")
  /\ LET now   == jobs[d.job]
         again == now.retries < MaxRetries IN
     \/ /\ now.status \in TerminalJob /\ ~again
        /\ Go("after") /\ UNCHANGED <<mode, jobs, queue, memory, rc>>
     \/ /\ now.status = "failed" \/ ValidJob(now.status, "failed")
        /\ PutJob(d.job, "failed") /\ Go(IF again THEN "retry" ELSE "after")
        /\ UNCHANGED <<mode, queue, memory, rc>>
     \/ /\ now.status # "failed" /\ ~ValidJob(now.status, "failed")
        /\ again \/ now.status \notin TerminalJob
        /\ mode' = "down" /\ Forget /\ UNCHANGED jobs
  /\ UNCHANGED <<workers, os, crashes>>

\* The new job waits for a timer that only memory knows of.
Retry ==
  /\ At("retry") /\ Go("after")
  /\ \/ \E r \in FreshJob :
          /\ jobs' = [jobs EXCEPT ![r] = [status |-> "queued", retries |-> jobs[d.job].retries + 1]]
          /\ timers' = timers \cup {r}
     \/ FreshJob = {} /\ UNCHANGED <<jobs, timers>>
  /\ UNCHANGED <<mode, workers, os, queue, exit, beat, cached, agg, rc, crashes>>

\* A job that still has no worker goes back into the queue.
AfterJob ==
  /\ At("after")
  /\ d' = [NoPass EXCEPT !.pc = "visit", !.todo = d.todo]
  /\ queue' = IF JobEnded(d.job) \/ Busy(d.job) # {} THEN queue ELSE Enqueued(d.job)
  /\ UNCHANGED <<mode, store, os, memory, rc, crashes>>

-----------------------------------------------------------------------------
(* A worker's process, with or without an orchestrator *)

ProcessEnds(w) ==
  /\ Live(w)
  /\ \E o \in Outcomes :
       os' = [os EXCEPT !.proc[w] = o[1], !.file[w] = IF o[2] = "none" THEN @ ELSE o[2]]
  /\ UNCHANGED <<mode, store, queue, d, memory, rc, crashes>>

-----------------------------------------------------------------------------
(* #handleWorkerExit *)

ExitTo(w, pc) == exit' = [exit EXCEPT ![w] = pc]

\* A record that has ended already is left as it is.
ExitBegins(w) ==
  /\ Running /\ exit[w] = "watch" /\ ~Live(w)
  /\ \/ Ended(w) /\ beat' = beat \ {w} /\ ExitTo(w, "none") /\ UNCHANGED workers
     \/ ~Ended(w) /\ PutWorker(w, "finishing") /\ ExitTo(w, "collect") /\ UNCHANGED beat
  /\ UNCHANGED <<mode, jobs, os, queue, d, timers, cached, agg, rc, crashes>>

ExecutionStatus(w) ==
  CASE workers[w].cancel     -> "canceled"
    [] os.proc[w] = "ok"     -> "completed"
    [] OTHER                 -> "failed"

FinalStatus(w) ==
  CASE workers[w].cancel     -> "canceled"
    [] os.proc[w] = "ok"     -> "finished"
    [] os.proc[w] = "killed" -> "lost"
    [] OTHER                 -> "failed"

\* The result file, or a fallback written in its place; the worktree goes.
ExitCollects(w) ==
  /\ Running /\ exit[w] = "collect"
  /\ LET result == IF os.file[w] = "none" THEN ExecutionStatus(w) ELSE os.file[w] IN
     /\ os' = [os EXCEPT !.file[w] = result,
                         !.dir = IF workers[w].tree THEN @ \ {w} ELSE @]
     /\ cached' = [cached EXCEPT ![w] = result]
  /\ ExitTo(w, "settle")
  /\ UNCHANGED <<mode, store, queue, d, timers, beat, agg, rc, crashes>>

\* The terminal record; then the assignment is released and the job aggregated.
ExitSettles(w) ==
  /\ Running /\ exit[w] = "settle"
  /\ PutWorker(w, FinalStatus(w)) /\ ExitTo(w, "none") /\ beat' = beat \ {w}
  /\ agg' = [agg EXCEPT ![workers[w].job].asked = TRUE]
  /\ UNCHANGED <<mode, jobs, os, queue, d, timers, cached, rc, crashes>>

-----------------------------------------------------------------------------
(* #aggregateJobIfReady, and the verdict of ResultAggregator *)

\* Mutant: a failed worker does not fail the job.
VerdictLenient(results) == IF "canceled" \in results THEN "canceled" ELSE "completed"

Verdict(results) ==
  CASE results \cap {"failed", "timed_out"} # {} -> "failed"
    [] "canceled" \in results                    -> "canceled"
    [] OTHER                                     -> "completed"

\* #executionStatusFromWorker: what is left of a result after a restart.
FromRecord(w) ==
  CASE workers[w].status = "canceled" -> "canceled"
    [] workers[w].status = "finished" -> "completed"
    [] OTHER                          -> "failed"
CachedResult(w) == IF cached[w] # "none" THEN cached[w] ELSE FromRecord(w)

AggBegins(j) ==
  /\ Running /\ agg[j].asked /\ agg[j].pc = "idle"
  /\ \/ /\ JobEnded(j) \/ \E w \in WorkersOf(j) : ~Ended(w)
        /\ agg' = [agg EXCEPT ![j] = NoAgg] /\ UNCHANGED jobs
     \/ /\ ~JobEnded(j) /\ \A w \in WorkersOf(j) : Ended(w)
        /\ PutJob(j, "aggregating")
        /\ agg' = [agg EXCEPT ![j] =
                     [NoAgg EXCEPT !.pc = "final",
                        !.verdict = Verdict({CachedResult(w) : w \in WorkersOf(j)})]]
  /\ UNCHANGED <<mode, workers, os, queue, d, timers, exit, beat, cached, rc, crashes>>

AggEnds(j) ==
  /\ Running /\ agg[j].pc = "final"
  /\ PutJob(j, agg[j].verdict) /\ agg' = [agg EXCEPT ![j] = NoAgg]
  /\ UNCHANGED <<mode, workers, os, queue, d, timers, exit, beat, cached, rc, crashes>>

-----------------------------------------------------------------------------
(* Reconciler.reconcile.  Forced at startup, before anything else runs;    *)
(* then periodic, next to the pass and the exit handlers.                  *)

Reconciling == mode \in {"boot", "up", "draining"}
RcAt(pc)    == Reconciling /\ rc.pc = pc

\* Mutant: workers that have not started yet are left alone.
UnendedStarted == {w \in Worker : workers[w].status \in {"active", "finishing"}}

Unended == {w \in Worker : workers[w].status \notin TerminalWorker \cup {"absent"}}
Listed(forced) == [NoRecon EXCEPT !.pc = "repair", !.forced = forced,
                                  !.snap = [w \in Unended |-> workers[w]]]

RcList ==
  /\ mode = "up" /\ rc.pc = "idle"
  /\ rc' = Listed(FALSE)
  /\ UNCHANGED <<mode, store, os, queue, d, memory, crashes>>

Skipped(w) == [rc EXCEPT !.snap = [v \in DOMAIN rc.snap \ {w} |-> rc.snap[v]]]

\* A worker this process starts or watches keeps its record or its assignment
\* fresh; any other record has become stale when a pass comes to it.
Tended(w) == w \in beat \/ (w = d.worker /\ d.pc \notin {"idle", "visit", "failed", "retry", "after"})

RcSkip(w) ==
  /\ RcAt("repair") /\ w \in DOMAIN rc.snap /\ ~rc.forced
  /\ Tended(w) \/ (~Races /\ workers[w] # rc.snap[w])
  /\ rc' = Skipped(w)
  /\ UNCHANGED <<mode, store, os, queue, d, memory, crashes>>

\* isPersistedRuntimeIdentityLive: only a pid on record can be asked about.
KnownLive(w) == rc.snap[w].pid /\ Live(w)

\* Mutant: a live process is left to itself.
DispositionLeavesLive(w) ==
  IF rc.snap[w].status = "created" THEN "finalize_canceled_created" ELSE "finalize_lost"

\* classifyWorkerRecoveryDisposition, for the record as listed.
Disposition(w) ==
  CASE rc.snap[w].status = "created" -> "finalize_canceled_created"
    [] KnownLive(w)                  -> "terminate_only"
    [] OTHER                         -> "finalize_lost"

\* terminateDetachedProcess: SIGTERM, a wait, SIGKILL; the process is gone after.
Terminated(w) == [os EXCEPT !.proc[w] = "killed"]

\* #repairWorker: the process recorded is ended first, then the listed record
\* is written back whole.
RcTerminate(w) ==
  /\ RcAt("repair") /\ w \in DOMAIN rc.snap
  /\ rc.forced \/ ~Tended(w)
  /\ Races \/ workers[w] = rc.snap[w]
  /\ LET way == Disposition(w) IN
     /\ os' = IF way = "terminate_only" THEN Terminated(w) ELSE os
     /\ rc' = [Skipped(w) EXCEPT !.pc = "write", !.worker = w, !.repaired = @ \cup {rc.snap[w].job},
                 !.status = IF way = "finalize_canceled_created" THEN "canceled" ELSE "lost"]
  /\ UNCHANGED <<mode, store, queue, d, memory, crashes>>

RcWrite ==
  /\ RcAt("write")
  /\ PutWorker(rc.worker, rc.status)
  /\ rc' = [rc EXCEPT !.pc = "result"]
  /\ UNCHANGED <<mode, jobs, os, queue, d, memory, crashes>>

\* createFallbackWorkerResult takes the place of whatever the worker wrote.
RcResult ==
  /\ RcAt("result")
  /\ os' = [os EXCEPT !.file[rc.worker] = IF rc.status = "canceled" THEN "canceled" ELSE "failed"]
  /\ rc' = [rc EXCEPT !.pc = "repair", !.worker = NoWorker]
  /\ UNCHANGED <<mode, store, queue, d, memory, crashes>>

RcJobs ==
  /\ RcAt("repair") /\ rc.snap = << >>
  /\ rc' = [rc EXCEPT !.pc = "jobs", !.todo = {j \in Job : jobs[j].status # "absent" /\ ~JobEnded(j)}]
  /\ UNCHANGED <<mode, store, os, queue, d, memory, crashes>>

Seen(j) == [rc EXCEPT !.todo = @ \ {j}]

RcJob(j) ==
  /\ RcAt("jobs") /\ j \in rc.todo
  /\ \/ JobEnded(j) /\ rc' = Seen(j) /\ UNCHANGED queue
     \/ /\ ~JobEnded(j)
        /\ j \in rc.repaired \/ WorkersOf(j) = {}
        /\ queue' = Enqueued(j) /\ rc' = Seen(j)
     \/ /\ ~JobEnded(j) /\ j \notin rc.repaired
        /\ \E w \in WorkersOf(j) : ~Ended(w)
        /\ rc' = Seen(j) /\ UNCHANGED queue
  /\ UNCHANGED <<mode, store, os, d, memory, crashes>>

\* #finalizeRecoveredJob: collect, or write the fallback; then aggregate.
Fallback(w) == IF workers[w].status = "canceled" THEN "canceled" ELSE "failed"
Collected(w) == IF os.file[w] # "none" THEN os.file[w] ELSE Fallback(w)

RcFinalize(j) ==
  /\ RcAt("jobs") /\ j \in rc.todo
  /\ ~JobEnded(j) /\ j \notin rc.repaired
  /\ WorkersOf(j) # {} /\ \A w \in WorkersOf(j) : Ended(w)
  /\ os' = [os EXCEPT !.file = [w \in Worker |-> IF w \in WorkersOf(j) THEN Collected(w) ELSE @[w]]]
  /\ rc' = [Seen(j) EXCEPT !.pc = "aggregate", !.job = j, !.status = jobs[j].status,
              !.verdict = Verdict({Collected(w) : w \in WorkersOf(j)})]
  /\ UNCHANGED <<mode, store, queue, d, memory, crashes>>

RcAggregate ==
  /\ RcAt("aggregate")
  /\ PutJob(rc.job, "aggregating") /\ rc' = [rc EXCEPT !.pc = "final"]
  /\ UNCHANGED <<mode, workers, os, queue, d, memory, crashes>>

RcFinal ==
  /\ RcAt("final")
  /\ PutJob(rc.job, rc.verdict) /\ rc' = [rc EXCEPT !.pc = "jobs", !.job = NoJob]
  /\ UNCHANGED <<mode, workers, os, queue, d, memory, crashes>>

\* Mutant: a worktree goes whatever its worker's status.
StaleTreesAll == {w \in os.dir : workers[w].tree}
\* cleanupStaleWorktrees: the directories of ended workers.  One that no record
\* names (a start that never got to record it) goes only when it is old.
StaleTrees == {w \in os.dir : workers[w].tree /\ Ended(w)}
OldTrees   == {w \in os.dir : ~workers[w].tree /\ ~Tended(w)}

RcCleanup ==
  /\ RcAt("jobs") /\ rc.todo = {}
  /\ \E old \in {{}, OldTrees} : os' = [os EXCEPT !.dir = (@ \ StaleTrees) \ old]
  /\ rc' = NoRecon
  /\ mode' = IF mode = "boot" THEN "up" ELSE mode
  /\ UNCHANGED <<store, queue, d, memory, crashes>>

-----------------------------------------------------------------------------
(* index.ts: shutdown, crash, startup *)

\* stopRuntime: no new pass; the workers with a live assignment are stopped.
\* One whose start is under way has none yet.
Drain ==
  /\ mode = "up" /\ crashes < MaxCrashes
  /\ mode' = "draining" /\ crashes' = crashes + 1
  /\ workers' = [w \in Worker |-> IF w \in beat THEN [workers[w] EXCEPT !.cancel = TRUE]
                                  ELSE workers[w]]
  /\ os' = [os EXCEPT !.proc = [w \in Worker |-> IF w \in beat /\ @[w] = "live" THEN "killed" ELSE @[w]]]
  /\ UNCHANGED <<jobs, queue, d, memory, rc>>

\* waitForWorkerSettlement, for the workers that were listed.
Stopped ==
  /\ mode = "draining" /\ beat = {} /\ \A j \in Job : ~agg[j].asked /\ agg[j].pc = "idle"
  /\ mode' = "down" /\ Forget
  /\ UNCHANGED <<store, os, crashes>>

\* The processes live on, or the whole host goes down.
Crash ==
  /\ mode \in {"boot", "up"} /\ crashes < MaxCrashes
  /\ mode' = "down" /\ crashes' = crashes + 1 /\ Forget
  /\ \/ UNCHANGED os
     \/ os' = [os EXCEPT !.proc = [w \in Worker |-> IF @[w] = "live" THEN "killed" ELSE @[w]]]
  /\ UNCHANGED store

Startup ==
  /\ mode = "down" /\ mode' = "boot" /\ rc' = Listed(TRUE)
  /\ UNCHANGED <<store, os, queue, d, memory, crashes>>

-----------------------------------------------------------------------------
Init ==
  /\ mode = "up" /\ crashes = 0
  /\ jobs = [j \in Job |-> [status |-> "absent", retries |-> 0]]
  /\ workers = [w \in Worker |-> NoRec]
  /\ os = [proc |-> [w \in Worker |-> "none"], file |-> [w \in Worker |-> "none"], dir |-> {}]
  /\ \E b \in Backends : queue = [backend |-> b, jobs |-> {}]
  /\ timers = {} /\ d = NoPass /\ exit = [w \in Worker |-> "none"] /\ beat = {}
  /\ cached = [w \in Worker |-> "none"] /\ agg = [j \in Job |-> NoAgg] /\ rc = NoRecon

Pass == \/ BeginPass \/ EndPass \/ Prepare \/ CreateWorker \/ Starting \/ CreateWorktree
        \/ Spawn \/ ActiveWrite \/ Register \/ FailJob \/ Retry \/ AfterJob
        \/ \E j \in Job : Visit(j)
Handle(w) == ExitBegins(w) \/ ExitCollects(w) \/ ExitSettles(w)
Aggregate(j) == AggBegins(j) \/ AggEnds(j)
Reconcile == \/ RcList \/ RcWrite \/ RcResult \/ RcJobs \/ RcAggregate \/ RcFinal \/ RcCleanup
             \/ \E w \in Worker : RcSkip(w) \/ RcTerminate(w)
             \/ \E j \in Job : RcJob(j) \/ RcFinalize(j)

Next ==
  \/ \E j \in Job : Submit(j) \/ RetryTimer(j) \/ Aggregate(j)
  \/ \E w \in Worker : ProcessEnds(w) \/ Handle(w)
  \/ Pass \/ Reconcile
  \/ Drain \/ Stopped \/ Crash \/ Startup

\* Timers fire, promises settle, a process ends or is killed at its timeout, the
\* orchestrator is started again, and a record nobody tends becomes stale.
Spec == Init /\ [][Next]_vars
FairSpec ==
  /\ Spec /\ WF_vars(Pass) /\ WF_vars(Reconcile) /\ WF_vars(Stopped) /\ WF_vars(Startup)
  /\ \A j \in Job : WF_vars(RetryTimer(j)) /\ WF_vars(Aggregate(j))
  /\ \A w \in Worker : WF_vars(ProcessEnds(w)) /\ WF_vars(Handle(w))

-----------------------------------------------------------------------------
\* Every record has a status of its own table.
TypeOK ==
  /\ mode \in {"down", "boot", "up", "draining"} /\ crashes \in 0..MaxCrashes
  /\ jobs \in [Job -> [status : JobStatus \cup {"absent"}, retries : 0..MaxRetries]]
  /\ workers \in [Worker -> [status : WorkerStatus \cup {"absent"}, job : Job \cup {NoJob},
                             pid : BOOLEAN, tree : BOOLEAN, cancel : BOOLEAN]]
  /\ os.proc \in [Worker -> {"none", "live", "ok", "error", "killed"}]
  /\ os.file \in [Worker -> {"none", "completed", "failed", "canceled"}]
  /\ os.dir \subseteq Worker /\ beat \subseteq Worker /\ timers \subseteq Job
  /\ queue.jobs \subseteq Job /\ DOMAIN rc.snap \subseteq Worker

\* A worker whose process is known by its pid has an ended record only when the
\* process is gone, whoever ended the record: the exit handler, a shutdown, or a
\* pass over what a crash left.  (One spawned just before a crash has no pid on
\* record, and nobody finds it again.)
NoStrayProcess == \A w \in Worker : Ended(w) /\ workers[w].pid => ~Live(w)

\* No cleanup takes the worktree of a process that is on record and runs.
TreeKept == \A w \in Worker : workers[w].tree /\ Live(w) => w \in os.dir

\* A job is completed only on a result that a worker delivered, also when memory
\* was lost and the verdict comes from files, fallbacks or records.
CompletedOnResults ==
  \A j \in Job : jobs[j].status = "completed" =>
    \E w \in WorkersOf(j) : os.file[w] = "completed"

\* Whatever crashed when, in the end every job and every worker has ended and the
\* worktrees of the workers are gone (a job may wait in the queue for one more
\* worker id than the model has).
Settles ==
  <>[](/\ \A j \in Job : \/ jobs[j].status = "absent" \/ JobEnded(j)
                        \/ (FreshWorker = {} /\ j \in queue.jobs)
       /\ \A w \in Worker : /\ workers[w].status = "absent" \/ Ended(w)
                            /\ workers[w].tree => w \notin os.dir)

\* A worker's record, once ended, stays as it is.  Not true of the code when a
\* worker settles between a periodic pass listing it and judging it: the pass
\* writes lost over finished.
WorkerEndsOnce ==
  [][\A w \in Worker : Ended(w) => workers'[w].status = workers[w].status]_vars

\* A job put back because its worker was lost is judged by the worker it was put
\* back for.  Not true of the code: the lost worker's result fails the job.
PutBackCounts ==
  [][\A j \in Job : \A w \in WorkersOf(j) :
       /\ workers[w].status = "finished" /\ os.file[w] = "completed"
       /\ \A v \in WorkersOf(j) \ {w} : workers[v].status = "lost"
       /\ ~JobEnded(j) /\ JobEnded(j)'
       => jobs'[j].status = "completed"]_vars
=============================================================================
