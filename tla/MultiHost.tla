------------------------------ MODULE MultiHost ------------------------------
(***************************************************************************)
(* Several runtimes (index.ts) that share one state store, one sqlite      *)
(* dispatch queue and one sqlite control plane, as ops/multiHost.ts sets   *)
(* them up: the lease that makes one scheduler the leader, the assignments *)
(* that keep the reconcilers of the others away from running workers, the  *)
(* shutdown of one runtime, and the takeover by another.                   *)
(*                                                                         *)
(* Runtimes are processes of their own: any two statements of different    *)
(* runtimes interleave.  What Coordinator shows is assumed here: a running *)
(* host's assignments stay fresh, and a lease outlives a dispatch pass.    *)
(* JobControl has the pass, the exit handler and the aggregation in full,  *)
(* Recovery the reconcile pass; here a job has one worker at a time, a     *)
(* start does not fail, and the hosts see each other's processes.          *)
(***************************************************************************)
EXTENDS FiniteSets, Sequences, SequencesExt

CONSTANTS
  Host, Job, Worker, NoHost, NoJob, NoWorker,
  Stoppable, Mortal,  \* hosts that may be shut down, that may crash
  Joins,              \* a runtime may start while others run workers
  StopMidPass,        \* a runtime may be shut down during a dispatch pass
  MaxBoots            \* bound: starts of one host

ASSUME MultiHostAssumption ==
  /\ NoHost \notin Host /\ NoJob \notin Job /\ NoWorker \notin Worker
  /\ Stoppable \subseteq Host /\ Mortal \subseteq Host
  /\ Joins \in BOOLEAN /\ StopMidPass \in BOOLEAN /\ MaxBoots \in Nat

VARIABLES
  jobs,      \* job records: "absent", "queued", "running", "ended"
  workers,   \* worker records: status, job, host, pid known
  queue,     \* dispatch_queue, in its order; jobs of one priority
  lease,     \* control_leases, "scheduler:dispatch": owner, not expired
  assigned,  \* control_worker_assignments: the host of an active assignment
  live,      \* workers whose process runs
  run,       \* each host: "down", "boot", "up", "stopping"
  boots,
  release,   \* hosts between the read and the delete of releaseLease
  pass,      \* each host's dispatch pass
  exit,      \* #handleWorkerExit, one per worker, at the worker's host
  rec        \* each host's reconcile pass

store == <<jobs, workers>>
plane == <<lease, assigned, release>>
local == <<run, boots, pass, exit, rec>>
vars  == <<store, plane, local, queue, live>>

Running(h) == run[h] # "down"
NoPass  == [pc |-> "idle", todo |-> << >>, job |-> NoJob, worker |-> NoWorker]
NoRecon == [pc |-> "idle", forced |-> FALSE, todo |-> {}, victim |-> NoWorker, fixed |-> {},
            jobs |-> {}]
NoRec   == [status |-> "absent", job |-> NoJob, host |-> NoHost, pid |-> FALSE]

Schedulable  == {"starting", "active"}
Ended(w)     == workers[w].status \in {"finished", "lost"}
Unended      == {w \in Worker : workers[w].status \in Schedulable \cup {"finishing"}}
WorkersOf(j) == {w \in Worker : workers[w].job = j}
FreshWorker  == {w \in Worker : workers[w].status = "absent"}

-----------------------------------------------------------------------------
(* SqliteDispatchQueue: one row per job; an entry that comes again goes to  *)
(* the end, since its sequence is one more than the largest in the table.   *)

Enqueued(j) == Append(SelectSeq(queue, LAMBDA k : k # j), j)
Dequeued(j) == SelectSeq(queue, LAMBDA k : k # j)

-----------------------------------------------------------------------------
(* SqliteControlPlaneCoordinator *)

\* Mutant: an unexpired lease of another owner is taken.
CanAcquireAlways(h) == TRUE

\* Mutant: an expired lease is not taken over.
CanAcquireVacant(h) == lease.owner \in {NoHost, h}

CanAcquire(h) == lease.owner \in {NoHost, h} \/ ~lease.fresh
Acquired(h)   == [owner |-> h, fresh |-> TRUE]
NoLease       == [owner |-> NoHost, fresh |-> FALSE]

\* releaseWorkerHeartbeat: only by the executor the assignment is for.
ReleasedBy(h, w) == IF assigned[w] = h THEN [assigned EXCEPT ![w] = NoHost] ELSE assigned

\* The heartbeats of a running host are on time; those of another have lapsed
\* by the time anybody acts on it.
Fresh(w) == assigned[w] # NoHost /\ Running(assigned[w])

\* A lease lapses when its owner is not renewing it; not during its pass.
Lapse ==
  /\ lease.fresh
  /\ ~Running(lease.owner) \/ pass[lease.owner].pc = "idle"
  /\ lease' = [lease EXCEPT !.fresh = FALSE]
  /\ UNCHANGED <<store, assigned, release, local, queue, live>>

-----------------------------------------------------------------------------
(* Clients, and the dispatch pass of a host *)

Submit(h, j) ==
  /\ run[h] = "up" /\ jobs[j] = "absent"
  /\ jobs' = [jobs EXCEPT ![j] = "queued"] /\ queue' = Enqueued(j)
  /\ UNCHANGED <<workers, plane, local, live>>

At(h, pc) == Running(h) /\ pass[h].pc = pc
Go(h, pc) == pass' = [pass EXCEPT ![h].pc = pc]

\* A timer tick: the lease first, then the queue as it is now.
BeginPass(h) ==
  /\ run[h] = "up" /\ pass[h].pc = "idle" /\ CanAcquire(h)
  /\ lease' = Acquired(h)
  /\ pass' = IF queue = << >> THEN pass
             ELSE [pass EXCEPT ![h] = [NoPass EXCEPT !.pc = "visit", !.todo = queue]]
  /\ UNCHANGED <<store, assigned, release, run, boots, exit, rec, queue, live>>

Busy(j) == \E w \in WorkersOf(j) : workers[w].status \in Schedulable

Needless(j) == jobs[j] = "ended" \/ Busy(j)

\* No capacity for the next entry (here: no worker id).
Full(h) ==
  /\ FreshWorker = {} /\ pass[h].todo # << >>
  /\ ~Needless(Head(pass[h].todo))

\* The next entry: dropped when its job has ended or has a worker, else taken out
\* and started.  Nobody asks whether the row was still there.
Visit(h) ==
  /\ At(h, "visit") /\ pass[h].todo # << >> /\ ~Full(h)
  /\ LET j == Head(pass[h].todo) IN
     /\ queue' = Dequeued(j)
     /\ pass' = [pass EXCEPT ![h] = [@ EXCEPT !.todo = Tail(@), !.job = j,
                                     !.pc = IF Needless(j) THEN "visit" ELSE "create"]]
  /\ UNCHANGED <<store, plane, run, boots, exit, rec, live>>

EndPass(h) ==
  /\ At(h, "visit")
  /\ pass[h].todo = << >> \/ Full(h)
  /\ pass' = [pass EXCEPT ![h] = NoPass]
  /\ UNCHANGED <<store, plane, run, boots, exit, rec, queue, live>>

\* createWorker and startWorker's first writes; the job is written as it was read.
Create(h) ==
  /\ At(h, "create")
  /\ \E w \in FreshWorker :
       /\ workers' = [workers EXCEPT ![w] =
                        [status |-> "starting", job |-> pass[h].job, host |-> h, pid |-> FALSE]]
       /\ pass' = [pass EXCEPT ![h] = [@ EXCEPT !.pc = "spawn", !.worker = w]]
  /\ jobs' = [jobs EXCEPT ![pass[h].job] = "running"]
  /\ UNCHANGED <<plane, run, boots, exit, rec, queue, live>>

Spawn(h) ==
  /\ At(h, "spawn") /\ live' = live \cup {pass[h].worker} /\ Go(h, "active")
  /\ UNCHANGED <<store, plane, run, boots, exit, rec, queue>>

\* The active record, written whole, with the pid.
ActiveWrite(h) ==
  /\ At(h, "active") /\ Go(h, "register")
  /\ workers' = [workers EXCEPT ![pass[h].worker] = [@ EXCEPT !.status = "active", !.pid = TRUE]]
  /\ UNCHANGED <<jobs, plane, run, boots, exit, rec, queue, live>>

\* upsertWorkerHeartbeat, the timer that repeats it, and the watch on the exit.
Register(h) ==
  /\ At(h, "register") /\ Go(h, "after")
  /\ assigned' = [assigned EXCEPT ![pass[h].worker] = h]
  /\ exit' = [exit EXCEPT ![pass[h].worker] = "watch"]
  /\ UNCHANGED <<store, lease, release, run, boots, rec, queue, live>>

\* A job that still wants a worker goes back into the queue.
AfterJob(h) ==
  /\ At(h, "after")
  /\ pass' = [pass EXCEPT ![h] = [NoPass EXCEPT !.pc = "visit", !.todo = pass[h].todo]]
  /\ queue' = IF jobs[pass[h].job] = "ended" \/ Busy(pass[h].job) THEN queue
              ELSE Enqueued(pass[h].job)
  /\ UNCHANGED <<store, plane, run, boots, exit, rec, live>>

-----------------------------------------------------------------------------
(* The end of a worker, at its host *)

Here(w)       == Running(workers[w].host)
ExitTo(w, pc) == exit' = [exit EXCEPT ![w] = pc]
Record(w, s)  == workers' = [workers EXCEPT ![w].status = s]

ProcessEnds(w) ==
  /\ w \in live /\ live' = live \ {w}
  /\ UNCHANGED <<store, plane, local, queue>>

\* A record somebody has ended is left alone.
ExitBegins(w) ==
  /\ exit[w] = "watch" /\ w \notin live /\ Here(w)
  /\ \/ /\ Ended(w) /\ assigned' = ReleasedBy(workers[w].host, w)
        /\ ExitTo(w, "none") /\ UNCHANGED workers
     \/ ~Ended(w) /\ Record(w, "finishing") /\ ExitTo(w, "settle") /\ UNCHANGED assigned
  /\ UNCHANGED <<jobs, lease, release, run, boots, pass, rec, queue, live>>

\* The terminal record, over whatever was written since.
ExitSettles(w) ==
  /\ exit[w] = "settle" /\ Here(w)
  /\ Record(w, "finished") /\ assigned' = ReleasedBy(workers[w].host, w) /\ ExitTo(w, "aggregate")
  /\ UNCHANGED <<jobs, lease, release, run, boots, pass, rec, queue, live>>

AllEnded(j) == \A w \in WorkersOf(j) : Ended(w)

\* #aggregateJobIfReady, in one step.
Aggregate(w) ==
  /\ exit[w] = "aggregate" /\ Here(w) /\ ExitTo(w, "none")
  /\ jobs' = IF AllEnded(workers[w].job) THEN [jobs EXCEPT ![workers[w].job] = "ended"] ELSE jobs
  /\ UNCHANGED <<workers, plane, run, boots, pass, rec, queue, live>>

-----------------------------------------------------------------------------
(* Reconciler.reconcile of a host: forced at its start, then periodic *)

RecAt(h, pc) == Running(h) /\ rec[h].pc = pc
PutRec(h, r) == rec' = [rec EXCEPT ![h] = r]
Pending      == {j \in Job : jobs[j] \in {"queued", "running"}}
Listing(forced) == [NoRecon EXCEPT !.pc = "judge", !.forced = forced, !.todo = Unended]

RecBegin(h) ==
  /\ run[h] = "up" /\ RecAt(h, "idle") /\ PutRec(h, Listing(FALSE))
  /\ UNCHANGED <<store, plane, run, boots, pass, exit, queue, live>>

\* A start is shorter than workerStaleAfterMs.
StartedNow(w) == \E h \in Host : Running(h) /\ pass[h].worker = w

\* Mutant: a periodic pass judges by the age of the record alone.
SparedYoung(h, w) == ~rec[h].forced /\ StartedNow(w)

\* #getRecoveryDisposition: a young record, or a fresh assignment, unless forced.
Spared(h, w) == ~rec[h].forced /\ (StartedNow(w) \/ Fresh(w))

\* Nothing to repair, or #repairWorker's first half: the process is ended, by the
\* pid on record, whichever host it belongs to.
Judge(h, w) ==
  /\ RecAt(h, "judge") /\ w \in rec[h].todo
  /\ \/ /\ Ended(w) \/ Spared(h, w)
        /\ PutRec(h, [rec[h] EXCEPT !.todo = @ \ {w}]) /\ UNCHANGED live
     \/ /\ ~Ended(w) /\ ~Spared(h, w)
        /\ live' = IF workers[w].pid THEN live \ {w} ELSE live
        /\ PutRec(h, [rec[h] EXCEPT !.todo = @ \ {w}, !.pc = "write", !.victim = w])
  /\ UNCHANGED <<store, plane, run, boots, pass, exit, queue>>

\* The record is lost, and its job will be put back.
Repair(h) ==
  /\ RecAt(h, "write") /\ Record(rec[h].victim, "lost")
  /\ PutRec(h, [rec[h] EXCEPT !.pc = "judge", !.victim = NoWorker,
                              !.fixed = @ \cup {workers[rec[h].victim].job}])
  /\ UNCHANGED <<jobs, plane, run, boots, pass, exit, queue, live>>

RecJobs(h) ==
  /\ RecAt(h, "judge") /\ rec[h].todo = {}
  /\ PutRec(h, [rec[h] EXCEPT !.pc = "jobs", !.jobs = Pending])
  /\ UNCHANGED <<store, plane, run, boots, pass, exit, queue, live>>

PutBack(h, j) == j \in rec[h].fixed \/ WorkersOf(j) = {}

\* A job that lost its worker, or has none, is put back; one whose workers have
\* all ended is finalized; any other is left to its worker.
RecJob(h, j) ==
  /\ RecAt(h, "jobs") /\ j \in rec[h].jobs
  /\ PutRec(h, [rec[h] EXCEPT !.jobs = @ \ {j}])
  /\ LET open == jobs[j] # "ended" IN
     /\ queue' = IF open /\ PutBack(h, j) THEN Enqueued(j) ELSE queue
     /\ jobs' = IF open /\ ~PutBack(h, j) /\ AllEnded(j) THEN [jobs EXCEPT ![j] = "ended"] ELSE jobs
  /\ UNCHANGED <<workers, plane, run, boots, pass, exit, live>>

RecEnd(h) ==
  /\ RecAt(h, "jobs") /\ rec[h].jobs = {}
  /\ PutRec(h, NoRecon)
  /\ run' = IF run[h] = "boot" THEN [run EXCEPT ![h] = "up"] ELSE run
  /\ UNCHANGED <<store, plane, boots, pass, exit, queue, live>>

-----------------------------------------------------------------------------
(* createOrchestratorRuntime, stopRuntime, and a crash *)

Alone(h) == \A w \in Unended : ~Here(w)

\* Before anything else a new runtime reconciles with forceRuntimeRecovery.
Boot(h) ==
  /\ run[h] = "down" /\ boots[h] < MaxBoots
  /\ Joins \/ Alone(h)
  /\ run' = [run EXCEPT ![h] = "boot"] /\ boots' = [boots EXCEPT ![h] = @ + 1]
  /\ PutRec(h, Listing(TRUE))
  /\ UNCHANGED <<store, plane, pass, exit, queue, live>>

Owned(h) == {w \in Worker : assigned[w] = h}

\* Scheduler.stop reads the lease; the workers assigned to this host are stopped.
\* A dispatch or reconcile pass under way goes on.
Stop(h) ==
  /\ h \in Stoppable /\ run[h] = "up"
  /\ StopMidPass \/ pass[h].pc = "idle"
  /\ run' = [run EXCEPT ![h] = "stopping"]
  /\ release' = IF lease.owner = h THEN release \cup {h} ELSE release
  /\ live' = live \ Owned(h)
  /\ UNCHANGED <<store, lease, assigned, boots, pass, exit, rec, queue>>

\* The delete names the key only, not the owner that was read.
DeleteLease(h) ==
  /\ h \in release /\ release' = release \ {h} /\ lease' = NoLease
  /\ UNCHANGED <<store, assigned, local, queue, live>>

\* What memory held is gone.
Gone(h) ==
  /\ run' = [run EXCEPT ![h] = "down"]
  /\ pass' = [pass EXCEPT ![h] = NoPass] /\ PutRec(h, NoRecon)
  /\ exit' = [w \in Worker |-> IF workers[w].host = h THEN "none" ELSE exit[w]]

\* Its workers have settled: unregisterExecutor, and the stores are closed.
Unregister(h) ==
  /\ run[h] = "stopping" /\ h \notin release
  /\ \A w \in Worker : workers[w].host = h => exit[w] = "none"
  /\ lease' = IF lease.owner = h THEN NoLease ELSE lease
  /\ assigned' = [w \in Worker |-> IF assigned[w] = h THEN NoHost ELSE assigned[w]]
  /\ Gone(h)
  /\ UNCHANGED <<store, release, boots, queue, live>>

\* The processes of its workers live on, or go with it.
Crash(h) ==
  /\ h \in Mortal /\ run[h] \in {"boot", "up"} /\ Gone(h)
  /\ live' \in {live, {w \in live : workers[w].host # h}}
  /\ UNCHANGED <<store, plane, boots, queue>>

-----------------------------------------------------------------------------
Init ==
  /\ jobs = [j \in Job |-> "absent"] /\ workers = [w \in Worker |-> NoRec]
  /\ queue = << >> /\ live = {}
  /\ lease = NoLease /\ assigned = [w \in Worker |-> NoHost] /\ release = {}
  /\ run = [h \in Host |-> "down"] /\ boots = [h \in Host |-> 0]
  /\ pass = [h \in Host |-> NoPass] /\ rec = [h \in Host |-> NoRecon]
  /\ exit = [w \in Worker |-> "none"]

Dispatch(h)  == Visit(h) \/ EndPass(h) \/ Create(h) \/ Spawn(h) \/ ActiveWrite(h)
                \/ Register(h) \/ AfterJob(h)
Reconcile(h) == RecBegin(h) \/ Repair(h) \/ RecJobs(h) \/ RecEnd(h)
                \/ (\E w \in Worker : Judge(h, w)) \/ (\E j \in Job : RecJob(h, j))
Handle(w)    == ExitBegins(w) \/ ExitSettles(w) \/ Aggregate(w)

Next ==
  \/ Lapse
  \/ \E h \in Host, j \in Job : Submit(h, j)
  \/ \E h \in Host : \/ BeginPass(h) \/ Dispatch(h) \/ Reconcile(h)
                     \/ Boot(h) \/ Stop(h) \/ DeleteLease(h) \/ Unregister(h) \/ Crash(h)
  \/ \E w \in Worker : ProcessEnds(w) \/ Handle(w)

\* The timers of a running host fire, a process ends, the lease of a host that is
\* gone lapses, and a host that is down is started.
Spec == Init /\ [][Next]_vars
FairSpec ==
  /\ Spec /\ WF_vars(Lapse /\ ~Running(lease.owner))
  /\ \A h \in Host : /\ WF_vars(BeginPass(h)) /\ WF_vars(Dispatch(h)) /\ WF_vars(Reconcile(h))
                     /\ WF_vars(Boot(h)) /\ WF_vars(DeleteLease(h)) /\ WF_vars(Unregister(h))
  /\ \A w \in Worker : WF_vars(ProcessEnds(w)) /\ WF_vars(Handle(w))

-----------------------------------------------------------------------------
\* However the lease moves, and whoever repairs what, a job never has two
\* processes whose pids are on record: the lease keeps two schedulers from
\* starting one job, the assignments keep the reconciler of one host from putting
\* back the job of another's running worker, and a takeover ends the old process
\* before the new one is started.
OneProcessPerJob ==
  \A j \in Job : Cardinality({w \in live : workers[w].pid /\ workers[w].job = j}) <= 1

\* A worker is written off as lost only when the host that runs it is gone: not
\* by another host that is merely unlucky with the age of its record, and not while
\* its own host is still shutting down.
LostOnlyWhenGone ==
  [][\A w \in Worker :
       workers'[w].status = "lost" /\ workers[w].status # "lost" => ~Here(w)]_vars

\* A submitted job ends, also when the host that had queued, started or run it is
\* shut down or crashes in between, as long as one host stays (it may be left
\* waiting for one more worker id than the model has).
EveryJobEnds ==
  <>[](\A j \in Job : \/ jobs[j] \in {"absent", "ended"}
                      \/ (FreshWorker = {} /\ \E k \in DOMAIN queue : queue[k] = j))

\* A worker whose assignment is fresh is not repaired.  Not true of the code: the
\* reconcile pass of a runtime that starts is forced and asks for no assignment.
LiveWorkerKept ==
  [][\A h \in Host, w \in Worker :
       rec'[h].victim = w /\ rec[h].victim # w => ~Fresh(w)]_vars
=============================================================================
