-------------------------- MODULE JobControlProofs --------------------------
(***************************************************************************)
(* What holds of JobControl for every set of jobs and workers and every    *)
(* limit.  With every fault, stop and cancel: the type invariant, that no  *)
(* child process is orphaned and that a canceled worker was asked to stop. *)
(* Where nobody stops a worker, so that a worker's record follows its      *)
(* process: the capacity and write limits, that only stored jobs are       *)
(* queued and jobs list only workers of their own, that rejections are     *)
(* handled, that no job is lost and that aggregation is strict.            *)
(***************************************************************************)
EXTENDS JobControl, FiniteSetTheorems, TLAPS

(* Lemmas about records and statuses. *)

\* The empty records are records of their kind.
LEMMA EmptyRecords ==
  /\ NoJobRec \in JobRec /\ NoWorkerRec \in WorkerRec /\ IdlePass \in PassRec
  /\ IdleStop \in StopRec /\ IdleAgg \in AggTask
<1>1. MaxRetries \in Nat BY Bounds DEF Bounds
<1>2. NoJobRec \in JobRec BY <1>1 DEF NoJobRec, JobRec
<1>3. NoWorkerRec \in WorkerRec BY DEF NoWorkerRec, WorkerRec
<1>4. QED BY <1>2, <1>3
          DEF IdlePass, IdleStop, IdleAgg, PassRec, StopRec, AggTask, PassPc

\* A job or worker record with another status is still one.
LEMMA WithStatus ==
  /\ \A r \in JobRec, s \in JobStatus : [r EXCEPT !.status = s] \in JobRec
  /\ \A r \in WorkerRec, s \in WorkerStatus :
       /\ [r EXCEPT !.status = s] \in WorkerRec
       /\ [r EXCEPT !.status = s].job = r.job
BY DEF JobRec, WorkerRec

\* Storing a record keeps the type of the store.
LEMMA Stored ==
  ASSUME TypeOK
  PROVE  /\ \A j, r : r \in JobRec /\ PutJob(j, r) => jobs' \in [Job -> JobRec]
         /\ \A w, r : r \in WorkerRec /\ PutWorker(w, r) => workers' \in [Worker -> WorkerRec]
BY DEF TypeOK, PutJob, PutWorker

\* The number of busy workers of a job is a number.
LEMMA BusyCounted == \A j : Cardinality(Busy(j)) \in Nat
<1>1. IsFiniteSet(Worker) BY Bounds DEF Bounds
<1>2. \A j : Busy(j) \subseteq Worker BY DEF Busy, WorkersOf
<1>3. QED BY <1>1, <1>2, FS_Subset, FS_CardinalityType

\* What #advanceJobToStatus writes next is a status.
LEMMA NextIsStatus ==
  ASSUME NEW s \in JobStatus \cup {"absent"}, NEW t \in Flow, ~Past(s, t)
  PROVE  NextStatus(s, t) \in JobStatus
BY DEF JobStatus, Flow, Past, NextStatus, FlowNext, FlowRank

\* The same for a job that is to be aggregated and is not yet.
LEMMA NextToAggregating ==
  ASSUME NEW s \in JobStatus \cup {"absent"}, s # "aggregating"
  PROVE  NextStatus(s, "aggregating") \in JobStatus
<1>1. CASE s \in Flow
  <2>1. s \in {"queued", "preparing", "dispatching", "running"} BY <1>1 DEF Flow
  <2>2. FlowNext[s] \in {"preparing", "dispatching", "running", "aggregating"}
    BY <2>1 DEF FlowNext
  <2>3. NextStatus(s, "aggregating") = FlowNext[s] BY <1>1 DEF NextStatus, Flow
  <2>4. QED BY <2>2, <2>3 DEF JobStatus
<1>2. CASE s \notin Flow
  <2>1. NextStatus(s, "aggregating") = "aggregating" BY <1>2 DEF NextStatus
  <2>2. QED BY <2>1 DEF JobStatus
<1>3. QED BY <1>1, <1>2

-----------------------------------------------------------------------------
(* The inductive invariant: visiting the queue *)

\* The steps of a pass that visit the queue keep the invariant.
LEMMA InvVisit ==
  ASSUME JobInv,
         \/ BeginPass \/ EndPass
         \/ \E j \in Job : DropJob(j) \/ AtCapacity(j) \/ SkipConflict(j) \/ TakeJob(j)
  PROVE  JobInv'
<1> USE DEF store, tasks
<1>1. CASE BeginPass
  <2>1. d' \in PassRec BY <1>1, EmptyRecords DEF BeginPass, JobInv, TypeOK, PassRec, PassPc
  <2>2. PassHolds' BY <1>1, EmptyRecords DEF BeginPass, PassHolds, IdlePass, Starting
  <2>3. QED BY <1>1, <2>1, <2>2 DEF BeginPass, JobInv, TypeOK, Linked, Awaited
<1>2. CASE EndPass \/ \E j \in Job : AtCapacity(j)
  <2>1. d' = IdlePass /\ UNCHANGED <<store, queue, timers, tasks, rt, results, agg, up>>
    BY <1>2 DEF EndPass, AtCapacity
  <2>2. PassHolds' BY <2>1 DEF PassHolds, IdlePass, Starting
  <2>3. QED BY <2>1, <2>2, EmptyRecords DEF JobInv, TypeOK, Linked, Awaited
<1>3. ASSUME NEW j \in Job, DropJob(j) \/ SkipConflict(j)
      PROVE  JobInv'
  <2>1. d' = [d EXCEPT !.todo = @ \ {j}] /\ d.pc = "visit"
    BY <1>3 DEF DropJob, SkipConflict, At
  <2>2. d' \in PassRec BY <2>1 DEF JobInv, TypeOK, PassRec
  <2>3. PassHolds' BY <2>1 DEF PassHolds, Starting, JobInv, TypeOK, PassRec
  <2>4. queue' \subseteq Job BY <1>3 DEF DropJob, SkipConflict, JobInv, TypeOK
  <2>5. QED BY <1>3, <2>2, <2>3, <2>4
            DEF DropJob, SkipConflict, JobInv, TypeOK, Linked, Awaited
<1>4. ASSUME NEW j \in Job, TakeJob(j)
      PROVE  JobInv'
  <2>1. d' \in PassRec BY <1>4, BusyCounted DEF TakeJob, JobInv, TypeOK, PassRec, PassPc
  <2>2. PassHolds' BY <1>4 DEF TakeJob, PassHolds, Starting, JobInv, TypeOK, PassRec
  <2>3. queue' \subseteq Job BY <1>4 DEF TakeJob, JobInv, TypeOK
  <2>4. QED BY <1>4, <2>1, <2>2, <2>3 DEF TakeJob, JobInv, TypeOK, Linked, Awaited
<1>5. QED BY <1>1, <1>2, <1>3, <1>4

-----------------------------------------------------------------------------
(* The inductive invariant: starting workers *)

\* Preparing a job and creating its workers keep the invariant.
LEMMA InvCreate ==
  ASSUME JobInv, Prepare \/ LoopTest \/ CreateWorker \/ LinkWorker
  PROVE  JobInv'
<1> USE DEF tasks
<1>0. d \in PassRec /\ jobs \in [Job -> JobRec] BY DEF JobInv, TypeOK
<1>1. CASE Prepare
  <2>1. jobs' \in [Job -> JobRec]
    <3>1. CASE UNCHANGED jobs BY <1>0, <3>1
    <3>2. CASE PutJob(d.job, [d.snap EXCEPT !.status = "preparing"])
      <4>1. d.snap \in JobRec /\ "preparing" \in JobStatus BY <1>0 DEF PassRec, JobStatus
      <4>2. QED BY <3>2, <4>1, WithStatus, Stored DEF JobInv
    <3>3. QED BY <1>1, <3>1, <3>2 DEF Prepare
  <2>2. d' \in PassRec BY <1>1, <1>0, EmptyRecords DEF Prepare, PassRec, PassPc
  <2>3. PassHolds'
    BY <1>1, <1>0 DEF Prepare, At, PassHolds, Starting, JobInv, PassRec
  <2>4. QED BY <1>1, <2>1, <2>2, <2>3 DEF Prepare, JobInv, TypeOK, Linked, Awaited
<1>2. CASE LoopTest
  <2>0. d.job \in Job BY <1>2 DEF LoopTest, At, JobInv, PassHolds
  <2>1. d' \in PassRec /\ PassHolds'
    <3>1. CASE d' = [d EXCEPT !.pc = "create", !.snap = jobs[d.job]]
      <4>1. jobs[d.job] \in JobRec /\ "create" \in PassPc BY <1>0, <2>0 DEF PassPc
      <4>2. d' \in PassRec BY <3>1, <4>1, <1>0 DEF PassRec
      <4>3. PassHolds' BY <3>1, <1>0, <2>0 DEF PassHolds, Starting, PassRec
      <4>4. QED BY <4>2, <4>3
    <3>2. CASE d' = [d EXCEPT !.pc = "after"]
      <4>1. "after" \in PassPc BY DEF PassPc
      <4>2. d' \in PassRec BY <3>2, <4>1, <1>0 DEF PassRec
      <4>3. PassHolds' BY <3>2, <1>0, <2>0 DEF PassHolds, Starting, PassRec
      <4>4. QED BY <4>2, <4>3
    <3>3. QED BY <1>2, <3>1, <3>2 DEF LoopTest, Go
  <2>2. QED BY <1>2, <2>1 DEF LoopTest, store, JobInv, TypeOK, Linked, Awaited
<1>3. CASE CreateWorker
  <2>0. d.job \in Job BY <1>3 DEF CreateWorker, At, JobInv, PassHolds
  <2>1. PICK w \in FreshWorker :
          /\ PutWorker(w, [NoWorkerRec EXCEPT !.status = "created", !.job = d.job])
          /\ d' = [d EXCEPT !.pc = "link", !.worker = w]
    BY <1>3 DEF CreateWorker
  <2>2. w \in Worker BY DEF FreshWorker
  <2>3. [NoWorkerRec EXCEPT !.status = "created", !.job = d.job] \in WorkerRec
    BY <2>0 DEF NoWorkerRec, WorkerRec, WorkerStatus
  <2>4. workers' \in [Worker -> WorkerRec] BY <2>1, <2>3, Stored DEF JobInv
  <2>5. d' \in PassRec BY <2>1, <2>2, <1>0 DEF PassRec, PassPc
  <2>6. PassHolds' BY <2>0, <2>1, <2>2, <1>0 DEF PassHolds, Starting, PassRec
  <2>7. \A x \in Worker : workers'[x].status # "absent" => workers'[x].job \in Job
    BY <2>0, <2>1 DEF PutWorker, NoWorkerRec, JobInv, TypeOK, Linked
  <2>8. QED BY <1>3, <2>4, <2>5, <2>6, <2>7
            DEF CreateWorker, JobInv, TypeOK, Linked, Awaited
<1>4. CASE LinkWorker
  <2>0. d.job \in Job /\ d.worker \in Worker
    BY <1>4 DEF LinkWorker, At, JobInv, PassHolds, Starting
  <2>1. [d.snap EXCEPT !.workerIds = @ \cup {d.worker}] \in JobRec
    BY <1>0, <2>0 DEF PassRec, JobRec
  <2>2. jobs' \in [Job -> JobRec] BY <1>4, <2>1, Stored DEF LinkWorker, JobInv
  <2>3. d' \in PassRec BY <1>4, <1>0 DEF LinkWorker, Go, PassRec, PassPc
  <2>4. PassHolds' BY <1>4, <1>0, <2>0 DEF LinkWorker, Go, PassHolds, Starting, PassRec
  <2>5. QED BY <1>4, <2>2, <2>3, <2>4 DEF LinkWorker, JobInv, TypeOK, Linked, Awaited
<1>5. QED BY <1>1, <1>2, <1>3, <1>4

\* One write of #advanceJobToStatus keeps the types; the pass keeps its ids.
LEMMA Advancing ==
  ASSUME JobInv, d.job \in Job, NEW t \in Flow, NEW next \in PassPc, AdvanceSnap(t, next)
  PROVE  /\ jobs' \in [Job -> JobRec] /\ d' \in PassRec /\ d'.pc \in {d.pc, next}
         /\ d'.job = d.job /\ d'.worker = d.worker /\ d'.wrec = d.wrec
<1>0. d \in PassRec /\ jobs \in [Job -> JobRec] BY DEF JobInv, TypeOK
<1>1. CASE Go(next) /\ UNCHANGED jobs BY <1>0, <1>1 DEF Go, PassRec
<1>2. CASE /\ ~Past(d.snap.status, t)
           /\ LET r == [d.snap EXCEPT !.status = NextStatus(@, t)] IN
              PutJob(d.job, r) /\ d' = [d EXCEPT !.snap = r]
  <2>1. d.snap \in JobRec /\ d.snap.status \in JobStatus \cup {"absent"}
    BY <1>0 DEF PassRec, JobRec
  <2>2. NextStatus(d.snap.status, t) \in JobStatus BY <1>2, <2>1, NextIsStatus
  <2>3. [d.snap EXCEPT !.status = NextStatus(@, t)] \in JobRec BY <2>1, <2>2, WithStatus
  <2>4. jobs' \in [Job -> JobRec] BY <1>2, <2>3, Stored DEF JobInv
  <2>5. QED BY <1>2, <1>0, <2>3, <2>4 DEF PassRec
<1>3. QED BY <1>1, <1>2 DEF AdvanceSnap

\* The steps of startWorker keep the invariant.
LEMMA InvStart ==
  ASSUME JobInv,
         \/ StartRead \/ StartingWrite \/ DispatchingWrite \/ CreateWorktree \/ Spawn
         \/ ActiveWrite \/ RunningWrite \/ Register \/ HeartbeatRejected
  PROVE  JobInv'
<1> USE DEF tasks
<1>0. d \in PassRec /\ jobs \in [Job -> JobRec] /\ workers \in [Worker -> WorkerRec]
  BY DEF JobInv, TypeOK
<1>1. CASE StartRead
  <2>0. d.job \in Job /\ d.worker \in Worker
    BY <1>1 DEF StartRead, At, JobInv, PassHolds, Starting
  <2>1. d' \in PassRec BY <1>1, <1>0, <2>0 DEF StartRead, PassRec, PassPc
  <2>2. ValidWorker(workers[d.worker].status, "starting") => workers[d.worker].status # "absent"
    BY DEF ValidWorker, WorkerTransitions
  <2>3. PassHolds'
    BY <1>1, <1>0, <2>0, <2>2
    DEF StartRead, PassHolds, Linked, Starting, JobInv, PassRec
  <2>4. QED BY <1>1, <2>1, <2>3 DEF StartRead, store, JobInv, TypeOK, Linked, Awaited
<1>2. CASE StartingWrite
  <2>0. d.job \in Job /\ d.worker \in Worker /\ d.wrec.job \in Job /\ d.wrec \in WorkerRec
    BY <1>2, <1>0 DEF StartingWrite, At, JobInv, PassHolds, Starting, PassRec
  <2> DEFINE r == [d.wrec EXCEPT !.status = "starting"]
  <2>1. r \in WorkerRec /\ r.job \in Job BY <2>0, WithStatus DEF WorkerStatus
  <2>2. PutWorker(d.worker, r) /\ d' = [d EXCEPT !.pc = "dispatching", !.wrec = r]
    BY <1>2 DEF StartingWrite
  <2> HIDE DEF r
  <2>3. workers' \in [Worker -> WorkerRec] BY <2>1, <2>2, Stored DEF JobInv
  <2>4. d' \in PassRec BY <2>1, <2>2, <1>0 DEF PassRec, PassPc
  <2>5. PassHolds' BY <2>0, <2>1, <2>2, <1>0 DEF PassHolds, Starting, PassRec
  <2>6. \A x \in Worker : workers'[x].status # "absent" => workers'[x].job \in Job
    BY <2>1, <2>2, <1>0 DEF PutWorker, JobInv, Linked
  <2>7. QED BY <1>2, <2>3, <2>4, <2>5, <2>6
            DEF StartingWrite, JobInv, TypeOK, Linked, Awaited
<1>3. CASE DispatchingWrite
  <2>0. d.job \in Job /\ d.worker \in Worker /\ d.wrec.job \in Job /\ d.pc = "dispatching"
    BY <1>3 DEF DispatchingWrite, At, JobInv, PassHolds, Starting
  <2>1. CASE AdvanceSnap("dispatching", "worktree")
    <3>1. /\ jobs' \in [Job -> JobRec] /\ d' \in PassRec /\ d'.pc \in {d.pc, "worktree"}
          /\ d'.job = d.job /\ d'.worker = d.worker /\ d'.wrec = d.wrec
      BY <2>0, <2>1, Advancing DEF Flow, PassPc
    <3>2. PassHolds' BY <2>0, <3>1 DEF PassHolds, Starting
    <3>3. QED BY <1>3, <3>1, <3>2 DEF DispatchingWrite, JobInv, TypeOK, Linked, Awaited
  <2>2. CASE Go("failed") /\ UNCHANGED jobs
    <3>1. d' \in PassRec BY <2>2, <1>0 DEF Go, PassRec, PassPc
    <3>2. PassHolds' BY <2>0, <2>2, <1>0 DEF Go, PassHolds, Starting, PassRec
    <3>3. QED BY <1>3, <2>2, <3>1, <3>2 DEF DispatchingWrite, JobInv, TypeOK, Linked, Awaited
  <2>3. QED BY <1>3, <2>1, <2>2 DEF DispatchingWrite
<1>4. CASE CreateWorktree \/ HeartbeatRejected
  <2>0. d.job \in Job /\ d.worker \in Worker /\ d.wrec.job \in Job
    BY <1>4 DEF CreateWorktree, HeartbeatRejected, At, JobInv, PassHolds, Starting
  <2>1. Go("spawn") \/ Go("failed") \/ Go("startFailed")
    BY <1>4 DEF CreateWorktree, HeartbeatRejected
  <2>2. d' \in PassRec BY <2>1, <1>0 DEF Go, PassRec, PassPc
  <2>3. PassHolds' BY <2>0, <2>1, <1>0 DEF Go, PassHolds, Starting, PassRec
  <2>4. QED BY <1>4, <2>2, <2>3
            DEF CreateWorktree, HeartbeatRejected, store, JobInv, TypeOK, Linked, Awaited
<1>5. CASE Spawn
  <2>0. d.job \in Job /\ d.worker \in Worker /\ d.wrec.job \in Job
    BY <1>5 DEF Spawn, At, JobInv, PassHolds, Starting
  <2>1. Go("active") \/ Go("startFailed") BY <1>5 DEF Spawn
  <2>2. d' \in PassRec BY <2>1, <1>0 DEF Go, PassRec, PassPc
  <2>3. PassHolds' BY <2>0, <2>1, <1>0 DEF Go, PassHolds, Starting, PassRec
  <2>4. rt' \in [Worker -> ChildRec] BY <1>5, <2>0 DEF Spawn, JobInv, TypeOK, ChildRec
  <2>5. QED BY <1>5, <2>2, <2>3, <2>4 DEF Spawn, store, JobInv, TypeOK, Linked, Awaited
<1>6. CASE ActiveWrite
  <2>0. d.job \in Job /\ d.worker \in Worker /\ d.wrec.job \in Job /\ d.wrec \in WorkerRec
    BY <1>6, <1>0 DEF ActiveWrite, At, JobInv, PassHolds, Starting, PassRec
  <2> DEFINE r == [d.wrec EXCEPT !.status = "active", !.pid = TRUE]
  <2>1. r \in WorkerRec /\ r.job \in Job BY <2>0 DEF WorkerRec, WorkerStatus
  <2>2. PutWorker(d.worker, r) /\ d' = [d EXCEPT !.pc = "running"]
    BY <1>6 DEF ActiveWrite, Go
  <2> HIDE DEF r
  <2>3. workers' \in [Worker -> WorkerRec] BY <2>1, <2>2, Stored DEF JobInv
  <2>4. d' \in PassRec BY <2>2, <1>0 DEF PassRec, PassPc
  <2>5. PassHolds' BY <2>0, <2>2, <1>0 DEF PassHolds, Starting, PassRec
  <2>6. \A x \in Worker : workers'[x].status # "absent" => workers'[x].job \in Job
    BY <2>1, <2>2, <1>0 DEF PutWorker, JobInv, Linked
  <2>7. QED BY <1>6, <2>3, <2>4, <2>5, <2>6
            DEF ActiveWrite, JobInv, TypeOK, Linked, Awaited
<1>7. CASE RunningWrite
  <2>0. d.job \in Job /\ d.worker \in Worker /\ d.wrec.job \in Job /\ d.pc = "running"
    BY <1>7 DEF RunningWrite, At, JobInv, PassHolds, Starting
  <2>1. /\ jobs' \in [Job -> JobRec] /\ d' \in PassRec /\ d'.pc \in {d.pc, "register"}
        /\ d'.job = d.job /\ d'.worker = d.worker /\ d'.wrec = d.wrec
    BY <1>7, <2>0, Advancing DEF RunningWrite, Flow, PassPc
  <2>2. PassHolds' BY <2>0, <2>1 DEF PassHolds, Starting
  <2>3. QED BY <1>7, <2>1, <2>2 DEF RunningWrite, JobInv, TypeOK, Linked, Awaited
<1>8. CASE Register
  <2>0. d.job \in Job /\ d.worker \in Worker
    BY <1>8 DEF Register, At, JobInv, PassHolds, Starting
  <2>1. d' \in PassRec
    <3>1. /\ NoJobRec \in JobRec /\ NoWorkerRec \in WorkerRec /\ d.started + 1 \in Nat
          /\ d.act \cup {d.worker} \in SUBSET Worker /\ d.wr \in SUBSET Worker
          /\ d.wr \cup {d.worker} \in SUBSET Worker
      BY <1>0, <2>0, EmptyRecords DEF PassRec
    <3> DEFINE wr == IF WriteCapable THEN d.wr \cup {d.worker} ELSE d.wr
    <3>2. wr \in SUBSET Worker BY <3>1
    <3>3. d' = [d EXCEPT !.pc = "loop", !.started = d.started + 1,
                  !.act = d.act \cup {d.worker}, !.wr = wr,
                  !.snap = NoJobRec, !.worker = NoWorker, !.wrec = NoWorkerRec]
      BY <1>8 DEF Register
    <3> HIDE DEF wr
    <3>4. QED BY <3>1, <3>2, <3>3, <1>0 DEF PassRec, PassPc
  <2>2. PassHolds' BY <1>8, <1>0, <2>0 DEF Register, PassHolds, Starting, PassRec
  <2>3. exit' \in [Worker -> ExitRec] BY <1>8, <2>0 DEF Register, JobInv, TypeOK, ExitRec
  <2>4. \A w \in Worker : exit'[w].pc \in {"finishing", "terminal", "release"}
                            => exit'[w].rec.job \in Job
    BY <1>8, <2>0 DEF Register, JobInv, TypeOK, ExitRec, Linked
  <2>5. rt' \in [Worker -> ChildRec] BY <1>8, <2>0 DEF Register, JobInv, TypeOK, ChildRec
  <2>6. QED BY <1>8, <2>1, <2>2, <2>3, <2>4, <2>5
            DEF Register, store, JobInv, TypeOK, Linked, Awaited
<1>9. QED BY <1>1, <1>2, <1>3, <1>4, <1>5, <1>6, <1>7, <1>8

-----------------------------------------------------------------------------
(* The inductive invariant: failed starts *)

\* Joining a job's aggregation chain keeps its type and leaves it awaited.
LEMMA Joined ==
  ASSUME TypeOK, Awaited, NEW j \in Job, NEW who \in Requester, Join(j, who)
  PROVE  agg' \in [Job -> AggRec] /\ Awaited'
<1>1. agg[j] \in AggRec /\ agg[j].chain \in Seq(Requester) BY DEF TypeOK, AggRec
<1> DEFINE c == IF agg[j].poisoned THEN agg[j].chain ELSE Append(agg[j].chain, who)
<1>2. c \in Seq(Requester) BY <1>1
<1>3. agg[j].chain # <<>> => c # <<>> BY <1>1
<1>4. agg' = [agg EXCEPT ![j].chain = c] BY DEF Join
<1> HIDE DEF c
<1>5. agg' \in [Job -> AggRec] BY <1>2, <1>4 DEF TypeOK, AggRec
<1>6. Awaited' BY <1>1, <1>3, <1>4 DEF Awaited, TypeOK, AggRec
<1>7. QED BY <1>5, <1>6

\* The steps of a pass that deal with a failed start keep the invariant.
LEMMA InvFail ==
  ASSUME JobInv,
         \/ StartFailed \/ AwaitAggregation \/ FailureRead \/ FailureWrite
         \/ CreateRetry \/ AfterLoop
  PROVE  JobInv'
<1> USE DEF tasks
<1>0. d \in PassRec /\ jobs \in [Job -> JobRec] BY DEF JobInv, TypeOK
<1>00. d.job \in Job
  BY DEF StartFailed, AwaitAggregation, FailureRead, FailureWrite, CreateRetry,
         AfterLoop, At, JobInv, PassHolds
<1>1. CASE StartFailed
  <2>0. d.worker \in Worker /\ d.wrec.job \in Job /\ d.wrec \in WorkerRec
    BY <1>1, <1>0 DEF StartFailed, At, JobInv, PassHolds, Starting, PassRec
  <2> DEFINE r == [d.wrec EXCEPT !.status = "failed"]
  <2>1. r \in WorkerRec /\ r.job \in Job BY <2>0, WithStatus DEF WorkerStatus
  <2>2. PutWorker(d.worker, r) BY <1>1 DEF StartFailed
  <2> HIDE DEF r
  <2>3. workers' \in [Worker -> WorkerRec] BY <2>1, <2>2, Stored DEF JobInv
  <2>4. d' \in PassRec BY <1>1, <1>0 DEF StartFailed, Go, PassRec, PassPc
  <2>5. PassHolds' BY <1>1, <1>0, <1>00 DEF StartFailed, Go, PassHolds, Starting, PassRec
  <2>6. \A x \in Worker : workers'[x].status # "absent" => workers'[x].job \in Job
    BY <2>1, <2>2 DEF PutWorker, JobInv, TypeOK, Linked
  <2>7. agg' \in [Job -> AggRec] /\ Awaited'
    BY <1>1, <1>00, Joined DEF StartFailed, JobInv, Requester
  <2>8. results' \in [Worker -> ResultKind]
    BY <1>1 DEF StartFailed, JobInv, TypeOK, ResultKind
  <2>9. QED BY <1>1, <2>3, <2>4, <2>5, <2>6, <2>7, <2>8
            DEF StartFailed, JobInv, TypeOK, Linked
<1>2. CASE AwaitAggregation
  <2>1. d' \in PassRec BY <1>2, <1>0 DEF AwaitAggregation, Go, PassRec, PassPc
  <2>2. PassHolds' BY <1>2, <1>0, <1>00 DEF AwaitAggregation, Go, PassHolds, Starting, PassRec
  <2>3. QED BY <1>2, <2>1, <2>2 DEF AwaitAggregation, store, JobInv, TypeOK, Linked, Awaited
<1>3. CASE FailureRead
  <2>1. \/ Go("after") \/ d' = IdlePass
        \/ d' = [d EXCEPT !.pc = "retry", !.snap = jobs[d.job]] /\ ShouldRetry(jobs[d.job])
        \/ d' = [d EXCEPT !.pc = "failWrite", !.snap = jobs[d.job]]
    BY <1>3 DEF FailureRead
  <2>2. d' \in PassRec /\ PassHolds'
    <3>1. CASE Go("after")
      BY <3>1, <1>0, <1>00 DEF Go, PassRec, PassPc, PassHolds, Starting
    <3>2. CASE d' = IdlePass
      BY <3>2, EmptyRecords DEF PassHolds, Starting, IdlePass
    <3>3. CASE d' = [d EXCEPT !.pc = "retry", !.snap = jobs[d.job]] /\ ShouldRetry(jobs[d.job])
      BY <3>3, <1>0, <1>00 DEF PassRec, PassPc, PassHolds, Starting, ShouldRetry
    <3>4. CASE d' = [d EXCEPT !.pc = "failWrite", !.snap = jobs[d.job]]
      BY <3>4, <1>0, <1>00 DEF PassRec, PassPc, PassHolds, Starting
    <3>5. QED BY <2>1, <3>1, <3>2, <3>3, <3>4
  <2>3. up' \in BOOLEAN BY <1>3 DEF FailureRead, JobInv, TypeOK
  <2>4. QED BY <1>3, <2>2, <2>3 DEF FailureRead, store, JobInv, TypeOK, Linked, Awaited
<1>4. CASE FailureWrite
  <2> DEFINE r == [d.snap EXCEPT !.status = "failed"]
  <2>1. r \in JobRec BY <1>0, WithStatus DEF PassRec, JobStatus
  <2>2. /\ PutJob(d.job, r)
        /\ d' = [d EXCEPT !.snap = r, !.pc = IF ShouldRetry(r) THEN "retry" ELSE "after"]
    BY <1>4 DEF FailureWrite
  <2> HIDE DEF r
  <2>3. jobs' \in [Job -> JobRec] BY <2>1, <2>2, Stored DEF JobInv
  <2>4. d' \in PassRec BY <2>1, <2>2, <1>0 DEF PassRec, PassPc
  <2>5. PassHolds' BY <2>2, <1>0, <1>00 DEF PassHolds, Starting, PassRec, ShouldRetry
  <2>6. QED BY <1>4, <2>3, <2>4, <2>5 DEF FailureWrite, JobInv, TypeOK, Linked, Awaited
<1>5. CASE CreateRetry
  <2>1. d.snap \in JobRec /\ d.snap.retries + 1 <= MaxRetries /\ MaxRetries \in Nat
    BY <1>5, <1>0, Bounds DEF CreateRetry, At, JobInv, PassHolds, PassRec, ShouldRetry, Bounds
  <2>2. RetryOf(d.snap) \in JobRec BY <2>1 DEF RetryOf, JobRec, JobStatus
  <2>3. jobs' \in [Job -> JobRec]
    BY <1>5, <1>0, <2>2, Stored DEF CreateRetry, JobInv
  <2>4. timers' \subseteq Job BY <1>5 DEF CreateRetry, FreshJob, JobInv, TypeOK
  <2>5. d' \in PassRec BY <1>5, <1>0 DEF CreateRetry, Go, PassRec, PassPc
  <2>6. PassHolds' BY <1>5, <1>0, <1>00 DEF CreateRetry, Go, PassHolds, Starting, PassRec
  <2>7. QED BY <1>5, <2>3, <2>4, <2>5, <2>6 DEF CreateRetry, JobInv, TypeOK, Linked, Awaited
<1>6. CASE AfterLoop
  <2>1. d' \in PassRec BY <1>6, <1>0, EmptyRecords DEF AfterLoop, PassRec, PassPc
  <2>2. PassHolds' BY <1>6, <1>0 DEF AfterLoop, PassHolds, Starting, PassRec
  <2>3. queue' \subseteq Job BY <1>6, <1>00 DEF AfterLoop, JobInv, TypeOK
  <2>4. QED BY <1>6, <2>1, <2>2, <2>3 DEF AfterLoop, store, JobInv, TypeOK, Linked, Awaited
<1>7. QED BY <1>1, <1>2, <1>3, <1>4, <1>5, <1>6

-----------------------------------------------------------------------------
(* The inductive invariant: clients, cancels and stops *)

\* A client's submission or retry, and a retry timer, keep the invariant.
LEMMA InvClient ==
  ASSUME JobInv, NEW j \in Job, Submit(j) \/ RetryJob(j) \/ RetryTimer(j)
  PROVE  JobInv'
<1> USE DEF tasks
<1>1. CASE Submit(j)
  <2>1. [NoJobRec EXCEPT !.status = "queued"] \in JobRec
    BY EmptyRecords, WithStatus DEF JobStatus
  <2>2. jobs' \in [Job -> JobRec] BY <1>1, <2>1, Stored DEF Submit, JobInv
  <2>3. QED BY <1>1, <2>2 DEF Submit, JobInv, TypeOK, PassHolds, Linked, Awaited
<1>2. CASE RetryJob(j)
  <2>1. PICK r \in FreshJob : PutJob(r, RetryOf(jobs[j])) /\ queue' = queue \cup {r}
    BY <1>2 DEF RetryJob
  <2>2. RetryOf(jobs[j]) \in JobRec
    BY <1>2, Bounds DEF RetryJob, RetryOf, JobInv, TypeOK, JobRec, JobStatus, Bounds
  <2>3. jobs' \in [Job -> JobRec] BY <2>1, <2>2, Stored DEF JobInv
  <2>4. queue' \subseteq Job BY <2>1 DEF FreshJob, JobInv, TypeOK
  <2>5. QED BY <1>2, <2>3, <2>4 DEF RetryJob, JobInv, TypeOK, PassHolds, Linked, Awaited
<1>3. CASE RetryTimer(j)
  BY <1>3 DEF RetryTimer, store, JobInv, TypeOK, PassHolds, Linked, Awaited
<1>4. QED BY <1>1, <1>2, <1>3

\* A step of cancelJob keeps the invariant.
LEMMA InvCancel ==
  ASSUME JobInv, NEW j \in Job, Canceling(j)
  PROVE  JobInv'
<1> USE DEF store, sched
<1>0. cancel \in [Job -> CancelRec] /\ jobs \in [Job -> JobRec] BY DEF JobInv, TypeOK
<1>1. CASE CancelRead(j)
  <2>1. cancel' \in [Job -> CancelRec] BY <1>0, <1>1 DEF CancelRead, CancelRec
  <2>2. QED BY <1>1, <2>1 DEF CancelRead, JobInv, TypeOK, PassHolds, Linked, Awaited
<1>2. CASE CancelWrite(j)
  <2>1. [cancel[j].rec EXCEPT !.status = "canceled"] \in JobRec
    BY <1>0, WithStatus DEF CancelRec, JobStatus
  <2>2. jobs' \in [Job -> JobRec] BY <1>2, <2>1, Stored DEF CancelWrite, JobInv
  <2>3. cancel' \in [Job -> CancelRec]
    BY <1>0, <1>2, EmptyRecords DEF CancelWrite, CancelRec
  <2>4. QED BY <1>2, <2>2, <2>3 DEF CancelWrite, JobInv, TypeOK, PassHolds, Linked, Awaited
<1>3. CASE CancelList(j)
  <2>1. cancel' \in [Job -> CancelRec]
    BY <1>0, <1>3 DEF CancelList, CancelRec, Busy, WorkersOf
  <2>2. QED BY <1>3, <2>1 DEF CancelList, JobInv, TypeOK, PassHolds, Linked, Awaited
<1>4. CASE CancelDone(j)
  <2>1. cancel' \in [Job -> CancelRec] BY <1>0, <1>4 DEF CancelDone, CancelRec
  <2>2. QED BY <1>4, <2>1 DEF CancelDone, JobInv, TypeOK, PassHolds, Linked, Awaited
<1>5. QED BY <1>1, <1>2, <1>3, <1>4 DEF Canceling

\* A step of stopWorker keeps the invariant.
LEMMA InvStop ==
  ASSUME JobInv, NEW c \in Caller, Stopping(c)
  PROVE  JobInv'
<1> USE DEF store, sched
<1>0. /\ stop \in [Caller -> StopRec] /\ cancel \in [Job -> CancelRec]
      /\ workers \in [Worker -> WorkerRec]
  BY DEF JobInv, TypeOK
<1>a. stop[c] \in StopRec /\ stop[c].rec \in WorkerRec BY <1>0 DEF StopRec
<1> DEFINE Held(s) == s.pc # "idle" => s.worker \in Worker /\ s.rec.job \in Job
<1>b. Held(stop[c]) BY DEF JobInv, Linked
\* Only c's stop changes, to a record that holds a worker: the rest is as before.
<1>c. ASSUME NEW s \in StopRec, Held(s), stop' = [stop EXCEPT ![c] = s]
      PROVE  /\ stop' \in [Caller -> StopRec]
             /\ \A e \in Caller : stop'[e].pc # "idle"
                  => stop'[e].worker \in Worker /\ stop'[e].rec.job \in Job
  BY <1>0, <1>c DEF JobInv, Linked
<1>d. IdleStop \in StopRec /\ Held(IdleStop) BY EmptyRecords DEF IdleStop
<1>1. ASSUME NEW w \in Worker, StopRead(c, w)
      PROVE  JobInv'
  <2> DEFINE s == [IdleStop EXCEPT !.pc = "write", !.worker = w, !.rec = workers[w]]
  <2>1. s \in StopRec BY <1>0, <1>d DEF StopRec
  <2>2. workers[w].job \in Job BY <1>1 DEF StopRead, JobInv, Linked
  <2>3. s.pc = "write" /\ s.worker = w /\ s.rec = workers[w] BY DEF IdleStop
  <2>4. stop' = [stop EXCEPT ![c] = s] BY <1>1 DEF StopRead
  <2>5. cancel' \in [Job -> CancelRec] BY <1>0, <1>1 DEF StopRead, CancelRec
  <2> HIDE DEF s
  <2>6. /\ stop' \in [Caller -> StopRec]
        /\ \A e \in Caller : stop'[e].pc # "idle"
             => stop'[e].worker \in Worker /\ stop'[e].rec.job \in Job
    BY <1>c, <2>1, <2>2, <2>3, <2>4
  <2>7. QED BY <1>1, <2>5, <2>6 DEF StopRead, JobInv, TypeOK, PassHolds, Linked, Awaited
<1>2. CASE StopWrite(c)
  <2> DEFINE r == [stop[c].rec EXCEPT !.cancel = TRUE]
             s == [stop[c] EXCEPT !.pc = "act", !.rec = r]
  <2>1. stop[c].pc = "write" BY <1>2 DEF StopWrite
  <2>2. r \in WorkerRec /\ r.job = stop[c].rec.job /\ r.job \in Job
    BY <1>a, <1>b, <2>1 DEF WorkerRec
  <2>3. PutWorker(stop[c].worker, r) BY <1>2 DEF StopWrite
  <2>4. stop' = [stop EXCEPT ![c] = s] BY <1>2 DEF StopWrite
  <2> HIDE DEF r
  <2>5. s \in StopRec /\ Held(s) BY <1>a, <1>b, <2>1, <2>2 DEF StopRec
  <2> HIDE DEF s
  <2>6. workers' \in [Worker -> WorkerRec] BY <2>2, <2>3, Stored DEF JobInv
  <2>7. \A x \in Worker : workers'[x].status # "absent" => workers'[x].job \in Job
    BY <1>0, <2>2, <2>3 DEF PutWorker, JobInv, Linked
  <2>8. /\ stop' \in [Caller -> StopRec]
        /\ \A e \in Caller : stop'[e].pc # "idle"
             => stop'[e].worker \in Worker /\ stop'[e].rec.job \in Job
    BY <1>c, <2>4, <2>5
  <2>9. QED BY <1>2, <2>6, <2>7, <2>8 DEF StopWrite, JobInv, TypeOK, PassHolds, Linked, Awaited
<1>3. CASE StopAct(c) \/ StopAwaitExit(c)
  <2>1. \/ stop' = [stop EXCEPT ![c] = IdleStop]
        \/ \E p \in {"signal", "kill", "finalize"}, t \in {"canceled", "lost"} :
             stop' = [stop EXCEPT ![c] = [stop[c] EXCEPT !.pc = p, !.target = t]]
    <3>1. CASE StopAct(c)
      <4>1. \/ stop' = [stop EXCEPT ![c] = IdleStop]
            \/ stop' = [stop EXCEPT ![c].pc = "signal"]
            \/ stop' = [stop EXCEPT ![c].pc = "finalize", ![c].target = "canceled"]
            \/ stop' = [stop EXCEPT ![c].pc = "kill", ![c].target = "canceled"]
            \/ stop' = [stop EXCEPT ![c].pc = "finalize", ![c].target = "lost"]
        BY <3>1, <1>0 DEF StopAct
      <4>2. stop' = [stop EXCEPT ![c].pc = "signal"]
              => stop' = [stop EXCEPT ![c] = [stop[c] EXCEPT !.pc = "signal",
                                                             !.target = stop[c].target]]
        BY <1>0, <1>a DEF StopRec
      <4>3. stop[c].target \in {"canceled", "lost"} BY <1>a DEF StopRec
      <4>4. QED BY <4>1, <4>2, <4>3, <1>0, <1>a DEF StopRec
    <3>2. CASE StopAwaitExit(c)
      <4>1. \/ stop' = [stop EXCEPT ![c] = IdleStop]
            \/ stop' = [stop EXCEPT ![c] = [stop[c] EXCEPT !.pc = "finalize"]]
        BY <3>2 DEF StopAwaitExit
      <4>2. [stop[c] EXCEPT !.pc = "finalize"]
              = [stop[c] EXCEPT !.pc = "finalize", !.target = stop[c].target]
        BY <1>a DEF StopRec
      <4>3. stop[c].target \in {"canceled", "lost"} BY <1>a DEF StopRec
      <4>4. QED BY <4>1, <4>2, <4>3
    <3>3. QED BY <1>3, <3>1, <3>2
  <2>2. stop[c].pc # "idle" BY <1>3 DEF StopAct, StopAwaitExit
  <2>3. \A p \in {"signal", "kill", "finalize"}, t \in {"canceled", "lost"} :
          /\ [stop[c] EXCEPT !.pc = p, !.target = t] \in StopRec
          /\ Held([stop[c] EXCEPT !.pc = p, !.target = t])
    BY <1>a, <1>b, <2>2 DEF StopRec
  <2>4. PICK s \in StopRec : Held(s) /\ stop' = [stop EXCEPT ![c] = s]
    BY <1>d, <2>1, <2>3
  <2>5. /\ stop' \in [Caller -> StopRec]
        /\ \A e \in Caller : stop'[e].pc # "idle"
             => stop'[e].worker \in Worker /\ stop'[e].rec.job \in Job
    BY <1>c, <2>4
  <2>6. QED BY <1>3, <2>5
            DEF StopAct, StopAwaitExit, JobInv, TypeOK, PassHolds, Linked, Awaited
<1>4. CASE StopFinalize(c)
  <2> DEFINE r == [stop[c].rec EXCEPT !.status = stop[c].target]
             s == [stop[c] EXCEPT !.pc = "agg"]
  <2>1. stop[c].pc = "finalize" /\ stop[c].target \in WorkerStatus
    BY <1>4, <1>a DEF StopFinalize, StopRec, WorkerStatus
  <2>2. r \in WorkerRec /\ r.job = stop[c].rec.job /\ r.job \in Job
    BY <1>a, <1>b, <2>1, WithStatus
  <2>3. /\ PutWorker(stop[c].worker, r) /\ Join(r.job, c)
        /\ results' = [results EXCEPT ![stop[c].worker] = FallbackOf(r.status)]
    BY <1>4 DEF StopFinalize
  <2> HIDE DEF r
  <2>4. stop' = [stop EXCEPT ![c] = s] BY <1>4 DEF StopFinalize
  <2>5. s \in StopRec /\ Held(s) BY <1>a, <1>b, <2>1 DEF StopRec
  <2> HIDE DEF s
  <2>6. workers' \in [Worker -> WorkerRec] BY <2>2, <2>3, Stored DEF JobInv
  <2>7. \A x \in Worker : workers'[x].status # "absent" => workers'[x].job \in Job
    BY <1>0, <2>2, <2>3 DEF PutWorker, JobInv, Linked
  <2>8. /\ stop' \in [Caller -> StopRec]
        /\ \A e \in Caller : stop'[e].pc # "idle"
             => stop'[e].worker \in Worker /\ stop'[e].rec.job \in Job
    BY <1>c, <2>4, <2>5
  <2>9. FallbackOf(r.status) \in ResultKind BY DEF FallbackOf, ResultKind
  <2>10. results' \in [Worker -> ResultKind] BY <2>3, <2>9 DEF JobInv, TypeOK
  <2>11. agg' \in [Job -> AggRec] /\ Awaited'
    BY <2>2, <2>3, Joined DEF JobInv, Requester
  <2>12. QED BY <1>4, <2>6, <2>7, <2>8, <2>10, <2>11
             DEF StopFinalize, JobInv, TypeOK, PassHolds, Linked
<1>5. CASE StopDone(c)
  <2>1. stop' = [stop EXCEPT ![c] = IdleStop] BY <1>5 DEF StopDone
  <2>2. cancel' \in [Job -> CancelRec] BY <1>0, <1>5 DEF StopDone, CancelRec
  <2>3. /\ stop' \in [Caller -> StopRec]
        /\ \A e \in Caller : stop'[e].pc # "idle"
             => stop'[e].worker \in Worker /\ stop'[e].rec.job \in Job
    BY <1>c, <1>d, <2>1
  <2>4. QED BY <1>5, <2>2, <2>3 DEF StopDone, JobInv, TypeOK, PassHolds, Linked, Awaited
<1>6. QED BY <1>1, <1>2, <1>3, <1>4, <1>5 DEF Stopping

-----------------------------------------------------------------------------
(* The inductive invariant: exits and aggregation *)

\* The end of a child process and a step of its exit handler keep the invariant.
LEMMA InvExit ==
  ASSUME JobInv, NEW w \in Worker, ProcessExit(w) \/ Exiting(w)
  PROVE  JobInv'
<1> USE DEF store, sched, tasks
<1>0. /\ exit \in [Worker -> ExitRec] /\ rt \in [Worker -> ChildRec]
      /\ workers \in [Worker -> WorkerRec] /\ results \in [Worker -> ResultKind]
  BY DEF JobInv, TypeOK
<1>a. exit[w].rec \in WorkerRec BY <1>0 DEF ExitRec
<1>b. exit[w].pc \in {"finishing", "terminal", "release"} => exit[w].rec.job \in Job
  BY DEF JobInv, Linked
<1> DEFINE Ids == \A x \in Worker : exit'[x].pc \in {"finishing", "terminal", "release"}
                                      => exit'[x].rec.job \in Job
<1>1. CASE ProcessExit(w)
  <2>1. PICK o \in Outcomes : rt' = [rt EXCEPT ![w].proc = o[1], ![w].file = o[2]]
    BY <1>1 DEF ProcessExit
  <2>2. o[1] \in ExitKind /\ o[2] \in ResultKind BY Bounds DEF Bounds
  <2>3. rt' \in [Worker -> ChildRec] BY <1>0, <2>1, <2>2 DEF ChildRec
  <2>4. QED BY <1>1, <2>3 DEF ProcessExit, JobInv, TypeOK, PassHolds, Linked, Awaited
<1>2. CASE ExitRead(w)
  <2>1. exit' \in [Worker -> ExitRec] /\ Ids
    <3>1. CASE exit' = [exit EXCEPT ![w].pc = "done"]
      BY <3>1, <1>0 DEF ExitRec, JobInv, Linked
    <3>2. CASE /\ workers[w].status \in {"created", "active", "finishing"}
               /\ exit' = [exit EXCEPT ![w] =
                    [pc |-> IF workers[w].status = "active" THEN "finishing" ELSE "terminal",
                     rec |-> workers[w]]]
      BY <3>2, <1>0 DEF ExitRec, JobInv, Linked
    <3>3. QED BY <1>2, <3>1, <3>2 DEF ExitRead
  <2>2. rt' \in [Worker -> ChildRec]
    <3>1. rt' = rt \/ \E f \in BOOLEAN : rt' = [rt EXCEPT ![w].handle = f]
      BY <1>2 DEF ExitRead
    <3>2. QED BY <1>0, <3>1 DEF ChildRec
  <2>3. up' \in BOOLEAN BY <1>2 DEF ExitRead, JobInv, TypeOK
  <2>4. QED BY <1>2, <2>1, <2>2, <2>3 DEF ExitRead, JobInv, TypeOK, PassHolds, Linked, Awaited
<1>3. CASE ExitFinishing(w)
  <2> DEFINE r == [exit[w].rec EXCEPT !.status = "finishing"]
  <2>1. r \in WorkerRec /\ r.job \in Job
    BY <1>3, <1>a, <1>b, WithStatus DEF ExitFinishing, WorkerStatus
  <2>2. PutWorker(w, r) /\ exit' = [exit EXCEPT ![w] = [pc |-> "terminal", rec |-> r]]
    BY <1>3 DEF ExitFinishing
  <2> HIDE DEF r
  <2>3. workers' \in [Worker -> WorkerRec] BY <2>1, <2>2, Stored DEF JobInv
  <2>4. exit' \in [Worker -> ExitRec] /\ Ids BY <1>0, <2>1, <2>2 DEF ExitRec, JobInv, Linked
  <2>5. \A x \in Worker : workers'[x].status # "absent" => workers'[x].job \in Job
    BY <1>0, <2>1, <2>2 DEF PutWorker, JobInv, Linked
  <2>6. QED BY <1>3, <2>3, <2>4, <2>5 DEF ExitFinishing, JobInv, TypeOK, PassHolds, Linked, Awaited
<1>4. CASE ExitTerminal(w)
  <2> DEFINE r == [exit[w].rec EXCEPT !.status = TerminalStatusOf(exit[w].rec, rt[w].proc)]
  <2>0. TerminalStatusOf(exit[w].rec, rt[w].proc) \in WorkerStatus
    BY DEF TerminalStatusOf, WorkerStatus
  <2>1. r \in WorkerRec /\ r.job \in Job
    BY <1>4, <1>a, <1>b, <2>0, WithStatus DEF ExitTerminal
  <2>2. PutWorker(w, r) /\ exit' = [exit EXCEPT ![w].pc = "release"]
    BY <1>4 DEF ExitTerminal
  <2> HIDE DEF r
  <2>3. workers' \in [Worker -> WorkerRec] BY <2>1, <2>2, Stored DEF JobInv
  <2>4. exit' \in [Worker -> ExitRec] /\ Ids
    BY <1>4, <1>0, <1>b, <2>2 DEF ExitTerminal, ExitRec, JobInv, Linked
  <2>5. \A x \in Worker : workers'[x].status # "absent" => workers'[x].job \in Job
    BY <1>0, <2>1, <2>2 DEF PutWorker, JobInv, Linked
  <2>6. rt[w].file \in ResultKind /\ ExecutionStatusOf(exit[w].rec, rt[w].proc) \in ResultKind
    BY <1>0 DEF ChildRec, ExecutionStatusOf, ResultKind
  <2>7. results' \in [Worker -> ResultKind] BY <1>0, <1>4, <2>6 DEF ExitTerminal
  <2>8. QED BY <1>4, <2>3, <2>4, <2>5, <2>7
            DEF ExitTerminal, JobInv, TypeOK, PassHolds, Linked, Awaited
<1>5. CASE ExitRelease(w)
  <2>1. exit' \in [Worker -> ExitRec] /\ Ids
    BY <1>0, <1>5, EmptyRecords DEF ExitRelease, ExitRec, JobInv, Linked
  <2>2. rt' \in [Worker -> ChildRec] BY <1>0, <1>5 DEF ExitRelease, ChildRec
  <2>3. agg' \in [Job -> AggRec] /\ Awaited'
    BY <1>5, <1>b, Joined DEF ExitRelease, JobInv, Requester
  <2>4. up' \in BOOLEAN BY <1>5, <1>b DEF ExitRelease, JobInv, TypeOK, AggRec
  <2>5. QED BY <1>5, <2>1, <2>2, <2>3, <2>4
            DEF ExitRelease, JobInv, TypeOK, PassHolds, Linked
<1>6. QED BY <1>1, <1>2, <1>3, <1>4, <1>5 DEF Exiting

\* A step of a job's aggregation keeps the invariant.
LEMMA InvAggregate ==
  ASSUME JobInv, NEW j \in Job, Aggregating(j)
  PROVE  JobInv'
<1> USE DEF store, sched, tasks
<1>0. agg \in [Job -> AggRec] /\ jobs \in [Job -> JobRec] BY DEF JobInv, TypeOK
<1>a. /\ agg[j] \in AggRec /\ agg[j].task \in AggTask /\ agg[j].task.rec \in JobRec
      /\ agg[j].chain \in Seq(Requester)
  BY <1>0 DEF AggRec, AggTask
<1> DEFINE Kept(a) == a.task.pc # "idle" => a.chain # <<>>
<1>b. \A i \in Job : Kept(agg[i]) BY DEF JobInv, Awaited
\* Only j's chain changes, to one that is awaited: the rest is as before.
<1>c. ASSUME NEW a \in AggRec, Kept(a), agg' = [agg EXCEPT ![j] = a]
      PROVE  agg' \in [Job -> AggRec] /\ Awaited'
  BY <1>0, <1>b, <1>c DEF Awaited
<1>d. ASSUME agg[j].chain # <<>>
      PROVE  Pop(j) \in AggRec /\ Kept(Pop(j))
  <2>1. Tail(agg[j].chain) \in Seq(Requester) BY <1>a, <1>d
  <2>2. QED BY <1>a, <2>1, EmptyRecords DEF Pop, AggRec, IdleAgg
<1>1. CASE AggregateRead(j)
  <2>1. Verdict(j) \in {"completed", "failed", "canceled"} BY DEF Verdict
  <2> DEFINE a == [agg[j] EXCEPT !.task = [pc |-> "advance", rec |-> jobs[j],
                                           verdict |-> Verdict(j)]]
  <2>2. agg[j].chain # <<>> BY <1>1 DEF AggregateRead
  <2>3. a \in AggRec /\ Kept(a) BY <1>0, <1>a, <2>1, <2>2 DEF AggRec, AggTask
  <2>4. agg' = [agg EXCEPT ![j] = a] \/ agg' = [agg EXCEPT ![j] = Pop(j)]
    BY <1>1 DEF AggregateRead
  <2> HIDE DEF a
  <2>5. agg' \in [Job -> AggRec] /\ Awaited' BY <1>c, <1>d, <2>2, <2>3, <2>4
  <2>6. QED BY <1>1, <2>5 DEF AggregateRead, JobInv, TypeOK, PassHolds, Linked
<1>2. CASE AggregateAdvance(j)
  <2> DEFINE r == agg[j].task.rec
             n == [r EXCEPT !.status = NextStatus(@, "aggregating")]
  <2>1. agg[j].chain # <<>> /\ agg[j].task.pc = "advance"
    BY <1>2, <1>b DEF AggregateAdvance
  <2>2. CASE agg' = [agg EXCEPT ![j].task.pc = "final"] /\ UNCHANGED jobs
    <3> DEFINE a == [agg[j] EXCEPT !.task = [agg[j].task EXCEPT !.pc = "final"]]
    <3>1. a \in AggRec /\ Kept(a) BY <1>a, <2>1 DEF AggRec, AggTask
    <3>2. agg' = [agg EXCEPT ![j] = a] BY <1>0, <2>2 DEF AggRec
    <3> HIDE DEF a
    <3>3. agg' \in [Job -> AggRec] /\ Awaited' BY <1>c, <3>1, <3>2
    <3>4. QED BY <1>2, <2>2, <3>3 DEF AggregateAdvance, JobInv, TypeOK, PassHolds, Linked
  <2>3. CASE r.status # "aggregating" /\ PutJob(j, n) /\ agg' = [agg EXCEPT ![j].task.rec = n]
    <3>1. r.status \in JobStatus \cup {"absent"} BY <1>a DEF JobRec
    <3>2. NextStatus(r.status, "aggregating") \in JobStatus BY <2>3, <3>1, NextToAggregating
    <3>3. n \in JobRec BY <1>a, <3>2, WithStatus
    <3>4. jobs' \in [Job -> JobRec] BY <2>3, <3>3, Stored DEF JobInv
    <3> HIDE DEF n
    <3> DEFINE a == [agg[j] EXCEPT !.task = [agg[j].task EXCEPT !.rec = n]]
    <3>5. a \in AggRec /\ Kept(a) BY <1>a, <2>1, <3>3 DEF AggRec, AggTask
    <3>6. agg' = [agg EXCEPT ![j] = a] BY <1>0, <2>3 DEF AggRec
    <3> HIDE DEF a
    <3>7. agg' \in [Job -> AggRec] /\ Awaited' BY <1>c, <3>5, <3>6
    <3>8. QED BY <1>2, <3>4, <3>7 DEF AggregateAdvance, JobInv, TypeOK, PassHolds, Linked
  <2>4. QED BY <1>2, <2>2, <2>3 DEF AggregateAdvance
<1>3. CASE AggregateFinal(j)
  <2>1. agg[j].chain # <<>> /\ agg[j].task.verdict \in JobStatus
    BY <1>3, <1>a, <1>b DEF AggregateFinal, AggTask, JobStatus
  <2>2. [agg[j].task.rec EXCEPT !.status = agg[j].task.verdict] \in JobRec
    BY <1>a, <2>1, WithStatus
  <2>3. jobs' \in [Job -> JobRec] BY <1>3, <2>2, Stored DEF AggregateFinal, JobInv
  <2>4. agg' \in [Job -> AggRec] /\ Awaited' BY <1>3, <1>c, <1>d, <2>1 DEF AggregateFinal
  <2>5. QED BY <1>3, <2>3, <2>4 DEF AggregateFinal, JobInv, TypeOK, PassHolds, Linked
<1>4. CASE AggregateFail(j)
  <2> DEFINE a == [task |-> IdleAgg, chain |-> <<>>, poisoned |-> TRUE]
  <2>1. a \in AggRec /\ Kept(a) BY EmptyRecords DEF AggRec, IdleAgg
  <2>2. agg' = [agg EXCEPT ![j] = a] BY <1>4 DEF AggregateFail
  <2> HIDE DEF a
  <2>3. agg' \in [Job -> AggRec] /\ Awaited' BY <1>c, <2>1, <2>2
  <2>4. QED BY <1>4, <2>3 DEF AggregateFail, JobInv, TypeOK, PassHolds, Linked
<1>5. QED BY <1>1, <1>2, <1>3, <1>4 DEF Aggregating

-----------------------------------------------------------------------------
(* The type invariant of the specification *)

\* The invariant holds of a process that has just started.
LEMMA InvInit == Init => JobInv
<1> SUFFICES ASSUME Init PROVE JobInv OBVIOUS
<1>1. TypeOK
  <2>1. cancel \in [Job -> CancelRec] BY EmptyRecords DEF Init, CancelRec
  <2>2. stop \in [Caller -> StopRec] BY EmptyRecords DEF Init
  <2>3. exit \in [Worker -> ExitRec] BY EmptyRecords DEF Init, ExitRec
  <2>4. rt \in [Worker -> ChildRec] BY DEF Init, ChildRec, ResultKind
  <2>5. agg \in [Job -> AggRec] BY EmptyRecords DEF Init, AggRec
  <2>6. results \in [Worker -> ResultKind] BY DEF Init, ResultKind
  <2>7. QED BY <2>1, <2>2, <2>3, <2>4, <2>5, <2>6, EmptyRecords DEF Init, TypeOK
<1>2. PassHolds BY DEF Init, PassHolds, IdlePass, Starting
<1>3. Linked BY DEF Init, Linked, NoWorkerRec, IdleStop
<1>4. Awaited BY DEF Init, Awaited, IdleAgg
<1>5. QED BY <1>1, <1>2, <1>3, <1>4 DEF JobInv

\* Every step of the process keeps the invariant.
LEMMA InvNext == JobInv /\ [Next]_vars => JobInv'
<1> SUFFICES ASSUME JobInv, [Next]_vars PROVE JobInv' OBVIOUS
<1>1. CASE Client BY <1>1, InvClient DEF Client
<1>2. CASE Pass BY <1>2, InvVisit, InvCreate, InvStart, InvFail DEF Pass
<1>3. ASSUME NEW j \in Job, RetryTimer(j) \/ Canceling(j) \/ Aggregating(j)
      PROVE  JobInv'
  BY <1>3, InvClient, InvCancel, InvAggregate
<1>4. ASSUME NEW c \in Caller, Stopping(c) PROVE JobInv' BY <1>4, InvStop
<1>5. ASSUME NEW w \in Worker, ProcessExit(w) \/ Exiting(w) PROVE JobInv' BY <1>5, InvExit
<1>6. CASE UNCHANGED vars
  BY <1>6 DEF vars, JobInv, TypeOK, PassHolds, Linked, Awaited
<1>7. QED BY <1>1, <1>2, <1>3, <1>4, <1>5, <1>6 DEF Next

\* Whatever tasks interleave, JobInv holds.
THEOREM Invariance == Spec => []JobInv
<1>1. QED BY InvInit, InvNext, PTL DEF Spec

\* Every record a task holds or stores is one the code can build.
THEOREM TypeCorrect == Spec => []TypeOK
<1>1. JobInv => TypeOK BY DEF JobInv
<1>2. QED BY Invariance, <1>1, PTL

-----------------------------------------------------------------------------
(* Orphaned processes *)

\* Which steps spawn a child, drop its handle or move its exit handler on.
LEMMA ChildSteps ==
  ASSUME JobInv, [Next]_vars
  PROVE  \/ UNCHANGED <<rt, exit>>
         \/ Spawn \/ Register
         \/ \E w \in Worker : ProcessExit(w) \/ Exiting(w)
<1> USE DEF tasks, store, sched
<1>1. CASE UNCHANGED vars BY <1>1 DEF vars
<1>2. CASE Client \/ \E j \in Job : RetryTimer(j) \/ Canceling(j)
  BY <1>2 DEF Client, Submit, RetryJob, RetryTimer, Canceling, CancelRead, CancelWrite,
              CancelList, CancelDone
<1>3. CASE \E j \in Job : Aggregating(j)
  BY <1>3 DEF Aggregating, AggregateRead, AggregateAdvance, AggregateFinal, AggregateFail
<1>4. CASE \E c \in Caller : Stopping(c)
  BY <1>4 DEF Stopping, StopRead, StopWrite, StopAct, StopAwaitExit, StopFinalize, StopDone
<1>5. CASE Pass
  <2>1. CASE \/ BeginPass \/ EndPass \/ Prepare \/ LoopTest \/ CreateWorker \/ LinkWorker
             \/ \E j \in Job : DropJob(j) \/ AtCapacity(j) \/ SkipConflict(j) \/ TakeJob(j)
    BY <2>1 DEF BeginPass, EndPass, DropJob, AtCapacity, SkipConflict, TakeJob, Prepare,
                LoopTest, CreateWorker, LinkWorker
  <2>2. CASE StartRead \/ StartingWrite \/ DispatchingWrite \/ CreateWorktree \/ ActiveWrite
    BY <2>2 DEF StartRead, StartingWrite, DispatchingWrite, CreateWorktree, ActiveWrite
  <2>3. CASE \/ RunningWrite \/ HeartbeatRejected \/ StartFailed \/ AwaitAggregation
             \/ FailureRead \/ FailureWrite \/ CreateRetry \/ AfterLoop
    BY <2>3 DEF RunningWrite, HeartbeatRejected, StartFailed, AwaitAggregation, FailureRead,
                FailureWrite, CreateRetry, AfterLoop
  <2>4. QED BY <1>5, <2>1, <2>2, <2>3 DEF Pass
<1>6. QED BY <1>1, <1>2, <1>3, <1>4, <1>5 DEF Next

\* The pass keeps the worker it has spawned until it registers the handle.
LEMMA HoldsSpawned ==
  ASSUME JobInv, [Next]_vars, "heartbeat" \notin Faults,
         d.pc \in {"active", "running", "register"}
  PROVE  \/ d'.worker = d.worker /\ d'.pc \in {"active", "running", "register"}
         \/ Register
<1>0. d \in PassRec BY DEF JobInv, TypeOK
<1>1. CASE ActiveWrite BY <1>0, <1>1 DEF ActiveWrite, Go, PassRec
<1>2. CASE RunningWrite
  <2>1. d.job \in Job /\ d.pc = "running"
    BY <1>2 DEF RunningWrite, At, JobInv, PassHolds
  <2>2. d'.worker = d.worker /\ d'.pc \in {"running", "register"}
    BY <1>2, <2>1, Advancing DEF RunningWrite, Flow, PassPc
  <2>3. QED BY <2>2
<1>3. CASE Register BY <1>3
<1>4. CASE UNCHANGED d BY <1>4
<1>5. CASE Pass
  BY <1>1, <1>2, <1>3, <1>5
  DEF Pass, At, BeginPass, EndPass, DropJob, AtCapacity, SkipConflict, TakeJob, Prepare,
      LoopTest, CreateWorker, LinkWorker, StartRead, StartingWrite, DispatchingWrite,
      CreateWorktree, Spawn, HeartbeatRejected, StartFailed, AwaitAggregation, FailureRead,
      FailureWrite, CreateRetry, AfterLoop
<1>6. QED
  BY <1>4, <1>5
  DEF Next, vars, sched, Client, Submit, RetryJob, RetryTimer, Canceling, CancelRead,
      CancelWrite, CancelList, CancelDone, Stopping, StopRead, StopWrite, StopAct,
      StopAwaitExit, StopFinalize, StopDone, ProcessExit, Exiting, ExitRead, ExitFinishing,
      ExitTerminal, ExitRelease, Aggregating, AggregateRead, AggregateAdvance,
      AggregateFinal, AggregateFail

\* A step leaves every running child reachable.
LEMMA OrphanNext ==
  ASSUME JobInv, NoOrphanProcess, [Next]_vars, "heartbeat" \notin Faults
  PROVE  NoOrphanProcess'
<1>0. /\ d \in PassRec /\ rt \in [Worker -> ChildRec] /\ exit \in [Worker -> ExitRec]
  BY DEF JobInv, TypeOK
<1> SUFFICES ASSUME NEW w \in Worker, rt'[w].proc = "running"
             PROVE  \/ rt'[w].handle /\ exit'[w].pc = "registered"
                    \/ d'.worker = w /\ d'.pc \in {"active", "running", "register"}
  BY DEF NoOrphanProcess
<1>1. CASE Spawn
  <2>1. CASE w = d.worker /\ Go("active") BY <2>1, <1>0 DEF Go, PassRec
  <2>2. CASE rt'[w] = rt[w]
    <3>1. d.pc = "spawn" BY <1>1 DEF Spawn, At
    <3>2. rt[w].handle /\ exit[w].pc = "registered" BY <2>2, <3>1 DEF NoOrphanProcess
    <3>3. QED BY <1>1, <2>2, <3>2 DEF Spawn, tasks
  <2>3. QED BY <1>0, <1>1, <2>1, <2>2 DEF Spawn
<1>2. CASE Register
  <2>1. CASE w = d.worker BY <1>0, <1>2, <2>1 DEF Register, ChildRec, ExitRec
  <2>2. CASE w # d.worker
    <3>1. rt'[w] = rt[w] /\ exit'[w] = exit[w] BY <1>0, <1>2, <2>2 DEF Register
    <3>2. QED BY <2>2, <3>1 DEF NoOrphanProcess
  <2>3. QED BY <2>1, <2>2
<1>3. ASSUME ~Register,
             rt'[w].proc = rt[w].proc,
             rt[w].handle /\ exit[w].pc = "registered"
               => rt'[w].handle /\ exit'[w].pc = "registered"
      PROVE  \/ rt'[w].handle /\ exit'[w].pc = "registered"
             \/ d'.worker = w /\ d'.pc \in {"active", "running", "register"}
  BY <1>3, HoldsSpawned DEF NoOrphanProcess
<1>4. CASE UNCHANGED <<rt, exit>> /\ ~Register BY <1>3, <1>4
<1>5. ASSUME NEW x \in Worker, ProcessExit(x) \/ Exiting(x)
      PROVE  \/ rt'[w].handle /\ exit'[w].pc = "registered"
             \/ d'.worker = w /\ d'.pc \in {"active", "running", "register"}
  <2>0. UNCHANGED d
    BY <1>5 DEF ProcessExit, Exiting, ExitRead, ExitFinishing, ExitTerminal, ExitRelease, sched
  <2>1. rt'[w].proc = rt[w].proc
    <3>1. CASE ProcessExit(x)
      <4>1. PICK o \in Outcomes : rt' = [rt EXCEPT ![x].proc = o[1], ![x].file = o[2]]
        BY <3>1 DEF ProcessExit
      <4>2. o[1] # "running" BY Bounds DEF Bounds, ExitKind
      <4>3. QED BY <4>1, <4>2, <1>0 DEF ChildRec
    <3>2. CASE Exiting(x)
      BY <3>2, <1>0 DEF Exiting, ExitRead, ExitFinishing, ExitTerminal, ExitRelease, ChildRec
    <3>3. QED BY <1>5, <3>1, <3>2
  <2>2. rt[w].handle /\ exit[w].pc = "registered"
          => rt'[w].handle /\ exit'[w].pc = "registered"
    <3>1. CASE ProcessExit(x)
      BY <3>1, <1>0 DEF ProcessExit, tasks, ChildRec
    <3>2. CASE Exiting(x)
      BY <3>2, <2>1, <1>0
      DEF Exiting, ExitRead, ExitFinishing, ExitTerminal, ExitRelease, ChildRec, ExitRec
    <3>3. QED BY <1>5, <3>1, <3>2
  <2>3. QED BY <2>0, <2>1, <2>2 DEF NoOrphanProcess
<1>6. QED BY <1>1, <1>2, <1>4, <1>5, ChildSteps

\* Unless the first heartbeat of a worker fails, every running child process
\* has a registered handle and exit handler, or is still held by the pass.
THEOREM NoOrphans == "heartbeat" \notin Faults => (Spec => []NoOrphanProcess)
<1> SUFFICES ASSUME "heartbeat" \notin Faults PROVE Spec => []NoOrphanProcess OBVIOUS
<1>1. Init => NoOrphanProcess BY DEF Init, NoOrphanProcess
<1>2. JobInv /\ NoOrphanProcess /\ [Next]_vars => NoOrphanProcess' BY OrphanNext
<1>3. QED BY Invariance, <1>1, <1>2, PTL DEF Spec

-----------------------------------------------------------------------------
(* Canceled workers *)

\* A stop asks for the cancellation before it acts, and only then finalizes.
LEMMA AskedNext ==
  ASSUME JobInv, StopAsked, [Next]_vars
  PROVE  StopAsked'
<1>0. stop \in [Caller -> StopRec] BY DEF JobInv, TypeOK
<1>1. ASSUME NEW c \in Caller, Stopping(c) PROVE StopAsked'
  <2>0. stop[c] \in StopRec /\ stop[c].rec \in WorkerRec BY <1>0 DEF StopRec
  <2>1. CASE \E w \in Worker : StopRead(c, w)
    BY <2>1, <1>0, EmptyRecords DEF StopRead, StopAsked, StopRec, IdleStop
  <2>2. CASE StopWrite(c)
    BY <2>2, <1>0, <2>0 DEF StopWrite, StopAsked, StopRec, WorkerRec
  <2>3. CASE StopAct(c) BY <2>3, <1>0, <2>0 DEF StopAct, StopAsked, StopRec, IdleStop
  <2>4. CASE StopAwaitExit(c)
    BY <2>4, <1>0, <2>0 DEF StopAwaitExit, StopAsked, StopRec, IdleStop
  <2>5. CASE StopFinalize(c) \/ StopDone(c)
    BY <2>5, <1>0, <2>0 DEF StopFinalize, StopDone, StopAsked, StopRec, IdleStop
  <2>6. QED BY <1>1, <2>1, <2>2, <2>3, <2>4, <2>5 DEF Stopping
<1>2. CASE UNCHANGED stop BY <1>2 DEF StopAsked
<1>3. QED
  BY <1>1, <1>2
  DEF Next, vars, tasks, Client, Submit, RetryJob, RetryTimer, Pass, BeginPass, EndPass,
      DropJob, AtCapacity, SkipConflict, TakeJob, Prepare, LoopTest, CreateWorker,
      LinkWorker, StartRead, StartingWrite, DispatchingWrite, CreateWorktree, Spawn,
      ActiveWrite, RunningWrite, Register, HeartbeatRejected, StartFailed,
      AwaitAggregation, FailureRead, FailureWrite, CreateRetry, AfterLoop, Canceling,
      CancelRead, CancelWrite, CancelList, CancelDone, ProcessExit, Exiting, ExitRead,
      ExitFinishing, ExitTerminal, ExitRelease, Aggregating, AggregateRead,
      AggregateAdvance, AggregateFinal, AggregateFail

\* Whichever task writes a worker, a canceled record carries the request.
LEMMA CanceledNext ==
  ASSUME JobInv, StopAsked, CanceledWasRequested, [Next]_vars
  PROVE  CanceledWasRequested'
<1>0. /\ workers \in [Worker -> WorkerRec] /\ d \in PassRec
      /\ stop \in [Caller -> StopRec] /\ exit \in [Worker -> ExitRec]
  BY DEF JobInv, TypeOK
<1> DEFINE Asked(r) == r.status = "canceled" => r.cancel
<1>1. ASSUME NEW w, NEW r, PutWorker(w, r), Asked(r) PROVE CanceledWasRequested'
  BY <1>0, <1>1 DEF PutWorker, CanceledWasRequested
<1>2. CASE UNCHANGED workers BY <1>2 DEF CanceledWasRequested
<1>3. CASE Pass
  <2>0. d.wrec \in WorkerRec BY <1>0 DEF PassRec
  <2>1. CASE CreateWorker
    <3>1. PICK w : PutWorker(w, [NoWorkerRec EXCEPT !.status = "created", !.job = d.job])
      BY <2>1 DEF CreateWorker
    <3>2. QED BY <1>1, <3>1 DEF NoWorkerRec
  <2>2. CASE StartingWrite
    <3>1. PutWorker(d.worker, [d.wrec EXCEPT !.status = "starting"])
      BY <2>2 DEF StartingWrite
    <3>2. Asked([d.wrec EXCEPT !.status = "starting"]) BY <2>0 DEF WorkerRec
    <3>3. QED BY <1>1, <3>1, <3>2
  <2>3. CASE ActiveWrite
    <3>1. PutWorker(d.worker, [d.wrec EXCEPT !.status = "active", !.pid = TRUE])
      BY <2>3 DEF ActiveWrite
    <3>2. Asked([d.wrec EXCEPT !.status = "active", !.pid = TRUE]) BY <2>0 DEF WorkerRec
    <3>3. QED BY <1>1, <3>1, <3>2
  <2>4. CASE StartFailed
    <3>1. PutWorker(d.worker, [d.wrec EXCEPT !.status = "failed"])
      BY <2>4 DEF StartFailed
    <3>2. Asked([d.wrec EXCEPT !.status = "failed"]) BY <2>0 DEF WorkerRec
    <3>3. QED BY <1>1, <3>1, <3>2
  <2>5. QED
    BY <1>2, <1>3, <2>1, <2>2, <2>3, <2>4
    DEF Pass, store, BeginPass, EndPass, DropJob, AtCapacity, SkipConflict, TakeJob, Prepare,
        LoopTest, LinkWorker, StartRead, DispatchingWrite, CreateWorktree, Spawn,
        RunningWrite, Register, HeartbeatRejected, AwaitAggregation, FailureRead,
        FailureWrite, CreateRetry, AfterLoop
<1>4. ASSUME NEW c \in Caller, Stopping(c) PROVE CanceledWasRequested'
  <2>0. stop[c].rec \in WorkerRec BY <1>0 DEF StopRec
  <2>1. CASE StopWrite(c)
    <3>1. PutWorker(stop[c].worker, [stop[c].rec EXCEPT !.cancel = TRUE])
      BY <2>1 DEF StopWrite
    <3>2. Asked([stop[c].rec EXCEPT !.cancel = TRUE]) BY <2>0 DEF WorkerRec
    <3>3. QED BY <1>1, <3>1, <3>2
  <2>2. CASE StopFinalize(c)
    <3>1. PutWorker(stop[c].worker, [stop[c].rec EXCEPT !.status = stop[c].target])
      BY <2>2 DEF StopFinalize
    <3>2. Asked([stop[c].rec EXCEPT !.status = stop[c].target])
      BY <2>0, <2>2 DEF StopFinalize, StopAsked, WorkerRec
    <3>3. QED BY <1>1, <3>1, <3>2
  <2>3. QED
    BY <1>2, <1>4, <2>1, <2>2
    DEF Stopping, store, StopRead, StopAct, StopAwaitExit, StopDone
<1>5. ASSUME NEW w \in Worker, Exiting(w) PROVE CanceledWasRequested'
  <2>0. exit[w].rec \in WorkerRec BY <1>0 DEF ExitRec
  <2>1. CASE ExitFinishing(w)
    <3>1. PutWorker(w, [exit[w].rec EXCEPT !.status = "finishing"])
      BY <2>1 DEF ExitFinishing
    <3>2. Asked([exit[w].rec EXCEPT !.status = "finishing"]) BY <2>0 DEF WorkerRec
    <3>3. QED BY <1>1, <3>1, <3>2
  <2>2. CASE ExitTerminal(w)
    <3> DEFINE s == TerminalStatusOf(exit[w].rec, rt[w].proc)
    <3>1. PutWorker(w, [exit[w].rec EXCEPT !.status = s]) BY <2>2 DEF ExitTerminal
    <3>2. s = "canceled" => exit[w].rec.cancel BY <2>0 DEF TerminalStatusOf, WorkerRec
    <3> HIDE DEF s
    <3>3. Asked([exit[w].rec EXCEPT !.status = s]) BY <2>0, <3>2 DEF WorkerRec
    <3>4. QED BY <1>1, <3>1, <3>3
  <2>3. QED BY <1>2, <1>5, <2>1, <2>2 DEF Exiting, store, ExitRead, ExitRelease
<1>6. QED
  BY <1>2, <1>3, <1>4, <1>5
  DEF Next, vars, store, Client, Submit, RetryJob, RetryTimer, Canceling, CancelRead,
      CancelWrite, CancelList, CancelDone, ProcessExit, Aggregating, AggregateRead,
      AggregateAdvance, AggregateFinal, AggregateFail

\* However stale the records that the start, stop and exit tasks write back,
\* a worker recorded as canceled was asked to stop.
THEOREM CanceledOnRequest == Spec => []CanceledWasRequested
<1>1. Init => StopAsked /\ CanceledWasRequested
  BY DEF Init, StopAsked, CanceledWasRequested, IdleStop, NoWorkerRec
<1>2. /\ JobInv /\ StopAsked /\ [Next]_vars => StopAsked'
      /\ JobInv /\ StopAsked /\ CanceledWasRequested /\ [Next]_vars => CanceledWasRequested'
  BY AskedNext, CanceledNext
<1>3. QED BY Invariance, <1>1, <1>2, PTL DEF Spec

-----------------------------------------------------------------------------
(* Where nobody stops a worker *)

\* No job is canceled, no worker stopped, and a child that was spawned is
\* registered: the hypotheses under which a worker's record follows its process.
Unstopped == Cancelable = {} /\ Stoppable = {} /\ "heartbeat" \notin Faults

\* Then no call of cancelJob or stopWorker is under way.
Quiescent == (\A j \in Job : cancel[j].pc = "idle") /\ (\A c \in Caller : stop[c].pc = "idle")

\* The pass is starting this worker.
InHand(w) == d.worker = w /\ d.pc \in Starting

\* Where a worker is between its creation and the end of its exit handler.
Stage(w) ==
  /\ workers[w].status = "absent" =>
       rt[w].proc = "none" /\ exit[w].pc = "none" /\ ~InHand(w)
  /\ InHand(w) =>
       /\ exit[w].pc = "none" /\ workers[w].job = d.job
       /\ d.pc \in {"link", "start", "starting"} => workers[w].status = "created"
       /\ d.pc \in {"dispatching", "worktree", "spawn", "active", "startFailed"}
            => workers[w].status = "starting"
       /\ d.pc \in {"running", "register"} => workers[w].status = "active"
       /\ d.pc \notin {"active", "running", "register"} => rt[w].proc # "running"
       /\ d.pc \notin {"link", "start"} => d.wrec.job = d.job
  /\ exit[w].pc \in {"registered", "finishing"} => workers[w].status = "active"
  /\ exit[w].pc = "terminal" => workers[w].status = "finishing"
  /\ exit[w].pc \in {"release", "done"} => workers[w].status \in TerminalWorker
  /\ exit[w].pc \in {"finishing", "terminal", "release", "done"} => rt[w].proc # "running"
  /\ exit[w].pc \in {"finishing", "terminal", "release"} => exit[w].rec.job = workers[w].job
  /\ exit[w].pc = "none" /\ ~InHand(w) =>
       workers[w].status \in {"absent", "starting", "failed"} /\ rt[w].proc # "running"

StageInv == Quiescent /\ \A w \in Worker : Stage(w)

\* Neither cancelJob nor stopWorker takes a step.
LEMMA NoStops ==
  ASSUME Unstopped, Quiescent, [Next]_vars
  PROVE  /\ UNCHANGED <<cancel, stop>>
         /\ \/ Client \/ Pass \/ UNCHANGED vars
            \/ \E j \in Job : RetryTimer(j) \/ Aggregating(j)
            \/ \E w \in Worker : ProcessExit(w) \/ Exiting(w)
<1>1. ASSUME NEW j \in Job, Canceling(j) PROVE FALSE
  BY <1>1 DEF Canceling, CancelRead, CancelWrite, CancelList, CancelDone, Unstopped, Quiescent
<1>2. ASSUME NEW c \in Caller, Stopping(c) PROVE FALSE
  <2>1. stop[c].pc = "idle" /\ (c \in Job => cancel[c].pc = "idle") BY DEF Quiescent
  <2>2. QED
    BY <1>2, <2>1
    DEF Stopping, StopRead, StopWrite, StopAct, StopAwaitExit, StopFinalize, StopDone, Unstopped
<1>3. \/ Client \/ Pass \/ UNCHANGED vars
      \/ \E j \in Job : RetryTimer(j) \/ Aggregating(j)
      \/ \E w \in Worker : ProcessExit(w) \/ Exiting(w)
  BY <1>1, <1>2 DEF Next
<1>4. CASE UNCHANGED vars BY <1>3, <1>4 DEF vars, tasks
<1>5. CASE Client \/ \E j \in Job : RetryTimer(j) \/ Aggregating(j)
  BY <1>3, <1>5
  DEF Client, Submit, RetryJob, RetryTimer, Aggregating, AggregateRead, AggregateAdvance,
      AggregateFinal, AggregateFail, tasks
<1>6. CASE \E w \in Worker : ProcessExit(w) \/ Exiting(w)
  BY <1>3, <1>6
  DEF ProcessExit, Exiting, ExitRead, ExitFinishing, ExitTerminal, ExitRelease, tasks
<1>7. CASE Pass
  <2>1. CASE \/ BeginPass \/ EndPass \/ Prepare \/ LoopTest \/ CreateWorker \/ LinkWorker
             \/ \E j \in Job : DropJob(j) \/ AtCapacity(j) \/ SkipConflict(j) \/ TakeJob(j)
    BY <1>3, <2>1 DEF BeginPass, EndPass, DropJob, AtCapacity, SkipConflict, TakeJob, Prepare,
                LoopTest, CreateWorker, LinkWorker, tasks
  <2>2. CASE \/ StartRead \/ StartingWrite \/ DispatchingWrite \/ CreateWorktree \/ Spawn
             \/ ActiveWrite \/ RunningWrite \/ Register \/ HeartbeatRejected
    BY <1>3, <2>2 DEF StartRead, StartingWrite, DispatchingWrite, CreateWorktree, Spawn,
                ActiveWrite, RunningWrite, Register, HeartbeatRejected, tasks
  <2>3. CASE StartFailed \/ AwaitAggregation \/ FailureRead \/ FailureWrite \/ CreateRetry
             \/ AfterLoop
    BY <1>3, <2>3 DEF StartFailed, AwaitAggregation, FailureRead, FailureWrite, CreateRetry,
                AfterLoop, tasks
  <2>4. QED BY <1>7, <2>1, <2>2, <2>3 DEF Pass
<1>8. QED BY <1>3, <1>4, <1>5, <1>6, <1>7

\* The fields of a pass.
LEMMA PassFields ==
  ASSUME JobInv
  PROVE  DOMAIN d = {"pc", "todo", "act", "wr", "job", "base", "started", "snap",
                     "worker", "wrec"}
<1>1. d \in PassRec BY DEF JobInv, TypeOK
<1>2. QED BY <1>1 DEF PassRec

\* The pass that has not begun.
LEMMA IdleFields ==
  /\ DOMAIN IdlePass = {"pc", "todo", "act", "wr", "job", "base", "started", "snap",
                        "worker", "wrec"}
  /\ IdlePass.pc = "idle" /\ IdlePass.job = NoJob /\ IdlePass.worker = NoWorker
  /\ IdlePass.todo = {}
BY DEF IdlePass

\* A worker whose record, child and exit handler a step leaves alone, and which it
\* neither takes in hand nor lets go, stays at its stage.
LEMMA StageKept ==
  ASSUME NEW w \in Worker, Stage(w), workers'[w] = workers[w], exit'[w] = exit[w],
         rt'[w].proc = rt[w].proc,
         UNCHANGED d \/ (~InHand(w) /\ ~InHand(w)')
  PROVE  Stage(w)'
<1>1. CASE UNCHANGED d BY <1>1 DEF Stage, InHand
<1>2. CASE ~InHand(w) /\ ~InHand(w)' BY <1>2 DEF Stage
<1>3. QED BY <1>1, <1>2

\* The steps of a pass that start no worker.
LEMMA StageIdle ==
  ASSUME JobInv, StageInv,
         \/ BeginPass \/ EndPass \/ Prepare \/ LoopTest \/ AwaitAggregation
         \/ FailureRead \/ FailureWrite \/ CreateRetry \/ AfterLoop
         \/ \E j \in Job : DropJob(j) \/ AtCapacity(j) \/ SkipConflict(j) \/ TakeJob(j)
  PROVE  \A w \in Worker : Stage(w)'
<1>0. DOMAIN d = {"pc", "todo", "act", "wr", "job", "base", "started", "snap",
                  "worker", "wrec"}
  BY PassFields
<1>1. /\ UNCHANGED <<workers, exit, rt>>
      /\ d.pc \notin Starting /\ d'.pc \notin Starting
  <2> USE DEF tasks, store
  <2>1. CASE BeginPass \/ EndPass \/ \E j \in Job : AtCapacity(j)
    <3>1. CASE BeginPass
      <4>1. PICK q, a, r : d' = [IdlePass EXCEPT !.pc = "visit", !.todo = q, !.act = a, !.wr = r]
        BY <3>1 DEF BeginPass
      <4>2. d'.pc = "visit" BY <4>1, IdleFields
      <4>3. QED BY <3>1, <4>2 DEF BeginPass, At, Starting
    <3>2. CASE EndPass \/ \E j \in Job : AtCapacity(j)
      <4>1. d' = IdlePass /\ d.pc = "visit" BY <3>2 DEF EndPass, AtCapacity, At
      <4>2. QED BY <3>2, <4>1, IdleFields DEF EndPass, AtCapacity, Starting
    <3>3. QED BY <2>1, <3>1, <3>2
  <2>2. ASSUME NEW j \in Job, DropJob(j) \/ SkipConflict(j) \/ TakeJob(j)
        PROVE  /\ UNCHANGED <<workers, exit, rt>>
               /\ d.pc \notin Starting /\ d'.pc \notin Starting
    <3>1. CASE DropJob(j) \/ SkipConflict(j)
      <4>1. d' = [d EXCEPT !.todo = d.todo \ {j}] /\ d.pc = "visit"
        BY <3>1 DEF DropJob, SkipConflict, At
      <4>2. d'.pc = "visit" BY <1>0, <4>1
      <4>3. QED BY <3>1, <4>1, <4>2 DEF DropJob, SkipConflict, Starting
    <3>2. CASE TakeJob(j)
      <4>1. d'.pc = "prepare" BY <1>0, <3>2 DEF TakeJob
      <4>2. QED BY <3>2, <4>1 DEF TakeJob, At, Starting
    <3>3. QED BY <2>2, <3>1, <3>2
  <2>3. CASE Prepare \/ AfterLoop
    BY <1>0, <2>3 DEF Prepare, AfterLoop, At, Starting
  <2>4. CASE LoopTest
    BY <1>0, <2>4 DEF LoopTest, Go, At, Starting
  <2>5. CASE AwaitAggregation \/ CreateRetry
    BY <1>0, <2>5 DEF AwaitAggregation, CreateRetry, Go, At, Starting
  <2>6. CASE FailureRead
    <3>1. \/ d' = IdlePass \/ d' = [d EXCEPT !.pc = "after"]
          \/ d' = [d EXCEPT !.pc = "retry", !.snap = jobs[d.job]]
          \/ d' = [d EXCEPT !.pc = "failWrite", !.snap = jobs[d.job]]
      BY <2>6 DEF FailureRead, Go
    <3>2. d'.pc \in {"idle", "after", "retry", "failWrite"} BY <1>0, <3>1, IdleFields
    <3>3. QED BY <2>6, <3>2 DEF FailureRead, At, Starting
  <2>7. CASE FailureWrite
    <3>1. PICK r, pc : /\ d' = [d EXCEPT !.snap = r, !.pc = pc]
                       /\ pc \in {"retry", "after"}
      BY <2>7 DEF FailureWrite
    <3>2. d'.pc = pc BY <1>0, <3>1
    <3>3. QED BY <2>7, <3>1, <3>2 DEF FailureWrite, At, Starting
  <2>8. QED BY <2>1, <2>2, <2>3, <2>4, <2>5, <2>6, <2>7
<1>2. ASSUME NEW w \in Worker PROVE Stage(w)'
  BY <1>1, StageKept DEF StageInv, InHand
<1>3. QED BY <1>2

\* A step of the pass concerns the worker it has in hand, or takes one in hand.
LEMMA StageOne ==
  ASSUME StageInv, NEW w \in Worker, Stage(w)',
         \A v \in Worker : v # w =>
           workers'[v] = workers[v] /\ exit'[v] = exit[v] /\ rt'[v].proc = rt[v].proc,
         d.pc \in Starting => d.worker = w, d'.pc \in Starting => d'.worker = w
  PROVE  \A v \in Worker : Stage(v)'
<1>1. ASSUME NEW v \in Worker, v # w PROVE Stage(v)'
  BY <1>1, StageKept DEF StageInv, InHand
<1>2. QED BY <1>1

\* The pass creates a worker.
LEMMA StageCreate ==
  ASSUME JobInv, StageInv, CreateWorker
  PROVE  \A w \in Worker : Stage(w)'
<1>0. DOMAIN d = {"pc", "todo", "act", "wr", "job", "base", "started", "snap",
                  "worker", "wrec"}
  BY PassFields
<1>1. workers \in [Worker -> WorkerRec] BY DEF JobInv, TypeOK
<1>2. PICK w \in FreshWorker :
        /\ PutWorker(w, [NoWorkerRec EXCEPT !.status = "created", !.job = d.job])
        /\ d' = [d EXCEPT !.pc = "link", !.worker = w]
  BY DEF CreateWorker
<1>3. PICK r : r = [NoWorkerRec EXCEPT !.status = "created", !.job = d.job] OBVIOUS
<1>4. r.status = "created" /\ r.job = d.job BY <1>3 DEF NoWorkerRec
<1>5. /\ w \in Worker /\ workers[w].status = "absent" /\ workers' = [workers EXCEPT ![w] = r]
      /\ d'.pc = "link" /\ d'.worker = w /\ d'.job = d.job /\ d.pc = "create"
      /\ UNCHANGED <<exit, rt>>
  BY <1>0, <1>2, <1>3 DEF FreshWorker, PutWorker, CreateWorker, At, tasks
<1>6. workers'[w] = r /\ \A v \in Worker : v # w => workers'[v] = workers[v] BY <1>1, <1>5
<1>7. Stage(w) BY <1>5 DEF StageInv
<1>8. Stage(w)' BY <1>4, <1>5, <1>6, <1>7 DEF Stage, InHand, Starting
<1>9. QED BY <1>5, <1>6, <1>8, StageOne DEF Starting

\* The pass starts the worker it has in hand.
LEMMA StageStart ==
  ASSUME JobInv, StageInv, Unstopped,
         \/ LinkWorker \/ StartRead \/ StartingWrite \/ DispatchingWrite \/ CreateWorktree
         \/ Spawn \/ ActiveWrite \/ RunningWrite \/ Register \/ HeartbeatRejected \/ StartFailed
  PROVE  \A w \in Worker : Stage(w)'
<1>0. DOMAIN d = {"pc", "todo", "act", "wr", "job", "base", "started", "snap",
                  "worker", "wrec"}
  BY PassFields
<1>1. d.pc \in Starting /\ d.worker \in Worker /\ d.job \in Job
  <2>1. d.pc \in Starting
    BY DEF LinkWorker, StartRead, StartingWrite, DispatchingWrite, CreateWorktree, Spawn,
           ActiveWrite, RunningWrite, Register, HeartbeatRejected, StartFailed, At, Starting
  <2>2. QED BY <2>1 DEF JobInv, PassHolds, Starting
<1>2. PICK w \in Worker : w = d.worker BY <1>1
<1>3. Stage(w) /\ InHand(w) BY <1>1, <1>2 DEF StageInv, InHand
<1>4. /\ workers \in [Worker -> WorkerRec] /\ exit \in [Worker -> ExitRec]
      /\ rt \in [Worker -> ChildRec] /\ d.wrec \in WorkerRec
  BY DEF JobInv, TypeOK, PassRec
<1>5. ASSUME UNCHANGED <<workers, exit, rt>>, NEW pc, d'.pc = pc, d'.worker = w, Stage(w)'
      PROVE  \A v \in Worker : Stage(v)'
  BY <1>2, <1>5, StageOne
<1> USE DEF tasks, store
<1>6. CASE LinkWorker
  <2>1. d'.pc = "start" /\ d'.worker = w /\ d'.job = d.job /\ d'.wrec = d.wrec /\ d.pc = "link"
    BY <1>0, <1>2, <1>6 DEF LinkWorker, Go, At
  <2>2. Stage(w)' BY <1>3, <1>6, <2>1 DEF LinkWorker, Stage, InHand, Starting
  <2>3. QED BY <1>5, <1>6, <2>1, <2>2 DEF LinkWorker
<1>7. CASE StartRead
  <2>1. d.pc = "start" /\ workers[w].status = "created" /\ workers[w].job = d.job
    BY <1>3, <1>7 DEF StartRead, At, Stage, InHand
  <2>2. d' = [d EXCEPT !.snap = jobs[d.job], !.wrec = workers[w], !.pc = "starting"]
    BY <1>2, <1>7, <2>1 DEF StartRead, ValidWorker, WorkerTransitions
  <2>3. d'.pc = "starting" /\ d'.worker = w /\ d'.job = d.job /\ d'.wrec = workers[w]
    BY <1>0, <1>2, <2>2
  <2>4. Stage(w)' BY <1>3, <1>7, <2>1, <2>3 DEF StartRead, Stage, InHand, Starting
  <2>5. QED BY <1>5, <1>7, <2>3, <2>4 DEF StartRead
<1>8. ASSUME NEW s \in {"starting", "active", "failed"}, NEW r,
             workers' = [workers EXCEPT ![w] = r], r.status = s, r.job = d.job,
             UNCHANGED <<exit, rt>>, d'.worker = w, d'.job = d.job, d'.wrec.job = d.wrec.job,
             \/ s = "starting" /\ d.pc = "starting" /\ d'.pc = "dispatching"
             \/ s = "active" /\ d.pc = "active" /\ d'.pc = "running"
             \/ s = "failed" /\ d.pc = "startFailed" /\ d'.pc = "awaitAgg"
      PROVE  \A v \in Worker : Stage(v)'
  <2>1. workers'[w] = r /\ \A v \in Worker : v # w => workers'[v] = workers[v] BY <1>4, <1>8
  <2>2. Stage(w)'
    <3>1. CASE s = "starting" BY <1>3, <1>8, <2>1, <3>1 DEF Stage, InHand, Starting
    <3>2. CASE s = "active" BY <1>3, <1>8, <2>1, <3>2 DEF Stage, InHand, Starting
    <3>3. CASE s = "failed" BY <1>3, <1>8, <2>1, <3>3 DEF Stage, InHand, Starting
    <3>4. QED BY <3>1, <3>2, <3>3
  <2>3. QED BY <1>2, <1>8, <2>1, <2>2, StageOne
<1>9. CASE StartingWrite
  <2>1. d.pc = "starting" /\ d.wrec.job = d.job
    BY <1>3, <1>9 DEF StartingWrite, At, Stage, InHand
  <2>2. PICK r : r = [d.wrec EXCEPT !.status = "starting"] OBVIOUS
  <2>3. r.status = "starting" /\ r.job = d.job BY <1>4, <2>1, <2>2 DEF WorkerRec
  <2>4. PutWorker(w, r) /\ d' = [d EXCEPT !.pc = "dispatching", !.wrec = r]
    BY <1>2, <1>9, <2>2 DEF StartingWrite
  <2>5. d'.pc = "dispatching" /\ d'.worker = w /\ d'.job = d.job /\ d'.wrec = r
    BY <1>0, <1>2, <2>4
  <2>6. QED BY <1>8, <1>9, <2>1, <2>3, <2>4, <2>5 DEF StartingWrite, PutWorker
<1>10. CASE ActiveWrite
  <2>1. d.pc = "active" /\ d.wrec.job = d.job
    BY <1>3, <1>10 DEF ActiveWrite, At, Stage, InHand
  <2>2. PICK r : r = [d.wrec EXCEPT !.status = "active", !.pid = TRUE] OBVIOUS
  <2>3. r.status = "active" /\ r.job = d.job BY <1>4, <2>1, <2>2 DEF WorkerRec
  <2>4. PutWorker(w, r) /\ d' = [d EXCEPT !.pc = "running"]
    BY <1>2, <1>10, <2>2 DEF ActiveWrite, Go
  <2>5. d'.pc = "running" /\ d'.worker = w /\ d'.job = d.job /\ d'.wrec = d.wrec
    BY <1>0, <1>2, <2>4
  <2>6. QED BY <1>8, <1>10, <2>1, <2>3, <2>4, <2>5 DEF ActiveWrite, PutWorker
<1>11. CASE StartFailed
  <2>1. d.pc = "startFailed" /\ d.wrec.job = d.job
    BY <1>3, <1>11 DEF StartFailed, At, Stage, InHand
  <2>2. PICK r : r = [d.wrec EXCEPT !.status = "failed"] OBVIOUS
  <2>3. r.status = "failed" /\ r.job = d.job BY <1>4, <2>1, <2>2 DEF WorkerRec
  <2>4. PutWorker(w, r) /\ d' = [d EXCEPT !.pc = "awaitAgg"]
    BY <1>2, <1>11, <2>2 DEF StartFailed, Go
  <2>5. d'.pc = "awaitAgg" /\ d'.worker = w /\ d'.job = d.job /\ d'.wrec = d.wrec
    BY <1>0, <1>2, <2>4
  <2>6. QED BY <1>8, <1>11, <2>1, <2>3, <2>4, <2>5 DEF StartFailed, PutWorker
<1>12. CASE DispatchingWrite \/ RunningWrite \/ CreateWorktree
  <2>1. /\ UNCHANGED <<workers, exit, rt>> /\ d'.worker = w /\ d'.job = d.job
        /\ d'.wrec = d.wrec
        /\ \/ d.pc = "dispatching" /\ d'.pc \in {"dispatching", "worktree", "failed"}
           \/ d.pc = "running" /\ d'.pc \in {"running", "register"}
           \/ d.pc = "worktree" /\ d'.pc \in {"spawn", "failed"}
    <3>1. CASE DispatchingWrite
      <4>1. CASE AdvanceSnap("dispatching", "worktree")
        <5>1. d'.pc \in {d.pc, "worktree"} /\ d'.job = d.job /\ d'.worker = d.worker
              /\ d'.wrec = d.wrec
          BY <1>1, <4>1, Advancing DEF Flow, PassPc
        <5>2. QED BY <1>2, <3>1, <5>1 DEF DispatchingWrite, At
      <4>2. CASE Go("failed") BY <1>0, <1>2, <3>1, <4>2 DEF DispatchingWrite, At, Go
      <4>3. QED BY <3>1, <4>1, <4>2 DEF DispatchingWrite
    <3>2. CASE RunningWrite
      <4>1. d'.pc \in {d.pc, "register"} /\ d'.job = d.job /\ d'.worker = d.worker
            /\ d'.wrec = d.wrec
        BY <1>1, <3>2, Advancing DEF RunningWrite, Flow, PassPc
      <4>2. QED BY <1>2, <3>2, <4>1 DEF RunningWrite, At
    <3>3. CASE CreateWorktree BY <1>0, <1>2, <3>3 DEF CreateWorktree, At, Go
    <3>4. QED BY <1>12, <3>1, <3>2, <3>3
  <2>2. Stage(w)' BY <1>3, <2>1 DEF Stage, InHand, Starting
  <2>3. QED BY <1>5, <2>1, <2>2
<1>13. CASE Spawn
  <2>1. /\ d'.worker = w /\ d'.job = d.job /\ d'.wrec = d.wrec /\ d.pc = "spawn"
        /\ UNCHANGED <<workers, exit>>
        /\ \/ d'.pc = "active" /\ rt' = [rt EXCEPT ![w].proc = "running"]
           \/ d'.pc = "startFailed" /\ UNCHANGED rt
    BY <1>0, <1>2, <1>13 DEF Spawn, At, Go
  <2>2. \A v \in Worker : v # w => rt'[v].proc = rt[v].proc BY <1>4, <2>1
  <2>3. Stage(w)' BY <1>3, <2>1 DEF Stage, InHand, Starting
  <2>4. QED BY <1>2, <2>1, <2>2, <2>3, StageOne
<1>14. CASE Register
  <2>1. /\ d'.pc = "loop" /\ d.pc = "register" /\ UNCHANGED workers
        /\ rt' = [rt EXCEPT ![w].handle = TRUE] /\ exit' = [exit EXCEPT ![w].pc = "registered"]
    BY <1>0, <1>2, <1>14 DEF Register, At
  <2>2. /\ \A v \in Worker : v # w => rt'[v].proc = rt[v].proc /\ exit'[v] = exit[v]
        /\ exit'[w].pc = "registered"
    BY <1>4, <2>1 DEF ExitRec
  <2>3. Stage(w)' BY <1>3, <2>1, <2>2 DEF Stage, InHand, Starting
  <2>4. QED BY <1>2, <2>1, <2>2, <2>3, StageOne DEF Starting
<1>15. QED BY <1>6, <1>7, <1>9, <1>10, <1>11, <1>12, <1>13, <1>14 DEF HeartbeatRejected, Unstopped

\* A child ends, and its exit handler runs.
LEMMA StageExit ==
  ASSUME JobInv, StageInv, NEW w \in Worker, ProcessExit(w) \/ Exiting(w)
  PROVE  \A v \in Worker : Stage(v)'
<1>0. /\ workers \in [Worker -> WorkerRec] /\ exit \in [Worker -> ExitRec]
      /\ rt \in [Worker -> ChildRec]
  BY DEF JobInv, TypeOK
<1>1. Stage(w) BY DEF StageInv
<1>2. UNCHANGED d
  BY DEF ProcessExit, Exiting, ExitRead, ExitFinishing, ExitTerminal, ExitRelease, sched
<1>3. ASSUME Stage(w)', \A v \in Worker : v # w =>
               workers'[v] = workers[v] /\ exit'[v] = exit[v] /\ rt'[v].proc = rt[v].proc
      PROVE  \A v \in Worker : Stage(v)'
  <2>1. ASSUME NEW v \in Worker, v # w PROVE Stage(v)'
    BY <1>2, <1>3, <2>1, StageKept DEF StageInv
  <2>2. QED BY <1>3, <2>1
<1> USE DEF store
<1>4. CASE ProcessExit(w)
  <2>1. PICK o \in Outcomes : rt' = [rt EXCEPT ![w].proc = o[1], ![w].file = o[2]]
    BY <1>4 DEF ProcessExit
  <2>2. o[1] \in ExitKind BY Bounds DEF Bounds
  <2>3. rt'[w].proc = o[1] /\ \A v \in Worker : v # w => rt'[v].proc = rt[v].proc
    BY <1>0, <2>1 DEF ChildRec
  <2>4. UNCHANGED <<workers, exit>> /\ rt[w].proc = "running"
    BY <1>4 DEF ProcessExit, tasks
  <2>5. Stage(w)' BY <1>1, <1>2, <2>2, <2>3, <2>4 DEF Stage, InHand, ExitKind
  <2>6. QED BY <1>3, <2>3, <2>4, <2>5
<1>5. CASE ExitRead(w)
  <2>1. /\ UNCHANGED workers /\ rt[w].proc # "running" /\ exit[w].pc = "registered"
        /\ workers[w].status = "active"
    BY <1>1, <1>5 DEF ExitRead, Stage
  <2>2. /\ exit' = [exit EXCEPT ![w] = [pc |-> "finishing", rec |-> workers[w]]]
        /\ UNCHANGED rt
    BY <1>5, <2>1 DEF ExitRead, TerminalWorker
  <2>3. PICK x : x = [pc |-> "finishing", rec |-> workers[w]] OBVIOUS
  <2>4. x.pc = "finishing" /\ x.rec = workers[w] BY <2>3
  <2>5. exit'[w] = x /\ \A v \in Worker : v # w => exit'[v] = exit[v] BY <1>0, <2>2, <2>3
  <2>6. Stage(w)' BY <1>1, <1>2, <2>1, <2>2, <2>4, <2>5 DEF Stage, InHand
  <2>7. QED BY <1>3, <2>1, <2>2, <2>5, <2>6
<1>6. CASE ExitFinishing(w)
  <2>1. PICK r : r = [exit[w].rec EXCEPT !.status = "finishing"] OBVIOUS
  <2>2. PICK x : x = [pc |-> "terminal", rec |-> r] OBVIOUS
  <2>3. /\ exit[w].pc = "finishing" /\ workers' = [workers EXCEPT ![w] = r]
        /\ exit' = [exit EXCEPT ![w] = x] /\ UNCHANGED rt
    BY <1>6, <2>1, <2>2 DEF ExitFinishing, PutWorker
  <2>4. exit[w].rec \in WorkerRec BY <1>0 DEF ExitRec
  <2>5. r.status = "finishing" /\ r.job = exit[w].rec.job BY <2>1, <2>4 DEF WorkerRec
  <2>6. x.pc = "terminal" /\ x.rec = r BY <2>2
  <2>7. /\ workers'[w] = r /\ exit'[w] = x
        /\ \A v \in Worker : v # w => workers'[v] = workers[v] /\ exit'[v] = exit[v]
    BY <1>0, <2>3
  <2>8. Stage(w)' BY <1>1, <1>2, <2>3, <2>5, <2>6, <2>7 DEF Stage, InHand
  <2>9. QED BY <1>3, <2>3, <2>7, <2>8
<1>7. CASE ExitTerminal(w)
  <2>1. PICK s : s = TerminalStatusOf(exit[w].rec, rt[w].proc) OBVIOUS
  <2>2. s \in TerminalWorker BY <2>1 DEF TerminalStatusOf, TerminalWorker
  <2>3. PICK r : r = [exit[w].rec EXCEPT !.status = s] OBVIOUS
  <2>4. /\ exit[w].pc = "terminal" /\ workers' = [workers EXCEPT ![w] = r]
        /\ exit' = [exit EXCEPT ![w].pc = "release"] /\ UNCHANGED rt
    BY <1>7, <2>1, <2>3 DEF ExitTerminal, PutWorker
  <2>5. exit[w].rec \in WorkerRec BY <1>0 DEF ExitRec
  <2>6. r.status = s /\ r.job = exit[w].rec.job BY <2>3, <2>5 DEF WorkerRec
  <2>7. /\ workers'[w] = r /\ exit'[w].pc = "release" /\ exit'[w].rec = exit[w].rec
        /\ \A v \in Worker : v # w => workers'[v] = workers[v] /\ exit'[v] = exit[v]
    BY <1>0, <2>4 DEF ExitRec
  <2>8. Stage(w)' BY <1>1, <1>2, <2>2, <2>4, <2>6, <2>7 DEF Stage, InHand, TerminalWorker
  <2>9. QED BY <1>3, <2>4, <2>7, <2>8
<1>8. CASE ExitRelease(w)
  <2>1. PICK x : x = [pc |-> "done", rec |-> NoWorkerRec] OBVIOUS
  <2>2. /\ exit[w].pc = "release" /\ UNCHANGED workers /\ exit' = [exit EXCEPT ![w] = x]
        /\ rt' = [rt EXCEPT ![w].handle = FALSE]
    BY <1>8, <2>1 DEF ExitRelease
  <2>3. x.pc = "done" BY <2>1
  <2>4. /\ exit'[w] = x /\ \A v \in Worker : v # w => exit'[v] = exit[v]
        /\ \A v \in Worker : rt'[v].proc = rt[v].proc
    BY <1>0, <2>2 DEF ChildRec
  <2>5. Stage(w)' BY <1>1, <1>2, <2>2, <2>3, <2>4 DEF Stage, InHand
  <2>6. QED BY <1>3, <2>2, <2>4, <2>5
<1>9. QED BY <1>4, <1>5, <1>6, <1>7, <1>8 DEF Exiting

\* Every step keeps every worker at a stage.
LEMMA StageNext ==
  ASSUME JobInv, StageInv, Unstopped, [Next]_vars
  PROVE  StageInv'
<1>1. Quiescent BY DEF StageInv
<1>2. /\ UNCHANGED <<cancel, stop>>
      /\ \/ Client \/ Pass \/ UNCHANGED vars
         \/ \E j \in Job : RetryTimer(j) \/ Aggregating(j)
         \/ \E w \in Worker : ProcessExit(w) \/ Exiting(w)
  BY <1>1, NoStops
<1>3. Quiescent' BY <1>1, <1>2 DEF Quiescent
<1>4. CASE UNCHANGED <<workers, exit, rt, d>> BY <1>3, <1>4, StageKept DEF StageInv
<1>5. CASE UNCHANGED vars BY <1>4, <1>5 DEF vars
<1>6. CASE Client \/ \E j \in Job : RetryTimer(j)
  BY <1>4, <1>6 DEF Client, Submit, RetryJob, RetryTimer, store, tasks
<1>7. CASE \E j \in Job : Aggregating(j)
  BY <1>4, <1>7
  DEF Aggregating, AggregateRead, AggregateAdvance, AggregateFinal, AggregateFail, store,
      tasks, sched
<1>8. CASE \E w \in Worker : ProcessExit(w) \/ Exiting(w)
  BY <1>3, <1>8, StageExit DEF StageInv
<1>9. CASE Pass
  BY <1>3, <1>9, StageIdle, StageCreate, StageStart DEF StageInv, Pass
<1>10. QED BY <1>2, <1>5, <1>6, <1>7, <1>8, <1>9

\* No worker exists at first.
LEMMA StageInit == Init => StageInv
<1> SUFFICES ASSUME Init PROVE StageInv OBVIOUS
<1>1. Quiescent BY DEF Init, Quiescent, IdleStop
<1>2. PICK r0 : r0 = NoWorkerRec OBVIOUS
<1>3. r0.status = "absent" BY <1>2 DEF NoWorkerRec
<1>4. workers = [w \in Worker |-> r0] /\ d = IdlePass BY <1>2 DEF Init
<1>5. d.pc \notin Starting BY <1>4, IdleFields DEF Starting
<1>6. ASSUME NEW w \in Worker PROVE Stage(w)
  <2>1. exit[w].pc = "none" /\ rt[w].proc = "none" BY DEF Init
  <2>2. QED BY <1>3, <1>4, <1>5, <2>1 DEF Stage, InHand
<1>7. QED BY <1>1, <1>6 DEF StageInv

\* Where nobody stops a worker, its record follows its process.
THEOREM StagesHold == ASSUME Unstopped PROVE Spec => []StageInv
<1>1. JobInv /\ StageInv /\ [Next]_vars => StageInv' BY StageNext
<1>2. QED BY Invariance, StageInit, <1>1, PTL DEF Spec

-----------------------------------------------------------------------------
(* The limits on running children *)

\* A pass that has found room, until it has counted the worker it starts.
Counting == {"create"} \cup (Starting \ {"startFailed"})

\* A running child is counted by the pass under way, or is the one it starts.
Counted(w) ==
  d.pc # "idle" /\ rt[w].proc = "running" =>
    InHand(w) \/ (w \in d.act /\ (WriteCapable => w \in d.wr))

LimitInv ==
  /\ \A w \in Worker : Counted(w)
  /\ d.pc \in Counting => CanDispatch /\ ~WriteConflict
  /\ CapacityRespected /\ WriteExclusion

\* What a pass that goes on has counted.
LEMMA PassCounts ==
  ASSUME JobInv, Pass
  PROVE  \/ BeginPass \/ d'.pc = "idle"
         \/ /\ Register /\ d'.pc = "loop" /\ d'.act = d.act \cup {d.worker}
            /\ d.wr \subseteq d'.wr /\ (WriteCapable => d.worker \in d'.wr)
         \/ /\ d.pc # "idle" /\ d'.act = d.act /\ d'.wr = d.wr
            /\ d'.pc \in Counting => d.pc \in Counting \/ WantsMore
<1>0. DOMAIN d = {"pc", "todo", "act", "wr", "job", "base", "started", "snap",
                  "worker", "wrec"}
  BY PassFields
<1> DEFINE Goes == /\ d.pc # "idle" /\ d'.act = d.act /\ d'.wr = d.wr
                   /\ d'.pc \in Counting => d.pc \in Counting \/ WantsMore
<1>1. CASE BeginPass BY <1>1
<1>2. ASSUME NEW j \in Job, DropJob(j) \/ SkipConflict(j) \/ TakeJob(j) PROVE Goes
  <2>1. CASE DropJob(j) \/ SkipConflict(j)
    <3>1. d' = [d EXCEPT !.todo = d.todo \ {j}] /\ d.pc = "visit"
      BY <2>1 DEF DropJob, SkipConflict, At
    <3>2. d'.pc = "visit" /\ d'.act = d.act /\ d'.wr = d.wr BY <1>0, <3>1
    <3>3. QED BY <3>1, <3>2 DEF Counting, Starting
  <2>2. CASE TakeJob(j)
    <3>1. d'.pc = "prepare" /\ d'.act = d.act /\ d'.wr = d.wr BY <1>0, <2>2 DEF TakeJob
    <3>2. QED BY <2>2, <3>1 DEF TakeJob, At, Counting, Starting
  <2>3. QED BY <1>2, <2>1, <2>2
<1>3. CASE EndPass \/ \E j \in Job : AtCapacity(j)
  BY <1>3, IdleFields DEF EndPass, AtCapacity
<1>4. CASE Prepare \/ AfterLoop
  BY <1>0, <1>4 DEF Prepare, AfterLoop, At, Counting, Starting
<1>5. CASE LoopTest BY <1>0, <1>5 DEF LoopTest, At, Go, Counting, Starting
<1>6. CASE CreateWorker
  <2>1. PICK w : d' = [d EXCEPT !.pc = "link", !.worker = w] BY <1>6 DEF CreateWorker
  <2>2. QED BY <1>0, <1>6, <2>1 DEF CreateWorker, At, Counting, Starting
<1>7. CASE LinkWorker \/ CreateWorktree \/ Spawn
  BY <1>0, <1>7 DEF LinkWorker, CreateWorktree, Spawn, At, Go, Counting, Starting
<1>8. CASE StartRead
  <2>1. PICK s, r, pc : d' = [d EXCEPT !.snap = s, !.wrec = r, !.pc = pc] BY <1>8 DEF StartRead
  <2>2. QED BY <1>0, <1>8, <2>1 DEF StartRead, At, Counting, Starting
<1>9. CASE StartingWrite
  <2>1. PICK r : d' = [d EXCEPT !.pc = "dispatching", !.wrec = r] BY <1>9 DEF StartingWrite
  <2>2. QED BY <1>0, <1>9, <2>1 DEF StartingWrite, At, Counting, Starting
<1>10. CASE ActiveWrite BY <1>0, <1>10 DEF ActiveWrite, At, Go, Counting, Starting
<1>11. CASE DispatchingWrite \/ RunningWrite
  <2>1. \/ \E r : d' = [d EXCEPT !.snap = r]
        \/ Go("worktree") \/ Go("register") \/ Go("failed")
    BY <1>11 DEF DispatchingWrite, RunningWrite, AdvanceSnap
  <2>2. d'.act = d.act /\ d'.wr = d.wr BY <1>0, <2>1 DEF Go
  <2>3. d.pc \in Counting BY <1>11 DEF DispatchingWrite, RunningWrite, At, Counting, Starting
  <2>4. d.pc # "idle" BY <1>11 DEF DispatchingWrite, RunningWrite, At
  <2>5. QED BY <2>2, <2>3, <2>4
<1>12. CASE Register
  <2>1. d' = [d EXCEPT !.pc = "loop", !.started = d.started + 1, !.act = d.act \cup {d.worker},
                !.wr = IF WriteCapable THEN d.wr \cup {d.worker} ELSE d.wr,
                !.snap = NoJobRec, !.worker = NoWorker, !.wrec = NoWorkerRec]
    BY <1>12 DEF Register
  <2>2. QED BY <1>0, <1>12, <2>1
<1>13. CASE HeartbeatRejected \/ AwaitAggregation
  BY <1>0, <1>13 DEF HeartbeatRejected, AwaitAggregation, At, Go, Counting, Starting
<1>14. CASE StartFailed BY <1>0, <1>14 DEF StartFailed, At, Go, Counting, Starting
<1>15. CASE FailureRead
  <2>1. \/ d' = IdlePass \/ d' = [d EXCEPT !.pc = "after"]
        \/ d' = [d EXCEPT !.pc = "retry", !.snap = jobs[d.job]]
        \/ d' = [d EXCEPT !.pc = "failWrite", !.snap = jobs[d.job]]
    BY <1>15 DEF FailureRead, Go
  <2>2. QED BY <1>0, <1>15, <2>1, IdleFields DEF FailureRead, At, Counting, Starting
<1>16. CASE FailureWrite
  <2>1. PICK r, pc : /\ d' = [d EXCEPT !.snap = r, !.pc = pc]
                     /\ pc \in {"retry", "after"}
    BY <1>16 DEF FailureWrite
  <2>2. QED BY <1>0, <1>16, <2>1 DEF FailureWrite, At, Counting, Starting
<1>17. CASE CreateRetry BY <1>0, <1>17 DEF CreateRetry, At, Go, Counting, Starting
<1>18. QED
  BY <1>1, <1>2, <1>3, <1>4, <1>5, <1>6, <1>7, <1>8, <1>9, <1>10, <1>11, <1>12, <1>13,
     <1>14, <1>15, <1>16, <1>17
  DEF Pass

Running == {w \in Worker : rt[w].proc = "running"}

\* A worker that is running and not in hand is busy in the store.
LEMMA RunningIsActive ==
  ASSUME JobInv, StageInv, NEW w \in Worker, rt[w].proc = "running", ~InHand(w)
  PROVE  workers[w].status = "active"
<1>1. Stage(w) BY DEF StageInv
<1>2. exit[w].pc \in {"none", "registered", "finishing", "terminal", "release", "done"}
  BY DEF JobInv, TypeOK, ExitRec
<1>3. QED BY <1>1, <1>2 DEF Stage

\* A child more is running only after Spawn.
LEMMA RunningSteps ==
  ASSUME JobInv, [Next]_vars
  PROVE  Spawn \/ (Running' \subseteq Running)
<1>0. rt \in [Worker -> ChildRec] BY DEF JobInv, TypeOK
<1>1. CASE UNCHANGED <<rt, exit>> BY <1>1 DEF Running
<1>2. CASE Register
  <2>1. rt' = [rt EXCEPT ![d.worker].handle = TRUE] BY <1>2 DEF Register
  <2>2. \A w \in Worker : rt'[w].proc = rt[w].proc BY <1>0, <2>1 DEF ChildRec
  <2>3. QED BY <2>2 DEF Running
<1>3. ASSUME NEW w \in Worker, ProcessExit(w) PROVE Running' \subseteq Running
  <2>1. PICK o \in Outcomes : rt' = [rt EXCEPT ![w].proc = o[1], ![w].file = o[2]]
    BY <1>3 DEF ProcessExit
  <2>2. \A v \in Worker : v # w => rt'[v] = rt[v] BY <1>0, <2>1
  <2>3. rt[w].proc = "running" BY <1>3 DEF ProcessExit
  <2>4. QED BY <2>2, <2>3 DEF Running
<1>4. ASSUME NEW w \in Worker, Exiting(w) PROVE Running' \subseteq Running
  <2>1. UNCHANGED rt \/ rt' = [rt EXCEPT ![w].handle = FALSE]
    BY <1>4 DEF Exiting, ExitRead, ExitFinishing, ExitTerminal, ExitRelease
  <2>2. \A v \in Worker : rt'[v].proc = rt[v].proc BY <1>0, <2>1 DEF ChildRec
  <2>3. QED BY <2>2 DEF Running
<1>5. QED BY <1>1, <1>2, <1>3, <1>4, ChildSteps

\* Every running child is counted, after every step.
LEMMA CountedNext ==
  ASSUME JobInv, StageInv, Unstopped, LimitInv, [Next]_vars, NEW w \in Worker
  PROVE  Counted(w)'
<1> SUFFICES ASSUME d'.pc # "idle", rt'[w].proc = "running"
             PROVE  InHand(w)' \/ (w \in d'.act /\ (WriteCapable => w \in d'.wr))
  BY DEF Counted
<1>0. /\ \/ Client \/ Pass \/ UNCHANGED vars
         \/ \E j \in Job : RetryTimer(j) \/ Aggregating(j)
         \/ \E x \in Worker : ProcessExit(x) \/ Exiting(x)
      /\ Counted(w)
  BY NoStops DEF StageInv, LimitInv
<1>1. CASE Spawn /\ d.worker = w
  <2>1. d.worker = w /\ d.pc = "spawn" BY <1>1 DEF Spawn, At
  <2>2. rt[w].proc # "running" BY <2>1 DEF StageInv, Stage, InHand, Starting
  <2>3. Go("active") BY <1>1, <2>2 DEF Spawn
  <2>4. InHand(w)' BY <2>1, <2>3, PassFields DEF Go, InHand, Starting
  <2>5. QED BY <2>4
<1>2. CASE ~(Spawn /\ d.worker = w)
  <2>1. rt[w].proc = "running"
    <3>1. CASE Spawn
      <4>1. rt \in [Worker -> ChildRec] BY DEF JobInv, TypeOK
      <4>2. QED BY <1>2, <3>1, <4>1 DEF Spawn
    <3>2. CASE Running' \subseteq Running BY <3>2 DEF Running
    <3>3. QED BY <3>1, <3>2, RunningSteps
  <2>2. CASE UNCHANGED d BY <1>0, <2>1, <2>2 DEF Counted, InHand
  <2>3. CASE BeginPass
    <3>1. workers[w].status = "active"
      <4>1. d.pc = "idle" BY <2>3 DEF BeginPass, At
      <4>2. ~InHand(w) BY <4>1 DEF InHand, Starting
      <4>3. QED BY <2>1, <4>2, RunningIsActive
    <3>2. PICK busy : busy = {x \in Worker : workers[x].status \in Schedulable} OBVIOUS
    <3>3. PICK wr : wr = {x \in busy : WriteCapable /\ workers[x].status \in WriteActive} OBVIOUS
    <3>4. d' = [IdlePass EXCEPT !.pc = "visit", !.todo = queue, !.act = busy, !.wr = wr]
      BY <2>3, <3>2, <3>3 DEF BeginPass
    <3>5. d'.act = busy /\ d'.wr = wr BY <3>4, IdleFields
    <3>6. QED BY <3>1, <3>2, <3>3, <3>5 DEF Schedulable, WriteActive
  <2>4. CASE Pass /\ ~BeginPass
    <3>1. CASE d.worker = w /\ d.pc \in {"active", "running", "register"}
      <4>1. \/ d'.worker = d.worker /\ d'.pc \in {"active", "running", "register"}
            \/ Register
        BY <3>1, HoldsSpawned DEF Unstopped
      <4>2. CASE Register
        <5>1. d' = [d EXCEPT !.pc = "loop", !.started = d.started + 1,
                      !.act = d.act \cup {d.worker},
                      !.wr = IF WriteCapable THEN d.wr \cup {d.worker} ELSE d.wr,
                      !.snap = NoJobRec, !.worker = NoWorker, !.wrec = NoWorkerRec]
          BY <4>2 DEF Register
        <5>2. /\ d'.act = d.act \cup {d.worker}
              /\ d'.wr = IF WriteCapable THEN d.wr \cup {d.worker} ELSE d.wr
          BY <5>1, PassFields
        <5>3. QED BY <3>1, <5>2
      <4>3. QED BY <3>1, <4>1, <4>2 DEF InHand, Starting
    <3>2. CASE ~(d.worker = w /\ d.pc \in {"active", "running", "register"})
      <4>1. ~InHand(w) BY <2>1, <3>2 DEF StageInv, Stage, InHand, Starting
      <4>2. \/ /\ d'.act = d.act \cup {d.worker} /\ d.wr \subseteq d'.wr /\ Register
            \/ d.pc # "idle" /\ d'.act = d.act /\ d'.wr = d.wr
        BY <2>4, PassCounts
      <4>3. d.pc # "idle" BY <4>2 DEF Register, At
      <4>4. w \in d.act /\ (WriteCapable => w \in d.wr) BY <1>0, <2>1, <4>1, <4>3 DEF Counted
      <4>5. QED BY <4>2, <4>4
    <3>3. QED BY <3>1, <3>2
  <2>5. QED
    BY <1>0, <2>2, <2>3, <2>4
    DEF vars, Client, Submit, RetryJob, RetryTimer, Aggregating, AggregateRead,
        AggregateAdvance, AggregateFinal, AggregateFail, ProcessExit, Exiting, ExitRead,
        ExitFinishing, ExitTerminal, ExitRelease, sched
<1>3. QED BY <1>1, <1>2

\* The pass goes on only with the room it has found.
LEMMA RoomNext ==
  ASSUME JobInv, StageInv, Unstopped, LimitInv, [Next]_vars, d'.pc \in Counting
  PROVE  (CanDispatch /\ ~WriteConflict)'
<1>0. \/ Client \/ Pass \/ UNCHANGED vars
      \/ \E j \in Job : RetryTimer(j) \/ Aggregating(j)
      \/ \E x \in Worker : ProcessExit(x) \/ Exiting(x)
  BY NoStops DEF StageInv
<1>1. CASE UNCHANGED d BY <1>1 DEF LimitInv, CanDispatch, WriteConflict
<1>2. CASE Pass
  <2>1. CASE BeginPass
    <3>1. PICK q, a, r : d' = [IdlePass EXCEPT !.pc = "visit", !.todo = q, !.act = a, !.wr = r]
      BY <2>1 DEF BeginPass
    <3>2. d'.pc = "visit" BY <3>1, IdleFields
    <3>3. QED BY <3>2 DEF Counting, Starting
  <2>2. CASE d'.pc = "idle" \/ d'.pc = "loop" BY <2>2 DEF Counting, Starting
  <2>3. CASE /\ d'.act = d.act /\ d'.wr = d.wr
             /\ d'.pc \in Counting => d.pc \in Counting \/ WantsMore
    BY <2>3 DEF LimitInv, CanDispatch, WriteConflict, WantsMore
  <2>4. QED BY <1>2, <2>1, <2>2, <2>3, PassCounts
<1>3. QED
  BY <1>0, <1>1, <1>2
  DEF vars, Client, Submit, RetryJob, RetryTimer, Aggregating, AggregateRead,
      AggregateAdvance, AggregateFinal, AggregateFail, ProcessExit, Exiting, ExitRead,
      ExitFinishing, ExitTerminal, ExitRelease, sched

\* A spawn finds room for one child more.
LEMMA RoomAtSpawn ==
  ASSUME JobInv, StageInv, Unstopped, LimitInv, Spawn
  PROVE  (CapacityRespected /\ WriteExclusion)'
<1>0. /\ rt \in [Worker -> ChildRec] /\ d.act \in SUBSET Worker /\ d.wr \in SUBSET Worker
      /\ d.pc = "spawn" /\ d.worker \in Worker
  BY DEF JobInv, TypeOK, PassRec, PassHolds, Spawn, At, Starting
<1>1. /\ IsFiniteSet(Worker) /\ MaxActiveWorkers \in Nat /\ MaxWriteWorkersPerRepo \in Nat
  BY Bounds DEF Bounds
<1>2. Running' \subseteq Running \cup {d.worker} BY <1>0 DEF Spawn, Running
<1>3. d.worker \notin Running BY <1>0 DEF StageInv, Stage, InHand, Starting, Running
<1>4. \A w \in Running : w \in d.act /\ (WriteCapable => w \in d.wr)
  BY <1>0, <1>3 DEF LimitInv, Counted, Running, InHand
<1>5. ASSUME NEW S \in SUBSET Worker, Running \subseteq S, NEW n \in Nat, Cardinality(S) < n
      PROVE  Cardinality(Running') <= n
  <2>1. IsFiniteSet(S) /\ Cardinality(S) \in Nat BY <1>1, FS_Subset, FS_CardinalityType
  <2>2. IsFiniteSet(Running) /\ Cardinality(Running) <= Cardinality(S)
    BY <1>5, <2>1, FS_Subset
  <2>3. /\ IsFiniteSet(Running \cup {d.worker})
        /\ Cardinality(Running \cup {d.worker}) = Cardinality(Running) + 1
    BY <1>3, <2>2, FS_AddElement
  <2>4. Cardinality(Running') <= Cardinality(Running \cup {d.worker}) /\ IsFiniteSet(Running')
    BY <1>2, <2>3, FS_Subset
  <2>5. Cardinality(Running) \in Nat /\ Cardinality(Running') \in Nat
    BY <2>2, <2>4, FS_CardinalityType
  <2>6. QED BY <1>5, <2>1, <2>2, <2>3, <2>4, <2>5
<1>6. CanDispatch /\ ~WriteConflict BY <1>0 DEF LimitInv, Counting, Starting
<1>7. CapacityRespected'
  <2>1. Cardinality(d.act) < MaxActiveWorkers BY <1>6 DEF CanDispatch
  <2>2. Running \subseteq d.act BY <1>4
  <2>3. Cardinality(Running') <= MaxActiveWorkers BY <1>0, <1>1, <1>5, <2>1, <2>2
  <2>4. QED BY <2>3 DEF CapacityRespected, Running
<1>8. WriteExclusion'
  <2> SUFFICES ASSUME WriteCapable PROVE Cardinality(Running') <= MaxWriteWorkersPerRepo
    BY DEF WriteExclusion, Running
  <2>1. IsFiniteSet(d.wr) BY <1>0, <1>1, FS_Subset
  <2>2. Cardinality(d.wr) \in Nat BY <2>1, FS_CardinalityType
  <2>3. Cardinality(d.wr) < MaxWriteWorkersPerRepo BY <1>1, <1>6, <2>2 DEF WriteConflict
  <2>4. Running \subseteq d.wr BY <1>4
  <2>5. QED BY <1>0, <1>1, <1>5, <2>3, <2>4
<1>9. QED BY <1>7, <1>8

\* Every step keeps within the limits.
LEMMA LimitNext ==
  ASSUME JobInv, StageInv, Unstopped, LimitInv, [Next]_vars
  PROVE  LimitInv'
<1>1. CapacityRespected' /\ WriteExclusion'
  <2>1. CASE Spawn BY <2>1, RoomAtSpawn
  <2>2. CASE Running' \subseteq Running
    <3>1. /\ IsFiniteSet(Worker) /\ MaxActiveWorkers \in Nat /\ MaxWriteWorkersPerRepo \in Nat
      BY Bounds DEF Bounds
    <3>2. IsFiniteSet(Running) BY <3>1, FS_Subset DEF Running
    <3>3. IsFiniteSet(Running') /\ Cardinality(Running') <= Cardinality(Running)
      BY <2>2, <3>2, FS_Subset
    <3>4. Cardinality(Running) \in Nat /\ Cardinality(Running') \in Nat
      BY <3>2, <3>3, FS_CardinalityType
    <3>5. /\ Cardinality(Running) <= MaxActiveWorkers
          /\ WriteCapable => Cardinality(Running) <= MaxWriteWorkersPerRepo
      BY DEF LimitInv, CapacityRespected, WriteExclusion, Running
    <3>6. /\ Cardinality(Running') <= MaxActiveWorkers
          /\ WriteCapable => Cardinality(Running') <= MaxWriteWorkersPerRepo
      BY <3>1, <3>3, <3>4, <3>5
    <3>7. QED BY <3>6 DEF CapacityRespected, WriteExclusion, Running
  <2>3. QED BY <2>1, <2>2, RunningSteps
<1>2. QED BY <1>1, CountedNext, RoomNext DEF LimitInv

\* Nothing runs at first.
LEMMA LimitInit == Init => LimitInv
<1> SUFFICES ASSUME Init PROVE LimitInv OBVIOUS
<1>1. d.pc = "idle" BY IdleFields DEF Init
<1>2. Running = {} BY DEF Init, Running
<1>3. Cardinality(Running) = 0 BY <1>2, FS_EmptySet
<1>4. CapacityRespected /\ WriteExclusion
  BY <1>3, Bounds DEF Bounds, CapacityRespected, WriteExclusion, Running
<1>5. QED BY <1>1, <1>4 DEF LimitInv, Counted, Counting, Starting

LEMMA LimitsHold == ASSUME Unstopped PROVE Spec => []LimitInv
<1>1. JobInv /\ StageInv /\ LimitInv /\ [Next]_vars => LimitInv' BY LimitNext
<1>2. QED BY Invariance, StagesHold, LimitInit, <1>1, PTL DEF Spec

\* Where nobody stops a worker, never more children run than maxActiveWorkers.
THEOREM CapacityKept == ASSUME Unstopped PROVE Spec => []CapacityRespected
<1>1. LimitInv => CapacityRespected BY DEF LimitInv
<1>2. QED BY LimitsHold, <1>1, PTL

\* Nor, in one repository, more write-capable children than its limit.
THEOREM WritersKept == ASSUME Unstopped PROVE Spec => []WriteExclusion
<1>1. LimitInv => WriteExclusion BY DEF LimitInv
<1>2. QED BY LimitsHold, <1>1, PTL

-----------------------------------------------------------------------------
(* The job in hand *)

\* What a step of the pass leaves in its hands.
Moves(pc, todo, job, snap, w) ==
  d'.pc = pc /\ d'.todo = todo /\ d'.job = job /\ d'.snap = snap /\ d'.worker = w

\* The step writes one job record, with this status and these workers.
Wrote(j, status, ids) ==
  /\ j \in Job /\ jobs'[j].status = status /\ jobs'[j].workerIds = ids
  /\ \A k \in Job \ {j} : jobs'[k] = jobs[k]

\* A record put into the store is the one found there, and the only change.
LEMMA PutWrote ==
  ASSUME TypeOK, NEW j \in Job, NEW r, PutJob(j, r)
  PROVE  Wrote(j, r.status, r.workerIds) /\ jobs'[j] = r
BY DEF TypeOK, PutJob, Wrote

\* A pass begins, ends and picks a job.
LEMMA MovesVisit ==
  ASSUME JobInv
  PROVE  /\ BeginPass => d.pc = "idle" /\ Moves("visit", queue, NoJob, NoJobRec, NoWorker)
         /\ EndPass => d.pc = "visit" /\ Moves("idle", {}, NoJob, NoJobRec, NoWorker)
         /\ AfterLoop => d.pc = "after" /\ Moves("visit", d.todo, NoJob, NoJobRec, NoWorker)
         /\ \A j \in Job :
              /\ AtCapacity(j) => d.pc = "visit" /\ Moves("idle", {}, NoJob, NoJobRec, NoWorker)
              /\ DropJob(j) \/ SkipConflict(j)
                   => d.pc = "visit" /\ Moves("visit", d.todo \ {j}, d.job, d.snap, d.worker)
              /\ TakeJob(j)
                   => d.pc = "visit" /\ Moves("prepare", d.todo \ {j}, j, jobs[j], d.worker)
<1>0. DOMAIN d = {"pc", "todo", "act", "wr", "job", "base", "started", "snap",
                  "worker", "wrec"}
  BY PassFields
<1>1. /\ IdlePass.pc = "idle" /\ IdlePass.todo = {} /\ IdlePass.job = NoJob
      /\ IdlePass.snap = NoJobRec /\ IdlePass.worker = NoWorker
  BY DEF IdlePass
<1>2. ASSUME BeginPass
      PROVE  d.pc = "idle" /\ Moves("visit", queue, NoJob, NoJobRec, NoWorker)
  <2>1. PICK a, r : d' = [IdlePass EXCEPT !.pc = "visit", !.todo = queue, !.act = a, !.wr = r]
    BY <1>2 DEF BeginPass
  <2>2. QED BY <1>1, <1>2, <2>1, IdleFields DEF BeginPass, At, Moves
<1>3. ASSUME EndPass \/ \E j \in Job : AtCapacity(j)
      PROVE  d.pc = "visit" /\ Moves("idle", {}, NoJob, NoJobRec, NoWorker)
  BY <1>1, <1>3 DEF EndPass, AtCapacity, At, Moves
<1>4. ASSUME NEW j \in Job, DropJob(j) \/ SkipConflict(j)
      PROVE  d.pc = "visit" /\ Moves("visit", d.todo \ {j}, d.job, d.snap, d.worker)
  BY <1>0, <1>4 DEF DropJob, SkipConflict, At, Moves
<1>5. ASSUME NEW j \in Job, TakeJob(j)
      PROVE  d.pc = "visit" /\ Moves("prepare", d.todo \ {j}, j, jobs[j], d.worker)
  BY <1>0, <1>5 DEF TakeJob, At, Moves
<1>6. ASSUME AfterLoop
      PROVE  d.pc = "after" /\ Moves("visit", d.todo, NoJob, NoJobRec, NoWorker)
  BY <1>0, <1>6 DEF AfterLoop, At, Moves
<1>7. QED BY <1>2, <1>3, <1>4, <1>5, <1>6

\* It prepares the job and creates a worker for it.
LEMMA MovesCreate ==
  ASSUME JobInv
  PROVE  /\ Prepare =>
              /\ d.pc = "prepare" /\ Moves("loop", d.todo, d.job, NoJobRec, d.worker)
              /\ \/ Past(d.snap.status, "preparing") /\ UNCHANGED jobs
                 \/ Wrote(d.job, "preparing", d.snap.workerIds)
         /\ LoopTest =>
              /\ d.pc = "loop"
              /\ \/ Moves("create", d.todo, d.job, jobs[d.job], d.worker)
                 \/ Moves("after", d.todo, d.job, d.snap, d.worker)
         /\ CreateWorker =>
              /\ d.pc = "create"
              /\ \E w \in FreshWorker : Moves("link", d.todo, d.job, d.snap, w)
         /\ LinkWorker =>
              /\ d.pc = "link" /\ Moves("start", d.todo, d.job, d.snap, d.worker)
              /\ Wrote(d.job, d.snap.status, d.snap.workerIds \cup {d.worker})
<1>0. DOMAIN d = {"pc", "todo", "act", "wr", "job", "base", "started", "snap",
                  "worker", "wrec"}
  BY PassFields
<1>1. d.snap \in JobRec /\ TypeOK BY DEF JobInv, TypeOK, PassRec
<1>2. ASSUME Prepare
      PROVE  /\ d.pc = "prepare" /\ Moves("loop", d.todo, d.job, NoJobRec, d.worker)
             /\ \/ Past(d.snap.status, "preparing") /\ UNCHANGED jobs
                \/ Wrote(d.job, "preparing", d.snap.workerIds)
  <2>1. d.pc = "prepare" /\ Moves("loop", d.todo, d.job, NoJobRec, d.worker)
    BY <1>0, <1>2 DEF Prepare, At, Moves
  <2>2. CASE Past(d.snap.status, "preparing") /\ UNCHANGED jobs BY <2>1, <2>2
  <2>3. CASE PutJob(d.job, [d.snap EXCEPT !.status = "preparing"])
    <3>1. PICK r : r = [d.snap EXCEPT !.status = "preparing"] OBVIOUS
    <3>2. r.status = "preparing" /\ r.workerIds = d.snap.workerIds
      BY <1>1, <3>1 DEF JobRec
    <3>3. d.job \in Job BY <2>1 DEF JobInv, PassHolds
    <3>4. PutJob(d.job, r) BY <2>3, <3>1
    <3>5. Wrote(d.job, r.status, r.workerIds) BY <1>1, <3>3, <3>4, PutWrote
    <3>6. QED BY <2>1, <3>2, <3>5
  <2>4. QED BY <1>2, <2>2, <2>3 DEF Prepare
<1>3. ASSUME LoopTest
      PROVE  /\ d.pc = "loop"
             /\ \/ Moves("create", d.todo, d.job, jobs[d.job], d.worker)
                \/ Moves("after", d.todo, d.job, d.snap, d.worker)
  BY <1>0, <1>3 DEF LoopTest, Go, At, Moves
<1>4. ASSUME CreateWorker
      PROVE  d.pc = "create" /\ \E w \in FreshWorker : Moves("link", d.todo, d.job, d.snap, w)
  <2>1. PICK w \in FreshWorker : d' = [d EXCEPT !.pc = "link", !.worker = w]
    BY <1>4 DEF CreateWorker
  <2>2. Moves("link", d.todo, d.job, d.snap, w) BY <1>0, <2>1 DEF Moves
  <2>3. QED BY <1>4, <2>2 DEF CreateWorker, At
<1>5. ASSUME LinkWorker
      PROVE  /\ d.pc = "link" /\ Moves("start", d.todo, d.job, d.snap, d.worker)
             /\ Wrote(d.job, d.snap.status, d.snap.workerIds \cup {d.worker})
  <2>1. d.pc = "link" /\ Moves("start", d.todo, d.job, d.snap, d.worker)
    BY <1>0, <1>5 DEF LinkWorker, Go, At, Moves
  <2>2. PICK r : r = [d.snap EXCEPT !.workerIds = d.snap.workerIds \cup {d.worker}] OBVIOUS
  <2>3. r.status = d.snap.status /\ r.workerIds = d.snap.workerIds \cup {d.worker}
    BY <1>1, <2>2 DEF JobRec
  <2>4. d.job \in Job BY <2>1 DEF JobInv, PassHolds
  <2>5. PutJob(d.job, r) BY <1>5, <2>2 DEF LinkWorker
  <2>6. Wrote(d.job, r.status, r.workerIds) BY <1>1, <2>4, <2>5, PutWrote
  <2>7. QED BY <2>1, <2>3, <2>6
<1>6. QED BY <1>2, <1>3, <1>4, <1>5

\* A step of #advanceJobToStatus.
LEMMA MovesAdvance ==
  ASSUME JobInv, d.job \in Job, NEW t, NEW next, AdvanceSnap(t, next)
  PROVE  \/ /\ Past(d.snap.status, t) /\ UNCHANGED jobs
            /\ Moves(next, d.todo, d.job, d.snap, d.worker)
         \/ /\ ~Past(d.snap.status, t) /\ ~AdvanceThrows(d.snap.status, t)
            /\ Wrote(d.job, NextStatus(d.snap.status, t), d.snap.workerIds)
            /\ Moves(d.pc, d.todo, d.job, jobs'[d.job], d.worker)
<1>0. DOMAIN d = {"pc", "todo", "act", "wr", "job", "base", "started", "snap",
                  "worker", "wrec"}
  BY PassFields
<1>1. d.snap \in JobRec /\ TypeOK BY DEF JobInv, TypeOK, PassRec
<1>2. CASE Past(d.snap.status, t) /\ Go(next) /\ UNCHANGED jobs
  BY <1>0, <1>2 DEF Go, Moves
<1>3. CASE ~Past(d.snap.status, t) /\ ~AdvanceThrows(d.snap.status, t)
  <2>1. PICK r : r = [d.snap EXCEPT !.status = NextStatus(d.snap.status, t)] OBVIOUS
  <2>2. r.status = NextStatus(d.snap.status, t) /\ r.workerIds = d.snap.workerIds
    BY <1>1, <2>1 DEF JobRec
  <2>3. PutJob(d.job, r) /\ d' = [d EXCEPT !.snap = r] BY <1>3, <2>1 DEF AdvanceSnap
  <2>4. Wrote(d.job, r.status, r.workerIds) /\ jobs'[d.job] = r BY <1>1, <2>3, PutWrote
  <2>5. Moves(d.pc, d.todo, d.job, r, d.worker) BY <1>0, <2>3 DEF Moves
  <2>6. QED BY <1>3, <2>2, <2>4, <2>5
<1>4. QED BY <1>2, <1>3 DEF AdvanceSnap

\* It starts the worker.
LEMMA MovesStart ==
  ASSUME JobInv, StageInv, Unstopped
  PROVE  /\ StartRead =>
              d.pc = "start" /\ Moves("starting", d.todo, d.job, jobs[d.job], d.worker)
         /\ StartingWrite =>
              d.pc = "starting" /\ Moves("dispatching", d.todo, d.job, d.snap, d.worker)
         /\ CreateWorktree =>
              /\ d.pc = "worktree"
              /\ \/ Moves("spawn", d.todo, d.job, d.snap, d.worker)
                 \/ /\ WriteCapable /\ "worktree" \in Faults
                    /\ Moves("failed", d.todo, d.job, d.snap, d.worker)
         /\ Spawn =>
              /\ d.pc = "spawn"
              /\ \/ Moves("active", d.todo, d.job, d.snap, d.worker)
                 \/ Moves("startFailed", d.todo, d.job, d.snap, d.worker)
         /\ ActiveWrite => d.pc = "active" /\ Moves("running", d.todo, d.job, d.snap, d.worker)
         /\ Register => d.pc = "register" /\ Moves("loop", d.todo, d.job, NoJobRec, NoWorker)
         /\ ~HeartbeatRejected
<1>0. DOMAIN d = {"pc", "todo", "act", "wr", "job", "base", "started", "snap",
                  "worker", "wrec"}
  BY PassFields
<1>1. ASSUME StartRead
      PROVE  d.pc = "start" /\ Moves("starting", d.todo, d.job, jobs[d.job], d.worker)
  <2>1. d.pc = "start" /\ d.worker \in Worker
    BY <1>1 DEF StartRead, At, JobInv, PassHolds, Starting
  <2>2. workers[d.worker].status = "created" BY <2>1 DEF StageInv, Stage, InHand, Starting
  <2>3. d' = [d EXCEPT !.snap = jobs[d.job], !.wrec = workers[d.worker], !.pc = "starting"]
    BY <1>1, <2>2 DEF StartRead, ValidWorker, WorkerTransitions
  <2>4. QED BY <1>0, <2>1, <2>3 DEF Moves
<1>2. ASSUME StartingWrite
      PROVE  d.pc = "starting" /\ Moves("dispatching", d.todo, d.job, d.snap, d.worker)
  <2>1. PICK r : d' = [d EXCEPT !.pc = "dispatching", !.wrec = r] BY <1>2 DEF StartingWrite
  <2>2. QED BY <1>0, <1>2, <2>1 DEF StartingWrite, At, Moves
<1>3. ASSUME CreateWorktree
      PROVE  /\ d.pc = "worktree"
             /\ \/ Moves("spawn", d.todo, d.job, d.snap, d.worker)
                \/ /\ WriteCapable /\ "worktree" \in Faults
                   /\ Moves("failed", d.todo, d.job, d.snap, d.worker)
  BY <1>0, <1>3 DEF CreateWorktree, At, Go, Moves
<1>4. ASSUME Spawn
      PROVE  /\ d.pc = "spawn"
             /\ \/ Moves("active", d.todo, d.job, d.snap, d.worker)
                \/ Moves("startFailed", d.todo, d.job, d.snap, d.worker)
  BY <1>0, <1>4 DEF Spawn, At, Go, Moves
<1>5. ASSUME ActiveWrite
      PROVE  d.pc = "active" /\ Moves("running", d.todo, d.job, d.snap, d.worker)
  BY <1>0, <1>5 DEF ActiveWrite, At, Go, Moves
<1>6. ASSUME Register
      PROVE  d.pc = "register" /\ Moves("loop", d.todo, d.job, NoJobRec, NoWorker)
  <2>1. d' = [d EXCEPT !.pc = "loop", !.started = d.started + 1, !.act = d.act \cup {d.worker},
                !.wr = IF WriteCapable THEN d.wr \cup {d.worker} ELSE d.wr,
                !.snap = NoJobRec, !.worker = NoWorker, !.wrec = NoWorkerRec]
    BY <1>6 DEF Register
  <2>2. QED BY <1>0, <1>6, <2>1 DEF Register, At, Moves
<1>7. ~HeartbeatRejected BY DEF HeartbeatRejected, Unstopped
<1>8. QED BY <1>1, <1>2, <1>3, <1>4, <1>5, <1>6, <1>7

\* It moves the job on, or finds it ended.
LEMMA MovesOn ==
  ASSUME JobInv
  PROVE  /\ DispatchingWrite =>
              /\ d.pc = "dispatching"
              /\ \/ /\ Past(d.snap.status, "dispatching") /\ UNCHANGED jobs
                    /\ Moves("worktree", d.todo, d.job, d.snap, d.worker)
                 \/ /\ ~Past(d.snap.status, "dispatching")
                    /\ ~AdvanceThrows(d.snap.status, "dispatching")
                    /\ Wrote(d.job, NextStatus(d.snap.status, "dispatching"), d.snap.workerIds)
                    /\ Moves("dispatching", d.todo, d.job, jobs'[d.job], d.worker)
                 \/ /\ AdvanceThrows(d.snap.status, "dispatching") /\ UNCHANGED jobs
                    /\ Moves("failed", d.todo, d.job, d.snap, d.worker)
         /\ RunningWrite =>
              /\ d.pc = "running"
              /\ \/ /\ Past(d.snap.status, "running") /\ UNCHANGED jobs
                    /\ Moves("register", d.todo, d.job, d.snap, d.worker)
                 \/ /\ ~Past(d.snap.status, "running")
                    /\ ~AdvanceThrows(d.snap.status, "running")
                    /\ Wrote(d.job, NextStatus(d.snap.status, "running"), d.snap.workerIds)
                    /\ Moves("running", d.todo, d.job, jobs'[d.job], d.worker)
<1>0. DOMAIN d = {"pc", "todo", "act", "wr", "job", "base", "started", "snap",
                  "worker", "wrec"}
  BY PassFields
<1>1. ASSUME DispatchingWrite
      PROVE  /\ d.pc = "dispatching"
             /\ \/ /\ Past(d.snap.status, "dispatching") /\ UNCHANGED jobs
                   /\ Moves("worktree", d.todo, d.job, d.snap, d.worker)
                \/ /\ ~Past(d.snap.status, "dispatching")
                   /\ ~AdvanceThrows(d.snap.status, "dispatching")
                   /\ Wrote(d.job, NextStatus(d.snap.status, "dispatching"), d.snap.workerIds)
                   /\ Moves("dispatching", d.todo, d.job, jobs'[d.job], d.worker)
                \/ /\ AdvanceThrows(d.snap.status, "dispatching") /\ UNCHANGED jobs
                   /\ Moves("failed", d.todo, d.job, d.snap, d.worker)
  <2>1. d.pc = "dispatching" /\ d.job \in Job
    BY <1>1 DEF DispatchingWrite, At, JobInv, PassHolds
  <2>2. CASE AdvanceSnap("dispatching", "worktree") BY <2>1, <2>2, MovesAdvance
  <2>3. CASE /\ AdvanceThrows(d.snap.status, "dispatching") /\ UNCHANGED jobs /\ Go("failed")
    <3>1. Moves("failed", d.todo, d.job, d.snap, d.worker) BY <1>0, <2>3 DEF Go, Moves
    <3>2. QED BY <2>1, <2>3, <3>1
  <2>4. QED BY <1>1, <2>2, <2>3 DEF DispatchingWrite
<1>2. ASSUME RunningWrite
      PROVE  /\ d.pc = "running"
             /\ \/ /\ Past(d.snap.status, "running") /\ UNCHANGED jobs
                   /\ Moves("register", d.todo, d.job, d.snap, d.worker)
                \/ /\ ~Past(d.snap.status, "running")
                   /\ ~AdvanceThrows(d.snap.status, "running")
                   /\ Wrote(d.job, NextStatus(d.snap.status, "running"), d.snap.workerIds)
                   /\ Moves("running", d.todo, d.job, jobs'[d.job], d.worker)
  <2>1. d.pc = "running" /\ d.job \in Job /\ AdvanceSnap("running", "register")
    BY <1>2 DEF RunningWrite, At, JobInv, PassHolds
  <2>2. QED BY <2>1, MovesAdvance
<1>3. QED BY <1>1, <1>2

\* It fails the job, and stores the retry.
LEMMA MovesFail ==
  ASSUME JobInv
  PROVE  /\ StartFailed =>
              d.pc = "startFailed" /\ Moves("awaitAgg", d.todo, d.job, d.snap, d.worker)
         /\ AwaitAggregation =>
              d.pc = "awaitAgg" /\ Moves("failed", d.todo, d.job, d.snap, d.worker)
         /\ FailureRead =>
              /\ d.pc = "failed"
              /\ \/ /\ jobs[d.job].status \in TerminalJob /\ UNCHANGED up
                    /\ Moves("after", d.todo, d.job, d.snap, d.worker)
                 \/ /\ jobs[d.job].status = "failed" /\ UNCHANGED up
                    /\ Moves("retry", d.todo, d.job, jobs[d.job], d.worker)
                 \/ /\ jobs[d.job].status \notin TerminalJob \cup {"absent", "queued"}
                    /\ UNCHANGED up
                    /\ Moves("failWrite", d.todo, d.job, jobs[d.job], d.worker)
                 \/ /\ jobs[d.job].status \in TerminalJob \cup {"absent", "queued"}
                    /\ ShouldRetry(jobs[d.job]) \/ jobs[d.job].status \notin TerminalJob
                    /\ Moves("idle", {}, NoJob, NoJobRec, NoWorker)
         /\ FailureWrite =>
              /\ d.pc = "failWrite" /\ Wrote(d.job, "failed", d.snap.workerIds)
              /\ \E pc \in {"retry", "after"} :
                   Moves(pc, d.todo, d.job, jobs'[d.job], d.worker)
         /\ CreateRetry =>
              /\ d.pc = "retry" /\ Moves("after", d.todo, d.job, d.snap, d.worker)
              /\ \/ \E r \in FreshJob : Wrote(r, "queued", {}) /\ timers' = timers \cup {r}
                 \/ UNCHANGED <<jobs, timers>>
<1>0. DOMAIN d = {"pc", "todo", "act", "wr", "job", "base", "started", "snap",
                  "worker", "wrec"}
  BY PassFields
<1>1. d.snap \in JobRec /\ TypeOK BY DEF JobInv, TypeOK, PassRec
<1>2. ASSUME StartFailed
      PROVE  d.pc = "startFailed" /\ Moves("awaitAgg", d.todo, d.job, d.snap, d.worker)
  BY <1>0, <1>2 DEF StartFailed, At, Go, Moves
<1>3. ASSUME AwaitAggregation
      PROVE  d.pc = "awaitAgg" /\ Moves("failed", d.todo, d.job, d.snap, d.worker)
  BY <1>0, <1>3 DEF AwaitAggregation, At, Go, Moves
<1>4. ASSUME FailureRead
      PROVE  /\ d.pc = "failed"
             /\ \/ /\ jobs[d.job].status \in TerminalJob /\ UNCHANGED up
                   /\ Moves("after", d.todo, d.job, d.snap, d.worker)
                \/ /\ jobs[d.job].status = "failed" /\ UNCHANGED up
                   /\ Moves("retry", d.todo, d.job, jobs[d.job], d.worker)
                \/ /\ jobs[d.job].status \notin TerminalJob \cup {"absent", "queued"}
                   /\ UNCHANGED up
                   /\ Moves("failWrite", d.todo, d.job, jobs[d.job], d.worker)
                \/ /\ jobs[d.job].status \in TerminalJob \cup {"absent", "queued"}
                   /\ ShouldRetry(jobs[d.job]) \/ jobs[d.job].status \notin TerminalJob
                   /\ Moves("idle", {}, NoJob, NoJobRec, NoWorker)
  <2>0. d.pc = "failed" /\ d.job \in Job BY <1>4 DEF FailureRead, At, JobInv, PassHolds
  <2>1. jobs[d.job].status \in JobStatus \cup {"absent"} BY <1>1, <2>0 DEF TypeOK, JobRec
  <2>2. /\ ValidJob(jobs[d.job].status, "failed")
             => jobs[d.job].status \notin TerminalJob \cup {"absent", "queued"}
        /\ jobs[d.job].status # "failed" /\ ~ValidJob(jobs[d.job].status, "failed")
             => jobs[d.job].status \in TerminalJob \cup {"absent", "queued"}
    BY <2>1 DEF ValidJob, JobTransitions, TerminalJob, JobStatus
  <2>3. CASE jobs[d.job].status \in TerminalJob /\ Go("after") /\ UNCHANGED up
    BY <1>0, <2>0, <2>3 DEF Go, Moves
  <2>4. CASE /\ jobs[d.job].status = "failed" /\ UNCHANGED up
             /\ d' = [d EXCEPT !.pc = "retry", !.snap = jobs[d.job]]
    BY <1>0, <2>0, <2>4 DEF Moves
  <2>5. CASE /\ ValidJob(jobs[d.job].status, "failed") /\ UNCHANGED up
             /\ d' = [d EXCEPT !.pc = "failWrite", !.snap = jobs[d.job]]
    BY <1>0, <2>0, <2>2, <2>5 DEF Moves
  <2>6. CASE /\ jobs[d.job].status # "failed" /\ ~ValidJob(jobs[d.job].status, "failed")
             /\ ShouldRetry(jobs[d.job]) \/ jobs[d.job].status \notin TerminalJob
             /\ d' = IdlePass
    BY <2>0, <2>2, <2>6 DEF Moves, IdlePass
  <2>7. QED BY <1>4, <2>3, <2>4, <2>5, <2>6 DEF FailureRead
<1>5. ASSUME FailureWrite
      PROVE  /\ d.pc = "failWrite" /\ Wrote(d.job, "failed", d.snap.workerIds)
             /\ \E pc \in {"retry", "after"} : Moves(pc, d.todo, d.job, jobs'[d.job], d.worker)
  <2>1. d.pc = "failWrite" /\ d.job \in Job BY <1>5 DEF FailureWrite, At, JobInv, PassHolds
  <2>2. PICK r : r = [d.snap EXCEPT !.status = "failed"] OBVIOUS
  <2>3. r.status = "failed" /\ r.workerIds = d.snap.workerIds BY <1>1, <2>2 DEF JobRec
  <2>4. /\ PutJob(d.job, r)
        /\ d' = [d EXCEPT !.snap = r, !.pc = IF ShouldRetry(r) THEN "retry" ELSE "after"]
    BY <1>5, <2>2 DEF FailureWrite
  <2>5. Wrote(d.job, r.status, r.workerIds) /\ jobs'[d.job] = r BY <1>1, <2>1, <2>4, PutWrote
  <2>6. \E pc \in {"retry", "after"} : Moves(pc, d.todo, d.job, r, d.worker)
    BY <1>0, <2>4 DEF Moves
  <2>7. QED BY <2>1, <2>3, <2>5, <2>6
<1>6. ASSUME CreateRetry
      PROVE  /\ d.pc = "retry" /\ Moves("after", d.todo, d.job, d.snap, d.worker)
             /\ \/ \E r \in FreshJob : Wrote(r, "queued", {}) /\ timers' = timers \cup {r}
                \/ UNCHANGED <<jobs, timers>>
  <2>1. d.pc = "retry" /\ Moves("after", d.todo, d.job, d.snap, d.worker)
    BY <1>0, <1>6 DEF CreateRetry, At, Go, Moves
  <2>2. ASSUME NEW r \in FreshJob, PutJob(r, RetryOf(d.snap)) PROVE Wrote(r, "queued", {})
    <3>1. RetryOf(d.snap).status = "queued" /\ RetryOf(d.snap).workerIds = {} BY DEF RetryOf
    <3>2. r \in Job BY DEF FreshJob
    <3>3. PICK n : n = RetryOf(d.snap) OBVIOUS
    <3>4. Wrote(r, n.status, n.workerIds) BY <1>1, <2>2, <3>2, <3>3, PutWrote
    <3>5. QED BY <3>1, <3>3, <3>4
  <2>3. QED BY <1>6, <2>1, <2>2 DEF CreateRetry
<1>7. QED BY <1>2, <1>3, <1>4, <1>5, <1>6

\* A client stores a job that is queued.
LEMMA ClientSteps ==
  ASSUME JobInv, Client
  PROVE  /\ \E j \in Job : /\ jobs[j].status = "absent" /\ Wrote(j, "queued", {})
                           /\ queue' = queue \cup {j}
         /\ UNCHANGED <<workers, timers, d, cancel, stop, exit, rt, results, agg, up>>
<1>0. TypeOK BY DEF JobInv
<1>1. ASSUME NEW j \in Job, NEW r, r.status = "queued", r.workerIds = {}, PutJob(j, r)
      PROVE  Wrote(j, "queued", {})
  <2>1. Wrote(j, r.status, r.workerIds) BY <1>0, <1>1, PutWrote
  <2>2. QED BY <1>1, <2>1
<1>2. ASSUME NEW j \in Job, Submit(j)
      PROVE  jobs[j].status = "absent" /\ Wrote(j, "queued", {})
  <2>1. PICK r : r = [NoJobRec EXCEPT !.status = "queued"] OBVIOUS
  <2>2. r.status = "queued" /\ r.workerIds = {} BY <2>1 DEF NoJobRec
  <2>3. PutJob(j, r) BY <1>2, <2>1 DEF Submit
  <2>4. QED BY <1>1, <1>2, <2>2, <2>3 DEF Submit
<1>3. ASSUME NEW j \in Job, NEW r \in FreshJob, PutJob(r, RetryOf(jobs[j]))
      PROVE  r \in Job /\ jobs[r].status = "absent" /\ Wrote(r, "queued", {})
  <2>1. RetryOf(jobs[j]).status = "queued" /\ RetryOf(jobs[j]).workerIds = {} BY DEF RetryOf
  <2>2. r \in Job /\ jobs[r].status = "absent" BY DEF FreshJob
  <2>3. PICK n : n = RetryOf(jobs[j]) OBVIOUS
  <2>4. QED BY <1>1, <1>3, <2>1, <2>2, <2>3
<1>4. QED BY <1>2, <1>3 DEF Client, Submit, RetryJob, tasks

\* An aggregation reads its job, moves it on and ends it.
LEMMA AggregateSteps ==
  ASSUME JobInv, NEW j \in Job
  PROVE  /\ AggregateRead(j) =>
              /\ agg[j].task.pc = "idle" /\ agg[j].chain # <<>> /\ UNCHANGED <<jobs, up>>
              /\ \/ /\ Ready(j) /\ agg'[j].chain = agg[j].chain
                    /\ agg'[j].task.rec = jobs[j] /\ agg'[j].task.verdict = Verdict(j)
                 \/ /\ ~Ready(j) /\ agg'[j].chain = Tail(agg[j].chain)
                    /\ agg'[j].task.pc = "idle"
         /\ AggregateAdvance(j) =>
              /\ agg[j].task.pc = "advance" /\ UNCHANGED up /\ agg'[j].chain = agg[j].chain
              /\ agg'[j].task.verdict = agg[j].task.verdict
              /\ \/ /\ UNCHANGED jobs /\ agg'[j].task.rec = agg[j].task.rec
                 \/ /\ agg[j].task.rec.status # "aggregating"
                    /\ Wrote(j, NextStatus(agg[j].task.rec.status, "aggregating"),
                             agg[j].task.rec.workerIds)
                    /\ agg'[j].task.rec = jobs'[j]
         /\ AggregateFinal(j) =>
              /\ agg[j].task.pc = "final" /\ UNCHANGED up
              /\ agg'[j].chain = Tail(agg[j].chain) /\ agg'[j].task.pc = "idle"
              /\ Wrote(j, agg[j].task.verdict, agg[j].task.rec.workerIds)
         /\ AggregateFail(j) =>
              /\ agg[j].task.pc = "final" /\ "aggregate" \in Faults /\ UNCHANGED jobs
              /\ agg'[j].chain = <<>> /\ agg'[j].task.pc = "idle"
              /\ up' = (Elements(agg[j].chain) \cap Worker = {})
         /\ Aggregating(j) =>
              /\ UNCHANGED <<workers, queue, timers, d, cancel, stop, exit, rt, results>>
              /\ \A k \in Job \ {j} : agg'[k] = agg[k]
              /\ agg'[j].poisoned # agg[j].poisoned => "aggregate" \in Faults
<1>0. /\ TypeOK /\ agg \in [Job -> AggRec] /\ agg[j].task.rec \in JobRec
      /\ agg[j].task \in AggTask /\ agg[j] \in AggRec
  BY DEF JobInv, TypeOK, AggRec, AggTask
<1>1. IdleAgg.pc = "idle" BY DEF IdleAgg
<1>2. ASSUME AggregateRead(j)
      PROVE  /\ agg[j].task.pc = "idle" /\ agg[j].chain # <<>> /\ UNCHANGED <<jobs, up>>
             /\ \/ /\ Ready(j) /\ agg'[j].chain = agg[j].chain
                   /\ agg'[j].task.rec = jobs[j] /\ agg'[j].task.verdict = Verdict(j)
                \/ /\ ~Ready(j) /\ agg'[j].chain = Tail(agg[j].chain)
                   /\ agg'[j].task.pc = "idle"
             /\ agg'[j].poisoned = agg[j].poisoned
             /\ \A k \in Job \ {j} : agg'[k] = agg[k]
  <2>1. CASE Ready(j)
    <3>1. PICK t : t = [pc |-> "advance", rec |-> jobs[j], verdict |-> Verdict(j)] OBVIOUS
    <3>2. t.rec = jobs[j] /\ t.verdict = Verdict(j) BY <3>1
    <3>3. agg' = [agg EXCEPT ![j].task = t] BY <1>2, <2>1, <3>1 DEF AggregateRead
    <3>4. QED BY <1>0, <1>2, <2>1, <3>2, <3>3 DEF AggregateRead, AggRec, store
  <2>2. CASE ~Ready(j)
    <3>1. agg' = [agg EXCEPT ![j] = Pop(j)] BY <1>2, <2>2 DEF AggregateRead
    <3>2. /\ Pop(j).task = IdleAgg /\ Pop(j).chain = Tail(agg[j].chain)
          /\ Pop(j).poisoned = agg[j].poisoned
      BY <1>0 DEF Pop, AggRec
    <3>3. agg'[j] = Pop(j) /\ \A k \in Job \ {j} : agg'[k] = agg[k] BY <1>0, <3>1
    <3>4. QED BY <1>1, <1>2, <2>2, <3>2, <3>3 DEF AggregateRead, store
  <2>3. QED BY <2>1, <2>2
<1>3. ASSUME AggregateAdvance(j)
      PROVE  /\ agg[j].task.pc = "advance" /\ UNCHANGED up /\ agg'[j].chain = agg[j].chain
             /\ agg'[j].task.verdict = agg[j].task.verdict
             /\ \/ /\ UNCHANGED jobs /\ agg'[j].task.rec = agg[j].task.rec
                \/ /\ agg[j].task.rec.status # "aggregating"
                   /\ Wrote(j, NextStatus(agg[j].task.rec.status, "aggregating"),
                            agg[j].task.rec.workerIds)
                   /\ agg'[j].task.rec = jobs'[j]
             /\ agg'[j].poisoned = agg[j].poisoned
             /\ \A k \in Job \ {j} : agg'[k] = agg[k]
  <2>1. CASE agg' = [agg EXCEPT ![j].task.pc = "final"] /\ UNCHANGED jobs
    BY <1>0, <1>3, <2>1 DEF AggregateAdvance, AggRec, AggTask
  <2>2. CASE agg[j].task.rec.status # "aggregating"
    <3>1. PICK n : n = [agg[j].task.rec EXCEPT
                          !.status = NextStatus(agg[j].task.rec.status, "aggregating")]
      OBVIOUS
    <3>2. /\ n.status = NextStatus(agg[j].task.rec.status, "aggregating")
          /\ n.workerIds = agg[j].task.rec.workerIds
      BY <1>0, <3>1 DEF JobRec
    <3>3. PutJob(j, n) /\ agg' = [agg EXCEPT ![j].task.rec = n]
      BY <1>3, <2>2, <3>1 DEF AggregateAdvance
    <3>4. Wrote(j, n.status, n.workerIds) /\ jobs'[j] = n BY <1>0, <3>3, PutWrote
    <3>5. /\ agg'[j].task.rec = n /\ agg'[j].chain = agg[j].chain
          /\ agg'[j].task.verdict = agg[j].task.verdict
          /\ agg'[j].poisoned = agg[j].poisoned /\ \A k \in Job \ {j} : agg'[k] = agg[k]
      BY <1>0, <3>3 DEF AggRec, AggTask
    <3>6. QED BY <1>3, <2>2, <3>2, <3>4, <3>5 DEF AggregateAdvance
  <2>3. QED BY <1>3, <2>1, <2>2 DEF AggregateAdvance
<1>4. ASSUME AggregateFinal(j)
      PROVE  /\ agg[j].task.pc = "final" /\ UNCHANGED up
             /\ agg'[j].chain = Tail(agg[j].chain) /\ agg'[j].task.pc = "idle"
             /\ Wrote(j, agg[j].task.verdict, agg[j].task.rec.workerIds)
             /\ agg'[j].poisoned = agg[j].poisoned
             /\ \A k \in Job \ {j} : agg'[k] = agg[k]
  <2>1. PICK n : n = [agg[j].task.rec EXCEPT !.status = agg[j].task.verdict] OBVIOUS
  <2>2. n.status = agg[j].task.verdict /\ n.workerIds = agg[j].task.rec.workerIds
    BY <1>0, <2>1 DEF JobRec
  <2>3. PutJob(j, n) /\ agg' = [agg EXCEPT ![j] = Pop(j)]
    BY <1>4, <2>1 DEF AggregateFinal
  <2>4. Wrote(j, n.status, n.workerIds) BY <1>0, <2>3, PutWrote
  <2>5. /\ Pop(j).task = IdleAgg /\ Pop(j).chain = Tail(agg[j].chain)
        /\ Pop(j).poisoned = agg[j].poisoned
    BY <1>0 DEF Pop, AggRec
  <2>6. agg'[j] = Pop(j) /\ \A k \in Job \ {j} : agg'[k] = agg[k] BY <1>0, <2>3
  <2>7. QED BY <1>1, <1>4, <2>2, <2>4, <2>5, <2>6 DEF AggregateFinal
<1>5. ASSUME AggregateFail(j)
      PROVE  /\ agg[j].task.pc = "final" /\ "aggregate" \in Faults /\ UNCHANGED jobs
             /\ agg'[j].chain = <<>> /\ agg'[j].task.pc = "idle"
             /\ up' = (Elements(agg[j].chain) \cap Worker = {})
             /\ \A k \in Job \ {j} : agg'[k] = agg[k]
  <2>1. PICK n : n = [task |-> IdleAgg, chain |-> <<>>, poisoned |-> TRUE] OBVIOUS
  <2>2. n.task = IdleAgg /\ n.chain = <<>> BY <2>1
  <2>3. agg' = [agg EXCEPT ![j] = n] BY <1>5, <2>1 DEF AggregateFail
  <2>4. agg'[j] = n /\ \A k \in Job \ {j} : agg'[k] = agg[k] BY <1>0, <2>3
  <2>5. QED BY <1>1, <1>5, <2>2, <2>4 DEF AggregateFail, store
<1>6. ASSUME Aggregating(j)
      PROVE  UNCHANGED <<workers, queue, timers, d, cancel, stop, exit, rt, results>>
  BY <1>6 DEF Aggregating, AggregateRead, AggregateAdvance, AggregateFinal, AggregateFail,
              store, sched, tasks
<1>7. QED BY <1>2, <1>3, <1>4, <1>5, <1>6 DEF Aggregating

-----------------------------------------------------------------------------
(* Jobs that have begun *)

Begun == {"preparing", "dispatching", "running", "aggregating"} \cup TerminalJob

\* Where the pass holds the record it will write, or judge the job by.
Carrying == {"create", "link", "starting", "dispatching", "worktree", "spawn", "active",
             "running"}

\* Only stored jobs are queued, and the one in hand has begun.
KnownInv ==
  /\ \A j \in queue \cup timers \cup d.todo : jobs[j].status # "absent"
  /\ d.pc \in {"idle", "visit"} => d.job = NoJob
  /\ d.pc = "prepare" =>
       /\ d.snap.status \in Flow /\ jobs[d.job].status # "absent"
       /\ d.snap.status # "queued" => jobs[d.job].status \in Begun
  /\ d.pc \notin {"idle", "visit", "prepare"} => jobs[d.job].status \in Begun
  /\ d.pc \in Carrying => d.snap.status \in Begun

\* #advanceJobToStatus never writes queued, nor a terminal status.
LEMMA NextOnward ==
  ASSUME NEW s \in JobStatus \cup {"absent"}, NEW t \in {"dispatching", "running", "aggregating"},
         ~Past(s, t)
  PROVE  NextStatus(s, t) \in {"preparing", "dispatching", "running", "aggregating"}
BY DEF JobStatus, Flow, Past, NextStatus, FlowNext, FlowRank

LEMMA NextOnwardAggregating ==
  ASSUME NEW s \in JobStatus \cup {"absent"}, s # "aggregating"
  PROVE  NextStatus(s, "aggregating") \in {"preparing", "dispatching", "running", "aggregating"}
BY DEF JobStatus, Flow, NextStatus, FlowNext

\* What an aggregation writes.
LEMMA AggregateWrites ==
  ASSUME JobInv, NEW j \in Job, Aggregating(j)
  PROVE  \/ UNCHANGED jobs
         \/ \E s \in Begun : agg[j].task.pc # "idle" /\ Wrote(j, s, agg[j].task.rec.workerIds)
<1>0. /\ agg[j].task.rec.status \in JobStatus \cup {"absent"}
      /\ agg[j].task.verdict \in {"completed", "failed", "canceled"}
  BY DEF JobInv, TypeOK, AggRec, AggTask, JobRec
<1>1. CASE AggregateRead(j) \/ AggregateFail(j) BY <1>1, AggregateSteps
<1>2. CASE AggregateAdvance(j)
  <2>0. agg[j].task.pc = "advance" BY <1>2, AggregateSteps
  <2>1. CASE UNCHANGED jobs BY <2>1
  <2>2. CASE /\ agg[j].task.rec.status # "aggregating"
             /\ Wrote(j, NextStatus(agg[j].task.rec.status, "aggregating"),
                      agg[j].task.rec.workerIds)
    <3>1. NextStatus(agg[j].task.rec.status, "aggregating") \in Begun
      BY <1>0, <2>2, NextOnwardAggregating DEF Begun
    <3>2. QED BY <2>0, <2>2, <3>1
  <2>3. QED BY <1>2, <2>1, <2>2, AggregateSteps
<1>3. CASE AggregateFinal(j)
  <2>1. /\ agg[j].task.pc = "final"
        /\ Wrote(j, agg[j].task.verdict, agg[j].task.rec.workerIds)
    BY <1>3, AggregateSteps
  <2>2. agg[j].task.verdict \in Begun BY <1>0 DEF Begun, TerminalJob
  <2>3. QED BY <2>1, <2>2
<1>4. QED BY <1>1, <1>2, <1>3 DEF Aggregating

\* What the pass writes: its job, or the retry of it.
LEMMA PassWrites ==
  ASSUME JobInv, StageInv, Unstopped, KnownInv, Pass
  PROVE  \/ UNCHANGED jobs
         \/ \E s \in Begun :
              /\ d.pc \in Carrying \cup {"prepare", "failWrite"}
              /\ \/ Wrote(d.job, s, d.snap.workerIds)
                 \/ LinkWorker /\ Wrote(d.job, s, d.snap.workerIds \cup {d.worker})
         \/ \E r \in FreshJob : CreateRetry /\ Wrote(r, "queued", {})
<1>0. d.snap.status \in JobStatus \cup {"absent"} BY DEF JobInv, TypeOK, PassRec, JobRec
<1>1. CASE \/ BeginPass \/ EndPass \/ LoopTest \/ CreateWorker \/ StartRead \/ StartingWrite
           \/ CreateWorktree \/ Spawn \/ ActiveWrite \/ Register \/ HeartbeatRejected
           \/ StartFailed \/ AwaitAggregation \/ FailureRead \/ AfterLoop
           \/ \E j \in Job : DropJob(j) \/ AtCapacity(j) \/ SkipConflict(j) \/ TakeJob(j)
  BY <1>1 DEF BeginPass, EndPass, LoopTest, CreateWorker, StartRead, StartingWrite,
              CreateWorktree, Spawn, ActiveWrite, Register, HeartbeatRejected, StartFailed,
              AwaitAggregation, FailureRead, AfterLoop, DropJob, AtCapacity, SkipConflict,
              TakeJob, store
<1>2. CASE Prepare
  <2>1. d.pc = "prepare" /\ (UNCHANGED jobs \/ Wrote(d.job, "preparing", d.snap.workerIds))
    BY <1>2, MovesCreate
  <2>2. QED BY <2>1 DEF Begun
<1>3. CASE LinkWorker
  <2>1. d.pc = "link" /\ Wrote(d.job, d.snap.status, d.snap.workerIds \cup {d.worker})
    BY <1>3, MovesCreate
  <2>2. d.snap.status \in Begun BY <2>1 DEF KnownInv, Carrying
  <2>3. QED BY <1>3, <2>1, <2>2 DEF Carrying
<1>4. CASE DispatchingWrite \/ RunningWrite
  <2>1. PICK t \in {"dispatching", "running"} :
          /\ d.pc \in {"dispatching", "running"}
          /\ \/ UNCHANGED jobs
             \/ /\ ~Past(d.snap.status, t)
                /\ Wrote(d.job, NextStatus(d.snap.status, t), d.snap.workerIds)
    BY <1>4, MovesOn
  <2>2. CASE UNCHANGED jobs BY <2>2
  <2>3. CASE ~Past(d.snap.status, t) /\ Wrote(d.job, NextStatus(d.snap.status, t), d.snap.workerIds)
    <3>1. NextStatus(d.snap.status, t) \in Begun BY <1>0, <2>3, NextOnward DEF Begun
    <3>2. QED BY <2>1, <2>3, <3>1 DEF Carrying
  <2>4. QED BY <2>1, <2>2, <2>3
<1>5. CASE FailureWrite
  <2>1. d.pc = "failWrite" /\ Wrote(d.job, "failed", d.snap.workerIds) BY <1>5, MovesFail
  <2>2. QED BY <2>1 DEF Begun, TerminalJob
<1>6. CASE CreateRetry BY <1>6, MovesFail
<1>7. QED BY <1>1, <1>2, <1>3, <1>4, <1>5, <1>6 DEF Pass

\* A job that is stored stays stored, and one that has begun is not queued anew.
LEMMA JobsGoOn ==
  ASSUME JobInv, StageInv, Unstopped, KnownInv, [Next]_vars, NEW j \in Job
  PROVE  /\ jobs[j].status # "absent" => jobs'[j].status # "absent"
         /\ jobs[j].status \in Begun => jobs'[j].status \in Begun
<1>1. CASE UNCHANGED jobs BY <1>1
<1>2. ASSUME NEW k \in Job, NEW s \in Begun, NEW ids, Wrote(k, s, ids)
      PROVE  /\ jobs[j].status # "absent" => jobs'[j].status # "absent"
             /\ jobs[j].status \in Begun => jobs'[j].status \in Begun
  BY <1>2 DEF Wrote, Begun, TerminalJob
<1>3. ASSUME NEW k \in Job, jobs[k].status = "absent", Wrote(k, "queued", {})
      PROVE  /\ jobs[j].status # "absent" => jobs'[j].status # "absent"
             /\ jobs[j].status \in Begun => jobs'[j].status \in Begun
  BY <1>3 DEF Wrote, Begun, TerminalJob
<1>4. \/ Client \/ Pass \/ UNCHANGED vars
      \/ \E k \in Job : RetryTimer(k) \/ Aggregating(k)
      \/ \E w \in Worker : ProcessExit(w) \/ Exiting(w)
  BY NoStops DEF StageInv
<1>5. CASE Client BY <1>3, <1>5, ClientSteps
<1>6. CASE \E k \in Job : Aggregating(k) BY <1>1, <1>2, <1>6, AggregateWrites
<1>7. CASE Pass
  <2>1. CASE \E s, ids : s \in Begun /\ Wrote(d.job, s, ids) BY <1>2, <2>1 DEF Wrote
  <2>2. CASE \E r \in FreshJob : Wrote(r, "queued", {}) BY <1>3, <2>2 DEF FreshJob
  <2>3. QED BY <1>1, <1>7, <2>1, <2>2, PassWrites
<1>8. QED
  BY <1>1, <1>4, <1>5, <1>6, <1>7
  DEF vars, RetryTimer, ProcessExit, Exiting, ExitRead, ExitFinishing, ExitTerminal,
      ExitRelease, store

\* Where a step takes the queued jobs from.
LEMMA QueueSteps ==
  ASSUME JobInv, StageInv, Unstopped, KnownInv, [Next]_vars
  PROVE  \A j \in queue' \cup timers' \cup d'.todo :
           \/ j \in queue \cup timers \cup d.todo
           \/ AfterLoop /\ j = d.job
           \/ jobs[j].status = "absent" /\ jobs'[j].status = "queued"
<1>1. CASE Client
  <2>1. PICK k \in Job : Wrote(k, "queued", {}) /\ queue' = queue \cup {k}
                         /\ jobs[k].status = "absent"
    BY <1>1, ClientSteps
  <2>2. UNCHANGED <<timers, d>> BY <1>1, ClientSteps
  <2>3. QED BY <2>1, <2>2 DEF Wrote
<1>2. CASE Pass
  <2>1. CASE BeginPass \/ EndPass \/ AfterLoop
             \/ \E j \in Job : DropJob(j) \/ AtCapacity(j) \/ SkipConflict(j) \/ TakeJob(j)
    <3>1. d'.todo \subseteq queue \cup d.todo BY <2>1, MovesVisit DEF Moves, AfterLoop
    <3>2. /\ timers' = timers
          /\ queue' \subseteq queue \/ (AfterLoop /\ queue' \subseteq queue \cup {d.job})
      BY <2>1 DEF BeginPass, EndPass, DropJob, AtCapacity, SkipConflict, TakeJob, AfterLoop
    <3>3. QED BY <3>1, <3>2
  <2>2. CASE CreateRetry
    <3>1. /\ d'.todo = d.todo
          /\ \/ \E r \in FreshJob : Wrote(r, "queued", {}) /\ timers' = timers \cup {r}
             \/ timers' = timers
      BY <2>2, MovesFail DEF Moves
    <3>2. QED BY <2>2, <3>1 DEF CreateRetry, Wrote, FreshJob
  <2>3. CASE Prepare \/ LoopTest \/ CreateWorker \/ LinkWorker
    <3>1. d'.todo = d.todo BY <2>3, MovesCreate DEF Moves
    <3>2. QED BY <2>3, <3>1 DEF Prepare, LoopTest, CreateWorker, LinkWorker
  <2>4. CASE \/ StartRead \/ StartingWrite \/ CreateWorktree \/ Spawn \/ ActiveWrite \/ Register
             \/ HeartbeatRejected
    <3>1. d'.todo = d.todo BY <2>4, MovesStart DEF Moves
    <3>2. QED BY <2>4, <3>1 DEF StartRead, StartingWrite, CreateWorktree, Spawn, ActiveWrite,
                                Register, HeartbeatRejected
  <2>5. CASE DispatchingWrite \/ RunningWrite
    <3>1. d'.todo = d.todo BY <2>5, MovesOn DEF Moves
    <3>2. QED BY <2>5, <3>1 DEF DispatchingWrite, RunningWrite
  <2>6. CASE StartFailed \/ AwaitAggregation \/ FailureRead \/ FailureWrite
    <3>1. d'.todo \subseteq d.todo BY <2>6, MovesFail DEF Moves
    <3>2. QED BY <2>6, <3>1 DEF StartFailed, AwaitAggregation, FailureRead, FailureWrite
  <2>7. QED BY <1>2, <2>1, <2>2, <2>3, <2>4, <2>5, <2>6 DEF Pass
<1>3. CASE ~Pass /\ ~Client
  <2>1. \/ UNCHANGED vars \/ \E j \in Job : RetryTimer(j) \/ Aggregating(j)
        \/ \E w \in Worker : ProcessExit(w) \/ Exiting(w)
    BY <1>3, NoStops DEF StageInv
  <2>2. QED
    BY <2>1
    DEF vars, RetryTimer, Aggregating, AggregateRead, AggregateAdvance, AggregateFinal,
        AggregateFail, ProcessExit, Exiting, ExitRead, ExitFinishing, ExitTerminal,
        ExitRelease, sched
<1>4. QED BY <1>1, <1>2, <1>3

\* The part of KnownInv about the job in hand.
KnownPass ==
  /\ d.pc \in {"idle", "visit"} => d.job = NoJob
  /\ d.pc = "prepare" =>
       /\ d.snap.status \in Flow /\ jobs[d.job].status # "absent"
       /\ d.snap.status # "queued" => jobs[d.job].status \in Begun
  /\ d.pc \notin {"idle", "visit", "prepare"} => jobs[d.job].status \in Begun
  /\ d.pc \in Carrying => d.snap.status \in Begun

\* The pass keeps it.
LEMMA KnownByPass ==
  ASSUME JobInv, StageInv, Unstopped, KnownInv, Pass, [Next]_vars
  PROVE  KnownPass'
<1>0. /\ d.pc \notin {"idle", "visit"} => d.job \in Job
      /\ \A j \in Job : jobs[j].status \in JobStatus \cup {"absent"}
      /\ d.pc \notin {"idle", "visit", "prepare"} => jobs[d.job].status \in Begun
      /\ d.snap.status \in JobStatus \cup {"absent"}
  BY DEF JobInv, TypeOK, JobRec, PassHolds, KnownInv, PassRec
<1>1. ASSUME NEW pc, NEW todo, NEW job, NEW snap, NEW w, Moves(pc, todo, job, snap, w),
             pc \in {"idle", "visit"} => job = NoJob,
             pc = "prepare" =>
               /\ snap.status \in Flow /\ jobs'[job].status # "absent"
               /\ snap.status # "queued" => jobs'[job].status \in Begun,
             pc \notin {"idle", "visit", "prepare"} => jobs'[job].status \in Begun,
             pc \in Carrying => snap.status \in Begun
      PROVE  KnownPass'
  BY <1>1 DEF KnownPass, Moves
<1>2. d.pc \notin {"idle", "visit", "prepare"} => jobs'[d.job].status \in Begun
  BY <1>0, JobsGoOn
<1>3. CASE BeginPass \/ EndPass \/ AfterLoop BY <1>1, <1>3, MovesVisit DEF Carrying
<1>4. ASSUME NEW j \in Job, DropJob(j) \/ AtCapacity(j) \/ SkipConflict(j) \/ TakeJob(j)
      PROVE  KnownPass'
  <2>1. CASE AtCapacity(j) BY <1>1, <2>1, MovesVisit DEF Carrying
  <2>2. CASE DropJob(j) \/ SkipConflict(j)
    <3>1. d.pc = "visit" /\ Moves("visit", d.todo \ {j}, d.job, d.snap, d.worker)
      BY <2>2, MovesVisit
    <3>2. d.job = NoJob BY <3>1 DEF KnownInv
    <3>3. QED BY <1>1, <3>1, <3>2 DEF Carrying
  <2>3. CASE TakeJob(j)
    <3>1. Moves("prepare", d.todo \ {j}, j, jobs[j], d.worker) BY <2>3, MovesVisit
    <3>2. jobs' = jobs /\ jobs[j].status \notin TerminalJob /\ jobs[j].status # "absent"
      BY <2>3 DEF TakeJob, NotNeeded, KnownInv, store
    <3>3. jobs[j].status \in Flow /\ (jobs[j].status # "queued" => jobs[j].status \in Begun)
      BY <1>0, <3>2 DEF JobStatus, TerminalJob, Flow, Begun
    <3>4. QED BY <1>1, <3>1, <3>2, <3>3 DEF Carrying
  <2>4. QED BY <1>4, <2>1, <2>2, <2>3
<1>5. CASE Prepare
  <2>1. /\ d.pc = "prepare" /\ Moves("loop", d.todo, d.job, NoJobRec, d.worker)
        /\ \/ Past(d.snap.status, "preparing") /\ UNCHANGED jobs
           \/ Wrote(d.job, "preparing", d.snap.workerIds)
    BY <1>5, MovesCreate
  <2>2. Past(d.snap.status, "preparing") => d.snap.status # "queued"
    BY DEF Past, FlowRank, Flow
  <2>3. jobs'[d.job].status \in Begun BY <2>1, <2>2 DEF KnownInv, Wrote, Begun
  <2>4. QED BY <1>1, <2>1, <2>3 DEF Carrying
<1>6. CASE LoopTest
  <2>1. /\ d.pc = "loop"
        /\ \/ Moves("create", d.todo, d.job, jobs[d.job], d.worker)
           \/ Moves("after", d.todo, d.job, d.snap, d.worker)
    BY <1>6, MovesCreate
  <2>2. CASE Moves("create", d.todo, d.job, jobs[d.job], d.worker)
    BY <1>0, <1>1, <1>2, <2>1, <2>2
  <2>3. CASE Moves("after", d.todo, d.job, d.snap, d.worker)
    BY <1>1, <1>2, <2>1, <2>3 DEF Carrying
  <2>4. QED BY <2>1, <2>2, <2>3
<1>7. CASE CreateWorker
  <2>1. PICK w : d.pc = "create" /\ Moves("link", d.todo, d.job, d.snap, w)
    BY <1>7, MovesCreate
  <2>2. d.snap.status \in Begun BY <2>1 DEF KnownInv, Carrying
  <2>3. QED BY <1>1, <1>2, <2>1, <2>2
<1>8. CASE LinkWorker
  <2>1. d.pc = "link" /\ Moves("start", d.todo, d.job, d.snap, d.worker) BY <1>8, MovesCreate
  <2>2. QED BY <1>1, <1>2, <2>1 DEF Carrying
<1>9. CASE StartRead
  <2>1. d.pc = "start" /\ Moves("starting", d.todo, d.job, jobs[d.job], d.worker)
    BY <1>9, MovesStart
  <2>2. QED BY <1>0, <1>1, <1>2, <2>1
<1>10. CASE StartingWrite \/ CreateWorktree \/ Spawn \/ ActiveWrite
  <2>1. PICK pc : /\ d.pc \in Carrying /\ Moves(pc, d.todo, d.job, d.snap, d.worker)
                  /\ pc \notin {"idle", "visit", "prepare"}
    BY <1>10, MovesStart DEF Carrying
  <2>2. d.snap.status \in Begun /\ d.pc \notin {"idle", "visit", "prepare"}
    BY <2>1 DEF KnownInv, Carrying
  <2>3. QED BY <1>1, <1>2, <2>1, <2>2
<1>11. CASE Register
  <2>1. d.pc = "register" /\ Moves("loop", d.todo, d.job, NoJobRec, NoWorker)
    BY <1>11, MovesStart
  <2>2. QED BY <1>1, <1>2, <2>1 DEF Carrying
<1>12. CASE DispatchingWrite \/ RunningWrite
  <2>1. d.pc \in {"dispatching", "running"} /\ d.job \in Job
    BY <1>0, <1>12, MovesOn
  <2>2. d.snap.status \in Begun /\ jobs'[d.job].status \in Begun
    BY <1>2, <2>1 DEF KnownInv, Carrying
  <2>3. \/ Moves(d.pc, d.todo, d.job, jobs'[d.job], d.worker)
        \/ \E pc \in {"worktree", "register", "failed"} :
             Moves(pc, d.todo, d.job, d.snap, d.worker)
    BY <1>12, MovesOn
  <2>4. CASE Moves(d.pc, d.todo, d.job, jobs'[d.job], d.worker)
    BY <1>1, <2>1, <2>2, <2>4 DEF Carrying
  <2>5. CASE \E pc \in {"worktree", "register", "failed"} :
               Moves(pc, d.todo, d.job, d.snap, d.worker)
    BY <1>1, <2>2, <2>5 DEF Carrying
  <2>6. QED BY <2>3, <2>4, <2>5
<1>13. CASE StartFailed \/ AwaitAggregation \/ CreateRetry
  <2>1. PICK pc \in {"awaitAgg", "failed", "after"} :
          Moves(pc, d.todo, d.job, d.snap, d.worker) /\ d.pc \notin {"idle", "visit", "prepare"}
    BY <1>13, MovesFail
  <2>2. QED BY <1>1, <1>2, <2>1 DEF Carrying
<1>14. CASE FailureRead
  <2>1. /\ d.pc = "failed"
        /\ \/ Moves("idle", {}, NoJob, NoJobRec, NoWorker)
           \/ Moves("after", d.todo, d.job, d.snap, d.worker)
           \/ Moves("retry", d.todo, d.job, jobs[d.job], d.worker)
           \/ Moves("failWrite", d.todo, d.job, jobs[d.job], d.worker)
    BY <1>14, MovesFail
  <2>2. QED BY <1>1, <1>2, <2>1 DEF Carrying
<1>15. CASE FailureWrite
  <2>1. PICK pc \in {"retry", "after"} :
          Moves(pc, d.todo, d.job, jobs'[d.job], d.worker) /\ d.pc = "failWrite"
    BY <1>15, MovesFail
  <2>2. QED BY <1>1, <1>2, <2>1 DEF Carrying
<1>16. QED
  BY <1>3, <1>4, <1>5, <1>6, <1>7, <1>8, <1>9, <1>10, <1>11, <1>12, <1>13, <1>14, <1>15,
     MovesStart
  DEF Pass

\* Every step keeps KnownInv.
LEMMA KnownNext ==
  ASSUME JobInv, StageInv, Unstopped, KnownInv, [Next]_vars
  PROVE  KnownInv'
<1>1. \A j \in queue' \cup timers' \cup d'.todo : jobs'[j].status # "absent"
  <2> SUFFICES ASSUME NEW j \in queue' \cup timers' \cup d'.todo
               PROVE  jobs'[j].status # "absent"
    OBVIOUS
  <2>1. CASE j \in queue \cup timers \cup d.todo
    <3>1. j \in Job /\ jobs[j].status # "absent"
      BY <2>1 DEF JobInv, TypeOK, PassRec, KnownInv
    <3>2. QED BY <3>1, JobsGoOn
  <2>2. CASE AfterLoop /\ j = d.job
    <3>1. d.pc = "after" BY <2>2 DEF AfterLoop, At
    <3>2. j \in Job /\ jobs[j].status \in Begun BY <2>2, <3>1 DEF JobInv, PassHolds, KnownInv
    <3>3. QED BY <3>2, JobsGoOn DEF Begun, TerminalJob
  <2>3. QED BY <2>1, <2>2, QueueSteps
<1>2. KnownPass'
  <2>1. CASE Pass BY <2>1, KnownByPass
  <2>2. CASE UNCHANGED d
    <3>1. d.pc \notin {"idle", "visit"} => d.job \in Job BY DEF JobInv, PassHolds
    <3>2. QED BY <2>2, <3>1, JobsGoOn DEF KnownInv, KnownPass
  <2>3. QED
    BY <2>1, <2>2, NoStops
    DEF StageInv, vars, Client, Submit, RetryJob, RetryTimer, Aggregating, AggregateRead,
        AggregateAdvance, AggregateFinal, AggregateFail, ProcessExit, Exiting, ExitRead,
        ExitFinishing, ExitTerminal, ExitRelease, sched
<1>3. QED BY <1>1, <1>2 DEF KnownInv, KnownPass

LEMMA KnownInit == Init => KnownInv
<1> SUFFICES ASSUME Init PROVE KnownInv OBVIOUS
<1>1. d.pc = "idle" /\ d.job = NoJob /\ d.todo = {} BY IdleFields DEF Init
<1>2. QED BY <1>1 DEF Init, KnownInv, Carrying

\* Where nobody stops a worker, what is queued or in hand is a stored job.
THEOREM QueuedAreStored == ASSUME Unstopped PROVE Spec => []KnownInv
<1>1. JobInv /\ StageInv /\ KnownInv /\ [Next]_vars => KnownInv' BY KnownNext
<1>2. QED BY Invariance, StagesHold, KnownInit, <1>1, PTL DEF Spec

-----------------------------------------------------------------------------
(* Unhandled rejections *)

\* No rejection, and no promise chain a rejection could stay in.
UpInv == up /\ \A j \in Job : ~agg[j].poisoned

\* Where nothing is retried and every job result can be written, no step ends the
\* process: the exit handler finds its worker active, and a failed start finds its
\* job at a status from which failed may be reached.
LEMMA UpNext ==
  ASSUME JobInv, StageInv, KnownInv, Unstopped, MaxRetries = 0, "aggregate" \notin Faults,
         UpInv, [Next]_vars
  PROVE  UpInv'
<1>0. /\ agg \in [Job -> AggRec] /\ exit \in [Worker -> ExitRec]
      /\ \A j \in Job : jobs[j].status \in JobStatus \cup {"absent"} /\ jobs[j].retries \in Nat
  BY DEF JobInv, TypeOK, JobRec
<1>1. CASE UNCHANGED <<agg, up>> BY <1>1 DEF UpInv
<1>2. ASSUME NEW j \in Job, NEW x, UNCHANGED up, Join(j, x) PROVE UpInv'
  BY <1>0, <1>2 DEF UpInv, Join, AggRec
<1>3. ASSUME NEW j \in Job, Aggregating(j) PROVE UpInv'
  <2>1. up' = up BY <1>3, AggregateSteps DEF Aggregating
  <2>2. /\ agg'[j].poisoned = agg[j].poisoned
        /\ \A k \in Job \ {j} : agg'[k] = agg[k]
    <3>1. /\ agg'[j].poisoned # agg[j].poisoned => "aggregate" \in Faults
          /\ \A k \in Job \ {j} : agg'[k] = agg[k]
      BY <1>3, AggregateSteps
    <3>2. QED BY <3>1
  <2>3. QED BY <2>1, <2>2 DEF UpInv
<1>4. ASSUME NEW w \in Worker, ProcessExit(w) \/ Exiting(w) PROVE UpInv'
  <2>1. CASE ProcessExit(w) \/ ExitFinishing(w) \/ ExitTerminal(w)
    BY <1>1, <2>1 DEF ProcessExit, ExitFinishing, ExitTerminal
  <2>2. CASE ExitRead(w)
    <3>1. exit[w].pc = "registered" BY <2>2 DEF ExitRead
    <3>2. workers[w].status = "active" BY <3>1 DEF StageInv, Stage
    <3>3. QED BY <1>1, <2>2, <3>2 DEF ExitRead
  <2>3. CASE ExitRelease(w)
    <3>1. exit[w].rec.job \in Job BY <2>3 DEF ExitRelease, JobInv, Linked
    <3>2. up' = TRUE BY <2>3, <3>1 DEF ExitRelease, UpInv
    <3>3. Join(exit[w].rec.job, w) BY <2>3 DEF ExitRelease
    <3>4. UNCHANGED up BY <3>2 DEF UpInv
    <3>5. QED BY <1>2, <3>1, <3>3, <3>4
  <2>4. QED BY <1>4, <2>1, <2>2, <2>3 DEF Exiting
<1>5. CASE FailureRead
  <2>1. d.pc = "failed" BY <1>5 DEF FailureRead, At
  <2>2. d.job \in Job /\ jobs[d.job].status \in Begun
    BY <2>1 DEF KnownInv, JobInv, PassHolds
  <2>3. ~ShouldRetry(jobs[d.job]) BY <1>0, <2>2 DEF ShouldRetry
  <2>4. ~(/\ jobs[d.job].status \in TerminalJob \cup {"absent", "queued"}
          /\ ShouldRetry(jobs[d.job]) \/ jobs[d.job].status \notin TerminalJob)
    BY <2>2, <2>3 DEF Begun, TerminalJob
  <2>5. UNCHANGED up BY <1>5, <2>4, MovesFail
  <2>6. QED BY <1>1, <1>5, <2>5 DEF FailureRead
<1>6. CASE StartFailed
  <2>1. d.job \in Job BY <1>6 DEF StartFailed, At, JobInv, PassHolds
  <2>2. QED BY <1>2, <1>6, <2>1 DEF StartFailed
<1>7. CASE Pass /\ ~FailureRead /\ ~StartFailed
  <2>1. CASE \/ BeginPass \/ EndPass \/ Prepare \/ LoopTest \/ CreateWorker \/ LinkWorker
             \/ \E j \in Job : DropJob(j) \/ AtCapacity(j) \/ SkipConflict(j) \/ TakeJob(j)
    BY <1>1, <2>1 DEF BeginPass, EndPass, DropJob, AtCapacity, SkipConflict, TakeJob, Prepare,
                LoopTest, CreateWorker, LinkWorker
  <2>2. CASE \/ StartRead \/ StartingWrite \/ DispatchingWrite \/ CreateWorktree \/ Spawn
             \/ ActiveWrite \/ RunningWrite \/ Register \/ HeartbeatRejected
    BY <1>1, <2>2 DEF StartRead, StartingWrite, DispatchingWrite, CreateWorktree, Spawn,
                ActiveWrite, RunningWrite, Register, HeartbeatRejected
  <2>3. CASE AwaitAggregation \/ FailureWrite \/ CreateRetry \/ AfterLoop
    BY <1>1, <2>3 DEF AwaitAggregation, FailureWrite, CreateRetry, AfterLoop
  <2>4. QED BY <1>7, <2>1, <2>2, <2>3 DEF Pass
<1>8. CASE Client \/ UNCHANGED vars \/ \E j \in Job : RetryTimer(j)
  BY <1>1, <1>8, ClientSteps DEF vars, RetryTimer
<1>9. QED BY <1>3, <1>4, <1>5, <1>6, <1>7, <1>8, NoStops DEF StageInv

\* Where nobody stops a worker, no start is retried and every job result can be
\* written, no rejection goes unhandled.
THEOREM RejectionsHandled ==
  ASSUME Unstopped, MaxRetries = 0, "aggregate" \notin Faults
  PROVE  Spec => []StaysUp
<1>1. Init => UpInv BY DEF Init, UpInv
<1>2. JobInv /\ StageInv /\ KnownInv /\ UpInv /\ [Next]_vars => UpInv' BY UpNext
<1>3. UpInv => StaysUp BY DEF UpInv, StaysUp
<1>4. QED BY Invariance, StagesHold, QueuedAreStored, <1>1, <1>2, <1>3, PTL DEF Spec

-----------------------------------------------------------------------------
(* The workers a job lists *)

\* What the records in the store, and those the tasks carry, say of a job's
\* workers: each listed worker was created for the job, and a request for
\* aggregation comes from one.
ListedInv ==
  /\ \A w \in Worker : workers[w].status = "absent" => workers[w].job = NoJob
  /\ \A j \in Job : /\ jobs[j].workerIds \subseteq WorkersOf(j)
                    /\ agg[j].task.pc # "idle"
                         => agg[j].task.rec.workerIds \subseteq WorkersOf(j)
                    /\ agg[j].chain # <<>> => WorkersOf(j) # {}
  /\ d.pc \in Carrying \cup {"prepare", "failWrite"}
       => d.snap.workerIds \subseteq WorkersOf(d.job)

\* A step stores a worker only for the job it belongs to.
LEMMA WorkerWrites ==
  ASSUME JobInv, StageInv, Unstopped, ListedInv, [Next]_vars
  PROVE  \/ UNCHANGED workers
         \/ \E w \in Worker, r \in WorkerRec :
              /\ PutWorker(w, r) /\ r.status # "absent" /\ r.job \in Job
              /\ \/ r.job = workers[w].job
                 \/ CreateWorker /\ workers[w].status = "absent" /\ r.job = d.job
<1>0. /\ workers \in [Worker -> WorkerRec] /\ exit \in [Worker -> ExitRec]
      /\ d.wrec \in WorkerRec
  BY DEF JobInv, TypeOK, PassRec
<1> DEFINE Stores == \E w \in Worker, r \in WorkerRec :
                       /\ PutWorker(w, r) /\ r.status # "absent" /\ r.job \in Job
                       /\ \/ r.job = workers[w].job
                          \/ CreateWorker /\ workers[w].status = "absent" /\ r.job = d.job
<1>1. ASSUME NEW w \in Worker, NEW x \in WorkerRec, x.job = workers[w].job, x.job \in Job,
             NEW s \in WorkerStatus, PutWorker(w, [x EXCEPT !.status = s])
      PROVE  Stores
  <2>1. PICK r : r = [x EXCEPT !.status = s] OBVIOUS
  <2>2. r \in WorkerRec /\ r.status = s /\ r.job = x.job BY <2>1 DEF WorkerRec
  <2>3. s # "absent" BY DEF WorkerStatus
  <2>4. QED BY <1>1, <2>1, <2>2, <2>3
<1>2. CASE CreateWorker
  <2>1. PICK w \in FreshWorker :
          PutWorker(w, [NoWorkerRec EXCEPT !.status = "created", !.job = d.job])
    BY <1>2 DEF CreateWorker
  <2>2. PICK r : r = [NoWorkerRec EXCEPT !.status = "created", !.job = d.job] OBVIOUS
  <2>3. r.status = "created" /\ r.job = d.job BY <2>2 DEF NoWorkerRec
  <2>4. d.job \in Job BY <1>2 DEF CreateWorker, At, JobInv, PassHolds
  <2>5. r \in WorkerRec BY <2>2, <2>4 DEF NoWorkerRec, WorkerRec, WorkerStatus
  <2>6. w \in Worker /\ workers[w].status = "absent" BY DEF FreshWorker
  <2>7. QED BY <1>2, <2>1, <2>2, <2>3, <2>4, <2>5, <2>6
<1>3. CASE StartingWrite \/ ActiveWrite \/ StartFailed
  <2>1. d.pc \in {"starting", "active", "startFailed"}
    BY <1>3 DEF StartingWrite, ActiveWrite, StartFailed, At
  <2>2. d.worker \in Worker /\ d.job \in Job BY <2>1 DEF JobInv, PassHolds, Starting
  <2>3. d.wrec.job = d.job /\ workers[d.worker].job = d.job
    BY <2>1, <2>2 DEF StageInv, Stage, InHand, Starting
  <2>4. CASE StartingWrite
    <3>1. PutWorker(d.worker, [d.wrec EXCEPT !.status = "starting"])
      BY <2>4 DEF StartingWrite
    <3>2. QED BY <1>0, <1>1, <2>2, <2>3, <3>1 DEF WorkerStatus
  <2>5. CASE StartFailed
    <3>1. PutWorker(d.worker, [d.wrec EXCEPT !.status = "failed"]) BY <2>5 DEF StartFailed
    <3>2. QED BY <1>0, <1>1, <2>2, <2>3, <3>1 DEF WorkerStatus
  <2>6. CASE ActiveWrite
    <3>1. PICK r : r = [d.wrec EXCEPT !.status = "active", !.pid = TRUE] OBVIOUS
    <3>2. r \in WorkerRec /\ r.status = "active" /\ r.job = d.wrec.job
      BY <1>0, <3>1 DEF WorkerRec, WorkerStatus
    <3>3. PutWorker(d.worker, r) BY <2>6, <3>1 DEF ActiveWrite
    <3>4. QED BY <2>2, <2>3, <3>2, <3>3
  <2>7. QED BY <1>3, <2>4, <2>5, <2>6
<1>4. ASSUME NEW w \in Worker, ProcessExit(w) \/ Exiting(w) PROVE UNCHANGED workers \/ Stores
  <2>1. CASE ProcessExit(w) \/ ExitRead(w) \/ ExitRelease(w)
    BY <2>1 DEF ProcessExit, ExitRead, ExitRelease, store
  <2>2. CASE ExitFinishing(w) \/ ExitTerminal(w)
    <3>1. exit[w].pc \in {"finishing", "terminal"} BY <2>2 DEF ExitFinishing, ExitTerminal
    <3>2. exit[w].rec.job = workers[w].job /\ exit[w].rec.job \in Job
      BY <3>1 DEF StageInv, Stage, JobInv, Linked
    <3>3. exit[w].rec \in WorkerRec BY <1>0 DEF ExitRec
    <3>4. CASE ExitFinishing(w)
      <4>1. PutWorker(w, [exit[w].rec EXCEPT !.status = "finishing"])
        BY <3>4 DEF ExitFinishing
      <4>2. QED BY <1>1, <3>2, <3>3, <4>1 DEF WorkerStatus
    <3>5. CASE ExitTerminal(w)
      <4>1. PICK s : s = TerminalStatusOf(exit[w].rec, rt[w].proc) OBVIOUS
      <4>2. s \in WorkerStatus BY <4>1 DEF TerminalStatusOf, WorkerStatus
      <4>3. PutWorker(w, [exit[w].rec EXCEPT !.status = s]) BY <3>5, <4>1 DEF ExitTerminal
      <4>4. QED BY <1>1, <3>2, <3>3, <4>2, <4>3
    <3>6. QED BY <2>2, <3>4, <3>5
  <2>3. QED BY <1>4, <2>1, <2>2 DEF Exiting
<1>5. CASE Client \/ UNCHANGED vars \/ \E j \in Job : RetryTimer(j) \/ Aggregating(j)
  BY <1>5, ClientSteps, AggregateSteps DEF vars, RetryTimer, store
<1>6. CASE Pass /\ ~CreateWorker /\ ~StartingWrite /\ ~ActiveWrite /\ ~StartFailed
  <2>1. CASE \/ BeginPass \/ EndPass \/ Prepare \/ LoopTest \/ LinkWorker
             \/ \E j \in Job : DropJob(j) \/ AtCapacity(j) \/ SkipConflict(j) \/ TakeJob(j)
    BY <2>1 DEF BeginPass, EndPass, DropJob, AtCapacity, SkipConflict, TakeJob, Prepare,
                LoopTest, LinkWorker, store
  <2>2. CASE \/ StartRead \/ DispatchingWrite \/ CreateWorktree \/ Spawn
             \/ RunningWrite \/ Register \/ HeartbeatRejected
    BY <2>2 DEF StartRead, DispatchingWrite, CreateWorktree, Spawn, RunningWrite, Register,
                HeartbeatRejected, store
  <2>3. CASE AwaitAggregation \/ FailureRead \/ FailureWrite \/ CreateRetry \/ AfterLoop
    BY <2>3 DEF AwaitAggregation, FailureRead, FailureWrite, CreateRetry, AfterLoop, store
  <2>4. QED BY <1>6, <2>1, <2>2, <2>3 DEF Pass
<1>7. QED BY <1>2, <1>3, <1>4, <1>5, <1>6, NoStops DEF StageInv

\* A worker stays with its job.
LEMMA WorkersStay ==
  ASSUME JobInv, StageInv, Unstopped, ListedInv, [Next]_vars
  PROVE  /\ \A w \in Worker : /\ workers[w].job \in Job => workers'[w].job = workers[w].job
                              /\ workers'[w].status = "absent" => workers'[w].job = NoJob
         /\ \A j \in Job : WorkersOf(j) \subseteq WorkersOf(j)'
         /\ CreateWorker => \A w \in Worker :
              workers'[w].job = workers[w].job \/ workers'[w].job = d.job
<1>0. workers \in [Worker -> WorkerRec] /\ NoJob \notin Job BY Names DEF JobInv, TypeOK, Names
<1>1. CASE UNCHANGED workers BY <1>1 DEF ListedInv, WorkersOf
<1>2. CASE \E w \in Worker, r \in WorkerRec :
             /\ PutWorker(w, r) /\ r.status # "absent" /\ r.job \in Job
             /\ \/ r.job = workers[w].job
                \/ CreateWorker /\ workers[w].status = "absent" /\ r.job = d.job
  <2>1. PICK w \in Worker, r \in WorkerRec :
          /\ PutWorker(w, r) /\ r.status # "absent" /\ r.job \in Job
          /\ \/ r.job = workers[w].job
             \/ CreateWorker /\ workers[w].status = "absent" /\ r.job = d.job
    BY <1>2
  <2>2. workers'[w] = r /\ \A v \in Worker : v # w => workers'[v] = workers[v]
    BY <1>0, <2>1 DEF PutWorker
  <2>3. workers[w].job \in Job => workers[w].job = r.job
    BY <1>0, <2>1 DEF ListedInv
  <2>4. QED BY <1>0, <2>1, <2>2, <2>3 DEF ListedInv, WorkersOf
<1>3. QED BY <1>1, <1>2, WorkerWrites

\* Who asks for an aggregation, and what one does to its chain.
LEMMA ChainSteps ==
  ASSUME JobInv, StageInv, Unstopped, [Next]_vars
  PROVE  \/ UNCHANGED agg
         \/ StartFailed /\ d.job \in Job /\ Join(d.job, Dispatcher)
         \/ \E w \in Worker : /\ ExitRelease(w) /\ workers[w].job \in Job
                              /\ Join(workers[w].job, w)
         \/ \E j \in Job : Aggregating(j)
<1>1. CASE Client \/ UNCHANGED vars \/ \E j \in Job : RetryTimer(j)
  BY <1>1, ClientSteps DEF vars, RetryTimer
<1>2. ASSUME NEW w \in Worker, ProcessExit(w) \/ Exiting(w)
      PROVE  \/ UNCHANGED agg
             \/ ExitRelease(w) /\ workers[w].job \in Job /\ Join(workers[w].job, w)
  <2>1. CASE ExitRelease(w)
    <3>1. exit[w].pc = "release" /\ Join(exit[w].rec.job, w) BY <2>1 DEF ExitRelease
    <3>2. exit[w].rec.job = workers[w].job /\ exit[w].rec.job \in Job
      BY <3>1 DEF StageInv, Stage, JobInv, Linked
    <3>3. QED BY <2>1, <3>1, <3>2
  <2>2. QED BY <1>2, <2>1 DEF Exiting, ProcessExit, ExitRead, ExitFinishing, ExitTerminal
<1>3. CASE Pass
  <2>1. CASE StartFailed
    <3>1. d.pc = "startFailed" /\ Join(d.job, Dispatcher) BY <2>1 DEF StartFailed, At
    <3>2. d.job \in Job BY <3>1 DEF JobInv, PassHolds
    <3>3. QED BY <2>1, <3>1, <3>2
  <2>2. CASE \/ BeginPass \/ EndPass \/ Prepare \/ LoopTest \/ CreateWorker \/ LinkWorker
             \/ \E j \in Job : DropJob(j) \/ AtCapacity(j) \/ SkipConflict(j) \/ TakeJob(j)
    BY <2>2 DEF BeginPass, EndPass, DropJob, AtCapacity, SkipConflict, TakeJob, Prepare,
                LoopTest, CreateWorker, LinkWorker
  <2>3. CASE \/ StartRead \/ StartingWrite \/ DispatchingWrite \/ CreateWorktree \/ Spawn
             \/ ActiveWrite \/ RunningWrite \/ Register \/ HeartbeatRejected
    BY <2>3 DEF StartRead, StartingWrite, DispatchingWrite, CreateWorktree, Spawn,
                ActiveWrite, RunningWrite, Register, HeartbeatRejected
  <2>4. CASE AwaitAggregation \/ FailureRead \/ FailureWrite \/ CreateRetry \/ AfterLoop
    BY <2>4 DEF AwaitAggregation, FailureRead, FailureWrite, CreateRetry, AfterLoop
  <2>5. QED BY <1>3, <2>1, <2>2, <2>3, <2>4 DEF Pass
<1>4. QED BY <1>1, <1>2, <1>3, NoStops DEF StageInv

\* A request lengthens one chain, unless it is rejected, and touches no task.
LEMMA JoinChain ==
  ASSUME JobInv, NEW j \in Job, NEW x \in Requester, Join(j, x)
  PROVE  /\ \A k \in Job : agg'[k].task = agg[k].task
         /\ \A k \in Job \ {j} : agg'[k].chain = agg[k].chain
         /\ agg'[j].chain = IF agg[j].poisoned THEN agg[j].chain ELSE Append(agg[j].chain, x)
BY DEF JobInv, TypeOK, AggRec, Join

\* The jobs, and the records their aggregations hold, list workers of theirs.
LEMMA ListedJobs ==
  ASSUME JobInv, StageInv, Unstopped, KnownInv, ListedInv, [Next]_vars, NEW j \in Job
  PROVE  /\ jobs'[j].workerIds \subseteq WorkersOf(j)'
         /\ agg'[j].task.pc # "idle" => agg'[j].task.rec.workerIds \subseteq WorkersOf(j)'
         /\ agg'[j].chain # <<>> => WorkersOf(j)' # {}
<1>0. /\ WorkersOf(j) \subseteq WorkersOf(j)' /\ jobs[j].workerIds \subseteq WorkersOf(j)
      /\ agg[j].task.pc # "idle" => agg[j].task.rec.workerIds \subseteq WorkersOf(j)
      /\ agg[j].chain # <<>> => WorkersOf(j) # {}
  BY WorkersStay DEF ListedInv
<1>1. jobs'[j].workerIds \subseteq WorkersOf(j)'
  <2>1. CASE UNCHANGED jobs BY <1>0, <2>1
  <2>2. ASSUME NEW k \in Job, NEW s, NEW ids, Wrote(k, s, ids), k = j => ids \subseteq WorkersOf(j)
        PROVE  jobs'[j].workerIds \subseteq WorkersOf(j)'
    BY <1>0, <2>2 DEF Wrote
  <2>3. CASE Client BY <2>2, <2>3, ClientSteps
  <2>4. ASSUME NEW k \in Job, Aggregating(k) PROVE jobs'[j].workerIds \subseteq WorkersOf(j)'
    <3>1. CASE \E s \in Begun :
                 agg[k].task.pc # "idle" /\ Wrote(k, s, agg[k].task.rec.workerIds)
      BY <2>2, <3>1 DEF ListedInv
    <3>2. QED BY <2>1, <2>4, <3>1, AggregateWrites
  <2>5. CASE Pass
    <3>1. ASSUME NEW s, d.pc \in Carrying \cup {"prepare", "failWrite"},
                 \/ Wrote(d.job, s, d.snap.workerIds)
                 \/ LinkWorker /\ Wrote(d.job, s, d.snap.workerIds \cup {d.worker})
          PROVE  jobs'[j].workerIds \subseteq WorkersOf(j)'
      <4>1. d.job \in Job /\ d.snap.workerIds \subseteq WorkersOf(d.job)
        BY <3>1 DEF ListedInv, Wrote
      <4>2. CASE Wrote(d.job, s, d.snap.workerIds) BY <2>2, <4>1, <4>2
      <4>3. CASE LinkWorker /\ Wrote(d.job, s, d.snap.workerIds \cup {d.worker})
        <5>1. d.pc = "link" BY <4>3 DEF LinkWorker, At
        <5>2. d.worker \in Worker BY <5>1 DEF JobInv, PassHolds, Starting
        <5>3. d.worker \in WorkersOf(d.job)
          BY <5>1, <5>2 DEF StageInv, Stage, InHand, Starting, WorkersOf
        <5>4. QED BY <2>2, <4>1, <4>3, <5>3
      <4>4. QED BY <3>1, <4>2, <4>3
    <3>2. ASSUME NEW r \in FreshJob, Wrote(r, "queued", {})
          PROVE  jobs'[j].workerIds \subseteq WorkersOf(j)'
      BY <2>2, <3>2 DEF FreshJob
    <3>3. QED BY <2>1, <2>5, <3>1, <3>2, PassWrites
  <2>6. QED
    BY <2>1, <2>3, <2>4, <2>5, NoStops
    DEF StageInv, vars, RetryTimer, ProcessExit, Exiting, ExitRead, ExitFinishing,
        ExitTerminal, ExitRelease, store
<1>2. /\ agg'[j].task.pc # "idle" => agg'[j].task.rec.workerIds \subseteq WorkersOf(j)'
      /\ agg'[j].chain # <<>> => WorkersOf(j)' # {}
  <2>1. CASE UNCHANGED agg BY <1>0, <2>1
  <2>2. ASSUME NEW k \in Job, NEW x \in Requester, Join(k, x), WorkersOf(k) # {}
        PROVE  /\ agg'[j].task.pc # "idle" => agg'[j].task.rec.workerIds \subseteq WorkersOf(j)'
               /\ agg'[j].chain # <<>> => WorkersOf(j)' # {}
    BY <1>0, <2>2, JoinChain
  <2>3. CASE StartFailed /\ d.job \in Job /\ Join(d.job, Dispatcher)
    <3>1. d.pc = "startFailed" BY <2>3 DEF StartFailed, At
    <3>2. d.worker \in Worker BY <3>1 DEF JobInv, PassHolds, Starting
    <3>3. d.worker \in WorkersOf(d.job)
      BY <3>1, <3>2 DEF StageInv, Stage, InHand, Starting, WorkersOf
    <3>4. QED BY <2>2, <2>3, <3>3 DEF Requester
  <2>4. CASE \E w \in Worker : workers[w].job \in Job /\ Join(workers[w].job, w)
    <3>1. PICK w \in Worker : workers[w].job \in Job /\ Join(workers[w].job, w) BY <2>4
    <3>2. PICK k \in Job : k = workers[w].job BY <3>1
    <3>3. w \in WorkersOf(k) BY <3>2 DEF WorkersOf
    <3>4. QED BY <2>2, <3>1, <3>2, <3>3 DEF Requester
  <2>5. ASSUME NEW k \in Job, Aggregating(k)
        PROVE  /\ agg'[j].task.pc # "idle" => agg'[j].task.rec.workerIds \subseteq WorkersOf(j)'
               /\ agg'[j].chain # <<>> => WorkersOf(j)' # {}
    <3>1. CASE k # j
      <4>1. agg'[j] = agg[j] BY <2>5, <3>1, AggregateSteps
      <4>2. QED BY <1>0, <4>1
    <3>2. CASE k = j
      <4>1. agg[j].chain # <<>>
        <5>1. agg[j].chain # <<>> \/ agg[j].task.pc # "idle"
          BY <2>5, <3>2, AggregateSteps DEF Aggregating
        <5>2. QED BY <5>1 DEF JobInv, Awaited
      <4>2. agg'[j].task.pc # "idle" =>
              \/ agg'[j].task.rec = jobs[j]
              \/ /\ agg[j].task.pc # "idle"
                 /\ agg'[j].task.rec.workerIds = agg[j].task.rec.workerIds
        BY <2>5, <3>2, AggregateSteps DEF Aggregating, Wrote
      <4>3. QED BY <1>0, <4>1, <4>2
    <3>3. QED BY <3>1, <3>2
  <2>6. QED BY <2>1, <2>3, <2>4, <2>5, ChainSteps
<1>3. QED BY <1>1, <1>2

\* Which snapshot the pass holds next: none, the same, the record it reads or the
\* one it has written.
LEMMA SnapSteps ==
  ASSUME JobInv, StageInv, Unstopped, Pass
  PROVE  \/ d'.pc \notin Carrying \cup {"prepare", "failWrite"}
         \/ \E j \in Job : TakeJob(j) /\ UNCHANGED jobs /\ d'.job = j /\ d'.snap = jobs[j]
         \/ d.pc \notin {"idle", "visit"} /\ d'.job = d.job
            /\ (d'.snap = jobs[d.job] \/ d'.snap = jobs'[d.job])
         \/ /\ d.pc \in Carrying /\ d'.job = d.job /\ d'.snap = d.snap
<1>1. CASE BeginPass \/ EndPass \/ AfterLoop BY <1>1, MovesVisit DEF Moves, Carrying
<1>2. ASSUME NEW j \in Job, DropJob(j) \/ AtCapacity(j) \/ SkipConflict(j) \/ TakeJob(j)
      PROVE  \/ d'.pc \notin Carrying \cup {"prepare", "failWrite"}
             \/ TakeJob(j) /\ UNCHANGED jobs /\ d'.job = j /\ d'.snap = jobs[j]
  BY <1>2, MovesVisit DEF Moves, Carrying, TakeJob, store
<1>3. CASE Prepare \/ LoopTest \/ CreateWorker \/ LinkWorker
  BY <1>3, MovesCreate DEF Moves, Carrying
<1>4. CASE StartRead \/ StartingWrite \/ CreateWorktree \/ Spawn \/ ActiveWrite \/ Register
           \/ HeartbeatRejected
  BY <1>4, MovesStart DEF Moves, Carrying
<1>5. CASE DispatchingWrite \/ RunningWrite BY <1>5, MovesOn DEF Moves, Carrying
<1>6. CASE StartFailed \/ AwaitAggregation \/ FailureRead \/ FailureWrite \/ CreateRetry
  BY <1>6, MovesFail DEF Moves, Carrying
<1>7. QED BY <1>1, <1>2, <1>3, <1>4, <1>5, <1>6 DEF Pass

\* Every step keeps ListedInv.
LEMMA ListedNext ==
  ASSUME JobInv, StageInv, Unstopped, KnownInv, ListedInv, [Next]_vars
  PROVE  ListedInv'
<1>1. \A w \in Worker : workers'[w].status = "absent" => workers'[w].job = NoJob
  BY WorkersStay
<1>2. (d.pc \in Carrying \cup {"prepare", "failWrite"}
         => d.snap.workerIds \subseteq WorkersOf(d.job))'
  <2> SUFFICES ASSUME d'.pc \in Carrying \cup {"prepare", "failWrite"}
               PROVE  (d.snap.workerIds \subseteq WorkersOf(d.job))'
    OBVIOUS
  <2>1. d.pc \notin {"idle", "visit"} => d.job \in Job BY DEF JobInv, PassHolds
  <2>2. ASSUME NEW j \in Job, d'.job = j, d'.snap.workerIds \subseteq WorkersOf(j)'
        PROVE  (d.snap.workerIds \subseteq WorkersOf(d.job))'
    BY <2>2 DEF WorkersOf
  <2>3. CASE UNCHANGED d
    <3>1. d.job \in Job BY <2>1, <2>3 DEF Carrying
    <3>2. d.snap.workerIds \subseteq WorkersOf(d.job) BY <2>3 DEF ListedInv
    <3>3. PICK j \in Job : j = d.job BY <3>1
    <3>4. WorkersOf(j) \subseteq WorkersOf(j)' BY WorkersStay
    <3>5. QED BY <2>2, <2>3, <3>2, <3>3, <3>4
  <2>4. CASE Pass
    <3>1. CASE \E j \in Job : TakeJob(j) /\ UNCHANGED jobs /\ d'.job = j /\ d'.snap = jobs[j]
      <4>1. PICK j \in Job : UNCHANGED jobs /\ d'.job = j /\ d'.snap = jobs[j] BY <3>1
      <4>2. jobs[j].workerIds \subseteq WorkersOf(j) /\ WorkersOf(j) \subseteq WorkersOf(j)'
        BY WorkersStay DEF ListedInv
      <4>3. QED BY <2>2, <4>1, <4>2
    <3>2. CASE /\ d.pc \notin {"idle", "visit"} /\ d'.job = d.job
               /\ d'.snap = jobs[d.job] \/ d'.snap = jobs'[d.job]
      <4>1. PICK j \in Job : j = d.job BY <2>1, <3>2
      <4>2. jobs[j].workerIds \subseteq WorkersOf(j) /\ WorkersOf(j) \subseteq WorkersOf(j)'
        BY WorkersStay DEF ListedInv
      <4>3. jobs'[j].workerIds \subseteq WorkersOf(j)' BY ListedJobs
      <4>4. d'.snap = jobs[j] \/ d'.snap = jobs'[j] BY <3>2, <4>1
      <4>5. QED BY <2>2, <3>2, <4>1, <4>2, <4>3, <4>4
    <3>3. CASE d.pc \in Carrying /\ d'.job = d.job /\ d'.snap = d.snap
      <4>1. PICK j \in Job : j = d.job BY <2>1, <3>3 DEF Carrying
      <4>2. d.snap.workerIds \subseteq WorkersOf(j) /\ WorkersOf(j) \subseteq WorkersOf(j)'
        BY <3>3, <4>1, WorkersStay DEF ListedInv
      <4>3. QED BY <2>2, <3>3, <4>1, <4>2
    <3>4. QED BY <2>4, <3>1, <3>2, <3>3, SnapSteps
  <2>5. QED
    BY <2>3, <2>4, NoStops
    DEF StageInv, vars, Client, Submit, RetryJob, RetryTimer, Aggregating, AggregateRead,
        AggregateAdvance, AggregateFinal, AggregateFail, ProcessExit, Exiting, ExitRead,
        ExitFinishing, ExitTerminal, ExitRelease, sched
<1>3. QED BY <1>1, <1>2, ListedJobs DEF ListedInv

LEMMA ListedInit == Init => ListedInv
<1> SUFFICES ASSUME Init PROVE ListedInv OBVIOUS
<1>1. d.pc = "idle" BY IdleFields DEF Init
<1>2. PICK r0, n0, a0 : /\ r0 = NoJobRec /\ n0 = NoWorkerRec
                        /\ a0 = [task |-> IdleAgg, chain |-> <<>>, poisoned |-> FALSE]
  OBVIOUS
<1>3. /\ r0.workerIds = {} /\ n0.job = NoJob /\ a0.task = IdleAgg /\ a0.chain = <<>>
      /\ IdleAgg.pc = "idle"
  BY <1>2 DEF NoJobRec, NoWorkerRec, IdleAgg
<1>4. /\ jobs = [j \in Job |-> r0] /\ workers = [w \in Worker |-> n0]
      /\ agg = [j \in Job |-> a0]
  BY <1>2 DEF Init
<1>5. QED BY <1>1, <1>3, <1>4 DEF ListedInv, Carrying

\* Where nobody stops a worker, a job lists only workers created for it.
THEOREM ListedAreOwn == ASSUME Unstopped PROVE Spec => []ListedInv
<1>1. JobInv /\ StageInv /\ KnownInv /\ ListedInv /\ [Next]_vars => ListedInv' BY ListedNext
<1>2. QED BY Invariance, StagesHold, QueuedAreStored, ListedInit, <1>1, PTL DEF Spec

-----------------------------------------------------------------------------
(* Whose turn it is to move a job on *)

\* From a job's turn in the pass until a start fails.
Handling == {"prepare", "loop", "create"} \cup (Starting \ {"startFailed"})

\* A job that has ended is not being aggregated.
Quiet(j) == jobs[j].status \in TerminalJob => agg[j].task.pc = "idle"

\* Nor does the pass, while it handles a job, hold an older end of it.
TurnInv ==
  d.pc \in Handling =>
    /\ Quiet(d.job)
    /\ d.pc \in Carrying /\ d.snap.status \in TerminalJob => jobs[d.job].status \in TerminalJob

\* The pass runs no aggregation.
LEMMA PassTasks ==
  ASSUME JobInv, Pass
  PROVE  \A k \in Job : agg'[k].task = agg[k].task
<1>1. CASE StartFailed
  <2>1. d.job \in Job /\ Join(d.job, Dispatcher)
    BY <1>1 DEF StartFailed, At, JobInv, PassHolds
  <2>2. QED BY <2>1, JoinChain DEF Requester
<1>2. CASE \/ BeginPass \/ EndPass \/ Prepare \/ LoopTest \/ CreateWorker \/ LinkWorker
           \/ \E j \in Job : DropJob(j) \/ AtCapacity(j) \/ SkipConflict(j) \/ TakeJob(j)
  BY <1>2 DEF BeginPass, EndPass, DropJob, AtCapacity, SkipConflict, TakeJob, Prepare,
              LoopTest, CreateWorker, LinkWorker
<1>3. CASE \/ StartRead \/ StartingWrite \/ DispatchingWrite \/ CreateWorktree \/ Spawn
           \/ ActiveWrite \/ RunningWrite \/ Register \/ HeartbeatRejected
  BY <1>3 DEF StartRead, StartingWrite, DispatchingWrite, CreateWorktree, Spawn,
              ActiveWrite, RunningWrite, Register, HeartbeatRejected
<1>4. CASE AwaitAggregation \/ FailureRead \/ FailureWrite \/ CreateRetry \/ AfterLoop
  BY <1>4 DEF AwaitAggregation, FailureRead, FailureWrite, CreateRetry, AfterLoop
<1>5. QED BY <1>1, <1>2, <1>3, <1>4 DEF Pass

\* A job that is quiet stays quiet, and ended, unless the pass writes it.
LEMMA QuietKept ==
  ASSUME JobInv, StageInv, Unstopped, KnownInv, [Next]_vars, NEW j \in Job, Quiet(j),
         Pass => d.job # j \/ d.pc \notin Carrying \cup {"prepare", "failWrite"} \/ UNCHANGED jobs
  PROVE  /\ Quiet(j)'
         /\ jobs[j].status \in TerminalJob => jobs'[j].status \in TerminalJob
<1>1. CASE jobs'[j] = jobs[j] /\ agg'[j].task = agg[j].task BY <1>1 DEF Quiet
<1>2. CASE Client
  <2>1. PICK k \in Job : jobs[k].status = "absent" /\ Wrote(k, "queued", {})
    BY <1>2, ClientSteps
  <2>2. agg' = agg BY <1>2, ClientSteps
  <2>3. QED BY <1>1, <2>1, <2>2 DEF Wrote, Quiet, TerminalJob
<1>3. ASSUME NEW k \in Job, Aggregating(k), k # j
      PROVE  jobs'[j] = jobs[j] /\ agg'[j].task = agg[j].task
  BY <1>3, AggregateSteps, AggregateWrites DEF Wrote
<1>4. CASE Aggregating(j)
  <2>1. CASE AggregateRead(j)
    <3>1. UNCHANGED jobs /\ (Ready(j) \/ agg'[j].task.pc = "idle") BY <2>1, AggregateSteps
    <3>2. QED BY <3>1 DEF Ready, Quiet
  <2>2. CASE AggregateAdvance(j)
    <3>1. jobs[j].status \notin TerminalJob BY <2>2, AggregateSteps DEF Quiet
    <3>2. agg[j].task.rec.status \in JobStatus \cup {"absent"}
      BY DEF JobInv, TypeOK, AggRec, AggTask, JobRec
    <3>3. jobs'[j].status \notin TerminalJob
      BY <2>2, <3>1, <3>2, AggregateSteps, NextOnwardAggregating DEF Wrote, TerminalJob
    <3>4. QED BY <3>1, <3>3 DEF Quiet
  <2>3. CASE AggregateFinal(j) \/ AggregateFail(j)
    <3>1. agg[j].task.pc = "final" /\ agg'[j].task.pc = "idle" BY <2>3, AggregateSteps
    <3>2. QED BY <3>1 DEF Quiet
  <2>4. QED BY <1>4, <2>1, <2>2, <2>3 DEF Aggregating
<1>5. CASE Pass
  <2>1. agg'[j].task = agg[j].task BY <1>5, PassTasks
  <2>2. CASE UNCHANGED jobs BY <1>1, <2>1, <2>2
  <2>3. CASE \E r \in FreshJob : Wrote(r, "queued", {})
    BY <1>1, <2>1, <2>3 DEF Wrote, FreshJob, TerminalJob, Quiet
  <2>4. CASE \E s, ids : d.job # j /\ Wrote(d.job, s, ids) BY <1>1, <2>1, <2>4 DEF Wrote
  <2>5. QED BY <1>5, <2>2, <2>3, <2>4, PassWrites
<1>6. CASE \E k \in Job : RetryTimer(k) BY <1>1, <1>6 DEF RetryTimer, store
<1>7. CASE UNCHANGED vars BY <1>1, <1>7 DEF vars
<1>8. CASE \E w \in Worker : ProcessExit(w) \/ Exiting(w)
  <2>1. UNCHANGED jobs
    BY <1>8 DEF ProcessExit, Exiting, ExitRead, ExitFinishing, ExitTerminal, ExitRelease, store
  <2>2. agg'[j].task = agg[j].task
    <3>1. CASE \E w \in Worker : ExitRelease(w)
      <4>1. PICK w \in Worker : ExitRelease(w) BY <3>1
      <4>2. exit[w].rec.job \in Job /\ Join(exit[w].rec.job, w)
        BY <4>1 DEF ExitRelease, JobInv, Linked
      <4>3. PICK k \in Job : k = exit[w].rec.job BY <4>2
      <4>4. w \in Requester /\ Join(k, w) BY <4>2, <4>3 DEF Requester
      <4>5. QED BY <4>4, JoinChain
    <3>2. QED BY <1>8, <3>1 DEF ProcessExit, Exiting, ExitRead, ExitFinishing, ExitTerminal
  <2>3. QED BY <1>1, <2>1, <2>2
<1>9. QED BY <1>1, <1>2, <1>3, <1>4, <1>5, <1>6, <1>7, <1>8, NoStops DEF StageInv

\* Every step keeps TurnInv.
LEMMA TurnNext ==
  ASSUME JobInv, StageInv, Unstopped, KnownInv, TurnInv, [Next]_vars
  PROVE  TurnInv'
<1> SUFFICES ASSUME d'.pc \in Handling PROVE TurnInv' BY DEF TurnInv
<1>0. /\ d.pc \notin {"idle", "visit"} => d.job \in Job
      /\ d.snap.status \in JobStatus \cup {"absent"}
  BY DEF JobInv, PassHolds, TypeOK, PassRec, JobRec
<1>1. ASSUME NEW j \in Job, d'.job = j, Quiet(j)',
             d'.pc \in Carrying /\ d'.snap.status \in TerminalJob
               => jobs'[j].status \in TerminalJob
      PROVE  TurnInv'
  BY <1>1 DEF TurnInv, Quiet
<1>2. CASE UNCHANGED d /\ ~Pass
  <2>1. PICK j \in Job : j = d.job BY <1>0, <1>2 DEF Handling, Starting
  <2>2. Quiet(j) BY <1>2, <2>1 DEF TurnInv
  <2>3. /\ Quiet(j)'
        /\ jobs[j].status \in TerminalJob => jobs'[j].status \in TerminalJob
    BY <1>2, <2>2, QuietKept
  <2>4. QED BY <1>1, <1>2, <2>1, <2>3 DEF TurnInv
<1>3. ASSUME NEW j \in Job, d.job = j, d'.job = j, d.pc \in Handling, Pass, UNCHANGED jobs,
             d'.snap = jobs[j] \/ d'.pc \notin Carrying \/ (d.pc \in Carrying /\ d'.snap = d.snap)
      PROVE  TurnInv'
  <2>1. Quiet(j) BY <1>3 DEF TurnInv
  <2>2. Quiet(j)' BY <1>3, <2>1, QuietKept
  <2>3. d'.pc \in Carrying /\ d'.snap.status \in TerminalJob => jobs'[j].status \in TerminalJob
    BY <1>3 DEF TurnInv
  <2>4. QED BY <1>1, <1>3, <2>2, <2>3
<1>4. ASSUME NEW j \in Job, TakeJob(j) PROVE TurnInv'
  <2>1. Moves("prepare", d.todo \ {j}, j, jobs[j], d.worker) BY <1>4, MovesVisit
  <2>2. jobs'[j].status \notin TerminalJob BY <1>4 DEF TakeJob, NotNeeded, store
  <2>3. QED BY <1>1, <2>1, <2>2 DEF Moves, Quiet, Carrying
<1>5. CASE Prepare
  <2>1. /\ d.pc = "prepare" /\ Moves("loop", d.todo, d.job, NoJobRec, d.worker)
        /\ UNCHANGED jobs \/ Wrote(d.job, "preparing", d.snap.workerIds)
    BY <1>5, MovesCreate
  <2>2. PICK j \in Job : j = d.job BY <1>0, <2>1
  <2>3. CASE UNCHANGED jobs
    BY <1>3, <1>5, <2>1, <2>2, <2>3 DEF Moves, Carrying, Handling, Pass
  <2>4. CASE Wrote(d.job, "preparing", d.snap.workerIds)
    BY <1>1, <2>1, <2>2, <2>4 DEF Moves, Carrying, Wrote, Quiet, TerminalJob
  <2>5. QED BY <2>1, <2>3, <2>4
<1>6. CASE LoopTest \/ CreateWorker
  <2>1. /\ d.pc \in {"loop", "create"} /\ d'.job = d.job /\ UNCHANGED jobs
        /\ d'.snap = jobs[d.job] \/ d'.pc \notin Carrying \/ (d.pc \in Carrying /\ d'.snap = d.snap)
    BY <1>6, MovesCreate DEF Moves, Carrying, LoopTest, CreateWorker, store
  <2>2. PICK j \in Job : j = d.job BY <1>0, <2>1
  <2>3. QED BY <1>3, <1>6, <2>1, <2>2 DEF Handling, Pass
<1>7. CASE LinkWorker
  <2>1. /\ d.pc = "link" /\ Moves("start", d.todo, d.job, d.snap, d.worker)
        /\ Wrote(d.job, d.snap.status, d.snap.workerIds \cup {d.worker})
    BY <1>7, MovesCreate
  <2>2. PICK j \in Job : j = d.job BY <1>0, <2>1
  <2>3. agg'[j].task = agg[j].task BY <1>7, PassTasks DEF Pass
  <2>4. Quiet(j)'
    BY <2>1, <2>2, <2>3 DEF TurnInv, Handling, Starting, Carrying, Wrote, Quiet
  <2>5. QED BY <1>1, <2>1, <2>2, <2>4 DEF Moves, Carrying
<1>8. CASE StartRead \/ StartingWrite \/ CreateWorktree \/ Spawn \/ ActiveWrite \/ Register
           \/ HeartbeatRejected
  <2>1. /\ d.pc \in Starting \ {"startFailed"} /\ d'.job = d.job /\ UNCHANGED jobs
        /\ d'.snap = jobs[d.job] \/ d'.pc \notin Carrying \/ (d.pc \in Carrying /\ d'.snap = d.snap)
    BY <1>8, MovesStart
    DEF Moves, Carrying, Starting, StartRead, StartingWrite, CreateWorktree, Spawn,
        ActiveWrite, Register, store
  <2>2. PICK j \in Job : j = d.job BY <1>0, <2>1 DEF Starting
  <2>3. Pass BY <1>8 DEF Pass
  <2>4. QED BY <1>3, <2>1, <2>2, <2>3 DEF Handling
<1>9. CASE DispatchingWrite \/ RunningWrite
  <2>1. PICK t \in {"dispatching", "running"} :
          /\ d.pc \in {"dispatching", "running"} /\ d'.job = d.job
          /\ \/ UNCHANGED jobs /\ d'.snap = d.snap
             \/ /\ ~Past(d.snap.status, t)
                /\ Wrote(d.job, NextStatus(d.snap.status, t), d.snap.workerIds)
                /\ d'.snap = jobs'[d.job]
    BY <1>9, MovesOn DEF Moves
  <2>2. PICK j \in Job : j = d.job BY <1>0, <2>1
  <2>3. Pass /\ d.pc \in Handling /\ d.pc \in Carrying
    BY <1>9, <2>1 DEF Pass, Handling, Starting, Carrying
  <2>4. CASE UNCHANGED jobs /\ d'.snap = d.snap BY <1>3, <2>1, <2>2, <2>3, <2>4
  <2>5. CASE /\ ~Past(d.snap.status, t) /\ d'.snap = jobs'[d.job]
             /\ Wrote(d.job, NextStatus(d.snap.status, t), d.snap.workerIds)
    <3>1. NextStatus(d.snap.status, t) \notin TerminalJob
      BY <1>0, <2>5, NextOnward DEF TerminalJob
    <3>2. QED BY <1>1, <2>1, <2>2, <2>5, <3>1 DEF Wrote, Quiet
  <2>6. QED BY <2>1, <2>4, <2>5
<1>10. CASE StartFailed \/ AwaitAggregation \/ FailureRead \/ FailureWrite \/ CreateRetry
  BY <1>10, MovesFail DEF Moves, Handling, Starting
<1>11. CASE BeginPass \/ EndPass \/ AfterLoop
            \/ \E j \in Job : DropJob(j) \/ AtCapacity(j) \/ SkipConflict(j)
  BY <1>11, MovesVisit DEF Moves, Handling, Starting
<1>12. CASE Pass
  BY <1>4, <1>5, <1>6, <1>7, <1>8, <1>9, <1>10, <1>11, <1>12 DEF Pass
<1>13. CASE ~Pass
  BY <1>2, <1>13, NoStops
  DEF StageInv, vars, Client, Submit, RetryJob, RetryTimer, Aggregating, AggregateRead,
      AggregateAdvance, AggregateFinal, AggregateFail, ProcessExit, Exiting, ExitRead,
      ExitFinishing, ExitTerminal, ExitRelease, sched
<1>14. QED BY <1>12, <1>13

-----------------------------------------------------------------------------
(* Records left behind by a start that failed *)

\* A record at starting that nobody is starting.
Stray(w) == workers[w].status = "starting" /\ exit[w].pc = "none" /\ ~InHand(w)

\* A job that has ended for good: the pass will not write it, nor an aggregation.
Ended(j) ==
  /\ jobs[j].status \in TerminalJob /\ agg[j].task.pc = "idle"
  /\ d.job = j => d.pc \in {"failed", "retry", "after"}

StrayInv == \A w \in Worker : Stray(w) => Ended(workers[w].job)

\* The worktree of a start is there, or none is wanted.
TreesCreated == ~(WriteCapable /\ "worktree" \in Faults)

\* Which job the pass has in hand next.
LEMMA PassHand ==
  ASSUME JobInv, StageInv, Unstopped, Pass
  PROVE  \/ d.pc \notin {"idle", "visit"} /\ d'.job = d.job /\ ~AfterLoop
         \/ \E j \in Job : TakeJob(j) /\ d'.job = j
         \/ \E j \in Job : (DropJob(j) \/ SkipConflict(j)) /\ d.pc = "visit" /\ d'.job = d.job
         \/ /\ d'.job = NoJob
            /\ \/ d.pc \in {"idle", "visit"} /\ queue' = queue
               \/ AfterLoop
               \/ /\ FailureRead /\ d.pc = "failed"
                  /\ jobs[d.job].status \in TerminalJob \cup {"absent", "queued"}
<1>1. CASE BeginPass \/ EndPass \/ \E j \in Job : AtCapacity(j)
  BY <1>1, MovesVisit DEF Moves, BeginPass, EndPass, AtCapacity
<1>2. CASE \E j \in Job : DropJob(j) \/ SkipConflict(j) \/ TakeJob(j)
  BY <1>2, MovesVisit DEF Moves
<1>3. CASE AfterLoop BY <1>3, MovesVisit DEF Moves
<1>4. CASE Prepare \/ LoopTest \/ CreateWorker \/ LinkWorker
  BY <1>4, MovesCreate, MovesVisit DEF Moves
<1>5. CASE StartRead \/ StartingWrite \/ CreateWorktree \/ Spawn \/ ActiveWrite \/ Register
           \/ HeartbeatRejected
  BY <1>5, MovesStart, MovesVisit DEF Moves
<1>6. CASE DispatchingWrite \/ RunningWrite BY <1>6, MovesOn, MovesVisit DEF Moves
<1>7. CASE StartFailed \/ AwaitAggregation \/ FailureRead \/ FailureWrite \/ CreateRetry
  BY <1>7, MovesFail, MovesVisit DEF Moves
<1>8. QED BY <1>1, <1>2, <1>3, <1>4, <1>5, <1>6, <1>7 DEF Pass

\* A job that has ended for good stays so.
LEMMA EndedKept ==
  ASSUME JobInv, StageInv, Unstopped, KnownInv, [Next]_vars, NEW j \in Job, Ended(j)
  PROVE  Ended(j)'
<1>1. Quiet(j)' /\ jobs'[j].status \in TerminalJob
  BY QuietKept DEF Ended, Quiet, Carrying
<1>2. CASE UNCHANGED d BY <1>1, <1>2 DEF Ended, Quiet
<1>3. CASE Pass
  <2> SUFFICES ASSUME d'.job = j PROVE d'.pc \in {"failed", "retry", "after"}
    BY <1>1 DEF Ended, Quiet
  <2>0. j # NoJob BY Names DEF Names
  <2>1. d.job = j /\ d.pc \notin {"idle", "visit"} /\ ~AfterLoop
    <3>1. ~TakeJob(j) BY DEF TakeJob, NotNeeded, Ended
    <3>2. d.pc \in {"idle", "visit"} => d.job = NoJob BY DEF KnownInv
    <3>3. ASSUME NEW k \in Job, DropJob(k) PROVE d.pc = "visit" /\ d'.job = d.job
      BY <3>3, MovesVisit DEF Moves
    <3>4. QED BY <1>3, <2>0, <3>1, <3>2, <3>3, PassHand
  <2>2. d.pc \in {"failed", "retry", "after"} BY <2>1 DEF Ended
  <2>3. FailureRead \/ CreateRetry
    BY <1>3, <2>1, <2>2, MovesVisit, MovesCreate, MovesStart, MovesOn, MovesFail DEF Pass
  <2>4. QED BY <2>0, <2>3, MovesFail DEF Moves, Ended
<1>4. QED
  BY <1>2, <1>3, NoStops
  DEF StageInv, vars, Client, Submit, RetryJob, RetryTimer, Aggregating, AggregateRead,
      AggregateAdvance, AggregateFinal, AggregateFail, ProcessExit, Exiting, ExitRead,
      ExitFinishing, ExitTerminal, ExitRelease, sched

\* A start leaves such a record only where its job has ended meanwhile.
LEMMA StraySource ==
  ASSUME JobInv, StageInv, Unstopped, TreesCreated, [Next]_vars, NEW w \in Worker, Stray(w)'
  PROVE  \/ Stray(w) /\ workers'[w] = workers[w]
         \/ /\ d.pc = "dispatching" /\ d.worker = w /\ workers'[w] = workers[w]
            /\ AdvanceThrows(d.snap.status, "dispatching")
            /\ d'.pc = "failed" /\ d'.job = d.job /\ UNCHANGED jobs
<1>0. /\ workers \in [Worker -> WorkerRec] /\ exit \in [Worker -> ExitRec]
      /\ rt \in [Worker -> ChildRec]
  BY DEF JobInv, TypeOK
<1>1. CASE workers'[w] = workers[w] /\ exit'[w] = exit[w] /\ ~InHand(w)
  BY <1>1 DEF Stray
<1>2. ASSUME NEW x \in Worker, ProcessExit(x) \/ Exiting(x) PROVE Stray(w) /\ workers'[w] = workers[w]
  <2>1. UNCHANGED d
    BY <1>2 DEF ProcessExit, Exiting, ExitRead, ExitFinishing, ExitTerminal, ExitRelease, sched
  <2>2. CASE ProcessExit(x) BY <2>1, <2>2 DEF ProcessExit, store, tasks, Stray, InHand
  <2>3. CASE Exiting(x) /\ x # w
    <3>1. workers'[w] = workers[w] /\ exit'[w] = exit[w]
      BY <1>0, <2>3 DEF Exiting, ExitRead, ExitFinishing, ExitTerminal, ExitRelease, store,
                        PutWorker
    <3>2. QED BY <2>1, <3>1 DEF Stray, InHand
  <2>4. CASE Exiting(x) /\ x = w
    <3>1. exit'[w].pc # "none"
      <4>1. CASE ExitRead(w)
        <5>1. \/ exit' = [exit EXCEPT ![w].pc = "done"]
              \/ \E p, r : /\ p \in {"finishing", "terminal"}
                            /\ r = [pc |-> p, rec |-> workers[w]]
                            /\ exit' = [exit EXCEPT ![w] = r]
          BY <4>1 DEF ExitRead
        <5>2. CASE exit' = [exit EXCEPT ![w].pc = "done"] BY <1>0, <5>2 DEF ExitRec
        <5>3. CASE \E p, r : /\ p \in {"finishing", "terminal"}
                             /\ r = [pc |-> p, rec |-> workers[w]]
                             /\ exit' = [exit EXCEPT ![w] = r]
          <6>1. PICK p, r : /\ p \in {"finishing", "terminal"}
                            /\ r = [pc |-> p, rec |-> workers[w]]
                            /\ exit' = [exit EXCEPT ![w] = r]
            BY <5>3
          <6>2. r.pc = p BY <6>1
          <6>3. exit'[w] = r BY <1>0, <6>1
          <6>4. QED BY <6>1, <6>2, <6>3
        <5>4. QED BY <5>1, <5>2, <5>3
      <4>2. CASE ExitFinishing(w)
        <5>1. PICK p, r : r = [pc |-> "terminal", rec |-> p] /\ exit' = [exit EXCEPT ![w] = r]
          BY <4>2 DEF ExitFinishing
        <5>2. r.pc = "terminal" BY <5>1
        <5>3. QED BY <1>0, <5>1, <5>2
      <4>3. CASE ExitTerminal(w) BY <1>0, <4>3 DEF ExitTerminal, ExitRec
      <4>4. CASE ExitRelease(w)
        <5>1. PICK r : r = [pc |-> "done", rec |-> NoWorkerRec] /\ exit' = [exit EXCEPT ![w] = r]
          BY <4>4 DEF ExitRelease
        <5>2. r.pc = "done" BY <5>1
        <5>3. QED BY <1>0, <5>1, <5>2
      <4>5. QED BY <2>4, <4>1, <4>2, <4>3, <4>4 DEF Exiting
    <3>2. QED BY <3>1 DEF Stray
  <2>5. QED BY <1>2, <2>2, <2>3, <2>4
<1>3. CASE \/ Client \/ UNCHANGED vars \/ \E j \in Job : RetryTimer(j) \/ Aggregating(j)
  BY <1>3, ClientSteps, AggregateSteps DEF vars, RetryTimer, store, tasks, Stray, InHand
<1>4. CASE Pass
  <2>1. CASE InHand(w)
    <3>0. d.worker = w /\ d.pc \in Starting /\ Stage(w) BY <2>1 DEF InHand, StageInv
    <3>1. CASE StartFailed
      <4>1. PICK r : r = [d.wrec EXCEPT !.status = "failed"] OBVIOUS
      <4>2. r.status = "failed" BY <4>1 DEF JobInv, TypeOK, PassRec, WorkerRec
      <4>3. workers'[w] = r BY <1>0, <3>0, <3>1, <4>1 DEF StartFailed, PutWorker
      <4>4. QED BY <4>2, <4>3 DEF Stray
    <3>2. CASE Register
      <4>1. exit'[w].pc = "registered" BY <1>0, <3>0, <3>2 DEF Register, ExitRec
      <4>2. QED BY <4>1 DEF Stray
    <3>3. CASE DispatchingWrite
      <4>1. UNCHANGED workers BY <3>3 DEF DispatchingWrite
      <4>2. d'.pc \notin Starting BY <3>0, <3>3, MovesOn DEF Stray, InHand, Moves
      <4>3. QED BY <3>0, <3>3, <4>1, <4>2, MovesOn DEF Moves, Starting
    <3>4. CASE \/ StartRead \/ StartingWrite \/ CreateWorktree \/ Spawn \/ ActiveWrite
               \/ HeartbeatRejected
      BY <3>0, <3>4, MovesStart DEF Stray, InHand, Moves, Starting, TreesCreated
    <3>5. CASE LinkWorker BY <3>0, <3>5, MovesCreate DEF Stray, InHand, Moves, Starting
    <3>6. CASE RunningWrite BY <3>0, <3>6, MovesOn DEF Stage, Stray, RunningWrite, InHand
    <3>7. QED
      BY <1>4, <3>0, <3>1, <3>2, <3>3, <3>4, <3>5, <3>6, MovesVisit, MovesCreate, MovesFail
      DEF Pass, Starting
  <2>2. CASE ~InHand(w)
    <3>1. CASE CreateWorker
      <4>1. PICK x \in FreshWorker :
              PutWorker(x, [NoWorkerRec EXCEPT !.status = "created", !.job = d.job])
        BY <3>1 DEF CreateWorker
      <4>2. PICK r : r = [NoWorkerRec EXCEPT !.status = "created", !.job = d.job] OBVIOUS
      <4>3. r.status = "created" BY <4>2 DEF NoWorkerRec
      <4>4. x # w
        <5>1. x = w => workers'[w] = r BY <1>0, <4>1, <4>2 DEF PutWorker
        <5>2. QED BY <4>3, <5>1 DEF Stray
      <4>5. workers'[w] = workers[w] /\ exit'[w] = exit[w]
        BY <1>0, <3>1, <4>1, <4>4 DEF PutWorker, CreateWorker, tasks
      <4>6. QED BY <1>1, <2>2, <4>5
    <3>2. CASE StartingWrite \/ ActiveWrite \/ StartFailed \/ Register
      <4>1. d.pc \in Starting BY <3>2 DEF StartingWrite, ActiveWrite, StartFailed, Register, At, Starting
      <4>2. d.worker # w BY <2>2, <4>1 DEF InHand
      <4>3. workers'[w] = workers[w] /\ exit'[w] = exit[w]
        BY <1>0, <3>2, <4>2
        DEF StartingWrite, ActiveWrite, StartFailed, Register, PutWorker, tasks, store
      <4>4. QED BY <1>1, <2>2, <4>3
    <3>3. CASE \/ BeginPass \/ EndPass \/ Prepare \/ LoopTest \/ LinkWorker
               \/ \E j \in Job : DropJob(j) \/ AtCapacity(j) \/ SkipConflict(j) \/ TakeJob(j)
      BY <1>1, <2>2, <3>3
      DEF BeginPass, EndPass, DropJob, AtCapacity, SkipConflict, TakeJob, Prepare,
          LoopTest, LinkWorker, store, tasks
    <3>4. CASE \/ StartRead \/ DispatchingWrite \/ CreateWorktree \/ Spawn
               \/ RunningWrite \/ HeartbeatRejected
      BY <1>1, <2>2, <3>4
      DEF StartRead, DispatchingWrite, CreateWorktree, Spawn, RunningWrite,
          HeartbeatRejected, store, tasks
    <3>5. CASE AwaitAggregation \/ FailureRead \/ FailureWrite \/ CreateRetry \/ AfterLoop
      BY <1>1, <2>2, <3>5
      DEF AwaitAggregation, FailureRead, FailureWrite, CreateRetry, AfterLoop, store, tasks
    <3>6. QED BY <1>4, <3>1, <3>2, <3>3, <3>4, <3>5 DEF Pass
  <2>3. QED BY <2>1, <2>2
<1>5. QED BY <1>2, <1>3, <1>4, NoStops DEF StageInv

\* Every step keeps StrayInv.
LEMMA StrayNext ==
  ASSUME JobInv, StageInv, Unstopped, TreesCreated, KnownInv, TurnInv, StrayInv, [Next]_vars
  PROVE  StrayInv'
<1> SUFFICES ASSUME NEW w \in Worker, Stray(w)' PROVE Ended(workers[w].job)'
  BY DEF StrayInv
<1>0. workers'[w] = workers[w] BY StraySource
<1>1. PICK j : j = workers[w].job OBVIOUS
<1>2. ASSUME j \in Job, Ended(j)' PROVE Ended(workers[w].job)'
  BY <1>0, <1>1, <1>2 DEF Ended
<1>3. CASE Stray(w)
  <2>1. Ended(j) BY <1>1, <1>3 DEF StrayInv
  <2>2. j \in Job BY <1>1, <1>3 DEF Stray, JobInv, Linked
  <2>3. QED BY <1>2, <2>1, <2>2, EndedKept
<1>4. CASE /\ d.pc = "dispatching" /\ d.worker = w
           /\ AdvanceThrows(d.snap.status, "dispatching")
           /\ d'.pc = "failed" /\ d'.job = d.job /\ UNCHANGED jobs
  <2>1. d.job = j /\ j \in Job
    BY <1>1, <1>4 DEF StageInv, Stage, InHand, Starting, JobInv, PassHolds
  <2>2. d.snap.status \in Begun BY <1>4 DEF KnownInv, Carrying
  <2>3. d.snap.status \in TerminalJob
    BY <1>4, <2>2
    DEF AdvanceThrows, Begun, Past, Flow, FlowRank, NextStatus, FlowNext, ValidJob,
        JobTransitions
  <2>4. jobs[j].status \in TerminalJob /\ Quiet(j)
    BY <1>4, <2>1, <2>3 DEF TurnInv, Handling, Starting, Carrying
  <2>5. Quiet(j)' BY <1>4, <2>1, <2>4, QuietKept
  <2>6. Ended(j)' BY <1>4, <2>4, <2>5 DEF Ended, Quiet
  <2>7. QED BY <1>2, <2>1, <2>6
<1>5. QED BY <1>3, <1>4, StraySource

-----------------------------------------------------------------------------
(* Who moves a job on *)

\* Only exit handlers and the failed start of the job in hand await an aggregation.
ChainInv ==
  \A j \in Job : /\ Elements(agg[j].chain) \subseteq Worker \cup {Dispatcher}
                 /\ Dispatcher \in Elements(agg[j].chain) => d.pc = "awaitAgg" /\ d.job = j

\* The elements of a sequence, after an append and without its head.
LEMMA ElementsOf ==
  ASSUME NEW S, NEW s \in Seq(S)
  PROVE  /\ \A x \in S : Elements(Append(s, x)) = Elements(s) \cup {x} /\ Append(s, x) # <<>>
         /\ s # <<>> => Elements(Tail(s)) \subseteq Elements(s)
         /\ Elements(<<>>) = {}
         /\ s # <<>> => Elements(s) # {}
<1>0. Len(s) \in Nat /\ DOMAIN s = 1..Len(s) OBVIOUS
<1>1. ASSUME NEW x \in S PROVE Elements(Append(s, x)) = Elements(s) \cup {x} /\ Append(s, x) # <<>>
  <2>1. PICK t : t = Append(s, x) OBVIOUS
  <2>2. t \in Seq(S) /\ DOMAIN t = 1..(Len(s) + 1) /\ t # <<>> BY <2>1
  <2>3. t[Len(s) + 1] = x /\ \A i \in 1..Len(s) : t[i] = s[i] BY <2>1
  <2>4. Elements(s) \cup {x} \subseteq Elements(t) BY <1>0, <2>2, <2>3 DEF Elements
  <2>5. Elements(t) \subseteq Elements(s) \cup {x}
    <3>1. ASSUME NEW i \in DOMAIN t PROVE t[i] \in Elements(s) \cup {x}
      <4>1. i \in 1..Len(s) \/ i = Len(s) + 1 BY <1>0, <2>2
      <4>2. CASE i \in 1..Len(s) BY <1>0, <2>3, <4>2 DEF Elements
      <4>3. CASE i = Len(s) + 1 BY <2>3, <4>3
      <4>4. QED BY <4>1, <4>2, <4>3
    <3>2. QED BY <3>1 DEF Elements
  <2>6. QED BY <2>1, <2>2, <2>4, <2>5
<1>2. ASSUME s # <<>> PROVE Elements(Tail(s)) \subseteq Elements(s) /\ Elements(s) # {}
  BY <1>2 DEF Elements
<1>3. Elements(<<>>) = {} BY DEF Elements
<1>4. QED BY <1>1, <1>2, <1>3

\* Every step keeps ChainInv.
LEMMA ChainNext ==
  ASSUME JobInv, StageInv, Unstopped, ChainInv, [Next]_vars
  PROVE  ChainInv'
<1> SUFFICES ASSUME NEW j \in Job
             PROVE  /\ Elements(agg'[j].chain) \subseteq Worker \cup {Dispatcher}
                    /\ Dispatcher \in Elements(agg'[j].chain) => d'.pc = "awaitAgg" /\ d'.job = j
  BY DEF ChainInv, Elements
<1>0. /\ \A x \in Requester :
           Elements(Append(agg[j].chain, x)) = Elements(agg[j].chain) \cup {x}
      /\ agg[j].chain # <<>> => Elements(Tail(agg[j].chain)) \subseteq Elements(agg[j].chain)
      /\ Elements(<<>>) = {}
  <2>1. agg[j].chain \in Seq(Requester) BY DEF JobInv, TypeOK, AggRec
  <2>2. QED BY <2>1, ElementsOf
<1>1. /\ Elements(agg[j].chain) \subseteq Worker \cup {Dispatcher}
      /\ Dispatcher \in Elements(agg[j].chain) => d.pc = "awaitAgg" /\ d.job = j
      /\ Dispatcher \notin Worker
  BY Names DEF ChainInv, Names
<1>2. ASSUME Dispatcher \in Elements(agg[j].chain)
      PROVE  UNCHANGED d \/ ~Pass
  <2>1. d.pc = "awaitAgg" /\ d.job = j BY <1>1, <1>2
  <2>2. ~AwaitAggregation BY <1>2, <2>1 DEF AwaitAggregation, Settled
  <2>3. QED BY <2>1, <2>2, MovesVisit, MovesCreate, MovesStart, MovesOn, MovesFail DEF Pass
<1>3. ~Pass => UNCHANGED d
  BY NoStops
  DEF StageInv, vars, Client, Submit, RetryJob, RetryTimer, Aggregating, AggregateRead,
      AggregateAdvance, AggregateFinal, AggregateFail, ProcessExit, Exiting, ExitRead,
      ExitFinishing, ExitTerminal, ExitRelease, sched
<1>4. CASE agg'[j].chain = agg[j].chain BY <1>1, <1>2, <1>3, <1>4
<1>5. CASE StartFailed /\ d.job \in Job /\ Join(d.job, Dispatcher)
  <2>1. d'.pc = "awaitAgg" /\ d'.job = d.job BY <1>5, MovesFail DEF Moves
  <2>2. d.pc = "startFailed" BY <1>5 DEF StartFailed, At
  <2>3. Dispatcher \notin Elements(agg[j].chain) BY <1>1, <2>2
  <2>4. CASE d.job = j
    <3>1. \/ agg'[j].chain = agg[j].chain
          \/ agg'[j].chain = Append(agg[j].chain, Dispatcher)
      BY <1>5, <2>4, JoinChain DEF Requester
    <3>2. Elements(agg'[j].chain) \subseteq Elements(agg[j].chain) \cup {Dispatcher}
      BY <1>0, <3>1 DEF Requester
    <3>3. QED BY <1>1, <2>1, <2>4, <3>2
  <2>5. CASE d.job # j
    <3>1. agg'[j].chain = agg[j].chain BY <1>5, <2>5, JoinChain DEF Requester
    <3>2. QED BY <1>1, <2>3, <3>1
  <2>6. QED BY <2>4, <2>5
<1>6. ASSUME NEW k \in Job, Aggregating(k)
      PROVE  /\ Elements(agg'[j].chain) \subseteq Worker \cup {Dispatcher}
             /\ Dispatcher \in Elements(agg'[j].chain) => d'.pc = "awaitAgg" /\ d'.job = j
  <2>1. UNCHANGED d BY <1>6, AggregateSteps
  <2>2. CASE k # j
    <3>1. agg'[j] = agg[j] BY <1>6, <2>2, AggregateSteps
    <3>2. QED BY <1>1, <2>1, <3>1
  <2>3. CASE k = j
    <3>1. agg[j].chain # <<>>
      <4>1. agg[j].chain # <<>> \/ agg[j].task.pc # "idle"
        BY <1>6, <2>3, AggregateSteps DEF Aggregating
      <4>2. QED BY <4>1 DEF JobInv, Awaited
    <3>2. agg'[j].chain \in {agg[j].chain, Tail(agg[j].chain), <<>>}
      BY <1>6, <2>3, AggregateSteps DEF Aggregating
    <3>3. Elements(agg'[j].chain) \subseteq Elements(agg[j].chain)
      BY <1>0, <3>1, <3>2
    <3>4. QED BY <1>1, <2>1, <3>3
  <2>4. QED BY <2>2, <2>3
<1>7. ASSUME NEW w \in Worker, ExitRelease(w) PROVE UNCHANGED d
  BY <1>7 DEF ExitRelease, sched
<1>8. ASSUME NEW w \in Worker, ExitRelease(w), workers[w].job \in Job, Join(workers[w].job, w)
      PROVE  /\ Elements(agg'[j].chain) \subseteq Worker \cup {Dispatcher}
             /\ Dispatcher \in Elements(agg'[j].chain) => d'.pc = "awaitAgg" /\ d'.job = j
  <2>1. \/ agg'[j].chain = agg[j].chain
        \/ agg'[j].chain = Append(agg[j].chain, w)
    <3>1. PICK k \in Job : k = workers[w].job BY <1>8
    <3>2. QED BY <1>8, <3>1, JoinChain DEF Requester
  <2>2. Elements(agg'[j].chain) \subseteq Elements(agg[j].chain) \cup {w}
    BY <1>0, <2>1 DEF Requester
  <2>3. QED BY <1>1, <1>7, <1>8, <2>2
<1>9. QED BY <1>4, <1>5, <1>6, <1>8, ChainSteps

\* The worker of an open job that has not ended is being started or is to exit.
LEMMA Occupied ==
  ASSUME JobInv, StageInv, StrayInv, NEW j \in Job, jobs[j].status \notin TerminalJob,
         NEW w \in WorkersOf(j), workers[w].status \notin TerminalWorker \cup {"absent"}
  PROVE  InHand(w) \/ exit[w].pc \in {"registered", "finishing", "terminal"}
<1>1. w \in Worker /\ workers[w].job = j BY DEF WorkersOf
<1>2. exit[w].pc \in {"none", "registered", "finishing", "terminal", "release", "done"}
  BY <1>1 DEF JobInv, TypeOK, ExitRec
<1>3. ~Stray(w) BY <1>1 DEF StrayInv, Ended
<1>4. Stage(w) BY <1>1 DEF StageInv
<1>5. QED BY <1>2, <1>3, <1>4 DEF Stage, Stray, TerminalWorker

\* So an open job with all its workers has one of those.
LEMMA Staffed ==
  ASSUME JobInv, StageInv, StrayInv, ListedInv, NEW j \in Job,
         jobs[j].status \notin TerminalJob, Cardinality(Busy(j)) >= MaxWorkers
  PROVE  \E w \in WorkersOf(j) :
           InHand(w) \/ exit[w].pc \in {"registered", "finishing", "terminal"}
<1>1. Busy(j) # {}
  <2>1. CASE Busy(j) = {}
    <3>1. Cardinality(Busy(j)) = 0 BY <2>1, FS_EmptySet
    <3>2. QED BY <3>1, Bounds DEF Bounds
  <2>2. QED BY <2>1
<1>2. PICK w \in WorkersOf(j) : workers[w].status \in Schedulable BY <1>1 DEF Busy
<1>3. QED BY <1>2, Occupied DEF Schedulable, TerminalWorker

\* The exit handler of this worker has not asked for an aggregation yet.
AwaitsExit(w) == exit[w].pc \in {"registered", "finishing", "terminal", "release"}

\* Somebody will move the job on.
Tended(j) ==
  \/ j \in queue \cup timers
  \/ d.job = j
  \/ agg[j].chain # <<>>
  \/ \E w \in WorkersOf(j) : AwaitsExit(w)

Open(j) == jobs[j].status \in JobStatus \ TerminalJob

TendedInv == up => \A j \in Job : Open(j) => Tended(j)

\* The steps that leave the pass alone.
LEMMA PassRests ==
  ASSUME StageInv, Unstopped, [Next]_vars, ~Pass
  PROVE  UNCHANGED d
BY NoStops
DEF StageInv, vars, Client, Submit, RetryJob, RetryTimer, Aggregating, AggregateRead,
    AggregateAdvance, AggregateFinal, AggregateFail, ProcessExit, Exiting, ExitRead,
    ExitFinishing, ExitTerminal, ExitRelease, sched

\* An exit handler goes on until it asks for the aggregation of its job.
LEMMA ExitTended ==
  ASSUME JobInv, StageInv, Unstopped, ListedInv, [Next]_vars, up',
         NEW j \in Job, NEW w \in WorkersOf(j), AwaitsExit(w)
  PROVE  Tended(j)'
<1>0. /\ w \in Worker /\ workers[w].job = j /\ Stage(w)
      /\ exit \in [Worker -> ExitRec] /\ agg[j].chain \in Seq(Requester)
  BY DEF WorkersOf, StageInv, JobInv, TypeOK, AggRec
<1>1. WorkersOf(j) \subseteq WorkersOf(j)' BY WorkersStay
<1>2. AwaitsExit(w)' => Tended(j)' BY <1>1 DEF Tended
<1>3. CASE exit'[w] = exit[w] BY <1>2, <1>3 DEF AwaitsExit
<1>4. CASE ExitRead(w)
  <2>1. exit[w].pc = "registered" /\ workers[w].status = "active"
    BY <1>0, <1>4 DEF ExitRead, Stage
  <2>2. PICK r : /\ r = [pc |-> "finishing", rec |-> workers[w]]
                 /\ exit' = [exit EXCEPT ![w] = r]
    BY <1>4, <2>1 DEF ExitRead, TerminalWorker
  <2>3. r.pc = "finishing" BY <2>2
  <2>4. exit'[w] = r BY <1>0, <2>2
  <2>5. QED BY <1>2, <2>3, <2>4 DEF AwaitsExit
<1>5. CASE ExitFinishing(w)
  <2>1. PICK p, r : r = [pc |-> "terminal", rec |-> p] /\ exit' = [exit EXCEPT ![w] = r]
    BY <1>5 DEF ExitFinishing
  <2>2. r.pc = "terminal" BY <2>1
  <2>3. exit'[w] = r BY <1>0, <2>1
  <2>4. QED BY <1>2, <2>2, <2>3 DEF AwaitsExit
<1>6. CASE ExitTerminal(w)
  <2>1. exit'[w].pc = "release" BY <1>0, <1>6 DEF ExitTerminal, ExitRec
  <2>2. QED BY <1>2, <2>1 DEF AwaitsExit
<1>7. CASE ExitRelease(w)
  <2>1. exit[w].rec.job = j BY <1>0, <1>7 DEF ExitRelease, Stage
  <2>2. Join(j, w) /\ ~agg[j].poisoned BY <1>7, <2>1 DEF ExitRelease
  <2>3. agg'[j].chain = Append(agg[j].chain, w)
    BY <1>0, <2>2, JoinChain DEF Requester
  <2>4. agg'[j].chain # <<>>
    BY <1>0, <2>3, ElementsOf DEF Requester
  <2>5. QED BY <2>4 DEF Tended
<1>8. ASSUME NEW v \in Worker, Exiting(v), v # w PROVE exit'[w] = exit[w]
  BY <1>0, <1>8 DEF Exiting, ExitRead, ExitFinishing, ExitTerminal, ExitRelease
<1>9. CASE Client \/ UNCHANGED vars \/ \E k \in Job : RetryTimer(k) \/ Aggregating(k)
  BY <1>3, <1>9, ClientSteps, AggregateSteps DEF vars, RetryTimer, tasks
<1>10. CASE \E v \in Worker : ProcessExit(v)
  BY <1>3, <1>10 DEF ProcessExit, tasks
<1>11. CASE Pass
  <2>1. CASE Register
    <3>1. d.pc = "register" BY <2>1 DEF Register, At
    <3>2. d.worker # w
      <4>1. exit[w].pc # "none" BY DEF AwaitsExit
      <4>2. ~InHand(w) BY <1>0, <4>1 DEF Stage
      <4>3. QED BY <3>1, <4>2 DEF InHand, Starting
    <3>3. exit'[w] = exit[w] BY <1>0, <2>1, <3>2 DEF Register
    <3>4. QED BY <1>3, <3>3
  <2>2. CASE \/ BeginPass \/ EndPass \/ Prepare \/ LoopTest \/ CreateWorker \/ LinkWorker
             \/ \E k \in Job : DropJob(k) \/ AtCapacity(k) \/ SkipConflict(k) \/ TakeJob(k)
    BY <1>3, <2>2
    DEF BeginPass, EndPass, DropJob, AtCapacity, SkipConflict, TakeJob, Prepare,
        LoopTest, CreateWorker, LinkWorker, tasks
  <2>3. CASE \/ StartRead \/ StartingWrite \/ DispatchingWrite \/ CreateWorktree \/ Spawn
             \/ ActiveWrite \/ RunningWrite \/ HeartbeatRejected
    BY <1>3, <2>3
    DEF StartRead, StartingWrite, DispatchingWrite, CreateWorktree, Spawn,
        ActiveWrite, RunningWrite, HeartbeatRejected, tasks
  <2>4. CASE StartFailed \/ AwaitAggregation \/ FailureRead \/ FailureWrite \/ CreateRetry
             \/ AfterLoop
    BY <1>3, <2>4
    DEF StartFailed, AwaitAggregation, FailureRead, FailureWrite, CreateRetry, AfterLoop, tasks
  <2>5. QED BY <1>11, <2>1, <2>2, <2>3, <2>4 DEF Pass
<1>12. ASSUME NEW v \in Worker, Exiting(v) PROVE Tended(j)'
  BY <1>3, <1>4, <1>5, <1>6, <1>7, <1>8, <1>12 DEF Exiting
<1>13. QED BY <1>9, <1>10, <1>11, <1>12, NoStops DEF StageInv

\* A worker that is being started or is to exit keeps its job tended.
LEMMA OccupiedTends ==
  ASSUME JobInv, StageInv, Unstopped, ListedInv, [Next]_vars, up', NEW j \in Job,
         NEW w \in WorkersOf(j), InHand(w) \/ exit[w].pc \in {"registered", "finishing", "terminal"},
         InHand(w) => d'.job = d.job
  PROVE  Tended(j)'
<1>1. CASE InHand(w)
  <2>1. d.job = j BY <1>1 DEF WorkersOf, StageInv, Stage
  <2>2. QED BY <1>1, <2>1 DEF Tended
<1>2. CASE exit[w].pc \in {"registered", "finishing", "terminal"}
  BY <1>2, ExitTended DEF AwaitsExit
<1>3. QED BY <1>1, <1>2

\* A chain of requests is worked off until the job has ended or has a worker that
\* will ask again.
LEMMA ChainTended ==
  ASSUME JobInv, StageInv, Unstopped, ListedInv, StrayInv, ChainInv, [Next]_vars, up',
         NEW j \in Job, Open(j), Open(j)', agg[j].chain # <<>>
  PROVE  Tended(j)'
<1>0. agg[j].chain \in Seq(Requester) /\ jobs[j].status \notin TerminalJob
  BY DEF JobInv, TypeOK, AggRec, Open
<1>1. CASE agg'[j].chain # <<>> BY <1>1 DEF Tended
<1>2. CASE AggregateRead(j)
  <2>1. UNCHANGED d BY <1>2, AggregateSteps DEF Aggregating
  <2>2. CASE Ready(j) BY <1>1, <1>2, <2>2, AggregateSteps
  <2>3. CASE ~Ready(j)
    <3>1. WorkersOf(j) # {} BY DEF ListedInv
    <3>2. Cardinality(WorkersOf(j)) >= Cardinality(jobs[j].workerIds)
      <4>1. jobs[j].workerIds \subseteq WorkersOf(j) BY DEF ListedInv
      <4>2. IsFiniteSet(WorkersOf(j)) BY FS_Subset, Bounds DEF Bounds, WorkersOf
      <4>3. /\ Cardinality(jobs[j].workerIds) <= Cardinality(WorkersOf(j))
            /\ IsFiniteSet(jobs[j].workerIds)
        BY <4>1, <4>2, FS_Subset
      <4>4. Cardinality(jobs[j].workerIds) \in Nat /\ Cardinality(WorkersOf(j)) \in Nat
        BY <4>2, <4>3, FS_CardinalityType
      <4>5. QED BY <4>3, <4>4
    <3>3. PICK w \in WorkersOf(j) : workers[w].status \notin TerminalWorker
      BY <1>0, <2>3, <3>1, <3>2 DEF Ready
    <3>4. workers[w].status # "absent" BY Names DEF WorkersOf, ListedInv, Names
    <3>5. InHand(w) \/ exit[w].pc \in {"registered", "finishing", "terminal"}
      BY <1>0, <3>3, <3>4, Occupied
    <3>6. QED BY <2>1, <3>5, OccupiedTends
  <2>4. QED BY <2>2, <2>3
<1>3. CASE AggregateAdvance(j) BY <1>1, <1>3, AggregateSteps
<1>4. CASE AggregateFinal(j)
  <2>1. jobs'[j].status = agg[j].task.verdict BY <1>4, AggregateSteps DEF Wrote
  <2>2. agg[j].task.verdict \in TerminalJob
    BY DEF JobInv, TypeOK, AggRec, AggTask, TerminalJob
  <2>3. QED BY <2>1, <2>2 DEF Open
<1>5. CASE AggregateFail(j)
  <2>1. Elements(agg[j].chain) \cap Worker = {} /\ UNCHANGED d
    BY <1>5, AggregateSteps DEF Aggregating
  <2>2. Elements(agg[j].chain) # {} BY <1>0, ElementsOf
  <2>3. Dispatcher \in Elements(agg[j].chain) BY <2>1, <2>2 DEF ChainInv
  <2>4. d.job = j BY <2>3 DEF ChainInv
  <2>5. QED BY <2>1, <2>4 DEF Tended
<1>6. ASSUME NEW k \in Job, Aggregating(k) PROVE Tended(j)'
  <2>1. CASE k # j
    <3>1. agg'[j] = agg[j] BY <1>6, <2>1, AggregateSteps
    <3>2. QED BY <1>1, <3>1
  <2>2. QED BY <1>2, <1>3, <1>4, <1>5, <1>6, <2>1 DEF Aggregating
<1>7. ASSUME NEW k \in Job, NEW x \in Requester, Join(k, x) PROVE agg'[j].chain # <<>>
  <2>1. agg'[j].chain = agg[j].chain \/ agg'[j].chain = Append(agg[j].chain, x)
    BY <1>7, JoinChain
  <2>2. Append(agg[j].chain, x) # <<>> BY <1>0, ElementsOf
  <2>3. QED BY <2>1, <2>2
<1>8. QED BY <1>1, <1>6, <1>7, ChainSteps DEF Requester

\* The pass lets a job go when it has ended, has all its workers or is queued again.
LEMMA HandTended ==
  ASSUME JobInv, StageInv, Unstopped, KnownInv, ListedInv, StrayInv, [Next]_vars, up',
         NEW j \in Job, Open(j), d.job = j
  PROVE  Tended(j)'
<1>0. j # NoJob /\ jobs[j].status \notin TerminalJob BY Names DEF Names, Open
<1>1. CASE d'.job = d.job BY <1>1 DEF Tended
<1>2. CASE AfterLoop
  <2>1. d.pc = "after" BY <1>2 DEF AfterLoop, At
  <2>2. CASE Cardinality(Busy(j)) < MaxWorkers
    <3>1. queue' = queue \cup {j} BY <1>0, <1>2, <2>2 DEF AfterLoop
    <3>2. QED BY <3>1 DEF Tended
  <2>3. CASE ~(Cardinality(Busy(j)) < MaxWorkers)
    <3>1. Cardinality(Busy(j)) >= MaxWorkers
      <4>1. IsFiniteSet(Busy(j)) BY FS_Subset, Bounds DEF Bounds, WorkersOf, Busy
      <4>2. Cardinality(Busy(j)) \in Nat /\ MaxWorkers \in Nat
        BY <4>1, FS_CardinalityType, Bounds DEF Bounds
      <4>3. QED BY <2>3, <4>2
    <3>2. PICK w \in WorkersOf(j) :
            InHand(w) \/ exit[w].pc \in {"registered", "finishing", "terminal"}
      BY <1>0, <3>1, Staffed
    <3>3. ~InHand(w) BY <2>1 DEF InHand, Starting
    <3>4. QED BY <3>2, <3>3, OccupiedTends
  <2>4. QED BY <2>2, <2>3
<1>3. CASE Pass
  <2>1. d.pc \notin {"idle", "visit"} BY <1>0 DEF KnownInv
  <2>2. d.pc = "failed" => jobs[d.job].status \in Begun BY DEF KnownInv
  <2>3. ~(d.pc = "failed" /\ jobs[d.job].status \in TerminalJob \cup {"absent", "queued"})
    BY <1>0, <2>2 DEF Begun, TerminalJob
  <2>4. ~\E k \in Job : TakeJob(k) BY <2>1 DEF TakeJob, At
  <2>5. QED BY <1>1, <1>2, <1>3, <2>1, <2>3, <2>4, PassHand
<1>4. QED BY <1>1, <1>3, PassRests

\* The queue and the timers let it go in the same cases, or into the pass.
LEMMA QueueTended ==
  ASSUME JobInv, StageInv, Unstopped, KnownInv, ListedInv, StrayInv, [Next]_vars, up',
         NEW j \in Job, Open(j), j \in queue \cup timers
  PROVE  Tended(j)'
<1>0. jobs[j].status \notin TerminalJob BY DEF Open
<1>1. CASE j \in queue' \cup timers' BY <1>1 DEF Tended
<1>2. CASE TakeJob(j) BY <1>2, MovesVisit DEF Moves, Tended
<1>3. CASE DropJob(j)
  <2>1. d.pc = "visit" /\ Cardinality(Busy(j)) >= MaxWorkers
    BY <1>0, <1>3 DEF DropJob, At, NotNeeded
  <2>2. PICK w \in WorkersOf(j) :
          InHand(w) \/ exit[w].pc \in {"registered", "finishing", "terminal"}
    BY <1>0, <2>1, Staffed
  <2>3. ~InHand(w) BY <2>1 DEF InHand, Starting
  <2>4. QED BY <2>2, <2>3, OccupiedTends
<1>4. CASE \/ Client \/ UNCHANGED vars
           \/ \E k \in Job : RetryTimer(k) \/ Aggregating(k)
           \/ \E w \in Worker : ProcessExit(w) \/ Exiting(w)
  <2>1. CASE Client \/ \E k \in Job : Aggregating(k)
    BY <1>1, <2>1, ClientSteps, AggregateSteps
  <2>2. CASE UNCHANGED vars \/ \E k \in Job : RetryTimer(k) BY <1>1, <2>2 DEF vars, RetryTimer
  <2>3. CASE \E w \in Worker : ProcessExit(w) \/ Exiting(w)
    BY <1>1, <2>3
    DEF ProcessExit, Exiting, ExitRead, ExitFinishing, ExitTerminal, ExitRelease, sched
  <2>4. QED BY <1>4, <2>1, <2>2, <2>3
<1>5. CASE Pass
  <2>1. CASE \/ BeginPass \/ EndPass \/ Prepare \/ LoopTest \/ CreateWorker \/ LinkWorker
             \/ \E k \in Job : AtCapacity(k) \/ SkipConflict(k)
    BY <1>1, <2>1
    DEF BeginPass, EndPass, AtCapacity, SkipConflict, Prepare, LoopTest, CreateWorker, LinkWorker
  <2>2. CASE \E k \in Job \ {j} : DropJob(k) \/ TakeJob(k)
    BY <1>1, <2>2 DEF DropJob, TakeJob
  <2>3. CASE \/ StartRead \/ StartingWrite \/ DispatchingWrite \/ CreateWorktree \/ Spawn
             \/ ActiveWrite \/ RunningWrite \/ Register \/ HeartbeatRejected
    BY <1>1, <2>3
    DEF StartRead, StartingWrite, DispatchingWrite, CreateWorktree, Spawn, ActiveWrite,
        RunningWrite, Register, HeartbeatRejected
  <2>4. CASE StartFailed \/ AwaitAggregation \/ FailureRead \/ FailureWrite \/ CreateRetry
             \/ AfterLoop
    BY <1>1, <2>4
    DEF StartFailed, AwaitAggregation, FailureRead, FailureWrite, CreateRetry, AfterLoop
  <2>5. QED BY <1>2, <1>3, <1>5, <2>1, <2>2, <2>3, <2>4 DEF Pass
<1>6. QED BY <1>4, <1>5, NoStops DEF StageInv

\* Whoever stores a job, or writes over its end, moves it on.
LEMMA OpenedTended ==
  ASSUME JobInv, StageInv, Unstopped, KnownInv, [Next]_vars,
         NEW j \in Job, ~Open(j), Open(j)'
  PROVE  Tended(j)'
<1>0. jobs'[j] # jobs[j] BY DEF Open
<1>1. CASE Client
  <2>1. PICK k \in Job : Wrote(k, "queued", {}) /\ queue' = queue \cup {k} BY <1>1, ClientSteps
  <2>2. k = j BY <1>0, <2>1 DEF Wrote
  <2>3. QED BY <2>1, <2>2 DEF Tended
<1>2. ASSUME NEW k \in Job, Aggregating(k) PROVE Tended(j)'
  <2>1. k = j /\ agg[j].task.pc # "idle"
    <3>1. PICK s, ids : agg[k].task.pc # "idle" /\ Wrote(k, s, ids)
      BY <1>0, <1>2, AggregateWrites
    <3>2. QED BY <1>0, <3>1 DEF Wrote
  <2>2. agg[j].chain # <<>> BY <2>1 DEF JobInv, Awaited
  <2>3. ~AggregateRead(j) /\ ~AggregateFail(j) BY <1>0, AggregateSteps
  <2>4. ~AggregateFinal(j)
    <3>1. agg[j].task.verdict \in TerminalJob
      BY DEF JobInv, TypeOK, AggRec, AggTask, TerminalJob
    <3>2. QED BY <3>1, AggregateSteps DEF Wrote, Open
  <2>5. AggregateAdvance(j) BY <1>2, <2>1, <2>3, <2>4 DEF Aggregating
  <2>6. agg'[j].chain # <<>> BY <2>2, <2>5, AggregateSteps
  <2>7. QED BY <2>6 DEF Tended
<1>3. CASE Pass
  <2>1. CASE CreateRetry
    <3>1. PICK r \in FreshJob : PutJob(r, RetryOf(d.snap)) /\ timers' = timers \cup {r}
      BY <1>0, <2>1 DEF CreateRetry
    <3>2. r = j BY <1>0, <3>1 DEF PutJob, FreshJob, JobInv, TypeOK
    <3>3. QED BY <3>1, <3>2 DEF Tended
  <2>2. CASE ~CreateRetry
    <3>1. PICK s, ids : /\ d.pc \in Carrying \cup {"prepare", "failWrite"}
                        /\ Wrote(d.job, s, ids)
      BY <1>0, <1>3, <2>2, PassWrites
    <3>2. d.job = j BY <1>0, <3>1 DEF Wrote
    <3>3. d'.job = d.job BY <1>3, <3>1, PassHand DEF Carrying, TakeJob, AfterLoop, At
    <3>4. QED BY <3>2, <3>3 DEF Tended
  <2>3. QED BY <2>1, <2>2
<1>4. CASE UNCHANGED vars \/ \E k \in Job : RetryTimer(k)
  BY <1>0, <1>4 DEF vars, RetryTimer, store
<1>5. CASE \E w \in Worker : ProcessExit(w) \/ Exiting(w)
  BY <1>0, <1>5
  DEF ProcessExit, Exiting, ExitRead, ExitFinishing, ExitTerminal, ExitRelease, store
<1>6. QED BY <1>1, <1>2, <1>3, <1>4, <1>5, NoStops DEF StageInv

\* Every step keeps TendedInv.
LEMMA TendedNext ==
  ASSUME JobInv, StageInv, Unstopped, KnownInv, ListedInv, StrayInv, ChainInv, TendedInv,
         [Next]_vars
  PROVE  TendedInv'
<1> SUFFICES ASSUME up', NEW j \in Job, Open(j)' PROVE Tended(j)'
  BY DEF TendedInv
<1>1. up BY DEF Next, vars
<1>2. CASE ~Open(j) BY <1>2, OpenedTended
<1>3. CASE Open(j)
  <2>1. Tended(j) BY <1>1, <1>3 DEF TendedInv
  <2>2. CASE j \in queue \cup timers BY <1>3, <2>2, QueueTended
  <2>3. CASE d.job = j BY <1>3, <2>3, HandTended
  <2>4. CASE agg[j].chain # <<>> BY <1>3, <2>4, ChainTended
  <2>5. CASE \E w \in WorkersOf(j) : AwaitsExit(w) BY <2>5, ExitTended
  <2>6. QED BY <2>1, <2>2, <2>3, <2>4, <2>5 DEF Tended
<1>4. QED BY <1>2, <1>3

LEMMA TendedInit == Init => TurnInv /\ StrayInv /\ ChainInv /\ TendedInv
<1> SUFFICES ASSUME Init PROVE TurnInv /\ StrayInv /\ ChainInv /\ TendedInv OBVIOUS
<1>1. d.pc = "idle" BY IdleFields DEF Init
<1>2. ASSUME NEW w \in Worker PROVE workers[w].status = "absent" BY DEF Init, NoWorkerRec
<1>3. ASSUME NEW j \in Job PROVE jobs[j].status = "absent" /\ agg[j].chain = <<>>
  BY DEF Init, NoJobRec
<1>4. TurnInv BY <1>1 DEF TurnInv, Handling, Starting
<1>5. StrayInv BY <1>2 DEF StrayInv, Stray
<1>6. ChainInv BY <1>3 DEF ChainInv, Elements
<1>7. TendedInv BY <1>3 DEF TendedInv, Open, JobStatus
<1>8. QED BY <1>4, <1>5, <1>6, <1>7

\* Where every worktree is created, a record left at starting belongs to a job that
\* has ended, and a job that has not ended is tended.
LEMMA Tending ==
  ASSUME Unstopped, TreesCreated
  PROVE  Spec => [](TurnInv /\ StrayInv /\ ChainInv /\ TendedInv)
<1>1. /\ JobInv /\ StageInv /\ KnownInv /\ ListedInv /\ [Next]_vars
      /\ TurnInv /\ StrayInv /\ ChainInv /\ TendedInv
      => (TurnInv /\ StrayInv /\ ChainInv /\ TendedInv)'
  BY TurnNext, StrayNext, ChainNext, TendedNext
<1>2. QED BY Invariance, StagesHold, QueuedAreStored, ListedAreOwn, TendedInit, <1>1, PTL DEF Spec

\* NoLostJob, where nobody is stopped and every worktree is created: the queue, a
\* timer, the pass, an exit handler or an aggregation still has to do with every job
\* that has not ended.  Where a worktree cannot be created it is false: that start
\* fails outside the try block of startWorker and leaves a record that counts as a
\* worker, and no task.
THEOREM JobsAreTended == ASSUME Unstopped, TreesCreated PROVE Spec => []NoLostJob
<1>1. TendedInv => NoLostJob BY DEF TendedInv, Open, Tended, AwaitsExit, NoLostJob
<1>2. QED BY Tending, <1>1, PTL

-----------------------------------------------------------------------------
(* What a completed job's workers have to show *)

\* Who writes a worker's record or its result.
LEMMA RecordSteps ==
  ASSUME JobInv, StageInv, Unstopped, [Next]_vars, NEW w \in Worker
  PROVE  \/ workers'[w] = workers[w] /\ results'[w] = results[w]
         \/ CreateWorker /\ workers[w].status = "absent" /\ results'[w] = results[w]
         \/ (StartingWrite \/ ActiveWrite) /\ InHand(w) /\ results'[w] = results[w]
         \/ StartFailed /\ InHand(w) /\ workers'[w].status = "failed"
         \/ ExitFinishing(w) /\ results'[w] = results[w]
         \/ ExitTerminal(w) /\ workers'[w].status \in TerminalWorker
<1>0. /\ workers \in [Worker -> WorkerRec] /\ results \in [Worker -> ResultKind]
      /\ d.wrec \in WorkerRec /\ exit \in [Worker -> ExitRec]
  BY DEF JobInv, TypeOK, PassRec
<1>1. CASE Client \/ UNCHANGED vars \/ \E k \in Job : RetryTimer(k) \/ Aggregating(k)
  BY <1>1, ClientSteps, AggregateSteps DEF vars, RetryTimer, store
<1>2. CASE \E x \in Worker : ProcessExit(x) \/ ExitRead(x) \/ ExitRelease(x)
  BY <1>2 DEF ProcessExit, ExitRead, ExitRelease, store
<1>3. ASSUME NEW x \in Worker, ExitFinishing(x) \/ ExitTerminal(x), x # w
      PROVE  workers'[w] = workers[w] /\ results'[w] = results[w]
  BY <1>0, <1>3 DEF ExitFinishing, ExitTerminal, PutWorker
<1>4. ExitFinishing(w) => results'[w] = results[w] BY DEF ExitFinishing
<1>5. ASSUME ExitTerminal(w) PROVE workers'[w].status \in TerminalWorker
  <2>1. PICK t, r : /\ t = TerminalStatusOf(exit[w].rec, rt[w].proc)
                    /\ r = [exit[w].rec EXCEPT !.status = t]
    OBVIOUS
  <2>2. t \in TerminalWorker BY <2>1 DEF TerminalStatusOf, TerminalWorker
  <2>3. exit[w].rec \in WorkerRec BY <1>0 DEF ExitRec
  <2>4. r.status = t BY <2>1, <2>3 DEF WorkerRec
  <2>5. PutWorker(w, r) BY <1>5, <2>1 DEF ExitTerminal
  <2>6. workers'[w] = r BY <1>0, <2>5 DEF PutWorker
  <2>7. QED BY <2>2, <2>4, <2>6
<1>6. CASE \E x \in Worker : ProcessExit(x) \/ Exiting(x)
  BY <1>2, <1>3, <1>4, <1>5, <1>6 DEF Exiting
<1>7. CASE Pass
  <2>1. CASE CreateWorker
    <3>1. PICK x \in FreshWorker, r \in {[NoWorkerRec EXCEPT !.status = "created", !.job = d.job]} :
            PutWorker(x, r)
      BY <2>1 DEF CreateWorker
    <3>2. results' = results BY <2>1 DEF CreateWorker
    <3>3. x # w => workers'[w] = workers[w] BY <1>0, <3>1 DEF PutWorker
    <3>4. x = w => workers[w].status = "absent" BY <3>1 DEF FreshWorker
    <3>5. QED BY <2>1, <3>2, <3>3, <3>4
  <2>2. CASE StartingWrite \/ ActiveWrite
    <3>1. d.pc \in Starting /\ results' = results
      BY <2>2 DEF StartingWrite, ActiveWrite, At, Starting
    <3>2. d.worker # w => workers'[w] = workers[w]
      BY <1>0, <2>2 DEF StartingWrite, ActiveWrite, PutWorker
    <3>3. QED BY <2>2, <3>1, <3>2 DEF InHand
  <2>3. CASE StartFailed
    <3>1. d.pc \in Starting BY <2>3 DEF StartFailed, At, Starting
    <3>2. d.worker # w => workers'[w] = workers[w] /\ results'[w] = results[w]
      BY <1>0, <2>3 DEF StartFailed, PutWorker
    <3>3. ASSUME d.worker = w PROVE workers'[w].status = "failed"
      <4>1. PICK r : r = [d.wrec EXCEPT !.status = "failed"] OBVIOUS
      <4>2. r.status = "failed" BY <1>0, <4>1 DEF WorkerRec
      <4>3. workers'[w] = r BY <1>0, <2>3, <3>3, <4>1 DEF StartFailed, PutWorker
      <4>4. QED BY <4>2, <4>3
    <3>4. QED BY <2>3, <3>1, <3>2, <3>3 DEF InHand
  <2>4. CASE \/ BeginPass \/ EndPass \/ Prepare \/ LoopTest \/ LinkWorker
             \/ \E k \in Job : DropJob(k) \/ AtCapacity(k) \/ SkipConflict(k) \/ TakeJob(k)
    BY <2>4
    DEF BeginPass, EndPass, DropJob, AtCapacity, SkipConflict, TakeJob, Prepare,
        LoopTest, LinkWorker, store
  <2>5. CASE \/ StartRead \/ DispatchingWrite \/ CreateWorktree \/ Spawn
             \/ RunningWrite \/ Register \/ HeartbeatRejected
    BY <2>5
    DEF StartRead, DispatchingWrite, CreateWorktree, Spawn, RunningWrite, Register,
        HeartbeatRejected, store
  <2>6. CASE AwaitAggregation \/ FailureRead \/ FailureWrite \/ CreateRetry \/ AfterLoop
    BY <2>6 DEF AwaitAggregation, FailureRead, FailureWrite, CreateRetry, AfterLoop, store
  <2>7. QED BY <1>7, <2>1, <2>2, <2>3, <2>4, <2>5, <2>6 DEF Pass
<1>8. QED BY <1>1, <1>6, <1>7, NoStops DEF StageInv

\* A worker that has ended keeps its record and its result.
LEMMA EndedStays ==
  ASSUME JobInv, StageInv, Unstopped, [Next]_vars, NEW w \in Worker,
         workers[w].status \in TerminalWorker
  PROVE  workers'[w] = workers[w] /\ results'[w] = results[w]
<1>1. Stage(w) BY DEF StageInv
<1>2. ~InHand(w) BY <1>1 DEF Stage, InHand, Starting, TerminalWorker
<1>3. ~ExitFinishing(w) /\ ~ExitTerminal(w)
  BY <1>1 DEF Stage, ExitFinishing, ExitTerminal, TerminalWorker
<1>4. workers[w].status # "absent" BY DEF TerminalWorker
<1>5. QED BY <1>2, <1>3, <1>4, RecordSteps

\* The worker in hand changes only when one is created or let go.
LEMMA HandSteps ==
  ASSUME JobInv, StageInv, Unstopped, Pass
  PROVE  \A w \in Worker : InHand(w)' => InHand(w) \/ (CreateWorker /\ workers[w].status = "absent")
<1>1. CASE CreateWorker BY <1>1, MovesCreate DEF Moves, InHand, FreshWorker
<1>2. CASE \/ BeginPass \/ EndPass \/ AfterLoop \/ Prepare \/ LoopTest \/ LinkWorker
           \/ \E k \in Job : DropJob(k) \/ AtCapacity(k) \/ SkipConflict(k) \/ TakeJob(k)
  BY <1>2, MovesVisit, MovesCreate DEF Moves, InHand, Starting
<1>3. CASE \/ StartRead \/ StartingWrite \/ CreateWorktree \/ Spawn \/ ActiveWrite \/ Register
           \/ HeartbeatRejected
  BY <1>3, MovesStart DEF Moves, InHand, Starting
<1>4. CASE DispatchingWrite \/ RunningWrite BY <1>4, MovesOn DEF Moves, InHand, Starting
<1>5. CASE StartFailed \/ AwaitAggregation \/ FailureRead \/ FailureWrite \/ CreateRetry
  BY <1>5, MovesFail DEF Moves, InHand, Starting
<1>6. QED BY <1>1, <1>2, <1>3, <1>4, <1>5 DEF Pass

\* A record left behind at starting stays as it is.
LEMMA StrayStays ==
  ASSUME JobInv, StageInv, Unstopped, [Next]_vars, NEW w \in Worker, Stray(w)
  PROVE  Stray(w)'
<1>0. exit \in [Worker -> ExitRec] BY DEF JobInv, TypeOK
<1>1. workers'[w] = workers[w]
  BY RecordSteps DEF Stray, ExitFinishing, ExitTerminal
<1>2. ~InHand(w)'
  <2>1. CASE Pass BY <2>1, HandSteps DEF Stray
  <2>2. CASE ~Pass
    <3>1. UNCHANGED d BY <2>2, PassRests
    <3>2. QED BY <3>1 DEF Stray, InHand
  <2>3. QED BY <2>1, <2>2
<1>3. exit'[w] = exit[w]
  <2>1. CASE Client \/ UNCHANGED vars \/ \E k \in Job : RetryTimer(k) \/ Aggregating(k)
    BY <2>1, ClientSteps, AggregateSteps DEF vars, RetryTimer, tasks
  <2>2. CASE \E x \in Worker : ProcessExit(x) BY <2>2 DEF ProcessExit, tasks
  <2>3. CASE \E x \in Worker : Exiting(x)
    <3>1. PICK x \in Worker : Exiting(x) BY <2>3
    <3>2. exit[x].pc # "none"
      BY <3>1 DEF Exiting, ExitRead, ExitFinishing, ExitTerminal, ExitRelease
    <3>3. x # w BY <3>2 DEF Stray
    <3>4. QED
      BY <1>0, <3>1, <3>3 DEF Exiting, ExitRead, ExitFinishing, ExitTerminal, ExitRelease
  <2>4. CASE Pass
    <3>1. CASE Register
      <4>1. d.worker # w BY <3>1 DEF Register, At, Stray, InHand, Starting
      <4>2. QED BY <1>0, <3>1, <4>1 DEF Register
    <3>2. CASE \/ BeginPass \/ EndPass \/ Prepare \/ LoopTest \/ CreateWorker \/ LinkWorker
               \/ \E k \in Job : DropJob(k) \/ AtCapacity(k) \/ SkipConflict(k) \/ TakeJob(k)
      BY <3>2
      DEF BeginPass, EndPass, DropJob, AtCapacity, SkipConflict, TakeJob, Prepare,
          LoopTest, CreateWorker, LinkWorker, tasks
    <3>3. CASE \/ StartRead \/ StartingWrite \/ DispatchingWrite \/ CreateWorktree \/ Spawn
               \/ ActiveWrite \/ RunningWrite \/ HeartbeatRejected
      BY <3>3
      DEF StartRead, StartingWrite, DispatchingWrite, CreateWorktree, Spawn,
          ActiveWrite, RunningWrite, HeartbeatRejected, tasks
    <3>4. CASE StartFailed \/ AwaitAggregation \/ FailureRead \/ FailureWrite \/ CreateRetry
               \/ AfterLoop
      BY <3>4
      DEF StartFailed, AwaitAggregation, FailureRead, FailureWrite, CreateRetry, AfterLoop, tasks
    <3>5. QED BY <2>4, <3>1, <3>2, <3>3, <3>4 DEF Pass
  <2>5. QED BY <2>1, <2>2, <2>3, <2>4, NoStops DEF StageInv
<1>4. QED BY <1>1, <1>2, <1>3 DEF Stray

\* A worker that has ended without a failure.
Passed(w) == workers[w].status \in TerminalWorker /\ results[w] # "failed"

\* A worker a completed job may list: one that passed, or whose start will come to
\* nothing because the job has ended.
Excused(w) == Passed(w) \/ Stray(w) \/ (InHand(w) /\ d.pc \in {"start", "starting", "dispatching"})

ResultsNoted == \A w \in Worker : results[w] # "none" => workers[w].status \in TerminalWorker
CompletedEarned ==
  \A j \in Job : jobs[j].status = "completed" => \A w \in jobs[j].workerIds : Excused(w)
VerdictEarned ==
  \A j \in Job : agg[j].task.pc # "idle" /\ agg[j].task.verdict = "completed"
                   => \A w \in agg[j].task.rec.workerIds : Passed(w)
SnapEarned ==
  d.pc \in {"create", "link"} /\ d.snap.status = "completed"
    => \A w \in d.snap.workerIds : Passed(w) \/ Stray(w)
HeldKnows ==
  /\ d.pc \in {"starting", "dispatching"} /\ jobs[d.job].status = "completed"
  /\ d.worker \in jobs[d.job].workerIds
  => d.snap.status = "completed"

StrictInv == ResultsNoted /\ CompletedEarned /\ VerdictEarned /\ SnapEarned /\ HeldKnows

\* A worker that passed, or was left behind, remains so.
LEMMA ExcusesStay ==
  ASSUME JobInv, StageInv, Unstopped, [Next]_vars, NEW w \in Worker
  PROVE  (Passed(w) => Passed(w)') /\ (Stray(w) => Stray(w)')
BY EndedStays, StrayStays DEF Passed

LEMMA ResultsNext ==
  ASSUME JobInv, StageInv, Unstopped, ResultsNoted, [Next]_vars
  PROVE  ResultsNoted'
<1> SUFFICES ASSUME NEW w \in Worker, results'[w] # "none" PROVE workers'[w].status \in TerminalWorker
  BY DEF ResultsNoted
<1>1. Stage(w) /\ (results[w] # "none" => workers[w].status \in TerminalWorker)
  BY DEF StageInv, ResultsNoted
<1>2. CASE workers'[w] = workers[w] /\ results'[w] = results[w] BY <1>1, <1>2
<1>3. CASE CreateWorker /\ workers[w].status = "absent" /\ results'[w] = results[w]
  BY <1>1, <1>3 DEF TerminalWorker
<1>4. CASE (StartingWrite \/ ActiveWrite) /\ InHand(w) /\ results'[w] = results[w]
  BY <1>1, <1>4 DEF TerminalWorker, Stage, StartingWrite, ActiveWrite, At
<1>5. CASE StartFailed /\ InHand(w) /\ workers'[w].status = "failed" BY <1>5 DEF TerminalWorker
<1>6. CASE ExitFinishing(w) /\ results'[w] = results[w]
  BY <1>1, <1>6 DEF TerminalWorker, Stage, ExitFinishing
<1>7. CASE ExitTerminal(w) /\ workers'[w].status \in TerminalWorker BY <1>7
<1>8. QED BY <1>2, <1>3, <1>4, <1>5, <1>6, <1>7, RecordSteps

LEMMA VerdictNext ==
  ASSUME JobInv, StageInv, Unstopped, ListedInv, VerdictEarned, [Next]_vars
  PROVE  VerdictEarned'
<1> SUFFICES ASSUME NEW j \in Job, agg'[j].task.pc # "idle", agg'[j].task.verdict = "completed",
                    NEW w \in agg'[j].task.rec.workerIds
             PROVE  Passed(w)'
  BY DEF VerdictEarned
<1>1. ASSUME agg[j].task.pc # "idle", agg[j].task.verdict = "completed",
             w \in agg[j].task.rec.workerIds
      PROVE  Passed(w)'
  <2>1. Passed(w) /\ w \in Worker BY <1>1 DEF VerdictEarned, ListedInv, WorkersOf
  <2>2. QED BY <2>1, ExcusesStay
<1>2. CASE agg'[j].task = agg[j].task BY <1>1, <1>2
<1>3. CASE AggregateRead(j)
  <2>1. /\ Ready(j) /\ agg'[j].task.rec = jobs[j] /\ agg'[j].task.verdict = Verdict(j)
    BY <1>3, AggregateSteps
  <2>2. w \in WorkersOf(j) /\ w \in Worker BY <2>1 DEF ListedInv, WorkersOf
  <2>3. ResultOf(w) # "failed"
    <3>1. Verdict(j) = "completed" BY <2>1
    <3>2. QED BY <2>2, <3>1 DEF Verdict
  <2>4. Passed(w) BY <2>1, <2>2, <2>3 DEF Ready, ResultOf, Passed
  <2>5. QED BY <2>2, <2>4, ExcusesStay
<1>4. CASE AggregateAdvance(j)
  <2>1. agg[j].task.pc = "advance" /\ agg'[j].task.verdict = agg[j].task.verdict
    BY <1>4, AggregateSteps
  <2>2. agg'[j].task.rec.workerIds = agg[j].task.rec.workerIds
    BY <1>4, AggregateSteps DEF Wrote
  <2>3. QED BY <1>1, <2>1, <2>2
<1>5. ASSUME NEW k \in Job, Aggregating(k) PROVE Passed(w)'
  <2>1. CASE k # j
    <3>1. agg'[j] = agg[j] BY <1>5, <2>1, AggregateSteps
    <3>2. QED BY <1>2, <3>1
  <2>2. ~AggregateFinal(j) /\ ~AggregateFail(j) BY AggregateSteps
  <2>3. QED BY <1>3, <1>4, <1>5, <2>1, <2>2 DEF Aggregating
<1>6. ASSUME NEW k \in Job, NEW x \in Requester, Join(k, x) PROVE agg'[j].task = agg[j].task
  BY <1>6, JoinChain
<1>7. QED BY <1>2, <1>5, <1>6, ChainSteps DEF Requester

LEMMA SnapEarnedNext ==
  ASSUME JobInv, StageInv, Unstopped, ListedInv, CompletedEarned, SnapEarned, [Next]_vars
  PROVE  SnapEarned'
<1> SUFFICES ASSUME d'.pc \in {"create", "link"}, d'.snap.status = "completed",
                    NEW w \in d'.snap.workerIds
             PROVE  Passed(w)' \/ Stray(w)'
  BY DEF SnapEarned
<1>1. ASSUME d.pc \in {"create", "link"}, d'.snap = d.snap PROVE Passed(w)' \/ Stray(w)'
  <2>1. w \in Worker BY <1>1 DEF ListedInv, Carrying, WorkersOf
  <2>2. Passed(w) \/ Stray(w) BY <1>1 DEF SnapEarned
  <2>3. QED BY <2>1, <2>2, ExcusesStay
<1>2. CASE ~Pass
  <2>1. UNCHANGED d BY <1>2, PassRests
  <2>2. QED BY <1>1, <2>1
<1>3. CASE LoopTest
  <2>1. d.pc = "loop" /\ d'.snap = jobs[d.job] BY <1>3, MovesCreate DEF Moves
  <2>2. d.job \in Job BY <2>1 DEF JobInv, PassHolds
  <2>3. w \in Worker /\ Excused(w)
    BY <2>1, <2>2 DEF CompletedEarned, ListedInv, WorkersOf
  <2>4. QED BY <2>1, <2>3, ExcusesStay DEF Excused
<1>4. CASE CreateWorker BY <1>1, <1>4, MovesCreate DEF Moves
<1>5. CASE Pass
  BY <1>3, <1>4, <1>5, MovesVisit, MovesCreate, MovesStart, MovesOn, MovesFail DEF Pass, Moves
<1>6. QED BY <1>2, <1>5

LEMMA HeldNext ==
  ASSUME JobInv, StageInv, Unstopped, VerdictEarned, HeldKnows, [Next]_vars
  PROVE  HeldKnows'
<1> SUFFICES ASSUME d'.pc \in {"starting", "dispatching"}, jobs'[d'.job].status = "completed",
                    d'.worker \in jobs'[d'.job].workerIds
             PROVE  d'.snap.status = "completed"
  BY DEF HeldKnows
<1>1. CASE StartRead
  <2>1. Moves("starting", d.todo, d.job, jobs[d.job], d.worker) /\ UNCHANGED jobs
    BY <1>1, MovesStart DEF StartRead, store
  <2>2. QED BY <2>1 DEF Moves
<1>2. CASE StartingWrite
  <2>1. /\ d.pc = "starting" /\ Moves("dispatching", d.todo, d.job, d.snap, d.worker)
        /\ UNCHANGED jobs
    BY <1>2, MovesStart DEF StartingWrite
  <2>2. QED BY <2>1 DEF Moves, HeldKnows
<1>3. CASE DispatchingWrite BY <1>3, MovesOn DEF Moves
<1>4. CASE Pass
  BY <1>1, <1>2, <1>3, <1>4, MovesVisit, MovesCreate, MovesStart, MovesOn, MovesFail
  DEF Pass, Moves
<1>5. CASE ~Pass
  <2>1. UNCHANGED d BY <1>5, PassRests
  <2>2. PICK j \in Job : j = d.job BY <2>1 DEF JobInv, PassHolds
  <2>3. CASE jobs'[j] = jobs[j] BY <2>1, <2>2, <2>3 DEF HeldKnows
  <2>4. CASE Client
    <3>1. PICK k \in Job : Wrote(k, "queued", {}) BY <2>4, ClientSteps
    <3>2. QED BY <2>1, <2>2, <2>3, <3>1 DEF Wrote
  <2>5. ASSUME NEW k \in Job, Aggregating(k) PROVE d'.snap.status = "completed"
    <3>1. CASE k # j \/ UNCHANGED jobs
      BY <2>3, <2>5, <3>1, AggregateWrites DEF Wrote
    <3>2. CASE AggregateAdvance(j)
      <4>1. agg[j].task.rec.status \in JobStatus \cup {"absent"}
        BY DEF JobInv, TypeOK, AggRec, AggTask, JobRec
      <4>2. UNCHANGED jobs \/ jobs'[j].status # "completed"
        BY <3>2, <4>1, AggregateSteps, NextOnwardAggregating DEF Wrote
      <4>3. QED BY <2>1, <2>2, <2>3, <4>2
    <3>3. CASE AggregateFinal(j)
      <4>1. /\ agg[j].task.pc = "final" /\ agg[j].task.verdict = "completed"
            /\ d.worker \in agg[j].task.rec.workerIds
        BY <2>1, <2>2, <3>3, AggregateSteps DEF Wrote
      <4>2. Passed(d.worker) BY <4>1 DEF VerdictEarned
      <4>3. d.worker \in Worker /\ Stage(d.worker) /\ InHand(d.worker)
        BY <2>1 DEF JobInv, PassHolds, Starting, StageInv, InHand
      <4>4. QED BY <2>1, <4>2, <4>3 DEF Stage, Passed, TerminalWorker
    <3>4. (~AggregateRead(j) /\ ~AggregateFail(j)) \/ UNCHANGED jobs BY AggregateSteps
    <3>5. QED BY <2>5, <3>1, <3>2, <3>3, <3>4 DEF Aggregating
  <2>6. CASE UNCHANGED vars \/ \E k \in Job : RetryTimer(k)
    BY <2>3, <2>6 DEF vars, RetryTimer, store
  <2>7. CASE \E w \in Worker : ProcessExit(w) \/ Exiting(w)
    BY <2>3, <2>7
    DEF ProcessExit, Exiting, ExitRead, ExitFinishing, ExitTerminal, ExitRelease, store
  <2>8. QED BY <1>5, <2>4, <2>5, <2>6, <2>7, NoStops DEF StageInv
<1>6. QED BY <1>4, <1>5

\* The record of a completed job the step leaves alone.
LEMMA CompletedKept ==
  ASSUME JobInv, StageInv, Unstopped, ListedInv, CompletedEarned, HeldKnows, [Next]_vars,
         NEW j \in Job, jobs'[j].status = "completed", jobs'[j] = jobs[j],
         NEW w \in jobs'[j].workerIds
  PROVE  Excused(w)'
<1>0. /\ w \in Worker /\ w \in WorkersOf(j) /\ Excused(w) /\ Stage(w)
      /\ jobs[j].status = "completed" /\ w \in jobs[j].workerIds
  BY DEF ListedInv, WorkersOf, CompletedEarned, StageInv
<1>1. CASE Passed(w) \/ Stray(w) BY <1>0, <1>1, ExcusesStay DEF Excused
<1>2. CASE InHand(w) /\ d.pc \in {"start", "starting", "dispatching"}
  <2>0. d.worker = w /\ d.job = j BY <1>0, <1>2 DEF InHand, Stage, WorkersOf
  <2>1. CASE ~Pass
    <3>1. UNCHANGED d BY <2>1, PassRests
    <3>2. QED BY <1>2, <3>1 DEF Excused, InHand
  <2>2. CASE StartRead \/ StartingWrite
    BY <2>0, <2>2, MovesStart DEF Moves, Excused, InHand, Starting
  <2>3. CASE DispatchingWrite
    <3>1. d.pc = "dispatching" /\ d.snap.status = "completed"
      BY <1>0, <2>0, <2>3 DEF HeldKnows, DispatchingWrite, At
    <3>2. ~Past(d.snap.status, "dispatching")
      BY <3>1 DEF Past, Flow, FlowRank
    <3>3. AdvanceThrows(d.snap.status, "dispatching")
      BY <3>1 DEF AdvanceThrows, Past, Flow, FlowRank, NextStatus, FlowNext, ValidJob,
                  JobTransitions
    <3>4. d'.pc = "failed" BY <2>3, <3>2, <3>3, MovesOn DEF Moves
    <3>5. /\ workers'[w] = workers[w] /\ exit'[w] = exit[w]
          /\ workers[w].status = "starting" /\ exit[w].pc = "none"
      BY <1>0, <1>2, <2>3, <3>1 DEF DispatchingWrite, tasks, Stage
    <3>6. QED BY <3>4, <3>5 DEF Excused, Stray, InHand, Starting
  <2>4. CASE Pass
    BY <1>2, <2>2, <2>3, <2>4, MovesVisit, MovesCreate, MovesStart, MovesOn, MovesFail
    DEF Pass, Moves
  <2>5. QED BY <2>1, <2>4
<1>3. QED BY <1>0, <1>1, <1>2 DEF Excused

LEMMA CompletedNext ==
  ASSUME JobInv, StageInv, Unstopped, KnownInv, ListedInv, StrictInv, [Next]_vars
  PROVE  CompletedEarned'
<1> SUFFICES ASSUME NEW j \in Job, jobs'[j].status = "completed", NEW w \in jobs'[j].workerIds
             PROVE  Excused(w)'
  BY DEF CompletedEarned
<1>0. CompletedEarned /\ VerdictEarned /\ SnapEarned /\ HeldKnows BY DEF StrictInv
<1>1. CASE jobs'[j] = jobs[j] BY <1>0, <1>1, CompletedKept
<1>2. ASSUME NEW k \in Job, NEW s, NEW ids, Wrote(k, s, ids), s # "completed"
      PROVE  Excused(w)'
  BY <1>1, <1>2 DEF Wrote
<1>3. CASE Client BY <1>2, <1>3, ClientSteps
<1>4. ASSUME NEW k \in Job, Aggregating(k) PROVE Excused(w)'
  <2>1. CASE k # j \/ UNCHANGED jobs BY <1>1, <1>4, <2>1, AggregateWrites DEF Wrote
  <2>2. CASE AggregateAdvance(j)
    <3>1. agg[j].task.rec.status \in JobStatus \cup {"absent"}
      BY DEF JobInv, TypeOK, AggRec, AggTask, JobRec
    <3>2. UNCHANGED jobs \/ jobs'[j].status # "completed"
      BY <2>2, <3>1, AggregateSteps, NextOnwardAggregating DEF Wrote
    <3>3. QED BY <1>1, <3>2
  <2>3. CASE AggregateFinal(j)
    <3>1. /\ agg[j].task.pc = "final" /\ agg[j].task.verdict = "completed"
          /\ w \in agg[j].task.rec.workerIds
      BY <2>3, AggregateSteps DEF Wrote
    <3>2. w \in Worker /\ Passed(w) BY <1>0, <3>1 DEF VerdictEarned, ListedInv, WorkersOf
    <3>3. QED BY <3>2, ExcusesStay DEF Excused
  <2>4. (~AggregateRead(j) /\ ~AggregateFail(j)) \/ UNCHANGED jobs BY AggregateSteps
  <2>5. QED BY <1>4, <2>1, <2>2, <2>3, <2>4 DEF Aggregating
<1>5. CASE LinkWorker
  <2>1. /\ d.pc = "link" /\ Moves("start", d.todo, d.job, d.snap, d.worker)
        /\ Wrote(d.job, d.snap.status, d.snap.workerIds \cup {d.worker})
    BY <1>5, MovesCreate
  <2>2. CASE d.snap.status = "completed" /\ d.job = j
    <3>1. w \in d.snap.workerIds \/ w = d.worker BY <2>1, <2>2 DEF Wrote
    <3>2. CASE w = d.worker BY <2>1, <3>2 DEF Moves, Excused, InHand, Starting
    <3>3. CASE w \in d.snap.workerIds
      <4>1. w \in Worker BY <2>1, <3>3 DEF ListedInv, Carrying, WorkersOf
      <4>2. Passed(w) \/ Stray(w) BY <1>0, <2>1, <2>2, <3>3 DEF SnapEarned
      <4>3. QED BY <4>1, <4>2, ExcusesStay DEF Excused
    <3>4. QED BY <3>1, <3>2, <3>3
  <2>3. QED BY <1>1, <2>1, <2>2 DEF Wrote
<1>6. CASE DispatchingWrite \/ RunningWrite
  <2>1. d.snap.status \in JobStatus \cup {"absent"} BY DEF JobInv, TypeOK, PassRec, JobRec
  <2>2. CASE UNCHANGED jobs BY <1>1, <2>2
  <2>3. CASE \E t \in {"dispatching", "running"} :
               /\ ~Past(d.snap.status, t)
               /\ Wrote(d.job, NextStatus(d.snap.status, t), d.snap.workerIds)
    BY <1>2, <2>1, <2>3, NextOnward DEF Wrote
  <2>4. QED BY <1>6, <2>2, <2>3, MovesOn
<1>7. CASE Prepare BY <1>1, <1>2, <1>7, MovesCreate DEF Wrote
<1>8. CASE FailureWrite BY <1>2, <1>8, MovesFail DEF Wrote
<1>9. CASE CreateRetry
  <2>1. CASE UNCHANGED jobs BY <1>1, <2>1
  <2>2. CASE \E r \in FreshJob : PutJob(r, RetryOf(d.snap))
    <3>1. PICK r \in FreshJob : PutJob(r, RetryOf(d.snap)) BY <2>2
    <3>2. RetryOf(d.snap).status = "queued" BY DEF RetryOf
    <3>3. r = j => jobs'[j].status = "queued" BY <3>1, <3>2 DEF PutJob, JobInv, TypeOK
    <3>4. r # j => jobs'[j] = jobs[j] BY <3>1 DEF PutJob, JobInv, TypeOK
    <3>5. QED BY <1>1, <3>3, <3>4
  <2>3. QED BY <1>9, <2>1, <2>2 DEF CreateRetry
<1>10. CASE \/ BeginPass \/ EndPass \/ LoopTest \/ CreateWorker \/ AfterLoop
            \/ \E k \in Job : DropJob(k) \/ AtCapacity(k) \/ SkipConflict(k) \/ TakeJob(k)
  BY <1>1, <1>10
  DEF BeginPass, EndPass, DropJob, AtCapacity, SkipConflict, TakeJob, LoopTest, CreateWorker,
      AfterLoop, store
<1>11. CASE \/ StartRead \/ StartingWrite \/ CreateWorktree \/ Spawn \/ ActiveWrite \/ Register
            \/ HeartbeatRejected \/ StartFailed \/ AwaitAggregation \/ FailureRead
  BY <1>1, <1>11
  DEF StartRead, StartingWrite, CreateWorktree, Spawn, ActiveWrite, Register,
      HeartbeatRejected, StartFailed, AwaitAggregation, FailureRead, store
<1>12. CASE Pass BY <1>5, <1>6, <1>7, <1>8, <1>9, <1>10, <1>11, <1>12 DEF Pass
<1>13. CASE UNCHANGED vars \/ \E k \in Job : RetryTimer(k)
  BY <1>1, <1>13 DEF vars, RetryTimer, store
<1>14. CASE \E x \in Worker : ProcessExit(x) \/ Exiting(x)
  BY <1>1, <1>14
  DEF ProcessExit, Exiting, ExitRead, ExitFinishing, ExitTerminal, ExitRelease, store
<1>15. QED BY <1>3, <1>4, <1>12, <1>13, <1>14, NoStops DEF StageInv

LEMMA StrictInit == Init => StrictInv
<1> SUFFICES ASSUME Init PROVE StrictInv OBVIOUS
<1>1. d.pc = "idle" BY IdleFields DEF Init
<1>2. \A w \in Worker : results[w] = "none" BY DEF Init
<1>3. \A j \in Job : jobs[j].status = "absent" /\ agg[j].task.pc = "idle"
  BY DEF Init, NoJobRec, IdleAgg
<1>4. QED
  BY <1>1, <1>2, <1>3
  DEF StrictInv, ResultsNoted, CompletedEarned, VerdictEarned, SnapEarned, HeldKnows

\* StrictAggregation, where nobody is stopped: a verdict of completed is given on
\* workers that all passed, their results never change again, and a worker that the
\* pass adds to a job completed meanwhile is never run.
THEOREM CompletionIsStrict == ASSUME Unstopped PROVE Spec => []StrictAggregation
<1>1. JobInv /\ StageInv /\ KnownInv /\ ListedInv /\ StrictInv /\ [Next]_vars => StrictInv'
  BY ResultsNext, VerdictNext, SnapEarnedNext, HeldNext, CompletedNext DEF StrictInv
<1>2. ListedInv /\ StageInv /\ StrictInv => StrictAggregation
  <2> SUFFICES ASSUME ListedInv, StageInv, StrictInv, NEW j \in Job, jobs[j].status = "completed",
                      NEW w \in jobs[j].workerIds
               PROVE  results[w] # "failed"
    BY DEF StrictAggregation
  <2>1. w \in Worker /\ Excused(w) BY DEF ListedInv, WorkersOf, StrictInv, CompletedEarned
  <2>2. CASE Passed(w) BY <2>2 DEF Passed
  <2>3. CASE ~Passed(w)
    <3>1. workers[w].status \notin TerminalWorker
      BY <2>1, <2>3 DEF Excused, Stray, InHand, StageInv, Stage, TerminalWorker
    <3>2. results[w] = "none" BY <2>1, <3>1 DEF StrictInv, ResultsNoted
    <3>3. QED BY <3>2
  <2>4. QED BY <2>2, <2>3
<1>3. QED BY Invariance, StagesHold, QueuedAreStored, ListedAreOwn, StrictInit, <1>1, <1>2, PTL
  DEF Spec
=============================================================================
