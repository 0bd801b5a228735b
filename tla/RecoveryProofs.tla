--------------------------- MODULE RecoveryProofs ---------------------------
(***************************************************************************)
(* What holds of Recovery for any number of jobs, workers, retries and     *)
(* crashes: no process on record outlives its record, no worktree goes     *)
(* from under a process, and no job is completed but on a result.          *)
(***************************************************************************)
EXTENDS Recovery, TLAPS

PassPc == {"idle", "visit", "prepare", "create", "start", "worktree", "spawn", "active",
           "register", "after", "failed", "retry"}
RcPc   == {"idle", "repair", "write", "result", "jobs", "aggregate", "final"}
Result == {"completed", "failed", "canceled"}
Proc   == {"none", "live", "ok", "error", "killed"}
JobRec == [status : JobStatus \cup {"absent"}, retries : 0..MaxRetries]
WorkerRec == [status : WorkerStatus \cup {"absent"}, job : Job \cup {NoJob},
              pid : BOOLEAN, tree : BOOLEAN, cancel : BOOLEAN]
OsRec   == [proc : [Worker -> Proc], file : [Worker -> Result \cup {"none"}], dir : SUBSET Worker]
PassRec == [pc : PassPc, todo : SUBSET Job, job : Job \cup {NoJob},
            worker : Worker \cup {NoWorker}, snap : JobStatus \cup {"absent"}]
AggRec  == [asked : BOOLEAN, pc : {"idle", "final"}, snap : {"absent"}, verdict : Result]
Snaps   == UNION {[S -> WorkerRec] : S \in SUBSET Worker}
ReconRec == [pc : RcPc, forced : BOOLEAN, snap : Snaps, repaired : SUBSET (Job \cup {NoJob}),
             todo : SUBSET Job, worker : Worker \cup {NoWorker}, job : Job \cup {NoJob},
             status : WorkerStatus \cup JobStatus \cup {"absent"}, verdict : Result]
QueueRec == [backend : Backends, jobs : SUBSET Job]

\* The records, as far as the proofs need them.
Typed ==
  /\ mode \in {"down", "boot", "up", "draining"} /\ crashes \in 0..MaxCrashes
  /\ jobs \in [Job -> JobRec] /\ workers \in [Worker -> WorkerRec] /\ os \in OsRec
  /\ queue \in QueueRec /\ timers \subseteq Job /\ d \in PassRec /\ beat \subseteq Worker
  /\ exit \in [Worker -> {"none", "watch", "collect", "settle"}]
  /\ cached \in [Worker -> Result \cup {"none"}] /\ agg \in [Job -> AggRec] /\ rc \in ReconRec

-----------------------------------------------------------------------------
(* The inductive invariant *)

Starts == {"start", "worktree", "spawn", "active", "register"}

\* Nothing is in memory before the orchestrator is up.
Quiet ==
  /\ mode \in {"down", "boot"} => /\ d.pc = "idle" /\ beat = {}
                                  /\ \A w \in Worker : exit[w] = "none" /\ cached[w] = "none"
                                  /\ \A j \in Job : ~agg[j].asked /\ agg[j].pc = "idle"
  /\ mode = "down" => rc.pc = "idle"
  /\ rc.pc # "idle" /\ rc.forced => mode = "boot"

\* A worker's record, its process and files, and what memory knows of it.
Kept(w) ==
  /\ workers[w].pid => workers[w].status \notin {"absent", "created", "starting"}
  /\ workers[w].pid = workers[w].tree
  /\ workers[w].status = "absent" => /\ os.proc[w] = "none" /\ os.file[w] = "none"
                                     /\ w \notin beat /\ cached[w] = "none"
  /\ exit[w] # "none" => w \in beat
  /\ exit[w] \in {"collect", "settle"} => ~Live(w)
  /\ exit[w] \in {"watch", "collect"} => cached[w] = "none"
  /\ exit[w] = "settle" => cached[w] # "none"
  /\ cached[w] # "none" => os.file[w] = cached[w] /\ ~Live(w) /\ (w \in beat \/ Ended(w))
  /\ os.file[w] = "completed" => ~Live(w)
  /\ Ended(w) /\ workers[w].pid => ~Live(w)
  /\ workers[w].tree /\ Live(w) => w \in os.dir

\* The worker that is being started is nobody else's.
StartInv ==
  /\ d.pc \in Starts =>
       /\ d.worker \in Worker /\ d.worker \notin beat /\ d.worker # rc.worker
       /\ exit[d.worker] = "none" /\ cached[d.worker] = "none"
       /\ workers[d.worker].status = CASE d.pc = "start"    -> "created"
                                       [] d.pc = "register" -> "active"
                                       [] OTHER             -> "starting"
       /\ d.pc \in {"start", "worktree", "spawn"}
            => os.proc[d.worker] = "none" /\ os.file[d.worker] = "none"
       /\ d.pc \in {"spawn", "active", "register"} => d.worker \in os.dir
  /\ d.pc \notin {"idle", "visit"} => d.job \in Job
  /\ d.pc = "retry" => jobs[d.job].retries < MaxRetries /\ jobs[d.job].status # "absent"

\* Nor the one that a reconcile pass repairs.
RepairInv ==
  /\ rc.pc \in {"write", "result"} =>
       /\ rc.worker \in Worker /\ rc.worker \notin beat
       /\ exit[rc.worker] = "none" /\ cached[rc.worker] = "none"
       /\ rc.status \in {"canceled", "lost"} /\ workers[rc.worker].status # "absent"
       /\ rc.pc = "write" => /\ ~Ended(rc.worker)
                             /\ workers[rc.worker].pid => ~Live(rc.worker)
       /\ rc.pc = "result" => Ended(rc.worker)
  /\ rc.pc \notin {"write", "result"} => rc.worker = NoWorker
  /\ \A w \in DOMAIN rc.snap : rc.snap[w].status \notin TerminalWorker \cup {"absent"}

\* A worker that delivered the result of a job, which nothing overwrites.
Delivered(w, j) ==
  /\ workers[w].job = j /\ Ended(w) /\ os.file[w] = "completed" /\ w # rc.worker

Cited(j) ==
  /\ agg[j].asked => \E w \in Worker : workers[w].job = j /\ cached[w] # "none"
  /\ agg[j].pc = "final" /\ agg[j].verdict = "completed"
       => \E w \in Worker : workers[w].job = j /\ cached[w] = "completed" /\ Ended(w)
  /\ jobs[j].status = "completed" => \E w \in Worker : Delivered(w, j)

VerdictInv ==
  rc.pc \in {"aggregate", "final"} =>
    /\ rc.job \in Job
    /\ rc.verdict = "completed" => \E w \in Worker : Delivered(w, rc.job)

RecoveryInv ==
  /\ Typed /\ Quiet /\ StartInv /\ RepairInv /\ VerdictInv
  /\ \A w \in Worker : Kept(w)
  /\ \A j \in Job : Cited(j)

-----------------------------------------------------------------------------
(* Lemmas about the operators the actions are built from *)

\* The records that memory starts with.
LEMMA EmptyTypes ==
  /\ NoPass \in PassRec /\ NoAgg \in AggRec /\ NoRecon \in ReconRec
  /\ NoPass.pc = "idle" /\ ~NoAgg.asked /\ NoAgg.pc = "idle"
  /\ NoRecon.pc = "idle" /\ NoRecon.worker = NoWorker /\ DOMAIN NoRecon.snap = {}
<1>1. NoPass \in PassRec /\ NoAgg \in AggRec
  BY DEF NoPass, NoAgg, PassRec, AggRec, PassPc, Result
<1>2. NoRecon \in ReconRec
  <2>1. [w \in {} |-> NoRec] \in [{} -> WorkerRec] OBVIOUS
  <2>2. PICK s : s = [w \in {} |-> NoRec] OBVIOUS
  <2>3. s \in Snaps BY <2>1, <2>2 DEF Snaps
  <2>4. [pc |-> "idle", forced |-> FALSE, snap |-> s, repaired |-> {},
         todo |-> {}, worker |-> NoWorker, job |-> NoJob, status |-> "absent",
         verdict |-> "failed"] \in ReconRec
    BY <2>3 DEF ReconRec, RcPc, Result
  <2>5. QED BY <2>2, <2>4 DEF NoRecon
<1>3. QED BY <1>1, <1>2 DEF NoPass, NoAgg, NoRecon

\* One job's status is written.
LEMMA PutJobFact ==
  ASSUME Typed, NEW j \in Job, NEW s \in JobStatus, PutJob(j, s)
  PROVE  /\ jobs' \in [Job -> JobRec] /\ jobs'[j].status = s
         /\ \A k \in Job : jobs'[k].retries = jobs[k].retries
         /\ \A k \in Job : k # j => jobs'[k] = jobs[k]
BY DEF Typed, PutJob, JobRec

\* One worker's status is written.
LEMMA PutWorkerFact ==
  ASSUME Typed, NEW w \in Worker, NEW s \in WorkerStatus, PutWorker(w, s)
  PROVE  /\ workers' \in [Worker -> WorkerRec] /\ workers'[w].status = s
         /\ workers'[w].job = workers[w].job /\ workers'[w].pid = workers[w].pid
         /\ workers'[w].tree = workers[w].tree
         /\ \A v \in Worker : v # w => workers'[v] = workers[v]
BY DEF Typed, PutWorker, WorkerRec

\* A process, a file, a directory.
LEMMA OsFact ==
  ASSUME Typed
  PROVE  /\ os.proc \in [Worker -> Proc] /\ os.file \in [Worker -> Result \cup {"none"}]
         /\ os.dir \subseteq Worker
         /\ \A w \in Worker, p \in Proc :
              LET o == [os EXCEPT !.proc[w] = p] IN
              /\ o \in OsRec /\ o.file = os.file /\ o.dir = os.dir
              /\ o.proc = [os.proc EXCEPT ![w] = p]
         /\ \A D \in SUBSET Worker :
              LET o == [os EXCEPT !.dir = D] IN
              o \in OsRec /\ o.file = os.file /\ o.dir = D /\ o.proc = os.proc
         /\ \A w \in Worker, f \in Result :
              LET o == [os EXCEPT !.file[w] = f] IN
              /\ o \in OsRec /\ o.proc = os.proc /\ o.dir = os.dir
              /\ o.file = [os.file EXCEPT ![w] = f]
         /\ \A P \in [Worker -> Proc] :
              LET o == [os EXCEPT !.proc = P] IN
              o \in OsRec /\ o.file = os.file /\ o.dir = os.dir /\ o.proc = P
         /\ \A F \in [Worker -> Result \cup {"none"}] :
              LET o == [os EXCEPT !.file = F] IN
              o \in OsRec /\ o.file = F /\ o.dir = os.dir /\ o.proc = os.proc
<1>1. PICK x \in OsRec : x = os BY DEF Typed
<1>2. x.proc \in [Worker -> Proc] /\ x.file \in [Worker -> Result \cup {"none"}]
      /\ x.dir \subseteq Worker
  BY DEF OsRec
<1>3. ASSUME NEW w \in Worker, NEW p \in Proc
      PROVE  LET o == [x EXCEPT !.proc[w] = p] IN
              /\ o \in OsRec /\ o.file = x.file /\ o.dir = x.dir
              /\ o.proc = [x.proc EXCEPT ![w] = p]
  BY <1>2 DEF OsRec
<1>4. ASSUME NEW w \in Worker, NEW f \in Result
      PROVE  LET o == [x EXCEPT !.file[w] = f] IN
              /\ o \in OsRec /\ o.proc = x.proc /\ o.dir = x.dir
              /\ o.file = [x.file EXCEPT ![w] = f]
  BY <1>2 DEF OsRec
<1>5. ASSUME NEW D \in SUBSET Worker
      PROVE  LET o == [x EXCEPT !.dir = D] IN
             o \in OsRec /\ o.file = x.file /\ o.dir = D /\ o.proc = x.proc
  BY <1>2 DEF OsRec
<1>6. ASSUME NEW P \in [Worker -> Proc]
      PROVE  LET o == [x EXCEPT !.proc = P] IN
             o \in OsRec /\ o.file = x.file /\ o.dir = x.dir /\ o.proc = P
  BY <1>2 DEF OsRec
<1>7. ASSUME NEW F \in [Worker -> Result \cup {"none"}]
      PROVE  LET o == [x EXCEPT !.file = F] IN
             o \in OsRec /\ o.file = F /\ o.dir = x.dir /\ o.proc = x.proc
  BY <1>2 DEF OsRec
<1>8. QED BY <1>1, <1>2, <1>3, <1>4, <1>5, <1>6, <1>7

\* The queue, with a job more or less.
LEMMA QueueFact ==
  ASSUME Typed
  PROVE  \A j \in Job : Enqueued(j) \in QueueRec /\ Dequeued(j) \in QueueRec
BY DEF Typed, QueueRec, Enqueued, Dequeued

\* What is left of a result has a status of its own.
LEMMA ResultFact ==
  ASSUME Typed
  PROVE  /\ \A S : Verdict(S) \in Result
         /\ \A w \in Worker : /\ ExecutionStatus(w) \in Result /\ FinalStatus(w) \in TerminalWorker
                              /\ FromRecord(w) \in Result /\ CachedResult(w) \in Result
                              /\ Fallback(w) \in Result \ {"completed"} /\ Collected(w) \in Result
         /\ Result \subseteq JobStatus /\ TerminalWorker \subseteq WorkerStatus
<1>1. \A S : Verdict(S) \in Result BY DEF Verdict, Result
<1>2. \A w \in Worker : ExecutionStatus(w) \in Result /\ FinalStatus(w) \in TerminalWorker
  BY DEF ExecutionStatus, FinalStatus, Result, TerminalWorker
<1>3. \A w \in Worker : FromRecord(w) \in Result /\ Fallback(w) \in Result \ {"completed"}
  BY DEF FromRecord, Fallback, Result
<1>4. \A w \in Worker : CachedResult(w) \in Result /\ Collected(w) \in Result
  BY <1>3, OsFact DEF CachedResult, Collected, Typed
<1>5. Result \subseteq JobStatus /\ TerminalWorker \subseteq WorkerStatus
  BY DEF Result, JobStatus, TerminalWorker, WorkerStatus
<1>6. QED BY <1>1, <1>2, <1>3, <1>4, <1>5

-----------------------------------------------------------------------------
(* Steps that write neither worker records nor what belongs to a worker *)

\* Such a step keeps what is known of each worker.
LEMMA KeptSame ==
  ASSUME NEW w \in Worker, Kept(w), UNCHANGED <<workers, os, exit, beat, cached>>
  PROVE  Kept(w)'
BY DEF Kept, Ended, Live

\* A step of a client, a timer, or of the pass while it starts nobody.
LEMMA JobStep ==
  ASSUME RecoveryInv, Typed', StartInv',
         UNCHANGED <<mode, workers, os, exit, beat, cached, agg, rc>>,
         mode \in {"up", "draining"},
         \A j \in Job : jobs'[j].status = "completed" => jobs[j].status = "completed"
  PROVE  RecoveryInv'
<1>1. \A w \in Worker : Kept(w)' BY KeptSame DEF RecoveryInv
<1>2. Quiet' BY DEF RecoveryInv, Quiet
<1>3. RepairInv' BY DEF RecoveryInv, RepairInv, Ended, Live
<1>4. \A j, w : Delivered(w, j)' <=> Delivered(w, j) BY DEF Delivered, Ended
<1>5. VerdictInv' BY <1>4 DEF RecoveryInv, VerdictInv
<1>6. ASSUME NEW j \in Job PROVE Cited(j)'
  <2>1. Cited(j) BY DEF RecoveryInv
  <2>2. QED BY <1>4, <2>1 DEF Cited, Ended
<1>7. QED BY <1>1, <1>2, <1>3, <1>5, <1>6 DEF RecoveryInv

\* Clients, retries, and the pass between two workers.
LEMMA JobNext ==
  ASSUME RecoveryInv,
         \/ \E j \in Job : Submit(j) \/ RetryTimer(j) \/ Visit(j)
         \/ BeginPass \/ EndPass \/ Prepare \/ Retry \/ AfterJob
  PROVE  RecoveryInv'
<1> USE DEF store, memory
<1>0. Typed /\ StartInv BY DEF RecoveryInv
<1>d. d \in PassRec /\ queue \in QueueRec /\ NoPass \in PassRec /\ jobs \in [Job -> JobRec]
  BY EmptyTypes DEF RecoveryInv, Typed
<1>1. ASSUME NEW j \in Job, Submit(j) PROVE RecoveryInv'
  <2>1. /\ mode = "up" /\ jobs[j].status = "absent" /\ PutJob(j, "queued") /\ queue' = Enqueued(j)
        /\ UNCHANGED <<mode, workers, os, d, timers, exit, beat, cached, agg, rc, crashes>>
    BY <1>1 DEF Submit
  <2>2. "queued" \in JobStatus BY DEF JobStatus
  <2>3. /\ jobs' \in [Job -> JobRec] /\ jobs'[j].status = "queued"
        /\ \A k \in Job : jobs'[k].retries = jobs[k].retries
        /\ \A k \in Job : k # j => jobs'[k] = jobs[k]
    BY <1>0, <2>1, <2>2, PutJobFact
  <2>4. Typed' BY <1>0, <2>1, <2>3, QueueFact DEF Typed
  <2>5. StartInv' BY <1>0, <2>1, <2>3 DEF StartInv
  <2>6. QED BY <2>1, <2>3, <2>4, <2>5, JobStep
<1>2. ASSUME NEW j \in Job, RetryTimer(j) PROVE RecoveryInv'
  <2>1. /\ mode \in {"up", "draining"} /\ queue' = Enqueued(j) /\ timers' = timers \ {j}
        /\ UNCHANGED <<mode, jobs, workers, os, d, exit, beat, cached, agg, rc, crashes>>
    BY <1>2 DEF RetryTimer, Running
  <2>2. Typed' BY <1>0, <2>1, QueueFact DEF Typed
  <2>3. StartInv' BY <1>0, <2>1 DEF StartInv
  <2>4. QED BY <2>1, <2>2, <2>3, JobStep
<1>3. ASSUME NEW j \in Job, Visit(j) PROVE RecoveryInv'
  <2>1. /\ mode \in {"up", "draining"} /\ d.pc = "visit" /\ queue' = Dequeued(j)
        /\ \/ d' = [d EXCEPT !.todo = @ \ {j}]
           \/ d' = [d EXCEPT !.pc = "prepare", !.todo = @ \ {j}, !.job = j, !.snap = jobs[j].status]
        /\ UNCHANGED <<mode, jobs, workers, os, timers, exit, beat, cached, agg, rc, crashes>>
    BY <1>3 DEF Visit, At, Running
  <2>2. jobs[j].status \in JobStatus \cup {"absent"} BY <1>d DEF JobRec
  <2>3. PICK p \in PassRec : p = d BY <1>d
  <2>4. CASE d' = [p EXCEPT !.todo = p.todo \ {j}]
    <3>1. d' \in PassRec /\ d'.pc = "visit" BY <2>1, <2>3, <2>4 DEF PassRec
    <3>2. Typed' BY <1>0, <2>1, <3>1, QueueFact DEF Typed
    <3>3. StartInv' BY <1>0, <2>1, <3>1 DEF StartInv, Starts
    <3>4. QED BY <2>1, <3>2, <3>3, JobStep
  <2>5. CASE d' = [p EXCEPT !.pc = "prepare", !.todo = p.todo \ {j}, !.job = j,
                           !.snap = jobs[j].status]
    <3>1. d' \in PassRec /\ d'.pc = "prepare" /\ d'.job = j
      BY <2>2, <2>5 DEF PassRec, PassPc
    <3>2. Typed' BY <1>0, <2>1, <3>1, QueueFact DEF Typed
    <3>3. StartInv' BY <1>0, <2>1, <3>1 DEF StartInv, Starts
    <3>4. QED BY <2>1, <3>2, <3>3, JobStep
  <2>6. QED BY <2>1, <2>3, <2>4, <2>5
<1>4. CASE BeginPass \/ EndPass
  <2>1. /\ mode \in {"up", "draining"} /\ d' \in PassRec /\ d'.pc \in {"idle", "visit"}
        /\ UNCHANGED <<mode, jobs, workers, os, queue, timers, exit, beat, cached, agg, rc, crashes>>
    <3>1. PICK p \in PassRec : p = NoPass BY <1>d
    <3>2. CASE BeginPass
      <4>1. d' = [p EXCEPT !.pc = "visit", !.todo = queue.jobs] BY <3>1, <3>2 DEF BeginPass
      <4>2. queue.jobs \subseteq Job BY <1>d DEF QueueRec
      <4>3. d' \in PassRec /\ d'.pc = "visit" BY <4>1, <4>2 DEF PassRec, PassPc
      <4>4. QED BY <3>2, <4>3 DEF BeginPass
    <3>3. CASE EndPass BY <1>d, <3>3, EmptyTypes DEF EndPass, At, Running
    <3>4. QED BY <1>4, <3>2, <3>3
  <2>2. Typed' BY <1>0, <2>1 DEF Typed
  <2>3. StartInv' BY <1>0, <2>1 DEF StartInv, Starts
  <2>4. QED BY <2>1, <2>2, <2>3, JobStep
<1>5. CASE Prepare
  <2>1. /\ mode \in {"up", "draining"} /\ d.pc = "prepare" /\ d' = [d EXCEPT !.pc = "create"]
        /\ jobs' = jobs \/ PutJob(d.job, "preparing")
        /\ UNCHANGED <<mode, workers, os, queue, timers, exit, beat, cached, agg, rc, crashes>>
    BY <1>5 DEF Prepare, At, Go, Running
  <2>2. d' \in PassRec /\ d'.pc = "create" /\ d'.job = d.job BY <1>d, <2>1 DEF PassRec, PassPc
  <2>3. d.job \in Job BY <1>0, <2>1 DEF StartInv
  <2>4. "preparing" \in JobStatus BY DEF JobStatus
  <2>5. /\ jobs' \in [Job -> JobRec]
        /\ \A j \in Job : jobs'[j].status = "completed" => jobs[j].status = "completed"
    <3>1. CASE jobs' = jobs BY <1>d, <3>1
    <3>2. CASE PutJob(d.job, "preparing") BY <1>0, <2>3, <2>4, <3>2, PutJobFact
    <3>3. QED BY <2>1, <3>1, <3>2
  <2>6. Typed' BY <1>0, <2>1, <2>2, <2>5 DEF Typed
  <2>7. StartInv' BY <2>2, <2>3 DEF StartInv, Starts
  <2>8. QED BY <2>1, <2>5, <2>6, <2>7, JobStep
<1>6. CASE Retry
  <2>1. /\ mode \in {"up", "draining"} /\ d.pc = "retry" /\ d' = [d EXCEPT !.pc = "after"]
        /\ UNCHANGED <<mode, workers, os, queue, exit, beat, cached, agg, rc, crashes>>
    BY <1>6 DEF Retry, At, Go, Running
  <2>2. d' \in PassRec /\ d'.pc = "after" /\ d'.job = d.job BY <1>d, <2>1 DEF PassRec, PassPc
  <2>3. d.job \in Job /\ jobs[d.job].retries < MaxRetries BY <1>0, <2>1 DEF StartInv
  <2>4. /\ jobs' \in [Job -> JobRec] /\ timers' \subseteq Job
        /\ \A j \in Job : jobs'[j].status = "completed" => jobs[j].status = "completed"
    <3>1. CASE UNCHANGED <<jobs, timers>> BY <1>0, <3>1 DEF Typed
    <3>2. ASSUME NEW r \in FreshJob,
                 jobs' = [jobs EXCEPT ![r] = [status |-> "queued", retries |-> jobs[d.job].retries + 1]],
                 timers' = timers \cup {r}
          PROVE  /\ jobs' \in [Job -> JobRec] /\ timers' \subseteq Job
                 /\ \A j \in Job : jobs'[j].status = "completed" => jobs[j].status = "completed"
      <4>1. r \in Job BY DEF FreshJob
      <4>2. MaxRetries \in Nat /\ jobs[d.job].retries \in 0..MaxRetries
        BY <1>d, <2>3, RecoveryAssumption DEF RecoveryAssumption, JobRec
      <4>3. jobs[d.job].retries + 1 \in 0..MaxRetries BY <2>3, <4>2
      <4>4. PICK x \in JobRec : x = [status |-> "queued", retries |-> jobs[d.job].retries + 1]
        BY <4>3 DEF JobRec, JobStatus
      <4>5. x.status = "queued" /\ jobs' = [jobs EXCEPT ![r] = x] BY <3>2, <4>4
      <4>6. timers' \subseteq Job BY <1>0, <3>2, <4>1 DEF Typed
      <4>7. QED BY <1>d, <4>1, <4>5, <4>6
    <3>3. QED BY <1>6, <3>1, <3>2 DEF Retry
  <2>5. Typed' BY <1>0, <2>1, <2>2, <2>4 DEF Typed
  <2>6. StartInv' BY <2>2, <2>3 DEF StartInv, Starts
  <2>7. QED BY <2>1, <2>4, <2>5, <2>6, JobStep
<1>7. CASE AfterJob
  <2>1. /\ mode \in {"up", "draining"} /\ d.pc = "after"
        /\ d' = [NoPass EXCEPT !.pc = "visit", !.todo = d.todo]
        /\ queue' = queue \/ queue' = Enqueued(d.job)
        /\ UNCHANGED <<mode, jobs, workers, os, timers, exit, beat, cached, agg, rc, crashes>>
    BY <1>7 DEF AfterJob, At, Running
  <2>2. d.todo \subseteq Job BY <1>d DEF PassRec
  <2>3. PICK p \in PassRec : p = NoPass BY <1>d
  <2>4. d' \in PassRec /\ d'.pc = "visit"
    <3>1. d' = [p EXCEPT !.pc = "visit", !.todo = d.todo] BY <2>1, <2>3
    <3>2. QED BY <2>2, <3>1 DEF PassRec, PassPc
  <2>5. d.job \in Job BY <1>0, <2>1 DEF StartInv
  <2>6. Typed' BY <1>0, <2>1, <2>4, <2>5, QueueFact DEF Typed
  <2>7. StartInv' BY <2>4 DEF StartInv, Starts
  <2>8. QED BY <2>1, <2>6, <2>7, JobStep
<1>8. QED BY <1>1, <1>2, <1>3, <1>4, <1>5, <1>6, <1>7

-----------------------------------------------------------------------------
(* Steps that concern one worker *)

\* A step leaves a worker alone.
Same(v) ==
  /\ workers'[v] = workers[v] /\ exit'[v] = exit[v] /\ cached'[v] = cached[v]
  /\ os'.proc[v] = os.proc[v] /\ os'.file[v] = os.file[v]
  /\ (v \in os'.dir) = (v \in os.dir) /\ (v \in beat') = (v \in beat)

\* A step takes nothing away from what a worker has delivered.
Steady(v) ==
  /\ workers[v].status # "absent" => workers'[v].job = workers[v].job
  /\ Ended(v) => Ended(v)'
  /\ cached[v] # "none" => cached'[v] = cached[v]
  /\ os.file[v] = "completed" /\ Ended(v) /\ v # rc.worker
       => os'.file[v] = "completed" /\ v # rc'.worker

\* What is known of a worker that is left alone stays so.
LEMMA SameKept ==
  ASSUME NEW v \in Worker, Kept(v), Same(v), v # rc'.worker \/ rc'.worker = rc.worker
  PROVE  Kept(v)' /\ Steady(v)
BY DEF Same, Kept, Steady, Ended, Live

\* Results that a verdict rests on outlast a step that is steady.
LEMMA SteadyCited ==
  ASSUME RecoveryInv, \A v \in Worker : Steady(v)
  PROVE  /\ \A v \in Worker, j \in Job : Delivered(v, j) => Delivered(v, j)'
         /\ \A j \in Job : /\ agg'[j] = agg[j]
                           /\ jobs'[j].status = "completed" => jobs[j].status = "completed"
                           => Cited(j)'
         /\ rc' = rc => VerdictInv'
<1>1. ASSUME NEW v \in Worker, NEW j \in Job, Delivered(v, j) PROVE Delivered(v, j)'
  <2>1. workers[v].status # "absent" BY <1>1 DEF Delivered, Ended, TerminalWorker
  <2>2. QED BY <1>1, <2>1 DEF Delivered, Steady
<1>2. ASSUME NEW j \in Job, agg'[j] = agg[j],
             jobs'[j].status = "completed" => jobs[j].status = "completed"
      PROVE  Cited(j)'
  <2>1. Cited(j) BY DEF RecoveryInv
  <2>2. ASSUME NEW v \in Worker, workers[v].job = j, cached[v] # "none"
        PROVE  workers'[v].job = j /\ cached'[v] = cached[v]
    <3>1. workers[v].status # "absent" BY <2>2 DEF RecoveryInv, Kept
    <3>2. QED BY <2>2, <3>1 DEF Steady
  <2>3. agg[j].asked => \E v \in Worker : workers'[v].job = j /\ cached'[v] # "none"
    BY <2>1, <2>2 DEF Cited
  <2>4. ASSUME agg[j].pc = "final", agg[j].verdict = "completed"
        PROVE  \E v \in Worker : workers'[v].job = j /\ cached'[v] = "completed" /\ Ended(v)'
    <3>1. PICK v \in Worker : workers[v].job = j /\ cached[v] = "completed" /\ Ended(v)
      BY <2>1, <2>4 DEF Cited
    <3>2. QED BY <2>2, <3>1 DEF Steady
  <2>5. jobs'[j].status = "completed" => \E v \in Worker : Delivered(v, j)'
    BY <1>1, <1>2, <2>1 DEF Cited
  <2>6. QED BY <1>2, <2>3, <2>4, <2>5 DEF Cited
<1>3. rc' = rc => VerdictInv' BY <1>1 DEF RecoveryInv, VerdictInv
<1>4. QED BY <1>1, <1>2, <1>3

\* The worker under repair is another one.
LEMMA RepairSame ==
  ASSUME RepairInv, NEW w \in Worker, rc' = rc, w # rc.worker,
         \A v \in Worker : v # w => Same(v)
  PROVE  RepairInv'
BY DEF RepairInv, Same, Ended, Live

\* So is the worker that is being started.
LEMMA StartSame ==
  ASSUME StartInv, NEW w \in Worker, rc' = rc, d' = d, d.pc \in Starts => w # d.worker,
         \A v \in Worker : v # w => Same(v),
         d.pc = "retry" => /\ jobs'[d.job].retries = jobs[d.job].retries
                           /\ jobs[d.job].status # "absent" => jobs'[d.job].status # "absent"
  PROVE  StartInv'
<1>1. ASSUME d.pc \in Starts PROVE Same(d.worker) BY <1>1 DEF StartInv
<1>2. QED BY <1>1 DEF StartInv, Same

\* A step of the pass or of an exit handler for one worker.
LEMMA WorkerStep ==
  ASSUME RecoveryInv, Typed', NEW w \in Worker, mode \in {"up", "draining"},
         UNCHANGED <<mode, rc, agg>>,
         \A j \in Job : jobs'[j].status = "completed" => jobs[j].status = "completed",
         \A v \in Worker : v # w => Same(v),
         Kept(w)', Steady(w), StartInv', RepairInv'
  PROVE  RecoveryInv'
<1>1. \A v \in Worker : Kept(v)' /\ Steady(v) BY SameKept DEF RecoveryInv
<1>2. VerdictInv' /\ \A j \in Job : Cited(j)' BY <1>1, SteadyCited
<1>3. Quiet' BY DEF RecoveryInv, Quiet
<1>4. QED BY <1>1, <1>2, <1>3 DEF RecoveryInv

\* The job's record on the way, or a throw.
LEMMA AdvanceFact ==
  ASSUME Typed, NEW s \in {"dispatching", "running"}, NEW t, Advanced(t, s), d.job \in Job
  PROVE  /\ jobs' \in [Job -> JobRec]
         /\ \A k \in Job : jobs'[k].retries = jobs[k].retries
         /\ \A k \in Job : jobs'[k].status = "completed" => jobs[k].status = "completed"
<1>1. s \in JobStatus BY DEF JobStatus
<1>2. CASE UNCHANGED jobs BY <1>2 DEF Typed
<1>3. CASE PutJob(d.job, s) BY <1>1, <1>3, PutJobFact
<1>4. QED BY <1>2, <1>3 DEF Advanced

\* The start of a worker.
LEMMA StartNext ==
  ASSUME RecoveryInv,
         \/ CreateWorker \/ Starting \/ CreateWorktree \/ Spawn \/ ActiveWrite \/ Register
  PROVE  RecoveryInv'
<1> USE DEF store, memory
<1>0. Typed /\ StartInv /\ RepairInv BY DEF RecoveryInv
<1>d. /\ d \in PassRec /\ workers \in [Worker -> WorkerRec] /\ os \in OsRec
      /\ jobs \in [Job -> JobRec] /\ d.job \in Job /\ mode \in {"up", "draining"}
  <2>1. d.pc \notin {"idle", "visit"} /\ mode \in {"up", "draining"}
    BY DEF CreateWorker, Starting, CreateWorktree, Spawn, ActiveWrite, Register, At, Running
  <2>2. QED BY <1>0, <2>1 DEF Typed, StartInv
<1>1. CASE CreateWorker
  <2>1. /\ d.pc = "create" /\ UNCHANGED <<mode, jobs, os, queue, timers, exit, beat, cached, agg,
                                          rc, crashes>>
    BY <1>1 DEF CreateWorker, At
  <2>2. PICK w \in FreshWorker :
          /\ workers' = [workers EXCEPT ![w] = [NoRec EXCEPT !.status = "created", !.job = d.job]]
          /\ d' = [d EXCEPT !.pc = "start", !.worker = w]
    BY <1>1 DEF CreateWorker
  <2>3. w \in Worker /\ workers[w].status = "absent" BY <2>2 DEF FreshWorker
  <2>4. PICK r \in WorkerRec : r = [NoRec EXCEPT !.status = "created", !.job = d.job]
    BY <1>d DEF NoRec, WorkerRec, WorkerStatus
  <2>5. r.status = "created" /\ ~r.pid /\ ~r.tree /\ r.job = d.job BY <2>4 DEF NoRec
  <2>6. /\ workers' \in [Worker -> WorkerRec] /\ workers'[w] = r
        /\ \A v \in Worker : v # w => workers'[v] = workers[v]
    BY <1>d, <2>2, <2>3, <2>4
  <2>7. d' \in PassRec /\ d'.pc = "start" /\ d'.worker = w /\ d'.job = d.job
    <3>1. PICK p \in PassRec : p = d BY <1>d
    <3>2. d' = [p EXCEPT !.pc = "start", !.worker = w] BY <2>2, <3>1
    <3>3. QED BY <2>3, <3>1, <3>2 DEF PassRec, PassPc
  <2>8. \A v \in Worker : v # w => Same(v) BY <2>1, <2>6 DEF Same
  <2>9. Kept(w) BY <2>3 DEF RecoveryInv
  <2>10. os.proc[w] = "none" /\ os.file[w] = "none" /\ w \notin beat /\ cached[w] = "none"
         /\ exit[w] = "none"
    BY <2>3, <2>9, <1>0 DEF Kept, Typed
  <2>e. workers'[w].status = "created" /\ ~workers'[w].pid /\ ~workers'[w].tree
        /\ workers'[w].pid = workers'[w].tree
    <3>1. r.pid = FALSE /\ r.tree = FALSE BY <2>4 DEF NoRec
    <3>2. QED BY <2>5, <2>6, <3>1
  <2>11. Kept(w)' BY <2>1, <2>e, <2>10 DEF Kept, Ended, Live, TerminalWorker
  <2>12. Steady(w) BY <2>1, <2>3, <2>10 DEF Steady, Ended, TerminalWorker
  <2>13. w # rc.worker BY <1>0, <2>3, RecoveryAssumption DEF RepairInv, RecoveryAssumption
  <2>14. RepairInv' BY <1>0, <2>1, <2>3, <2>8, <2>13, RepairSame
  <2>15. StartInv' BY <1>d, <2>1, <2>3, <2>5, <2>6, <2>7, <2>10, <2>13 DEF StartInv, Starts
  <2>16. Typed' BY <1>0, <2>1, <2>6, <2>7 DEF Typed
  <2>17. QED BY <1>d, <2>1, <2>3, <2>8, <2>11, <2>12, <2>14, <2>15, <2>16, WorkerStep
<1>w. ASSUME d.pc \in Starts
      PROVE  /\ d.worker \in Worker /\ d.worker # rc.worker /\ Kept(d.worker)
             /\ d.worker \notin beat /\ exit[d.worker] = "none" /\ cached[d.worker] = "none"
             /\ workers[d.worker].status \in {"created", "starting", "active"}
             /\ ~Ended(d.worker)
  <2>1. d.worker \in Worker BY <1>0, <1>w DEF StartInv
  <2>2. workers[d.worker].status \in {"created", "starting", "active"} BY <1>0, <1>w DEF StartInv
  <2>3. QED BY <1>0, <1>w, <2>1, <2>2 DEF StartInv, RecoveryInv, Ended, TerminalWorker
<1>g. ASSUME NEW pc \in PassPc, Go(pc)
      PROVE  d' \in PassRec /\ d'.pc = pc /\ d'.worker = d.worker /\ d'.job = d.job
  BY <1>d, <1>g DEF Go, PassRec
<1>2. CASE Starting
  <2>1. /\ d.pc = "start" /\ PutWorker(d.worker, "starting")
        /\ UNCHANGED <<mode, os, queue, timers, exit, beat, cached, agg, rc, crashes>>
    BY <1>2 DEF Starting, At
  <2>2. d.pc \in Starts BY <2>1 DEF Starts
  <2>3. PICK w \in Worker : w = d.worker BY <1>w, <2>2
  <2>4. /\ w # rc.worker /\ Kept(w) /\ w \notin beat /\ exit[w] = "none" /\ cached[w] = "none"
        /\ ~Ended(w) /\ workers[w].status = "created"
        /\ os.proc[w] = "none" /\ os.file[w] = "none"
    BY <1>0, <1>w, <2>1, <2>2, <2>3 DEF StartInv
  <2>5. "starting" \in WorkerStatus /\ {"failed", "worktree"} \subseteq PassPc
    BY DEF WorkerStatus, PassPc
  <2>6. /\ workers' \in [Worker -> WorkerRec] /\ workers'[w].status = "starting"
        /\ workers'[w].job = workers[w].job /\ workers'[w].pid = workers[w].pid
        /\ workers'[w].tree = workers[w].tree
        /\ \A v \in Worker : v # w => workers'[v] = workers[v]
    BY <1>0, <2>1, <2>3, <2>5, PutWorkerFact
  <2>7. /\ d' \in PassRec /\ d'.pc \in {"failed", "worktree"} /\ d'.worker = w /\ d'.job = d.job
        /\ jobs' \in [Job -> JobRec]
        /\ \A k \in Job : jobs'[k].status = "completed" => jobs[k].status = "completed"
    <3>1. CASE Go("failed") /\ UNCHANGED jobs BY <1>d, <1>g, <2>3, <2>5, <3>1
    <3>2. CASE Advanced(jobs[d.job].status, "dispatching") /\ Go("worktree")
      BY <1>0, <1>d, <1>g, <2>3, <2>5, <3>2, AdvanceFact
    <3>3. QED BY <1>2, <3>1, <3>2 DEF Starting
  <2>8. \A v \in Worker : v # w => Same(v) BY <2>1, <2>6 DEF Same
  <2>9. Kept(w)' BY <2>1, <2>4, <2>6 DEF Kept, Ended, Live, TerminalWorker
  <2>10. Steady(w) BY <2>1, <2>4, <2>6 DEF Steady
  <2>11. RepairInv' BY <1>0, <2>1, <2>4, <2>8, RepairSame
  <2>12. StartInv' BY <1>d, <2>1, <2>4, <2>6, <2>7 DEF StartInv, Starts
  <2>13. Typed' BY <1>0, <2>1, <2>6, <2>7 DEF Typed
  <2>14. QED BY <1>d, <2>1, <2>7, <2>8, <2>9, <2>10, <2>11, <2>12, <2>13, WorkerStep
<1>3. CASE CreateWorktree
  <2>1. /\ d.pc = "worktree" /\ UNCHANGED <<mode, jobs, workers, queue, timers, exit, beat, cached,
                                            agg, rc, crashes>>
        /\ \/ os' = [os EXCEPT !.dir = os.dir \cup {d.worker}] /\ Go("spawn")
           \/ Go("failed") /\ os' = os
    BY <1>3 DEF CreateWorktree, At
  <2>2. d.pc \in Starts BY <2>1 DEF Starts
  <2>3. PICK w \in Worker : w = d.worker BY <1>w, <2>2
  <2>4. /\ w # rc.worker /\ Kept(w) /\ w \notin beat /\ exit[w] = "none" /\ cached[w] = "none"
        /\ ~Ended(w) /\ workers[w].status = "starting"
        /\ os.proc[w] = "none" /\ os.file[w] = "none"
    BY <1>0, <1>w, <2>1, <2>2, <2>3 DEF StartInv
  <2>5. {"spawn", "failed"} \subseteq PassPc BY DEF PassPc
  <2>6. /\ d' \in PassRec /\ d'.worker = w /\ d'.job = d.job
        /\ os' \in OsRec /\ os'.proc = os.proc /\ os'.file = os.file
        /\ \/ d'.pc = "failed" /\ os'.dir = os.dir
           \/ d'.pc = "spawn" /\ os'.dir = os.dir \cup {w}
    <3>1. CASE os' = [os EXCEPT !.dir = os.dir \cup {d.worker}] /\ Go("spawn")
      <4>1. os.dir \cup {w} \in SUBSET Worker BY <1>0, OsFact
      <4>2. os' = [os EXCEPT !.dir = os.dir \cup {w}] BY <2>3, <3>1
      <4>3. QED BY <1>0, <1>g, <2>3, <2>5, <3>1, <4>1, <4>2, OsFact
    <3>2. CASE Go("failed") /\ os' = os BY <1>d, <1>g, <2>3, <2>5, <3>2
    <3>3. QED BY <2>1, <3>1, <3>2
  <2>8. \A v \in Worker : v # w => Same(v) BY <2>1, <2>6 DEF Same
  <2>9. Kept(w)' BY <2>1, <2>4, <2>6 DEF Kept, Ended, Live
  <2>10. Steady(w) BY <2>1, <2>4, <2>6 DEF Steady
  <2>11. RepairInv' BY <1>0, <2>1, <2>4, <2>8, RepairSame
  <2>12. StartInv' BY <1>d, <2>1, <2>4, <2>6 DEF StartInv, Starts
  <2>13. Typed' BY <1>0, <2>1, <2>6 DEF Typed
  <2>14. QED BY <1>d, <2>1, <2>8, <2>9, <2>10, <2>11, <2>12, <2>13, WorkerStep
<1>4. CASE Spawn
  <2>1. /\ d.pc = "spawn" /\ UNCHANGED <<mode, jobs, workers, queue, timers, exit, beat, cached,
                                         agg, rc, crashes>>
        /\ os' = [os EXCEPT !.proc[d.worker] = "live"] /\ Go("active")
    BY <1>4 DEF Spawn, At
  <2>2. d.pc \in Starts BY <2>1 DEF Starts
  <2>3. PICK w \in Worker : w = d.worker BY <1>w, <2>2
  <2>4. /\ w # rc.worker /\ Kept(w) /\ w \notin beat /\ exit[w] = "none" /\ cached[w] = "none"
        /\ ~Ended(w) /\ workers[w].status = "starting"
        /\ os.file[w] = "none" /\ w \in os.dir
    BY <1>0, <1>w, <2>1, <2>2, <2>3 DEF StartInv
  <2>5. "active" \in PassPc /\ "live" \in Proc BY DEF PassPc, Proc
  <2>6. /\ d' \in PassRec /\ d'.worker = w /\ d'.job = d.job /\ d'.pc = "active"
        /\ os' \in OsRec /\ os'.proc = [os.proc EXCEPT ![w] = "live"] /\ os'.file = os.file
        /\ os'.dir = os.dir
    <3>1. os' = [os EXCEPT !.proc[w] = "live"] BY <2>1, <2>3
    <3>2. QED BY <1>0, <1>g, <2>1, <2>3, <2>5, <3>1, OsFact
  <2>8. \A v \in Worker : v # w => Same(v)
    <3>1. os.proc \in [Worker -> Proc] BY <1>0, OsFact
    <3>2. QED BY <2>1, <2>6, <3>1 DEF Same
  <2>9. Kept(w)' BY <2>1, <2>4, <2>6 DEF Kept, Ended, Live
  <2>10. Steady(w) BY <2>1, <2>4, <2>6 DEF Steady
  <2>11. RepairInv' BY <1>0, <2>1, <2>4, <2>8, RepairSame
  <2>12. StartInv' BY <1>d, <2>1, <2>4, <2>6 DEF StartInv, Starts
  <2>13. Typed' BY <1>0, <2>1, <2>6 DEF Typed
  <2>14. QED BY <1>d, <2>1, <2>8, <2>9, <2>10, <2>11, <2>12, <2>13, WorkerStep
<1>5. CASE ActiveWrite
  <2>1. /\ d.pc = "active" /\ UNCHANGED <<mode, jobs, os, queue, timers, exit, beat, cached,
                                          agg, rc, crashes>>
        /\ Go("register")
        /\ workers' = [workers EXCEPT ![d.worker] =
                         [workers[d.worker] EXCEPT !.status = "active", !.pid = TRUE, !.tree = TRUE]]
    BY <1>5 DEF ActiveWrite, At
  <2>2. d.pc \in Starts BY <2>1 DEF Starts
  <2>3. PICK w \in Worker : w = d.worker BY <1>w, <2>2
  <2>4. /\ w # rc.worker /\ Kept(w) /\ w \notin beat /\ exit[w] = "none" /\ cached[w] = "none"
        /\ ~Ended(w) /\ workers[w].status = "starting" /\ w \in os.dir
    BY <1>0, <1>w, <2>1, <2>2, <2>3 DEF StartInv
  <2>5. "register" \in PassPc BY DEF PassPc
  <2>6. d' \in PassRec /\ d'.worker = w /\ d'.job = d.job /\ d'.pc = "register"
    BY <1>g, <2>1, <2>3, <2>5
  <2>7. /\ workers' \in [Worker -> WorkerRec] /\ workers'[w].status = "active"
        /\ workers'[w].job = workers[w].job /\ workers'[w].pid /\ workers'[w].tree
        /\ workers'[w].pid = workers'[w].tree
        /\ \A v \in Worker : v # w => workers'[v] = workers[v]
    <3>1. PICK r \in WorkerRec : r = workers[w] BY <1>d
    <3>2. PICK x : x = [r EXCEPT !.status = "active", !.pid = TRUE, !.tree = TRUE] OBVIOUS
    <3>3. x \in WorkerRec BY <3>2 DEF WorkerRec, WorkerStatus
    <3>4. x.status = "active" /\ x.job = r.job /\ x.pid = TRUE /\ x.tree = TRUE
      BY <3>2 DEF WorkerRec
    <3>5. workers' = [workers EXCEPT ![w] = x] BY <2>1, <2>3, <3>1, <3>2
    <3>6. QED BY <1>d, <3>1, <3>3, <3>4, <3>5
  <2>8. \A v \in Worker : v # w => Same(v) BY <2>1, <2>7 DEF Same
  <2>9. Kept(w)' BY <2>1, <2>4, <2>7 DEF Kept, Ended, Live, TerminalWorker
  <2>10. Steady(w) BY <2>1, <2>4, <2>7 DEF Steady
  <2>11. RepairInv' BY <1>0, <2>1, <2>4, <2>8, RepairSame
  <2>12. StartInv' BY <1>d, <2>1, <2>4, <2>6, <2>7 DEF StartInv, Starts
  <2>13. Typed' BY <1>0, <2>1, <2>6, <2>7 DEF Typed
  <2>14. QED BY <1>d, <2>1, <2>8, <2>9, <2>10, <2>11, <2>12, <2>13, WorkerStep
<1>6. CASE Register
  <2>1. /\ d.pc = "register" /\ UNCHANGED <<mode, workers, os, queue, timers, cached, agg, rc, crashes>>
        /\ Go("after") /\ Advanced(jobs[d.job].status, "running")
        /\ beat' = beat \cup {d.worker} /\ exit' = [exit EXCEPT ![d.worker] = "watch"]
    BY <1>6 DEF Register, At
  <2>2. d.pc \in Starts BY <2>1 DEF Starts
  <2>3. PICK w \in Worker : w = d.worker BY <1>w, <2>2
  <2>4. /\ w # rc.worker /\ Kept(w) /\ w \notin beat /\ exit[w] = "none" /\ cached[w] = "none"
        /\ ~Ended(w) /\ workers[w].status = "active"
    BY <1>0, <1>w, <2>1, <2>2, <2>3 DEF StartInv
  <2>5. "after" \in PassPc BY DEF PassPc
  <2>6. d' \in PassRec /\ d'.worker = w /\ d'.job = d.job /\ d'.pc = "after"
    BY <1>g, <2>1, <2>3, <2>5
  <2>7. /\ jobs' \in [Job -> JobRec]
        /\ \A k \in Job : jobs'[k].status = "completed" => jobs[k].status = "completed"
    BY <1>0, <1>d, <2>1, AdvanceFact
  <2>a. /\ exit' \in [Worker -> {"none", "watch", "collect", "settle"}] /\ exit'[w] = "watch"
        /\ beat' \subseteq Worker /\ beat' = beat \cup {w}
        /\ \A v \in Worker : v # w => exit'[v] = exit[v]
    BY <1>0, <2>1, <2>3 DEF Typed
  <2>8. \A v \in Worker : v # w => Same(v) BY <2>1, <2>a DEF Same
  <2>9. Kept(w)' BY <2>1, <2>4, <2>a DEF Kept, Ended, Live
  <2>10. Steady(w) BY <2>1, <2>4 DEF Steady
  <2>11. RepairInv' BY <1>0, <2>1, <2>4, <2>8, RepairSame
  <2>12. StartInv' BY <1>d, <2>6 DEF StartInv, Starts
  <2>13. Typed' BY <1>0, <2>1, <2>6, <2>7, <2>a DEF Typed
  <2>14. QED BY <1>d, <2>1, <2>7, <2>8, <2>9, <2>10, <2>11, <2>12, <2>13, WorkerStep
<1>7. QED BY <1>1, <1>2, <1>3, <1>4, <1>5, <1>6

-----------------------------------------------------------------------------
(* Crashes, shutdowns and startups *)

\* What is in memory goes; processes live on or end.
LEMMA Forgotten ==
  ASSUME RecoveryInv, mode' = "down", Forget, UNCHANGED <<jobs, workers>>,
         crashes' \in 0..MaxCrashes, os' \in OsRec, os'.file = os.file, os'.dir = os.dir,
         \A w \in Worker : \/ os'.proc[w] = os.proc[w]
                           \/ os.proc[w] = "live" /\ os'.proc[w] = "killed"
  PROVE  RecoveryInv'
<1>0. Typed BY DEF RecoveryInv
<1>1. /\ d' = NoPass /\ rc' = NoRecon /\ timers' = {} /\ beat' = {}
      /\ \A w \in Worker : exit'[w] = "none" /\ cached'[w] = "none"
      /\ \A j \in Job : agg'[j] = NoAgg
  BY DEF Forget
<1>2. queue' \in QueueRec
  <2>1. queue \in QueueRec BY <1>0 DEF Typed
  <2>2. [queue EXCEPT !.jobs = {}] \in QueueRec BY <2>1 DEF QueueRec
  <2>3. QED BY <2>1, <2>2 DEF Forget
<1>3. Typed' BY <1>0, <1>2, EmptyTypes DEF Typed, Forget
<1>4. Quiet' BY <1>1, EmptyTypes DEF Quiet
<1>5. StartInv' BY <1>1, EmptyTypes DEF StartInv, Starts
<1>6. RepairInv' /\ VerdictInv' BY <1>1, EmptyTypes DEF RepairInv, VerdictInv
<1>7. ASSUME NEW w \in Worker PROVE Kept(w)'
  <2>1. Kept(w) BY DEF RecoveryInv
  <2>2. QED BY <1>1, <2>1 DEF Kept, Ended, Live
<1>8. ASSUME NEW w \in Worker, NEW j \in Job, Delivered(w, j) PROVE Delivered(w, j)'
  BY <1>1, <1>8, EmptyTypes, RecoveryAssumption DEF Delivered, Ended, RecoveryAssumption
<1>9. ASSUME NEW j \in Job PROVE Cited(j)'
  <2>1. Cited(j) BY DEF RecoveryInv
  <2>2. agg'[j].asked = FALSE /\ agg'[j].pc = "idle" BY <1>1 DEF NoAgg
  <2>3. QED BY <1>8, <2>1, <2>2 DEF Cited
<1>10. QED BY <1>3, <1>4, <1>5, <1>6, <1>7, <1>9 DEF RecoveryInv

\* A failed start: the job fails, or the pass takes the orchestrator with it.
LEMMA FailNext == ASSUME RecoveryInv, FailJob PROVE RecoveryInv'
<1> USE DEF store, memory
<1>0. Typed /\ StartInv BY DEF RecoveryInv
<1>d. /\ d \in PassRec /\ os \in OsRec /\ jobs \in [Job -> JobRec] /\ d.pc = "failed"
      /\ d.job \in Job /\ mode \in {"up", "draining"} /\ UNCHANGED <<workers, os, crashes>>
  <2>1. d.pc = "failed" /\ mode \in {"up", "draining"} /\ UNCHANGED <<workers, os, crashes>>
    BY DEF FailJob, At, Running
  <2>2. QED BY <1>0, <2>1 DEF Typed, StartInv
<1>g. ASSUME NEW pc \in PassPc, Go(pc)
      PROVE  d' \in PassRec /\ d'.pc = pc /\ d'.job = d.job
  BY <1>d, <1>g DEF Go, PassRec
<1>p. "after" \in PassPc /\ "retry" \in PassPc /\ "failed" \in JobStatus BY DEF PassPc, JobStatus
<1>1. CASE Go("after") /\ UNCHANGED <<mode, jobs, queue, memory, rc>>
  <2>1. d' \in PassRec /\ d'.pc = "after" /\ d'.job = d.job BY <1>1, <1>g, <1>p
  <2>2. Typed' BY <1>0, <1>1, <1>d, <2>1 DEF Typed
  <2>3. StartInv' BY <1>d, <2>1 DEF StartInv, Starts
  <2>4. QED BY <1>1, <1>d, <2>2, <2>3, JobStep
<1>2. CASE /\ PutJob(d.job, "failed") /\ Go(IF jobs[d.job].retries < MaxRetries THEN "retry" ELSE "after")
           /\ UNCHANGED <<mode, queue, memory, rc>>
  <2>1. /\ jobs' \in [Job -> JobRec] /\ jobs'[d.job].status = "failed"
        /\ \A k \in Job : jobs'[k].retries = jobs[k].retries
        /\ \A k \in Job : k # d.job => jobs'[k] = jobs[k]
    BY <1>0, <1>2, <1>d, <1>p, PutJobFact
  <2>2. /\ d' \in PassRec /\ d'.pc \in {"retry", "after"} /\ d'.job = d.job
        /\ d'.pc = "retry" => jobs[d.job].retries < MaxRetries
    <3>1. CASE jobs[d.job].retries < MaxRetries BY <1>2, <1>g, <1>p, <3>1
    <3>2. CASE ~(jobs[d.job].retries < MaxRetries)
      <4>1. Go("after") BY <1>2, <3>2
      <4>2. QED BY <1>g, <1>p, <4>1
    <3>3. QED BY <3>1, <3>2
  <2>3. Typed' BY <1>0, <1>2, <1>d, <2>1, <2>2 DEF Typed
  <2>4. StartInv' BY <1>d, <2>1, <2>2 DEF StartInv, Starts
  <2>5. QED BY <1>2, <1>d, <2>1, <2>3, <2>4, JobStep
<1>3. CASE mode' = "down" /\ Forget /\ UNCHANGED jobs
  <2>1. crashes' \in 0..MaxCrashes BY <1>0, <1>d DEF Typed
  <2>2. QED BY <1>3, <1>d, <2>1, Forgotten
<1>4. QED BY <1>1, <1>2, <1>3 DEF FailJob

\* A pass starts from the workers that have not ended.
LEMMA ListedFact ==
  ASSUME Typed, NEW f \in BOOLEAN
  PROVE  /\ Listed(f) \in ReconRec /\ Listed(f).pc = "repair" /\ Listed(f).forced = f
         /\ Listed(f).worker = NoWorker
         /\ DOMAIN Listed(f).snap = Unended
         /\ \A w \in Unended : Listed(f).snap[w] = workers[w]
<1>1. PICK r \in ReconRec : r = NoRecon BY EmptyTypes
<1>2. PICK s : s = [w \in Unended |-> workers[w]] OBVIOUS
<1>3. s \in Snaps
  <2>1. Unended \in SUBSET Worker BY DEF Unended
  <2>2. s \in [Unended -> WorkerRec] BY <1>2, <2>1 DEF Typed
  <2>3. QED BY <2>1, <2>2 DEF Snaps
<1>4. Listed(f) = [r EXCEPT !.pc = "repair", !.forced = f, !.snap = s] BY <1>1, <1>2 DEF Listed
<1>5. r.worker = NoWorker BY <1>1, EmptyTypes
<1>6. /\ Listed(f) \in ReconRec /\ Listed(f).pc = "repair" /\ Listed(f).forced = f
      /\ Listed(f).worker = NoWorker /\ Listed(f).snap = s
  BY <1>3, <1>4, <1>5 DEF ReconRec, RcPc
<1>7. QED BY <1>2, <1>6

\* A step keeps the worker that is being started.
LEMMA StartKept ==
  ASSUME StartInv, d' = d,
         d.pc \in Starts => Same(d.worker) /\ d.worker # rc'.worker,
         d.pc = "retry" => /\ jobs'[d.job].retries = jobs[d.job].retries
                           /\ jobs[d.job].status # "absent" => jobs'[d.job].status # "absent"
  PROVE  StartInv'
BY DEF StartInv, Same

\* A shutdown begins, and stops the workers it finds.
LEMMA DrainNext == ASSUME RecoveryInv, Drain PROVE RecoveryInv'
<1> USE DEF memory
<1>0. Typed /\ Quiet /\ StartInv /\ RepairInv BY DEF RecoveryInv
<1>1. /\ mode = "up" /\ mode' = "draining" /\ crashes < MaxCrashes /\ crashes' = crashes + 1
      /\ UNCHANGED <<jobs, queue, d, timers, exit, beat, cached, agg, rc>>
      /\ workers' = [w \in Worker |-> IF w \in beat THEN [workers[w] EXCEPT !.cancel = TRUE]
                                      ELSE workers[w]]
      /\ os' = [os EXCEPT !.proc = [w \in Worker |-> IF w \in beat /\ os.proc[w] = "live"
                                                     THEN "killed" ELSE os.proc[w]]]
  BY DEF Drain
<1>2. ASSUME NEW w \in Worker
      PROVE  /\ workers'[w] \in WorkerRec /\ workers'[w].status = workers[w].status
             /\ workers'[w].job = workers[w].job /\ workers'[w].pid = workers[w].pid
             /\ workers'[w].tree = workers[w].tree
             /\ w \notin beat => workers'[w] = workers[w]
  <2>1. PICK r \in WorkerRec : r = workers[w] BY <1>0 DEF Typed
  <2>2. PICK x : x = [r EXCEPT !.cancel = TRUE] OBVIOUS
  <2>3. /\ x \in WorkerRec /\ x.status = r.status /\ x.job = r.job /\ x.pid = r.pid /\ x.tree = r.tree
    BY <2>2 DEF WorkerRec
  <2>4. workers'[w] = IF w \in beat THEN x ELSE r BY <1>1, <2>1, <2>2
  <2>5. QED BY <2>1, <2>3, <2>4
<1>3. workers' \in [Worker -> WorkerRec]
  <2>1. PICK f : f = [w \in Worker |-> IF w \in beat THEN [workers[w] EXCEPT !.cancel = TRUE]
                                       ELSE workers[w]]
    OBVIOUS
  <2>2. f = workers' BY <1>1, <2>1
  <2>3. \A w \in Worker : f[w] \in WorkerRec BY <1>2, <2>2
  <2>4. f \in [Worker -> WorkerRec] BY <2>1, <2>3
  <2>5. QED BY <2>2, <2>4
<1>4. /\ os' \in OsRec /\ os'.file = os.file /\ os'.dir = os.dir
      /\ \A w \in Worker : /\ \/ os'.proc[w] = os.proc[w]
                              \/ os.proc[w] = "live" /\ os'.proc[w] = "killed"
                           /\ w \notin beat => os'.proc[w] = os.proc[w]
  <2>1. PICK P : P = [w \in Worker |-> IF w \in beat /\ os.proc[w] = "live"
                                       THEN "killed" ELSE os.proc[w]]
    OBVIOUS
  <2>2. os.proc \in [Worker -> Proc] BY <1>0, OsFact
  <2>3. P \in [Worker -> Proc] BY <2>1, <2>2 DEF Proc
  <2>4. os' = [os EXCEPT !.proc = P] BY <1>1, <2>1
  <2>5. os' \in OsRec /\ os'.file = os.file /\ os'.dir = os.dir /\ os'.proc = P
    BY <1>0, <2>3, <2>4, OsFact
  <2>6. QED BY <2>1, <2>5
<1>5. Typed'
  <2>1. crashes' \in 0..MaxCrashes BY <1>0, <1>1, RecoveryAssumption DEF Typed, RecoveryAssumption
  <2>2. QED BY <1>0, <1>1, <1>3, <1>4, <2>1 DEF Typed
<1>6. Quiet' BY <1>0, <1>1 DEF Quiet
<1>7. ASSUME NEW w \in Worker PROVE Kept(w)' /\ Steady(w)
  <2>1. Kept(w) BY DEF RecoveryInv
  <2>2. QED BY <1>1, <1>2, <1>4, <2>1 DEF Kept, Steady, Ended, Live
<1>8. StartInv'
  <2>1. ASSUME d.pc \in Starts PROVE Same(d.worker) /\ d.worker # rc'.worker
    <3>1. d.worker \in Worker /\ d.worker \notin beat /\ d.worker # rc.worker
      BY <1>0, <2>1 DEF StartInv
    <3>2. QED BY <1>1, <1>2, <1>4, <3>1 DEF Same
  <2>2. QED BY <1>0, <1>1, <2>1, StartKept
<1>9. RepairInv'
  <2>1. ASSUME rc.pc \in {"write", "result"} PROVE rc.worker \in Worker /\ Same(rc.worker)
    <3>1. rc.worker \in Worker /\ rc.worker \notin beat BY <1>0, <2>1 DEF RepairInv
    <3>2. QED BY <1>1, <1>2, <1>4, <3>1 DEF Same
  <2>2. QED BY <1>0, <1>1, <2>1 DEF RepairInv, Same, Ended, Live
<1>10. VerdictInv' /\ \A j \in Job : Cited(j)' BY <1>1, <1>7, SteadyCited
<1>11. QED BY <1>5, <1>6, <1>7, <1>8, <1>9, <1>10 DEF RecoveryInv

\* The orchestrator stops, crashes, alone or with its host, or starts again.
LEMMA DownNext == ASSUME RecoveryInv, Stopped \/ Crash \/ Startup PROVE RecoveryInv'
<1> USE DEF store, memory
<1>0. Typed /\ Quiet /\ StartInv /\ RepairInv BY DEF RecoveryInv
<1>1. CASE Stopped
  <2>1. /\ mode' = "down" /\ Forget /\ UNCHANGED <<jobs, workers, os, crashes>> BY <1>1 DEF Stopped
  <2>2. crashes' \in 0..MaxCrashes /\ os' \in OsRec BY <1>0, <2>1 DEF Typed
  <2>3. QED BY <2>1, <2>2, Forgotten
<1>2. CASE Crash
  <2>1. /\ mode' = "down" /\ Forget /\ UNCHANGED <<jobs, workers>> /\ crashes < MaxCrashes
        /\ crashes' = crashes + 1
    BY <1>2 DEF Crash
  <2>2. crashes' \in 0..MaxCrashes
    BY <1>0, <2>1, RecoveryAssumption DEF Typed, RecoveryAssumption
  <2>3. CASE UNCHANGED os
    <3>1. os' \in OsRec BY <1>0, <2>3 DEF Typed
    <3>2. QED BY <2>1, <2>2, <2>3, <3>1, Forgotten
  <2>4. CASE os' = [os EXCEPT !.proc = [w \in Worker |-> IF os.proc[w] = "live"
                                                         THEN "killed" ELSE os.proc[w]]]
    <3>1. PICK P : P = [w \in Worker |-> IF os.proc[w] = "live" THEN "killed" ELSE os.proc[w]]
      OBVIOUS
    <3>2. os.proc \in [Worker -> Proc] BY <1>0, OsFact
    <3>3. P \in [Worker -> Proc] BY <3>1, <3>2 DEF Proc
    <3>4. os' = [os EXCEPT !.proc = P] BY <2>4, <3>1
    <3>5. os' \in OsRec /\ os'.file = os.file /\ os'.dir = os.dir /\ os'.proc = P
      BY <1>0, <3>3, <3>4, OsFact
    <3>6. \A w \in Worker : \/ os'.proc[w] = os.proc[w]
                            \/ os.proc[w] = "live" /\ os'.proc[w] = "killed"
      BY <3>1, <3>5
    <3>7. QED BY <2>1, <2>2, <3>5, <3>6, Forgotten
  <2>5. QED BY <1>2, <2>3, <2>4 DEF Crash
<1>3. CASE Startup
  <2>1. /\ mode = "down" /\ mode' = "boot" /\ rc' = Listed(TRUE)
        /\ UNCHANGED <<jobs, workers, os, queue, d, timers, exit, beat, cached, agg, crashes>>
    BY <1>3 DEF Startup
  <2>2. /\ rc' \in ReconRec /\ rc'.pc = "repair" /\ rc'.worker = NoWorker
        /\ \A w \in DOMAIN rc'.snap : w \in Unended /\ rc'.snap[w] = workers[w]
    BY <1>0, <2>1, ListedFact
  <2>3. rc.worker = NoWorker /\ d.pc = "idle" BY <1>0, <2>1 DEF Quiet, RepairInv
  <2>4. Typed' BY <1>0, <2>1, <2>2 DEF Typed
  <2>5. Quiet' BY <1>0, <2>1 DEF Quiet
  <2>6. StartInv' BY <2>1, <2>3 DEF StartInv, Starts
  <2>7. RepairInv' BY <2>2 DEF RepairInv, Unended
  <2>8. VerdictInv' BY <2>2 DEF VerdictInv
  <2>9. ASSUME NEW w \in Worker PROVE Kept(w)' /\ Steady(w)
    <3>1. Kept(w) BY DEF RecoveryInv
    <3>2. QED BY <2>1, <2>2, <2>3, <3>1, KeptSame DEF Steady, Ended
  <2>10. \A j \in Job : Cited(j)' BY <2>1, <2>9, SteadyCited
  <2>11. QED BY <2>4, <2>5, <2>6, <2>7, <2>8, <2>9, <2>10 DEF RecoveryInv
<1>4. QED BY <1>1, <1>2, <1>3

-----------------------------------------------------------------------------
(* Processes and exit handlers *)

\* A process may end at any time, whoever looks at it.
LEMMA ProcessNext == ASSUME RecoveryInv, NEW w \in Worker, ProcessEnds(w) PROVE RecoveryInv'
<1> USE DEF store, memory
<1>0. Typed /\ Quiet /\ StartInv /\ RepairInv /\ Kept(w) BY DEF RecoveryInv
<1>1. /\ os.proc[w] = "live"
      /\ UNCHANGED <<mode, jobs, workers, queue, d, timers, exit, beat, cached, agg, rc, crashes>>
  BY DEF ProcessEnds, Live
<1>2. PICK o \in Outcomes :
        os' = [os EXCEPT !.proc[w] = o[1], !.file[w] = IF o[2] = "none" THEN @ ELSE o[2]]
  BY DEF ProcessEnds
<1>3. PICK p, f : p = o[1] /\ f = IF o[2] = "none" THEN os.file[w] ELSE o[2] OBVIOUS
<1>4. o[1] \in {"ok", "error"} /\ o[2] \in {"none", "completed", "failed"}
  BY RecoveryAssumption DEF RecoveryAssumption
<1>5. PICK x \in OsRec : x = os BY <1>0 DEF Typed
<1>6. x.proc \in [Worker -> Proc] /\ x.file \in [Worker -> Result \cup {"none"}]
      /\ x.dir \subseteq Worker
  BY DEF OsRec
<1>7. p \in {"ok", "error"} /\ p \in Proc /\ f \in Result \cup {"none"}
  BY <1>3, <1>4, <1>5, <1>6 DEF Proc, Result
<1>8. os' = [x EXCEPT !.proc[w] = p, !.file[w] = f] BY <1>2, <1>3, <1>5
<1>9. /\ os' \in OsRec /\ os'.proc = [x.proc EXCEPT ![w] = p]
      /\ os'.file = [x.file EXCEPT ![w] = f] /\ os'.dir = x.dir
  BY <1>6, <1>7, <1>8 DEF OsRec
<1>10. /\ os'.proc[w] = p /\ os'.dir = os.dir
       /\ \A v \in Worker : v # w => os'.proc[v] = os.proc[v] /\ os'.file[v] = os.file[v]
  BY <1>5, <1>6, <1>9
<1>11. Typed' BY <1>0, <1>1, <1>9 DEF Typed
<1>12. Quiet' BY <1>0, <1>1 DEF Quiet
<1>13. \A v \in Worker : v # w => Same(v) BY <1>1, <1>10 DEF Same
<1>14. /\ cached[w] = "none" /\ os.file[w] # "completed" /\ workers[w].status # "absent"
       /\ exit[w] \notin {"collect", "settle"}
  BY <1>0, <1>1 DEF Kept, Live
<1>15. Kept(w)' BY <1>0, <1>1, <1>7, <1>10, <1>14 DEF Kept, Ended, Live
<1>16. Steady(w) BY <1>1, <1>14 DEF Steady, Ended
<1>17. \A v \in Worker : Kept(v)' /\ Steady(v) BY <1>1, <1>13, <1>15, <1>16, SameKept DEF RecoveryInv
<1>18. StartInv'
  <2>1. CASE d.pc \in Starts /\ d.worker = w BY <1>0, <1>1, <1>10, <2>1 DEF StartInv, Starts
  <2>2. CASE ~(d.pc \in Starts /\ d.worker = w) BY <1>0, <1>1, <1>13, <2>2, StartSame
  <2>3. QED BY <2>1, <2>2
<1>19. RepairInv'
  <2>1. CASE w = rc.worker
    <3>1. w # NoWorker BY RecoveryAssumption DEF RecoveryAssumption
    <3>2. QED BY <1>0, <1>1, <1>7, <1>10, <2>1, <3>1 DEF RepairInv, Ended, Live
  <2>2. CASE w # rc.worker BY <1>0, <1>1, <1>13, <2>2, RepairSame
  <2>3. QED BY <2>1, <2>2
<1>20. VerdictInv' /\ \A j \in Job : Cited(j)' BY <1>1, <1>17, SteadyCited
<1>21. QED BY <1>11, <1>12, <1>17, <1>18, <1>19, <1>20 DEF RecoveryInv

\* The exit handler of a worker, up to its result.
LEMMA ExitNext ==
  ASSUME RecoveryInv, NEW w \in Worker, ExitBegins(w) \/ ExitCollects(w)
  PROVE  RecoveryInv'
<1> USE DEF store, memory
<1>0. Typed /\ StartInv /\ RepairInv /\ Kept(w) BY DEF RecoveryInv
<1>d. /\ workers \in [Worker -> WorkerRec] /\ os \in OsRec /\ beat \subseteq Worker
      /\ exit \in [Worker -> {"none", "watch", "collect", "settle"}]
      /\ cached \in [Worker -> Result \cup {"none"}] /\ mode \in {"up", "draining"}
      /\ exit[w] \in {"watch", "collect"} /\ ~Live(w) /\ w \in beat /\ cached[w] = "none"
  <2>1. exit[w] \in {"watch", "collect"} /\ mode \in {"up", "draining"} /\ ~Live(w)
    BY <1>0 DEF ExitBegins, ExitCollects, Running, Kept
  <2>2. QED BY <1>0, <2>1 DEF Typed, Kept
<1>w. w # rc.worker /\ (d.pc \in Starts => w # d.worker)
  BY <1>0, <1>d, RecoveryAssumption DEF StartInv, RepairInv, RecoveryAssumption
<1>1. CASE ExitBegins(w)
  <2>1. /\ UNCHANGED <<mode, jobs, os, queue, d, timers, cached, agg, rc, crashes>>
        /\ exit[w] = "watch"
    BY <1>1 DEF ExitBegins
  <2>2. /\ workers' \in [Worker -> WorkerRec] /\ beat' \subseteq Worker
        /\ exit' \in [Worker -> {"none", "watch", "collect", "settle"}]
        /\ \A v \in Worker : v # w => /\ workers'[v] = workers[v] /\ exit'[v] = exit[v]
                                      /\ (v \in beat') = (v \in beat)
        /\ Kept(w)' /\ Steady(w)
    <3>1. CASE Ended(w) /\ beat' = beat \ {w} /\ ExitTo(w, "none") /\ UNCHANGED workers
      <4>1. exit' = [exit EXCEPT ![w] = "none"] BY <3>1 DEF ExitTo
      <4>2. exit'[w] = "none" /\ \A v \in Worker : v # w => exit'[v] = exit[v] BY <1>d, <4>1
      <4>3. Kept(w)' BY <1>0, <1>d, <2>1, <3>1, <4>2 DEF Kept, Ended, Live
      <4>4. Steady(w) BY <2>1, <3>1 DEF Steady, Ended
      <4>5. QED BY <1>d, <3>1, <4>1, <4>2, <4>3, <4>4
    <3>2. CASE ~Ended(w) /\ PutWorker(w, "finishing") /\ ExitTo(w, "collect") /\ UNCHANGED beat
      <4>1. exit' = [exit EXCEPT ![w] = "collect"] BY <3>2 DEF ExitTo
      <4>2. exit'[w] = "collect" /\ \A v \in Worker : v # w => exit'[v] = exit[v] BY <1>d, <4>1
      <4>3. "finishing" \in WorkerStatus BY DEF WorkerStatus
      <4>4. /\ workers' \in [Worker -> WorkerRec] /\ workers'[w].status = "finishing"
            /\ workers'[w].job = workers[w].job /\ workers'[w].pid = workers[w].pid
            /\ workers'[w].tree = workers[w].tree
            /\ \A v \in Worker : v # w => workers'[v] = workers[v]
        BY <1>0, <3>2, <4>3, PutWorkerFact
      <4>5. Kept(w)' BY <1>0, <1>d, <2>1, <3>2, <4>2, <4>4 DEF Kept, Ended, Live, TerminalWorker
      <4>6. Steady(w) BY <2>1, <3>2, <4>4 DEF Steady
      <4>7. QED BY <1>d, <3>2, <4>1, <4>2, <4>4, <4>5, <4>6
    <3>3. QED BY <1>1, <3>1, <3>2 DEF ExitBegins
  <2>3. \A v \in Worker : v # w => Same(v) BY <2>1, <2>2 DEF Same
  <2>4. Typed' BY <1>0, <2>1, <2>2 DEF Typed
  <2>5. StartInv' BY <1>0, <1>w, <2>1, <2>3, StartSame
  <2>6. RepairInv' BY <1>0, <1>w, <2>1, <2>3, RepairSame
  <2>7. QED BY <1>d, <2>1, <2>2, <2>3, <2>4, <2>5, <2>6, WorkerStep
<1>2. CASE ExitCollects(w)
  <2>1. /\ UNCHANGED <<mode, jobs, workers, queue, d, timers, beat, agg, rc, crashes>>
        /\ exit[w] = "collect" /\ exit' = [exit EXCEPT ![w] = "settle"]
    BY <1>2 DEF ExitCollects, ExitTo
  <2>2. PICK r : r = IF os.file[w] = "none" THEN ExecutionStatus(w) ELSE os.file[w] OBVIOUS
  <2>3. r \in Result /\ r # "none" /\ (os.file[w] # "none" => r = os.file[w])
    BY <1>0, <2>2, OsFact, ResultFact DEF Result
  <2>4. PICK D : D = IF workers[w].tree THEN os.dir \ {w} ELSE os.dir OBVIOUS
  <2>5. /\ cached' = [cached EXCEPT ![w] = r]
        /\ os' = [os EXCEPT !.file[w] = r, !.dir = D]
    BY <1>2, <2>2, <2>4 DEF ExitCollects
  <2>6. PICK x \in OsRec : x = os BY <1>d
  <2>7. x.proc \in [Worker -> Proc] /\ x.file \in [Worker -> Result \cup {"none"}]
        /\ x.dir \subseteq Worker
    BY DEF OsRec
  <2>8. D \subseteq Worker /\ \A v \in Worker : v # w => (v \in D) = (v \in os.dir)
    BY <2>4, <2>6, <2>7
  <2>9. /\ os' \in OsRec /\ os'.proc = x.proc /\ os'.file = [x.file EXCEPT ![w] = r] /\ os'.dir = D
    <3>1. os' = [x EXCEPT !.file[w] = r, !.dir = D] BY <2>5, <2>6
    <3>2. QED BY <2>3, <2>7, <2>8, <3>1 DEF OsRec
  <2>10. /\ os'.proc = os.proc /\ os'.file[w] = r
         /\ \A v \in Worker : v # w => os'.file[v] = os.file[v]
    BY <2>6, <2>7, <2>9
  <2>11. /\ exit'[w] = "settle" /\ cached'[w] = r
         /\ exit' \in [Worker -> {"none", "watch", "collect", "settle"}]
         /\ cached' \in [Worker -> Result \cup {"none"}]
         /\ \A v \in Worker : v # w => exit'[v] = exit[v] /\ cached'[v] = cached[v]
    BY <1>d, <2>1, <2>3, <2>5
  <2>12. \A v \in Worker : v # w => Same(v) BY <2>1, <2>8, <2>9, <2>10, <2>11 DEF Same
  <2>13. Kept(w)' BY <1>0, <1>d, <2>1, <2>3, <2>10, <2>11 DEF Kept, Ended, Live
  <2>14. Steady(w) BY <1>d, <2>1, <2>3, <2>10 DEF Steady, Ended
  <2>15. Typed' BY <1>0, <2>1, <2>9, <2>11 DEF Typed
  <2>16. StartInv' BY <1>0, <1>w, <2>1, <2>12, StartSame
  <2>17. RepairInv' BY <1>0, <1>w, <2>1, <2>12, RepairSame
  <2>18. QED BY <1>d, <2>1, <2>12, <2>13, <2>14, <2>15, <2>16, <2>17, WorkerStep
<1>3. QED BY <1>1, <1>2

\* An exit handler settles: the job's aggregation is asked for, on a result in hand.
LEMMA SettleNext == ASSUME RecoveryInv, NEW w \in Worker, ExitSettles(w) PROVE RecoveryInv'
<1> USE DEF store, memory
<1>0. Typed /\ Quiet /\ StartInv /\ RepairInv /\ Kept(w) BY DEF RecoveryInv
<1>1. /\ mode \in {"up", "draining"} /\ exit[w] = "settle" /\ PutWorker(w, FinalStatus(w))
      /\ exit' = [exit EXCEPT ![w] = "none"] /\ beat' = beat \ {w}
      /\ agg' = [agg EXCEPT ![workers[w].job].asked = TRUE]
      /\ UNCHANGED <<mode, jobs, os, queue, d, timers, cached, rc, crashes>>
  BY DEF ExitSettles, ExitTo, Running
<1>d. /\ exit \in [Worker -> {"none", "watch", "collect", "settle"}] /\ beat \subseteq Worker
      /\ agg \in [Job -> AggRec] /\ w \in beat /\ ~Live(w) /\ cached[w] # "none"
  BY <1>0, <1>1 DEF Typed, Kept
<1>2. w # rc.worker /\ (d.pc \in Starts => w # d.worker)
  BY <1>0, <1>d, RecoveryAssumption DEF StartInv, RepairInv, RecoveryAssumption
<1>3. PICK s \in TerminalWorker : s = FinalStatus(w) BY <1>0, ResultFact
<1>4. /\ workers' \in [Worker -> WorkerRec] /\ workers'[w].status = s
      /\ workers'[w].job = workers[w].job /\ workers'[w].pid = workers[w].pid
      /\ workers'[w].tree = workers[w].tree
      /\ \A v \in Worker : v # w => workers'[v] = workers[v]
  <2>1. s \in WorkerStatus BY <1>0, ResultFact
  <2>2. QED BY <1>0, <1>1, <1>3, <2>1, PutWorkerFact
<1>5. /\ exit' \in [Worker -> {"none", "watch", "collect", "settle"}] /\ exit'[w] = "none"
      /\ \A v \in Worker : v # w => exit'[v] = exit[v]
  BY <1>1, <1>d
<1>6. /\ agg' \in [Job -> AggRec]
      /\ \A j \in Job : /\ agg'[j].pc = agg[j].pc /\ agg'[j].verdict = agg[j].verdict
                        /\ j # workers[w].job => agg'[j] = agg[j]
  <2>1. CASE workers[w].job \in Job
    <3>1. PICK j \in Job : j = workers[w].job BY <2>1
    <3>2. PICK a \in AggRec : a = agg[j] BY <1>d
    <3>3. PICK x : x = [a EXCEPT !.asked = TRUE] OBVIOUS
    <3>4. x \in AggRec /\ x.pc = a.pc /\ x.verdict = a.verdict BY <3>3 DEF AggRec
    <3>5. agg' = [agg EXCEPT ![j] = x] BY <1>1, <3>1, <3>2, <3>3
    <3>6. QED BY <1>d, <3>1, <3>2, <3>4, <3>5
  <2>2. CASE workers[w].job \notin Job
    <3>1. agg' = agg BY <1>1, <1>d, <2>2
    <3>2. QED BY <1>d, <3>1
  <2>3. QED BY <2>1, <2>2
<1>7. \A v \in Worker : v # w => Same(v) BY <1>1, <1>4, <1>5 DEF Same
<1>8. Kept(w)'
  <2>1. Ended(w)' BY <1>3, <1>4 DEF Ended
  <2>2. s \notin {"absent", "created", "starting"} BY DEF TerminalWorker
  <2>3. QED BY <1>0, <1>1, <1>d, <1>4, <1>5, <2>1, <2>2 DEF Kept, Live
<1>9. Steady(w) BY <1>1, <1>3, <1>4 DEF Steady, Ended
<1>10. \A v \in Worker : Kept(v)' /\ Steady(v) BY <1>1, <1>7, <1>8, <1>9, SameKept DEF RecoveryInv
<1>11. Typed' BY <1>0, <1>1, <1>4, <1>5, <1>6 DEF Typed
<1>12. Quiet' BY <1>0, <1>1 DEF Quiet
<1>13. StartInv' BY <1>0, <1>1, <1>2, <1>7, StartSame
<1>14. RepairInv' BY <1>0, <1>1, <1>2, <1>7, RepairSame
<1>15. VerdictInv' BY <1>1, <1>10, SteadyCited
<1>16. ASSUME NEW j \in Job PROVE Cited(j)'
  <2>1. CASE j # workers[w].job BY <1>1, <1>6, <1>10, <2>1, SteadyCited
  <2>2. CASE j = workers[w].job
    <3>1. Cited(j) BY DEF RecoveryInv
    <3>2. workers'[w].job = j /\ cached'[w] # "none" BY <1>1, <1>4, <1>d, <2>2
    <3>3. ASSUME agg[j].pc = "final", agg[j].verdict = "completed"
          PROVE  \E v \in Worker : workers'[v].job = j /\ cached'[v] = "completed" /\ Ended(v)'
      <4>1. PICK v \in Worker : workers[v].job = j /\ cached[v] = "completed" /\ Ended(v)
        BY <3>1, <3>3 DEF Cited
      <4>2. workers[v].status # "absent" BY <4>1 DEF Ended, TerminalWorker
      <4>3. QED BY <1>10, <4>1, <4>2 DEF Steady
    <3>4. jobs'[j].status = "completed" => \E v \in Worker : Delivered(v, j)'
      BY <1>1, <1>10, <3>1, SteadyCited DEF Cited
    <3>5. QED BY <1>6, <3>2, <3>3, <3>4 DEF Cited
  <2>3. QED BY <2>1, <2>2
<1>17. QED BY <1>10, <1>11, <1>12, <1>13, <1>14, <1>15, <1>16 DEF RecoveryInv

\* A verdict is completed only if every result is.
LEMMA VerdictFact ==
  ASSUME NEW S \in SUBSET Result, NEW r \in S, Verdict(S) = "completed"
  PROVE  r = "completed"
BY DEF Verdict, Result

\* The aggregation of a job, in two writes.
LEMMA AggNext ==
  ASSUME RecoveryInv, NEW j \in Job, Aggregate(j)
  PROVE  RecoveryInv'
<1> USE DEF store, memory
<1>0. Typed /\ Quiet /\ StartInv /\ RepairInv /\ Cited(j) BY DEF RecoveryInv
<1>d. /\ agg \in [Job -> AggRec] /\ jobs \in [Job -> JobRec] /\ mode \in {"up", "draining"}
      /\ UNCHANGED <<mode, workers, os, queue, d, timers, exit, beat, cached, rc, crashes>>
  BY <1>0 DEF Aggregate, AggBegins, AggEnds, Typed, Running
<1>1. /\ jobs' \in [Job -> JobRec]
      /\ \A k \in Job : /\ jobs'[k].retries = jobs[k].retries
                        /\ jobs[k].status # "absent" => jobs'[k].status # "absent"
      /\ \A k \in Job : k # j => jobs'[k] = jobs[k]
      /\ agg' \in [Job -> AggRec] /\ \A k \in Job : k # j => agg'[k] = agg[k]
      /\ Cited(j)'
  <2>1. CASE UNCHANGED jobs /\ agg' = [agg EXCEPT ![j] = NoAgg]
    <3>1. /\ agg' \in [Job -> AggRec] /\ ~agg'[j].asked /\ agg'[j].pc = "idle"
          /\ \A k \in Job : k # j => agg'[k] = agg[k]
      BY <1>d, <2>1, EmptyTypes
    <3>2. Cited(j)' BY <1>0, <1>d, <2>1, <3>1 DEF Cited, Delivered, Ended
    <3>3. QED BY <1>d, <2>1, <3>1, <3>2
  <2>2. CASE /\ agg[j].asked /\ \A w \in WorkersOf(j) : Ended(w)
             /\ PutJob(j, "aggregating")
             /\ agg' = [agg EXCEPT ![j] = [NoAgg EXCEPT !.pc = "final",
                          !.verdict = Verdict({CachedResult(w) : w \in WorkersOf(j)})]]
    <3>1. "aggregating" \in JobStatus BY DEF JobStatus
    <3>2. /\ jobs' \in [Job -> JobRec] /\ jobs'[j].status = "aggregating"
          /\ \A k \in Job : jobs'[k].retries = jobs[k].retries
          /\ \A k \in Job : k # j => jobs'[k] = jobs[k]
      BY <1>0, <2>2, <3>1, PutJobFact
    <3>3. PICK S : S = {CachedResult(w) : w \in WorkersOf(j)} OBVIOUS
    <3>4. S \subseteq Result BY <1>0, <3>3, ResultFact DEF WorkersOf
    <3>5. PICK v : v = Verdict(S) OBVIOUS
    <3>6. v \in Result BY <1>0, <3>5, ResultFact
    <3>7. PICK a \in AggRec : a = NoAgg BY EmptyTypes
    <3>8. PICK b : b = [a EXCEPT !.pc = "final", !.verdict = v] OBVIOUS
    <3>9. b \in AggRec /\ b.pc = "final" /\ b.verdict = v /\ b.asked = a.asked
      BY <3>6, <3>8 DEF AggRec
    <3>10. agg' = [agg EXCEPT ![j] = b] BY <2>2, <3>3, <3>5, <3>7, <3>8
    <3>11. /\ agg' \in [Job -> AggRec] /\ agg'[j] = b /\ \A k \in Job : k # j => agg'[k] = agg[k]
      BY <1>d, <3>9, <3>10
    <3>12. ~agg'[j].asked BY <3>7, <3>9, <3>11, EmptyTypes
    <3>13. ASSUME v = "completed"
           PROVE  \E w \in Worker : workers[w].job = j /\ cached[w] = "completed" /\ Ended(w)
      <4>1. PICK w \in Worker : workers[w].job = j /\ cached[w] # "none"
        BY <1>0, <2>2 DEF Cited
      <4>2. w \in WorkersOf(j) /\ CachedResult(w) = cached[w] BY <4>1 DEF WorkersOf, CachedResult
      <4>3. cached[w] \in S BY <3>3, <4>2
      <4>4. cached[w] = "completed" BY <3>4, <3>5, <3>13, <4>3, VerdictFact
      <4>5. QED BY <2>2, <4>1, <4>2, <4>4
    <3>14. Cited(j)' BY <1>d, <3>2, <3>9, <3>11, <3>12, <3>13 DEF Cited, Ended
    <3>15. QED BY <3>2, <3>11, <3>14
  <2>3. CASE /\ agg[j].pc = "final" /\ PutJob(j, agg[j].verdict)
             /\ agg' = [agg EXCEPT ![j] = NoAgg]
    <3>1. PICK v \in Result : v = agg[j].verdict BY <1>d DEF AggRec
    <3>2. v \in JobStatus /\ v # "absent" BY <1>0, ResultFact DEF Result
    <3>3. /\ jobs' \in [Job -> JobRec] /\ jobs'[j].status = v
          /\ \A k \in Job : jobs'[k].retries = jobs[k].retries
          /\ \A k \in Job : k # j => jobs'[k] = jobs[k]
      BY <1>0, <2>3, <3>1, <3>2, PutJobFact
    <3>4. /\ agg' \in [Job -> AggRec] /\ ~agg'[j].asked /\ agg'[j].pc = "idle"
          /\ \A k \in Job : k # j => agg'[k] = agg[k]
      BY <1>d, <2>3, EmptyTypes
    <3>5. ASSUME v = "completed" PROVE \E w \in Worker : Delivered(w, j)'
      <4>1. PICK w \in Worker : workers[w].job = j /\ cached[w] = "completed" /\ Ended(w)
        BY <1>0, <2>3, <3>1, <3>5 DEF Cited
      <4>2. Kept(w) BY DEF RecoveryInv
      <4>3. os.file[w] = "completed" BY <4>1, <4>2 DEF Kept
      <4>4. w # rc.worker
        BY <1>0, <4>1, RecoveryAssumption DEF RepairInv, RecoveryAssumption
      <4>5. QED BY <1>d, <4>1, <4>3, <4>4 DEF Delivered, Ended
    <3>6. Cited(j)' BY <3>3, <3>4, <3>5 DEF Cited
    <3>7. QED BY <3>2, <3>3, <3>4, <3>6
  <2>4. QED BY <2>1, <2>2, <2>3 DEF Aggregate, AggBegins, AggEnds
<1>2. \A v \in Worker : Kept(v)' /\ Steady(v)
  <2>1. \A v \in Worker : Same(v) BY <1>d DEF Same
  <2>2. QED BY <1>d, <2>1, SameKept DEF RecoveryInv
<1>3. \A k \in Job : Cited(k)'
  <2>1. ASSUME NEW k \in Job, k # j PROVE Cited(k)' BY <1>1, <1>2, <2>1, SteadyCited
  <2>2. QED BY <1>1, <2>1
<1>4. Typed' BY <1>0, <1>1, <1>d DEF Typed
<1>5. Quiet' BY <1>0, <1>d DEF Quiet
<1>6. StartInv'
  <2>1. d.pc = "retry" => d.job \in Job BY <1>0 DEF StartInv
  <2>2. d.pc \in Starts => Same(d.worker) /\ d.worker # rc'.worker BY <1>0, <1>d DEF StartInv, Same
  <2>3. QED BY <1>0, <1>1, <1>d, <2>1, <2>2, StartKept
<1>7. RepairInv' BY <1>0, <1>d DEF RepairInv, Ended, Live
<1>8. VerdictInv' BY <1>d, <1>2, SteadyCited
<1>9. QED BY <1>2, <1>3, <1>4, <1>5, <1>6, <1>7, <1>8 DEF RecoveryInv

-----------------------------------------------------------------------------
(* The reconcile pass *)

\* A step of the pass keeps all, if it keeps what each part asks of it.
LEMMA ReconStep ==
  ASSUME RecoveryInv, Typed', Quiet', RepairInv', VerdictInv', UNCHANGED <<d, cached, agg>>,
         \A v \in Worker : Kept(v)' /\ Steady(v),
         \A j \in Job : /\ jobs'[j].retries = jobs[j].retries
                        /\ jobs[j].status # "absent" => jobs'[j].status # "absent"
                        /\ jobs'[j].status = "completed"
                             => jobs[j].status = "completed" \/ \E v \in Worker : Delivered(v, j)',
         d.pc \in Starts => Same(d.worker) /\ d.worker # rc'.worker
  PROVE  RecoveryInv'
<1>0. StartInv BY DEF RecoveryInv
<1>1. StartInv'
  <2>1. d.pc = "retry" => d.job \in Job BY <1>0 DEF StartInv
  <2>2. QED BY <1>0, <2>1, StartKept
<1>2. ASSUME NEW j \in Job PROVE Cited(j)'
  <2>1. CASE jobs'[j].status = "completed" => jobs[j].status = "completed" BY <2>1, SteadyCited
  <2>2. CASE jobs[j].status # "completed" /\ \E v \in Worker : Delivered(v, j)'
    <3>1. Cited(j) BY DEF RecoveryInv
    <3>2. ASSUME NEW v \in Worker, workers[v].job = j, cached[v] # "none"
          PROVE  workers'[v].job = j /\ cached'[v] = cached[v]
      <4>1. workers[v].status # "absent" BY <3>2 DEF RecoveryInv, Kept
      <4>2. QED BY <3>2, <4>1 DEF Steady
    <3>3. agg[j].asked => \E v \in Worker : workers'[v].job = j /\ cached'[v] # "none"
      BY <3>1, <3>2 DEF Cited
    <3>4. ASSUME agg[j].pc = "final", agg[j].verdict = "completed"
          PROVE  \E v \in Worker : workers'[v].job = j /\ cached'[v] = "completed" /\ Ended(v)'
      <4>1. PICK v \in Worker : workers[v].job = j /\ cached[v] = "completed" /\ Ended(v)
        BY <3>1, <3>4 DEF Cited
      <4>2. QED BY <3>2, <4>1 DEF Steady
    <3>5. QED BY <2>2, <3>3, <3>4 DEF Cited
  <2>3. QED BY <2>1, <2>2
<1>3. QED BY <1>1, <1>2 DEF RecoveryInv

\* It stays the pass it is.
LEMMA QuietKept ==
  ASSUME Quiet, UNCHANGED <<mode, d, beat, exit, cached, agg>>, mode # "down",
         rc.pc # "idle", rc'.forced = rc.forced
  PROVE  Quiet'
BY DEF Quiet

\* A step of the pass that writes neither workers nor what belongs to them.
LEMMA ReconJobStep ==
  ASSUME RecoveryInv, Typed', Quiet', VerdictInv',
         UNCHANGED <<workers, os, d, exit, beat, cached, agg>>,
         rc'.worker = NoWorker, rc'.pc \notin {"write", "result"},
         \A w \in DOMAIN rc'.snap : rc'.snap[w].status \notin TerminalWorker \cup {"absent"},
         \A j \in Job : /\ jobs'[j].retries = jobs[j].retries
                        /\ jobs[j].status # "absent" => jobs'[j].status # "absent"
                        /\ jobs'[j].status = "completed"
                             => jobs[j].status = "completed" \/ \E v \in Worker : Delivered(v, j)'
  PROVE  RecoveryInv'
<1>1. RepairInv' BY DEF RepairInv
<1>2. \A v \in Worker : v # rc'.worker /\ Same(v)
  BY RecoveryAssumption DEF RecoveryAssumption, Same
<1>3. \A v \in Worker : Kept(v)' /\ Steady(v) BY <1>2, SameKept DEF RecoveryInv
<1>4. d.pc \in Starts => d.worker \in Worker BY DEF RecoveryInv, StartInv
<1>5. d.pc \in Starts => Same(d.worker) /\ d.worker # rc'.worker BY <1>2, <1>4
<1>6. QED BY <1>1, <1>3, <1>5, ReconStep

\* A worker less to judge.
LEMMA SkippedFact ==
  ASSUME Typed, NEW w \in Worker
  PROVE  /\ Skipped(w) \in ReconRec /\ Skipped(w).pc = rc.pc /\ Skipped(w).forced = rc.forced
         /\ Skipped(w).worker = rc.worker /\ Skipped(w).job = rc.job
         /\ Skipped(w).verdict = rc.verdict
         /\ DOMAIN Skipped(w).snap \subseteq DOMAIN rc.snap
         /\ \A v \in DOMAIN Skipped(w).snap : Skipped(w).snap[v] = rc.snap[v]
         /\ rc.snap \in [DOMAIN rc.snap -> WorkerRec] /\ DOMAIN rc.snap \subseteq Worker
<1>1. PICK r \in ReconRec : r = rc BY DEF Typed
<1>2. PICK S \in SUBSET Worker : r.snap \in [S -> WorkerRec] BY DEF ReconRec, Snaps
<1>3. PICK f : f = [v \in S \ {w} |-> r.snap[v]] OBVIOUS
<1>4. f \in [S \ {w} -> WorkerRec] BY <1>2, <1>3
<1>5. f \in Snaps BY <1>4 DEF Snaps
<1>6. Skipped(w) = [r EXCEPT !.snap = f] BY <1>1, <1>2, <1>3 DEF Skipped
<1>7. /\ Skipped(w) \in ReconRec /\ Skipped(w).pc = r.pc /\ Skipped(w).forced = r.forced
      /\ Skipped(w).worker = r.worker /\ Skipped(w).job = r.job /\ Skipped(w).snap = f
      /\ Skipped(w).verdict = r.verdict
  BY <1>5, <1>6 DEF ReconRec
<1>8. QED BY <1>1, <1>2, <1>3, <1>7

\* The pass lists, skips, and goes over the jobs.
LEMMA ReconJobs ==
  ASSUME RecoveryInv,
         \/ RcList \/ RcJobs \/ RcAggregate \/ RcFinal
         \/ (\E w \in Worker : RcSkip(w)) \/ (\E j \in Job : RcJob(j))
  PROVE  RecoveryInv'
<1> USE DEF store, memory
<1>0. Typed /\ Quiet /\ RepairInv /\ VerdictInv BY DEF RecoveryInv
<1>d. rc \in ReconRec /\ jobs \in [Job -> JobRec] /\ queue \in QueueRec BY <1>0 DEF Typed
<1>u. ASSUME jobs' = jobs
      PROVE  \A j \in Job : /\ jobs'[j].retries = jobs[j].retries
                            /\ jobs[j].status # "absent" => jobs'[j].status # "absent"
                            /\ jobs'[j].status = "completed" => jobs[j].status = "completed"
  BY <1>u
<1>1. CASE RcList
  <2>1. /\ mode = "up" /\ rc.pc = "idle" /\ rc' = Listed(FALSE)
        /\ UNCHANGED <<mode, jobs, workers, os, queue, d, timers, exit, beat, cached, agg, crashes>>
    BY <1>1 DEF RcList
  <2>2. /\ rc' \in ReconRec /\ rc'.pc = "repair" /\ rc'.worker = NoWorker /\ ~rc'.forced
        /\ \A w \in DOMAIN rc'.snap : w \in Unended /\ rc'.snap[w] = workers[w]
    BY <1>0, <2>1, ListedFact
  <2>3. Typed' BY <1>0, <2>1, <2>2 DEF Typed
  <2>4. Quiet' BY <1>0, <2>1, <2>2 DEF Quiet
  <2>5. VerdictInv' BY <2>2 DEF VerdictInv
  <2>6. \A w \in DOMAIN rc'.snap : rc'.snap[w].status \notin TerminalWorker \cup {"absent"}
    BY <2>2 DEF Unended
  <2>7. QED BY <1>u, <2>1, <2>2, <2>3, <2>4, <2>5, <2>6, ReconJobStep
<1>2. ASSUME NEW w \in Worker, RcSkip(w) PROVE RecoveryInv'
  <2>1. /\ mode # "down" /\ rc.pc = "repair" /\ rc' = Skipped(w)
        /\ UNCHANGED <<mode, jobs, workers, os, queue, d, timers, exit, beat, cached, agg, crashes>>
    BY <1>2 DEF RcSkip, RcAt, Reconciling
  <2>2. /\ rc' \in ReconRec /\ rc'.pc = "repair" /\ rc'.worker = NoWorker /\ rc'.forced = rc.forced
        /\ \A v \in DOMAIN rc'.snap : rc'.snap[v].status \notin TerminalWorker \cup {"absent"}
    BY <1>0, <2>1, SkippedFact DEF RepairInv
  <2>3. Typed' BY <1>0, <2>1, <2>2 DEF Typed
  <2>4. Quiet' BY <1>0, <2>1, <2>2, QuietKept
  <2>5. VerdictInv' BY <2>2 DEF VerdictInv
  <2>6. QED BY <1>u, <2>1, <2>2, <2>3, <2>4, <2>5, ReconJobStep
<1>3. CASE RcJobs
  <2>1. /\ mode # "down" /\ rc.pc = "repair"
        /\ rc' = [rc EXCEPT !.pc = "jobs", !.todo = {j \in Job : jobs[j].status # "absent" /\ ~JobEnded(j)}]
        /\ UNCHANGED <<mode, jobs, workers, os, queue, d, timers, exit, beat, cached, agg, crashes>>
    BY <1>3 DEF RcJobs, RcAt, Reconciling
  <2>2. PICK T \in SUBSET Job : T = {j \in Job : jobs[j].status # "absent" /\ ~JobEnded(j)} OBVIOUS
  <2>3. rc' = [rc EXCEPT !.pc = "jobs", !.todo = T] BY <2>1, <2>2
  <2>4. /\ rc' \in ReconRec /\ rc'.pc = "jobs" /\ rc'.worker = rc.worker /\ rc'.forced = rc.forced
        /\ rc'.snap = rc.snap
    BY <1>d, <2>3 DEF ReconRec, RcPc
  <2>5. rc'.worker = NoWorker BY <1>0, <2>1, <2>4 DEF RepairInv
  <2>6. Typed' BY <1>0, <2>1, <2>4 DEF Typed
  <2>7. Quiet' BY <1>0, <2>1, <2>4, QuietKept
  <2>8. VerdictInv' BY <2>4 DEF VerdictInv
  <2>9. \A v \in DOMAIN rc'.snap : rc'.snap[v].status \notin TerminalWorker \cup {"absent"}
    BY <1>0, <2>4 DEF RepairInv
  <2>10. QED BY <1>u, <2>1, <2>4, <2>5, <2>6, <2>7, <2>8, <2>9, ReconJobStep
<1>4. ASSUME NEW j \in Job, RcJob(j) PROVE RecoveryInv'
  <2>1. /\ mode # "down" /\ rc.pc = "jobs" /\ rc' = [rc EXCEPT !.todo = rc.todo \ {j}]
        /\ queue' = queue \/ queue' = Enqueued(j)
        /\ UNCHANGED <<mode, jobs, workers, os, d, timers, exit, beat, cached, agg, crashes>>
    BY <1>4 DEF RcJob, RcAt, Reconciling, Seen
  <2>2. /\ rc' \in ReconRec /\ rc'.pc = "jobs" /\ rc'.worker = rc.worker /\ rc'.forced = rc.forced
        /\ rc'.snap = rc.snap
    BY <1>d, <2>1 DEF ReconRec
  <2>3. rc'.worker = NoWorker BY <1>0, <2>1, <2>2 DEF RepairInv
  <2>4. queue' \in QueueRec BY <1>0, <1>d, <2>1, QueueFact
  <2>5. Typed' BY <1>0, <2>1, <2>2, <2>4 DEF Typed
  <2>6. Quiet' BY <1>0, <2>1, <2>2, QuietKept
  <2>7. VerdictInv' BY <2>2 DEF VerdictInv
  <2>8. \A v \in DOMAIN rc'.snap : rc'.snap[v].status \notin TerminalWorker \cup {"absent"}
    BY <1>0, <2>2 DEF RepairInv
  <2>9. QED BY <1>u, <2>1, <2>2, <2>3, <2>5, <2>6, <2>7, <2>8, ReconJobStep
<1>5. CASE RcAggregate
  <2>1. /\ mode # "down" /\ rc.pc = "aggregate" /\ rc' = [rc EXCEPT !.pc = "final"]
        /\ PutJob(rc.job, "aggregating")
        /\ UNCHANGED <<mode, workers, os, queue, d, timers, exit, beat, cached, agg, crashes>>
    BY <1>5 DEF RcAggregate, RcAt, Reconciling
  <2>2. /\ rc' \in ReconRec /\ rc'.pc = "final" /\ rc'.worker = rc.worker /\ rc'.forced = rc.forced
        /\ rc'.snap = rc.snap /\ rc'.job = rc.job /\ rc'.verdict = rc.verdict
    BY <1>d, <2>1 DEF ReconRec, RcPc
  <2>3. rc'.worker = NoWorker /\ rc.job \in Job BY <1>0, <2>1, <2>2 DEF RepairInv, VerdictInv
  <2>4. "aggregating" \in JobStatus BY DEF JobStatus
  <2>5. /\ jobs' \in [Job -> JobRec] /\ jobs'[rc.job].status = "aggregating"
        /\ \A k \in Job : jobs'[k].retries = jobs[k].retries
        /\ \A k \in Job : k # rc.job => jobs'[k] = jobs[k]
    BY <1>0, <2>1, <2>3, <2>4, PutJobFact
  <2>6. Typed' BY <1>0, <2>1, <2>2, <2>5 DEF Typed
  <2>7. Quiet' BY <1>0, <2>1, <2>2, QuietKept
  <2>8. VerdictInv' BY <1>0, <2>1, <2>2, <2>3 DEF VerdictInv, Delivered, Ended, RepairInv
  <2>9. \A v \in DOMAIN rc'.snap : rc'.snap[v].status \notin TerminalWorker \cup {"absent"}
    BY <1>0, <2>2 DEF RepairInv
  <2>10. \A j \in Job : /\ jobs'[j].retries = jobs[j].retries
                        /\ jobs[j].status # "absent" => jobs'[j].status # "absent"
                        /\ jobs'[j].status = "completed" => jobs[j].status = "completed"
    BY <2>5
  <2>11. QED BY <2>1, <2>2, <2>3, <2>6, <2>7, <2>8, <2>9, <2>10, ReconJobStep
<1>6. CASE RcFinal
  <2>1. /\ mode # "down" /\ rc.pc = "final" /\ rc' = [rc EXCEPT !.pc = "jobs", !.job = NoJob]
        /\ PutJob(rc.job, rc.verdict)
        /\ UNCHANGED <<mode, workers, os, queue, d, timers, exit, beat, cached, agg, crashes>>
    BY <1>6 DEF RcFinal, RcAt, Reconciling
  <2>2. /\ rc' \in ReconRec /\ rc'.pc = "jobs" /\ rc'.worker = rc.worker /\ rc'.forced = rc.forced
        /\ rc'.snap = rc.snap
    BY <1>d, <2>1 DEF ReconRec, RcPc
  <2>3. rc'.worker = NoWorker /\ rc.worker = NoWorker /\ rc.job \in Job
    BY <1>0, <2>1, <2>2 DEF RepairInv, VerdictInv
  <2>4. PICK v \in Result : v = rc.verdict BY <1>d DEF ReconRec
  <2>5. v \in JobStatus /\ v # "absent" BY <1>0, ResultFact DEF Result
  <2>6. /\ jobs' \in [Job -> JobRec] /\ jobs'[rc.job].status = v
        /\ \A k \in Job : jobs'[k].retries = jobs[k].retries
        /\ \A k \in Job : k # rc.job => jobs'[k] = jobs[k]
    BY <1>0, <2>1, <2>3, <2>4, <2>5, PutJobFact
  <2>7. ASSUME NEW j \in Job, j = rc.job, v = "completed"
        PROVE  \E w \in Worker : Delivered(w, j)'
    <3>1. PICK w \in Worker : Delivered(w, j) BY <1>0, <2>1, <2>4, <2>7 DEF VerdictInv
    <3>2. QED BY <2>1, <2>3, <3>1 DEF Delivered, Ended
  <2>8. Typed' BY <1>0, <2>1, <2>2, <2>6 DEF Typed
  <2>9. Quiet' BY <1>0, <2>1, <2>2, QuietKept
  <2>10. VerdictInv' BY <2>2 DEF VerdictInv
  <2>11. \A w \in DOMAIN rc'.snap : rc'.snap[w].status \notin TerminalWorker \cup {"absent"}
    BY <1>0, <2>2 DEF RepairInv
  <2>12. \A j \in Job :
           /\ jobs'[j].retries = jobs[j].retries
           /\ jobs[j].status # "absent" => jobs'[j].status # "absent"
           /\ jobs'[j].status = "completed"
                => jobs[j].status = "completed" \/ \E w \in Worker : Delivered(w, j)'
    BY <2>5, <2>6, <2>7
  <2>13. QED BY <2>1, <2>2, <2>3, <2>8, <2>9, <2>10, <2>11, <2>12, ReconJobStep
<1>7. QED BY <1>1, <1>2, <1>3, <1>4, <1>5, <1>6

\* The pass ends what runs, and repairs the record and the result of one worker.
LEMMA ReconRepair ==
  ASSUME RecoveryInv, ~Races,
         \/ RcWrite \/ RcResult \/ \E w \in Worker : RcTerminate(w)
  PROVE  RecoveryInv'
<1> USE DEF store, memory
<1>0. Typed /\ Quiet /\ RepairInv /\ VerdictInv /\ StartInv BY DEF RecoveryInv
<1>d. rc \in ReconRec /\ workers \in [Worker -> WorkerRec] /\ os \in OsRec BY <1>0 DEF Typed
<1>s. d.pc \in Starts => d.worker \in Worker /\ d.worker # rc.worker
  BY <1>0 DEF StartInv
<1>n. NoWorker \notin Worker BY RecoveryAssumption DEF RecoveryAssumption
<1>1. ASSUME NEW w \in Worker, RcTerminate(w) PROVE RecoveryInv'
  <2>1. /\ mode # "down" /\ rc.pc = "repair" /\ w \in DOMAIN rc.snap /\ (rc.forced \/ ~Tended(w))
        /\ workers[w] = rc.snap[w]
        /\ os' = IF Disposition(w) = "terminate_only" THEN [os EXCEPT !.proc[w] = "killed"] ELSE os
        /\ UNCHANGED <<mode, jobs, workers, queue, d, timers, exit, beat, cached, agg, crashes>>
    BY <1>1 DEF RcTerminate, RcAt, Reconciling, Terminated
  <2>2. PICK s : s = IF Disposition(w) = "finalize_canceled_created" THEN "canceled" ELSE "lost"
    OBVIOUS
  <2>3. s \in {"canceled", "lost"} /\ s \in WorkerStatus BY <2>2 DEF WorkerStatus
  <2>4. PICK k \in Job \cup {NoJob} : k = rc.snap[w].job BY <1>d, <2>1 DEF WorkerRec
  <2>5. PICK r \in ReconRec : r = Skipped(w) BY <1>0, SkippedFact
  <2>6. rc' = [r EXCEPT !.pc = "write", !.worker = w, !.repaired = r.repaired \cup {k}, !.status = s]
    BY <1>1, <2>2, <2>4, <2>5 DEF RcTerminate
  <2>7. /\ rc' \in ReconRec /\ rc'.pc = "write" /\ rc'.worker = w /\ rc'.status = s
        /\ rc'.forced = r.forced /\ rc'.snap = r.snap
    <3>1. r.repaired \cup {k} \in SUBSET (Job \cup {NoJob}) BY <2>4 DEF ReconRec
    <3>2. QED BY <2>3, <2>6, <3>1 DEF ReconRec, RcPc
  <2>8. /\ rc'.forced = rc.forced
        /\ \A v \in DOMAIN rc'.snap : rc'.snap[v].status \notin TerminalWorker \cup {"absent"}
    BY <1>0, <2>5, <2>7, SkippedFact DEF RepairInv
  <2>9. workers[w].status \notin TerminalWorker \cup {"absent"} /\ ~Ended(w)
    BY <1>0, <2>1 DEF RepairInv, Ended
  <2>10. w \notin beat /\ (d.pc \in Starts => w # d.worker)
    <3>1. CASE rc.forced BY <1>0, <2>1, <3>1 DEF Quiet, Starts
    <3>2. CASE ~Tended(w) BY <3>2 DEF Tended, Starts
    <3>3. QED BY <2>1, <3>1, <3>2
  <2>11. Kept(w) BY DEF RecoveryInv
  <2>12. exit[w] = "none" /\ cached[w] = "none"
    BY <2>9, <2>10, <2>11 DEF Kept
  <2>13. /\ os' \in OsRec /\ os'.file = os.file /\ os'.dir = os.dir
         /\ \A v \in Worker : v # w => os'.proc[v] = os.proc[v]
         /\ os'.proc[w] = os.proc[w] \/ os'.proc[w] = "killed"
         /\ workers[w].pid => os'.proc[w] # "live"
    <3>1. CASE Disposition(w) = "terminate_only"
      <4>1. os' = [os EXCEPT !.proc[w] = "killed"] /\ "killed" \in Proc BY <2>1, <3>1 DEF Proc
      <4>2. /\ os' \in OsRec /\ os'.file = os.file /\ os'.dir = os.dir
            /\ os'.proc = [os.proc EXCEPT ![w] = "killed"]
        BY <1>0, <4>1, OsFact
      <4>3. os.proc \in [Worker -> Proc] BY <1>0, OsFact
      <4>4. QED BY <4>2, <4>3
    <3>2. CASE Disposition(w) # "terminate_only"
      <4>1. os' = os BY <2>1, <3>2
      <4>2. workers[w].pid => workers[w].status # "created" BY <2>11 DEF Kept
      <4>3. workers[w].pid => ~Live(w)
        BY <2>1, <3>2, <4>2 DEF Disposition, KnownLive
      <4>4. QED BY <1>d, <4>1, <4>3 DEF Live
    <3>3. QED BY <3>1, <3>2
  <2>14. Kept(w)' BY <2>1, <2>9, <2>11, <2>12, <2>13 DEF Kept, Ended, Live
  <2>15. Steady(w) BY <2>1, <2>9, <2>12 DEF Steady, Ended
  <2>16. \A v \in Worker : v # w => Same(v) BY <2>1, <2>13 DEF Same
  <2>17. \A v \in Worker : Kept(v)' /\ Steady(v)
    BY <2>7, <2>14, <2>15, <2>16, SameKept DEF RecoveryInv
  <2>18. Typed' BY <1>0, <2>1, <2>7, <2>13 DEF Typed
  <2>19. Quiet' BY <1>0, <2>1, <2>8, QuietKept
  <2>20. RepairInv'
    BY <2>1, <2>3, <2>7, <2>8, <2>9, <2>10, <2>12, <2>13 DEF RepairInv, Ended, Live
  <2>21. VerdictInv' BY <2>7 DEF VerdictInv
  <2>22. d.pc \in Starts => Same(d.worker) /\ d.worker # rc'.worker BY <1>s, <2>7, <2>10, <2>16
  <2>23. QED BY <2>1, <2>17, <2>18, <2>19, <2>20, <2>21, <2>22, ReconStep
<1>2. CASE RcWrite
  <2>1. /\ mode # "down" /\ rc.pc = "write" /\ rc' = [rc EXCEPT !.pc = "result"]
        /\ PutWorker(rc.worker, rc.status)
        /\ UNCHANGED <<mode, jobs, os, queue, d, timers, exit, beat, cached, agg, crashes>>
    BY <1>2 DEF RcWrite, RcAt, Reconciling
  <2>2. PICK w \in Worker : w = rc.worker BY <1>0, <2>1 DEF RepairInv
  <2>3. /\ w \notin beat /\ exit[w] = "none" /\ cached[w] = "none"
        /\ rc.status \in {"canceled", "lost"} /\ ~Ended(w) /\ (workers[w].pid => ~Live(w))
        /\ Kept(w)
    BY <1>0, <2>1, <2>2 DEF RepairInv, RecoveryInv
  <2>4. PICK s \in WorkerStatus : s = rc.status BY <2>3 DEF WorkerStatus
  <2>5. /\ workers' \in [Worker -> WorkerRec] /\ workers'[w].status = s
        /\ workers'[w].job = workers[w].job /\ workers'[w].pid = workers[w].pid
        /\ workers'[w].tree = workers[w].tree
        /\ \A v \in Worker : v # w => workers'[v] = workers[v]
    BY <1>0, <2>1, <2>2, <2>4, PutWorkerFact
  <2>6. /\ rc' \in ReconRec /\ rc'.pc = "result" /\ rc'.worker = w /\ rc'.status = s
        /\ rc'.forced = rc.forced /\ rc'.snap = rc.snap
    BY <1>d, <2>1, <2>2, <2>4 DEF ReconRec, RcPc
  <2>7. Kept(w)' BY <2>1, <2>3, <2>4, <2>5 DEF Kept, Ended, Live
  <2>8. Steady(w) BY <2>2, <2>3, <2>5 DEF Steady
  <2>9. \A v \in Worker : v # w => Same(v) BY <2>1, <2>5 DEF Same
  <2>10. \A v \in Worker : Kept(v)' /\ Steady(v)
    BY <2>2, <2>6, <2>7, <2>8, <2>9, SameKept DEF RecoveryInv
  <2>11. Typed' BY <1>0, <2>1, <2>5, <2>6 DEF Typed
  <2>12. Quiet' BY <1>0, <2>1, <2>6, QuietKept
  <2>13. RepairInv'
    <3>1. s # "absent" /\ s \in TerminalWorker BY <2>3, <2>4 DEF TerminalWorker
    <3>2. \A v \in DOMAIN rc'.snap : rc'.snap[v].status \notin TerminalWorker \cup {"absent"}
      BY <1>0, <2>6 DEF RepairInv
    <3>3. QED BY <2>1, <2>3, <2>4, <2>5, <2>6, <3>1, <3>2 DEF RepairInv, Ended
  <2>14. VerdictInv' BY <2>6 DEF VerdictInv
  <2>15. d.pc \in Starts => Same(d.worker) /\ d.worker # rc'.worker BY <1>s, <2>2, <2>6, <2>9
  <2>16. QED BY <2>1, <2>10, <2>11, <2>12, <2>13, <2>14, <2>15, ReconStep
<1>3. CASE RcResult
  <2>1. /\ mode # "down" /\ rc.pc = "result" /\ rc' = [rc EXCEPT !.pc = "repair", !.worker = NoWorker]
        /\ os' = [os EXCEPT !.file[rc.worker] = IF rc.status = "canceled" THEN "canceled" ELSE "failed"]
        /\ UNCHANGED <<mode, jobs, workers, queue, d, timers, exit, beat, cached, agg, crashes>>
    BY <1>3 DEF RcResult, RcAt, Reconciling
  <2>2. PICK w \in Worker : w = rc.worker BY <1>0, <2>1 DEF RepairInv
  <2>3. cached[w] = "none" /\ workers[w].status # "absent" /\ Kept(w)
    BY <1>0, <2>1, <2>2 DEF RepairInv, RecoveryInv
  <2>4. PICK f : f = IF rc.status = "canceled" THEN "canceled" ELSE "failed" OBVIOUS
  <2>5. f \in Result /\ f # "completed" BY <2>4 DEF Result
  <2>6. os' = [os EXCEPT !.file[w] = f] BY <2>1, <2>2, <2>4
  <2>7. /\ os' \in OsRec /\ os'.proc = os.proc /\ os'.dir = os.dir
        /\ os'.file = [os.file EXCEPT ![w] = f]
    BY <1>0, <2>5, <2>6, OsFact
  <2>8. os'.file[w] = f /\ \A v \in Worker : v # w => os'.file[v] = os.file[v]
    <3>1. os.file \in [Worker -> Result \cup {"none"}] BY <1>0, OsFact
    <3>2. QED BY <2>7, <3>1
  <2>9. /\ rc' \in ReconRec /\ rc'.pc = "repair" /\ rc'.worker = NoWorker
        /\ rc'.forced = rc.forced /\ rc'.snap = rc.snap
    BY <1>d, <2>1 DEF ReconRec, RcPc
  <2>10. Kept(w)' BY <2>1, <2>3, <2>5, <2>7, <2>8 DEF Kept, Ended, Live
  <2>11. Steady(w) BY <2>1, <2>2 DEF Steady, Ended
  <2>12. \A v \in Worker : v # w => Same(v) BY <2>1, <2>7, <2>8 DEF Same
  <2>13. \A v \in Worker : v # rc'.worker BY <1>n, <2>9
  <2>14. \A v \in Worker : Kept(v)' /\ Steady(v)
    BY <2>10, <2>11, <2>12, <2>13, SameKept DEF RecoveryInv
  <2>15. Typed' BY <1>0, <2>1, <2>7, <2>9 DEF Typed
  <2>16. Quiet' BY <1>0, <2>1, <2>9, QuietKept
  <2>17. RepairInv'
    <3>1. \A v \in DOMAIN rc'.snap : rc'.snap[v].status \notin TerminalWorker \cup {"absent"}
      BY <1>0, <2>9 DEF RepairInv
    <3>2. QED BY <2>9, <3>1 DEF RepairInv
  <2>18. VerdictInv' BY <2>9 DEF VerdictInv
  <2>19. d.pc \in Starts => Same(d.worker) /\ d.worker # rc'.worker
    BY <1>s, <2>2, <2>12, <2>13
  <2>20. QED BY <2>1, <2>14, <2>15, <2>16, <2>17, <2>18, <2>19, ReconStep
<1>4. QED BY <1>1, <1>2, <1>3

\* The pass judges a job by the results it finds, and cleans up.
LEMMA ReconJudge ==
  ASSUME RecoveryInv, RcCleanup \/ \E j \in Job : RcFinalize(j)
  PROVE  RecoveryInv'
<1> USE DEF store, memory
<1>0. Typed /\ Quiet /\ RepairInv /\ VerdictInv /\ StartInv BY DEF RecoveryInv
<1>d. rc \in ReconRec /\ os \in OsRec /\ jobs \in [Job -> JobRec] BY <1>0 DEF Typed
<1>s. d.pc \in Starts => d.worker \in Worker /\ d.worker # rc.worker
  BY <1>0 DEF StartInv
<1>n. NoWorker \notin Worker BY RecoveryAssumption DEF RecoveryAssumption
<1>1. ASSUME NEW j \in Job, RcFinalize(j) PROVE RecoveryInv'
  <2>1. /\ mode # "down" /\ rc.pc = "jobs" /\ WorkersOf(j) # {} /\ \A w \in WorkersOf(j) : Ended(w)
        /\ os' = [os EXCEPT !.file = [w \in Worker |-> IF w \in WorkersOf(j) THEN Collected(w)
                                                       ELSE os.file[w]]]
        /\ UNCHANGED <<mode, jobs, workers, queue, d, timers, exit, beat, cached, agg, crashes>>
    BY <1>1 DEF RcFinalize, RcAt, Reconciling
  <2>2. PICK F : F = [w \in Worker |-> IF w \in WorkersOf(j) THEN Collected(w) ELSE os.file[w]]
    OBVIOUS
  <2>3. os.file \in [Worker -> Result \cup {"none"}] BY <1>0, OsFact
  <2>4. F \in [Worker -> Result \cup {"none"}]
    <3>1. \A w \in Worker : F[w] \in Result \cup {"none"} BY <1>0, <2>2, <2>3, ResultFact
    <3>2. QED BY <2>2, <3>1
  <2>5. os' \in OsRec /\ os'.file = F /\ os'.dir = os.dir /\ os'.proc = os.proc
    <3>1. os' = [os EXCEPT !.file = F] BY <2>1, <2>2
    <3>2. QED BY <1>0, <2>4, <3>1, OsFact
  <2>6. ASSUME NEW w \in Worker
        PROVE  \/ os'.file[w] = os.file[w]
               \/ Ended(w) /\ os.file[w] = "none" /\ os'.file[w] \in Result \ {"completed"}
    BY <1>0, <2>1, <2>2, <2>5, ResultFact DEF Collected, WorkersOf
  <2>7. PICK S : S = {Collected(w) : w \in WorkersOf(j)} OBVIOUS
  <2>8. PICK v : v = Verdict(S) OBVIOUS
  <2>9. S \subseteq Result /\ v \in Result BY <1>0, <2>7, <2>8, ResultFact DEF WorkersOf
  <2>10. PICK s : s = jobs[j].status OBVIOUS
  <2>11. s \in JobStatus \cup {"absent"} BY <1>d, <2>10 DEF JobRec
  <2>12. PICK r : r = [rc EXCEPT !.todo = rc.todo \ {j}] OBVIOUS
  <2>13. /\ r \in ReconRec /\ r.worker = rc.worker /\ r.forced = rc.forced /\ r.snap = rc.snap
    BY <1>d, <2>12 DEF ReconRec
  <2>14. rc' = [r EXCEPT !.pc = "aggregate", !.job = j, !.status = s, !.verdict = v]
    BY <1>1, <2>7, <2>8, <2>10, <2>12 DEF RcFinalize, Seen
  <2>15. /\ rc' \in ReconRec /\ rc'.pc = "aggregate" /\ rc'.worker = rc.worker
         /\ rc'.forced = rc.forced /\ rc'.snap = rc.snap /\ rc'.job = j /\ rc'.verdict = v
    BY <2>9, <2>11, <2>13, <2>14 DEF ReconRec, RcPc
  <2>16. rc.worker = NoWorker /\ rc'.worker = NoWorker BY <1>0, <2>1, <2>15 DEF RepairInv
  <2>17. ASSUME NEW w \in Worker PROVE Kept(w)' /\ Steady(w)
    <3>1. Kept(w) BY DEF RecoveryInv
    <3>2. Ended(w) => workers[w].status # "absent" BY DEF Ended, TerminalWorker
    <3>3. QED BY <1>n, <2>1, <2>5, <2>6, <2>16, <3>1, <3>2 DEF Kept, Steady, Ended, Live
  <2>18. Typed' BY <1>0, <2>1, <2>5, <2>15 DEF Typed
  <2>19. Quiet' BY <1>0, <2>1, <2>15, QuietKept
  <2>20. RepairInv'
    <3>1. \A w \in DOMAIN rc'.snap : rc'.snap[w].status \notin TerminalWorker \cup {"absent"}
      BY <1>0, <2>15 DEF RepairInv
    <3>2. QED BY <2>15, <2>16, <3>1 DEF RepairInv
  <2>21. VerdictInv'
    <3>1. ASSUME v = "completed" PROVE \E w \in Worker : Delivered(w, j)'
      <4>1. PICK w \in WorkersOf(j) : TRUE BY <2>1
      <4>2. w \in Worker /\ workers[w].job = j /\ Ended(w) BY <2>1, <4>1 DEF WorkersOf
      <4>3. Collected(w) \in S BY <2>7, <4>1
      <4>4. Collected(w) = "completed" BY <2>8, <2>9, <3>1, <4>3, VerdictFact
      <4>5. os'.file[w] = "completed" BY <2>2, <2>5, <4>1, <4>2, <4>4
      <4>6. QED BY <1>n, <2>1, <2>16, <4>2, <4>5 DEF Delivered, Ended
    <3>2. QED BY <2>15, <3>1 DEF VerdictInv
  <2>22. d.pc \in Starts => Same(d.worker) /\ d.worker # rc'.worker
    <3>1. ASSUME d.pc \in Starts PROVE ~Ended(d.worker)
      BY <1>0, <3>1 DEF StartInv, Starts, Ended, TerminalWorker
    <3>2. QED BY <1>s, <2>1, <2>5, <2>6, <2>15, <3>1 DEF Same
  <2>23. QED BY <2>1, <2>17, <2>18, <2>19, <2>20, <2>21, <2>22, ReconStep
<1>2. CASE RcCleanup
  <2>1. /\ rc.pc = "jobs" /\ rc' = NoRecon /\ mode # "down"
        /\ mode' = IF mode = "boot" THEN "up" ELSE mode
        /\ UNCHANGED <<jobs, workers, queue, d, timers, exit, beat, cached, agg, crashes>>
    BY <1>2 DEF RcCleanup, RcAt, Reconciling
  <2>2. PICK old \in {{}, OldTrees} : os' = [os EXCEPT !.dir = (os.dir \ StaleTrees) \ old]
    BY <1>2 DEF RcCleanup
  <2>3. PICK D : D = (os.dir \ StaleTrees) \ old OBVIOUS
  <2>4. D \subseteq Worker BY <1>0, <2>3, OsFact
  <2>5. os' \in OsRec /\ os'.dir = D /\ os'.proc = os.proc /\ os'.file = os.file
    <3>1. os' = [os EXCEPT !.dir = D] BY <2>2, <2>3
    <3>2. QED BY <1>0, <2>4, <3>1, OsFact
  <2>6. rc.worker = NoWorker /\ rc'.worker = NoWorker /\ rc' \in ReconRec /\ rc'.pc = "idle"
        /\ DOMAIN rc'.snap = {}
    BY <1>0, <2>1, EmptyTypes DEF RepairInv
  <2>7. ASSUME NEW w \in Worker PROVE Kept(w)' /\ Steady(w)
    <3>1. Kept(w) BY DEF RecoveryInv
    <3>2. ASSUME workers[w].tree, Live(w) PROVE w \in D
      <4>1. w \in os.dir /\ ~Ended(w) BY <3>1, <3>2 DEF Kept
      <4>2. w \notin StaleTrees /\ w \notin OldTrees BY <3>2, <4>1 DEF StaleTrees, OldTrees
      <4>3. QED BY <2>3, <4>1, <4>2
    <3>3. QED BY <1>n, <2>1, <2>5, <2>6, <3>1, <3>2 DEF Kept, Steady, Ended, Live
  <2>8. d.pc \in Starts => Same(d.worker) /\ d.worker # rc'.worker
    <3>1. ASSUME d.pc \in Starts PROVE (d.worker \in D) = (d.worker \in os.dir)
      <4>1. ~Ended(d.worker) BY <1>0, <3>1 DEF StartInv, Starts, Ended, TerminalWorker
      <4>2. Tended(d.worker) BY <3>1 DEF Tended, Starts
      <4>3. d.worker \notin StaleTrees /\ d.worker \notin OldTrees
        BY <4>1, <4>2 DEF StaleTrees, OldTrees
      <4>4. QED BY <2>3, <4>3
    <3>2. QED BY <1>n, <1>s, <2>1, <2>5, <2>6, <3>1 DEF Same
  <2>9. Typed' BY <1>0, <2>1, <2>5, <2>6 DEF Typed
  <2>10. Quiet' BY <1>0, <2>1, <2>6 DEF Quiet
  <2>11. RepairInv' /\ VerdictInv' BY <2>6 DEF RepairInv, VerdictInv
  <2>12. QED BY <2>1, <2>7, <2>8, <2>9, <2>10, <2>11, ReconStep
<1>3. QED BY <1>1, <1>2

-----------------------------------------------------------------------------
(* The invariant *)

LEMMA RecoveryInit == Init => RecoveryInv
<1> SUFFICES ASSUME Init PROVE RecoveryInv OBVIOUS
<1>1. /\ mode = "up" /\ crashes = 0 /\ jobs = [j \in Job |-> [status |-> "absent", retries |-> 0]]
      /\ workers = [w \in Worker |-> NoRec]
      /\ os = [proc |-> [w \in Worker |-> "none"], file |-> [w \in Worker |-> "none"], dir |-> {}]
      /\ timers = {} /\ d = NoPass /\ exit = [w \in Worker |-> "none"] /\ beat = {}
      /\ cached = [w \in Worker |-> "none"] /\ agg = [j \in Job |-> NoAgg] /\ rc = NoRecon
      /\ \E b \in Backends : queue = [backend |-> b, jobs |-> {}]
  BY DEF Init
<1>2. NoRec \in WorkerRec /\ NoRec.status = "absent" /\ ~NoRec.pid /\ NoRec.pid = NoRec.tree
      /\ ~NoRec.tree
  BY DEF NoRec, WorkerRec
<1>3. jobs \in [Job -> JobRec] /\ \A j \in Job : jobs[j].status = "absent"
  <2>1. [status |-> "absent", retries |-> 0] \in JobRec
    BY RecoveryAssumption DEF JobRec, RecoveryAssumption
  <2>2. PICK r \in JobRec : r = [status |-> "absent", retries |-> 0] BY <2>1
  <2>3. r.status = "absent" BY <2>2
  <2>4. jobs = [j \in Job |-> r] BY <1>1, <2>2
  <2>5. QED BY <2>3, <2>4
<1>4. workers \in [Worker -> WorkerRec] /\ \A w \in Worker : workers[w] = NoRec BY <1>1, <1>2
<1>5. os \in OsRec /\ \A w \in Worker : os.proc[w] = "none" /\ os.file[w] = "none"
  BY <1>1 DEF OsRec, Proc, Result
<1>6. queue \in QueueRec BY <1>1 DEF QueueRec
<1>7. crashes \in 0..MaxCrashes BY <1>1, RecoveryAssumption DEF RecoveryAssumption
<1>8. Typed BY <1>1, <1>3, <1>4, <1>5, <1>6, <1>7, EmptyTypes DEF Typed
<1>9. Quiet BY <1>1, EmptyTypes DEF Quiet
<1>10. StartInv BY <1>1, EmptyTypes DEF StartInv, Starts
<1>11. RepairInv /\ VerdictInv BY <1>1, EmptyTypes DEF RepairInv, VerdictInv
<1>12. ASSUME NEW w \in Worker PROVE Kept(w)
  BY <1>1, <1>2, <1>4, <1>5 DEF Kept, Ended, Live, TerminalWorker
<1>13. ASSUME NEW j \in Job PROVE Cited(j)
  <2>1. agg[j] = NoAgg BY <1>1
  <2>2. QED BY <1>3, <2>1, EmptyTypes DEF Cited
<1>14. QED BY <1>8, <1>9, <1>10, <1>11, <1>12, <1>13 DEF RecoveryInv

\* A step that changes nothing.
LEMMA RecoveryStutter == ASSUME RecoveryInv, UNCHANGED vars PROVE RecoveryInv'
<1>1. UNCHANGED <<mode, jobs, workers, os, queue, d, timers, exit, beat, cached, agg, rc, crashes>>
  BY DEF vars, store, memory
<1>2. Typed' /\ Quiet' /\ StartInv' /\ RepairInv'
  BY <1>1 DEF RecoveryInv, Typed, Quiet, StartInv, RepairInv, Ended, Live
<1>3. \A v \in Worker : Kept(v)' /\ Steady(v)
  <2>1. \A v \in Worker : Same(v) BY <1>1 DEF Same
  <2>2. QED BY <1>1, <2>1, SameKept DEF RecoveryInv
<1>4. VerdictInv' /\ \A j \in Job : Cited(j)' BY <1>1, <1>3, SteadyCited
<1>5. QED BY <1>2, <1>3, <1>4 DEF RecoveryInv

LEMMA RecoveryNext == ASSUME RecoveryInv, ~Races, [Next]_vars PROVE RecoveryInv'
<1>1. CASE \E j \in Job : Submit(j) \/ RetryTimer(j) \/ Aggregate(j) BY <1>1, JobNext, AggNext
<1>2. CASE \E w \in Worker : ProcessEnds(w) \/ Handle(w)
  BY <1>2, ProcessNext, ExitNext, SettleNext DEF Handle
<1>3. CASE Pass BY <1>3, JobNext, StartNext, FailNext DEF Pass
<1>4. CASE Reconcile BY <1>4, ReconJobs, ReconRepair, ReconJudge DEF Reconcile
<1>5. CASE Drain \/ Stopped \/ Crash \/ Startup BY <1>5, DrainNext, DownNext
<1>6. CASE UNCHANGED vars BY <1>6, RecoveryStutter
<1>7. QED BY <1>1, <1>2, <1>3, <1>4, <1>5, <1>6 DEF Next

\* If no worker settles between being listed by a reconcile pass and being judged
\* by it, the invariant holds whatever crashes when: Quiet, what a start in
\* progress, a repair in progress and a verdict rest on, each worker's and each
\* job's part.
THEOREM Invariance == ASSUME ~Races PROVE Spec => []RecoveryInv
<1>1. RecoveryInv /\ [Next]_vars => RecoveryInv' BY RecoveryNext
<1>2. QED BY <1>1, RecoveryInit, PTL DEF Spec

\* Every record keeps a status of its own table.
THEOREM TypeCorrect == ASSUME ~Races PROVE Spec => []TypeOK
<1>1. RecoveryInv => TypeOK
  <2>1. SUFFICES ASSUME Typed PROVE TypeOK BY DEF RecoveryInv
  <2>2. jobs \in [Job -> [status : JobStatus \cup {"absent"}, retries : 0..MaxRetries]]
        /\ workers \in [Worker -> [status : WorkerStatus \cup {"absent"}, job : Job \cup {NoJob},
                                   pid : BOOLEAN, tree : BOOLEAN, cancel : BOOLEAN]]
    BY <2>1 DEF Typed, JobRec, WorkerRec
  <2>3. /\ os.proc \in [Worker -> {"none", "live", "ok", "error", "killed"}]
        /\ os.file \in [Worker -> {"none", "completed", "failed", "canceled"}]
        /\ os.dir \subseteq Worker /\ queue.jobs \subseteq Job
    <3>1. Result \cup {"none"} = {"none", "completed", "failed", "canceled"} BY DEF Result
    <3>2. os \in OsRec /\ queue \in QueueRec BY <2>1 DEF Typed
    <3>3. QED BY <3>1, <3>2 DEF OsRec, QueueRec, Proc
  <2>4. DOMAIN rc.snap \subseteq Worker
    <3>1. PICK S \in SUBSET Worker : rc.snap \in [S -> WorkerRec] BY <2>1 DEF Typed, ReconRec, Snaps
    <3>2. QED BY <3>1
  <2>5. QED BY <2>1, <2>2, <2>3, <2>4 DEF Typed, TypeOK
<1>2. QED BY <1>1, Invariance, PTL

\* A worker whose pid is on record has an ended record only when its process is
\* gone, whoever ended the record: the exit handler, a shutdown, or the reconcile
\* pass after a crash.
THEOREM NoProcessStrays == ASSUME ~Races PROVE Spec => []NoStrayProcess
<1>1. RecoveryInv => NoStrayProcess BY DEF RecoveryInv, Kept, NoStrayProcess
<1>2. QED BY <1>1, Invariance, PTL

\* Neither the exit handler nor a cleanup takes the worktree of a process that
\* runs and is on record.
THEOREM TreesAreKept == ASSUME ~Races PROVE Spec => []TreeKept
<1>1. RecoveryInv => TreeKept BY DEF RecoveryInv, Kept, TreeKept
<1>2. QED BY <1>1, Invariance, PTL

\* A job is completed only on a result that one of its workers delivered and
\* nothing overwrote, also when the verdict is reached after memory was lost.
THEOREM CompletedIsEarned == ASSUME ~Races PROVE Spec => []CompletedOnResults
<1>1. RecoveryInv => CompletedOnResults
  BY DEF RecoveryInv, Cited, Delivered, CompletedOnResults, WorkersOf
<1>2. QED BY <1>1, Invariance, PTL
=============================================================================
