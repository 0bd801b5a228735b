-------------------------- MODULE RemotePlaneProofs --------------------------
(***************************************************************************)
(* What holds of RemotePlane for any number of executors, workers, jobs    *)
(* and faults: types, that a result belongs to a process that has ended,   *)
(* that a worker that has ended stays as it ended, and that a job's worker *)
(* is replaced only when nobody works on it any more.                      *)
(***************************************************************************)
EXTENDS RemotePlane, FiniteSetTheorems, TLAPS

TaskPc == {"none", "start", "running", "publish", "report", "done", "dead"} \cup Awaited
Kind   == Awaited \cup {"timer"}
Served == [kind: Kind, w: Worker, pc: {"write", "manifest", "collect", "aggregate"}]
WorkerRec == [status: WorkerStatus \cup {"absent"}, job: Job \cup {NoJob},
              host: Executor \cup {NoHost}]
AgentRec == [state: {"stopped", "starting", "running", "draining"},
             closing: {"no", "idle", "now"}, polling: BOOLEAN, claiming: BOOLEAN]
ProcRec == [state: {"none", "running", "exited"}, code: {"none", "completed", "failed"},
            file: {"none", "completed", "failed"}]
ClaimPc == {"idle", "asked", "visit", "create", "assign", "refuse", "reply"}
ClaimRec == [pc: ClaimPc, todo: SUBSET Job, act: SUBSET Worker,
             job: Job \cup {NoJob}, worker: Worker \cup {NoWorker}]
Lent == {"none", "fresh", "stale", "released"}

\* The type invariant, in the names of this module.
LEMMA Types ==
  TypeOK <=>
    /\ jobs \in [Job -> JobStatus] /\ queue \subseteq Job
    /\ workers \in [Worker -> WorkerRec] /\ lent \in [Worker -> Lent]
    /\ results \in [Worker -> {"none", "completed", "failed"}]
    /\ claim \in [Executor -> ClaimRec] /\ agent \in [Executor -> AgentRec]
    /\ task \in [Worker -> TaskPc] /\ proc \in [Worker -> ProcRec]
    /\ active \subseteq Worker /\ timer \subseteq Worker
    /\ net \subseteq Request /\ faults \in 0..MaxFaults /\ srv \subseteq Served
    /\ stored \in [Worker -> {"none", "blob", "manifest"}]
BY DEF TypeOK, WorkerRec, Lent, ClaimRec, ClaimPc, AgentRec, TaskPc, ProcRec, Served, Kind

-----------------------------------------------------------------------------
(* Lemmas about the operators the actions are built from *)

\* A fault is counted, and within the bound.
LEMMA FaultFact ==
  ASSUME TypeOK, Fault
  PROVE  faults' \in 0..MaxFaults
<1>1. faults \in 0..MaxFaults /\ MaxFaults \in Nat
  BY RemoteAssumption DEF RemoteAssumption, TypeOK
<1>2. QED BY <1>1 DEF Fault

\* What ends with an agent's process.
LEMMA GoneFact ==
  ASSUME TypeOK, NEW e, Gone(e)
  PROVE  /\ agent' \in [Executor -> AgentRec] /\ task' \in [Worker -> TaskPc]
         /\ active' \subseteq Worker /\ timer' \subseteq Worker
<1>1. Off \in AgentRec BY DEF Off, AgentRec
<1>2. agent' \in [Executor -> AgentRec] BY <1>1, Types DEF Gone
<1>3. "dead" \in TaskPc BY DEF TaskPc
<1>4. task' \in [Worker -> TaskPc] BY <1>3, Types DEF Gone
<1>5. QED BY <1>2, <1>4, Types DEF Gone

\* What an answer does to the task that awaits it.
LEMMA AnswerFact ==
  ASSUME TypeOK, NEW w \in Worker, NEW k \in Kind, Answered(w, k)
  PROVE  /\ task' \in [Worker -> TaskPc] /\ active' \subseteq Worker
         /\ \A x \in Worker : x # w => task'[x] = task[x]
         /\ k = "timer" \/ task[w] # k => task'[w] = task[w]
         /\ task[w] = k =>
              \/ k = "claimed" /\ task'[w] = "start"
              \/ k = "active" /\ task'[w] = "running"
              \/ k = "finishing" /\ task'[w] = "publish"
              \/ k = "publishing" /\ task'[w] = "report"
              \/ k = "result" /\ task'[w] = "done"
<1>0. task \in [Worker -> TaskPc] /\ active \subseteq Worker BY Types
<1>1. CASE k = "timer" \/ task[w] # k
  <2>1. task' = task /\ active' = active BY <1>1 DEF Answered
  <2>2. "timer" \notin TaskPc BY DEF TaskPc, Awaited
  <2>3. task[w] # k BY <1>0, <1>1, <2>2
  <2>4. QED BY <1>0, <2>1, <2>3
<1>2. CASE k # "timer" /\ task[w] = k
  <2>1. k \in {"claimed", "active", "finishing", "publishing", "result"}
    BY <1>2 DEF Kind, Awaited
  <2>2. PICK s \in TaskPc :
          /\ task' = [task EXCEPT ![w] = s]
          /\ \/ k = "claimed" /\ s = "start"
             \/ k = "active" /\ s = "running"
             \/ k = "finishing" /\ s = "publish"
             \/ k = "publishing" /\ s = "report"
             \/ k = "result" /\ s = "done"
    BY <1>2, <2>1 DEF Answered, TaskPc
  <2>3. active' \subseteq Worker BY <1>0, <1>2 DEF Answered
  <2>4. QED BY <1>0, <1>2, <2>2, <2>3
<1>3. QED BY <1>1, <1>2

\* An error instead ends the agent's process, or is heard by nobody.
LEMMA FailedFact ==
  ASSUME TypeOK, NEW w \in Worker, NEW k \in Kind, Failed(w, k)
  PROVE  /\ agent' \in [Executor -> AgentRec] /\ task' \in [Worker -> TaskPc]
         /\ active' \subseteq Worker /\ timer' \subseteq Worker
         /\ Gone(workers[w].host) \/ UNCHANGED <<agent, task, active, timer>>
<1>1. Gone(workers[w].host) \/ UNCHANGED <<agent, task, active, timer>>
  BY DEF Failed, Rejected
<1>2. QED BY <1>1, GoneFact, Types

\* #advanceJobToStatus keeps job records, and collectWorkerResult and
\* aggregateJobResult store results.
LEMMA StatusFact ==
  ASSUME TypeOK
  PROVE  /\ \A j, s : s \in JobStatus => Advance(j, s) \in [Job -> JobStatus]
         /\ \A j : Verdict(j) \in {"completed", "failed"}
         /\ \A w \in Worker : Collected(w) \in {"none", "completed", "failed"}
         /\ \A w \in Worker, s \in WorkerStatus : SetStatus(w, s) \in [Worker -> WorkerRec]
         /\ \A w \in Worker : Renewed(w) \in [Worker -> Lent]
<1>1. \A j, s : s \in JobStatus => Advance(j, s) \in [Job -> JobStatus]
  BY Types DEF Advance
<1>2. \A j : Verdict(j) \in {"completed", "failed"} BY DEF Verdict
<1>3. \A w \in Worker : Collected(w) \in {"none", "completed", "failed"}
  BY Types DEF Collected, ProcRec
<1>4. \A w \in Worker, s \in WorkerStatus : SetStatus(w, s) \in [Worker -> WorkerRec]
  BY Types DEF SetStatus, WorkerRec
<1>5. \A w \in Worker : Renewed(w) \in [Worker -> Lent] BY Types DEF Renewed, Lent
<1>6. QED BY <1>1, <1>2, <1>3, <1>4, <1>5

-----------------------------------------------------------------------------
(* The type invariant *)

\* The initial state has the types.
LEMMA TypeInit == Init => TypeOK
<1> SUFFICES ASSUME Init PROVE TypeOK OBVIOUS
<1>1. jobs \in [Job -> JobStatus] /\ queue \subseteq Job BY DEF Init, JobStatus
<1>2. workers \in [Worker -> WorkerRec] BY DEF Init, WorkerRec
<1>3. NoClaim \in ClaimRec /\ Off \in AgentRec
  BY DEF NoClaim, ClaimRec, ClaimPc, Off, AgentRec
<1>4. claim \in [Executor -> ClaimRec] /\ agent \in [Executor -> AgentRec] BY <1>3 DEF Init
<1>5. proc \in [Worker -> ProcRec] BY DEF Init, ProcRec
<1>6. task \in [Worker -> TaskPc] /\ lent \in [Worker -> Lent] BY DEF Init, TaskPc, Lent
<1>7. faults \in 0..MaxFaults BY RemoteAssumption DEF Init, RemoteAssumption
<1>8. /\ results \in [Worker -> {"none", "completed", "failed"}]
      /\ active \subseteq Worker /\ timer \subseteq Worker /\ net \subseteq Request
      /\ srv \subseteq Served /\ stored \in [Worker -> {"none", "blob", "manifest"}]
  BY DEF Init
<1>9. QED BY <1>1, <1>2, <1>4, <1>5, <1>6, <1>7, <1>8, Types

\* The daemon's steps keep the types.
LEMMA TypeDaemon ==
  ASSUME TypeOK, NEW e \in Executor, Daemon(e)
  PROVE  TypeOK'
<1> USE DEF records, running, calls
<1>1. agent \in [Executor -> AgentRec] BY Types
<1>2. CASE DaemonStart(e) \/ DaemonReady(e)
  <2>1. agent' \in [Executor -> AgentRec] BY <1>1, <1>2 DEF DaemonStart, DaemonReady, AgentRec
  <2>2. QED BY <1>2, <2>1, Types DEF DaemonStart, DaemonReady, TypeOK, AgentRec
<1>3. CASE DaemonRejected(e) \/ Drain(e)
  <2>1. agent' \in [Executor -> AgentRec] BY <1>1, <1>3 DEF DaemonRejected, Drain, AgentRec
  <2>2. faults' \in 0..MaxFaults BY <1>3, FaultFact DEF DaemonRejected, Drain
  <2>3. QED BY <1>3, <2>1, <2>2, Types DEF DaemonRejected, Drain, TypeOK, AgentRec
<1>4. CASE StopDraining(e)
  <2>1. agent' \in [Executor -> AgentRec] BY <1>1, <1>4 DEF StopDraining, AgentRec
  <2>2. proc' \in [Worker -> ProcRec]
    <3>1. [state |-> "exited", code |-> "failed", file |-> "none"] \in ProcRec BY DEF ProcRec
    <3>2. QED BY <1>4, <3>1, Types DEF StopDraining
  <2>3. timer' \subseteq Worker BY <1>4, Types DEF StopDraining
  <2>4. QED BY <1>4, <2>1, <2>2, <2>3 DEF StopDraining, TypeOK, AgentRec, ProcRec
<1>5. CASE DrainTimeout(e) \/ AgentStop(e)
  <2>1. agent' \in [Executor -> AgentRec] BY <1>1, <1>5 DEF DrainTimeout, AgentStop, AgentRec
  <2>2. lent' \in [Worker -> Lent] BY <1>5, Types DEF DrainTimeout, AgentStop, Lent
  <2>3. QED BY <1>5, <2>1, <2>2 DEF DrainTimeout, AgentStop, TypeOK, AgentRec, Lent
<1>6. CASE Crash(e)
  <2>1. /\ agent' \in [Executor -> AgentRec] /\ task' \in [Worker -> TaskPc]
        /\ active' \subseteq Worker /\ timer' \subseteq Worker
    BY <1>6, GoneFact DEF Crash
  <2>2. faults' \in 0..MaxFaults BY <1>6, FaultFact DEF Crash
  <2>3. QED BY <1>6, <2>1, <2>2 DEF Crash, TypeOK, AgentRec, TaskPc
<1>7. QED BY <1>2, <1>3, <1>4, <1>5, <1>6 DEF Daemon

\* Serving a claim keeps the types, except for a job that is not one.
LEMMA TypeClaim ==
  ASSUME TypeOK, NEW e \in Executor, Claiming(e) \/ Poll(e),
         claim[e].pc \in {"create", "assign", "reply"} => claim[e].job \in Job,
         claim[e].pc \in {"assign", "reply"} => claim[e].worker \in Worker
  PROVE  TypeOK'
<1> USE DEF records, running, calls
<1>0. claim \in [Executor -> ClaimRec] /\ agent \in [Executor -> AgentRec] BY Types
<1>a. NoClaim \in ClaimRec BY DEF NoClaim, ClaimRec, ClaimPc
<1>1. CASE Poll(e)
  <2>1. claim' \in [Executor -> ClaimRec] BY <1>0, <1>1 DEF Poll, ClaimRec, ClaimPc
  <2>2. agent' \in [Executor -> AgentRec] BY <1>0, <1>1 DEF Poll, AgentRec
  <2>3. QED BY <1>1, <2>1, <2>2 DEF Poll, TypeOK, ClaimRec, ClaimPc, AgentRec
<1>2. CASE ClaimBegin(e)
  <2>1. queue \in SUBSET Job /\ Busy \in SUBSET Worker BY Types DEF Busy
  <2>2. PICK b \in SUBSET Worker : b = Busy BY <2>1
  <2>3. PICK c \in ClaimRec : c = [claim[e] EXCEPT !.pc = "visit", !.todo = queue, !.act = b]
    BY <1>0, <2>1 DEF ClaimRec, ClaimPc
  <2>4. claim' \in [Executor -> ClaimRec]
    <3>1. claim' = [claim EXCEPT ![e] = c] BY <1>2, <2>2, <2>3 DEF ClaimBegin
    <3>2. QED BY <1>0, <3>1
  <2>5. QED BY <1>2, <2>4 DEF ClaimBegin, TypeOK, ClaimRec, ClaimPc
<1>3. CASE ClaimNothing(e) \/ ClaimRefuse(e)
  <2>1. claim' \in [Executor -> ClaimRec] BY <1>0, <1>a, <1>3 DEF ClaimNothing, ClaimRefuse
  <2>2. agent' \in [Executor -> AgentRec]
    <3>1. agent' = [agent EXCEPT ![e].claiming = FALSE] BY <1>3 DEF ClaimNothing, ClaimRefuse
    <3>2. QED BY <1>0, <3>1 DEF AgentRec
  <2>3. UNCHANGED <<jobs, queue, workers, lent, results, task, proc, active, timer, net, srv,
                    faults, stored>>
    <3>1. CASE ClaimNothing(e) BY <3>1 DEF ClaimNothing
    <3>2. CASE ClaimRefuse(e) BY <3>2 DEF ClaimRefuse
    <3>3. QED BY <1>3, <3>1, <3>2
  <2>4. QED BY <2>1, <2>2, <2>3 DEF TypeOK, ClaimRec, ClaimPc, AgentRec
<1>4. CASE ClaimCreate(e)
  <2>1. claim[e].job \in Job BY <1>4 DEF ClaimCreate
  <2>2. PICK w \in Fresh :
          /\ workers' = [workers EXCEPT ![w] = [status |-> "created", job |-> claim[e].job,
                                                host |-> NoHost]]
          /\ claim' = [claim EXCEPT ![e].pc = "assign", ![e].worker = w]
    BY <1>4 DEF ClaimCreate
  <2>3. w \in Worker BY DEF Fresh
  <2>4. claim' \in [Executor -> ClaimRec]
    <3>1. PICK c \in ClaimRec : c = [claim[e] EXCEPT !.pc = "assign", !.worker = w]
      BY <1>0, <2>3 DEF ClaimRec, ClaimPc
    <3>2. claim' = [claim EXCEPT ![e] = c] BY <2>2, <3>1
    <3>3. QED BY <1>0, <3>2
  <2>5. workers' \in [Worker -> WorkerRec] BY <2>1, <2>2, Types DEF WorkerRec, WorkerStatus
  <2>6. QED BY <1>4, <2>4, <2>5 DEF ClaimCreate, TypeOK, ClaimRec, ClaimPc, WorkerRec
<1>5. CASE ClaimAssign(e)
  <2>1. claim[e].job \in Job /\ claim[e].worker \in Worker BY <1>5 DEF ClaimAssign
  <2>2. lent' \in [Worker -> Lent] BY <1>5, Types DEF ClaimAssign, Lent
  <2>3. workers' \in [Worker -> WorkerRec]
    <3>1. PICK w \in Worker : w = claim[e].worker BY <2>1
    <3>2. workers' = [workers EXCEPT ![w].status = "starting", ![w].host = e]
      BY <1>5, <3>1 DEF ClaimAssign
    <3>3. workers \in [Worker -> WorkerRec] /\ "starting" \in WorkerStatus
      BY Types DEF WorkerStatus
    <3>4. QED BY <3>1, <3>2, <3>3 DEF WorkerRec
  <2>4. jobs' \in [Job -> JobStatus]
    <3>1. jobs' = jobs \/ jobs' = Advance(claim[e].job, "dispatching")
      BY <1>5 DEF ClaimAssign
    <3>2. "dispatching" \in JobStatus BY DEF JobStatus
    <3>3. QED BY <2>1, <3>1, <3>2, StatusFact, Types
  <2>5. claim' \in [Executor -> ClaimRec]
    <3>1. \E p \in {"refuse", "reply"} : claim' = [claim EXCEPT ![e].pc = p]
      BY <1>5 DEF ClaimAssign
    <3>2. QED BY <1>0, <3>1 DEF ClaimRec, ClaimPc
  <2>6. QED BY <1>5, <2>2, <2>3, <2>4, <2>5
        DEF ClaimAssign, TypeOK, ClaimRec, ClaimPc, WorkerRec, Lent
<1>6. CASE ClaimReply(e)
  <2>1. claim[e].job \in Job /\ claim[e].worker \in Worker BY <1>6 DEF ClaimReply
  <2>2. queue' \subseteq Job BY <1>6, <2>1, Types DEF ClaimReply, Requeued
  <2>3. claim' \in [Executor -> ClaimRec] BY <1>0, <1>a, <1>6 DEF ClaimReply
  <2>4. agent' \in [Executor -> AgentRec] BY <1>0, <1>6 DEF ClaimReply, AgentRec
  <2>5. task' \in [Worker -> TaskPc] BY <1>6, Types DEF ClaimReply, TaskPc, Awaited
  <2>6. net' \subseteq Request BY <1>6, <2>1, Types DEF ClaimReply, Request, Awaited
  <2>7. QED BY <1>6, <2>2, <2>3, <2>4, <2>5, <2>6
        DEF ClaimReply, TypeOK, ClaimRec, ClaimPc, AgentRec, TaskPc
<1>7. CASE ClaimUnheard(e)
  <2>1. claim[e].job \in Job BY <1>7 DEF ClaimUnheard
  <2>2. queue' \subseteq Job BY <1>7, <2>1, Types DEF ClaimUnheard, Requeued
  <2>3. claim' \in [Executor -> ClaimRec] BY <1>0, <1>a, <1>7 DEF ClaimUnheard
  <2>4. QED BY <1>7, <2>2, <2>3 DEF ClaimUnheard, TypeOK, ClaimRec, ClaimPc
<1>8. ASSUME NEW j \in Job, ClaimSkip(e, j) PROVE TypeOK'
  <2>1. queue' \subseteq Job BY <1>8, Types DEF ClaimSkip
  <2>2. claim' \in [Executor -> ClaimRec] BY <1>0, <1>8 DEF ClaimSkip, ClaimRec
  <2>3. QED BY <1>8, <2>1, <2>2 DEF ClaimSkip, TypeOK, ClaimRec, ClaimPc
<1>9. ASSUME NEW j \in Job, ClaimTake(e, j) PROVE TypeOK'
  <2>1. queue' \subseteq Job BY <1>9, Types DEF ClaimTake
  <2>2. "preparing" \in JobStatus BY DEF JobStatus
  <2>3. jobs' \in [Job -> JobStatus] BY <1>9, <2>2, StatusFact DEF ClaimTake
  <2>4. claim' \in [Executor -> ClaimRec]
    <3>1. PICK c \in ClaimRec : c = [claim[e] EXCEPT !.pc = "create", !.job = j]
      BY <1>0 DEF ClaimRec, ClaimPc
    <3>2. claim' = [claim EXCEPT ![e] = c] BY <1>9, <3>1 DEF ClaimTake
    <3>3. QED BY <1>0, <3>2
  <2>5. QED BY <1>9, <2>1, <2>3, <2>4 DEF ClaimTake, TypeOK, ClaimRec, ClaimPc
<1>10. QED BY <1>1, <1>2, <1>3, <1>4, <1>5, <1>6, <1>7, <1>8, <1>9 DEF Claiming

\* The steps of a claim at its agent keep the types.
LEMMA TypeExecuting ==
  ASSUME TypeOK, NEW w \in Worker,
         Executing(w) \/ StartFails(w) \/ TimerBeat(w) \/ ProcessExit(w)
  PROVE  TypeOK'
<1> USE DEF records, running, calls
<1>1. \A k \in Kind : [kind |-> k, w |-> w] \in Request BY DEF Request, Kind
<1>k. {"active", "finishing", "publishing", "result", "timer"} \subseteq Kind
  BY DEF Kind, Awaited
<1>t. \A s \in TaskPc : [task EXCEPT ![w] = s] \in [Worker -> TaskPc] BY Types
<1>2. CASE StartProcess(w)
  <2>1. net' \subseteq Request BY <1>1, <1>k, <1>2, Types DEF StartProcess
  <2>2. task' \in [Worker -> TaskPc] BY <1>t, <1>2 DEF StartProcess, TaskPc, Awaited
  <2>3. proc' \in [Worker -> ProcRec] BY <1>2, Types DEF StartProcess, ProcRec
  <2>4. timer' \subseteq Worker /\ active' \subseteq Worker BY <1>2, Types DEF StartProcess
  <2>5. QED BY <1>2, <2>1, <2>2, <2>3, <2>4 DEF StartProcess, TypeOK, TaskPc, ProcRec
<1>3. CASE StartFails(w) \/ PublishFails(w)
  <2>1. /\ agent' \in [Executor -> AgentRec] /\ task' \in [Worker -> TaskPc]
        /\ active' \subseteq Worker /\ timer' \subseteq Worker
    BY <1>3, GoneFact DEF StartFails, PublishFails, Rejected
  <2>2. faults' \in 0..MaxFaults
    BY <1>3, FaultFact, Types DEF StartFails, PublishFails
  <2>3. QED BY <1>3, <2>1, <2>2 DEF StartFails, PublishFails, TypeOK, AgentRec, TaskPc
<1>4. CASE TimerBeat(w)
  <2>1. net' \subseteq Request BY <1>1, <1>k, <1>4, Types DEF TimerBeat
  <2>2. QED BY <1>4, <2>1 DEF TimerBeat, TypeOK
<1>5. CASE ProcessExit(w)
  <2>1. PICK o \in Outcomes : proc' = [proc EXCEPT ![w] = [state |-> "exited", code |-> o[1],
                                                             file |-> o[2]]]
    BY <1>5 DEF ProcessExit
  <2>2. o[1] \in {"completed", "failed"} /\ o[2] \in {"none", "completed", "failed"}
    BY RemoteAssumption DEF RemoteAssumption
  <2>3. proc' \in [Worker -> ProcRec] BY <2>1, <2>2, Types DEF ProcRec
  <2>4. QED BY <1>5, <2>3 DEF ProcessExit, TypeOK, ProcRec
<1>6. CASE ExitSeen(w)
  <2>1. net' \subseteq Request BY <1>1, <1>k, <1>6, Types DEF ExitSeen
  <2>2. task' \in [Worker -> TaskPc] BY <1>t, <1>6 DEF ExitSeen, TaskPc, Awaited
  <2>3. timer' \subseteq Worker BY <1>6, Types DEF ExitSeen
  <2>4. QED BY <1>6, <2>1, <2>2, <2>3 DEF ExitSeen, TypeOK, TaskPc
<1>7. CASE Publish(w)
  <2>1. net' \subseteq Request BY <1>1, <1>k, <1>7, Types DEF Publish
  <2>2. task' \in [Worker -> TaskPc] BY <1>t, <1>7 DEF Publish, TaskPc, Awaited
  <2>3. QED BY <1>7, <2>1, <2>2 DEF Publish, TypeOK, TaskPc
<1>8. CASE Report(w)
  <2>1. net' \subseteq Request BY <1>1, <1>k, <1>8, Types DEF Report
  <2>2. task' \in [Worker -> TaskPc] BY <1>t, <1>8 DEF Report, TaskPc, Awaited
  <2>3. QED BY <1>8, <2>1, <2>2 DEF Report, TypeOK, TaskPc
<1>9. QED BY <1>2, <1>3, <1>4, <1>5, <1>6, <1>7, <1>8 DEF Executing

\* Every request names a worker, and every handler a request.
LEMMA RequestFact ==
  ASSUME TypeOK
  PROVE  /\ \A r \in net : r.w \in Worker /\ r.kind \in Kind
         /\ \A r \in srv : r.w \in Worker /\ r.kind \in Kind
         /\ \A k \in Kind, w \in Worker : \A pc \in {"write", "manifest", "collect", "aggregate"} :
              [kind |-> k, w |-> w, pc |-> pc] \in Served
<1>1. net \subseteq Request /\ srv \subseteq Served BY Types
<1>2. QED BY <1>1 DEF Request, Served, Kind

\* Handling a request, or losing it, keeps the types.
LEMMA TypeRequest ==
  ASSUME TypeOK, NEW r \in net,
         ReadBeat(r) \/ StoreBlob(r) \/ ReadResult(r) \/ LoseRequest(r)
  PROVE  TypeOK'
<1> USE DEF records, running, calls
<1>0. r.w \in Worker /\ r.kind \in Kind BY RequestFact
<1>a. net \ {r} \subseteq Request BY Types
<1>s. ASSUME NEW pc \in {"write", "manifest", "collect", "aggregate"}
      PROVE  srv \cup {[kind |-> r.kind, w |-> r.w, pc |-> pc]} \subseteq Served
  <2>1. [kind |-> r.kind, w |-> r.w, pc |-> pc] \in Served BY <1>0, RequestFact
  <2>2. QED BY <2>1, Types
<1>1. CASE ReadBeat(r)
  <2>1. net' \subseteq Request BY <1>1, <1>a DEF ReadBeat
  <2>2. srv' \subseteq Served BY <1>1, <1>s, Types DEF ReadBeat
  <2>3. /\ agent' \in [Executor -> AgentRec] /\ task' \in [Worker -> TaskPc]
        /\ active' \subseteq Worker /\ timer' \subseteq Worker
    BY <1>0, <1>1, FailedFact, Types DEF ReadBeat
  <2>4. QED BY <1>1, <2>1, <2>2, <2>3 DEF ReadBeat, TypeOK, AgentRec, TaskPc, Served, Kind
<1>2. CASE StoreBlob(r)
  <2>1. net' \subseteq Request BY <1>2, <1>a DEF StoreBlob
  <2>2. srv' \subseteq Served BY <1>2, <1>s DEF StoreBlob
  <2>3. stored' \in [Worker -> {"none", "blob", "manifest"}] BY <1>2, Types DEF StoreBlob
  <2>4. QED BY <1>2, <2>1, <2>2, <2>3 DEF StoreBlob, TypeOK, Served, Kind
<1>3. CASE ReadResult(r)
  <2>1. net' \subseteq Request /\ r.kind = "result" BY <1>3, <1>a DEF ReadResult
  <2>2. srv' \subseteq Served BY <1>3, <1>s, <2>1, Types DEF ReadResult
  <2>3. lent' \in [Worker -> Lent] BY <1>3, Types DEF ReadResult, Lent
  <2>4. workers' \in [Worker -> WorkerRec]
    <3>1. workers' = workers \/ workers' = SetStatus(r.w, "finishing") BY <1>3 DEF ReadResult
    <3>2. QED BY <1>0, <3>1, StatusFact, Types DEF WorkerStatus
  <2>5. task' \in [Worker -> TaskPc] /\ active' \subseteq Worker
    <3>1. Answered(r.w, "result") \/ UNCHANGED <<task, active>> BY <1>3 DEF ReadResult
    <3>2. QED BY <1>0, <2>1, <3>1, AnswerFact, Types
  <2>6. UNCHANGED <<jobs, queue, results, claim, proc, faults, stored, agent, timer>>
    BY <1>3 DEF ReadResult
  <2>7. QED BY <2>1, <2>2, <2>3, <2>4, <2>5, <2>6
        DEF TypeOK, WorkerRec, Lent, TaskPc, Served, Kind
<1>4. CASE LoseRequest(r)
  <2>1. net' \subseteq Request BY <1>4, <1>a DEF LoseRequest
  <2>2. faults' \in 0..MaxFaults BY <1>4, FaultFact DEF LoseRequest
  <2>3. /\ agent' \in [Executor -> AgentRec] /\ task' \in [Worker -> TaskPc]
        /\ active' \subseteq Worker /\ timer' \subseteq Worker
    BY <1>0, <1>4, FailedFact DEF LoseRequest
  <2>4. QED BY <1>4, <2>1, <2>2, <2>3 DEF LoseRequest, TypeOK, AgentRec, TaskPc
<1>5. QED BY <1>1, <1>2, <1>3, <1>4

\* The second half of a handler, or losing its answer, keeps the types.
LEMMA TypeServed ==
  ASSUME TypeOK, NEW r \in srv,
         \/ WriteBeat(r) \/ StoreManifest(r) \/ AcceptResult(r) \/ AggregateResult(r)
         \/ LoseAnswer(r)
  PROVE  TypeOK'
<1> USE DEF records, running, calls
<1>0. r.w \in Worker /\ r.kind \in Kind BY RequestFact
<1>a. srv \ {r} \subseteq Served BY Types
<1>1. CASE WriteBeat(r)
  <2>1. srv' \subseteq Served BY <1>1, <1>a DEF WriteBeat
  <2>2. TargetOf(r.kind) \in WorkerStatus BY DEF TargetOf, WorkerStatus
  <2>3. workers' \in [Worker -> WorkerRec] BY <1>0, <1>1, <2>2, StatusFact DEF WriteBeat
  <2>4. lent' \in [Worker -> Lent] BY <1>0, <1>1, StatusFact DEF WriteBeat
  <2>5. jobs' \in [Job -> JobStatus]
    <3>1. jobs' = jobs \/ jobs' = Advance(workers[r.w].job, "running") BY <1>1 DEF WriteBeat
    <3>2. QED BY <3>1, StatusFact, Types DEF JobStatus
  <2>6. Failed(r.w, r.kind) \/ (Answered(r.w, r.kind) /\ UNCHANGED <<agent, timer>>)
    BY <1>1 DEF WriteBeat
  <2>7. /\ agent' \in [Executor -> AgentRec] /\ task' \in [Worker -> TaskPc]
        /\ active' \subseteq Worker /\ timer' \subseteq Worker
    BY <1>0, <2>6, FailedFact, AnswerFact, Types
  <2>8. UNCHANGED <<queue, results, claim, proc, net, faults, stored>> BY <1>1 DEF WriteBeat
  <2>9. QED BY <2>1, <2>3, <2>4, <2>5, <2>7, <2>8
        DEF TypeOK, WorkerRec, Lent, AgentRec, TaskPc, Served, Kind
<1>2. CASE StoreManifest(r)
  <2>1. srv' \subseteq Served BY <1>2, <1>a DEF StoreManifest
  <2>2. stored' \in [Worker -> {"none", "blob", "manifest"}] BY <1>2, Types DEF StoreManifest
  <2>3. task' \in [Worker -> TaskPc] /\ active' \subseteq Worker
    BY <1>0, <1>2, AnswerFact DEF StoreManifest
  <2>4. QED BY <1>2, <2>1, <2>2, <2>3 DEF StoreManifest, TypeOK, TaskPc, Served, Kind
<1>3. CASE AcceptResult(r)
  <2>1. srv' \subseteq Served
    <3>1. [kind |-> "result", w |-> r.w, pc |-> "aggregate"] \in Served
      BY <1>0, RequestFact DEF Kind, Awaited
    <3>2. QED BY <1>3, <1>a, <3>1 DEF AcceptResult
  <2>2. results' \in [Worker -> {"none", "completed", "failed"}]
    BY <1>0, <1>3, StatusFact, Types DEF AcceptResult
  <2>3. workers' \in [Worker -> WorkerRec]
    <3>1. workers' = SetStatus(r.w, "finished") \/ workers' = SetStatus(r.w, "failed")
      BY <1>3 DEF AcceptResult
    <3>2. QED BY <1>0, <3>1, StatusFact DEF WorkerStatus
  <2>4. QED BY <1>3, <2>1, <2>2, <2>3 DEF AcceptResult, TypeOK, WorkerRec, Served, Kind
<1>4. CASE AggregateResult(r)
  <2>1. srv' \subseteq Served BY <1>4, <1>a DEF AggregateResult
  <2>2. jobs' \in [Job -> JobStatus]
    <3>1. jobs' = jobs \/ jobs' = [jobs EXCEPT ![workers[r.w].job] = Verdict(workers[r.w].job)]
      BY <1>4 DEF AggregateResult
    <3>2. Verdict(workers[r.w].job) \in JobStatus BY StatusFact DEF JobStatus
    <3>3. QED BY <3>1, <3>2, Types
  <2>3. task' \in [Worker -> TaskPc] /\ active' \subseteq Worker
    BY <1>0, <1>4, AnswerFact DEF AggregateResult, Kind, Awaited
  <2>4. QED BY <1>4, <2>1, <2>2, <2>3 DEF AggregateResult, TypeOK, TaskPc, Served, Kind
<1>5. CASE LoseAnswer(r)
  <2>1. /\ agent' \in [Executor -> AgentRec] /\ task' \in [Worker -> TaskPc]
        /\ active' \subseteq Worker /\ timer' \subseteq Worker
    BY <1>5, GoneFact DEF LoseAnswer, Rejected
  <2>2. faults' \in 0..MaxFaults BY <1>5, FaultFact DEF LoseAnswer
  <2>3. QED BY <1>5, <2>1, <2>2 DEF LoseAnswer, TypeOK, AgentRec, TaskPc
<1>6. QED BY <1>1, <1>2, <1>3, <1>4, <1>5

\* The reconciler's steps keep the types.
LEMMA TypeReconciling ==
  ASSUME TypeOK, Reconciling,
         \A w \in Worker : workers[w].status # "absent" => workers[w].job \in Job
  PROVE  TypeOK'
<1> USE DEF records, running, calls
<1>1. ASSUME NEW w \in Worker, Lapse(w) PROVE TypeOK'
  <2>1. lent' \in [Worker -> Lent] BY <1>1, Types DEF Lapse, Lent
  <2>2. QED BY <1>1, <2>1 DEF Lapse, TypeOK, Lent
<1>2. ASSUME NEW w \in Worker, RepairLost(w) PROVE TypeOK'
  <2>1. workers' \in [Worker -> WorkerRec] BY <1>2, StatusFact DEF RepairLost, WorkerStatus
  <2>2. workers[w].job \in Job BY <1>2 DEF RepairLost, Lost
  <2>3. queue' \subseteq Job BY <1>2, <2>2, Types DEF RepairLost
  <2>4. QED BY <1>2, <2>1, <2>3 DEF RepairLost, TypeOK, WorkerRec
<1>3. ASSUME NEW j \in Job, FinalizeJob(j) PROVE TypeOK'
  <2>1. Verdict(j) \in JobStatus BY StatusFact DEF JobStatus
  <2>2. jobs' \in [Job -> JobStatus] BY <1>3, <2>1, Types DEF FinalizeJob
  <2>3. QED BY <1>3, <2>2 DEF FinalizeJob, TypeOK
<1>4. QED BY <1>1, <1>2, <1>3 DEF Reconciling

-----------------------------------------------------------------------------
(* The inductive invariant *)

Early == {"none", "claimed", "start"}
Late  == {"finishing", "publish", "publishing", "report", "result", "done"}
Holding == {"assign", "refuse", "reply"}

\* The process has ended, and what its result names is in the store.
Ended(w) == /\ proc[w].state = "exited" /\ proc[w].code # "none"
            /\ ~SharedFiles => stored[w] = "manifest"

\* How far a claim is at its agent, against what its process has done.
Stage(w) ==
  /\ task[w] \in Early => proc[w].state = "none"
  /\ task[w] \in Late => proc[w].state = "exited"
  /\ proc[w].state = "exited" => proc[w].code # "none"
  /\ task[w] \in {"report", "result", "done"} /\ ~SharedFiles => stored[w] = "manifest"
  /\ w \in timer => task[w] \in {"active", "running"}
  /\ task[w] \notin {"result", "done", "dead"} => results[w] = "none"
  /\ results[w] # "none" => Ended(w)
  /\ workers[w].status = "finished" => results[w] # "none"

\* The requests of a claim: one that its task awaits, or that an agent which is
\* gone awaited, and those of its interval.
Requests(w) ==
  /\ \A r \in net \cup srv : r.w = w =>
       /\ r.kind # "timer" => task[w] \in {r.kind, "dead"}
       /\ r.kind = "timer" => task[w] \notin Early
       /\ r.kind = "result" => Ended(w)
       /\ r.kind \notin {"result", "timer"} => results[w] = "none"
  /\ \A r \in srv : r.w = w =>
       /\ r.pc = "manifest" => r.kind = "publishing"
       /\ r.pc \in {"collect", "aggregate"} => r.kind = "result"
       /\ r.pc = "write" => r.kind \notin {"publishing", "result"}
  /\ \A q, r \in net : q.w = w /\ r.w = w /\ q.kind # "timer" /\ r.kind # "timer" => q = r
  /\ \A q, r \in srv : q.w = w /\ r.w = w /\ q.kind # "timer" /\ r.kind # "timer" => q = r
  /\ \A q \in net, r \in srv : q.w = w /\ r.w = w => q.kind = "timer" \/ r.kind = "timer"

\* A worker that a claim being served has created, nobody else knows of.
ClaimHeld(e) ==
  /\ claim[e].pc \in Holding \cup {"create"} => claim[e].job \in Job
  /\ claim[e].pc \in Holding =>
       /\ claim[e].worker \in Worker
       /\ \A f \in Executor : f # e => claim[f].worker # claim[e].worker
       /\ task[claim[e].worker] = "none"
       /\ workers[claim[e].worker].status
            = IF claim[e].pc = "assign" THEN "created" ELSE "starting"
  /\ claim[e].pc \notin Holding => claim[e].worker = NoWorker

\* No task without a record, no record without a job.
Recorded == \A w \in Worker : /\ workers[w].status = "absent" => task[w] = "none"
                              /\ workers[w].status # "absent" => workers[w].job \in Job

ClaimsHold == (\A e \in Executor : ClaimHeld(e)) /\ Recorded

PlaneInv == TypeOK /\ ClaimsHold /\ \A w \in Worker : Stage(w) /\ Requests(w)

\* Nothing is claimed, sent or recorded at first.
LEMMA PlaneInit == Init => PlaneInv
<1> SUFFICES ASSUME Init PROVE PlaneInv OBVIOUS
<1>1. TypeOK BY TypeInit
<1>2. /\ claim = [e \in Executor |-> NoClaim] /\ task = [w \in Worker |-> "none"]
      /\ workers = [w \in Worker |-> [status |-> "absent", job |-> NoJob, host |-> NoHost]]
      /\ results = [w \in Worker |-> "none"] /\ timer = {} /\ net = {} /\ srv = {}
      /\ proc = [w \in Worker |-> [state |-> "none", code |-> "none", file |-> "none"]]
  BY DEF Init
<1>3. ClaimsHold BY <1>2 DEF ClaimsHold, ClaimHeld, Recorded, NoClaim, Holding
<1>4. ASSUME NEW w \in Worker PROVE Stage(w) /\ Requests(w)
  BY <1>2 DEF Stage, Requests, Early, Late
<1>5. QED BY <1>1, <1>3, <1>4 DEF PlaneInv

\* Once a result is being accepted no heartbeat of the interval is left, and
\* nothing writes the record of a worker that has ended.
Over(w) ==
  /\ \A r \in srv : r.w = w /\ r.kind = "result"
       => \A q \in net \cup srv : q.w = w => q.kind # "timer"
  /\ workers[w].status \in TerminalWorker =>
       /\ \A r \in net : r.w # w
       /\ \A r \in srv : r.w = w => r.pc = "aggregate"
       /\ task[w] \in {"none", "result", "done", "dead"}

\* Somebody works on a worker's job, or is about to.
Alive(w) == \/ \E e \in Executor : claim[e].worker = w /\ claim[e].pc \in {"assign", "reply"}
            \/ task[w] \in {"claimed", "start"}
            \/ task[w] \in {"active", "running"} /\ proc[w].state = "running"

\* What a step does to these two.
Rests(w) == Over(w) => /\ InOrder => Over(w)'
                       /\ workers[w].status \in TerminalWorker
                            => workers'[w].status = workers[w].status
Lives(w) == Alive(w)' => /\ Alive(w)
                         /\ workers[w].status \in Schedulable
                              => workers'[w].status \in Schedulable

\* A step that sends nothing for a worker, and does no more to it than to end
\* its agent.
Calm(w) ==
  /\ \A r \in net' : r.w = w => r \in net
  /\ \A r \in srv' : r.w = w => r \in srv
  /\ proc'[w] = proc[w] /\ stored'[w] = stored[w] /\ results'[w] = results[w]
  /\ \/ task'[w] = task[w] /\ (w \in timer' => w \in timer)
     \/ task'[w] = "dead" /\ task[w] \notin {"none", "done"} /\ w \notin timer'
  /\ workers'[w].status = "finished" => workers[w].status = "finished"

\* Such a step keeps how far a claim is and what its requests say.
LEMMA CalmKeeps ==
  ASSUME NEW w \in Worker, Stage(w), Requests(w), Calm(w)
  PROVE  Stage(w)' /\ Requests(w)'
<1>1. Ended(w)' <=> Ended(w) BY DEF Ended, Calm
<1>2. Stage(w)' BY <1>1 DEF Stage, Calm, Early, Late
<1>3. \A r \in net' \cup srv' : r.w = w => r \in net \cup srv BY DEF Calm
<1>4. ASSUME NEW r \in net' \cup srv', r.w = w
      PROVE  /\ r.kind # "timer" => task'[w] \in {r.kind, "dead"}
             /\ r.kind = "timer" => task'[w] \notin Early
             /\ r.kind = "result" => Ended(w)'
             /\ r.kind \notin {"result", "timer"} => results'[w] = "none"
  <2>1. r \in net \cup srv BY <1>3, <1>4
  <2>2. /\ r.kind # "timer" => task[w] \in {r.kind, "dead"}
        /\ r.kind = "timer" => task[w] \notin Early
        /\ r.kind = "result" => Ended(w)
        /\ r.kind \notin {"result", "timer"} => results[w] = "none"
    BY <1>4, <2>1 DEF Requests
  <2>3. QED BY <1>1, <2>2 DEF Calm, Early
<1>5. /\ \A r \in net' : r.w = w => r \in net
      /\ \A r \in srv' : r.w = w => r \in srv
  BY DEF Calm
<1>6. QED BY <1>2, <1>4, <1>5 DEF Requests

\* Such a step brings no worker back to work, nor back from its end.
LEMMA CalmRests ==
  ASSUME NEW w \in Worker, Calm(w),
         \/ workers'[w].status = workers[w].status
         \/ workers[w].status \notin TerminalWorker /\ workers'[w].status \notin TerminalWorker
  PROVE  Rests(w)
<1> SUFFICES ASSUME Over(w)
             PROVE  /\ Over(w)'
                    /\ workers[w].status \in TerminalWorker => workers'[w].status = workers[w].status
  BY DEF Rests
<1>1. \A q \in net' \cup srv' : q.w = w => q \in net \cup srv BY DEF Calm
<1>2. \A r \in srv' : r.w = w => r \in srv BY DEF Calm
<1>3. \A r \in srv' : r.w = w /\ r.kind = "result"
        => \A q \in net' \cup srv' : q.w = w => q.kind # "timer"
  BY <1>1, <1>2 DEF Over
<1>4. workers'[w].status \in TerminalWorker =>
        /\ \A r \in net' : r.w # w
        /\ \A r \in srv' : r.w = w => r.pc = "aggregate"
        /\ task'[w] \in {"none", "result", "done", "dead"}
  BY DEF Over, Calm
<1>5. QED BY <1>3, <1>4 DEF Over

\* Nor does it bring a worker to life.
LEMMA CalmLives ==
  ASSUME NEW w \in Worker, Calm(w), claim' = claim, workers'[w].status = workers[w].status
  PROVE  Lives(w)
BY DEF Lives, Alive, Calm

\* A task that is under way has no result on its way.
LEMMA BusyRests ==
  ASSUME NEW w \in Worker, Requests(w), srv' = srv, workers' = workers,
         task[w] \notin {"none", "result", "done", "dead"}
  PROVE  Rests(w)
<1>1. \A r \in srv : r.w = w => r.kind # "result" BY DEF Requests
<1>2. QED BY <1>1 DEF Rests, Over

\* The end of an agent's process is calm for every worker.
LEMMA GoneCalm ==
  ASSUME TypeOK, NEW e, Gone(e), net' \subseteq net, srv' \subseteq srv,
         UNCHANGED <<proc, stored, results>>,
         \A w \in Worker : workers'[w].status = "finished" => workers[w].status = "finished"
  PROVE  \A w \in Worker : Calm(w)
BY Types DEF Gone, Calm

\* So is an error, whoever hears it.
LEMMA FailedCalm ==
  ASSUME TypeOK, NEW w \in Worker, NEW k \in Kind, Failed(w, k), net' \subseteq net,
         srv' \subseteq srv, UNCHANGED <<proc, stored, results>>,
         \A x \in Worker : workers'[x].status = "finished" => workers[x].status = "finished"
  PROVE  \A x \in Worker : Calm(x)
<1>1. CASE Gone(workers[w].host) BY <1>1, GoneCalm
<1>2. CASE UNCHANGED <<agent, task, active, timer>> BY <1>2 DEF Calm
<1>3. QED BY <1>1, <1>2, FailedFact

\* A task sends a request that it awaits, and awaits nothing else.
LEMMA AskFact ==
  ASSUME TypeOK, NEW w \in Worker, NEW k \in Awaited, Requests(w),
         task[w] \notin Kind \cup {"dead"}, net' = net \cup {[kind |-> k, w |-> w]},
         srv' = srv, task'[w] = k, results'[w] = results[w], results[w] = "none",
         k = "result" => Ended(w)', k = "claimed" => task[w] \in Early
  PROVE  Requests(w)'
<1> DEFINE n == [kind |-> k, w |-> w]
<1>1. n.kind = k /\ n.w = w /\ k # "timer" BY DEF Awaited
<1>2. \A r \in net \cup srv : r.kind \in Kind BY RequestFact
<1>3. \A r \in net \cup srv : r.w = w => r.kind = "timer" /\ task[w] \notin Early
  BY <1>2 DEF Requests
<1>4. k \notin Early \/ (k = "claimed" /\ \A r \in net \cup srv : r.w # w)
  BY <1>3 DEF Awaited, Early
<1>5. \A r \in net' \cup srv' : r.w = w => r = n \/ (r.kind = "timer" /\ r \in net \cup srv)
  BY <1>3
<1>6. \A r \in srv' : r \in srv /\ (r.w = w => r.kind = "timer") BY <1>3
<1>7. ASSUME NEW r \in net' \cup srv', r.w = w
      PROVE  /\ r.kind # "timer" => task'[w] \in {r.kind, "dead"}
             /\ r.kind = "timer" => task'[w] \notin Early
             /\ r.kind = "result" => Ended(w)'
             /\ r.kind \notin {"result", "timer"} => results'[w] = "none"
  <2>1. CASE r = n BY <1>1, <2>1
  <2>2. CASE r.kind = "timer" /\ r \in net \cup srv BY <1>4, <1>7, <2>2
  <2>3. QED BY <1>5, <1>7, <2>1, <2>2
<1> HIDE DEF n
<1>8. \A q, r \in net' : q.w = w /\ r.w = w /\ q.kind # "timer" /\ r.kind # "timer" => q = r
  BY <1>5
<1>9. \A r \in srv' : r.w = w =>
       /\ r.pc = "manifest" => r.kind = "publishing"
       /\ r.pc \in {"collect", "aggregate"} => r.kind = "result"
       /\ r.pc = "write" => r.kind \notin {"publishing", "result"}
  BY <1>6 DEF Requests
<1>10. QED BY <1>6, <1>7, <1>8, <1>9 DEF Requests

\* The process of a claim ends, by itself or killed.
LEMMA ProcessEnds ==
  ASSUME NEW w \in Worker, Stage(w), Requests(w), UNCHANGED <<net, srv, task, stored, results>>,
         timer' \subseteq timer, workers' = workers,
         proc[w].state = "running", proc'[w].state = "exited", proc'[w].code # "none"
  PROVE  Stage(w)' /\ Requests(w)'
<1>1. /\ task[w] \notin Early /\ results[w] = "none"
      /\ \A r \in net \cup srv : r.w = w => r.kind # "result"
  BY DEF Stage, Requests, Ended
<1>2. Stage(w)' BY <1>1 DEF Stage
<1>3. Requests(w)' BY <1>1 DEF Requests
<1>4. QED BY <1>2, <1>3

\* What a step outside the claims leaves of the records and tasks that a claim
\* being served relies on.
Aside(w) ==
  /\ task[w] = "none" => task'[w] = "none"
  /\ workers'[w].job = workers[w].job
  /\ \/ workers'[w].status = workers[w].status
     \/ /\ workers[w].status # "absent" /\ workers'[w].status # "absent"
        /\ task[w] # "none" \/ \A e \in Executor : claim[e].worker # w

\* A step outside the claims keeps what they hold.
LEMMA ClaimsKept ==
  ASSUME ClaimsHold, claim' = claim, \A w \in Worker : Aside(w)
  PROVE  ClaimsHold'
<1>1. ASSUME NEW e \in Executor PROVE ClaimHeld(e)'
  <2>1. ClaimHeld(e) BY DEF ClaimsHold
  <2>2. ASSUME claim[e].pc \in Holding
        PROVE  /\ task'[claim[e].worker] = "none"
               /\ workers'[claim[e].worker].status = workers[claim[e].worker].status
    BY <2>1, <2>2 DEF ClaimHeld, Aside
  <2>3. QED BY <2>1, <2>2 DEF ClaimHeld
<1>2. Recorded' BY DEF ClaimsHold, Recorded, Aside
<1>3. QED BY <1>1, <1>2 DEF ClaimsHold

\* A task goes on with what an answer tells it: the request is no longer there.
LEMMA AnswerKeeps ==
  ASSUME TypeOK, NEW w \in Worker, NEW k \in Kind, Stage(w), Requests(w), Answered(w, k),
         \A r \in net' : r.w = w => r \in net, \A r \in srv' : r.w = w => r \in srv,
         UNCHANGED <<proc, results>>, timer' = timer, \E r \in net \cup srv : r.w = w /\ r.kind = k,
         workers'[w].status = "finished" => workers[w].status = "finished",
         k # "timer" => \A r \in net' \cup srv' : r.w = w => r.kind = "timer",
         k # "publishing" => stored'[w] = stored[w],
         k = "publishing" => stored'[w] = "manifest"
  PROVE  Stage(w)' /\ Requests(w)'
<1>1. CASE k = "timer" \/ task[w] # k
  <2>1. task'[w] = task[w] BY <1>1, AnswerFact
  <2>2. CASE k # "publishing"
    <3>1. Calm(w) BY <2>1, <2>2 DEF Calm
    <3>2. QED BY <3>1, CalmKeeps
  <2>3. CASE k = "publishing"
    <3>1. Ended(w) => Ended(w)' BY <2>3 DEF Ended
    <3>2. Stage(w)' BY <2>1, <2>3, <3>1 DEF Stage
    <3>3. \A r \in net' \cup srv' : r.w = w => r.kind = "timer" /\ r \in net \cup srv BY <2>3
    <3>4. Requests(w)' BY <2>1, <3>3 DEF Requests
    <3>5. QED BY <3>2, <3>4
  <2>4. QED BY <2>2, <2>3
<1>2. CASE k # "timer" /\ task[w] = k
  <2>1. \/ k = "claimed" /\ task'[w] = "start"
        \/ k = "active" /\ task'[w] = "running"
        \/ k = "finishing" /\ task'[w] = "publish"
        \/ k = "publishing" /\ task'[w] = "report"
        \/ k = "result" /\ task'[w] = "done"
    BY <1>2, AnswerFact
  <2>2. k = "result" => Ended(w) BY <1>2 DEF Requests
  <2>3. \A r \in net \cup srv : r.w = w /\ r.kind = "timer" => task[w] \notin Early
    BY DEF Requests
  <2>4. \A r \in net' \cup srv' : r.w = w => r.kind = "timer" /\ r \in net \cup srv BY <1>2
  <2>5. Requests(w)'
    <3>1. task'[w] \in Early => k = "claimed" BY <2>1 DEF Early
    <3>2. k = "claimed" => task[w] \in Early BY <1>2 DEF Early
    <3>3. \A r \in srv' : r.w = w => r \in srv OBVIOUS
    <3>4. QED BY <2>3, <2>4, <3>1, <3>2, <3>3 DEF Requests
  <2>6. w \in timer => k = "active" BY <1>2, <2>1 DEF Stage
  <2>7. k \in {"finishing", "publishing", "result"} => proc[w].state = "exited"
    BY <1>2 DEF Stage, Late
  <2>8. k = "claimed" => proc[w].state = "none" BY <1>2 DEF Stage, Early
  <2>9. k # "result" => results[w] = "none" BY <1>2, <2>1 DEF Stage
  <2>10. /\ proc[w].state = "exited" => proc[w].code # "none"
         /\ k = "result" /\ ~SharedFiles => stored'[w] = "manifest"
         /\ results[w] # "none" => Ended(w)'
         /\ workers[w].status = "finished" => results[w] # "none"
    BY <2>1, <2>2, <2>9 DEF Stage, Ended
  <2>a. /\ task'[w] \in Early => proc[w].state = "none"
        /\ task'[w] \in Late => proc[w].state = "exited"
    BY <2>1, <2>7, <2>8 DEF Early, Late
  <2>b. /\ task'[w] \in {"report", "result", "done"} /\ ~SharedFiles => stored'[w] = "manifest"
        /\ w \in timer => task'[w] \in {"active", "running"}
        /\ task'[w] \notin {"result", "done", "dead"} => results[w] = "none"
    <3>1. k = "publishing" /\ ~SharedFiles => stored'[w] = "manifest" OBVIOUS
    <3>2. QED BY <2>1, <2>6, <2>9, <2>10, <3>1
  <2>11. Stage(w)' BY <2>10, <2>a, <2>b DEF Stage
  <2>12. QED BY <2>5, <2>11
<1>3. QED BY <1>1, <1>2

\* What a step outside the claims has to show.
Sound == claim' = claim /\ \A w \in Worker : /\ Stage(w)' /\ Requests(w)' /\ Aside(w)
                                              /\ Rests(w) /\ Lives(w)

\* A step that shows that much keeps the invariant.
LEMMA SoundKeeps ==
  ASSUME PlaneInv, TypeOK', Sound
  PROVE  PlaneInv'
BY ClaimsKept DEF Sound, PlaneInv

\* A calm step that writes no worker record shows it.
LEMMA CalmSound ==
  ASSUME PlaneInv, claim' = claim, workers' = workers, \A w \in Worker : Calm(w)
  PROVE  Sound
<1>1. \A w \in Worker : Aside(w) BY DEF Calm, Aside
<1>2. \A w \in Worker : Rests(w) /\ Lives(w) BY CalmRests, CalmLives
<1>3. QED BY <1>1, <1>2, CalmKeeps DEF Sound, PlaneInv

\* The steps of a daemon and of its agent's start and stop.
LEMMA SoundDaemon ==
  ASSUME PlaneInv, NEW e \in Executor, Daemon(e)
  PROVE  Sound
<1> USE DEF records, running, calls
<1>0. TypeOK BY DEF PlaneInv
<1>1. CASE Crash(e) BY <1>0, <1>1, GoneCalm, CalmSound DEF Crash
<1>2. CASE StopDraining(e)
  <2>1. /\ UNCHANGED <<claim, workers, net, srv, task, stored, results>> /\ timer' \subseteq timer
        /\ \A w \in Worker :
             \/ proc'[w] = proc[w]
             \/ /\ proc[w].state = "running"
                /\ proc'[w] = [state |-> "exited", code |-> "failed", file |-> "none"]
    BY <1>2 DEF StopDraining
  <2>2. ASSUME NEW w \in Worker PROVE Stage(w)' /\ Requests(w)' /\ Aside(w) /\ Rests(w) /\ Lives(w)
    <3>0. Rests(w) BY <2>1 DEF Rests, Over
    <3>a. Lives(w) BY <2>1 DEF Lives, Alive
    <3>1. Aside(w) /\ Rests(w) /\ Lives(w) BY <2>1, <3>0, <3>a DEF Aside
    <3>2. CASE proc'[w] = proc[w]
      <4>1. Calm(w) BY <2>1, <3>2 DEF Calm
      <4>2. QED BY <3>1, <4>1, CalmKeeps DEF PlaneInv
    <3>3. CASE /\ proc[w].state = "running"
               /\ proc'[w] = [state |-> "exited", code |-> "failed", file |-> "none"]
      <4>1. proc'[w].state = "exited" /\ proc'[w].code # "none" BY <3>3
      <4>2. QED BY <2>1, <3>1, <3>3, <4>1, ProcessEnds DEF PlaneInv
    <3>4. QED BY <2>1, <3>2, <3>3
  <2>3. QED BY <2>1, <2>2 DEF Sound
<1>3. CASE DaemonStart(e) \/ DaemonReady(e) \/ DaemonRejected(e) \/ Drain(e)
           \/ DrainTimeout(e) \/ AgentStop(e)
  <2>1. UNCHANGED <<claim, workers, net, srv, task, proc, stored, results, timer>>
    BY <1>3 DEF DaemonStart, DaemonReady, DaemonRejected, Drain, DrainTimeout, AgentStop
  <2>2. \A w \in Worker : Calm(w) BY <2>1 DEF Calm
  <2>3. QED BY <2>1, <2>2, CalmSound
<1>4. QED BY <1>1, <1>2, <1>3 DEF Daemon

\* The steps of a claim at its agent.
LEMMA SoundExecuting ==
  ASSUME PlaneInv, NEW w \in Worker,
         Executing(w) \/ StartFails(w) \/ TimerBeat(w) \/ ProcessExit(w)
  PROVE  Sound
<1> USE DEF records, running, calls
<1>0. TypeOK /\ Stage(w) /\ Requests(w) BY DEF PlaneInv
<1>t. task \in [Worker -> TaskPc] /\ proc \in [Worker -> ProcRec] BY <1>0, Types
<1>1. CASE StartFails(w) \/ PublishFails(w)
  <2>1. Gone(workers[w].host) /\ UNCHANGED <<claim, workers, proc, net, srv, stored, results>>
    BY <1>1 DEF StartFails, PublishFails, Rejected
  <2>2. QED BY <1>0, <2>1, GoneCalm, CalmSound
\* The others leave all other workers alone.
<1>a. ASSUME claim' = claim, workers' = workers, task[w] # "none" \/ task'[w] = task[w],
             Stage(w)', Requests(w)', \A x \in Worker : x # w => Calm(x), Rests(w), Lives(w)
      PROVE  Sound
  <2>1. Aside(w) BY <1>a DEF Aside
  <2>2. \A x \in Worker : x # w => /\ Stage(x)' /\ Requests(x)' /\ Aside(x)
                                  /\ Rests(x) /\ Lives(x)
    BY <1>a, CalmKeeps, CalmRests, CalmLives DEF PlaneInv, Aside, Calm
  <2>3. QED BY <1>a, <2>1, <2>2 DEF Sound
<1>2. CASE StartProcess(w)
  <2>1. /\ task[w] = "start" /\ task' = [task EXCEPT ![w] = "active"]
        /\ proc' = [proc EXCEPT ![w].state = "running"] /\ timer' = timer \cup {w}
        /\ net' = net \cup {[kind |-> "active", w |-> w]}
        /\ UNCHANGED <<claim, workers, srv, stored, results>>
    BY <1>2 DEF StartProcess
  <2>2. task'[w] = "active" /\ proc'[w].state = "running" /\ results[w] = "none"
    BY <1>0, <1>t, <2>1 DEF Stage, ProcRec
  <2>3. "start" \notin Kind \cup {"dead"} /\ "active" \in Awaited BY DEF Kind, Awaited
  <2>4. Requests(w)' BY <1>0, <2>1, <2>2, <2>3, AskFact
  <2>5. Stage(w)' BY <1>0, <2>1, <2>2 DEF Stage, Early, Late
  <2>6. \A x \in Worker : x # w => Calm(x) BY <1>t, <2>1 DEF Calm
  <2>7. Rests(w) BY <1>0, <2>1, BusyRests
  <2>8. Lives(w) BY <2>1 DEF Lives, Alive
  <2>9. QED BY <1>a, <2>1, <2>4, <2>5, <2>6, <2>7, <2>8
<1>3. CASE TimerBeat(w)
  <2>1. /\ w \in timer /\ net' = net \cup {[kind |-> "timer", w |-> w]}
        /\ UNCHANGED <<claim, workers, task, proc, timer, srv, stored, results>>
    BY <1>3 DEF TimerBeat
  <2>2. PICK n : n = [kind |-> "timer", w |-> w] OBVIOUS
  <2>3. net' = net \cup {n} /\ n.kind = "timer" /\ n.w = w BY <2>1, <2>2
  <2>4. task[w] \notin Early BY <1>0, <2>1 DEF Stage, Early
  <2>5. Requests(w)'
    <3>1. Ended(w)' <=> Ended(w) BY <2>1 DEF Ended
    <3>2. QED BY <1>0, <2>1, <2>3, <2>4, <3>1 DEF Requests
  <2>6. Stage(w)' BY <1>0, <2>1 DEF Stage, Ended
  <2>7. \A x \in Worker : x # w => Calm(x) BY <2>1, <2>3 DEF Calm
  <2>8. Rests(w)
    <3>1. task[w] \in {"active", "running"} BY <1>0, <2>1 DEF Stage
    <3>2. QED BY <1>0, <2>1, <3>1, BusyRests
  <2>9. Lives(w) BY <2>1 DEF Lives, Alive
  <2>10. QED BY <1>a, <2>1, <2>5, <2>6, <2>7, <2>8, <2>9
<1>4. CASE ProcessExit(w)
  <2>1. PICK o \in Outcomes : proc' = [proc EXCEPT ![w] = [state |-> "exited", code |-> o[1],
                                                             file |-> o[2]]]
    BY <1>4 DEF ProcessExit
  <2>2. o[1] \in {"completed", "failed"} BY RemoteAssumption DEF RemoteAssumption
  <2>3. proc'[w].state = "exited" /\ proc'[w].code # "none" BY <1>t, <2>1, <2>2
  <2>4. /\ proc[w].state = "running"
        /\ UNCHANGED <<claim, workers, net, srv, task, timer, stored, results>>
    BY <1>4 DEF ProcessExit
  <2>5. Stage(w)' /\ Requests(w)' BY <1>0, <2>3, <2>4, ProcessEnds
  <2>6. \A x \in Worker : x # w => Calm(x) BY <1>t, <2>1, <2>4 DEF Calm
  <2>7. Rests(w) BY <2>4 DEF Rests, Over
  <2>8. Lives(w) BY <2>3, <2>4 DEF Lives, Alive
  <2>9. QED BY <1>a, <2>4, <2>5, <2>6, <2>7, <2>8
<1>5. CASE ExitSeen(w)
  <2>1. /\ task[w] = "running" /\ proc[w].state = "exited"
        /\ task' = [task EXCEPT ![w] = "finishing"] /\ timer' = timer \ {w}
        /\ net' = net \cup {[kind |-> "finishing", w |-> w]}
        /\ UNCHANGED <<claim, workers, proc, srv, stored, results>>
    BY <1>5 DEF ExitSeen
  <2>2. task'[w] = "finishing" /\ results[w] = "none" BY <1>0, <1>t, <2>1 DEF Stage
  <2>3. "running" \notin Kind \cup {"dead"} /\ "finishing" \in Awaited BY DEF Kind, Awaited
  <2>4. Requests(w)' BY <1>0, <2>1, <2>2, <2>3, AskFact
  <2>5. Stage(w)' BY <1>0, <2>1, <2>2 DEF Stage, Early, Late
  <2>6. \A x \in Worker : x # w => Calm(x) BY <1>t, <2>1 DEF Calm
  <2>7. Rests(w) BY <1>0, <2>1, BusyRests
  <2>8. Lives(w) BY <2>1, <2>2 DEF Lives, Alive
  <2>9. QED BY <1>a, <2>1, <2>4, <2>5, <2>6, <2>7, <2>8
<1>6. CASE Publish(w)
  <2>1. /\ task[w] = "publish" /\ UNCHANGED <<claim, workers, proc, timer, srv, stored, results>>
        /\ \/ SharedFiles /\ task' = [task EXCEPT ![w] = "report"] /\ net' = net
           \/ /\ task' = [task EXCEPT ![w] = "publishing"]
              /\ net' = net \cup {[kind |-> "publishing", w |-> w]}
    BY <1>6 DEF Publish
  <2>2. results[w] = "none" /\ "publish" \notin Kind \cup {"dead"} /\ "publishing" \in Awaited
    BY <1>0, <2>1 DEF Stage, Kind, Awaited
  <2>3. \A x \in Worker : x # w => Calm(x) BY <1>t, <2>1 DEF Calm
  <2>7. Rests(w) BY <1>0, <2>1, BusyRests
  <2>8. Lives(w)
    <3>1. task'[w] \in {"report", "publishing"} BY <1>t, <2>1
    <3>2. QED BY <2>1, <3>1 DEF Lives, Alive
  <2>4. CASE SharedFiles /\ task' = [task EXCEPT ![w] = "report"] /\ net' = net
    <3>1. task'[w] = "report" BY <1>t, <2>4
    <3>2. \A r \in net \cup srv : r.w = w => r.kind = "timer"
      BY <1>0, <2>1, <2>2, RequestFact DEF Requests
    <3>3. Requests(w)' BY <1>0, <2>1, <2>4, <3>1, <3>2 DEF Requests, Early
    <3>4. Stage(w)' BY <1>0, <2>1, <2>2, <2>4, <3>1 DEF Stage, Early, Late
    <3>5. QED BY <1>a, <2>1, <2>3, <2>7, <2>8, <3>3, <3>4
  <2>5. CASE /\ task' = [task EXCEPT ![w] = "publishing"]
             /\ net' = net \cup {[kind |-> "publishing", w |-> w]}
    <3>1. task'[w] = "publishing" BY <1>t, <2>5
    <3>2. Requests(w)' BY <1>0, <2>1, <2>2, <2>5, <3>1, AskFact
    <3>3. Stage(w)' BY <1>0, <2>1, <2>2, <2>5, <3>1 DEF Stage, Early, Late
    <3>4. QED BY <1>a, <2>1, <2>3, <2>7, <2>8, <3>2, <3>3
  <2>6. QED BY <2>1, <2>4, <2>5
<1>7. CASE Report(w)
  <2>1. /\ task[w] = "report" /\ task' = [task EXCEPT ![w] = "result"]
        /\ net' = net \cup {[kind |-> "result", w |-> w]}
        /\ UNCHANGED <<claim, workers, proc, timer, srv, stored, results>>
    BY <1>7 DEF Report
  <2>2. task'[w] = "result" /\ results[w] = "none" BY <1>0, <1>t, <2>1 DEF Stage
  <2>3. Ended(w)' BY <1>0, <2>1 DEF Stage, Late, Ended
  <2>4. "report" \notin Kind \cup {"dead"} /\ "result" \in Awaited BY DEF Kind, Awaited
  <2>5. Requests(w)' BY <1>0, <2>1, <2>2, <2>3, <2>4, AskFact
  <2>6. Stage(w)' BY <1>0, <2>1, <2>2, <2>3 DEF Stage, Early, Late, Ended
  <2>7. \A x \in Worker : x # w => Calm(x) BY <1>t, <2>1 DEF Calm
  <2>8. Rests(w) BY <1>0, <2>1, BusyRests
  <2>9. Lives(w) BY <2>1, <2>2 DEF Lives, Alive
  <2>10. QED BY <1>a, <2>1, <2>5, <2>6, <2>7, <2>8, <2>9
<1>8. QED BY <1>1, <1>2, <1>3, <1>4, <1>5, <1>6, <1>7 DEF Executing

\* The requests of a worker other than the one whose request is handled.
LEMMA OthersCalm ==
  ASSUME PlaneInv, claim' = claim, NEW w \in Worker,
         \A x \in Worker : x # w => Calm(x) /\ workers'[x] = workers[x],
         Stage(w)', Requests(w)', Aside(w), Rests(w), Lives(w)
  PROVE  Sound
<1>1. ASSUME NEW x \in Worker
      PROVE  Stage(x)' /\ Requests(x)' /\ Aside(x) /\ Rests(x) /\ Lives(x)
  <2>1. CASE x = w BY <2>1
  <2>2. CASE x # w
    <3>1. Calm(x) /\ workers'[x] = workers[x] BY <2>2
    <3>2. Rests(x) /\ Lives(x) BY <3>1, CalmRests, CalmLives
    <3>3. QED BY <3>1, <3>2, CalmKeeps DEF PlaneInv, Aside, Calm
  <2>3. QED BY <2>1, <2>2
<1>2. QED BY <1>1 DEF Sound

\* A worker with a task is not in the hands of a claim.
LEMMA TaskFact ==
  ASSUME PlaneInv, NEW w \in Worker, task[w] # "none", claim' = claim
  PROVE  /\ Alive(w) <=> \/ task[w] \in {"claimed", "start"}
                         \/ task[w] \in {"active", "running"} /\ proc[w].state = "running"
         /\ Alive(w)' <=> \/ task'[w] \in {"claimed", "start"}
                          \/ task'[w] \in {"active", "running"} /\ proc'[w].state = "running"
<1>1. \A e \in Executor : claim[e].pc \in {"assign", "reply"} => claim[e].worker # w
  BY DEF PlaneInv, ClaimsHold, ClaimHeld, Holding
<1>2. QED BY <1>1 DEF Alive

\* A request that is read becomes one that is being handled.
LEMMA ReadFact ==
  ASSUME PlaneInv, NEW r \in net, NEW s, s.kind = r.kind, s.w = r.w,
         net' = net \ {r}, srv' = srv \cup {s},
         s.pc = "manifest" => s.kind = "publishing",
         s.pc \in {"collect", "aggregate"} => s.kind = "result",
         s.pc = "write" => s.kind \notin {"publishing", "result"},
         task'[r.w] = task[r.w], results'[r.w] = results[r.w], proc'[r.w] = proc[r.w],
         stored'[r.w] = stored[r.w] \/ r.kind = "publishing"
  PROVE  Requests(r.w)'
<1> DEFINE w == r.w
<1>1. w \in Worker /\ Requests(w) BY RequestFact DEF PlaneInv
<1>2. \A q \in net' \cup srv' : q.w = w => \/ q = s \/ q \in net \cup srv
  OBVIOUS
<1>3. r.kind # "timer" => \A q \in net' \cup srv' : q.w = w /\ q # s => q.kind = "timer"
  BY <1>1 DEF Requests
<1>4. \A q \in net \cup srv : q.w = w /\ q.kind = "result" => Ended(w)' \/ r.kind = "publishing"
  BY <1>1 DEF Requests, Ended
<1>5. ASSUME NEW q \in net' \cup srv', q.w = w
      PROVE  /\ q.kind # "timer" => task'[w] \in {q.kind, "dead"}
             /\ q.kind = "timer" => task'[w] \notin Early
             /\ q.kind = "result" => Ended(w)'
             /\ q.kind \notin {"result", "timer"} => results'[w] = "none"
  <2>1. PICK p \in net \cup srv : p.kind = q.kind /\ p.w = w BY <1>5
  <2>2. /\ q.kind # "timer" => task[w] \in {q.kind, "dead"}
        /\ q.kind = "timer" => task[w] \notin Early
        /\ q.kind \notin {"result", "timer"} => results[w] = "none"
    BY <1>1, <2>1 DEF Requests
  <2>3. q.kind = "result" => Ended(w)'
    <3>1. CASE q.kind = "result" /\ r.kind = "publishing"
      <4>1. q # s /\ q \in net' \cup srv' BY <3>1
      <4>2. q.kind = "timer" BY <1>3, <1>5, <3>1, <4>1
      <4>3. QED BY <3>1, <4>2
    <3>2. CASE q.kind = "result" /\ r.kind # "publishing"
      <4>1. Ended(w) BY <1>1, <2>1, <3>2 DEF Requests
      <4>2. QED BY <3>2, <4>1 DEF Ended
    <3>3. QED BY <3>1, <3>2
  <2>4. QED BY <2>2, <2>3
<1>6. \A q \in srv' : q.w = w =>
       /\ q.pc = "manifest" => q.kind = "publishing"
       /\ q.pc \in {"collect", "aggregate"} => q.kind = "result"
       /\ q.pc = "write" => q.kind \notin {"publishing", "result"}
  BY <1>1 DEF Requests
<1>7. \A p, q \in net' : p.w = w /\ q.w = w /\ p.kind # "timer" /\ q.kind # "timer" => p = q
  BY <1>1 DEF Requests
<1>8. \A p, q \in srv' : p.w = w /\ q.w = w /\ p.kind # "timer" /\ q.kind # "timer" => p = q
  <2>1. CASE r.kind = "timer" BY <1>1, <2>1 DEF Requests
  <2>2. CASE r.kind # "timer" BY <1>3, <2>2
  <2>3. QED BY <2>1, <2>2
<1>9. \A p \in net', q \in srv' : p.w = w /\ q.w = w => p.kind = "timer" \/ q.kind = "timer"
  <2>1. ASSUME NEW p \in net', NEW q \in srv', p.w = w, q.w = w, p.kind # "timer", q.kind # "timer"
        PROVE  FALSE
    <3>1. p \in net /\ p # r BY <2>1
    <3>2. CASE q \in srv BY <1>1, <2>1, <3>1, <3>2 DEF Requests
    <3>3. CASE q = s BY <1>1, <2>1, <3>1, <3>3 DEF Requests
    <3>4. QED BY <2>1, <3>2, <3>3
  <2>2. QED BY <2>1
<1>10. QED BY <1>5, <1>6, <1>7, <1>8, <1>9 DEF Requests

\* The steps that read a request, and its loss.
LEMMA SoundRequest ==
  ASSUME PlaneInv, NEW r \in net,
         ReadBeat(r) \/ StoreBlob(r) \/ ReadResult(r) \/ LoseRequest(r)
  PROVE  Sound
<1> USE DEF records, running, calls
<1>0. TypeOK /\ r.w \in Worker /\ r.kind \in Kind BY RequestFact DEF PlaneInv
<1>a. Stage(r.w) /\ Requests(r.w) BY <1>0 DEF PlaneInv
<1>b. Over(r.w) => workers[r.w].status \notin TerminalWorker BY DEF Over
<1>t. /\ stored \in [Worker -> {"none", "blob", "manifest"}] /\ workers \in [Worker -> WorkerRec]
      /\ task \in [Worker -> TaskPc]
  BY <1>0, Types
<1>1. CASE LoseRequest(r)
  <2>1. /\ net' \subseteq net /\ Failed(r.w, r.kind)
        /\ UNCHANGED <<claim, workers, proc, srv, stored, results>>
    BY <1>1 DEF LoseRequest
  <2>2. QED BY <1>0, <2>1, FailedCalm, CalmSound
<1>2. CASE ReadBeat(r)
  <2>1. UNCHANGED <<claim, workers, proc, stored, results>> /\ net' = net \ {r}
        /\ r.kind \notin {"publishing", "result"}
    BY <1>2 DEF ReadBeat
  <2>2. CASE Failed(r.w, r.kind) /\ srv' = srv BY <1>0, <2>1, <2>2, FailedCalm, CalmSound
  <2>3. CASE /\ srv' = srv \cup {[kind |-> r.kind, w |-> r.w, pc |-> "write"]}
             /\ UNCHANGED <<task, timer>>
    <3>0. PICK s : s = [kind |-> r.kind, w |-> r.w, pc |-> "write"] OBVIOUS
    <3>1. s.kind = r.kind /\ s.w = r.w /\ s.pc = "write" /\ srv' = srv \cup {s}
      BY <2>3, <3>0
    <3>2. Requests(r.w)' BY <2>1, <2>3, <3>1, ReadFact
    <3>3. Stage(r.w)' BY <1>a, <2>1, <2>3 DEF Stage, Ended
    <3>4. \A x \in Worker : x # r.w => Calm(x) BY <2>1, <2>3, <3>1 DEF Calm
    <3>5. Aside(r.w) BY <2>1, <2>3 DEF Aside
    <3>6. Rests(r.w) BY <1>b, <2>1, <3>1 DEF Rests, Over
    <3>7. Lives(r.w) BY <2>1, <2>3 DEF Lives, Alive
    <3>8. QED BY <1>0, <2>1, <3>2, <3>3, <3>4, <3>5, <3>6, <3>7, OthersCalm
  <2>4. QED BY <1>2, <2>2, <2>3 DEF ReadBeat
<1>3. CASE StoreBlob(r)
  <2>1. /\ UNCHANGED <<claim, workers, proc, results, task, timer>> /\ net' = net \ {r}
        /\ r.kind = "publishing" /\ stored' = [stored EXCEPT ![r.w] = "blob"]
        /\ srv' = srv \cup {[kind |-> r.kind, w |-> r.w, pc |-> "manifest"]}
    BY <1>3 DEF StoreBlob
  <2>0. PICK s : s = [kind |-> r.kind, w |-> r.w, pc |-> "manifest"] OBVIOUS
  <2>2. s.kind = r.kind /\ s.w = r.w /\ s.pc = "manifest" /\ srv' = srv \cup {s}
    BY <2>0, <2>1
  <2>3. Requests(r.w)' BY <2>1, <2>2, ReadFact
  <2>4. task[r.w] \in {"publishing", "dead"} /\ results[r.w] = "none"
    BY <1>a, <2>1 DEF Requests
  <2>5. Stage(r.w)' BY <1>a, <2>1, <2>4 DEF Stage
  <2>6. \A x \in Worker : x # r.w => Calm(x) BY <1>t, <2>1, <2>2 DEF Calm
  <2>7. Aside(r.w) BY <2>1 DEF Aside
  <2>8. Rests(r.w) BY <1>b, <2>1, <2>2 DEF Rests, Over
  <2>9. Lives(r.w) BY <2>1 DEF Lives, Alive
  <2>10. QED BY <1>0, <2>1, <2>3, <2>5, <2>6, <2>7, <2>8, <2>9, OthersCalm
<1>4. CASE ReadResult(r)
  <2>1. /\ UNCHANGED <<claim, proc, results, stored, timer>> /\ net' = net \ {r}
        /\ r.kind = "result" /\ InTurn(r)
    BY <1>4 DEF ReadResult
  <2>a. task[r.w] \in {"result", "dead"} BY <1>a, <2>1 DEF Requests
  <2>2. CASE Answered(r.w, "result") /\ UNCHANGED <<workers, srv>>
    <3>1. \A q \in net' \cup srv' : q.w = r.w => q.kind = "timer"
      BY <1>a, <2>1, <2>2 DEF Requests
    <3>2. Stage(r.w)' /\ Requests(r.w)' BY <1>0, <1>a, <2>1, <2>2, <3>1, AnswerKeeps
    <3>3. \A x \in Worker : x # r.w => Calm(x)
      BY <1>0, <2>1, <2>2, AnswerFact DEF Calm
    <3>4. Aside(r.w)
      <4>1. task[r.w] # "none" BY <1>a, <2>1 DEF Requests
      <4>2. QED BY <2>2, <4>1 DEF Aside
    <3>5. Rests(r.w) BY <1>b, <2>1, <2>2 DEF Rests, Over
    <3>6. Lives(r.w)
      <4>1. task'[r.w] \in {"result", "done", "dead"} BY <1>0, <2>1, <2>a, <2>2, AnswerFact
      <4>2. QED BY <1>0, <2>a, <2>1, <4>1, TaskFact DEF Lives
    <3>7. QED BY <1>0, <2>1, <2>2, <3>2, <3>3, <3>4, <3>5, <3>6, OthersCalm
  <2>3. CASE /\ workers[r.w].status \in {"active", "finishing"}
             /\ workers' = SetStatus(r.w, "finishing") /\ UNCHANGED task
             /\ srv' = srv \cup {[kind |-> "result", w |-> r.w, pc |-> "collect"]}
    <3>0. PICK s : s = [kind |-> "result", w |-> r.w, pc |-> "collect"] OBVIOUS
    <3>1. s.kind = r.kind /\ s.w = r.w /\ s.pc = "collect" /\ srv' = srv \cup {s}
      BY <2>1, <2>3, <3>0
    <3>2. Requests(r.w)' BY <2>1, <2>3, <3>1, ReadFact
    <3>3. /\ workers'[r.w].status = "finishing" /\ workers'[r.w].job = workers[r.w].job
          /\ \A x \in Worker : x # r.w => workers'[x] = workers[x]
      BY <1>0, <1>t, <2>3 DEF SetStatus, WorkerRec
    <3>4. Stage(r.w)' BY <1>a, <2>1, <2>3, <3>3 DEF Stage, Ended
    <3>5. \A x \in Worker : x # r.w => Calm(x) BY <2>1, <2>3, <3>1, <3>3 DEF Calm
    <3>6. Aside(r.w)
      <4>1. task[r.w] # "none" BY <1>a, <2>1 DEF Requests
      <4>2. QED BY <2>3, <3>3, <4>1 DEF Aside
    <3>7. Rests(r.w)
      <4>1. workers'[r.w].status \notin TerminalWorker BY <3>3 DEF TerminalWorker
      <4>2. InOrder => \A q \in net' \cup srv' : q.w = r.w => q.kind # "timer"
        BY <2>1, <3>1 DEF InTurn
      <4>3. QED BY <1>b, <4>1, <4>2 DEF Rests, Over
    <3>8. Lives(r.w) BY <1>0, <2>a, <2>1, <2>3, TaskFact DEF Lives
    <3>9. QED BY <1>0, <2>1, <3>2, <3>3, <3>4, <3>5, <3>6, <3>7, <3>8, OthersCalm
  <2>4. QED BY <1>4, <2>2, <2>3 DEF ReadResult
<1>5. QED BY <1>1, <1>2, <1>3, <1>4

\* Of the requests of a worker only those of its interval are left when the
\* one that is handled is gone.
LEMMA ServedFact ==
  ASSUME PlaneInv, NEW r \in srv
  PROVE  /\ r.w \in Worker /\ r.kind \in Kind /\ Stage(r.w) /\ Requests(r.w)
         /\ task[r.w] # "none"
         /\ r.kind # "timer" =>
              \A q \in net \cup (srv \ {r}) : q.w = r.w => q.kind = "timer"
<1>1. r.w \in Worker /\ r.kind \in Kind BY RequestFact DEF PlaneInv
<1>2. Stage(r.w) /\ Requests(r.w) BY <1>1 DEF PlaneInv
<1>3. task[r.w] # "none" BY <1>1, <1>2 DEF Requests, Early, Kind, Awaited
<1>4. r.kind # "timer" => \A q \in net \cup (srv \ {r}) : q.w = r.w => q.kind = "timer"
  BY <1>2 DEF Requests
<1>5. QED BY <1>1, <1>2, <1>3, <1>4

\* The steps of requests that are being handled.
LEMMA SoundServed ==
  ASSUME PlaneInv, NEW r \in srv,
         \/ WriteBeat(r) \/ StoreManifest(r) \/ AcceptResult(r) \/ AggregateResult(r)
         \/ LoseAnswer(r)
  PROVE  Sound
<1> USE DEF records, running, calls
<1>0. TypeOK /\ r.w \in Worker /\ r.kind \in Kind BY ServedFact DEF PlaneInv
<1>a. Stage(r.w) /\ Requests(r.w) /\ task[r.w] # "none" BY ServedFact
<1>t. /\ stored \in [Worker -> {"none", "blob", "manifest"}] /\ workers \in [Worker -> WorkerRec]
      /\ task \in [Worker -> TaskPc] /\ results \in [Worker -> {"none", "completed", "failed"}]
      /\ proc \in [Worker -> ProcRec]
  BY <1>0, Types
<1>1. CASE LoseAnswer(r)
  <2>1. Gone(workers[r.w].host) /\ UNCHANGED <<claim, workers, proc, net, srv, stored, results>>
    BY <1>1 DEF LoseAnswer, Rejected
  <2>2. QED BY <1>0, <2>1, GoneCalm, CalmSound
<1>2. CASE WriteBeat(r)
  <2>1. /\ UNCHANGED <<claim, proc, net, stored, results>> /\ srv' = srv \ {r}
        /\ workers' = SetStatus(r.w, TargetOf(r.kind)) /\ r.pc = "write"
    BY <1>2 DEF WriteBeat
  <2>2. /\ workers'[r.w].status \in {"starting", "active", "finishing"}
        /\ workers'[r.w].job = workers[r.w].job
        /\ \A x \in Worker : x # r.w => workers'[x] = workers[x]
    BY <1>0, <1>t, <2>1 DEF SetStatus, TargetOf, WorkerRec
  <2>3. r.kind \notin {"publishing", "result"} BY <1>a, <2>1 DEF Requests
  <2>4. workers[r.w].status # "absent" BY <1>0, <1>a DEF PlaneInv, ClaimsHold, Recorded
  <2>5. \A x \in Worker : workers'[x].status = "finished" => workers[x].status = "finished"
    BY <2>2
  <2>a. Rests(r.w)
    <3>1. workers'[r.w].status \notin TerminalWorker BY <2>2 DEF TerminalWorker
    <3>2. Over(r.w) => workers[r.w].status \notin TerminalWorker BY <2>1 DEF Over
    <3>3. QED BY <2>1, <3>1, <3>2 DEF Rests, Over
  <2>b. \/ task'[r.w] = task[r.w] \/ task'[r.w] = "dead"
        \/ task[r.w] = r.kind /\ r.kind = "claimed" /\ task'[r.w] = "start"
        \/ task[r.w] = r.kind /\ r.kind = "active" /\ task'[r.w] = "running"
        \/ task[r.w] = r.kind /\ r.kind = "finishing" /\ task'[r.w] = "publish"
    <3>1. CASE Failed(r.w, r.kind)
      <4>1. \A x \in Worker : Calm(x) BY <1>0, <2>1, <2>5, <3>1, FailedCalm
      <4>2. QED BY <1>0, <4>1 DEF Calm
    <3>2. CASE Answered(r.w, r.kind) BY <1>0, <2>3, <3>2, AnswerFact
    <3>3. QED BY <1>2, <3>1, <3>2 DEF WriteBeat
  <2>c. Lives(r.w)
    <3>1. r.kind = "finishing" => task[r.w] \in {"finishing", "dead"} BY <1>a DEF Requests
    <3>2. r.kind # "finishing" => workers'[r.w].status \in {"starting", "active"}
      BY <1>0, <1>t, <2>1 DEF SetStatus, TargetOf, WorkerRec
    <3>3. QED BY <1>0, <1>a, <2>1, <2>b, <3>1, <3>2, TaskFact DEF Lives, Schedulable
  <2>6. CASE Failed(r.w, r.kind)
    <3>1. \A x \in Worker : Calm(x) BY <1>0, <2>1, <2>5, <2>6, FailedCalm
    <3>2. Aside(r.w) BY <1>a, <2>2, <2>4 DEF Aside
    <3>3. Stage(r.w)' /\ Requests(r.w)' BY <1>0, <1>a, <3>1, CalmKeeps
    <3>4. QED BY <1>0, <2>1, <2>2, <2>a, <2>c, <3>1, <3>2, <3>3, OthersCalm
  <2>7. CASE Answered(r.w, r.kind) /\ UNCHANGED <<agent, timer>>
    <3>1. r.kind # "timer" => \A q \in net' \cup srv' : q.w = r.w => q.kind = "timer"
      BY <2>1, ServedFact
    <3>2. Stage(r.w)' /\ Requests(r.w)'
      BY <1>0, <1>a, <2>1, <2>3, <2>5, <2>7, <3>1, AnswerKeeps
    <3>3. \A x \in Worker : x # r.w => Calm(x)
      BY <1>0, <2>1, <2>2, <2>7, AnswerFact DEF Calm
    <3>4. Aside(r.w) BY <1>a, <2>2, <2>4 DEF Aside
    <3>5. QED BY <1>0, <2>1, <2>2, <2>a, <2>c, <3>2, <3>3, <3>4, OthersCalm
  <2>8. QED BY <1>2, <2>6, <2>7 DEF WriteBeat
<1>3. CASE StoreManifest(r)
  <2>1. /\ UNCHANGED <<claim, workers, proc, net, results, timer>> /\ srv' = srv \ {r}
        /\ stored' = [stored EXCEPT ![r.w] = "manifest"] /\ r.pc = "manifest"
        /\ Answered(r.w, r.kind)
    BY <1>3 DEF StoreManifest
  <2>2. r.kind = "publishing" BY <1>a, <2>1 DEF Requests
  <2>3. \A q \in net' \cup srv' : q.w = r.w => q.kind = "timer" BY <2>1, <2>2, ServedFact
  <2>4. Stage(r.w)' /\ Requests(r.w)'
    BY <1>0, <1>a, <1>t, <2>1, <2>2, <2>3, AnswerKeeps
  <2>5. \A x \in Worker : x # r.w => Calm(x) BY <1>0, <1>t, <2>1, AnswerFact DEF Calm
  <2>6. Aside(r.w) BY <1>a, <2>1 DEF Aside
  <2>7. Rests(r.w)
    <3>1. Over(r.w) => workers[r.w].status \notin TerminalWorker BY <2>1 DEF Over
    <3>2. QED BY <2>1, <3>1 DEF Rests, Over
  <2>8. Lives(r.w)
    <3>1. task[r.w] \in {"publishing", "dead"} BY <1>a, <2>2 DEF Requests
    <3>2. task'[r.w] \in {"report", "dead"} \/ task'[r.w] = task[r.w]
      BY <1>0, <2>1, <2>2, <3>1, AnswerFact
    <3>3. QED BY <1>0, <1>a, <2>1, <3>1, <3>2, TaskFact DEF Lives
  <2>9. QED BY <1>0, <2>1, <2>4, <2>5, <2>6, <2>7, <2>8, OthersCalm
<1>4. CASE AggregateResult(r)
  <2>1. /\ UNCHANGED <<claim, workers, proc, net, results, timer, stored>> /\ srv' = srv \ {r}
        /\ r.pc = "aggregate" /\ Answered(r.w, "result")
    BY <1>4 DEF AggregateResult
  <2>2. r.kind = "result" BY <1>a, <2>1 DEF Requests
  <2>3. \A q \in net' \cup srv' : q.w = r.w => q.kind = "timer" BY <2>1, <2>2, ServedFact
  <2>4. Stage(r.w)' /\ Requests(r.w)' BY <1>0, <1>a, <2>1, <2>2, <2>3, AnswerKeeps
  <2>5. \A x \in Worker : x # r.w => Calm(x) BY <1>0, <2>1, <2>2, AnswerFact DEF Calm
  <2>6. Aside(r.w) BY <1>a, <2>1 DEF Aside
  <2>a. task[r.w] \in {"result", "dead"} /\ task'[r.w] \in {"result", "done", "dead"}
    <3>1. task[r.w] \in {"result", "dead"} BY <1>a, <2>2 DEF Requests
    <3>2. QED BY <1>0, <2>1, <2>2, <3>1, AnswerFact
  <2>7. Rests(r.w) BY <2>1, <2>a DEF Rests, Over
  <2>8. Lives(r.w) BY <1>0, <1>a, <2>1, <2>a, TaskFact DEF Lives
  <2>9. QED BY <1>0, <2>1, <2>4, <2>5, <2>6, <2>7, <2>8, OthersCalm
<1>5. CASE AcceptResult(r)
  <2>1. /\ UNCHANGED <<claim, proc, net, stored, task, timer>> /\ r.pc = "collect"
        /\ results' = [results EXCEPT ![r.w] = Collected(r.w)]
        /\ workers' = SetStatus(r.w, "finished") \/ workers' = SetStatus(r.w, "failed")
        /\ srv' = (srv \ {r}) \cup {[kind |-> "result", w |-> r.w, pc |-> "aggregate"]}
    BY <1>5 DEF AcceptResult
  <2>2. PICK s : s = [kind |-> "result", w |-> r.w, pc |-> "aggregate"] OBVIOUS
  <2>3. s.kind = "result" /\ s.w = r.w /\ s.pc = "aggregate" /\ srv' = (srv \ {r}) \cup {s}
    BY <2>1, <2>2
  <2>4. r.kind = "result" BY <1>a, <2>1 DEF Requests
  <2>5. task[r.w] \in {"result", "dead"} /\ Ended(r.w) BY <1>a, <2>4 DEF Requests
  <2>6. /\ workers'[r.w].status \in {"finished", "failed"}
        /\ workers'[r.w].job = workers[r.w].job
        /\ \A x \in Worker : x # r.w => workers'[x] = workers[x]
    BY <1>0, <1>t, <2>1 DEF SetStatus, WorkerRec
  <2>7. results'[r.w] # "none" BY <1>0, <1>t, <2>1, <2>5 DEF Collected, Ended
  <2>8. Ended(r.w)' BY <2>1, <2>5 DEF Ended
  <2>9. Stage(r.w)' BY <1>a, <2>1, <2>5, <2>7, <2>8 DEF Stage
  <2>10. \A q \in net' \cup srv' : q.w = r.w => q = s \/ (q.kind = "timer" /\ q \in net \cup srv)
    BY <2>1, <2>3, <2>4, ServedFact
  <2>11. Requests(r.w)'
    <3>1. \A q \in net \cup srv : q.w = r.w /\ q.kind = "timer" => task[r.w] \notin Early
      BY <1>a DEF Requests
    <3>2. \A q \in srv' : q.w = r.w => q = s \/ (q.kind = "timer" /\ q \in srv)
      BY <2>3, <2>10
    <3>3. \A q \in net' : q.w = r.w => q.kind = "timer" BY <2>1, <2>4, ServedFact
    <3>4. \A q \in srv : q.w = r.w =>
            /\ q.pc = "manifest" => q.kind = "publishing"
            /\ q.pc \in {"collect", "aggregate"} => q.kind = "result"
            /\ q.pc = "write" => q.kind \notin {"publishing", "result"}
      BY <1>a DEF Requests
    <3>5. \A q \in net' \cup srv' : q.w = r.w =>
             /\ q.kind # "timer" => task'[r.w] \in {q.kind, "dead"}
             /\ q.kind = "timer" => task'[r.w] \notin Early
             /\ q.kind = "result" => Ended(r.w)'
             /\ q.kind \notin {"result", "timer"} => results'[r.w] = "none"
      BY <2>1, <2>3, <2>5, <2>8, <2>10, <3>1
    <3>6. QED BY <2>3, <3>2, <3>3, <3>4, <3>5 DEF Requests
  <2>12. \A x \in Worker : x # r.w => Calm(x) BY <1>t, <2>1, <2>3, <2>6 DEF Calm
  <2>13. Aside(r.w)
    <3>1. workers[r.w].status # "absent" BY <1>0, <1>a DEF PlaneInv, ClaimsHold, Recorded
    <3>2. QED BY <1>a, <2>1, <2>6, <3>1 DEF Aside
  <2>14. Rests(r.w)
    <3>1. Over(r.w) => \A q \in net' \cup srv' : q.w = r.w => q = s
      BY <2>4, <2>10 DEF Over
    <3>2. \A q \in net' : q.w = r.w => q.kind = "timer" BY <2>1, <2>4, ServedFact
    <3>3. Over(r.w) => workers[r.w].status \notin TerminalWorker BY <2>1 DEF Over
    <3>4. QED BY <2>1, <2>3, <2>5, <3>1, <3>2, <3>3 DEF Rests, Over
  <2>15. Lives(r.w) BY <1>0, <1>a, <2>1, <2>5, TaskFact DEF Lives
  <2>16. QED BY <1>0, <2>1, <2>6, <2>9, <2>11, <2>12, <2>13, <2>14, <2>15, OthersCalm
<1>6. QED BY <1>1, <1>2, <1>3, <1>4, <1>5

\* The reconciler gives up only workers that no claim holds.
LEMMA SoundReconciling ==
  ASSUME PlaneInv, Reconciling
  PROVE  Sound
<1> USE DEF records, running, calls
<1>0. TypeOK /\ workers \in [Worker -> WorkerRec] BY Types DEF PlaneInv
<1>1. ASSUME NEW w \in Worker, RepairLost(w) PROVE Sound
  <2>1. /\ UNCHANGED <<claim, proc, net, srv, stored, task, timer, results>>
        /\ workers' = SetStatus(w, "lost") /\ workers[w].status # "absent"
        /\ \A e \in Executor : claim[e].worker # w
        /\ task[w] \in {"none", "done", "dead"} /\ ~InFlight(w)
        /\ workers[w].status \in {"starting", "active", "finishing"}
    BY <1>1 DEF RepairLost, Lost, Untouched
  <2>2. /\ workers'[w].status = "lost" /\ workers'[w].job = workers[w].job
        /\ \A x \in Worker : x # w => workers'[x] = workers[x]
    BY <1>0, <2>1 DEF SetStatus, WorkerRec
  <2>3. \A x \in Worker : Calm(x) BY <2>1, <2>2 DEF Calm
  <2>4. Stage(w)' /\ Requests(w)' BY <2>3, CalmKeeps DEF PlaneInv
  <2>5. Aside(w) BY <2>1, <2>2 DEF Aside
  <2>6. Rests(w)
    <3>1. workers[w].status \notin TerminalWorker BY <2>1 DEF TerminalWorker
    <3>2. QED BY <2>1, <3>1 DEF Rests, Over, InFlight
  <2>7. Lives(w) BY <2>1 DEF Lives, Alive
  <2>8. QED BY <2>1, <2>2, <2>3, <2>4, <2>5, <2>6, <2>7, OthersCalm
<1>2. ASSUME NEW w \in Worker, Lapse(w) PROVE Sound
  <2>1. UNCHANGED <<claim, workers, proc, net, srv, stored, task, timer, results>>
    BY <1>2 DEF Lapse
  <2>2. QED BY <2>1, CalmSound DEF Calm
<1>3. ASSUME NEW j \in Job, FinalizeJob(j) PROVE Sound
  <2>1. UNCHANGED <<claim, workers, proc, net, srv, stored, task, timer, results>>
    BY <1>3 DEF FinalizeJob
  <2>2. QED BY <2>1, CalmSound DEF Calm
<1>4. QED BY <1>1, <1>2, <1>3 DEF Reconciling

-----------------------------------------------------------------------------
(* The steps of claimRemoteJob *)

\* A step of one request for work leaves the other ones what they hold.
LEMMA OtherClaims ==
  ASSUME ClaimsHold, NEW e \in Executor, ClaimHeld(e)', Recorded',
         \A f \in Executor : f # e => claim'[f] = claim[f],
         \A f \in Executor : f # e /\ claim[f].pc \in Holding =>
           /\ claim'[e].worker # claim[f].worker
           /\ task'[claim[f].worker] = task[claim[f].worker]
           /\ workers'[claim[f].worker].status = workers[claim[f].worker].status
  PROVE  ClaimsHold'
<1>1. ASSUME NEW f \in Executor, f # e PROVE ClaimHeld(f)'
  <2>1. ClaimHeld(f) /\ claim'[f] = claim[f] BY <1>1 DEF ClaimsHold
  <2>2. \A g \in Executor : g # f /\ claim[f].pc \in Holding
          => claim'[g].worker # claim[f].worker
    BY <1>1, <2>1 DEF ClaimHeld
  <2>3. QED BY <1>1, <2>1, <2>2 DEF ClaimHeld
<1>2. QED BY <1>1 DEF ClaimsHold

\* Before it has created a worker a request for work holds nothing.
LEMMA QuietClaim ==
  ASSUME PlaneInv, NEW e \in Executor,
         \/ Poll(e) \/ ClaimBegin(e) \/ ClaimNothing(e) \/ ClaimRefuse(e) \/ ClaimUnheard(e)
         \/ \E j \in Job : ClaimSkip(e, j) \/ ClaimTake(e, j)
  PROVE  ClaimsHold' /\ \A w \in Worker : Calm(w)
<1> USE DEF records, running, calls
<1>t. claim \in [Executor -> ClaimRec] /\ ClaimsHold BY Types DEF PlaneInv
<1>1. UNCHANGED <<workers, task, proc, timer, net, srv, stored, results>>
  BY DEF Poll, ClaimBegin, ClaimNothing, ClaimRefuse, ClaimUnheard, ClaimSkip, ClaimTake
<1>2. \A w \in Worker : Calm(w) BY <1>1 DEF Calm
<1>3. ASSUME NEW j \in Job, ClaimTake(e, j)
      PROVE  /\ claim'[e].pc = "create" /\ claim'[e].job \in Job /\ claim'[e].worker = NoWorker
             /\ \A f \in Executor : f # e => claim'[f] = claim[f]
  <2>1. PICK c \in ClaimRec : c = claim[e] BY <1>t
  <2>2. claim' = [claim EXCEPT ![e] = [c EXCEPT !.pc = "create", !.job = j]]
    BY <1>3, <2>1 DEF ClaimTake
  <2>a. c.pc = "visit" BY <1>3, <2>1 DEF ClaimTake
  <2>3. c.worker = NoWorker BY <1>t, <2>1, <2>a DEF ClaimsHold, ClaimHeld, Holding
  <2>4. QED BY <1>t, <2>2, <2>3 DEF ClaimRec
<1>4. ASSUME NEW j \in Job, ClaimSkip(e, j)
      PROVE  /\ claim'[e].pc = "visit" /\ claim'[e].worker = NoWorker
             /\ \A f \in Executor : f # e => claim'[f] = claim[f]
  <2>1. claim' = [claim EXCEPT ![e].todo = @ \ {j}] /\ claim[e].pc = "visit"
    BY <1>4 DEF ClaimSkip
  <2>2. claim[e].worker = NoWorker BY <1>t, <2>1 DEF ClaimsHold, ClaimHeld, Holding
  <2>3. QED BY <1>t, <2>1, <2>2 DEF ClaimRec
<1>5. ASSUME Poll(e)
      PROVE  /\ claim'[e].pc = "asked" /\ claim'[e].worker = NoWorker
             /\ \A f \in Executor : f # e => claim'[f] = claim[f]
  <2>1. claim' = [claim EXCEPT ![e].pc = "asked"] /\ claim[e].pc = "idle" BY <1>5 DEF Poll
  <2>2. claim[e].worker = NoWorker BY <1>t, <2>1 DEF ClaimsHold, ClaimHeld, Holding
  <2>3. QED BY <1>t, <2>1, <2>2 DEF ClaimRec
<1>6. ASSUME ClaimBegin(e)
      PROVE  /\ claim'[e].pc = "visit" /\ claim'[e].worker = NoWorker
             /\ \A f \in Executor : f # e => claim'[f] = claim[f]
  <2>1. PICK c \in ClaimRec : c = claim[e] BY <1>t
  <2>2. claim' = [claim EXCEPT ![e] = [c EXCEPT !.pc = "visit", !.todo = queue, !.act = Busy]]
        /\ c.pc = "asked"
    BY <1>6, <2>1 DEF ClaimBegin
  <2>3. c.worker = NoWorker BY <1>t, <2>1, <2>2 DEF ClaimsHold, ClaimHeld, Holding
  <2>4. QED BY <1>t, <2>2, <2>3 DEF ClaimRec
<1>7. ASSUME ClaimNothing(e) \/ ClaimRefuse(e) \/ ClaimUnheard(e)
      PROVE  /\ claim'[e].pc = "idle" /\ claim'[e].worker = NoWorker
             /\ \A f \in Executor : f # e => claim'[f] = claim[f]
  <2>1. claim' = [claim EXCEPT ![e] = NoClaim]
    BY <1>7 DEF ClaimNothing, ClaimRefuse, ClaimUnheard
  <2>2. NoClaim.pc = "idle" /\ NoClaim.worker = NoWorker BY DEF NoClaim
  <2>3. QED BY <1>t, <2>1, <2>2
<1>8. /\ claim'[e].worker = NoWorker /\ claim'[e].pc \notin Holding
      /\ claim'[e].pc = "create" => claim'[e].job \in Job
      /\ \A f \in Executor : f # e => claim'[f] = claim[f]
  BY <1>3, <1>4, <1>5, <1>6, <1>7 DEF Holding
<1>9. ClaimHeld(e)' BY <1>8 DEF ClaimHeld
<1>10. Recorded' BY <1>1, <1>t DEF ClaimsHold, Recorded
<1>11. \A f \in Executor : f # e /\ claim[f].pc \in Holding =>
           claim'[e].worker # claim[f].worker
  BY <1>8, <1>t, RemoteAssumption DEF ClaimsHold, ClaimHeld, RemoteAssumption
<1>12. ClaimsHold' BY <1>1, <1>8, <1>9, <1>10, <1>11, <1>t, OtherClaims
<1>13. QED BY <1>2, <1>12

\* createWorker takes an id that no record, no task and no other request has.
LEMMA CreateClaim ==
  ASSUME PlaneInv, NEW e \in Executor, ClaimCreate(e)
  PROVE  ClaimsHold' /\ \A w \in Worker : Calm(w)
<1> USE DEF records, running, calls
<1>t. /\ claim \in [Executor -> ClaimRec] /\ workers \in [Worker -> WorkerRec] /\ ClaimsHold
      /\ ClaimHeld(e)
  BY Types DEF PlaneInv, ClaimsHold
<1>1. UNCHANGED <<task, proc, timer, net, srv, stored, results>> /\ claim[e].pc = "create"
  BY DEF ClaimCreate
<1>2. PICK w \in Fresh :
        /\ workers' = [workers EXCEPT ![w] = [status |-> "created", job |-> claim[e].job,
                                              host |-> NoHost]]
        /\ claim' = [claim EXCEPT ![e].pc = "assign", ![e].worker = w]
  BY DEF ClaimCreate
<1>3. w \in Worker /\ workers[w].status = "absent" BY <1>2 DEF Fresh
<1>4. task[w] = "none" BY <1>3, <1>t DEF ClaimsHold, Recorded
<1>5. /\ workers'[w].status = "created" /\ workers'[w].job = claim[e].job
      /\ \A x \in Worker : x # w => workers'[x] = workers[x]
  BY <1>2, <1>3, <1>t
<1>6. \A w1 \in Worker : Calm(w1) BY <1>1, <1>5 DEF Calm
<1>7. /\ claim'[e].pc = "assign" /\ claim'[e].worker = w /\ claim'[e].job = claim[e].job
      /\ \A f \in Executor : f # e => claim'[f] = claim[f]
  <2>1. PICK c \in ClaimRec : c = claim[e] BY <1>t
  <2>2. claim' = [claim EXCEPT ![e] = [c EXCEPT !.pc = "assign", !.worker = w]]
    BY <1>2, <2>1
  <2>3. QED BY <1>t, <2>1, <2>2 DEF ClaimRec
<1>8. \A f \in Executor : claim[f].pc \in Holding => claim[f].worker \in Worker \ {w}
  BY <1>3, <1>t DEF ClaimsHold, ClaimHeld
<1>9. \A f \in Executor : f # e => claim[f].worker # w
  <2>1. \A f \in Executor : claim[f].pc \notin Holding => claim[f].worker = NoWorker
    BY <1>t DEF ClaimsHold, ClaimHeld
  <2>2. QED BY <1>3, <1>8, <2>1, RemoteAssumption DEF RemoteAssumption
<1>10. ClaimHeld(e)' BY <1>1, <1>3, <1>4, <1>5, <1>7, <1>9, <1>t DEF ClaimHeld, Holding
<1>11. Recorded' BY <1>1, <1>5, <1>t DEF ClaimsHold, Recorded, ClaimHeld
<1>12. ClaimsHold' BY <1>1, <1>5, <1>7, <1>8, <1>9, <1>10, <1>11, <1>t, OtherClaims
<1>13. QED BY <1>6, <1>12

\* claimRemoteWorker writes only the record of the worker that its request holds.
LEMMA AssignClaim ==
  ASSUME PlaneInv, NEW e \in Executor, ClaimAssign(e)
  PROVE  ClaimsHold' /\ \A w \in Worker : Calm(w)
<1> USE DEF records, running, calls
<1> DEFINE w == claim[e].worker
<1>t. /\ claim \in [Executor -> ClaimRec] /\ workers \in [Worker -> WorkerRec] /\ ClaimsHold
      /\ ClaimHeld(e)
  BY Types DEF PlaneInv, ClaimsHold
<1>1. UNCHANGED <<task, proc, timer, net, srv, stored, results>> /\ claim[e].pc = "assign"
      /\ workers' = [workers EXCEPT ![w].status = "starting", ![w].host = e]
      /\ \/ claim' = [claim EXCEPT ![e].pc = "refuse"]
         \/ claim' = [claim EXCEPT ![e].pc = "reply"]
  BY DEF ClaimAssign
<1>2. /\ w \in Worker /\ task[w] = "none" /\ claim[e].job \in Job
      /\ \A f \in Executor : f # e => claim[f].worker # w
      /\ workers[w].status = "created"
  BY <1>1, <1>t DEF ClaimHeld, Holding
<1> HIDE DEF w
<1>5. /\ workers'[w].status = "starting" /\ workers'[w].job = workers[w].job
      /\ \A x \in Worker : x # w => workers'[x] = workers[x]
  <2>1. PICK c \in WorkerRec : c = workers[w] BY <1>2, <1>t
  <2>2. workers' = [workers EXCEPT ![w] = [c EXCEPT !.status = "starting", !.host = e]]
    BY <1>1, <2>1
  <2>3. QED BY <1>2, <1>t, <2>1, <2>2 DEF WorkerRec
<1>6. \A w1 \in Worker : Calm(w1) BY <1>1, <1>5 DEF Calm
<1>7. /\ claim'[e].pc \in {"refuse", "reply"} /\ claim'[e].worker = w
      /\ claim'[e].job = claim[e].job
      /\ \A f \in Executor : f # e => claim'[f] = claim[f]
  BY <1>1, <1>t DEF ClaimRec, w
<1>8. \A f \in Executor : claim[f].pc \in Holding => claim[f].worker \in Worker
  BY <1>t DEF ClaimsHold, ClaimHeld
<1>9. ClaimHeld(e)' BY <1>1, <1>2, <1>5, <1>7, <1>t DEF ClaimHeld, Holding
<1>10. Recorded' BY <1>1, <1>2, <1>5, <1>t DEF ClaimsHold, Recorded
<1>11. ClaimsHold' BY <1>1, <1>2, <1>5, <1>7, <1>8, <1>9, <1>10, <1>t, OtherClaims
<1>12. QED BY <1>6, <1>11

\* The envelope starts the task of a worker that nobody else knows of.
LEMMA ReplyClaim ==
  ASSUME PlaneInv, NEW e \in Executor, ClaimReply(e)
  PROVE  ClaimsHold' /\ \A w \in Worker : Stage(w)' /\ Requests(w)'
<1> USE DEF records, running, calls
<1>t. /\ TypeOK /\ claim \in [Executor -> ClaimRec] /\ task \in [Worker -> TaskPc] /\ ClaimsHold
      /\ ClaimHeld(e)
  BY Types DEF PlaneInv, ClaimsHold
<1>w. PICK w \in Worker : w = claim[e].worker
  <2>1. claim[e].pc \in Holding BY DEF ClaimReply, Holding
  <2>2. QED BY <1>t, <2>1 DEF ClaimHeld
<1>1. UNCHANGED <<workers, proc, timer, srv, stored, results>> /\ claim[e].pc = "reply"
      /\ claim' = [claim EXCEPT ![e] = NoClaim]
      /\ task' = [task EXCEPT ![w] = "claimed"]
      /\ net' = net \cup {[kind |-> "claimed", w |-> w]}
  BY <1>w DEF ClaimReply
<1>2. /\ w \in Worker /\ task[w] = "none" /\ workers[w].status = "starting"
      /\ \A f \in Executor : f # e => claim[f].worker # w
  BY <1>1, <1>t, <1>w DEF ClaimHeld, Holding
<1>3. Stage(w) /\ Requests(w) BY <1>2 DEF PlaneInv
<1>4. task'[w] = "claimed" /\ \A x \in Worker : x # w => task'[x] = task[x] BY <1>1, <1>2, <1>t
<1>5. results[w] = "none" /\ proc[w].state = "none" /\ w \notin timer
  BY <1>2, <1>3 DEF Stage, Early
<1>6. "claimed" \in Awaited /\ "none" \notin Kind \cup {"dead"} /\ "none" \in Early
  BY DEF Awaited, Kind, Early
<1>7. Requests(w)' BY <1>1, <1>2, <1>3, <1>4, <1>5, <1>6, <1>t, AskFact
<1>8. Stage(w)' BY <1>1, <1>2, <1>4, <1>5 DEF Stage, Early, Late
<1>9. ASSUME NEW x \in Worker, x # w PROVE Stage(x)' /\ Requests(x)'
  <2>1. Calm(x) BY <1>1, <1>4, <1>9 DEF Calm
  <2>2. QED BY <2>1, CalmKeeps DEF PlaneInv
<1>10. /\ claim'[e].pc = "idle" /\ claim'[e].worker = NoWorker
       /\ \A f \in Executor : f # e => claim'[f] = claim[f]
  <2>1. NoClaim.pc = "idle" /\ NoClaim.worker = NoWorker BY DEF NoClaim
  <2>2. QED BY <1>1, <1>t, <2>1
<1>11. ClaimHeld(e)' BY <1>10 DEF ClaimHeld, Holding
<1>12. Recorded' BY <1>1, <1>2, <1>4, <1>t DEF ClaimsHold, Recorded
<1>13. \A f \in Executor : f # e /\ claim[f].pc \in Holding =>
         claim[f].worker \in Worker /\ claim[f].worker # w /\ claim'[e].worker # claim[f].worker
  BY <1>2, <1>10, <1>t, RemoteAssumption DEF ClaimsHold, ClaimHeld, RemoteAssumption
<1>14. ClaimsHold' BY <1>1, <1>4, <1>10, <1>11, <1>12, <1>13, <1>t, OtherClaims
<1>15. QED BY <1>7, <1>8, <1>9, <1>14

-----------------------------------------------------------------------------
(* The theorems about types and results *)

\* Every step keeps the invariant.
LEMMA PlaneNext == PlaneInv /\ [Next]_vars => PlaneInv'
<1> SUFFICES ASSUME PlaneInv, [Next]_vars PROVE PlaneInv' OBVIOUS
<1>0. TypeOK BY DEF PlaneInv
<1>1. ASSUME NEW e \in Executor, Daemon(e) PROVE PlaneInv'
  BY <1>0, <1>1, TypeDaemon, SoundDaemon, SoundKeeps
<1>2. ASSUME NEW e \in Executor, Claiming(e) \/ Poll(e) PROVE PlaneInv'
  <2>1. ClaimHeld(e) BY DEF PlaneInv, ClaimsHold
  <2>2. TypeOK' BY <1>0, <1>2, <2>1, TypeClaim DEF ClaimHeld, Holding
  <2>3. CASE ClaimReply(e) BY <2>2, <2>3, ReplyClaim DEF PlaneInv
  <2>4. CASE ClaimCreate(e) \/ ClaimAssign(e)
    <3>1. ClaimsHold' /\ \A w \in Worker : Calm(w) BY <2>4, CreateClaim, AssignClaim
    <3>2. QED BY <2>2, <3>1, CalmKeeps DEF PlaneInv
  <2>5. CASE \/ Poll(e) \/ ClaimBegin(e) \/ ClaimNothing(e) \/ ClaimRefuse(e) \/ ClaimUnheard(e)
             \/ \E j \in Job : ClaimSkip(e, j) \/ ClaimTake(e, j)
    <3>1. ClaimsHold' /\ \A w \in Worker : Calm(w) BY <2>5, QuietClaim
    <3>2. QED BY <2>2, <3>1, CalmKeeps DEF PlaneInv
  <2>6. QED BY <1>2, <2>3, <2>4, <2>5 DEF Claiming
<1>3. ASSUME NEW w \in Worker, Executing(w) \/ StartFails(w) \/ TimerBeat(w) \/ ProcessExit(w)
      PROVE  PlaneInv'
  BY <1>0, <1>3, TypeExecuting, SoundExecuting, SoundKeeps
<1>4. ASSUME NEW r \in net, ReadBeat(r) \/ StoreBlob(r) \/ ReadResult(r) \/ LoseRequest(r)
      PROVE  PlaneInv'
  BY <1>0, <1>4, TypeRequest, SoundRequest, SoundKeeps
<1>5. ASSUME NEW r \in srv,
             \/ WriteBeat(r) \/ StoreManifest(r) \/ AcceptResult(r) \/ AggregateResult(r)
             \/ LoseAnswer(r)
      PROVE  PlaneInv'
  BY <1>0, <1>5, TypeServed, SoundServed, SoundKeeps
<1>6. ASSUME Reconciling PROVE PlaneInv'
  <2>1. TypeOK' BY <1>0, <1>6, TypeReconciling DEF PlaneInv, ClaimsHold, Recorded
  <2>2. QED BY <1>6, <2>1, SoundReconciling, SoundKeeps
<1>7. ASSUME UNCHANGED vars PROVE PlaneInv'
  <2>1. UNCHANGED <<jobs, queue, workers, lent, results, claim, agent, task, proc, active,
                    timer, stored, net, srv, faults>>
    BY <1>7 DEF vars, records, running, calls
  <2>2. TypeOK' BY <1>0, <2>1 DEF TypeOK
  <2>3. \A w \in Worker : Calm(w) BY <2>1 DEF Calm
  <2>4. QED BY <2>1, <2>2, <2>3, CalmSound, SoundKeeps
<1>8. QED BY <1>1, <1>2, <1>3, <1>4, <1>5, <1>6, <1>7 DEF Next, Handle, Losing

\* The invariant holds in every reachable state of the plane.
THEOREM Invariance == Spec => []PlaneInv
<1>1. Init => PlaneInv BY PlaneInit
<1>2. QED BY <1>1, PlaneNext, PTL DEF Spec

\* The records, tasks and requests of the plane keep their types.
THEOREM TypeCorrect == Spec => []TypeOK
<1>1. PlaneInv => TypeOK BY DEF PlaneInv
<1>2. QED BY <1>1, Invariance, PTL

\* An accepted result belongs to a process that has ended, a worker recorded
\* as finished has one, and what it names is in the object store
\* (acceptRemoteResult).
THEOREM ResultsHaveEnded == Spec => []ResultAfterExit
<1>1. PlaneInv => ResultAfterExit
  <2> SUFFICES ASSUME PlaneInv PROVE ResultAfterExit OBVIOUS
  <2>1. ASSUME NEW w \in Worker
        PROVE  /\ results[w] # "none" => Ended(w)
               /\ workers[w].status = "finished" => results[w] # "none"
    BY DEF PlaneInv, Stage
  <2>2. QED BY <2>1 DEF ResultAfterExit, Ended
<1>2. QED BY <1>1, Invariance, PTL

-----------------------------------------------------------------------------
(* Workers that have ended *)

\* What the steps of a claim do to a worker's record.
LEMMA ClaimRests ==
  ASSUME PlaneInv, NEW e \in Executor, Claiming(e) \/ Poll(e), NEW w \in Worker
  PROVE  Rests(w)
<1> USE DEF records, running, calls
<1>t. /\ claim \in [Executor -> ClaimRec] /\ workers \in [Worker -> WorkerRec]
      /\ task \in [Worker -> TaskPc] /\ ClaimHeld(e)
  BY Types DEF PlaneInv, ClaimsHold
<1>1. CASE \/ Poll(e) \/ ClaimBegin(e) \/ ClaimNothing(e) \/ ClaimRefuse(e) \/ ClaimUnheard(e)
           \/ \E j \in Job : ClaimSkip(e, j) \/ ClaimTake(e, j)
  <2>1. workers' = workers
    BY <1>1 DEF Poll, ClaimBegin, ClaimNothing, ClaimRefuse, ClaimUnheard, ClaimSkip, ClaimTake
  <2>2. QED BY <1>1, <2>1, QuietClaim, CalmRests
<1>2. CASE ClaimCreate(e)
  <2>1. \/ workers'[w] = workers[w]
        \/ workers[w].status = "absent" /\ workers'[w].status = "created"
    BY <1>2, <1>t DEF ClaimCreate, Fresh
  <2>2. QED BY <1>2, <2>1, CreateClaim, CalmRests DEF TerminalWorker
<1>3. CASE ClaimAssign(e)
  <2>1. PICK v \in Worker : v = claim[e].worker
    BY <1>3, <1>t DEF ClaimAssign, ClaimHeld, Holding
  <2>2. workers[v].status = "created"
    BY <1>3, <1>t, <2>1 DEF ClaimAssign, ClaimHeld, Holding
  <2>3. workers' = [workers EXCEPT ![v].status = "starting", ![v].host = e]
    BY <1>3, <2>1 DEF ClaimAssign
  <2>4. PICK c \in WorkerRec : c = workers[v] BY <1>t
  <2>5. workers' = [workers EXCEPT ![v] = [c EXCEPT !.status = "starting", !.host = e]]
    BY <2>3, <2>4
  <2>6. workers'[v].status = "starting" /\ (w # v => workers'[w] = workers[w])
    BY <1>t, <2>4, <2>5 DEF WorkerRec
  <2>7. QED BY <1>3, <2>2, <2>6, AssignClaim, CalmRests DEF TerminalWorker
<1>4. CASE ClaimReply(e)
  <2>1. PICK v \in Worker : v = claim[e].worker
    BY <1>4, <1>t DEF ClaimReply, ClaimHeld, Holding
  <2>2. /\ workers[v].status = "starting" /\ task[v] = "none"
        /\ UNCHANGED <<workers, srv, proc, results, stored, timer>>
        /\ task' = [task EXCEPT ![v] = "claimed"]
        /\ net' = net \cup {[kind |-> "claimed", w |-> v]}
    BY <1>4, <1>t, <2>1 DEF ClaimReply, ClaimHeld, Holding
  <2>3. CASE w # v
    <3>1. Calm(w) BY <1>t, <2>2, <2>3 DEF Calm
    <3>2. QED BY <2>2, <3>1, CalmRests
  <2>4. CASE w = v
    <3>1. \A r \in srv : r.w = w => r.kind = "timer"
      <4>1. Requests(w) /\ PlaneInv BY DEF PlaneInv
      <4>2. \A r \in srv : r.kind \in Kind BY RequestFact DEF PlaneInv
      <4>3. QED BY <2>2, <2>4, <4>1, <4>2 DEF Requests, Kind, Awaited
    <3>2. workers[w].status \notin TerminalWorker BY <2>2, <2>4 DEF TerminalWorker
    <3>3. QED BY <2>2, <3>1, <3>2 DEF Rests, Over
  <2>5. QED BY <2>3, <2>4
<1>5. QED BY <1>1, <1>2, <1>3, <1>4 DEF Claiming

\* No step at all disturbs a worker that has ended.
LEMMA AllRest ==
  ASSUME PlaneInv, [Next]_vars, NEW w \in Worker
  PROVE  Rests(w)
<1>1. ASSUME NEW e \in Executor, Daemon(e) PROVE Rests(w) BY <1>1, SoundDaemon DEF Sound
<1>2. ASSUME NEW e \in Executor, Claiming(e) \/ Poll(e) PROVE Rests(w) BY <1>2, ClaimRests
<1>3. ASSUME NEW v \in Worker, Executing(v) \/ StartFails(v) \/ TimerBeat(v) \/ ProcessExit(v)
      PROVE  Rests(w)
  BY <1>3, SoundExecuting DEF Sound
<1>4. ASSUME NEW r \in net, ReadBeat(r) \/ StoreBlob(r) \/ ReadResult(r) \/ LoseRequest(r)
      PROVE  Rests(w)
  BY <1>4, SoundRequest DEF Sound
<1>5. ASSUME NEW r \in srv,
             \/ WriteBeat(r) \/ StoreManifest(r) \/ AcceptResult(r) \/ AggregateResult(r)
             \/ LoseAnswer(r)
      PROVE  Rests(w)
  BY <1>5, SoundServed DEF Sound
<1>6. ASSUME Reconciling PROVE Rests(w) BY <1>6, SoundReconciling DEF Sound
<1>7. ASSUME UNCHANGED vars PROVE Rests(w)
  BY <1>7 DEF Rests, Over, vars, records, running, calls
<1>8. QED BY <1>1, <1>2, <1>3, <1>4, <1>5, <1>6, <1>7 DEF Next, Handle, Losing

OverInv == \A w \in Worker : Over(w)

\* A worker that has ended stays as it ended, whatever request of its agent
\* comes late (recordRemoteHeartbeat), provided that an interval heartbeat is
\* handled before what is sent after it.
THEOREM EndsAreFinal == ASSUME InOrder PROVE Spec => TerminalStays
<1> USE DEF OverInv
<1>1. Init => OverInv
  <2> SUFFICES ASSUME Init PROVE OverInv OBVIOUS
  <2>1. /\ workers = [w \in Worker |-> [status |-> "absent", job |-> NoJob, host |-> NoHost]]
        /\ net = {} /\ srv = {}
    BY DEF Init
  <2>2. QED BY <2>1 DEF Over, TerminalWorker
<1>2. PlaneInv /\ OverInv /\ [Next]_vars => OverInv'
  <2> SUFFICES ASSUME PlaneInv, OverInv, [Next]_vars PROVE OverInv' OBVIOUS
  <2>1. ASSUME NEW w \in Worker PROVE Over(w)' BY AllRest DEF Rests
  <2>2. QED BY <2>1
<1>3. PlaneInv /\ OverInv /\ [Next]_vars
        => [\A w \in Worker : workers[w].status \in TerminalWorker
              => workers'[w].status = workers[w].status]_vars
  BY AllRest DEF Rests
<1>4. Spec => []PlaneInv BY Invariance
<1>5. Spec => []OverInv BY <1>1, <1>2, <1>4, PTL DEF Spec
<1>6. Spec => [][\A w \in Worker : workers[w].status \in TerminalWorker
                   => workers'[w].status = workers[w].status]_vars
  BY <1>3, <1>4, <1>5, PTL DEF Spec
<1>7. QED BY <1>6 DEF TerminalStays

-----------------------------------------------------------------------------
(* One process per job *)

OneAlive ==
  /\ \A w \in Worker : Alive(w) => workers[w].status \in Schedulable
  /\ \A e, f \in Executor :
       claim[e].pc \notin {"idle", "asked"} /\ claim[f].pc \notin {"idle", "asked"} => e = f
  /\ MaxWorkers = 1 =>
       /\ \A w, x \in Worker : Alive(w) /\ Alive(x) /\ workers[w].job = workers[x].job => w = x
       /\ \A e \in Executor, w \in Worker :
            claim[e].pc = "create" /\ Alive(w) => workers[w].job # claim[e].job

\* Steps other than those of a request for work bring no worker to life.
LEMMA SoundAlive ==
  ASSUME OneAlive, Sound
  PROVE  OneAlive'
<1>1. claim' = claim /\ \A w \in Worker : workers'[w].job = workers[w].job /\ Lives(w)
  BY DEF Sound, Aside
<1>2. QED BY <1>1 DEF OneAlive, Lives

\* The steps of a request for work, when these are served one at a time.
LEMMA ClaimAlive ==
  ASSUME PlaneInv, OneAlive, Serial, NEW e \in Executor, Claiming(e) \/ Poll(e)
  PROVE  OneAlive'
<1> USE DEF records, running, calls
<1>t. /\ claim \in [Executor -> ClaimRec] /\ workers \in [Worker -> WorkerRec]
      /\ task \in [Worker -> TaskPc] /\ ClaimHeld(e) /\ ClaimsHold
  BY Types DEF PlaneInv, ClaimsHold
<1>a. \A f \in Executor : claim[f].worker \in Worker => claim[f].pc \in Holding
  BY <1>t, RemoteAssumption DEF ClaimsHold, ClaimHeld, RemoteAssumption
<1>1. CASE Poll(e) \/ ClaimNothing(e) \/ ClaimRefuse(e) \/ ClaimUnheard(e)
           \/ \E j \in Job : ClaimSkip(e, j)
  <2>1. UNCHANGED <<workers, task, proc>>
        /\ \/ claim' = [claim EXCEPT ![e] = NoClaim]
           \/ claim' = [claim EXCEPT ![e].pc = "asked"] /\ claim[e].pc = "idle"
           \/ \E j \in Job : claim' = [claim EXCEPT ![e].todo = @ \ {j}] /\ claim[e].pc = "visit"
    BY <1>1 DEF Poll, ClaimNothing, ClaimRefuse, ClaimUnheard, ClaimSkip
  <2>2. NoClaim.pc = "idle" /\ NoClaim.worker = NoWorker BY DEF NoClaim
  <2>3. /\ \A f \in Executor : f # e => claim'[f] = claim[f]
        /\ \/ claim'[e].pc \in {"idle", "asked"}
           \/ claim'[e].pc = "visit" /\ claim[e].pc = "visit"
    BY <2>1, <2>2, <1>t DEF ClaimRec
  <2>4. \A w \in Worker : Alive(w)' => Alive(w) BY <2>1, <2>3 DEF Alive
  <2>5. QED BY <2>1, <2>3, <2>4 DEF OneAlive
<1>2. CASE ClaimBegin(e)
  <2>1. /\ UNCHANGED <<workers, task, proc>> /\ claim[e].pc = "asked"
        /\ claim' = [claim EXCEPT ![e].pc = "visit", ![e].todo = queue, ![e].act = Busy]
        /\ \A f \in Executor : claim[f].pc \in {"idle", "asked"}
    BY <1>2 DEF ClaimBegin
  <2>2. PICK c \in ClaimRec : c = claim[e] BY <1>t
  <2>3. claim' = [claim EXCEPT ![e] = [c EXCEPT !.pc = "visit", !.todo = queue, !.act = Busy]]
    BY <2>1, <2>2
  <2>4. claim'[e].pc = "visit" /\ \A f \in Executor : f # e => claim'[f] = claim[f]
    BY <1>t, <2>2, <2>3 DEF ClaimRec
  <2>5. \A w \in Worker : Alive(w)' => Alive(w) BY <2>1, <2>4 DEF Alive
  <2>6. QED BY <2>1, <2>4, <2>5 DEF OneAlive
<1>3. ASSUME NEW j \in Job, ClaimTake(e, j) PROVE OneAlive'
  <2>1. UNCHANGED <<workers, task, proc>> /\ claim[e].pc = "visit" /\ ~NotNeeded(j)
    BY <1>3 DEF ClaimTake
  <2>2. claim'[e].pc = "create" /\ claim'[e].job = j
        /\ \A f \in Executor : f # e => claim'[f] = claim[f]
    <3>1. PICK c \in ClaimRec : c = claim[e] BY <1>t
    <3>2. claim' = [claim EXCEPT ![e] = [c EXCEPT !.pc = "create", !.job = j]]
      BY <1>3, <3>1 DEF ClaimTake
    <3>3. QED BY <1>t, <3>1, <3>2 DEF ClaimRec
  <2>3. \A w \in Worker : Alive(w)' => Alive(w) BY <2>1, <2>2 DEF Alive
  <2>4. MaxWorkers = 1 => \A w \in Worker : Alive(w) => workers[w].job # j
    <3> SUFFICES ASSUME MaxWorkers = 1, NEW w \in Worker, Alive(w), workers[w].job = j
                 PROVE  FALSE
      OBVIOUS
    <3> DEFINE B == WorkersOf(j) \cap Busy
    <3>1. IsFiniteSet(B)
      <4>1. B \subseteq Worker BY DEF WorkersOf
      <4>2. QED BY <4>1, RemoteAssumption, FS_Subset DEF RemoteAssumption
    <3>2. w \in B BY DEF OneAlive, WorkersOf, Busy
    <3>3. Cardinality(B) \in Nat /\ Cardinality(B) # 0
      BY <3>1, <3>2, FS_CardinalityType, FS_EmptySet
    <3>4. ~(Cardinality(B) >= 1) BY <2>1 DEF NotNeeded
    <3>5. QED BY <3>3, <3>4
  <2>5. \A f \in Executor : f # e => claim[f].pc # "create"
    BY <2>1 DEF OneAlive
  <2>6. /\ \A w \in Worker : Alive(w)' => workers'[w].status \in Schedulable
        /\ \A g, f \in Executor :
             claim'[g].pc \notin {"idle", "asked"} /\ claim'[f].pc \notin {"idle", "asked"} => g = f
    BY <2>1, <2>2, <2>3 DEF OneAlive
  <2>7. QED BY <2>1, <2>2, <2>3, <2>4, <2>5, <2>6 DEF OneAlive
<1>4. CASE ClaimCreate(e)
  <2>1. PICK v \in Fresh :
          /\ workers' = [workers EXCEPT ![v] = [status |-> "created", job |-> claim[e].job,
                                                host |-> NoHost]]
          /\ claim' = [claim EXCEPT ![e].pc = "assign", ![e].worker = v]
    BY <1>4 DEF ClaimCreate
  <2>2. v \in Worker /\ claim[e].pc = "create" /\ UNCHANGED <<task, proc>>
    BY <1>4, <2>1 DEF ClaimCreate, Fresh
  <2>3. /\ workers'[v].status = "created" /\ workers'[v].job = claim[e].job
        /\ \A x \in Worker : x # v => workers'[x] = workers[x]
    BY <1>t, <2>1, <2>2
  <2>4. /\ claim'[e].pc = "assign" /\ claim'[e].worker = v
        /\ \A f \in Executor : f # e => claim'[f] = claim[f]
    <3>1. PICK c \in ClaimRec : c = claim[e] BY <1>t
    <3>2. claim' = [claim EXCEPT ![e] = [c EXCEPT !.pc = "assign", !.worker = v]]
      BY <2>1, <3>1
    <3>3. QED BY <1>t, <3>1, <3>2 DEF ClaimRec
  <2>5. \A x \in Worker : x # v /\ Alive(x)' => Alive(x) BY <2>2, <2>4 DEF Alive
  <2>6. /\ \A w \in Worker : Alive(w)' => workers'[w].status \in Schedulable
        /\ \A g, f \in Executor :
             claim'[g].pc \notin {"idle", "asked"} /\ claim'[f].pc \notin {"idle", "asked"} => g = f
        /\ \A f \in Executor : claim'[f].pc # "create"
    BY <2>2, <2>3, <2>4, <2>5 DEF OneAlive, Schedulable
  <2>7. MaxWorkers = 1 => \A w, x \in Worker :
          Alive(w)' /\ Alive(x)' /\ workers'[w].job = workers'[x].job => w = x
    BY <2>2, <2>3, <2>5 DEF OneAlive
  <2>8. QED BY <2>6, <2>7 DEF OneAlive
<1>5. CASE ClaimAssign(e)
  <2>1. PICK v \in Worker : v = claim[e].worker
    BY <1>5, <1>t DEF ClaimAssign, ClaimHeld, Holding
  <2>2. /\ claim[e].pc = "assign" /\ UNCHANGED <<task, proc>>
        /\ workers' = [workers EXCEPT ![v].status = "starting", ![v].host = e]
        /\ \/ claim' = [claim EXCEPT ![e].pc = "refuse"]
           \/ claim' = [claim EXCEPT ![e].pc = "reply"]
    BY <1>5, <2>1 DEF ClaimAssign
  <2>3. /\ claim'[e].pc \in {"refuse", "reply"} /\ claim'[e].worker = v
        /\ \A f \in Executor : f # e => claim'[f] = claim[f]
    BY <1>t, <2>1, <2>2 DEF ClaimRec
  <2>4. /\ workers'[v].status = "starting" /\ workers'[v].job = workers[v].job
        /\ \A x \in Worker : x # v => workers'[x] = workers[x]
    <3>1. PICK c \in WorkerRec : c = workers[v] BY <1>t
    <3>2. workers' = [workers EXCEPT ![v] = [c EXCEPT !.status = "starting", !.host = e]]
      BY <2>2, <3>1
    <3>3. QED BY <1>t, <3>1, <3>2 DEF WorkerRec
  <2>5. \A x \in Worker : Alive(x)' => Alive(x) BY <2>1, <2>2, <2>3 DEF Alive
  <2>6. \A x \in Worker : workers'[x].job = workers[x].job BY <2>4
  <2>7. \A x \in Worker : workers'[x].status = workers[x].status \/ workers'[x].status \in Schedulable
    BY <2>4 DEF Schedulable
  <2>8. QED BY <2>2, <2>3, <2>5, <2>6, <2>7 DEF OneAlive
<1>6. CASE ClaimReply(e)
  <2>1. PICK v \in Worker : v = claim[e].worker
    BY <1>6, <1>t DEF ClaimReply, ClaimHeld, Holding
  <2>2. /\ claim[e].pc = "reply" /\ UNCHANGED <<workers, proc>>
        /\ task' = [task EXCEPT ![v] = "claimed"] /\ claim' = [claim EXCEPT ![e] = NoClaim]
    BY <1>6, <2>1 DEF ClaimReply
  <2>3. claim'[e].pc = "idle" /\ \A f \in Executor : f # e => claim'[f] = claim[f]
    <3>1. NoClaim.pc = "idle" BY DEF NoClaim
    <3>2. QED BY <1>t, <2>2, <3>1
  <2>4. \A x \in Worker : Alive(x)' => Alive(x)
    <3>1. Alive(v) BY <2>1, <2>2 DEF Alive
    <3>2. \A x \in Worker : x # v => task'[x] = task[x] BY <1>t, <2>2
    <3>3. ASSUME NEW x \in Worker, x # v, Alive(x)' PROVE Alive(x)
      BY <2>2, <2>3, <3>2, <3>3 DEF Alive
    <3>4. QED BY <3>1, <3>3
  <2>5. QED BY <2>2, <2>3, <2>4 DEF OneAlive
<1>7. QED BY <1>1, <1>2, <1>3, <1>4, <1>5, <1>6 DEF Claiming

\* No two processes work on a job that may have one worker, save for children
\* that an agent's death has orphaned (claimRemoteJob, repairLost), when
\* requests for work are served one at a time.
THEOREM JobsHaveOneProcess == ASSUME Serial PROVE Spec => []OneProcessPerJob
<1>1. Init => OneAlive
  <2> SUFFICES ASSUME Init PROVE OneAlive OBVIOUS
  <2>1. claim = [e \in Executor |-> NoClaim] /\ task = [w \in Worker |-> "none"] BY DEF Init
  <2>2. NoClaim.pc = "idle" BY DEF NoClaim
  <2>3. \A w \in Worker : ~Alive(w) BY <2>1, <2>2 DEF Alive
  <2>4. \A e \in Executor : claim[e].pc = "idle" BY <2>1, <2>2
  <2>5. QED BY <2>3, <2>4 DEF OneAlive
<1>2. PlaneInv /\ OneAlive /\ [Next]_vars => OneAlive'
  <2> SUFFICES ASSUME PlaneInv, OneAlive, [Next]_vars PROVE OneAlive' OBVIOUS
  <2>1. ASSUME NEW e \in Executor, Daemon(e) PROVE OneAlive' BY <2>1, SoundDaemon, SoundAlive
  <2>2. ASSUME NEW e \in Executor, Claiming(e) \/ Poll(e) PROVE OneAlive' BY <2>2, ClaimAlive
  <2>3. ASSUME NEW v \in Worker, Executing(v) \/ StartFails(v) \/ TimerBeat(v) \/ ProcessExit(v)
        PROVE  OneAlive'
    BY <2>3, SoundExecuting, SoundAlive
  <2>4. ASSUME NEW r \in net, ReadBeat(r) \/ StoreBlob(r) \/ ReadResult(r) \/ LoseRequest(r)
        PROVE  OneAlive'
    BY <2>4, SoundRequest, SoundAlive
  <2>5. ASSUME NEW r \in srv,
               \/ WriteBeat(r) \/ StoreManifest(r) \/ AcceptResult(r) \/ AggregateResult(r)
               \/ LoseAnswer(r)
        PROVE  OneAlive'
    BY <2>5, SoundServed, SoundAlive
  <2>6. ASSUME Reconciling PROVE OneAlive' BY <2>6, SoundReconciling, SoundAlive
  <2>7. ASSUME UNCHANGED vars PROVE OneAlive'
    BY <2>7 DEF OneAlive, Alive, vars, records, running, calls
  <2>8. QED BY <2>1, <2>2, <2>3, <2>4, <2>5, <2>6, <2>7 DEF Next, Handle, Losing
<1>3. PlaneInv /\ OneAlive => OneProcessPerJob
  <2> SUFFICES ASSUME PlaneInv, OneAlive, MaxWorkers = 1, NEW j \in Job
               PROVE  Cardinality({w \in WorkersOf(j) : proc[w].state = "running"
                                                        /\ task[w] # "dead"}) <= 1
    BY DEF OneProcessPerJob
  <2> DEFINE P == {w \in WorkersOf(j) : proc[w].state = "running" /\ task[w] # "dead"}
  <2>1. task \in [Worker -> TaskPc] BY Types DEF PlaneInv
  <2>2. ASSUME NEW w \in P PROVE w \in Worker /\ workers[w].job = j /\ Alive(w)
    <3>1. w \in Worker /\ workers[w].job = j BY DEF WorkersOf
    <3>2. task[w] \notin Early \cup Late BY <3>1 DEF PlaneInv, Stage
    <3>3. task[w] \in {"active", "running"} BY <2>1, <3>1, <3>2 DEF TaskPc, Early, Late, Awaited
    <3>4. QED BY <3>1, <3>3 DEF Alive
  <2>3. \A w, x \in P : w = x BY <2>2 DEF OneAlive
  <2>4. P = {} \/ \E w \in P : P = {w} BY <2>3
  <2>5. Cardinality(P) \in {0, 1}
    <3>1. CASE P = {} BY <3>1, FS_EmptySet
    <3>2. ASSUME NEW w \in P, P = {w} PROVE Cardinality(P) = 1 BY <3>2, FS_Singleton
    <3> HIDE DEF P
    <3>3. QED BY <2>4, <3>1, <3>2, FS_EmptySet
  <2> HIDE DEF P
  <2>6. Cardinality(P) <= 1 BY <2>5
  <2>7. QED BY <2>6 DEF P
<1>4. QED BY <1>1, <1>2, <1>3, Invariance, PTL DEF Spec
=============================================================================
