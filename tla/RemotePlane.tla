----------------------------- MODULE RemotePlane -----------------------------
(***************************************************************************)
(* The remote worker plane: Scheduler.claimRemoteJob, the remote half of   *)
(* WorkerManager, executor agents with the daemons that drive them, and    *)
(* the HTTP requests between the two.  A request is lost, or handled once, *)
(* any time after it was sent; its answer may be lost too.  A handler      *)
(* reads a record, awaits, and writes the whole record back.               *)
(*                                                                         *)
(* The reconciler is here with what it does to remote workers, which have  *)
(* no process on its host: Lapse, RepairLost, FinalizeJob.  One runtime    *)
(* serves the plane, so its dispatch lease is always granted to it.        *)
(***************************************************************************)
EXTENDS StateMachine, FiniteSets

CONSTANTS
  Job, Worker, Executor, NoJob, NoWorker, NoHost,
  MaxWorkers, MaxActiveWorkers,   \* per job, per installation
  Capacity,      \* maxConcurrentWorkers of an agent
  Mortal,        \* executors that may be stopped or crash
  SharedFiles,   \* resultTransport is shared_state_store, not the object store
  Serial,        \* claims are served one at a time
  InOrder,       \* an interval heartbeat is handled before what is sent later
  Outcomes,      \* <<status from the exit code, status in the result file>>
  MaxFaults      \* bound: losses, crashes, drains and refused starts together

ASSUME RemoteAssumption ==
  /\ IsFiniteSet(Job) /\ IsFiniteSet(Worker)
  /\ NoJob \notin Job /\ NoWorker \notin Worker /\ NoHost \notin Executor
  /\ MaxWorkers \in Nat \ {0} /\ MaxActiveWorkers \in Nat \ {0}
  /\ Capacity \in Nat \ {0} /\ Mortal \subseteq Executor /\ MaxFaults \in Nat
  /\ {SharedFiles, Serial, InOrder} \subseteq BOOLEAN
  /\ Outcomes \subseteq {"completed", "failed"} \X {"none", "completed", "failed"}

VARIABLES
  jobs,     \* status of each job record
  queue,    \* DispatchQueue
  workers,  \* worker records: status, job, executor the token was issued to
  lent,     \* worker assignments of the coordinator
  results,  \* WorkerManager#workerResults
  claim,    \* claimRemoteJob, one request per agent
  agent,    \* daemon state, poll timer, #claiming
  task,     \* #executeClaim, where each claim is
  proc,     \* the worker's process, its exit and its result file
  active,   \* workers in the #activeWorkers of their agent
  timer,    \* workers whose heartbeat interval is set
  stored,   \* the worker's result in the object store
  net,      \* requests sent, not yet looked at
  srv,      \* requests being handled, with the status read
  faults

records == <<jobs, queue, workers, lent, results>>
running == <<task, proc, active, timer>>
calls   == <<net, srv, faults>>
vars == <<records, claim, agent, running, stored, calls>>

Schedulable == {"created", "starting", "active"}   \* isSchedulableWorker
Awaited == {"claimed", "active", "finishing", "publishing", "result"}
Request == [kind: Awaited \cup {"timer"}, w: Worker]

WorkersOf(j) == {w \in Worker : workers[w].job = j}
\* Mutant: a worker that is only starting does not count.
BusyActive   == {w \in Worker : workers[w].status = "active"}
Busy         == {w \in Worker : workers[w].status \in Schedulable}
Fresh        == {w \in Worker : workers[w].status = "absent"}
Of(e)        == {w \in Worker : workers[w].host = e}
InFlight(w)  == \E r \in net \cup srv : r.w = w

NoClaim == [pc |-> "idle", todo |-> {}, act |-> {}, job |-> NoJob, worker |-> NoWorker]
Off     == [state |-> "stopped", closing |-> "no", polling |-> FALSE, claiming |-> FALSE]

Init ==
  /\ jobs = [j \in Job |-> "queued"] /\ queue = Job
  /\ workers = [w \in Worker |-> [status |-> "absent", job |-> NoJob, host |-> NoHost]]
  /\ lent = [w \in Worker |-> "none"] /\ results = [w \in Worker |-> "none"]
  /\ claim = [e \in Executor |-> NoClaim] /\ agent = [e \in Executor |-> Off]
  /\ task = [w \in Worker |-> "none"]
  /\ proc = [w \in Worker |-> [state |-> "none", code |-> "none", file |-> "none"]]
  /\ active = {} /\ timer = {} /\ stored = [w \in Worker |-> "none"] /\ net = {} /\ srv = {} /\ faults = 0

Fault == faults < MaxFaults /\ faults' = faults + 1
SetStatus(w, s) == [workers EXCEPT ![w].status = s]
\* #advanceJobToStatus along the flow, when it does not throw.
Advance(j, s) == IF Past(jobs[j], s) THEN jobs ELSE [jobs EXCEPT ![j] = s]

-----------------------------------------------------------------------------
(* RemoteExecutorDaemon over RemoteExecutorAgent *)

DaemonStart(e) ==
  /\ agent[e].state = "stopped" /\ ~agent[e].claiming
  /\ agent' = [agent EXCEPT ![e].state = "starting"]
  /\ UNCHANGED <<records, claim, running, calls, stored>>

\* The version gate may reject; otherwise the agent registers and polls.
DaemonReady(e) ==
  /\ agent[e].state = "starting"
  /\ agent' = [agent EXCEPT ![e].state = "running", ![e].polling = TRUE]
  /\ UNCHANGED <<records, claim, running, calls, stored>>

DaemonRejected(e) ==
  /\ agent[e].state = "starting" /\ e \in Mortal /\ Fault
  /\ agent' = [agent EXCEPT ![e].state = "stopped"]
  /\ UNCHANGED <<records, claim, running, net, srv, stored>>

\* drain(), or stop() of a running daemon: the poll timer is cleared.
Drain(e) ==
  /\ e \in Mortal /\ agent[e].state = "running" /\ Fault
  /\ \E c \in {"no", "idle"} :
       agent' = [agent EXCEPT ![e].state = "draining", ![e].closing = c, ![e].polling = FALSE]
  /\ UNCHANGED <<records, claim, running, net, srv, stored>>

\* stop() of a draining daemon does not wait for it to be idle.
StopDraining(e) ==
  /\ e \in Mortal /\ agent[e].state = "draining" /\ agent[e].closing = "no"
  /\ agent' = [agent EXCEPT ![e].closing = "now"]
  /\ proc' = [w \in Worker |-> IF w \in active \cap Of(e) /\ proc[w].state = "running"
                               THEN [state |-> "exited", code |-> "failed", file |-> "none"]
                               ELSE proc[w]]
  /\ timer' = timer \ (active \cap Of(e))
  /\ UNCHANGED <<records, claim, task, active, calls, stored>>

\* agent.stop(): the active processes are stopped, the executor unregisters.
AgentStop(e) ==
  /\ \/ agent[e].closing = "idle" /\ active \cap Of(e) = {}
     \/ agent[e].closing = "now" /\ \A w \in active \cap Of(e) : proc[w].state = "exited"
  /\ agent' = [agent EXCEPT ![e].state = "stopped", ![e].closing = "no"]
  /\ lent' = [w \in Worker |-> IF w \in Of(e) /\ lent[w] # "none" THEN "released" ELSE lent[w]]
  /\ UNCHANGED <<jobs, queue, workers, results, claim, running, calls, stored>>

\* waitForIdle gives up; the daemon stays draining.
DrainTimeout(e) ==
  /\ agent[e].closing = "idle" /\ active \cap Of(e) # {}
  /\ agent' = [agent EXCEPT ![e].closing = "no"]
  /\ UNCHANGED <<records, claim, running, calls, stored>>

\* What a process takes with it when it ends: its tasks, timers and claim.
Gone(e) ==
  /\ agent' = [agent EXCEPT ![e] = Off]
  /\ task' = [w \in Worker |-> IF w \in Of(e) /\ task[w] \notin {"none", "done"}
                               THEN "dead" ELSE task[w]]
  /\ active' = active \ Of(e) /\ timer' = timer \ Of(e)

\* A crash, or process.exit() after a signal; children go on by themselves.
Crash(e) ==
  /\ e \in Mortal /\ agent[e] # Off /\ Fault
  /\ Gone(e)
  /\ UNCHANGED <<records, claim, proc, net, srv, stored>>

-----------------------------------------------------------------------------
(* pollOnce and Scheduler.claimRemoteJob *)

Poll(e) ==
  /\ agent[e].polling /\ ~agent[e].claiming /\ claim[e].pc = "idle"
  /\ Cardinality(active \cap Of(e)) < Capacity
  /\ agent' = [agent EXCEPT ![e].claiming = TRUE]
  /\ claim' = [claim EXCEPT ![e].pc = "asked"]
  /\ UNCHANGED <<records, running, calls, stored>>

\* The queue and the busy workers are read once, when the request arrives.
ClaimBegin(e) ==
  /\ claim[e].pc = "asked"
  /\ Serial => \A f \in Executor : claim[f].pc \in {"idle", "asked"}
  /\ claim' = [claim EXCEPT ![e].pc = "visit", ![e].todo = queue, ![e].act = Busy]
  /\ UNCHANGED <<records, agent, running, calls, stored>>

NotNeeded(j) ==
  jobs[j] \in TerminalJob \/ Cardinality(WorkersOf(j) \cap Busy) >= MaxWorkers

ClaimSkip(e, j) ==
  /\ claim[e].pc = "visit" /\ j \in claim[e].todo /\ NotNeeded(j)
  /\ queue' = queue \ {j} /\ claim' = [claim EXCEPT ![e].todo = @ \ {j}]
  /\ UNCHANGED <<jobs, workers, lent, results, agent, running, calls, stored>>

\* Nothing to do, no slot, or (the model's bound) no worker id left.
ClaimNothing(e) ==
  /\ claim[e].pc = "visit"
  /\ claim[e].todo = {} \/ Cardinality(claim[e].act) >= MaxActiveWorkers \/ Fresh = {}
  /\ claim' = [claim EXCEPT ![e] = NoClaim] /\ agent' = [agent EXCEPT ![e].claiming = FALSE]
  /\ UNCHANGED <<records, running, calls, stored>>

\* Whether the job was still in the queue is not asked.
ClaimTake(e, j) ==
  /\ claim[e].pc = "visit" /\ j \in claim[e].todo /\ ~NotNeeded(j) /\ Fresh # {}
  /\ Cardinality(claim[e].act) < MaxActiveWorkers
  /\ queue' = queue \ {j} /\ jobs' = Advance(j, "preparing")
  /\ claim' = [claim EXCEPT ![e].pc = "create", ![e].job = j]
  /\ UNCHANGED <<workers, lent, results, agent, running, calls, stored>>

\* createWorker: the record, and its id in the job record.
ClaimCreate(e) ==
  /\ claim[e].pc = "create"
  /\ \E w \in Fresh :
       /\ workers' = [workers EXCEPT ![w] = [status |-> "created", job |-> claim[e].job,
                                             host |-> NoHost]]
       /\ claim' = [claim EXCEPT ![e].pc = "assign", ![e].worker = w]
  /\ UNCHANGED <<jobs, queue, lent, results, agent, running, calls, stored>>

\* claimRemoteWorker: the assignment, the record, the job; it throws for a
\* job that ended meanwhile, and the worker stays starting.
ClaimAssign(e) ==
  /\ claim[e].pc = "assign"
  /\ LET w == claim[e].worker
         throws == AdvanceThrows(jobs[claim[e].job], "dispatching") IN
     /\ lent' = [lent EXCEPT ![w] = "fresh"]
     /\ workers' = [workers EXCEPT ![w].status = "starting", ![w].host = e]
     /\ jobs' = IF throws THEN jobs ELSE Advance(claim[e].job, "dispatching")
     /\ claim' = [claim EXCEPT ![e].pc = IF throws THEN "refuse" ELSE "reply"]
  /\ UNCHANGED <<queue, results, agent, running, calls, stored>>

\* #handleDispatchFailure finds the job terminal (no retries here).
ClaimRefuse(e) ==
  /\ claim[e].pc = "refuse"
  /\ claim' = [claim EXCEPT ![e] = NoClaim] /\ agent' = [agent EXCEPT ![e].claiming = FALSE]
  /\ UNCHANGED <<records, running, calls, stored>>

Requeued(j) == IF jobs[j] \notin TerminalJob /\ Cardinality(WorkersOf(j) \cap Busy) < MaxWorkers
               THEN queue \cup {j} ELSE queue

\* The envelope arrives: #executeClaim posts its first heartbeat.
ClaimReply(e) ==
  /\ claim[e].pc = "reply" /\ agent[e].claiming
  /\ queue' = Requeued(claim[e].job)
  /\ agent' = [agent EXCEPT ![e].claiming = FALSE]
  /\ task' = [task EXCEPT ![claim[e].worker] = "claimed"]
  /\ net' = net \cup {[kind |-> "claimed", w |-> claim[e].worker]}
  /\ claim' = [claim EXCEPT ![e] = NoClaim]
  /\ UNCHANGED <<jobs, workers, lent, results, proc, active, timer, srv, faults, stored>>

\* Nobody is there to receive it: the agent's process has ended meanwhile.
ClaimUnheard(e) ==
  /\ claim[e].pc = "reply" /\ ~agent[e].claiming
  /\ queue' = Requeued(claim[e].job) /\ claim' = [claim EXCEPT ![e] = NoClaim]
  /\ UNCHANGED <<jobs, workers, lent, results, agent, running, calls, stored>>

-----------------------------------------------------------------------------
(* #executeClaim *)

\* Nobody awaits #executeClaim or an interval's heartbeat: a rejection of
\* theirs ends the agent's process, and with it everything else it does.
Rejected(w) == Gone(workers[w].host)

StartProcess(w) ==
  /\ task[w] = "start"
  /\ proc' = [proc EXCEPT ![w].state = "running"]
  /\ timer' = timer \cup {w} /\ active' = active \cup {w}
  /\ task' = [task EXCEPT ![w] = "active"]
  /\ net' = net \cup {[kind |-> "active", w |-> w]}
  /\ UNCHANGED <<records, claim, agent, srv, faults, stored>>

\* The process cannot be started: the claim is dropped in front of the try.
StartFails(w) ==
  /\ task[w] = "start" /\ Fault /\ Rejected(w)
  /\ UNCHANGED <<records, claim, proc, net, srv, stored>>

TimerBeat(w) ==
  /\ w \in timer /\ [kind |-> "timer", w |-> w] \notin net
  /\ net' = net \cup {[kind |-> "timer", w |-> w]}
  /\ UNCHANGED <<records, claim, agent, running, srv, faults, stored>>

ProcessExit(w) ==
  /\ proc[w].state = "running"
  /\ \E o \in Outcomes : proc' = [proc EXCEPT ![w] = [state |-> "exited",
                                                     code |-> o[1], file |-> o[2]]]
  /\ UNCHANGED <<records, claim, agent, task, active, timer, calls, stored>>

\* Mutant: the interval is not cleared.
ExitSeenTimerLeft(w) ==
  /\ task[w] = "running" /\ proc[w].state = "exited"
  /\ task' = [task EXCEPT ![w] = "finishing"]
  /\ net' = net \cup {[kind |-> "finishing", w |-> w]}
  /\ UNCHANGED <<records, claim, agent, proc, active, timer, srv, faults, stored>>
ExitSeen(w) ==
  /\ task[w] = "running" /\ proc[w].state = "exited"
  /\ timer' = timer \ {w} /\ task' = [task EXCEPT ![w] = "finishing"]
  /\ net' = net \cup {[kind |-> "finishing", w |-> w]}
  /\ UNCHANGED <<records, claim, agent, proc, active, srv, faults, stored>>

Publishable(w) == SharedFiles \/ proc[w].file # "none"

\* The result file is uploaded, or left where both sides see it.
Publish(w) ==
  /\ task[w] = "publish" /\ Publishable(w)
  /\ IF SharedFiles THEN task' = [task EXCEPT ![w] = "report"] /\ UNCHANGED net
     ELSE /\ task' = [task EXCEPT ![w] = "publishing"]
          /\ net' = net \cup {[kind |-> "publishing", w |-> w]}
  /\ UNCHANGED <<records, claim, agent, proc, active, timer, stored, srv, faults>>

\* Mutant: the result is sent while the file is still being uploaded.
ReportEarly(w) ==
  /\ task[w] \in {"report", "publishing"}
  /\ task' = [task EXCEPT ![w] = "result"]
  /\ net' = net \cup {[kind |-> "result", w |-> w]}
  /\ UNCHANGED <<records, claim, agent, proc, active, timer, stored, srv, faults>>
Report(w) ==
  /\ task[w] = "report"
  /\ task' = [task EXCEPT ![w] = "result"]
  /\ net' = net \cup {[kind |-> "result", w |-> w]}
  /\ UNCHANGED <<records, claim, agent, proc, active, timer, stored, srv, faults>>

\* publishFile reads a result file that the worker never wrote.
PublishFails(w) ==
  /\ task[w] = "publish" /\ ~Publishable(w)
  /\ Rejected(w) /\ UNCHANGED <<records, claim, proc, calls, stored>>

\* An answer to a request of the task that awaits it (kind = its pc).
Answered(w, kind) ==
  IF kind = "timer" \/ task[w] # kind THEN UNCHANGED <<task, active>>
  ELSE /\ task' = [task EXCEPT ![w] = CASE kind = "claimed"   -> "start"
                                        [] kind = "active"    -> "running"
                                        [] kind = "finishing" -> "publish"
                                        [] kind = "publishing" -> "report"
                                        [] kind = "result"    -> "done"]
       /\ active' = IF kind = "result" THEN active \ {w} ELSE active
\* An error instead: unhandled also for an interval heartbeat.
Failed(w, kind) ==
  IF task[w] = kind \/ (kind = "timer" /\ task[w] # "dead")
  THEN Rejected(w) ELSE UNCHANGED <<agent, task, active, timer>>

LoseRequest(r) ==
  /\ r \in net /\ Fault
  /\ net' = net \ {r} /\ Failed(r.w, r.kind)
  /\ UNCHANGED <<records, claim, proc, srv, stored>>

-----------------------------------------------------------------------------
(* recordRemoteHeartbeat and acceptRemoteResult *)

TargetOf(kind) == CASE kind = "claimed" -> "starting" [] kind = "finishing" -> "finishing"
                    [] OTHER -> "active"

\* The interval's requests are handled first when InOrder.
InTurn(r) == InOrder /\ r.kind \in {"finishing", "result"}
               => \A q \in net \cup srv : q.w = r.w => q.kind # "timer"

\* The token check and the read; an invalid transition throws, except that a
\* terminal worker is not checked.
BeatRefused(s, kind) ==
  /\ s # TargetOf(kind) /\ s \notin TerminalWorker
  /\ ~ValidWorker(s, TargetOf(kind))

ReadBeat(r) ==
  /\ r \in net /\ r.kind \notin {"publishing", "result"} /\ InTurn(r) /\ net' = net \ {r}
  /\ IF BeatRefused(workers[r.w].status, r.kind)
     THEN Failed(r.w, r.kind) /\ UNCHANGED srv
     ELSE srv' = srv \cup {[kind |-> r.kind, w |-> r.w, pc |-> "write"]}
          /\ UNCHANGED <<agent, task, active, timer>>
  /\ UNCHANGED <<records, claim, proc, faults, stored>>

\* heartbeatAssignment, also for a worker that has ended.
Renewed(w) == [lent EXCEPT ![w] = "fresh"]

\* The whole record is written, the assignment renewed, the job advanced to
\* running, which throws if it has ended.
WriteBeat(r) ==
  /\ r \in srv /\ r.pc = "write" /\ srv' = srv \ {r}
  /\ workers' = SetStatus(r.w, TargetOf(r.kind)) /\ lent' = Renewed(r.w)
  /\ LET j == workers[r.w].job
         throws == TargetOf(r.kind) = "active" /\ AdvanceThrows(jobs[j], "running") IN
     /\ jobs' = IF TargetOf(r.kind) = "active" /\ ~throws THEN Advance(j, "running") ELSE jobs
     /\ IF throws THEN Failed(r.w, r.kind)
        ELSE Answered(r.w, r.kind) /\ UNCHANGED <<agent, timer>>
  /\ UNCHANGED <<queue, results, claim, proc, net, faults, stored>>

\* publishManifestedBuffer: the blob first, then the manifest that names it.
StoreBlob(r) ==
  /\ r \in net /\ r.kind = "publishing" /\ net' = net \ {r}
  /\ stored' = [stored EXCEPT ![r.w] = "blob"]
  /\ srv' = srv \cup {[kind |-> r.kind, w |-> r.w, pc |-> "manifest"]}
  /\ UNCHANGED <<records, claim, agent, running, faults>>

StoreManifest(r) ==
  /\ r \in srv /\ r.pc = "manifest" /\ srv' = srv \ {r}
  /\ stored' = [stored EXCEPT ![r.w] = "manifest"]
  /\ Answered(r.w, r.kind)
  /\ UNCHANGED <<records, claim, agent, proc, timer, net, faults>>

\* A terminal worker's result is ignored; finishing is stored before the
\* result is collected.  (A worker still starting would be refused, but no
\* result is sent before an active heartbeat is answered.)
ReadResult(r) ==
  /\ r \in net /\ r.kind = "result" /\ InTurn(r) /\ net' = net \ {r}
  /\ LET s == workers[r.w].status IN
     \/ /\ s \in TerminalWorker /\ Answered(r.w, "result")
        /\ UNCHANGED <<workers, lent, srv, agent, timer>>
     \/ /\ s \in {"active", "finishing"}
        /\ workers' = SetStatus(r.w, "finishing")
        /\ lent' = [lent EXCEPT ![r.w] = "released"]
        /\ srv' = srv \cup {[kind |-> "result", w |-> r.w, pc |-> "collect"]}
        /\ UNCHANGED <<agent, task, active, timer>>
  /\ UNCHANGED <<jobs, queue, results, claim, proc, faults, stored>>

\* collectWorkerResult, or the fallback from the status in the envelope.
Collected(w) == IF proc[w].file = "none" THEN proc[w].code ELSE proc[w].file

AcceptResult(r) ==
  /\ r \in srv /\ r.pc = "collect"
  /\ results' = [results EXCEPT ![r.w] = Collected(r.w)]
  /\ workers' = SetStatus(r.w, IF proc[r.w].code = "completed" THEN "finished" ELSE "failed")
  /\ srv' = (srv \ {r}) \cup {[kind |-> "result", w |-> r.w, pc |-> "aggregate"]}
  /\ UNCHANGED <<jobs, queue, lent, claim, agent, running, net, faults, stored>>

AllEnded(j) == /\ WorkersOf(j) # {}
               /\ \A w \in WorkersOf(j) : workers[w].status \in TerminalWorker
\* A worker that was lost has no result: it counts as failed.
Verdict(j) ==
  IF \A w \in WorkersOf(j) : results[w] = "completed" THEN "completed" ELSE "failed"

AggregateResult(r) ==
  /\ r \in srv /\ r.pc = "aggregate" /\ srv' = srv \ {r}
  /\ LET j == workers[r.w].job IN
     jobs' = IF jobs[j] \notin TerminalJob /\ AllEnded(j)
             THEN [jobs EXCEPT ![j] = Verdict(j)] ELSE jobs
  /\ Answered(r.w, "result")
  /\ UNCHANGED <<queue, workers, lent, results, claim, agent, proc, timer, net, faults, stored>>

\* The answer to a handled request is lost on its way.
LoseAnswer(r) ==
  /\ r \in srv /\ r.kind # "timer" /\ Fault
  /\ task[r.w] = r.kind /\ Rejected(r.w)
  /\ UNCHANGED <<records, claim, proc, net, srv, stored>>

-----------------------------------------------------------------------------
(* The reconciler, for a worker nobody keeps alive *)

\* Nothing has touched the record or the assignment for a TTL: an agent with
\* a claim in hand takes its next step sooner, and requests do not take longer.
Untouched(w) ==
  /\ w \notin timer /\ ~InFlight(w) /\ task[w] \in {"none", "done", "dead"}
  /\ \A e \in Executor : claim[e].worker # w

Lapse(w) ==
  /\ lent[w] = "fresh" /\ Untouched(w)
  /\ lent' = [lent EXCEPT ![w] = "stale"]
  /\ UNCHANGED <<jobs, queue, workers, results, claim, agent, running, calls, stored>>

\* Mutant: a worker that never came to work is not looked at.
LostActive(w) == /\ workers[w].status \in {"active", "finishing"}
                 /\ lent[w] \in {"stale", "released"} /\ Untouched(w)
Lost(w) == /\ workers[w].status \in {"starting", "active", "finishing"}
           /\ lent[w] \in {"stale", "released"} /\ Untouched(w)

\* The worker is lost; in the same pass its job is put back into the queue.
RepairLost(w) ==
  /\ Lost(w) /\ workers' = SetStatus(w, "lost")
  /\ queue' = IF jobs[workers[w].job] \in TerminalJob THEN queue
              ELSE queue \cup {workers[w].job}
  /\ UNCHANGED <<jobs, lent, results, claim, agent, running, calls, stored>>

\* A later pass ends a job whose workers have all ended.
FinalizeJob(j) ==
  /\ jobs[j] \notin TerminalJob /\ AllEnded(j)
  /\ jobs' = [jobs EXCEPT ![j] = Verdict(j)]
  /\ UNCHANGED <<queue, workers, lent, results, claim, agent, running, calls, stored>>

-----------------------------------------------------------------------------
Daemon(e) == \/ DaemonStart(e) \/ DaemonReady(e) \/ DaemonRejected(e) \/ Drain(e)
             \/ StopDraining(e) \/ DrainTimeout(e) \/ AgentStop(e) \/ Crash(e)
Claiming(e) ==
  \/ ClaimBegin(e) \/ ClaimNothing(e) \/ ClaimCreate(e) \/ ClaimAssign(e)
  \/ ClaimRefuse(e) \/ ClaimReply(e) \/ ClaimUnheard(e)
  \/ \E j \in Job : ClaimSkip(e, j) \/ ClaimTake(e, j)
Executing(w) == \/ StartProcess(w) \/ ExitSeen(w) \/ Publish(w) \/ PublishFails(w) \/ Report(w)
Handle(k, w) ==
  \/ \E r \in net : r.kind = k /\ r.w = w /\ (ReadBeat(r) \/ StoreBlob(r) \/ ReadResult(r))
  \/ \E r \in srv : /\ r.kind = k /\ r.w = w
                   /\ (\/ WriteBeat(r) \/ StoreManifest(r)
                       \/ AcceptResult(r) \/ AggregateResult(r))
Losing == \/ \E r \in net : LoseRequest(r)
          \/ \E r \in srv : LoseAnswer(r)
Reconciling == \/ \E w \in Worker : Lapse(w) \/ RepairLost(w)
               \/ \E j \in Job : FinalizeJob(j)

Next ==
  \/ \E e \in Executor : Daemon(e) \/ Poll(e) \/ Claiming(e)
  \/ \E w \in Worker : Executing(w) \/ StartFails(w) \/ TimerBeat(w) \/ ProcessExit(w)
  \/ \E k \in Awaited \cup {"timer"}, w \in Worker : Handle(k, w)
  \/ Losing \/ Reconciling

Spec == Init /\ [][Next]_vars

\* A drained executor is stopped in the end, and a stopped one started again;
\* polls, promises, handlers and the reconciler's interval make progress.
Fairness ==
  /\ \A e \in Executor :
       /\ WF_vars(Poll(e)) /\ WF_vars(Claiming(e)) /\ WF_vars(AgentStop(e))
       /\ WF_vars(DaemonStart(e)) /\ WF_vars(DaemonReady(e)) /\ WF_vars(StopDraining(e))
  /\ \A w \in Worker :
       /\ WF_vars(Executing(w)) /\ WF_vars(ProcessExit(w))
       /\ WF_vars(Lapse(w)) /\ WF_vars(RepairLost(w))
       /\ \A k \in Awaited \cup {"timer"} : WF_vars(Handle(k, w))
  /\ \A j \in Job : WF_vars(FinalizeJob(j))
FairSpec == Spec /\ Fairness

-----------------------------------------------------------------------------
(* Properties *)

\* The records, tasks and requests of the plane.
TypeOK ==
  /\ jobs \in [Job -> JobStatus] /\ queue \subseteq Job
  /\ workers \in [Worker -> [status: WorkerStatus \cup {"absent"}, job: Job \cup {NoJob},
                             host: Executor \cup {NoHost}]]
  /\ lent \in [Worker -> {"none", "fresh", "stale", "released"}]
  /\ results \in [Worker -> {"none", "completed", "failed"}]
  /\ claim \in [Executor -> [pc: {"idle", "asked", "visit", "create", "assign", "refuse", "reply"},
                             todo: SUBSET Job, act: SUBSET Worker,
                             job: Job \cup {NoJob}, worker: Worker \cup {NoWorker}]]
  /\ agent \in [Executor -> [state: {"stopped", "starting", "running", "draining"},
                             closing: {"no", "idle", "now"}, polling: BOOLEAN, claiming: BOOLEAN]]
  /\ task \in [Worker -> {"none", "start", "running", "publish", "report", "done", "dead"} \cup Awaited]
  /\ proc \in [Worker -> [state: {"none", "running", "exited"},
                          code: {"none", "completed", "failed"},
                          file: {"none", "completed", "failed"}]]
  /\ active \subseteq Worker /\ timer \subseteq Worker
  /\ net \subseteq Request /\ faults \in 0..MaxFaults
  /\ srv \subseteq [kind: Awaited \cup {"timer"}, w: Worker, pc: {"write", "manifest", "collect", "aggregate"}]
  /\ stored \in [Worker -> {"none", "blob", "manifest"}]

\* An accepted result belongs to a process that has ended, and a worker
\* recorded as finished has one: no heartbeat, repair or stop in between
\* ends a worker under a process that still works, and the manifest that the
\* result names is there when it is collected (acceptRemoteResult).
ResultAfterExit ==
  \A w \in Worker :
    /\ results[w] # "none" /\ ~SharedFiles => stored[w] = "manifest"
    /\ results[w] # "none" => proc[w].state = "exited" /\ proc[w].code # "none"
    /\ workers[w].status = "finished" => results[w] # "none"

\* A worker that has ended stays as it ended, whatever request of its agent
\* comes late (recordRemoteHeartbeat checks no transition of a terminal
\* worker), provided an interval heartbeat is not overtaken.
TerminalStays ==
  [][\A w \in Worker : workers[w].status \in TerminalWorker
       => workers'[w].status = workers[w].status]_vars

\* Not true of the code, unless Serial: never more workers per job, or at
\* all, than configured.  Claims count the workers and create theirs later.
ClaimsWithinLimits ==
  /\ \A j \in Job : Cardinality(WorkersOf(j) \cap Busy) <= MaxWorkers
  /\ Cardinality(Busy) <= MaxActiveWorkers

\* No two processes work on a job that may have one worker, save for children
\* that an agent's death has orphaned: a worker is given up as lost, and its
\* job handed out again, only when its agent no longer works on it.
OneProcessPerJob ==
  MaxWorkers = 1 => \A j \in Job :
    Cardinality({w \in WorkersOf(j) : proc[w].state = "running" /\ task[w] # "dead"}) <= 1

\* Every job ends, through lost requests, rejected promises, crashes, drains
\* and stops of executors, as long as one executor always comes back; one that
\* got no worker may wait for a model id.
EveryJobEnds == \A j \in Job :
  <>(jobs[j] \in TerminalJob \/ (Fresh = {} /\ WorkersOf(j) = {}))

=============================================================================
