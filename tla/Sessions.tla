------------------------------ MODULE Sessions ------------------------------
(***************************************************************************)
(* Sessions of one session-mode worker: SessionManager behind its HTTP     *)
(* routes, and the parts of WorkerManager that start, stop and end the     *)
(* worker and read or write its session records.  Every operation reads a  *)
(* record, awaits, and writes the whole record back, so a step here ends   *)
(* at a write, and the copy an operation works on stays in its call.       *)
(*                                                                         *)
(* Transcript, cursors and output are in module Realtime.                  *)
(***************************************************************************)
EXTENDS StateMachine

CONSTANTS
  Caller, Session, NoSession,
  MaxCalls,     \* bound: API calls that change a session
  MaxRestarts   \* bound: crashes and restarts of the orchestrator

ASSUME SessionsAssumption ==
  /\ NoSession \notin Session /\ MaxCalls \in Nat /\ MaxRestarts \in Nat

VARIABLES
  worker,    \* the worker record: status and sessionId
  sessions,  \* session records; rt is set with a runtime identity
  runtime,   \* the worker's process
  handle,    \* WorkerManager#runtimeHandles has the worker
  start,     \* startWorker, once, then handleWorkerExit: where it is, its copies
  call,      \* one API call per caller
  pump,      \* updateSessionRuntime from an output callback
  boot, calls, restarts

vars == <<worker, sessions, runtime, handle, start, call, pump, boot, calls, restarts>>
bounds == <<calls, restarts>>

SessionStatus == {"attached", "active", "detached", "closed"}
SessionTransitions ==
  {<<"attached", "active">>, <<"active", "attached">>, <<"detached", "attached">>,
   <<"detached", "active">>, <<"attached", "detached">>, <<"active", "detached">>}
  \cup ({"attached", "active", "detached"} \X {"closed"})

Absent == [status |-> "absent", clients |-> 0, rt |-> FALSE]
Idle == [pc |-> "idle", s |-> NoSession, copy |-> Absent,
         w |-> [status |-> "created", sid |-> NoSession]]
Done == [Idle EXCEPT !.pc = "done"]

Open(s)    == s # NoSession /\ sessions[s].status \notin {"absent", "closed"}
Ended(w)   == w.status \in TerminalWorker
Closed(copy) == [copy EXCEPT !.status = "closed", !.clients = 0]
\* The model has one kind of end; which one it is does not matter to sessions.
End(w) == [w EXCEPT !.status = "lost"]

\* #updateSession: the copy's status, not the record's, is checked.
Update(s, copy, new) ==
  /\ copy.status = new.status \/ <<copy.status, new.status>> \in SessionTransitions
  /\ sessions' = [sessions EXCEPT ![s] = new]

\* A worker that was just created, perhaps with a session of its own.
Init ==
  /\ \E first \in Session \cup {NoSession} :
       /\ worker = [status |-> "created", sid |-> first]
       /\ sessions = [s \in Session |-> IF s # first THEN Absent
                        ELSE [status |-> "attached", clients |-> 1, rt |-> FALSE]]
  /\ runtime = "none" /\ handle = FALSE /\ start = Idle /\ pump = Idle
  /\ call = [c \in Caller |-> Idle]
  /\ boot = "up" /\ calls = 0 /\ restarts = 0

-----------------------------------------------------------------------------
(* startWorker and #syncSessionRuntimeOnWorkerStart *)

StartWorker ==
  /\ boot = "up" /\ start.pc = "idle" /\ worker.status = "created"
  /\ worker' = [worker EXCEPT !.status = "starting"]
  /\ start' = [start EXCEPT !.pc = "spawn", !.w = worker']
  /\ UNCHANGED <<sessions, runtime, handle, call, pump, boot, bounds>>

\* The record written is the copy from before the spawn.
Spawned ==
  /\ start.pc = "spawn"
  /\ runtime' = "up"
  /\ worker' = [start.w EXCEPT !.status = "active"]
  /\ start' = [start EXCEPT !.pc = "sync", !.w = worker']
  /\ UNCHANGED <<sessions, handle, call, pump, boot, bounds>>

\* #finalizeStartFailure
SpawnFails ==
  /\ start.pc = "spawn"
  /\ worker' = End(start.w)
  /\ start' = [start EXCEPT !.pc = "close", !.w = worker']
  /\ UNCHANGED <<sessions, runtime, handle, call, pump, boot, bounds>>

\* Mutant: the session is made active although nobody is attached to it.
AttendedAlways(copy) == TRUE
Attended(copy) == copy.clients > 0

SyncRead ==
  /\ start.pc = "sync"
  /\ start' = IF ~Open(start.w.sid) THEN [start EXCEPT !.pc = "register"]
              ELSE LET copy == sessions[start.w.sid] IN
                   [start EXCEPT !.pc = IF Attended(copy) THEN "write" ELSE "persist",
                                 !.s = start.w.sid, !.copy = copy]
  /\ UNCHANGED <<worker, sessions, runtime, handle, call, pump, boot, bounds>>

\* Nobody is attached: updateSessionRuntime reads the record once more.
PersistRead ==
  /\ start.pc = "persist"
  /\ start' = [start EXCEPT !.pc = "store", !.copy = sessions[start.s]]
  /\ UNCHANGED <<worker, sessions, runtime, handle, call, pump, boot, bounds>>

SyncWrite ==
  /\ start.pc \in {"write", "store"}
  /\ sessions' = [sessions EXCEPT ![start.s] =
                    [start.copy EXCEPT !.rt = TRUE,
                                       !.status = IF start.pc = "write" THEN "active" ELSE @]]
  /\ start' = [start EXCEPT !.pc = "register", !.s = NoSession, !.copy = Absent]
  /\ UNCHANGED <<worker, runtime, handle, call, pump, boot, bounds>>

Register ==
  /\ start.pc = "register"
  /\ handle' = TRUE /\ start' = [start EXCEPT !.pc = "running"]
  /\ UNCHANGED <<worker, sessions, runtime, call, pump, boot, bounds>>

-----------------------------------------------------------------------------
(* The process ends: #handleWorkerExit and closeSessionForWorker *)

ProcessExit ==
  /\ runtime = "up" /\ runtime' = "gone"
  /\ UNCHANGED <<worker, sessions, handle, start, call, pump, boot, bounds>>

ExitRead ==
  /\ start.pc = "running" /\ runtime = "gone"
  /\ IF Ended(worker)
     THEN /\ handle' = FALSE /\ start' = Done /\ UNCHANGED worker
     ELSE /\ worker' = [worker EXCEPT !.status = IF @ = "created" THEN @ ELSE "finishing"]
          /\ start' = [start EXCEPT !.pc = "finish", !.w = worker']
          /\ UNCHANGED handle
  /\ UNCHANGED <<sessions, runtime, call, pump, boot, bounds>>

ExitWrite ==
  /\ start.pc = "finish"
  /\ worker' = End(start.w) /\ handle' = FALSE
  /\ start' = [start EXCEPT !.pc = "close", !.w = worker']
  /\ UNCHANGED <<sessions, runtime, call, pump, boot, bounds>>

CloseRead ==
  /\ start.pc = "close"
  /\ start' = IF Open(start.w.sid)
              THEN [start EXCEPT !.pc = "closing", !.s = start.w.sid, !.copy = sessions[start.w.sid]]
              ELSE Done
  /\ UNCHANGED <<worker, sessions, runtime, handle, call, pump, boot, bounds>>

CloseWrite ==
  /\ start.pc = "closing"
  /\ Update(start.s, start.copy, Closed(start.copy)) /\ start' = Done
  /\ UNCHANGED <<worker, runtime, handle, call, pump, boot, bounds>>

-----------------------------------------------------------------------------
(* API calls *)

Begin(c, pc, s) ==
  /\ boot = "up" /\ call[c].pc = "idle" /\ calls < MaxCalls /\ calls' = calls + 1
  /\ call' = [call EXCEPT ![c] = [pc |-> pc, s |-> s, copy |-> sessions[s], w |-> worker]]
  /\ UNCHANGED <<worker, sessions, runtime, handle, start, pump, boot, restarts>>

Return(c) == call' = [call EXCEPT ![c] = Idle]

\* Mutant: the id of the worker's closed session is used once more.
CreateReuse(c) ==
  /\ ~Ended(worker) /\ ~Open(worker.sid)
  /\ \E s \in Session : (sessions[s] = Absent \/ worker.sid = s) /\ Begin(c, "create", s)
\* createSession: an open session of the worker is returned as it is.
Create(c) ==
  /\ ~Ended(worker) /\ ~Open(worker.sid)
  /\ \E s \in Session : sessions[s] = Absent /\ (\A d \in Caller : call[d].s # s) /\ Begin(c, "create", s)

\* #attachRuntimeIfSupported goes by the worker's status as it was read.
Supported(c) == call[c].w.status \in {"starting", "active"}
Bridged(c) == handle /\ ~Ended(worker) /\ Supported(c)
\* mergeRuntimeSessionUpdates: an identity is set or kept, never taken away.
Merged(copy, updated) == copy.rt \/ updated

CreateWrite(c) ==
  /\ call[c].pc = "create"
  /\ sessions' = [sessions EXCEPT ![call[c].s] =
                    [status |-> "attached", clients |-> 1, rt |-> Bridged(c)]]
  /\ call' = [call EXCEPT ![c].pc = "link"]
  /\ UNCHANGED <<worker, runtime, handle, start, pump, boot, bounds>>

\* The worker's record, as it was read, is written back with the session id.
CreateLink(c) ==
  /\ call[c].pc = "link"
  /\ worker' = [call[c].w EXCEPT !.sid = call[c].s] /\ Return(c)
  /\ UNCHANGED <<sessions, runtime, handle, start, pump, boot, bounds>>

Attach(c, s) == Open(s) /\ ~Ended(worker) /\ Begin(c, "attach", s)

AttachWrite(c) ==
  /\ call[c].pc = "attach"
  /\ LET copy == call[c].copy IN
     Update(call[c].s, copy,
            [status |-> IF call[c].w.status = "active" THEN "active" ELSE "attached",
             clients |-> copy.clients + 1, rt |-> Merged(copy, Bridged(c))])
  /\ Return(c)
  /\ UNCHANGED <<worker, runtime, handle, start, pump, boot, bounds>>

Detach(c, s) == Open(s) /\ Begin(c, "detach", s)

Remaining(copy) == IF copy.clients = 0 THEN 0 ELSE copy.clients - 1

\* #detachRuntimeIfSupported: the last client's detach reaches the runtime.
Released(left) == left = 0 /\ handle /\ ~Ended(worker)

DetachWrite(c) ==
  /\ call[c].pc = "detach"
  /\ LET copy == call[c].copy
         left == Remaining(copy) IN
     Update(call[c].s, copy,
            [status |-> IF left = 0 THEN "detached" ELSE "active",
             clients |-> left, rt |-> Merged(copy, Released(left))])
  /\ Return(c)
  /\ UNCHANGED <<worker, runtime, handle, start, pump, boot, bounds>>

\* acknowledgeOutput and sendInput write the record back with other cursors.
Acknowledge(c, s) == Open(s) /\ Begin(c, "touch", s)

AcknowledgeWrite(c) ==
  /\ call[c].pc = "touch"
  /\ Update(call[c].s, call[c].copy, call[c].copy) /\ Return(c)
  /\ UNCHANGED <<worker, runtime, handle, start, pump, boot, bounds>>

\* #assertWorkerAvailableForRuntimeAction refuses input to an ended worker.
Send(c, s) == Open(s) /\ ~Ended(worker) /\ Begin(c, "send", s)

\* sendSessionInput asks the runtime for its state if it has a handle on it.
Answered == handle /\ ~Ended(worker)

SendWrite(c) ==
  /\ call[c].pc = "send"
  /\ LET copy == call[c].copy IN
     Update(call[c].s, copy, [copy EXCEPT !.rt = Merged(copy, Answered)])
  /\ Return(c)
  /\ UNCHANGED <<worker, runtime, handle, start, pump, boot, bounds>>

\* cancelSession goes on to stop the worker also if the session is closed.
Cancel(c, s) == sessions[s] # Absent /\ Begin(c, "cancel", s)

CancelWrite(c) ==
  /\ call[c].pc = "cancel"
  /\ IF call[c].copy.status = "closed" THEN UNCHANGED sessions
     ELSE Update(call[c].s, call[c].copy, Closed(call[c].copy))
  /\ call' = [call EXCEPT ![c].pc = "stop"]
  /\ UNCHANGED <<worker, runtime, handle, start, pump, boot, bounds>>

\* Mutant: a worker whose runtime is known is left alone.
StopNothing == UNCHANGED runtime
\* adapter.stop: SIGTERM, then SIGKILL, until the process is gone.
Kill == runtime' = "gone"

\* stopWorker with a handle.
StopRunning(c) ==
  /\ call[c].pc = "stop" /\ ~Ended(worker) /\ handle
  /\ Kill /\ Return(c)
  /\ UNCHANGED <<worker, sessions, handle, start, pump, boot, bounds>>

\* #getOpenSessionForWorker
Linked == Open(worker.sid)
\* canReattachPersistedRuntimeIdentity
Reattaches(copy) == copy.rt
\* #ensureSessionRuntimeHandle, when there is no handle.
Reattachable == start.pc = "done" /\ Linked /\ Reattaches(sessions[worker.sid])

\* stopWorker without one, through reattachWorkerRuntime.
StopReattached(c) ==
  /\ call[c].pc = "stop" /\ ~Ended(worker) /\ ~handle /\ Reattachable
  /\ Kill /\ handle' = TRUE /\ start' = [Idle EXCEPT !.pc = "running"] /\ Return(c)
  /\ UNCHANGED <<worker, sessions, pump, boot, bounds>>

\* stopWorker otherwise: #stopWithoutRuntimeHandle ends the record.
StopUnstarted(c) ==
  /\ call[c].pc = "stop" /\ ~Ended(worker) /\ ~handle /\ ~Reattachable
  /\ worker' = End(worker)
  /\ call' = [call EXCEPT ![c] = IF Linked
                                 THEN [@ EXCEPT !.pc = "shut", !.s = worker.sid,
                                                !.copy = sessions[worker.sid]]
                                 ELSE Idle]
  /\ UNCHANGED <<sessions, runtime, handle, start, pump, boot, bounds>>

ShutWrite(c) ==
  /\ call[c].pc = "shut"
  /\ Update(call[c].s, call[c].copy, Closed(call[c].copy)) /\ Return(c)
  /\ UNCHANGED <<worker, runtime, handle, start, pump, boot, bounds>>

StopEnded(c) ==
  /\ call[c].pc = "stop" /\ Ended(worker) /\ Return(c)
  /\ UNCHANGED <<worker, sessions, runtime, handle, start, pump, boot, bounds>>

-----------------------------------------------------------------------------
(* An output callback, which looks at no status; a restart *)

OutputRead(s) ==
  /\ pump.pc = "idle" /\ runtime # "none" /\ sessions[s].rt
  /\ pump' = [Idle EXCEPT !.pc = "write", !.s = s, !.copy = sessions[s]]
  /\ UNCHANGED <<worker, sessions, runtime, handle, start, call, boot, bounds>>

OutputWrite ==
  /\ pump.pc = "write"
  /\ sessions' = [sessions EXCEPT ![pump.s] = pump.copy] /\ pump' = Idle
  /\ UNCHANGED <<worker, runtime, handle, start, call, boot, bounds>>

\* The orchestrator ends with all its calls; the child may outlive it.
Crash ==
  /\ restarts < MaxRestarts /\ restarts' = restarts + 1
  /\ runtime' \in {runtime, IF runtime = "up" THEN "gone" ELSE runtime}
  /\ handle' = FALSE /\ start' = Done /\ pump' = Idle /\ call' = [c \in Caller |-> Idle]
  /\ boot' = "reconcile"
  /\ UNCHANGED <<worker, sessions, calls>>

\* #repairWorker: the worker is reattached through its session, or ended with it.
Repair ==
  \/ /\ worker.status # "created" /\ Linked /\ Reattaches(sessions[worker.sid])
     /\ handle' = TRUE /\ start' = [Idle EXCEPT !.pc = "running"]
     /\ UNCHANGED <<worker, sessions>>
  \/ /\ worker' = End(worker)
     /\ sessions' = IF Linked THEN [sessions EXCEPT ![worker.sid] = Closed(@)]
                    ELSE sessions
     /\ UNCHANGED <<handle, start>>

\* reconcile({forceRuntimeRecovery}), before anything else runs.
BootWorker ==
  /\ boot = "reconcile" /\ boot' = "sessions"
  /\ IF Ended(worker) THEN UNCHANGED <<worker, sessions, handle, start>> ELSE Repair
  /\ UNCHANGED <<runtime, call, pump, bounds>>

\* Mutant: a worker whose record says it was only created is left alone.
RepairStaleNarrow ==
  /\ boot = "up" /\ start.pc = "done" /\ ~handle
  /\ ~Ended(worker) /\ worker.status # "created" /\ Repair
  /\ UNCHANGED <<runtime, call, pump, boot, bounds>>
\* A periodic pass repairs a worker that has neither a handle nor a heartbeat.
RepairStale ==
  /\ boot = "up" /\ start.pc = "done" /\ ~handle
  /\ ~Ended(worker) /\ Repair
  /\ UNCHANGED <<runtime, call, pump, boot, bounds>>

\* Mutant: only the session that the worker's record names is looked at.
OrphanLinked(s) == Open(s) /\ Ended(worker) /\ worker.sid = s
Orphan(s) == Open(s) /\ Ended(worker)

\* reconcileSessions, then the server starts.
BootSessions ==
  /\ boot = "sessions" /\ boot' = "up"
  /\ sessions' = [s \in Session |-> IF Orphan(s) THEN Closed(sessions[s]) ELSE sessions[s]]
  /\ UNCHANGED <<worker, runtime, handle, start, call, pump, bounds>>

-----------------------------------------------------------------------------
Starting == StartWorker \/ Spawned \/ SpawnFails \/ SyncRead \/ PersistRead
            \/ SyncWrite \/ Register
Exiting  == ExitRead \/ ExitWrite \/ CloseRead \/ CloseWrite
Calling(c) == \/ Create(c) \/ \E s \in Session : Attach(c, s) \/ Detach(c, s)
                                              \/ Acknowledge(c, s) \/ Send(c, s) \/ Cancel(c, s)
Returning(c) ==
  \/ CreateWrite(c) \/ CreateLink(c) \/ AttachWrite(c) \/ DetachWrite(c)
  \/ AcknowledgeWrite(c) \/ SendWrite(c) \/ CancelWrite(c) \/ StopRunning(c) \/ StopReattached(c)
  \/ StopUnstarted(c) \/ ShutWrite(c) \/ StopEnded(c)
Output == OutputWrite \/ \E s \in Session : OutputRead(s)
Reconciling == BootWorker \/ BootSessions \/ RepairStale

Next == \/ Starting \/ Exiting \/ ProcessExit \/ Output \/ Crash \/ Reconciling
        \/ \E c \in Caller : Calling(c) \/ Returning(c)

Spec == Init /\ [][Next]_vars
Fairness == /\ WF_vars(Starting) /\ WF_vars(Exiting) /\ WF_vars(OutputWrite) /\ WF_vars(Reconciling)
            /\ \A c \in Caller : WF_vars(Returning(c))
FairSpec == Spec /\ Fairness
-----------------------------------------------------------------------------
(* Properties *)

Copy == [status: SessionStatus \cup {"absent"}, clients: 0..(MaxCalls + 1), rt: BOOLEAN]
WorkerRecord == [status: WorkerStatus, sid: Session \cup {NoSession}]
Frame(pcs) == [pc: pcs, s: Session \cup {NoSession}, copy: Copy, w: WorkerRecord]

\* The records and the copies that operations hold of them.
TypeOK ==
  /\ worker \in WorkerRecord /\ sessions \in [Session -> Copy]
  /\ runtime \in {"none", "up", "gone"} /\ handle \in BOOLEAN
  /\ start \in Frame({"idle", "spawn", "sync", "persist", "store", "write",
                      "register", "running", "finish", "close", "closing", "done"})
  /\ call \in [Caller -> Frame({"idle", "create", "link", "attach", "detach", "touch", "send",
                                "cancel", "stop", "shut"})]
  /\ pump \in Frame({"idle", "write"}) /\ boot \in {"up", "reconcile", "sessions"}
  /\ calls \in 0..MaxCalls /\ restarts \in 0..MaxRestarts

\* However the whole-record writes of calls, callbacks, worker exits and
\* repairs overtake each other, the status of a session agrees with its count
\* of clients: closed and detached have none, attached and active have some.
StatusMatchesClients ==
  \A s \in Session :
    /\ sessions[s].status \in {"closed", "detached"} => sessions[s].clients = 0
    /\ sessions[s].status \in {"attached", "active"} => sessions[s].clients > 0

\* An operation that read session s while it was open and has yet to write.
Stale(frame, s) == frame.s = s /\ frame.copy.status \notin {"absent", "closed"}

\* A closed session opens again only by the write of an operation that had read
\* it before it was closed; whatever begins later is refused (#assertSessionOpen).
OnlyLateReopen ==
  [][\A s \in Session : sessions[s].status = "closed" /\ sessions'[s].status # "closed"
       => Stale(start, s) \/ Stale(pump, s) \/ \E c \in Caller : Stale(call[c], s)]_vars

\* When the server starts after a crash, every session that is still open has a
\* worker that runs and a handle on its runtime (reconcile, reconcileSessions).
BootHeals ==
  [][boot = "sessions" /\ boot' = "up"
       => \A s \in Session : sessions'[s].status \in {"attached", "active", "detached"}
            => handle' /\ ~Ended(worker')]_vars

\* Cancelling a session of a running worker ends the process and then the
\* worker, unless the orchestrator crashes first.
CancelStops ==
  \A c \in Caller : (call[c].pc = "stop" /\ handle /\ ~Ended(worker))
                      ~> ((runtime = "gone" /\ Ended(worker)) \/ boot # "up")

\* A worker whose process has ended is recorded as ended, also when the link to
\* a new session is written over its last status (createSession).
ExitSettles == (runtime = "gone") ~> Ended(worker)

\* Not true of the code: a closed session stays closed.
CloseIsFinal ==
  [][\A s \in Session : sessions[s].status = "closed" => sessions'[s].status = "closed"]_vars
=============================================================================
