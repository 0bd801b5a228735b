----------------------------- MODULE Coordinator -----------------------------
(***************************************************************************)
(* The control-plane coordinator (executor registry, dispatch lease,       *)
(* worker assignments) and the orchestrator runtimes that use it: the      *)
(* dispatch pass under the lease, executor and worker heartbeat timers,    *)
(* stopRuntime, crash and restart.                                         *)
(*                                                                         *)
(* Time is discrete.  A record keeps the ticks left before it expires (or, *)
(* for an executor, the ticks since its heartbeat); Tick moves every clock *)
(* at once.  All runtimes read one clock (the service's, or one machine's  *)
(* for a shared sqlite file).  Worker life cycles are JobControl's: here a *)
(* worker starts, its process ends, and its heartbeat starts and stops.    *)
(***************************************************************************)
EXTENDS Naturals, FiniteSets

CONSTANTS
  Host,             \* runtimes (executorId)
  Worker,
  NoHost,
  Stoppable,        \* runtimes on which stopRuntime may be called
  Session,          \* session mode: another runtime may reattach a worker
  Service,          \* service backend: a heartbeat is a request in flight
  Timely,           \* the service answers a request before the next tick
  BumpOnUnregister, \* sqlite: unregistering also advances the version
  LeaseTtl,         \* leaseTtlMs, in ticks
  HeartbeatTtl,     \* heartbeatTtlMs, in ticks
  StaleAfter,       \* DEFAULT_EXECUTOR_STALE_AFTER_MS, in ticks
  MaxVersion        \* bound: versions and generations count up to here

ASSUME CoordinatorAssumption ==
  /\ NoHost \notin Host /\ Stoppable \subseteq Host
  /\ Session \in BOOLEAN /\ Service \in BOOLEAN /\ Timely \in BOOLEAN
  /\ BumpOnUnregister \in BOOLEAN
  /\ LeaseTtl \in Nat \ {0} /\ HeartbeatTtl \in Nat \ {0}
  /\ StaleAfter \in Nat /\ MaxVersion \in Nat \ {0}

VARIABLES
  executors,  \* executor records
  lease,      \* the scheduler:dispatch lease record
  assigned,   \* worker assignment records
  net,        \* heartbeat requests in flight
  run,        \* life of each runtime
  drain,      \* the workers stopRuntime found assigned to the runtime
  pass,       \* runtimes inside a dispatch pass
  until,      \* ticks left of the grant a runtime last obtained and kept
  child,      \* life of each worker's process
  claim,      \* the runtime inside #startWorkerHeartbeat, timer not set yet
  beating,    \* runtimes whose heartbeat timer for the worker is set
  due,        \* executor timers that have not fired since the last tick
  dueBeat     \* the same for worker timers

records == <<executors, lease, assigned>>
life    == <<run, drain>>
dispatching == <<pass, until>>
heart   == <<child, claim, beating>>
timing  == <<due, dueBeat>>
vars == <<executors, lease, assigned, net, run, drain, pass, until,
          child, claim, beating, due, dueBeat>>

NoExecutor   == [gen |-> 0, age |-> 0]
NoLease      == [owner |-> NoHost, version |-> 0, left |-> 0]
NoAssignment == [host |-> NoHost, version |-> 0, status |-> "none", left |-> 0]

\* Bound: a version stays at MaxVersion once there.
Advance(v) == IF v < MaxVersion THEN v + 1 ELSE v
Minus(n) == IF n > 0 THEN n - 1 ELSE 0

Init ==
  /\ executors = [h \in Host |-> NoExecutor]
  /\ lease = NoLease
  /\ assigned = [w \in Worker |-> NoAssignment]
  /\ net = {}
  /\ run = [h \in Host |-> "down"] /\ drain = [h \in Host |-> {}]
  /\ pass = {} /\ until = [h \in Host |-> 0]
  /\ child = [w \in Worker |-> "none"] /\ claim = [w \in Worker |-> NoHost]
  /\ beating = [w \in Worker |-> {}]
  /\ due = {} /\ dueBeat = [w \in Worker |-> {}]

-----------------------------------------------------------------------------
(* Coordinator operations, as the record they store. *)

\* Mutant: a lease is taken for expired one tick early.
CanAcquireEarly(h) == lease.owner \in {NoHost, h} \/ lease.left <= 1
\* Mutant: an expired lease of another owner is not taken over.
CanAcquireVacant(h) == lease.owner \in {NoHost, h}
\* acquireLease: refused while another owner's lease has not expired.
CanAcquire(h) == lease.owner \in {NoHost, h} \/ lease.left = 0

Acquired(h) ==
  [owner |-> h, left |-> LeaseTtl,
   version |-> IF lease.owner = h THEN Advance(lease.version) ELSE 1]

\* Mutant: the owner is not checked.
ReleasedByAnyone(h) == NoLease
\* releaseLease and unregisterExecutor: only the owner's lease is deleted.
Released(h) == IF lease.owner = h THEN NoLease ELSE lease

\* Mutant: a new owner starts from version 1, as acquireLease does.
UpsertedAnew(w, h) ==
  [host |-> h, status |-> "active", left |-> HeartbeatTtl,
   version |-> IF assigned[w].host = h THEN Advance(assigned[w].version) ELSE 1]
\* Mutant: a heartbeat does not extend an assignment it finds.
UpsertedKeepsExpiry(w, h) ==
  [host |-> h, version |-> Advance(assigned[w].version), status |-> "active",
   left |-> IF assigned[w].status = "active" THEN assigned[w].left ELSE HeartbeatTtl]
\* upsertWorkerHeartbeat: whoever asks becomes the owner of the assignment.
Upserted(w, h) ==
  [host |-> h, version |-> Advance(assigned[w].version),
   status |-> "active", left |-> HeartbeatTtl]

\* releaseWorkerHeartbeat: ignored unless h owns the assignment.
ReleasedBy(w, h) ==
  IF assigned[w].host = h
  THEN [assigned[w] EXCEPT !.status = "released", !.version = Advance(@)]
  ELSE assigned[w]

\* unregisterExecutor, for one assignment.
Dropped(w, h) ==
  IF assigned[w].host = h /\ assigned[w].status = "active"
  THEN [assigned[w] EXCEPT !.status = "released",
          !.version = IF BumpOnUnregister THEN Advance(@) ELSE @]
  ELSE assigned[w]

\* getLease, from any reader: an expired lease is deleted.
GetLease ==
  /\ lease.owner # NoHost /\ lease.left = 0
  /\ lease' = NoLease
  /\ UNCHANGED <<executors, assigned, net, life, dispatching, heart, timing>>

-----------------------------------------------------------------------------
(* The life of a runtime *)

\* registerExecutor; the executor heartbeat timer is set.
Start(h) ==
  /\ run[h] = "down" /\ executors[h].gen < MaxVersion
  /\ run' = [run EXCEPT ![h] = "up"]
  /\ executors' = [executors EXCEPT ![h] = [gen |-> @.gen + 1, age |-> 0]]
  /\ UNCHANGED <<lease, assigned, net, drain, dispatching, heart, timing>>

ExecutorBeat(h) ==
  /\ h \in due
  /\ due' = due \ {h}
  /\ executors' = [executors EXCEPT ![h] = [gen |-> @.gen, age |-> 0]]
  /\ UNCHANGED <<lease, assigned, net, life, dispatching, heart, dueBeat>>

\* stopRuntime, first part: Scheduler.stop gives the lease up, whether or not
\* a pass is under way, and the executor heartbeat timer is cleared.
StopScheduler(h) ==
  /\ h \in Stoppable /\ run[h] = "up"
  /\ run' = [run EXCEPT ![h] = "stopping"]
  /\ lease' = Released(h) /\ until' = [until EXCEPT ![h] = 0]
  /\ due' = due \ {h}
  /\ UNCHANGED <<executors, assigned, net, drain, pass, heart, dueBeat>>

\* stopRuntime looks once for the workers assigned to this runtime.
ListOwned(h) ==
  /\ run[h] = "stopping"
  /\ run' = [run EXCEPT ![h] = "draining"]
  /\ drain' = [drain EXCEPT ![h] =
       {w \in Worker : assigned[w].host = h /\ assigned[w].status = "active"}]
  /\ UNCHANGED <<records, net, dispatching, heart, timing>>

Drained(h) == \A w \in drain[h] : child[w] # "running" /\ h \notin beating[w]

\* They have been stopped and have settled: unregisterExecutor.
Unregister(h) ==
  /\ run[h] = "draining" /\ Drained(h)
  /\ run' = [run EXCEPT ![h] = "off"] /\ drain' = [drain EXCEPT ![h] = {}]
  /\ executors' = [executors EXCEPT ![h] = NoExecutor]
  /\ lease' = Released(h)
  /\ assigned' = [w \in Worker |-> Dropped(w, h)]
  /\ UNCHANGED <<net, dispatching, heart, timing>>

\* The process dies with its pass and its timers; its children are left.
Crash(h) ==
  /\ run[h] # "down" /\ run' = [run EXCEPT ![h] = "down"]
  /\ drain' = [drain EXCEPT ![h] = {}]
  /\ pass' = pass \ {h} /\ until' = [until EXCEPT ![h] = 0]
  /\ claim' = [w \in Worker |-> IF claim[w] = h THEN NoHost ELSE claim[w]]
  /\ beating' = [w \in Worker |-> beating[w] \ {h}]
  /\ due' = due \ {h} /\ dueBeat' = [w \in Worker |-> dueBeat[w] \ {h}]
  /\ UNCHANGED <<records, net, child>>

-----------------------------------------------------------------------------
(* The dispatch pass: the lease is asked for once, when the pass begins. *)

BeginPass(h) ==
  /\ run[h] = "up" /\ h \notin pass /\ CanAcquire(h)
  /\ lease' = Acquired(h)
  /\ until' = [until EXCEPT ![h] = LeaseTtl]
  /\ pass' = pass \cup {h}
  /\ UNCHANGED <<executors, assigned, net, life, heart, timing>>

EndPass(h) ==
  /\ h \in pass /\ (\A w \in Worker : claim[w] # h)
  /\ pass' = pass \ {h}
  /\ UNCHANGED <<records, net, life, until, heart, timing>>

\* startWorker up to the awaited upsert of #startWorkerHeartbeat.
StartWorker(h, w) ==
  /\ h \in pass /\ child[w] = "none" /\ (\A x \in Worker : claim[x] # h)
  /\ child' = [child EXCEPT ![w] = "running"]
  /\ claim' = [claim EXCEPT ![w] = h]
  /\ assigned' = [assigned EXCEPT ![w] = Upserted(w, h)]
  /\ UNCHANGED <<executors, lease, net, life, dispatching, beating, timing>>

SetTimer(h, w) ==
  /\ claim[w] = h
  /\ claim' = [claim EXCEPT ![w] = NoHost]
  /\ beating' = [beating EXCEPT ![w] = @ \cup {h}]
  /\ UNCHANGED <<records, net, life, dispatching, child, timing>>

\* stopWorker in that window finds no handle: it kills the process, and
\* #finalizeWithoutRuntime releases the assignment before the timer is set.
StopUnhandled(h, w) ==
  /\ claim[w] = h /\ child[w] = "running"
  /\ child' = [child EXCEPT ![w] = "exited"]
  /\ assigned' = [assigned EXCEPT ![w] = ReleasedBy(w, h)]
  /\ UNCHANGED <<executors, lease, net, life, dispatching, claim, beating, timing>>

-----------------------------------------------------------------------------
(* Worker heartbeats *)

\* reattachWorkerRuntime, at the startup reconciliation of a runtime, of a
\* session worker whose runtime lives: nobody asks who is its owner.
Reattach(h, w) ==
  /\ Session /\ run[h] = "up" /\ child[w] = "running"
  /\ h \notin beating[w] /\ claim[w] # h /\ claim[w] = NoHost
  /\ assigned' = [assigned EXCEPT ![w] = Upserted(w, h)]
  /\ beating' = [beating EXCEPT ![w] = @ \cup {h}]
  /\ UNCHANGED <<executors, lease, net, life, dispatching, child, claim, timing>>

\* The interval timer sends an upsert and does not wait for its answer.
WorkerBeat(h, w) ==
  /\ h \in dueBeat[w]
  /\ dueBeat' = [dueBeat EXCEPT ![w] = @ \ {h}]
  /\ IF Service
     THEN net' = net \cup {<<h, w>>} /\ UNCHANGED assigned
     ELSE assigned' = [assigned EXCEPT ![w] = Upserted(w, h)] /\ UNCHANGED net
  /\ UNCHANGED <<executors, lease, life, dispatching, heart, due>>

Deliver(h, w) ==
  /\ <<h, w>> \in net /\ net' = net \ {<<h, w>>}
  /\ assigned' = [assigned EXCEPT ![w] = Upserted(w, h)]
  /\ UNCHANGED <<executors, lease, life, dispatching, heart, timing>>

ProcessEnd(w) ==
  /\ child[w] = "running" /\ child' = [child EXCEPT ![w] = "exited"]
  /\ UNCHANGED <<records, net, life, dispatching, claim, beating, timing>>

\* Mutant: the assignment is released, the pending timer is not cleared.
StopBeatKeepsTimer(h, w) ==
  /\ h \in beating[w] /\ child[w] = "exited"
  /\ beating' = [beating EXCEPT ![w] = @ \ {h}]
  /\ assigned' = [assigned EXCEPT ![w] = ReleasedBy(w, h)]
  /\ UNCHANGED <<executors, lease, net, life, dispatching, child, claim, timing>>

\* #handleWorkerExit: #stopWorkerHeartbeat clears the timer and releases.
StopBeat(h, w) ==
  /\ h \in beating[w] /\ child[w] = "exited"
  /\ beating' = [beating EXCEPT ![w] = @ \ {h}]
  /\ dueBeat' = [dueBeat EXCEPT ![w] = @ \ {h}]
  /\ assigned' = [assigned EXCEPT ![w] = ReleasedBy(w, h)]
  /\ UNCHANGED <<executors, lease, net, life, dispatching, child, claim, due>>

-----------------------------------------------------------------------------
\* Every timer set fires once between two ticks (both intervals are one
\* tick): no runtime is blocked for longer than a heartbeat interval.  The
\* upsert of #startWorkerHeartbeat returns at once without a service, and
\* within the interval when the service is timely, as do the heartbeats.
Punctual == /\ due = {} /\ (\A w \in Worker : dueBeat[w] = {})
            /\ (Service /\ ~Timely) \/ \A w \in Worker : claim[w] = NoHost
            /\ ~Timely \/ net = {}

\* isExecutorStale only asks whether the age exceeds StaleAfter.
Aged(r) == [gen |-> r.gen, age |-> IF r.gen > 0 /\ r.age <= StaleAfter
                                   THEN r.age + 1 ELSE r.age]

Tick ==
  /\ Punctual
  /\ due' = {h \in Host : run[h] = "up"} /\ dueBeat' = beating
  /\ executors' = [h \in Host |-> Aged(executors[h])]
  /\ lease' = [lease EXCEPT !.left = Minus(@)]
  /\ assigned' = [w \in Worker |-> [assigned[w] EXCEPT !.left = Minus(@)]]
  /\ until' = [h \in Host |-> Minus(until[h])]
  /\ UNCHANGED <<net, life, pass, heart>>

Runtime(h) ==
  \/ Start(h) \/ ExecutorBeat(h) \/ StopScheduler(h) \/ ListOwned(h)
  \/ Unregister(h) \/ Crash(h) \/ BeginPass(h) \/ EndPass(h)

Heartbeat(h, w) ==
  \/ StartWorker(h, w) \/ SetTimer(h, w) \/ StopUnhandled(h, w) \/ Reattach(h, w)
  \/ WorkerBeat(h, w) \/ Deliver(h, w) \/ StopBeat(h, w)

Next ==
  \/ Tick \/ GetLease
  \/ \E h \in Host : Runtime(h)
  \/ \E w \in Worker : ProcessEnd(w)
  \/ \E h \in Host, w \in Worker : Heartbeat(h, w)

Spec == Init /\ [][Next]_vars

\* Passes, timers and time go on; nobody is obliged to start, stop or crash.
Fairness ==
  /\ WF_vars(Tick)
  /\ \A h \in Host : /\ WF_vars(ExecutorBeat(h))
                      /\ WF_vars(BeginPass(h)) /\ WF_vars(EndPass(h))
  /\ \A h \in Host, w \in Worker :
        /\ WF_vars(SetTimer(h, w)) /\ WF_vars(WorkerBeat(h, w))
        /\ WF_vars(Deliver(h, w)) /\ WF_vars(StopBeat(h, w))

FairSpec == Spec /\ Fairness

-----------------------------------------------------------------------------
(* Properties *)

\* The records the coordinator and the runtimes can hold.
TypeOK ==
  /\ executors \in [Host -> [gen: 0..MaxVersion, age: 0..(StaleAfter + 1)]]
  /\ lease \in [owner: Host \cup {NoHost}, version: 0..MaxVersion, left: 0..LeaseTtl]
  /\ assigned \in [Worker -> [host: Host \cup {NoHost}, version: 0..MaxVersion,
                              status: {"none", "active", "released"},
                              left: 0..HeartbeatTtl]]
  /\ net \subseteq Host \X Worker
  /\ run \in [Host -> {"down", "up", "stopping", "draining", "off"}]
  /\ drain \in [Host -> SUBSET Worker]
  /\ pass \subseteq Host /\ until \in [Host -> 0..LeaseTtl]
  /\ child \in [Worker -> {"none", "running", "exited"}]
  /\ claim \in [Worker -> Host \cup {NoHost}]
  /\ beating \in [Worker -> SUBSET Host]
  /\ due \subseteq Host /\ dueBeat \in [Worker -> SUBSET Host]

\* A runtime that counts on a grant it has not given up owns the lease for
\* exactly as long: no release, deletion or takeover by others undercuts it
\* (acquireLease, releaseLease, getLease, unregisterExecutor).
GrantHonoured ==
  \A h \in Host : until[h] > 0 => lease.owner = h /\ lease.left = until[h]

\* A runtime that is not up counts on no grant: StopScheduler gave it up.
OnlyUpBelieves == \A h \in Host : run[h] # "up" => until[h] = 0

\* The inductive invariant of the lease: unregistering deletes the runtime's
\* lease, which is harmless only because the runtime gave its grant up before.
LeaseInv == TypeOK /\ GrantHonoured /\ OnlyUpBelieves

\* The coordinator and its runtimes implement the single-leader lease.
LL == INSTANCE LeaderLease WITH
        holder    <- IF lease.left > 0 THEN lease.owner ELSE NoHost,
        believers <- {h \in Host : until[h] > 0}
SingleLeader == LL!Spec

\* An assignment never changes hands without a newer version, so a token of
\* the former owner can be told from the current one (upsertWorkerHeartbeat,
\* releaseWorkerHeartbeat, unregisterExecutor).
AssignmentFenced ==
  [][\A w \in Worker : assigned'[w].host # assigned[w].host
       => assigned'[w].version > assigned[w].version \/ assigned[w].version = MaxVersion]_vars

\* While the runtime that owns a live worker's assignment is up and its
\* timer is set, the assignment and the runtime's registration stay fresh, so
\* the Reconciler leaves the worker alone (#getRecoveryDisposition,
\* isWorkerAssignmentStale, isExecutorStale).
AliveIsFresh ==
  /\ \A w \in Worker :
       child[w] = "running" /\ assigned[w].host \in beating[w] /\ run[assigned[w].host] = "up"
         => assigned[w].status = "active" /\ assigned[w].left > 0
  /\ \A h \in Host : run[h] = "up"
       => executors[h].gen > 0 /\ executors[h].age <= StaleAfter

\* Once a worker has exited and every runtime has stopped its heartbeat, no
\* heartbeat is sent for it, and none but a request already in flight makes it
\* look alive again (#stopWorkerHeartbeat).
EndedNotRenewed ==
  [][\A w \in Worker :
       child[w] = "exited" /\ beating[w] = {} /\ claim[w] = NoHost
       => /\ net' \cap (Host \X {w}) \subseteq net
          /\ assigned'[w].left <= assigned[w].left \/ net' # net]_vars

\* As long as some runtime stays up, leadership always comes back to a
\* runtime that is up, whoever crashed or stopped while holding the lease.
LeaderReturns ==
  \A h \in Host : <>[](run[h] = "up")
    => []<>(lease.left > 0 /\ lease.owner \in Host /\ run[lease.owner] = "up")

\* Not true of the code: a worker is dispatched only by the runtime that holds
\* the lease (a pass asks for the lease once and may outlive it).
OnlyLeaderDispatches ==
  [][\A h \in Host, w \in Worker : claim[w] = NoHost /\ claim'[w] = h
       => lease.owner = h /\ lease.left > 0]_vars
=============================================================================
