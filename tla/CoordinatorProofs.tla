-------------------------- MODULE CoordinatorProofs --------------------------
(***************************************************************************)
(* What holds of Coordinator for every set of runtimes and workers and     *)
(* every TTL: the type invariant, the inductive invariant about the lease, *)
(* the refinement of LeaderLease, the fencing of assignments, and what     *)
(* heartbeats keep fresh, and for how long.                                *)
(***************************************************************************)
EXTENDS Coordinator, TLAPS

(* Lemmas about the operators the coordinator's records are built with. *)

LeaseRec == [owner: Host \cup {NoHost}, version: 0..MaxVersion, left: 0..LeaseTtl]
AssignmentRec == [host: Host \cup {NoHost}, version: 0..MaxVersion,
                  status: {"none", "active", "released"}, left: 0..HeartbeatTtl]

\* A version advances to a greater one unless it is at its bound.
LEMMA AdvanceFact ==
  ASSUME NEW v \in 0..MaxVersion
  PROVE  Advance(v) \in 1..MaxVersion /\ (Advance(v) > v \/ v = MaxVersion)
BY CoordinatorAssumption DEF Advance, CoordinatorAssumption

\* A clock moves down and stays in its range.
LEMMA MinusFact ==
  ASSUME NEW b \in Nat, NEW n \in 0..b
  PROVE  Minus(n) \in 0..b /\ Minus(n) <= n
BY DEF Minus

\* What acquireLease and releaseLease store is a lease record.
LEMMA LeaseFact ==
  ASSUME TypeOK, NEW h \in Host
  PROVE  Acquired(h) \in LeaseRec /\ Released(h) \in LeaseRec
<1>1. lease \in LeaseRec BY DEF TypeOK, LeaseRec
<1>2. 1 \in 0..MaxVersion /\ 0 \in 0..LeaseTtl /\ LeaseTtl \in 0..LeaseTtl /\ 0 \in 0..MaxVersion
  BY CoordinatorAssumption DEF CoordinatorAssumption
<1>3. Advance(lease.version) \in 0..MaxVersion
  BY <1>1, AdvanceFact DEF LeaseRec
<1>4. QED BY <1>1, <1>2, <1>3 DEF Acquired, Released, NoLease, LeaseRec

\* What the heartbeat operations store is an assignment record.
LEMMA AssignmentFact ==
  ASSUME TypeOK, NEW h \in Host, NEW w \in Worker
  PROVE  /\ Upserted(w, h) \in AssignmentRec
         /\ ReleasedBy(w, h) \in AssignmentRec
         /\ Dropped(w, h) \in AssignmentRec
<1>1. assigned[w] \in AssignmentRec BY DEF TypeOK, AssignmentRec
<1>2. Advance(assigned[w].version) \in 0..MaxVersion
  BY <1>1, AdvanceFact DEF AssignmentRec
<1>3. HeartbeatTtl \in 0..HeartbeatTtl
  BY CoordinatorAssumption DEF CoordinatorAssumption
<1>4. QED BY <1>1, <1>2, <1>3 DEF Upserted, ReleasedBy, Dropped, AssignmentRec

-----------------------------------------------------------------------------
(* The type invariant *)

\* Nothing is registered, leased or assigned at first.
LEMMA TypeInit == Init => TypeOK
BY CoordinatorAssumption
DEF Init, TypeOK, CoordinatorAssumption, NoExecutor, NoLease, NoAssignment

\* A step of a runtime's life or of a dispatch pass keeps the types.
LEMMA TypeRuntime ==
  ASSUME TypeOK, NEW h \in Host, Runtime(h)
  PROVE  TypeOK'
<1> USE DEF records, life, dispatching, heart, timing
<1>1. CASE Start(h)
  <2>1. executors' \in [Host -> [gen: 0..MaxVersion, age: 0..(StaleAfter + 1)]]
    BY <1>1, CoordinatorAssumption DEF Start, TypeOK, CoordinatorAssumption
  <2>2. run' \in [Host -> {"down", "up", "stopping", "draining", "off"}]
    BY <1>1 DEF Start, TypeOK
  <2>3. QED BY <1>1, <2>1, <2>2 DEF Start, TypeOK
<1>2. CASE ExecutorBeat(h)
  <2>1. executors' \in [Host -> [gen: 0..MaxVersion, age: 0..(StaleAfter + 1)]]
    BY <1>2, CoordinatorAssumption DEF ExecutorBeat, TypeOK, CoordinatorAssumption
  <2>2. QED BY <1>2, <2>1 DEF ExecutorBeat, TypeOK
<1>3. CASE StopScheduler(h)
  <2>1. lease' \in [owner: Host \cup {NoHost}, version: 0..MaxVersion, left: 0..LeaseTtl]
    BY <1>3, LeaseFact DEF StopScheduler, LeaseRec
  <2>2. until' \in [Host -> 0..LeaseTtl]
    BY <1>3, CoordinatorAssumption DEF StopScheduler, TypeOK, CoordinatorAssumption
  <2>3. run' \in [Host -> {"down", "up", "stopping", "draining", "off"}] /\ due' \subseteq Host
    BY <1>3 DEF StopScheduler, TypeOK
  <2>4. QED BY <1>3, <2>1, <2>2, <2>3 DEF StopScheduler, TypeOK
<1>4. CASE ListOwned(h)
  <2>1. drain' \in [Host -> SUBSET Worker] BY <1>4 DEF ListOwned, TypeOK
  <2>2. run' \in [Host -> {"down", "up", "stopping", "draining", "off"}]
    BY <1>4 DEF ListOwned, TypeOK
  <2>3. QED BY <1>4, <2>1, <2>2 DEF ListOwned, TypeOK
<1>5. CASE Unregister(h)
  <2>1. lease' \in [owner: Host \cup {NoHost}, version: 0..MaxVersion, left: 0..LeaseTtl]
    BY <1>5, LeaseFact DEF Unregister, LeaseRec
  <2>2. \A w \in Worker : Dropped(w, h) \in AssignmentRec BY AssignmentFact
  <2>3. assigned' \in [Worker -> AssignmentRec] BY <1>5, <2>2 DEF Unregister
  <2>4. NoExecutor \in [gen: 0..MaxVersion, age: 0..(StaleAfter + 1)]
    BY CoordinatorAssumption DEF NoExecutor, CoordinatorAssumption
  <2>5. executors' \in [Host -> [gen: 0..MaxVersion, age: 0..(StaleAfter + 1)]]
    BY <1>5, <2>4 DEF Unregister, TypeOK
  <2>6. /\ drain' \in [Host -> SUBSET Worker]
        /\ run' \in [Host -> {"down", "up", "stopping", "draining", "off"}]
    BY <1>5 DEF Unregister, TypeOK
  <2>7. QED BY <1>5, <2>1, <2>3, <2>5, <2>6 DEF Unregister, TypeOK, AssignmentRec
<1>6. CASE Crash(h)
  <2>1. until' \in [Host -> 0..LeaseTtl]
    BY <1>6, CoordinatorAssumption DEF Crash, TypeOK, CoordinatorAssumption
  <2>2. /\ drain' \in [Host -> SUBSET Worker]
        /\ run' \in [Host -> {"down", "up", "stopping", "draining", "off"}]
        /\ pass' \subseteq Host /\ due' \subseteq Host
    BY <1>6 DEF Crash, TypeOK
  <2>3. claim' \in [Worker -> Host \cup {NoHost}] BY <1>6 DEF Crash, TypeOK
  <2>4. beating' \in [Worker -> SUBSET Host] /\ dueBeat' \in [Worker -> SUBSET Host]
    BY <1>6 DEF Crash, TypeOK
  <2>5. QED BY <1>6, <2>1, <2>2, <2>3, <2>4 DEF Crash, TypeOK
<1>7. CASE BeginPass(h)
  <2>1. lease' \in [owner: Host \cup {NoHost}, version: 0..MaxVersion, left: 0..LeaseTtl]
    BY <1>7, LeaseFact DEF BeginPass, LeaseRec
  <2>2. until' \in [Host -> 0..LeaseTtl]
    BY <1>7, CoordinatorAssumption DEF BeginPass, TypeOK, CoordinatorAssumption
  <2>3. QED BY <1>7, <2>1, <2>2 DEF BeginPass, TypeOK
<1>8. CASE EndPass(h) BY <1>8 DEF EndPass, TypeOK
<1>9. QED BY <1>1, <1>2, <1>3, <1>4, <1>5, <1>6, <1>7, <1>8 DEF Runtime

\* A step of a worker's heartbeat keeps the types.
LEMMA TypeHeartbeat ==
  ASSUME TypeOK, NEW h \in Host, NEW w \in Worker, Heartbeat(h, w)
  PROVE  TypeOK'
<1> USE DEF records, life, dispatching, heart, timing
<1>1. /\ Upserted(w, h) \in AssignmentRec /\ ReleasedBy(w, h) \in AssignmentRec
  BY AssignmentFact
<1>2. assigned \in [Worker -> AssignmentRec] BY DEF TypeOK, AssignmentRec
<1>3. assigned' \in [Worker -> AssignmentRec]
  BY <1>1, <1>2 DEF Heartbeat, StartWorker, SetTimer, StopUnhandled, Reattach,
                    WorkerBeat, Deliver, StopBeat
<1>4. net' \subseteq Host \X Worker
  BY DEF Heartbeat, StartWorker, SetTimer, StopUnhandled, Reattach,
         WorkerBeat, Deliver, StopBeat, TypeOK
<1>5. child' \in [Worker -> {"none", "running", "exited"}]
  BY DEF Heartbeat, StartWorker, SetTimer, StopUnhandled, Reattach,
         WorkerBeat, Deliver, StopBeat, TypeOK
<1>6. claim' \in [Worker -> Host \cup {NoHost}]
  BY DEF Heartbeat, StartWorker, SetTimer, StopUnhandled, Reattach,
         WorkerBeat, Deliver, StopBeat, TypeOK
<1>7. beating' \in [Worker -> SUBSET Host]
  BY DEF Heartbeat, StartWorker, SetTimer, StopUnhandled, Reattach,
         WorkerBeat, Deliver, StopBeat, TypeOK
<1>8. dueBeat' \in [Worker -> SUBSET Host]
  BY DEF Heartbeat, StartWorker, SetTimer, StopUnhandled, Reattach,
         WorkerBeat, Deliver, StopBeat, TypeOK
<1>9. UNCHANGED <<executors, lease, life, dispatching, due>>
  BY DEF Heartbeat, StartWorker, SetTimer, StopUnhandled, Reattach,
         WorkerBeat, Deliver, StopBeat
<1>10. QED BY <1>3, <1>4, <1>5, <1>6, <1>7, <1>8, <1>9 DEF TypeOK, AssignmentRec

\* The clock and the remaining steps keep the types.
LEMMA TypeTick == TypeOK /\ Tick => TypeOK'
<1> SUFFICES ASSUME TypeOK, Tick PROVE TypeOK' OBVIOUS
<1> USE CoordinatorAssumption DEF records, life, dispatching, heart, timing
<1>1. \A h \in Host : Aged(executors[h]) \in [gen: 0..MaxVersion, age: 0..(StaleAfter + 1)]
  BY DEF TypeOK, Aged, CoordinatorAssumption
<1>2. executors' \in [Host -> [gen: 0..MaxVersion, age: 0..(StaleAfter + 1)]]
  BY <1>1 DEF Tick
<1>3. lease' \in LeaseRec
  <2>1. lease \in LeaseRec BY DEF TypeOK, LeaseRec
  <2>2. Minus(lease.left) \in 0..LeaseTtl
    BY <2>1, MinusFact DEF CoordinatorAssumption, LeaseRec
  <2>3. QED BY <2>1, <2>2 DEF Tick, LeaseRec
<1>4. assigned' \in [Worker -> AssignmentRec]
  <2>1. \A w \in Worker : assigned[w] \in AssignmentRec BY DEF TypeOK, AssignmentRec
  <2>2. \A w \in Worker : Minus(assigned[w].left) \in 0..HeartbeatTtl
    BY <2>1, MinusFact DEF CoordinatorAssumption, AssignmentRec
  <2>3. \A w \in Worker : [assigned[w] EXCEPT !.left = Minus(@)] \in AssignmentRec
    BY <2>1, <2>2 DEF AssignmentRec
  <2>4. QED BY <2>3 DEF Tick
<1>5. until' \in [Host -> 0..LeaseTtl]
  <2>1. \A h \in Host : Minus(until[h]) \in 0..LeaseTtl
    BY MinusFact DEF TypeOK, CoordinatorAssumption
  <2>2. QED BY <2>1 DEF Tick
<1>6. due' \subseteq Host /\ dueBeat' \in [Worker -> SUBSET Host] BY DEF Tick, TypeOK
<1>7. QED BY <1>2, <1>3, <1>4, <1>5, <1>6 DEF Tick, TypeOK, LeaseRec, AssignmentRec

\* Every step of the coordinator and its runtimes keeps the types.
LEMMA TypeNext == TypeOK /\ [Next]_vars => TypeOK'
<1> SUFFICES ASSUME TypeOK, [Next]_vars PROVE TypeOK' OBVIOUS
<1> USE DEF records, life, dispatching, heart, timing
<1>1. CASE Tick BY <1>1, TypeTick
<1>2. CASE GetLease
  <2>1. NoLease \in LeaseRec
    BY CoordinatorAssumption DEF CoordinatorAssumption, NoLease, LeaseRec
  <2>2. QED BY <1>2, <2>1 DEF GetLease, TypeOK, LeaseRec
<1>3. CASE \E h \in Host : Runtime(h) BY <1>3, TypeRuntime
<1>4. CASE \E w \in Worker : ProcessEnd(w)
  <2>1. child' \in [Worker -> {"none", "running", "exited"}]
    BY <1>4 DEF ProcessEnd, TypeOK
  <2>2. QED BY <1>4, <2>1 DEF ProcessEnd, TypeOK
<1>5. CASE \E h \in Host, w \in Worker : Heartbeat(h, w) BY <1>5, TypeHeartbeat
<1>6. CASE UNCHANGED vars BY <1>6 DEF vars, TypeOK
<1>7. QED BY <1>1, <1>2, <1>3, <1>4, <1>5, <1>6 DEF Next

\* Every record and every runtime's state stays one that the code can build.
THEOREM TypeCorrect == Spec => []TypeOK
BY TypeInit, TypeNext, PTL DEF Spec

-----------------------------------------------------------------------------
(* The lease.  GrantHonoured alone is not inductive: see LeaseInv. *)

\* Nobody but the asking runtime counts on a grant when acquireLease succeeds.
LEMMA VacantFact ==
  ASSUME LeaseInv, NEW h \in Host, CanAcquire(h), NEW g \in Host, until[g] > 0
  PROVE  g = h
<1>1. lease.owner = g /\ lease.left = until[g] /\ until[g] \in Nat /\ lease.left \in Nat
  BY DEF LeaseInv, GrantHonoured, TypeOK
<1>2. lease.left # 0 BY <1>1
<1>3. lease.owner # NoHost BY <1>1, CoordinatorAssumption DEF CoordinatorAssumption
<1>4. QED BY <1>1, <1>2, <1>3 DEF CanAcquire

\* At first nobody holds a grant.
LEMMA LeaseInit == Init => LeaseInv
<1> SUFFICES ASSUME Init PROVE LeaseInv OBVIOUS
<1>1. TypeOK BY TypeInit
<1>2. GrantHonoured /\ OnlyUpBelieves BY DEF Init, GrantHonoured, OnlyUpBelieves
<1>3. QED BY <1>1, <1>2 DEF LeaseInv

\* A step of a runtime's life or of a dispatch pass keeps the lease invariant.
LEMMA LeaseRuntime ==
  ASSUME LeaseInv, NEW h \in Host, Runtime(h)
  PROVE  GrantHonoured' /\ OnlyUpBelieves'
<1> USE DEF records, life, dispatching, heart, timing
<1>t. TypeOK /\ GrantHonoured /\ OnlyUpBelieves BY DEF LeaseInv
<1>1. CASE Start(h)
  <2>1. run[h] = "down" /\ until' = until /\ lease' = lease BY <1>1 DEF Start
  <2>2. \A g \in Host : run'[g] # "up" => run[g] # "up" BY <1>1, <1>t DEF Start, TypeOK
  <2>3. QED BY <2>1, <2>2, <1>t DEF GrantHonoured, OnlyUpBelieves
<1>2. CASE ExecutorBeat(h) \/ EndPass(h)
  <2>1. run' = run /\ until' = until /\ lease' = lease BY <1>2 DEF ExecutorBeat, EndPass
  <2>2. QED BY <2>1, <1>t DEF GrantHonoured, OnlyUpBelieves
<1>3. CASE StopScheduler(h)
  <2>1. until' = [until EXCEPT ![h] = 0] /\ run' = [run EXCEPT ![h] = "stopping"]
        /\ lease' = Released(h)
    BY <1>3 DEF StopScheduler
  <2>2. ASSUME NEW g \in Host, until'[g] > 0
        PROVE  g # h /\ lease'.owner = g /\ lease'.left = until'[g]
    <3>1. g # h /\ until'[g] = until[g] BY <2>1, <2>2, <1>t DEF TypeOK
    <3>2. lease.owner = g /\ lease.left = until[g]
      BY <3>1, <2>2, <1>t DEF GrantHonoured
    <3>3. lease' = lease BY <2>1, <3>1, <3>2 DEF Released
    <3>4. QED BY <3>1, <3>2, <3>3
  <2>3. GrantHonoured' BY <2>2 DEF GrantHonoured
  <2>4. OnlyUpBelieves' BY <2>1, <1>t DEF OnlyUpBelieves, TypeOK
  <2>5. QED BY <2>3, <2>4
<1>4. CASE ListOwned(h)
  <2>1. run[h] = "stopping" /\ until' = until /\ lease' = lease BY <1>4 DEF ListOwned
  <2>2. \A g \in Host : run'[g] # "up" => run[g] # "up" BY <1>4, <1>t DEF ListOwned, TypeOK
  <2>3. QED BY <2>1, <2>2, <1>t DEF GrantHonoured, OnlyUpBelieves
<1>5. CASE Unregister(h)
  <2>1. until' = until /\ run' = [run EXCEPT ![h] = "off"] /\ lease' = Released(h)
        /\ run[h] = "draining"
    BY <1>5 DEF Unregister
  <2>2. until[h] = 0 BY <2>1, <1>t DEF OnlyUpBelieves
  <2>3. ASSUME NEW g \in Host, until'[g] > 0
        PROVE  lease'.owner = g /\ lease'.left = until'[g]
    <3>1. g # h BY <2>1, <2>2, <2>3
    <3>2. lease.owner = g /\ lease.left = until[g]
      BY <2>1, <2>3, <1>t DEF GrantHonoured
    <3>3. lease' = lease BY <2>1, <3>1, <3>2 DEF Released
    <3>4. QED BY <2>1, <3>2, <3>3
  <2>4. GrantHonoured' BY <2>3 DEF GrantHonoured
  <2>5. OnlyUpBelieves' BY <2>1, <2>2, <1>t DEF OnlyUpBelieves, TypeOK
  <2>6. QED BY <2>4, <2>5
<1>6. CASE Crash(h)
  <2>1. until' = [until EXCEPT ![h] = 0] /\ run' = [run EXCEPT ![h] = "down"]
        /\ lease' = lease
    BY <1>6 DEF Crash
  <2>2. \A g \in Host : until'[g] > 0 => until'[g] = until[g] /\ until[g] > 0
    BY <2>1, <1>t DEF TypeOK
  <2>3. GrantHonoured' BY <2>1, <2>2, <1>t DEF GrantHonoured
  <2>4. OnlyUpBelieves' BY <2>1, <1>t DEF OnlyUpBelieves, TypeOK
  <2>5. QED BY <2>3, <2>4
<1>7. CASE BeginPass(h)
  <2>1. until' = [until EXCEPT ![h] = LeaseTtl] /\ run' = run /\ lease' = Acquired(h)
        /\ run[h] = "up" /\ CanAcquire(h)
    BY <1>7 DEF BeginPass
  <2>2. lease'.owner = h /\ lease'.left = LeaseTtl BY <2>1 DEF Acquired
  <2>3. \A g \in Host : g # h => until'[g] = until[g] BY <2>1, <1>t DEF TypeOK
  <2>4. \A g \in Host : until'[g] > 0 => g = h BY <2>1, <2>3, VacantFact
  <2>5. until'[h] = LeaseTtl
    BY <2>1, <1>t, CoordinatorAssumption DEF TypeOK, CoordinatorAssumption
  <2>6. GrantHonoured' BY <2>2, <2>4, <2>5 DEF GrantHonoured
  <2>7. OnlyUpBelieves' BY <2>1, <2>3, <1>t DEF OnlyUpBelieves
  <2>8. QED BY <2>6, <2>7
<1>8. QED BY <1>1, <1>2, <1>3, <1>4, <1>5, <1>6, <1>7 DEF Runtime

\* A worker's heartbeat touches neither the lease nor a runtime's grant.
LEMMA LeaseHeartbeat ==
  ASSUME NEW h \in Host, NEW w \in Worker, Heartbeat(h, w)
  PROVE  UNCHANGED <<lease, run, until>>
BY DEF Heartbeat, StartWorker, SetTimer, StopUnhandled, Reattach, WorkerBeat,
       Deliver, StopBeat, records, life, dispatching

\* Grants and the lease they stand for grow old together.
LEMMA LeaseTick == LeaseInv /\ Tick => GrantHonoured' /\ OnlyUpBelieves'
<1> SUFFICES ASSUME LeaseInv, Tick PROVE GrantHonoured' /\ OnlyUpBelieves' OBVIOUS
<1>1. TypeOK /\ GrantHonoured /\ OnlyUpBelieves BY DEF LeaseInv
<1>2. /\ lease.left \in Nat /\ lease'.left = Minus(lease.left) /\ lease'.owner = lease.owner
      /\ run' = run
  BY <1>1 DEF TypeOK, Tick, life
<1>3. \A h \in Host : until[h] \in Nat /\ until'[h] = Minus(until[h])
  BY <1>1 DEF TypeOK, Tick
<1>4. ASSUME NEW h \in Host, until'[h] > 0
      PROVE  lease'.owner = h /\ lease'.left = until'[h]
  <2>1. until[h] > 0 /\ until'[h] = until[h] - 1 BY <1>3, <1>4 DEF Minus
  <2>2. lease.owner = h /\ lease.left = until[h] BY <2>1, <1>1 DEF GrantHonoured
  <2>3. lease'.left = lease.left - 1 BY <2>1, <2>2, <1>2, <1>3 DEF Minus
  <2>4. QED BY <2>1, <2>2, <2>3, <1>2, <1>3
<1>5. OnlyUpBelieves' BY <1>1, <1>2, <1>3 DEF OnlyUpBelieves, Minus
<1>6. QED BY <1>4, <1>5 DEF GrantHonoured

\* An expired lease backs no grant, so getLease may delete it.
LEMMA LeaseGet == LeaseInv /\ GetLease => GrantHonoured' /\ OnlyUpBelieves'
<1> SUFFICES ASSUME LeaseInv, GetLease PROVE GrantHonoured' /\ OnlyUpBelieves' OBVIOUS
<1>1. lease.left = 0 /\ until' = until /\ run' = run
  BY DEF GetLease, life, dispatching
<1>2. \A h \in Host : until[h] = 0 BY <1>1 DEF LeaseInv, GrantHonoured, TypeOK
<1>3. QED BY <1>1, <1>2 DEF GrantHonoured, OnlyUpBelieves

\* Every step keeps the lease invariant.
LEMMA LeaseNext == LeaseInv /\ [Next]_vars => LeaseInv'
<1> SUFFICES ASSUME LeaseInv, [Next]_vars PROVE LeaseInv' OBVIOUS
<1>1. TypeOK' BY TypeNext DEF LeaseInv
<1>2. ASSUME UNCHANGED <<lease, run, until>> PROVE GrantHonoured' /\ OnlyUpBelieves'
  BY <1>2 DEF LeaseInv, GrantHonoured, OnlyUpBelieves
<1>3. CASE Tick BY <1>1, <1>3, LeaseTick DEF LeaseInv
<1>4. CASE GetLease BY <1>1, <1>4, LeaseGet DEF LeaseInv
<1>5. CASE \E h \in Host : Runtime(h) BY <1>1, <1>5, LeaseRuntime DEF LeaseInv
<1>6. CASE \E w \in Worker : ProcessEnd(w)
  BY <1>1, <1>2, <1>6 DEF ProcessEnd, LeaseInv, records, life, dispatching
<1>7. CASE \E h \in Host, w \in Worker : Heartbeat(h, w)
  BY <1>1, <1>2, <1>7, LeaseHeartbeat DEF LeaseInv
<1>8. CASE UNCHANGED vars BY <1>1, <1>2, <1>8 DEF vars, LeaseInv
<1>9. QED BY <1>3, <1>4, <1>5, <1>6, <1>7, <1>8 DEF Next

\* A grant a runtime has not given up is backed by the lease until it ends.
THEOREM GrantsHonoured == Spec => []GrantHonoured
<1>1. LeaseInv => GrantHonoured BY DEF LeaseInv
<1>2. QED BY <1>1, LeaseInit, LeaseNext, PTL DEF Spec

-----------------------------------------------------------------------------
(* Coordinator implements LeaderLease. *)

Holder == IF lease.left > 0 THEN lease.owner ELSE NoHost
Believers == {h \in Host : until[h] > 0}

\* The initial states map to an initial state of LeaderLease.
LEMMA LeaderInit == Init => LL!Init
<1> SUFFICES ASSUME Init PROVE LL!Init OBVIOUS
<1>1. lease.left = 0 /\ \A h \in Host : ~(until[h] > 0) BY DEF Init, NoLease
<1>2. QED BY <1>1 DEF LL!Init

\* acquireLease is a grant.
LEMMA LeaderGrant ==
  ASSUME LeaseInv, NEW h \in Host, BeginPass(h)
  PROVE  LL!Grant(h)
<1>1. TypeOK BY DEF LeaseInv
<1>2. /\ until' = [until EXCEPT ![h] = LeaseTtl] /\ lease' = Acquired(h)
      /\ CanAcquire(h) /\ LeaseTtl > 0
  BY CoordinatorAssumption DEF BeginPass, CoordinatorAssumption
<1>3. Holder \in {NoHost, h} BY <1>1, <1>2 DEF CanAcquire, Holder, TypeOK
<1>4. lease'.owner = h /\ lease'.left = LeaseTtl BY <1>2 DEF Acquired
<1>5. Holder' = h BY <1>2, <1>4 DEF Holder
<1>6. Believers' = Believers \cup {h}
  <2>1. \A g \in Host : until'[g] > 0 <=> (until[g] > 0 \/ g = h)
    BY <1>1, <1>2 DEF TypeOK
  <2>2. QED BY <2>1 DEF Believers
<1>7. QED BY <1>3, <1>5, <1>6 DEF LL!Grant, Holder, Believers

\* Scheduler.stop and unregisterExecutor give the lease up.
LEMMA LeaderResign ==
  ASSUME LeaseInv, NEW h \in Host, lease' = Released(h),
         until' = [until EXCEPT ![h] = 0]
  PROVE  LL!Resign(h)
<1>1. TypeOK BY DEF LeaseInv
<1>2. Holder' = IF Holder = h THEN NoHost ELSE Holder
  <2>1. CASE lease.owner = h
    <3>1. lease'.left = 0 BY <2>1 DEF Released, NoLease
    <3>2. QED BY <2>1, <3>1 DEF Holder
  <2>2. CASE lease.owner # h
    <3>1. lease' = lease /\ Holder # h
      BY <2>2, CoordinatorAssumption DEF Released, Holder, CoordinatorAssumption
    <3>2. QED BY <3>1 DEF Holder
  <2>3. QED BY <2>1, <2>2
<1>3. Believers' = Believers \ {h}
  <2>1. \A g \in Host : until'[g] > 0 <=> (until[g] > 0 /\ g # h) BY <1>1 DEF TypeOK
  <2>2. QED BY <2>1 DEF Believers
<1>4. QED BY <1>2, <1>3 DEF LL!Resign, Holder, Believers

\* A tick lapses the lease or changes neither holder nor believers.
LEMMA LeaderTick ==
  ASSUME LeaseInv, LeaseInv', Tick
  PROVE  LL!Lapse \/ UNCHANGED <<Holder, Believers>>
<1>1. TypeOK /\ GrantHonoured BY DEF LeaseInv
<1>2. /\ lease.left \in Nat /\ lease'.left = Minus(lease.left) /\ lease'.owner = lease.owner
      /\ \A h \in Host : until[h] \in Nat /\ until'[h] = Minus(until[h])
  BY <1>1 DEF TypeOK, Tick
<1>3. CASE lease'.left = 0
  <2>1. \A h \in Host : ~(until'[h] > 0)
    BY <1>3 DEF LeaseInv, GrantHonoured, TypeOK
  <2>2. QED BY <1>3, <2>1 DEF LL!Lapse
<1>4. CASE lease'.left # 0
  <2>1. lease.left > 0 /\ lease'.left = lease.left - 1 /\ lease'.left > 0
    BY <1>2, <1>4 DEF Minus
  <2>2. Holder' = Holder BY <1>2, <2>1 DEF Holder
  <2>3. \A h \in Host : until'[h] > 0 <=> until[h] > 0
    BY <1>1, <1>2, <2>1 DEF GrantHonoured, Minus
  <2>4. QED BY <2>2, <2>3 DEF Believers
<1>5. QED BY <1>3, <1>4

\* Every other step keeps holder and believers, except that a crash forgets.
LEMMA LeaderNext ==
  ASSUME LeaseInv, LeaseInv', [Next]_vars
  PROVE  [LL!Next]_<<Holder, Believers>>
<1> USE DEF records, life, dispatching, heart, timing
<1>0. ASSUME UNCHANGED <<lease, until>> PROVE UNCHANGED <<Holder, Believers>>
  BY <1>0 DEF Holder, Believers
<1>1. CASE Tick BY <1>1, LeaderTick DEF LL!Next
<1>2. CASE GetLease
  <2>1. lease.left = 0 /\ lease'.left = 0 /\ until' = until
    BY <1>2 DEF GetLease, NoLease
  <2>2. QED BY <2>1 DEF Holder, Believers
<1>3. ASSUME NEW h \in Host, Runtime(h) PROVE [LL!Next]_<<Holder, Believers>>
  <2>1. CASE Start(h) \/ ExecutorBeat(h) \/ ListOwned(h) \/ EndPass(h)
    BY <1>0, <2>1 DEF Start, ExecutorBeat, ListOwned, EndPass
  <2>2. CASE StopScheduler(h)
    BY <2>2, LeaderResign DEF StopScheduler, LL!Next
  <2>3. CASE Unregister(h)
    <3>1. until[h] = 0 /\ until' = until /\ lease' = Released(h)
      BY <2>3 DEF Unregister, LeaseInv, OnlyUpBelieves
    <3>2. until' = [until EXCEPT ![h] = 0]
      BY <3>1 DEF LeaseInv, TypeOK
    <3>3. QED BY <3>1, <3>2, LeaderResign DEF LL!Next
  <2>4. CASE Crash(h)
    <3>1. lease' = lease /\ until' = [until EXCEPT ![h] = 0] BY <2>4 DEF Crash
    <3>2. \A g \in Host : until'[g] > 0 <=> (until[g] > 0 /\ g # h)
      BY <3>1 DEF LeaseInv, TypeOK
    <3>3. Holder' = Holder /\ Believers' = Believers \ {h}
      BY <3>1, <3>2 DEF Holder, Believers
    <3>4. QED BY <3>3 DEF LL!Next, LL!Crash, Holder, Believers
  <2>5. CASE BeginPass(h) BY <2>5, LeaderGrant DEF LL!Next
  <2>6. QED BY <1>3, <2>1, <2>2, <2>3, <2>4, <2>5 DEF Runtime
<1>4. CASE \E w \in Worker : ProcessEnd(w) BY <1>0, <1>4 DEF ProcessEnd
<1>5. CASE \E h \in Host, w \in Worker : Heartbeat(h, w)
  BY <1>0, <1>5, LeaseHeartbeat
<1>6. CASE UNCHANGED vars BY <1>0, <1>6 DEF vars
<1>7. QED BY <1>1, <1>2, <1>3, <1>4, <1>5, <1>6 DEF Next

\* The coordinator and its runtimes implement the single-leader lease.
THEOREM Leadership == Spec => SingleLeader
<1>1. LeaseInv /\ LeaseInv' /\ [Next]_vars => [LL!Next]_<<Holder, Believers>>
  BY LeaderNext
<1>2. QED BY <1>1, LeaderInit, LeaseInit, LeaseNext, PTL
      DEF Spec, SingleLeader, LL!Spec, LL!lvars, Holder, Believers

-----------------------------------------------------------------------------
(* Assignments *)

\* What is stored for a worker under another owner has a newer version.
LEMMA HandOver ==
  ASSUME TypeOK, NEW h \in Host, NEW w \in Worker
  PROVE  /\ \/ Upserted(w, h).version > assigned[w].version
            \/ assigned[w].version = MaxVersion
         /\ ReleasedBy(w, h).host = assigned[w].host
         /\ Dropped(w, h).host = assigned[w].host
<1>1. assigned[w] \in AssignmentRec BY DEF TypeOK, AssignmentRec
<1>2. \/ Advance(assigned[w].version) > assigned[w].version
      \/ assigned[w].version = MaxVersion
  BY <1>1, AdvanceFact DEF AssignmentRec
<1>3. QED BY <1>1, <1>2 DEF Upserted, ReleasedBy, Dropped, AssignmentRec

\* In every step an assignment that changes hands gets a newer version.
LEMMA FencedStep ==
  ASSUME TypeOK, [Next]_vars, NEW w \in Worker, assigned'[w].host # assigned[w].host
  PROVE  assigned'[w].version > assigned[w].version \/ assigned[w].version = MaxVersion
<1> USE DEF records, life, dispatching, heart, timing
<1>0. assigned \in [Worker -> AssignmentRec] BY DEF TypeOK, AssignmentRec
<1>1. CASE Tick
  <2>1. assigned'[w] = [assigned[w] EXCEPT !.left = Minus(@)] BY <1>1 DEF Tick
  <2>2. QED BY <2>1, <1>0 DEF AssignmentRec
<1>2. CASE GetLease BY <1>2 DEF GetLease
<1>3. ASSUME NEW h \in Host, Runtime(h)
      PROVE  assigned'[w] = assigned[w] \/ assigned'[w] = Dropped(w, h)
  BY <1>3 DEF Runtime, Start, ExecutorBeat, StopScheduler, ListOwned, Unregister,
              Crash, BeginPass, EndPass
<1>4. CASE \E x \in Worker : ProcessEnd(x) BY <1>4 DEF ProcessEnd
<1>5. ASSUME NEW h \in Host, NEW x \in Worker, Heartbeat(h, x)
      PROVE  \/ assigned'[w] = assigned[w] \/ assigned'[w] = Upserted(w, h)
             \/ assigned'[w] = ReleasedBy(w, h)
  BY <1>0, <1>5 DEF Heartbeat, StartWorker, SetTimer, StopUnhandled, Reattach,
                    WorkerBeat, Deliver, StopBeat
<1>6. CASE UNCHANGED vars BY <1>6 DEF vars
<1>7. QED BY <1>1, <1>2, <1>3, <1>4, <1>5, <1>6, HandOver DEF Next

\* No assignment passes to another runtime without a newer version.
THEOREM AssignmentsFenced == Spec => AssignmentFenced
<1>1. TypeOK /\ [Next]_vars =>
      [\A w \in Worker : assigned'[w].host # assigned[w].host
         => assigned'[w].version > assigned[w].version
            \/ assigned[w].version = MaxVersion]_vars
  BY FencedStep
<1>2. QED BY <1>1, TypeInit, TypeNext, PTL DEF Spec, AssignmentFenced

-----------------------------------------------------------------------------
(* Heartbeats.  BeatInv is inductive; AliveIsFresh and EndedNotRenewed follow *)
(* from it.                                                                   *)

\* The timers: only one that is set fires, and a runtime that is down has none.
TimersSet ==
  /\ \A w \in Worker : dueBeat[w] \subseteq beating[w]
  /\ \A h \in Host : run[h] = "down"
       => h \notin pass /\ \A w \in Worker : claim[w] # h /\ h \notin beating[w]
  /\ ~Service => net = {}

\* A runtime that is up has registered, and beats before a tick can age it twice.
Registered ==
  \A h \in Host : run[h] = "up"
    => /\ executors[h].gen > 0
       /\ executors[h].age = 0 \/ (h \in due /\ executors[h].age <= 1)

\* The assignment of a live worker is renewed by its owner before it expires:
\* it has two ticks left, or an upsert is due or on its way.
Renewing(w) ==
  LET h == assigned[w].host IN
    child[w] = "running" /\ h \in Host /\ run[h] = "up" /\ (h \in beating[w] \/ claim[w] = h)
      => /\ assigned[w].status = "active" /\ assigned[w].left >= 1
         /\ assigned[w].left >= 2 \/ h \in dueBeat[w] \/ \E g \in Host : <<g, w>> \in net

BeatInv == TypeOK /\ TimersSet /\ Registered /\ \A w \in Worker : Renewing(w)

\* Two ticks are left of what is renewed, an executor is stale only after a
\* missed beat, and a service answers in time.
InTime == HeartbeatTtl >= 2 /\ StaleAfter >= 1 /\ (Timely \/ ~Service)

\* No timer is set at first.
LEMMA BeatInit == Init => TimersSet /\ Registered /\ \A w \in Worker : Renewing(w)
<1> SUFFICES ASSUME Init PROVE TimersSet /\ Registered /\ \A w \in Worker : Renewing(w)
  OBVIOUS
<1>1. TimersSet
  <2>1. /\ pass = {} /\ net = {} /\ claim = [w \in Worker |-> NoHost]
        /\ beating = [w \in Worker |-> {}] /\ dueBeat = [w \in Worker |-> {}]
    BY DEF Init
  <2>2. QED BY <2>1, CoordinatorAssumption DEF TimersSet, CoordinatorAssumption
<1>2. Registered /\ \A w \in Worker : Renewing(w)
  <2>1. run = [h \in Host |-> "down"] BY DEF Init
  <2>2. QED BY <2>1 DEF Registered, Renewing
<1>3. QED BY <1>1, <1>2

\* Timers are set and cleared with what they are for, whatever the TTLs.
LEMMA TimersNext ==
  ASSUME TypeOK, TimersSet, [Next]_vars
  PROVE  TimersSet'
<1> USE DEF records, life, dispatching, heart, timing
<1>1. CASE Tick
  <2>1. dueBeat' = beating /\ UNCHANGED <<net, run, pass, claim, beating>> BY <1>1 DEF Tick
  <2>2. QED BY <2>1 DEF TimersSet
<1>2. CASE GetLease BY <1>2 DEF GetLease, TimersSet
<1>3. ASSUME NEW h \in Host, Runtime(h) PROVE TimersSet'
  <2>1. CASE Crash(h)
    <3>1. /\ run' = [run EXCEPT ![h] = "down"] /\ pass' = pass \ {h} /\ net' = net
          /\ \A w \in Worker : /\ beating'[w] = beating[w] \ {h}
                               /\ dueBeat'[w] = dueBeat[w] \ {h}
                               /\ claim'[w] = IF claim[w] = h THEN NoHost ELSE claim[w]
      BY <2>1 DEF Crash
    <3>2. NoHost \notin Host BY CoordinatorAssumption DEF CoordinatorAssumption
    <3>3. \A w \in Worker : dueBeat'[w] \subseteq beating'[w] BY <3>1 DEF TimersSet
    <3>4. ASSUME NEW g \in Host, run'[g] = "down"
          PROVE  g \notin pass' /\ \A w \in Worker : claim'[w] # g /\ g \notin beating'[w]
      <4>1. g = h \/ run[g] = "down" BY <3>1, <3>4 DEF TypeOK
      <4>2. g # NoHost BY <3>2
      <4>3. CASE g = h BY <3>1, <4>2, <4>3
      <4>4. CASE run[g] = "down" BY <3>1, <4>2, <4>4 DEF TimersSet
      <4>5. QED BY <4>1, <4>3, <4>4
    <3>5. ~Service => net' = {} BY <3>1 DEF TimersSet
    <3>6. QED BY <3>3, <3>4, <3>5 DEF TimersSet
  <2>2. CASE Start(h) \/ ExecutorBeat(h) \/ StopScheduler(h) \/ ListOwned(h) \/ Unregister(h)
    <3>1. /\ \/ run' = run
             \/ \E s \in {"up", "stopping", "draining", "off"} : run' = [run EXCEPT ![h] = s]
          /\ UNCHANGED <<pass, net, claim, beating, dueBeat>>
      BY <2>2 DEF Start, ExecutorBeat, StopScheduler, ListOwned, Unregister
    <3>2. \A g \in Host : run'[g] = "down" => run[g] = "down" BY <3>1 DEF TypeOK
    <3>3. QED BY <3>1, <3>2 DEF TimersSet
  <2>3. CASE BeginPass(h) \/ EndPass(h)
    BY <2>3 DEF BeginPass, EndPass, TimersSet, TypeOK
  <2>4. QED BY <1>3, <2>1, <2>2, <2>3 DEF Runtime
<1>4. CASE \E w \in Worker : ProcessEnd(w) BY <1>4 DEF ProcessEnd, TimersSet
<1>5. ASSUME NEW h \in Host, NEW w \in Worker, Heartbeat(h, w) PROVE TimersSet'
  <2>1. CASE StartWorker(h, w) BY <2>1 DEF StartWorker, TimersSet, TypeOK
  <2>2. CASE SetTimer(h, w)
    <3>1. claim[w] = h /\ NoHost \notin Host
      BY <2>2, CoordinatorAssumption DEF SetTimer, CoordinatorAssumption
    <3>2. QED BY <2>2, <3>1 DEF SetTimer, TimersSet, TypeOK
  <2>3. CASE StopUnhandled(h, w) BY <2>3 DEF StopUnhandled, TimersSet
  <2>4. CASE Reattach(h, w) BY <2>4 DEF Reattach, TimersSet, TypeOK
  <2>5. CASE WorkerBeat(h, w) BY <2>5 DEF WorkerBeat, TimersSet, TypeOK
  <2>6. CASE Deliver(h, w) BY <2>6 DEF Deliver, TimersSet
  <2>7. CASE StopBeat(h, w) BY <2>7 DEF StopBeat, TimersSet, TypeOK
  <2>8. QED BY <1>5, <2>1, <2>2, <2>3, <2>4, <2>5, <2>6, <2>7 DEF Heartbeat
<1>6. CASE UNCHANGED vars BY <1>6 DEF vars, TimersSet
<1>7. QED BY <1>1, <1>2, <1>3, <1>4, <1>5, <1>6 DEF Next

\* A runtime that is up stays registered and beats between two ticks.
LEMMA RegisteredNext ==
  ASSUME TypeOK, Registered, [Next]_vars
  PROVE  Registered'
<1> USE DEF records, life, dispatching, heart, timing
<1>1. CASE Tick
  <2>1. \A h \in Host : executors'[h] = Aged(executors[h]) /\ executors[h].age \in Nat
    BY <1>1, CoordinatorAssumption DEF Tick, TypeOK, CoordinatorAssumption
  <2>2. due = {} /\ due' = {h \in Host : run[h] = "up"} /\ run' = run
    BY <1>1 DEF Tick, Punctual
  <2>3. \A h \in Host : run[h] = "up" => executors'[h].gen > 0 /\ executors'[h].age <= 1
    <3>1. TAKE h \in Host
    <3>2. HAVE run[h] = "up"
    <3>3. executors[h].gen > 0 /\ executors[h].age = 0 BY <2>2, <3>2 DEF Registered
    <3>4. executors'[h].gen = executors[h].gen /\ executors'[h].age \in {0, 1}
      <4>1. executors'[h] = Aged(executors[h]) BY <2>1
      <4>2. /\ Aged(executors[h]).gen = executors[h].gen
            /\ Aged(executors[h]).age = executors[h].age
               \/ Aged(executors[h]).age = executors[h].age + 1
        BY DEF Aged
      <4>3. QED BY <3>3, <4>1, <4>2
    <3>5. QED BY <3>3, <3>4
  <2>4. QED BY <2>2, <2>3 DEF Registered
<1>2. CASE GetLease BY <1>2 DEF GetLease, Registered
<1>3. ASSUME NEW h \in Host, Runtime(h) PROVE Registered'
  <2>1. CASE Start(h)
    <3>1. executors[h].gen \in Nat BY DEF TypeOK
    <3>2. executors' = [executors EXCEPT ![h] = [gen |-> executors[h].gen + 1, age |-> 0]]
      BY <2>1 DEF Start
    <3>3. executors'[h].gen > 0 /\ executors'[h].age = 0 BY <3>1, <3>2 DEF TypeOK
    <3>4. QED BY <2>1, <3>2, <3>3 DEF Start, Registered, TypeOK
  <2>2. CASE ExecutorBeat(h)
    <3>1. executors' = [executors EXCEPT ![h] = [gen |-> executors[h].gen, age |-> 0]]
      BY <2>2 DEF ExecutorBeat
    <3>2. QED BY <2>2, <3>1 DEF ExecutorBeat, Registered, TypeOK
  <2>3. CASE StopScheduler(h) \/ ListOwned(h)
    BY <2>3 DEF StopScheduler, ListOwned, Registered, TypeOK
  <2>4. CASE Unregister(h) \/ Crash(h)
    BY <2>4 DEF Unregister, Crash, Registered, TypeOK
  <2>5. CASE BeginPass(h) \/ EndPass(h) BY <2>5 DEF BeginPass, EndPass, Registered
  <2>6. QED BY <1>3, <2>1, <2>2, <2>3, <2>4, <2>5 DEF Runtime
<1>4. CASE \E w \in Worker : ProcessEnd(w) BY <1>4 DEF ProcessEnd, Registered
<1>5. ASSUME NEW h \in Host, NEW w \in Worker, Heartbeat(h, w) PROVE Registered'
  <2>1. UNCHANGED <<run, executors, due>>
    BY <1>5 DEF Heartbeat, StartWorker, SetTimer, StopUnhandled, Reattach,
                WorkerBeat, Deliver, StopBeat
  <2>2. QED BY <2>1 DEF Registered
<1>6. CASE UNCHANGED vars BY <1>6 DEF vars, Registered
<1>7. QED BY <1>1, <1>2, <1>3, <1>4, <1>5, <1>6 DEF Next

\* An upsert renews the assignment, whoever sends it.
LEMMA UpsertRenews ==
  ASSUME InTime, TypeOK, NEW h \in Host, NEW w \in Worker,
         assigned'[w] = Upserted(w, h)
  PROVE  Renewing(w)'
<1>1. /\ assigned'[w].host = h /\ assigned'[w].status = "active"
      /\ assigned'[w].left = HeartbeatTtl
  BY DEF Upserted
<1>2. HeartbeatTtl >= 2 /\ HeartbeatTtl \in Nat
  BY CoordinatorAssumption DEF InTime, CoordinatorAssumption
<1>3. QED BY <1>1, <1>2 DEF Renewing

\* Assignments of live workers are renewed in time.
LEMMA RenewingNext ==
  ASSUME InTime, BeatInv, [Next]_vars, NEW w \in Worker
  PROVE  Renewing(w)'
<1> USE DEF records, life, dispatching, heart, timing
<1>t. /\ TypeOK /\ TimersSet /\ Renewing(w) /\ assigned[w] \in AssignmentRec
      /\ assigned[w].left \in Nat /\ assigned \in [Worker -> AssignmentRec]
  BY CoordinatorAssumption DEF BeatInv, TypeOK, AssignmentRec, CoordinatorAssumption
<1>n. NoHost \notin Host BY CoordinatorAssumption DEF CoordinatorAssumption
<1>1. CASE Tick
  <2>1. /\ dueBeat[w] = {} /\ claim[w] = NoHost /\ net = {}
        /\ dueBeat' = beating /\ UNCHANGED <<run, beating, claim, child>>
    BY <1>1, <1>t, CoordinatorAssumption
       DEF Tick, Punctual, InTime, TimersSet, CoordinatorAssumption
  <2>2. assigned'[w] = [assigned[w] EXCEPT !.left = Minus(@)] BY <1>1 DEF Tick
  <2>3. /\ assigned'[w].host = assigned[w].host /\ assigned'[w].status = assigned[w].status
        /\ assigned'[w].left = Minus(assigned[w].left)
    BY <2>2, <1>t DEF AssignmentRec
  <2>4. assigned[w].left >= 2 => assigned'[w].left >= 1 BY <2>3, <1>t DEF Minus
  <2>5. QED BY <2>1, <2>3, <2>4, <1>t, <1>n DEF Renewing
<1>2. CASE GetLease BY <1>2, <1>t DEF GetLease, Renewing
<1>3. ASSUME NEW h \in Host, Runtime(h) PROVE Renewing(w)'
  <2>1. CASE Start(h)
    <3>1. h \notin beating[w] /\ claim[w] # h BY <2>1, <1>t DEF Start, TimersSet
    <3>2. UNCHANGED <<assigned, net, child, claim, beating, dueBeat>>
          /\ run' = [run EXCEPT ![h] = "up"]
      BY <2>1 DEF Start
    <3>3. QED BY <3>1, <3>2, <1>t DEF Renewing, TypeOK
  <2>2. CASE ExecutorBeat(h) \/ BeginPass(h) \/ EndPass(h)
    BY <2>2, <1>t DEF ExecutorBeat, BeginPass, EndPass, Renewing
  <2>3. CASE StopScheduler(h) \/ ListOwned(h)
    <3>1. /\ \E s \in {"stopping", "draining"} : run' = [run EXCEPT ![h] = s]
          /\ UNCHANGED <<assigned, net, child, claim, beating, dueBeat>>
      BY <2>3 DEF StopScheduler, ListOwned
    <3>2. \A g \in Host : run'[g] = "up" => run[g] = "up" BY <3>1, <1>t DEF TypeOK
    <3>3. QED BY <3>1, <3>2, <1>t DEF Renewing
  <2>4. CASE Unregister(h)
    <3>1. /\ assigned'[w] = Dropped(w, h) /\ run' = [run EXCEPT ![h] = "off"]
          /\ UNCHANGED <<net, child, claim, beating, dueBeat>>
      BY <2>4 DEF Unregister
    <3>2. CASE assigned[w].host = h
      <4>1. assigned'[w].host = h BY <3>1, <3>2, HandOver, <1>t
      <4>2. run'[h] = "off" BY <3>1, <1>t DEF TypeOK
      <4>3. QED BY <4>1, <4>2 DEF Renewing
    <3>3. CASE assigned[w].host # h
      <4>1. assigned'[w] = assigned[w] BY <3>1, <3>3 DEF Dropped
      <4>2. QED BY <3>1, <4>1, <1>t DEF Renewing, TypeOK
    <3>4. QED BY <3>2, <3>3
  <2>5. CASE Crash(h)
    <3>1. /\ UNCHANGED <<assigned, net, child>> /\ run' = [run EXCEPT ![h] = "down"]
          /\ beating'[w] = beating[w] \ {h} /\ dueBeat'[w] = dueBeat[w] \ {h}
          /\ claim'[w] = IF claim[w] = h THEN NoHost ELSE claim[w]
      BY <2>5 DEF Crash
    <3>2. CASE assigned[w].host = h
      <4>1. run'[h] = "down" BY <3>1, <1>t DEF TypeOK
      <4>2. QED BY <3>1, <3>2, <4>1 DEF Renewing
    <3>3. CASE assigned[w].host # h
      BY <3>1, <3>3, <1>t, <1>n DEF Renewing, TypeOK
    <3>4. QED BY <3>2, <3>3
  <2>6. QED BY <1>3, <2>1, <2>2, <2>3, <2>4, <2>5 DEF Runtime
<1>4. ASSUME NEW x \in Worker, ProcessEnd(x) PROVE Renewing(w)'
  BY <1>4, <1>t DEF ProcessEnd, Renewing, TypeOK
<1>5. ASSUME NEW h \in Host, NEW x \in Worker, Heartbeat(h, x) PROVE Renewing(w)'
  <2>0. UNCHANGED run
    BY <1>5 DEF Heartbeat, StartWorker, SetTimer, StopUnhandled, Reattach,
                WorkerBeat, Deliver, StopBeat
  <2>1. CASE x # w
    <3>1. /\ assigned'[w] = assigned[w] /\ child'[w] = child[w] /\ claim'[w] = claim[w]
          /\ beating'[w] = beating[w] /\ dueBeat'[w] = dueBeat[w]
      BY <1>5, <2>1, <1>t DEF Heartbeat, StartWorker, SetTimer, StopUnhandled, Reattach,
                              WorkerBeat, Deliver, StopBeat, TypeOK
    <3>2. \A g \in Host : <<g, w>> \in net => <<g, w>> \in net'
      BY <1>5, <2>1 DEF Heartbeat, StartWorker, SetTimer, StopUnhandled, Reattach,
                        WorkerBeat, Deliver, StopBeat
    <3>3. QED BY <2>0, <3>1, <3>2, <1>t DEF Renewing
  <2>2. CASE x = w
    <3>1. CASE StartWorker(h, w) \/ Reattach(h, w) \/ Deliver(h, w)
      <4>1. assigned'[w] = Upserted(w, h)
        BY <3>1, <1>t DEF StartWorker, Reattach, Deliver
      <4>2. QED BY <4>1, UpsertRenews, <1>t
    <3>2. CASE SetTimer(h, w)
      <4>1. /\ claim[w] = h /\ claim'[w] = NoHost /\ beating'[w] = beating[w] \cup {h}
            /\ UNCHANGED <<assigned, net, child, dueBeat>>
        BY <3>2, <1>t DEF SetTimer, TypeOK
      <4>2. QED BY <2>0, <4>1, <1>t, <1>n DEF Renewing
    <3>3. CASE StopUnhandled(h, w) \/ StopBeat(h, w)
      <4>1. child'[w] = "exited" BY <3>3, <1>t DEF StopUnhandled, StopBeat, TypeOK
      <4>2. QED BY <4>1 DEF Renewing
    <3>4. CASE WorkerBeat(h, w)
      <4>1. CASE Service
        <5>1. /\ net' = net \cup {<<h, w>>} /\ dueBeat'[w] = dueBeat[w] \ {h}
              /\ UNCHANGED <<assigned, child, claim, beating>>
          BY <3>4, <4>1, <1>t DEF WorkerBeat, TypeOK
        <5>2. <<h, w>> \in net' /\ h \in Host BY <5>1
        <5>3. QED BY <2>0, <5>1, <5>2, <1>t DEF Renewing
      <4>2. CASE ~Service
        <5>1. assigned'[w] = Upserted(w, h) BY <3>4, <4>2, <1>t DEF WorkerBeat
        <5>2. QED BY <5>1, UpsertRenews, <1>t
      <4>3. QED BY <4>1, <4>2
    <3>5. QED BY <1>5, <2>2, <3>1, <3>2, <3>3, <3>4 DEF Heartbeat
  <2>3. QED BY <2>1, <2>2
<1>6. CASE UNCHANGED vars BY <1>6, <1>t DEF vars, Renewing
<1>7. QED BY <1>1, <1>2, <1>3, <1>4, <1>5, <1>6 DEF Next

\* As long as its owner is up and beats for it, a live worker is never taken
\* for abandoned, and no runtime that is up for stale.
THEOREM LiveStayFresh ==
  ASSUME InTime PROVE Spec => []AliveIsFresh
<1>1. BeatInv /\ [Next]_vars => BeatInv'
  BY TypeNext, TimersNext, RegisteredNext, RenewingNext DEF BeatInv
<1>2. Init => BeatInv BY TypeInit, BeatInit DEF BeatInv
<1>3. BeatInv => AliveIsFresh
  <2> SUFFICES ASSUME BeatInv PROVE AliveIsFresh OBVIOUS
  <2>1. ASSUME NEW w \in Worker, child[w] = "running", assigned[w].host \in beating[w],
               run[assigned[w].host] = "up"
        PROVE  assigned[w].status = "active" /\ assigned[w].left > 0
    <3>1. assigned[w].host \in Host BY <2>1 DEF BeatInv, TypeOK
    <3>2. Renewing(w) /\ assigned[w].left \in Nat
      BY CoordinatorAssumption DEF BeatInv, TypeOK, CoordinatorAssumption
    <3>3. QED BY <2>1, <3>1, <3>2 DEF Renewing
  <2>2. ASSUME NEW h \in Host, run[h] = "up"
        PROVE  executors[h].gen > 0 /\ executors[h].age <= StaleAfter
    <3>1. executors[h].age \in Nat /\ StaleAfter \in Nat
      BY CoordinatorAssumption DEF BeatInv, TypeOK, CoordinatorAssumption
    <3>2. QED BY <2>2, <3>1 DEF BeatInv, Registered, InTime
  <2>3. QED BY <2>1, <2>2 DEF AliveIsFresh
<1>4. QED BY <1>1, <1>2, <1>3, PTL DEF Spec

\* When a worker has exited and its heartbeats have been stopped, nothing but a
\* request already on its way renews its assignment: whatever the TTLs, and
\* however late a service answers.
THEOREM EndedStaysEnded == Spec => EndedNotRenewed
<1> DEFINE Over(w) == child[w] = "exited" /\ beating[w] = {} /\ claim[w] = NoHost
           Still(w) == /\ net' \cap (Host \X {w}) \subseteq net
                       /\ assigned'[w].left <= assigned[w].left \/ net' # net
<1> USE DEF records, life, dispatching, heart, timing
<1>1. ASSUME TypeOK, TimersSet, [Next]_vars, NEW w \in Worker, Over(w)
      PROVE  Still(w)
  <2>t. /\ assigned[w] \in AssignmentRec /\ assigned \in [Worker -> AssignmentRec]
        /\ assigned[w].left \in Nat /\ dueBeat[w] = {} /\ NoHost \notin Host
    BY <1>1, CoordinatorAssumption
       DEF TypeOK, TimersSet, AssignmentRec, CoordinatorAssumption
  <2>0. ASSUME UNCHANGED <<assigned, net>> PROVE Still(w) BY <2>0, <2>t
  <2>1. CASE Tick
    <3>1. assigned'[w] = [assigned[w] EXCEPT !.left = Minus(@)] /\ net' = net
      BY <2>1 DEF Tick
    <3>2. assigned'[w].left = Minus(assigned[w].left) BY <3>1, <2>t DEF AssignmentRec
    <3>3. QED BY <3>1, <3>2, <2>t DEF Minus
  <2>2. CASE GetLease BY <2>0, <2>2 DEF GetLease
  <2>3. ASSUME NEW h \in Host, Runtime(h) PROVE Still(w)
    <3>1. (assigned'[w] = assigned[w] \/ assigned'[w] = Dropped(w, h)) /\ net' = net
      BY <2>3 DEF Runtime, Start, ExecutorBeat, StopScheduler, ListOwned, Unregister,
                  Crash, BeginPass, EndPass
    <3>2. assigned'[w].left = assigned[w].left BY <3>1, <2>t DEF Dropped, AssignmentRec
    <3>3. QED BY <3>1, <3>2, <2>t
  <2>4. CASE \E x \in Worker : ProcessEnd(x) BY <2>0, <2>4 DEF ProcessEnd
  <2>5. ASSUME NEW h \in Host, NEW x \in Worker, Heartbeat(h, x) PROVE Still(w)
    <3>1. CASE x # w
      <4>1. assigned'[w] = assigned[w]
        BY <2>5, <3>1, <2>t DEF Heartbeat, StartWorker, SetTimer, StopUnhandled, Reattach,
                                WorkerBeat, Deliver, StopBeat
      <4>2. net' \cap (Host \X {w}) \subseteq net
        BY <2>5, <3>1 DEF Heartbeat, StartWorker, SetTimer, StopUnhandled, Reattach,
                          WorkerBeat, Deliver, StopBeat
      <4>3. QED BY <4>1, <4>2, <2>t
    <3>2. CASE x = w
      <4>1. ~StartWorker(h, w) /\ ~SetTimer(h, w) /\ ~StopUnhandled(h, w) /\ ~Reattach(h, w)
            /\ ~WorkerBeat(h, w) /\ ~StopBeat(h, w)
        BY <1>1, <2>t DEF StartWorker, SetTimer, StopUnhandled, Reattach, WorkerBeat, StopBeat
      <4>2. net' # net /\ net' \subseteq net
        BY <2>5, <3>2, <4>1 DEF Heartbeat, Deliver
      <4>3. QED BY <4>2
    <3>3. QED BY <3>1, <3>2
  <2>6. CASE UNCHANGED vars BY <2>0, <2>6 DEF vars
  <2>7. QED BY <1>1, <2>1, <2>2, <2>3, <2>4, <2>5, <2>6 DEF Next
<1>2. TypeOK /\ TimersSet /\ [Next]_vars => [\A w \in Worker : Over(w) => Still(w)]_vars
  BY <1>1
<1>3. Spec => [][\A w \in Worker : Over(w) => Still(w)]_vars
  BY <1>2, TypeInit, TypeNext, BeatInit, TimersNext, PTL DEF Spec
<1>4. QED BY <1>3 DEF EndedNotRenewed
=============================================================================
