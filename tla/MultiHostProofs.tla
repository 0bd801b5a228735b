--------------------------- MODULE MultiHostProofs ---------------------------
(***************************************************************************)
(* What holds of MultiHost for any number of hosts, jobs and workers: no   *)
(* host writes off a worker of a running one, and, where the lease is      *)
(* taken over from one host at a time, no job has two processes.           *)
(***************************************************************************)
EXTENDS MultiHost, FiniteSetTheorems, TLAPS

\* A runtime starts when no worker of a running one is listed, and a host that
\* went down stays down: the hypotheses of run mh_takeover.
Orderly == ~Joins /\ MaxBoots <= 1

\* Nor is one shut down during its pass, and beside a host that may be shut down
\* there is at most one other.
OnePlanned ==
  /\ ~StopMidPass
  /\ \A h \in Stoppable : \A g, k \in Host \ {h} : g = k

-----------------------------------------------------------------------------
(* The inductive invariant *)

PassPc == {"idle", "visit", "create", "spawn", "active", "register", "after"}
Status == {"absent", "starting", "active", "finishing", "finished", "lost"}

\* The records, as far as the proofs need them.
Shape ==
  /\ DOMAIN workers = Worker
  /\ \A w \in Worker : /\ DOMAIN workers[w] = {"status", "job", "host", "pid"}
                       /\ workers[w].status \in Status /\ workers[w].pid \in BOOLEAN
  /\ DOMAIN pass = Host
  /\ \A h \in Host : DOMAIN pass[h] = {"pc", "todo", "job", "worker"} /\ pass[h].pc \in PassPc
  /\ DOMAIN rec = Host
  /\ \A h \in Host : /\ DOMAIN rec[h] = {"pc", "forced", "todo", "victim", "fixed", "jobs"}
                     /\ rec[h].forced \in BOOLEAN /\ rec[h].todo \subseteq Worker
  /\ run \in [Host -> {"down", "boot", "up", "stopping"}] /\ boots \in [Host -> Nat]
  /\ assigned \in [Worker -> Host \cup {NoHost}]
  /\ exit \in [Worker -> {"none", "watch", "settle", "aggregate"}] /\ live \subseteq Worker

\* A start in progress.
Starting(h, w) == pass[h].worker = w /\ pass[h].pc \in {"spawn", "active", "register"}

\* A worker that has not ended at a running host is being started there or has
\* its assignment there.
Placed(w) ==
  /\ workers[w].status # "absent" => workers[w].host \in Host /\ boots[workers[w].host] # 0
  /\ workers[w].status = "absent" => w \notin live /\ ~workers[w].pid /\ exit[w] = "none"
  /\ w \in Unended /\ Here(w)
       => assigned[w] = workers[w].host \/ Starting(workers[w].host, w)
  /\ w \in live /\ workers[w].pid => workers[w].status = "active"
  /\ exit[w] = "settle" => w \notin live

\* What a pass, and a host, is doing.
Passing(h) ==
  /\ run[h] # "down" => boots[h] # 0
  /\ boots[h] <= MaxBoots
  /\ pass[h].pc # "idle" => Running(h)
  /\ pass[h].pc \in {"spawn", "active", "register", "after"} =>
       /\ pass[h].worker \in Worker /\ workers[pass[h].worker].host = h
       /\ workers[pass[h].worker].status # "absent"
  /\ pass[h].pc \in {"spawn", "active", "register"} => exit[pass[h].worker] = "none"
  /\ pass[h].pc \in {"spawn", "active"} =>
       workers[pass[h].worker].status = "starting" /\ ~workers[pass[h].worker].pid

\* Whom a reconcile pass may write off.
Judging(h) ==
  /\ rec[h].pc = "write" =>
       /\ rec[h].victim \in Worker /\ workers[rec[h].victim].status # "absent"
       /\ ~Here(rec[h].victim)
       /\ workers[rec[h].victim].pid => rec[h].victim \notin live
  /\ \A w \in rec[h].todo : workers[w].status # "absent" /\ (rec[h].forced => ~Here(w))

HostInv ==
  /\ Shape
  /\ \A w \in Worker : Placed(w)
  /\ \A h \in Host : Passing(h) /\ Judging(h)

\* A host that has been up and will not be again.
Past(h) == run[h] = "stopping" \/ (run[h] = "down" /\ boots[h] # 0)

\* Whoever is in a pass has the lease, or lost it to one that is going.
Leading(h) ==
  /\ pass[h].pc # "idle" => \/ lease.owner = h /\ lease.fresh
                            \/ \E g \in Stoppable \ {h} : Past(g)
  /\ h \in release => h \in Stoppable /\ run[h] = "stopping"
  /\ run[h] = "stopping" => pass[h].pc = "idle"
  /\ pass[h].pc = "create" => ~Busy(pass[h].job)

LeaseInv ==
  /\ DOMAIN lease = {"owner", "fresh"}
  /\ \A h \in Host : Leading(h)
  /\ \A g, h \in Host : pass[g].pc # "idle" /\ pass[h].pc # "idle" => g = h
  /\ \A v, w \in Worker :
       /\ workers[v].status \in Schedulable /\ workers[w].status \in Schedulable
       /\ workers[v].job = workers[w].job
       => v = w

-----------------------------------------------------------------------------
(* Lemmas about the operators the actions are built from *)

\* A worker's status is written.
LEMMA RecordFact ==
  ASSUME Shape, NEW w \in Worker, NEW s \in Status, Record(w, s)
  PROVE  /\ DOMAIN workers' = Worker
         /\ \A v \in Worker : v # w => workers'[v] = workers[v]
         /\ DOMAIN workers'[w] = {"status", "job", "host", "pid"} /\ workers'[w].status = s
         /\ workers'[w].job = workers[w].job /\ workers'[w].host = workers[w].host
         /\ workers'[w].pid = workers[w].pid
BY DEF Shape, Record

\* A host's pass goes on to another point.
LEMMA GoFact ==
  ASSUME Shape, NEW h \in Host, NEW pc \in PassPc, Go(h, pc)
  PROVE  /\ DOMAIN pass' = Host /\ \A g \in Host : g # h => pass'[g] = pass[g]
         /\ DOMAIN pass'[h] = {"pc", "todo", "job", "worker"} /\ pass'[h].pc = pc
         /\ pass'[h].worker = pass[h].worker /\ pass'[h].job = pass[h].job
BY DEF Shape, Go

\* A host's reconcile pass goes on.
LEMMA PutRecFact ==
  ASSUME Shape, NEW h \in Host, NEW r, PutRec(h, r)
  PROVE  DOMAIN rec' = Host /\ rec'[h] = r /\ \A g \in Host : g # h => rec'[g] = rec[g]
BY DEF Shape, PutRec

\* A host releases the assignment of a worker of its own.
LEMMA ReleasedFact ==
  ASSUME Shape, NEW w \in Worker, NEW h, assigned' = ReleasedBy(h, w)
  PROVE  /\ assigned' \in [Worker -> Host \cup {NoHost}]
         /\ \A v \in Worker : v # w => assigned'[v] = assigned[v]
BY DEF Shape, ReleasedBy

-----------------------------------------------------------------------------
(* What a step leaves alone *)

\* A worker on record stays with its host, and is left alone when that is gone.
Left(w) ==
  workers[w].status # "absent" =>
    /\ workers'[w].status # "absent" /\ workers'[w].host = workers[w].host
    /\ ~Here(w) => ~Here(w)' /\ workers'[w].pid = workers[w].pid /\ (w \in live' => w \in live)

\* A step leaves a worker alone.
Same(w) ==
  /\ workers'[w] = workers[w] /\ exit'[w] = exit[w] /\ assigned'[w] = assigned[w]
  /\ (w \in live') = (w \in live)

\* A worker that is left alone keeps its place.
LEMMA PlacedKept ==
  ASSUME NEW w \in Worker, Placed(w), Same(w),
         \A h \in Host : boots[h] # 0 => boots'[h] # 0,
         workers[w].host \in Host /\ Running(workers[w].host)' /\ w \in Unended =>
           /\ Running(workers[w].host)
           /\ Starting(workers[w].host, w) => Starting(workers[w].host, w)'
  PROVE  Placed(w)'
<1>1. workers'[w] = workers[w] /\ exit'[w] = exit[w] /\ assigned'[w] = assigned[w]
      /\ (w \in live') = (w \in live)
  BY DEF Same
<1>2. (w \in Unended)' = (w \in Unended) BY <1>1 DEF Unended
<1>3. workers[w].status # "absent" => workers[w].host \in Host /\ boots[workers[w].host] # 0
  BY DEF Placed
<1>4. w \in Unended => workers[w].status # "absent" BY DEF Unended, Schedulable
<1>5. ASSUME w \in Unended, Here(w)'
      PROVE  assigned'[w] = workers'[w].host \/ Starting(workers[w].host, w)'
  <2>1. workers[w].host \in Host BY <1>3, <1>4, <1>5
  <2>2. Running(workers[w].host)' BY <1>1, <1>5 DEF Here
  <2>3. Here(w) BY <1>5, <2>1, <2>2 DEF Here
  <2>4. QED BY <1>1, <1>5, <2>1, <2>2, <2>3 DEF Placed
<1>6. QED BY <1>1, <1>2, <1>3, <1>5 DEF Placed, Starting

\* A pass that does not move keeps what is known of it.
LEMMA PassingKept ==
  ASSUME Shape, NEW h \in Host, Passing(h), pass'[h] = pass[h], run'[h] = run[h],
         boots'[h] = boots[h], \A w \in Worker : Left(w),
         pass[h].pc \in {"spawn", "active", "register"} =>
           /\ workers'[pass[h].worker] = workers[pass[h].worker]
           /\ exit'[pass[h].worker] = exit[pass[h].worker]
  PROVE  Passing(h)'
BY DEF Passing, Left, Running

\* So does a reconcile pass.
LEMMA JudgingKept ==
  ASSUME Shape, NEW h \in Host, Judging(h), rec'[h] = rec[h], \A w \in Worker : Left(w)
  PROVE  Judging(h)'
<1>1. rec[h].todo \subseteq Worker BY DEF Shape
<1>2. QED BY <1>1 DEF Judging, Left

\* A step that moves neither workers nor runtimes leaves every worker alone.
LEMMA StillLeft ==
  ASSUME UNCHANGED <<workers, run>>, live' \subseteq live
  PROVE  \A w \in Worker : Left(w)
BY DEF Left, Here, Running

-----------------------------------------------------------------------------
(* Each step keeps the invariant of hosts and workers *)

\* Clients, the lease, and the queue: nothing of it changes.
LEMMA HostStutter ==
  ASSUME HostInv, UNCHANGED <<workers, pass, rec, run, boots, assigned, exit, live>>
  PROVE  HostInv'
<1>1. Shape' BY DEF HostInv, Shape
<1>2. \A w \in Worker : Left(w) /\ Same(w) BY StillLeft DEF Same
<1>3. ASSUME NEW w \in Worker PROVE Placed(w)'
  BY <1>2, PlacedKept DEF HostInv, Starting, Running
<1>4. ASSUME NEW h \in Host PROVE Passing(h)' /\ Judging(h)'
  <2>1. pass[h].pc \in {"spawn", "active", "register"} => pass[h].worker \in Worker
    BY DEF HostInv, Passing
  <2>2. Shape /\ Passing(h) /\ Judging(h) BY DEF HostInv
  <2>3. Passing(h)' BY <1>2, <2>1, <2>2, PassingKept DEF Same
  <2>4. Judging(h)' BY <1>2, <2>2, JudgingKept
  <2>5. QED BY <2>3, <2>4
<1>5. QED BY <1>1, <1>3, <1>4 DEF HostInv

\* The pass of a host between two starts.
LEMMA PassStep ==
  ASSUME HostInv, NEW h \in Host, BeginPass(h) \/ Visit(h) \/ EndPass(h) \/ AfterJob(h)
  PROVE  HostInv'
<1>0. Shape BY DEF HostInv
<1>1. /\ UNCHANGED <<workers, rec, run, boots, assigned, exit, live>> /\ Running(h)
      /\ pass[h].pc \notin {"spawn", "active", "register"}
      /\ DOMAIN pass' = Host /\ \A g \in Host : g # h => pass'[g] = pass[g]
      /\ DOMAIN pass'[h] = {"pc", "todo", "job", "worker"}
      /\ pass'[h].pc \in {"idle", "visit", "create"}
  <2> USE <1>0 DEF store, plane
  <2>1. CASE BeginPass(h)
    <3>1. /\ UNCHANGED <<workers, rec, run, boots, assigned, exit, live>> /\ Running(h)
          /\ pass[h].pc = "idle"
          /\ \/ pass' = pass
             \/ pass' = [pass EXCEPT ![h] = [NoPass EXCEPT !.pc = "visit", !.todo = queue]]
      BY <2>1 DEF BeginPass, Running
    <3>2. PICK p : p = [NoPass EXCEPT !.pc = "visit", !.todo = queue] OBVIOUS
    <3>3. DOMAIN p = {"pc", "todo", "job", "worker"} /\ p.pc = "visit" BY <3>2 DEF NoPass
    <3>4. CASE pass' = pass BY <3>1, <3>4 DEF Shape
    <3>5. CASE pass' = [pass EXCEPT ![h] = p] BY <3>1, <3>3, <3>5 DEF Shape
    <3>6. QED BY <3>1, <3>2, <3>4, <3>5
  <2>2. CASE Visit(h)
    <3>1. PICK todo, j, pc :
            /\ pass' = [pass EXCEPT ![h] = [pass[h] EXCEPT !.todo = todo, !.job = j, !.pc = pc]]
            /\ pc = IF Needless(j) THEN "visit" ELSE "create"
      BY <2>2 DEF Visit
    <3>2. PICK p : p = [pass[h] EXCEPT !.todo = todo, !.job = j, !.pc = pc] OBVIOUS
    <3>3. DOMAIN p = {"pc", "todo", "job", "worker"} /\ p.pc \in {"visit", "create"}
      BY <1>0, <3>1, <3>2 DEF Shape
    <3>4. pass' = [pass EXCEPT ![h] = p] BY <3>1, <3>2
    <3>5. QED BY <2>2, <3>3, <3>4 DEF Visit, At, Shape
  <2>3. CASE EndPass(h)
    <3>1. PICK p : p = NoPass OBVIOUS
    <3>2. DOMAIN p = {"pc", "todo", "job", "worker"} /\ p.pc = "idle" BY <3>1 DEF NoPass
    <3>3. pass' = [pass EXCEPT ![h] = p] BY <2>3, <3>1 DEF EndPass
    <3>4. QED BY <2>3, <3>2, <3>3 DEF EndPass, At, Shape
  <2>4. CASE AfterJob(h)
    <3>1. PICK p : p = [NoPass EXCEPT !.pc = "visit", !.todo = pass[h].todo] OBVIOUS
    <3>2. DOMAIN p = {"pc", "todo", "job", "worker"} /\ p.pc = "visit" BY <3>1 DEF NoPass
    <3>3. pass' = [pass EXCEPT ![h] = p] BY <2>4, <3>1 DEF AfterJob
    <3>4. QED BY <2>4, <3>2, <3>3 DEF AfterJob, At, Shape
  <2>5. QED BY <2>1, <2>2, <2>3, <2>4
<1>2. Shape'
  <2>1. pass'[h].pc \in PassPc BY <1>1 DEF PassPc
  <2>2. QED BY <1>0, <1>1, <2>1 DEF Shape
<1>3. \A w \in Worker : Left(w) /\ Same(w) BY <1>1, StillLeft DEF Same
<1>4. ASSUME NEW w \in Worker PROVE Placed(w)'
  <2>1. Placed(w) BY DEF HostInv
  <2>2. \A g \in Host : Starting(g, w) => Starting(g, w)' BY <1>1 DEF Starting
  <2>3. QED BY <1>1, <1>3, <2>1, <2>2, PlacedKept DEF Running
<1>5. ASSUME NEW g \in Host PROVE Passing(g)' /\ Judging(g)'
  <2>1. Passing(g) /\ Judging(g) BY DEF HostInv
  <2>2. Judging(g)' BY <1>0, <1>1, <1>3, <2>1, JudgingKept
  <2>3. CASE g = h BY <1>1, <2>1, <2>2, <2>3 DEF Passing, Running
  <2>4. CASE g # h
    <3>1. pass[g].pc \in {"spawn", "active", "register"} => pass[g].worker \in Worker
      BY <2>1 DEF Passing
    <3>2. Passing(g)' BY <1>0, <1>1, <1>3, <2>1, <2>4, <3>1, PassingKept DEF Same
    <3>3. QED BY <2>2, <3>2
  <2>5. QED BY <2>2, <2>3, <2>4
<1>6. QED BY <1>2, <1>4, <1>5 DEF HostInv

\* A step that concerns one worker.
LEMMA WorkerStep ==
  ASSUME HostInv, Shape', NEW w \in Worker, UNCHANGED <<run, boots>>,
         \A v \in Worker : v # w => Same(v),
         Left(w), Placed(w)',
         \A g \in Host : Judging(g)' \/ rec'[g] = rec[g],
         \A g \in Host : \/ Passing(g)'
                         \/ /\ pass'[g] = pass[g]
                            /\ Starting(g, w) => workers'[w] = workers[w] /\ exit'[w] = exit[w],
         \A g \in Host, v \in Worker : v # w /\ Starting(g, v) => Starting(g, v)'
  PROVE  HostInv'
<1>0. Shape BY DEF HostInv
<1>1. \A v \in Worker : Left(v) BY DEF Same, Left, Here, Running
<1>2. ASSUME NEW v \in Worker PROVE Placed(v)'
  <2>1. Placed(v) BY DEF HostInv
  <2>2. CASE v = w BY <2>2
  <2>3. CASE v # w
    <3>1. Same(v) BY <2>3
    <3>2. ASSUME workers[v].host \in Host, Starting(workers[v].host, v)
          PROVE  Starting(workers[v].host, v)'
      <4>1. PICK g \in Host : g = workers[v].host BY <3>2
      <4>2. Starting(g, v)' BY <2>3, <3>2, <4>1 DEF Starting
      <4>3. QED BY <3>1, <4>1, <4>2 DEF Starting, Same
    <3>3. Running(workers[v].host)' => Running(workers[v].host) BY <3>1 DEF Running, Same
    <3>4. QED BY <2>1, <3>1, <3>2, <3>3, PlacedKept
  <2>4. QED BY <2>2, <2>3
<1>3. ASSUME NEW g \in Host PROVE Passing(g)'
  <2>1. Passing(g) BY DEF HostInv
  <2>2. CASE Passing(g)' BY <2>2
  <2>3. CASE /\ pass'[g] = pass[g]
             /\ Starting(g, w) => workers'[w] = workers[w] /\ exit'[w] = exit[w]
    <3>1. ASSUME pass[g].pc \in {"spawn", "active", "register"}
          PROVE  /\ workers'[pass[g].worker] = workers[pass[g].worker]
                 /\ exit'[pass[g].worker] = exit[pass[g].worker]
      <4>1. PICK v \in Worker : v = pass[g].worker BY <2>1, <3>1 DEF Passing
      <4>2. CASE v = w BY <2>3, <3>1, <4>1, <4>2 DEF Starting
      <4>3. CASE v # w BY <4>1, <4>3 DEF Same
      <4>4. QED BY <4>2, <4>3
    <3>2. QED BY <1>0, <1>1, <2>1, <2>3, <3>1, PassingKept
  <2>4. QED BY <2>2, <2>3
<1>4. ASSUME NEW g \in Host PROVE Judging(g)'
  <2>1. Judging(g) BY DEF HostInv
  <2>2. QED BY <1>0, <1>1, <2>1, JudgingKept
<1>5. QED BY <1>2, <1>3, <1>4 DEF HostInv

\* The pass of a host starts a worker, which is nobody else's.
LEMMA StartStep ==
  ASSUME HostInv, MultiHostAssumption, NEW h \in Host,
         Create(h) \/ Spawn(h) \/ ActiveWrite(h) \/ Register(h)
  PROVE  HostInv'
<1> USE DEF store, plane
<1>0. Shape /\ Passing(h) /\ Running(h)
  BY DEF HostInv, Create, Spawn, ActiveWrite, Register, At
<1>1. CASE Create(h)
  <2>1. /\ pass[h].pc = "create" /\ UNCHANGED <<assigned, run, boots, exit, rec, live>>
    BY <1>1 DEF Create, At
  <2>2. PICK w \in FreshWorker :
       /\ workers' = [workers EXCEPT ![w] =
                        [status |-> "starting", job |-> pass[h].job, host |-> h, pid |-> FALSE]]
       /\ pass' = [pass EXCEPT ![h] = [pass[h] EXCEPT !.pc = "spawn", !.worker = w]]
    BY <1>1 DEF Create
  <2>3. w \in Worker /\ workers[w].status = "absent" BY <2>2 DEF FreshWorker
  <2>4. PICK r : r = [status |-> "starting", job |-> pass[h].job, host |-> h, pid |-> FALSE] OBVIOUS
  <2>5. /\ DOMAIN r = {"status", "job", "host", "pid"} /\ r.status = "starting" /\ r.host = h
        /\ r.pid = FALSE
    BY <2>4
  <2>6. /\ DOMAIN workers' = Worker /\ workers'[w] = r
        /\ \A v \in Worker : v # w => workers'[v] = workers[v]
    BY <1>0, <2>2, <2>3, <2>4 DEF Shape
  <2>7. /\ DOMAIN pass' = Host /\ \A g \in Host : g # h => pass'[g] = pass[g]
        /\ DOMAIN pass'[h] = {"pc", "todo", "job", "worker"} /\ pass'[h].pc = "spawn"
        /\ pass'[h].worker = w
    BY <1>0, <2>2 DEF Shape
  <2>8. Shape'
    <3>1. \A v \in Worker : /\ DOMAIN workers'[v] = {"status", "job", "host", "pid"}
                            /\ workers'[v].status \in Status /\ workers'[v].pid \in BOOLEAN
      BY <1>0, <2>5, <2>6 DEF Shape, Status
    <3>2. \A g \in Host : /\ DOMAIN pass'[g] = {"pc", "todo", "job", "worker"}
                          /\ pass'[g].pc \in PassPc
      BY <1>0, <2>7 DEF Shape, PassPc
    <3>3. QED BY <1>0, <2>1, <2>6, <2>7, <3>1, <3>2 DEF Shape
  <2>9. \A v \in Worker : v # w => Same(v) BY <2>1, <2>6 DEF Same
  <2>10. Left(w) BY <2>3 DEF Left
  <2>11. Placed(w) BY <2>3 DEF HostInv
  <2>12. exit[w] = "none" /\ w \notin live BY <2>3, <2>11 DEF Placed
  <2>13. boots[h] # 0 BY <1>0 DEF Passing, Running
  <2>14. Placed(w)'
    BY <2>1, <2>5, <2>6, <2>7, <2>12, <2>13 DEF Placed, Starting, Unended
  <2>15. Passing(h)'
    BY <1>0, <2>1, <2>3, <2>5, <2>6, <2>7, <2>12 DEF Passing, Running
  <2>16. \A g \in Host : ~Starting(g, w)
    <3>1. ASSUME NEW g \in Host PROVE ~Starting(g, w)
      <4>1. Passing(g) BY DEF HostInv
      <4>2. QED BY <2>3, <4>1 DEF Passing, Starting
    <3>2. QED BY <3>1
  <2>17. \A g \in Host, v \in Worker : v # w /\ Starting(g, v) => Starting(g, v)'
    BY <2>1, <2>7 DEF Starting
  <2>18. \A g \in Host : rec'[g] = rec[g] BY <2>1
  <2>19. \A g \in Host : Passing(g)' \/ (pass'[g] = pass[g] /\ ~Starting(g, w))
    BY <2>7, <2>15, <2>16
  <2>20. QED BY <2>1, <2>3, <2>8, <2>9, <2>10, <2>14, <2>17, <2>18, <2>19, WorkerStep
<1>w. ASSUME pass[h].pc \in {"spawn", "active", "register"}
      PROVE  /\ pass[h].worker \in Worker /\ workers[pass[h].worker].host = h
             /\ workers[pass[h].worker].status # "absent" /\ exit[pass[h].worker] = "none"
             /\ Placed(pass[h].worker) /\ boots[h] # 0
             /\ \A g \in Host : Starting(g, pass[h].worker) => g = h
  <2>1. pass[h].worker \in Worker BY <1>0, <1>w DEF Passing
  <2>2. ASSUME NEW g \in Host, Starting(g, pass[h].worker) PROVE g = h
    <3>1. Passing(g) BY DEF HostInv
    <3>2. QED BY <1>0, <1>w, <2>2, <3>1 DEF Passing, Starting
  <2>3. QED BY <1>0, <1>w, <2>1, <2>2 DEF Passing, HostInv, Running
<1>2. CASE Spawn(h)
  <2>1. /\ pass[h].pc = "spawn" /\ UNCHANGED <<workers, assigned, run, boots, exit, rec>>
        /\ live' = live \cup {pass[h].worker} /\ Go(h, "active")
    BY <1>2 DEF Spawn, At
  <2>2. PICK w \in Worker : w = pass[h].worker BY <1>w, <2>1
  <2>3. /\ workers[w].host = h /\ workers[w].status = "starting" /\ ~workers[w].pid
        /\ exit[w] = "none" /\ Placed(w) /\ \A g \in Host : Starting(g, w) => g = h
    BY <1>0, <1>w, <2>1, <2>2 DEF Passing
  <2>4. /\ DOMAIN pass' = Host /\ \A g \in Host : g # h => pass'[g] = pass[g]
        /\ DOMAIN pass'[h] = {"pc", "todo", "job", "worker"} /\ pass'[h].pc = "active"
        /\ pass'[h].worker = w
    BY <1>0, <2>1, <2>2, GoFact DEF PassPc
  <2>5. Shape' BY <1>0, <2>1, <2>2, <2>4 DEF Shape, PassPc
  <2>6. \A v \in Worker : v # w => Same(v) BY <2>1, <2>2 DEF Same
  <2>7. Left(w) BY <1>0, <2>1, <2>3 DEF Left, Here
  <2>8. Placed(w)' BY <2>1, <2>3, <2>4 DEF Placed, Starting, Unended, Here
  <2>9. Passing(h)' BY <1>0, <2>1, <2>2, <2>3, <2>4 DEF Passing, Running
  <2>10. \A g \in Host, v \in Worker : v # w /\ Starting(g, v) => Starting(g, v)'
    BY <2>2, <2>4 DEF Starting
  <2>11. \A g \in Host : rec'[g] = rec[g] BY <2>1
  <2>12. \A g \in Host : Passing(g)' \/ (pass'[g] = pass[g] /\ ~Starting(g, w))
    BY <2>3, <2>4, <2>9
  <2>13. QED BY <2>1, <2>5, <2>6, <2>7, <2>8, <2>10, <2>11, <2>12, WorkerStep
<1>3. CASE ActiveWrite(h)
  <2>1. /\ pass[h].pc = "active" /\ UNCHANGED <<assigned, run, boots, exit, rec, live>>
        /\ Go(h, "register")
        /\ workers' = [workers EXCEPT ![pass[h].worker] =
                         [workers[pass[h].worker] EXCEPT !.status = "active", !.pid = TRUE]]
    BY <1>3 DEF ActiveWrite, At
  <2>2. PICK w \in Worker : w = pass[h].worker BY <1>w, <2>1
  <2>3. /\ workers[w].host = h /\ workers[w].status = "starting"
        /\ exit[w] = "none" /\ Placed(w) /\ \A g \in Host : Starting(g, w) => g = h
    BY <1>0, <1>w, <2>1, <2>2 DEF Passing
  <2>4. /\ DOMAIN pass' = Host /\ \A g \in Host : g # h => pass'[g] = pass[g]
        /\ DOMAIN pass'[h] = {"pc", "todo", "job", "worker"} /\ pass'[h].pc = "register"
        /\ pass'[h].worker = w
    BY <1>0, <2>1, <2>2, GoFact DEF PassPc
  <2>5. /\ DOMAIN workers' = Worker /\ \A v \in Worker : v # w => workers'[v] = workers[v]
        /\ DOMAIN workers'[w] = {"status", "job", "host", "pid"} /\ workers'[w].status = "active"
        /\ workers'[w].host = h /\ workers'[w].pid = TRUE
    BY <1>0, <2>1, <2>2, <2>3 DEF Shape
  <2>6. Shape'
    <3>1. \A v \in Worker : /\ DOMAIN workers'[v] = {"status", "job", "host", "pid"}
                            /\ workers'[v].status \in Status /\ workers'[v].pid \in BOOLEAN
      BY <1>0, <2>5 DEF Shape, Status
    <3>2. \A g \in Host : /\ DOMAIN pass'[g] = {"pc", "todo", "job", "worker"}
                          /\ pass'[g].pc \in PassPc
      BY <1>0, <2>4 DEF Shape, PassPc
    <3>3. QED BY <1>0, <2>1, <2>4, <2>5, <3>1, <3>2 DEF Shape
  <2>7. \A v \in Worker : v # w => Same(v) BY <2>1, <2>5 DEF Same
  <2>8. Left(w) BY <1>0, <2>1, <2>3, <2>5 DEF Left, Here
  <2>9. Placed(w)' BY <2>1, <2>3, <2>4, <2>5 DEF Placed, Starting, Unended, Here
  <2>10. Passing(h)' BY <1>0, <2>1, <2>2, <2>3, <2>4, <2>5 DEF Passing, Running
  <2>11. \A g \in Host, v \in Worker : v # w /\ Starting(g, v) => Starting(g, v)'
    BY <2>2, <2>4 DEF Starting
  <2>12. \A g \in Host : rec'[g] = rec[g] BY <2>1
  <2>13. \A g \in Host : Passing(g)' \/ (pass'[g] = pass[g] /\ ~Starting(g, w))
    BY <2>3, <2>4, <2>10
  <2>14. QED BY <2>1, <2>6, <2>7, <2>8, <2>9, <2>11, <2>12, <2>13, WorkerStep
<1>4. CASE Register(h)
  <2>1. /\ pass[h].pc = "register" /\ UNCHANGED <<workers, run, boots, rec, live>>
        /\ Go(h, "after") /\ assigned' = [assigned EXCEPT ![pass[h].worker] = h]
        /\ exit' = [exit EXCEPT ![pass[h].worker] = "watch"]
    BY <1>4 DEF Register, At
  <2>2. PICK w \in Worker : w = pass[h].worker BY <1>w, <2>1
  <2>3. /\ workers[w].host = h /\ workers[w].status # "absent"
        /\ Placed(w) /\ \A g \in Host : Starting(g, w) => g = h
    BY <1>0, <1>w, <2>1, <2>2 DEF Passing
  <2>4. /\ DOMAIN pass' = Host /\ \A g \in Host : g # h => pass'[g] = pass[g]
        /\ DOMAIN pass'[h] = {"pc", "todo", "job", "worker"} /\ pass'[h].pc = "after"
        /\ pass'[h].worker = w
    BY <1>0, <2>1, <2>2, GoFact DEF PassPc
  <2>5. /\ assigned' \in [Worker -> Host \cup {NoHost}] /\ assigned'[w] = h
        /\ exit' \in [Worker -> {"none", "watch", "settle", "aggregate"}] /\ exit'[w] = "watch"
        /\ \A v \in Worker : v # w => assigned'[v] = assigned[v] /\ exit'[v] = exit[v]
    BY <1>0, <2>1, <2>2 DEF Shape
  <2>6. Shape' BY <1>0, <2>1, <2>4, <2>5 DEF Shape, PassPc
  <2>7. \A v \in Worker : v # w => Same(v) BY <2>1, <2>5 DEF Same
  <2>8. Left(w) BY <1>0, <2>1, <2>3 DEF Left, Here
  <2>9. Placed(w)' BY <2>1, <2>3, <2>5 DEF Placed, Unended, Here
  <2>10. Passing(h)' BY <1>0, <2>1, <2>2, <2>3, <2>4 DEF Passing, Running
  <2>11. \A g \in Host, v \in Worker : v # w /\ Starting(g, v) => Starting(g, v)'
    BY <2>2, <2>4 DEF Starting
  <2>12. \A g \in Host : rec'[g] = rec[g] BY <2>1
  <2>13. \A g \in Host : Passing(g)' \/ (pass'[g] = pass[g] /\ ~Starting(g, w))
    BY <2>3, <2>4, <2>10
  <2>14. QED BY <2>1, <2>6, <2>7, <2>8, <2>9, <2>11, <2>12, <2>13, WorkerStep
<1>5. QED BY <1>1, <1>2, <1>3, <1>4

\* The end of a worker, at its host.
LEMMA EndStep ==
  ASSUME HostInv, NEW w \in Worker,
         ProcessEnds(w) \/ ExitBegins(w) \/ ExitSettles(w) \/ Aggregate(w)
  PROVE  HostInv'
<1> USE DEF store, plane, local
<1>0. Shape /\ Placed(w) BY DEF HostInv
<1>1. /\ UNCHANGED <<run, boots, pass, rec>>
      /\ \A g \in Host, v \in Worker : Starting(g, v) => Starting(g, v)'
  <2>1. UNCHANGED <<run, boots, pass, rec>>
    BY DEF ProcessEnds, ExitBegins, ExitSettles, Aggregate
  <2>2. QED BY <2>1 DEF Starting
<1>2. ASSUME exit[w] # "none", NEW g \in Host PROVE ~Starting(g, w)
  <2>1. Passing(g) BY DEF HostInv
  <2>2. QED BY <1>2, <2>1 DEF Passing, Starting
<1>3. CASE ProcessEnds(w)
  <2>1. /\ UNCHANGED <<workers, assigned, exit>> /\ live' = live \ {w} BY <1>3 DEF ProcessEnds
  <2>2. Shape' BY <1>0, <1>1, <2>1 DEF Shape
  <2>3. \A v \in Worker : v # w => Same(v) BY <2>1 DEF Same
  <2>4. Left(w) BY <1>1, <2>1 DEF Left, Here, Running
  <2>5. Placed(w)' BY <1>0, <1>1, <2>1 DEF Placed, Starting, Unended, Here, Running
  <2>6. QED BY <1>1, <2>1, <2>2, <2>3, <2>4, <2>5, WorkerStep
<1>4. CASE ExitBegins(w)
  <2>1. exit[w] = "watch" /\ w \notin live /\ live' = live /\ Here(w) BY <1>4 DEF ExitBegins
  <2>2. CASE /\ Ended(w) /\ assigned' = ReleasedBy(workers[w].host, w) /\ ExitTo(w, "none")
             /\ UNCHANGED workers
    <3>1. /\ exit' \in [Worker -> {"none", "watch", "settle", "aggregate"}] /\ exit'[w] = "none"
          /\ \A v \in Worker : v # w => exit'[v] = exit[v]
      BY <1>0, <2>2 DEF Shape, ExitTo
    <3>2. /\ assigned' \in [Worker -> Host \cup {NoHost}]
          /\ \A v \in Worker : v # w => assigned'[v] = assigned[v]
      BY <1>0, <2>2, ReleasedFact
    <3>3. Shape' BY <1>0, <1>1, <2>1, <2>2, <3>1, <3>2 DEF Shape
    <3>4. \A v \in Worker : v # w => Same(v) BY <2>1, <2>2, <3>1, <3>2 DEF Same
    <3>5. Left(w) BY <1>1, <2>1, <2>2 DEF Left, Here, Running
    <3>6. Placed(w)' BY <1>0, <1>1, <2>1, <2>2, <3>1 DEF Placed, Unended, Ended, Schedulable
    <3>7. QED BY <1>1, <1>2, <2>1, <3>3, <3>4, <3>5, <3>6, WorkerStep
  <2>3. CASE ~Ended(w) /\ Record(w, "finishing") /\ ExitTo(w, "settle") /\ UNCHANGED assigned
    <3>1. /\ exit' \in [Worker -> {"none", "watch", "settle", "aggregate"}] /\ exit'[w] = "settle"
          /\ \A v \in Worker : v # w => exit'[v] = exit[v]
      BY <1>0, <2>3 DEF Shape, ExitTo
    <3>2. /\ DOMAIN workers' = Worker /\ \A v \in Worker : v # w => workers'[v] = workers[v]
          /\ DOMAIN workers'[w] = {"status", "job", "host", "pid"}
          /\ workers'[w].status = "finishing"
          /\ workers'[w].host = workers[w].host /\ workers'[w].pid = workers[w].pid
      BY <1>0, <2>3, RecordFact DEF Status
    <3>3. Shape' BY <1>0, <1>1, <2>1, <2>3, <3>1, <3>2 DEF Shape, Status
    <3>4. \A v \in Worker : v # w => Same(v) BY <2>1, <2>3, <3>1, <3>2 DEF Same
    <3>5. Left(w) BY <1>1, <2>1, <3>2 DEF Left, Here, Running
    <3>6. w \in Unended \/ workers[w].status = "absent"
      BY <1>0, <2>3 DEF Shape, Status, Unended, Schedulable, Ended
    <3>7. workers[w].status # "absent" BY <1>0, <2>1 DEF Placed
    <3>8. assigned[w] = workers[w].host
      <4>1. workers[w].host \in Host BY <1>0, <3>7 DEF Placed
      <4>2. ~Starting(workers[w].host, w) BY <1>2, <2>1, <4>1
      <4>3. QED BY <1>0, <2>1, <3>6, <3>7, <4>2 DEF Placed
    <3>9. Placed(w)' BY <1>0, <1>1, <2>1, <2>3, <3>1, <3>2, <3>7, <3>8 DEF Placed
    <3>10. QED BY <1>1, <1>2, <2>1, <3>3, <3>4, <3>5, <3>9, WorkerStep
  <2>4. QED BY <1>4, <2>2, <2>3 DEF ExitBegins
<1>5. CASE ExitSettles(w)
  <2>1. /\ exit[w] = "settle" /\ live' = live /\ Record(w, "finished")
        /\ assigned' = ReleasedBy(workers[w].host, w) /\ ExitTo(w, "aggregate")
    BY <1>5 DEF ExitSettles
  <2>2. /\ exit' \in [Worker -> {"none", "watch", "settle", "aggregate"}] /\ exit'[w] = "aggregate"
        /\ \A v \in Worker : v # w => exit'[v] = exit[v]
    BY <1>0, <2>1 DEF Shape, ExitTo
  <2>3. /\ DOMAIN workers' = Worker /\ \A v \in Worker : v # w => workers'[v] = workers[v]
        /\ DOMAIN workers'[w] = {"status", "job", "host", "pid"}
        /\ workers'[w].status = "finished"
        /\ workers'[w].host = workers[w].host /\ workers'[w].pid = workers[w].pid
    BY <1>0, <2>1, RecordFact DEF Status
  <2>4. /\ assigned' \in [Worker -> Host \cup {NoHost}]
        /\ \A v \in Worker : v # w => assigned'[v] = assigned[v]
    BY <1>0, <2>1, ReleasedFact
  <2>5. Shape' BY <1>0, <1>1, <2>1, <2>2, <2>3, <2>4 DEF Shape, Status
  <2>6. \A v \in Worker : v # w => Same(v) BY <2>1, <2>2, <2>3, <2>4 DEF Same
  <2>7. Left(w) BY <1>1, <2>1, <2>3 DEF Left, Here, Running
  <2>8. workers[w].status # "absent" /\ w \notin live BY <1>0, <2>1 DEF Placed
  <2>9. Placed(w)' BY <1>0, <1>1, <2>1, <2>2, <2>3, <2>8 DEF Placed, Unended, Schedulable
  <2>10. QED BY <1>1, <1>2, <2>1, <2>5, <2>6, <2>7, <2>9, WorkerStep
<1>6. CASE Aggregate(w)
  <2>1. exit[w] = "aggregate" /\ UNCHANGED <<workers, assigned, live>> /\ ExitTo(w, "none")
    BY <1>6 DEF Aggregate
  <2>2. /\ exit' \in [Worker -> {"none", "watch", "settle", "aggregate"}] /\ exit'[w] = "none"
        /\ \A v \in Worker : v # w => exit'[v] = exit[v]
    BY <1>0, <2>1 DEF Shape, ExitTo
  <2>3. Shape' BY <1>0, <1>1, <2>1, <2>2 DEF Shape
  <2>4. \A v \in Worker : v # w => Same(v) BY <2>1, <2>2 DEF Same
  <2>5. Left(w) BY <1>1, <2>1 DEF Left, Here, Running
  <2>6. Placed(w)' BY <1>0, <1>1, <2>1, <2>2 DEF Placed, Starting, Unended, Here, Running
  <2>7. QED BY <1>1, <1>2, <2>1, <2>3, <2>4, <2>5, <2>6, WorkerStep
<1>7. QED BY <1>3, <1>4, <1>5, <1>6

\* A pass that judges a worker ends it, or lets it be; and writes it off.
LEMMA JudgeStep ==
  ASSUME HostInv, MultiHostAssumption, NEW h \in Host,
         Repair(h) \/ \E w \in Worker : Judge(h, w)
  PROVE  HostInv'
<1> USE DEF store, plane
<1>0. Shape /\ Judging(h) BY DEF HostInv
<1>1. ASSUME NEW w \in Worker, Judge(h, w) PROVE HostInv'
  <2>1. /\ w \in rec[h].todo /\ rec[h].pc = "judge" /\ run[h] # "down"
        /\ UNCHANGED <<workers, assigned, run, boots, pass, exit>>
    BY <1>1 DEF Judge, RecAt, Running
  <2>2. Placed(w) /\ workers[w].status # "absent" /\ (rec[h].forced => ~Here(w))
    BY <1>0, <2>1 DEF Judging, HostInv
  <2>3. /\ live' \subseteq live /\ live' \subseteq Worker
        /\ \A v \in Worker : v # w => Same(v)
    <3>1. live' = live \/ live' = live \ {w} BY <1>1 DEF Judge
    <3>2. QED BY <1>0, <2>1, <3>1 DEF Same, Shape
  <2>4. \A g \in Host, v \in Worker : Starting(g, v) => Starting(g, v)' BY <2>1 DEF Starting
  <2>5. Left(w)
    <3>1. w \in live' => w \in live BY <2>3
    <3>2. QED BY <2>1, <3>1 DEF Left, Here, Running
  <2>6. Placed(w)'
    <3>1. w \in live' => w \in live BY <2>3
    <3>2. QED BY <2>1, <2>2, <3>1 DEF Placed, Starting, Unended, Here, Running
  <2>7. /\ DOMAIN rec' = Host /\ \A g \in Host : g # h => rec'[g] = rec[g]
        /\ DOMAIN rec'[h] = {"pc", "forced", "todo", "victim", "fixed", "jobs"}
        /\ rec'[h].forced = rec[h].forced /\ rec'[h].todo = rec[h].todo \ {w}
        /\ \/ rec'[h].pc = "judge"
           \/ /\ rec'[h].pc = "write" /\ rec'[h].victim = w /\ ~Ended(w) /\ ~Spared(h, w)
              /\ workers[w].pid => w \notin live'
    <3>1. CASE PutRec(h, [rec[h] EXCEPT !.todo = rec[h].todo \ {w}])
      <4>1. PICK r : r = [rec[h] EXCEPT !.todo = rec[h].todo \ {w}] OBVIOUS
      <4>2. /\ DOMAIN r = {"pc", "forced", "todo", "victim", "fixed", "jobs"} /\ r.pc = "judge"
            /\ r.forced = rec[h].forced /\ r.todo = rec[h].todo \ {w}
        BY <1>0, <2>1, <4>1 DEF Shape
      <4>3. QED BY <1>0, <3>1, <4>1, <4>2, PutRecFact
    <3>2. CASE /\ ~Ended(w) /\ ~Spared(h, w)
               /\ live' = IF workers[w].pid THEN live \ {w} ELSE live
               /\ PutRec(h, [rec[h] EXCEPT !.todo = rec[h].todo \ {w}, !.pc = "write", !.victim = w])
      <4>1. PICK r : r = [rec[h] EXCEPT !.todo = rec[h].todo \ {w}, !.pc = "write", !.victim = w]
        OBVIOUS
      <4>2. /\ DOMAIN r = {"pc", "forced", "todo", "victim", "fixed", "jobs"} /\ r.pc = "write"
            /\ r.forced = rec[h].forced /\ r.todo = rec[h].todo \ {w} /\ r.victim = w
        BY <1>0, <4>1 DEF Shape
      <4>3. QED BY <1>0, <3>2, <4>1, <4>2, PutRecFact
    <3>3. QED BY <1>1, <3>1, <3>2 DEF Judge
  <2>8. Shape' BY <1>0, <2>1, <2>3, <2>7 DEF Shape
  <2>9. ASSUME ~Ended(w), ~Spared(h, w) PROVE ~Here(w)
    <3>1. CASE rec[h].forced BY <2>2, <3>1
    <3>2. CASE ~rec[h].forced
      <4>1. ~StartedNow(w) /\ ~Fresh(w) BY <2>9, <3>2 DEF Spared
      <4>2. w \in Unended BY <1>0, <2>2, <2>9 DEF Shape, Status, Unended, Schedulable, Ended
      <4>3. workers[w].host \in Host BY <2>2 DEF Placed
      <4>4. SUFFICES ASSUME Here(w) PROVE FALSE OBVIOUS
      <4>5. CASE assigned[w] = workers[w].host
        BY <4>1, <4>3, <4>4, <4>5 DEF Fresh, Here, MultiHostAssumption
      <4>6. CASE Starting(workers[w].host, w)
        BY <4>1, <4>3, <4>4, <4>6 DEF StartedNow, Here, Starting
      <4>7. QED BY <2>2, <4>2, <4>4, <4>5, <4>6 DEF Placed
    <3>3. QED BY <3>1, <3>2
  <2>10. Judging(h)'
    <3>1. \A v \in rec[h].todo : v \in Worker BY <1>0 DEF Shape
    <3>2. \A v \in rec'[h].todo : workers'[v].status # "absent" /\ (rec'[h].forced => ~Here(v)')
      BY <1>0, <2>1, <2>7 DEF Judging, Here, Running
    <3>3. rec'[h].pc = "write" => ~Here(w) /\ rec'[h].victim = w /\ (workers[w].pid => w \notin live')
      BY <2>7, <2>9
    <3>4. QED BY <2>1, <2>2, <3>2, <3>3 DEF Judging, Here, Running
  <2>11. \A g \in Host : Judging(g)' \/ rec'[g] = rec[g] BY <2>7, <2>10
  <2>12. QED BY <2>1, <2>3, <2>4, <2>5, <2>6, <2>8, <2>11, WorkerStep
<1>2. CASE Repair(h)
  <2>1. /\ rec[h].pc = "write" /\ Record(rec[h].victim, "lost")
        /\ UNCHANGED <<assigned, run, boots, pass, exit, live>>
    BY <1>2 DEF Repair, RecAt
  <2>2. PICK w \in Worker : w = rec[h].victim BY <1>0, <2>1 DEF Judging
  <2>3. /\ workers[w].status # "absent" /\ ~Here(w) /\ (workers[w].pid => w \notin live) /\ Placed(w)
    BY <1>0, <2>1, <2>2 DEF Judging, HostInv
  <2>4. /\ DOMAIN workers' = Worker /\ \A v \in Worker : v # w => workers'[v] = workers[v]
        /\ DOMAIN workers'[w] = {"status", "job", "host", "pid"} /\ workers'[w].status = "lost"
        /\ workers'[w].host = workers[w].host /\ workers'[w].pid = workers[w].pid
    BY <1>0, <2>1, <2>2, RecordFact DEF Status
  <2>5. PICK fixed : PutRec(h, [rec[h] EXCEPT !.pc = "judge", !.victim = NoWorker, !.fixed = fixed])
    BY <1>2 DEF Repair
  <2>6. PICK r : r = [rec[h] EXCEPT !.pc = "judge", !.victim = NoWorker, !.fixed = fixed] OBVIOUS
  <2>7. /\ DOMAIN r = {"pc", "forced", "todo", "victim", "fixed", "jobs"} /\ r.pc = "judge"
        /\ r.forced = rec[h].forced /\ r.todo = rec[h].todo
    BY <1>0, <2>6 DEF Shape
  <2>8. DOMAIN rec' = Host /\ rec'[h] = r /\ \A g \in Host : g # h => rec'[g] = rec[g]
    BY <1>0, <2>5, <2>6, PutRecFact
  <2>9. Shape' BY <1>0, <2>1, <2>4, <2>7, <2>8 DEF Shape, Status
  <2>10. \A v \in Worker : v # w => Same(v) BY <2>1, <2>4 DEF Same
  <2>11. Left(w) BY <2>1, <2>4 DEF Left, Here, Running
  <2>12. Placed(w)' BY <2>1, <2>3, <2>4 DEF Placed, Unended, Schedulable
  <2>13. Judging(h)'
    <3>1. \A v \in rec[h].todo : v \in Worker BY <1>0 DEF Shape
    <3>2. \A v \in Worker : v # w => workers'[v] = workers[v] BY <2>4
    <3>3. \A v \in rec'[h].todo : workers'[v].status # "absent" /\ (rec'[h].forced => ~Here(v)')
      BY <1>0, <2>1, <2>4, <2>7, <2>8, <3>1, <3>2 DEF Judging, Here, Running
    <3>4. QED BY <2>7, <2>8, <3>3 DEF Judging
  <2>14. \A g \in Host : ~Starting(g, w)
    <3>1. ASSUME NEW g \in Host, Starting(g, w) PROVE FALSE
      <4>1. Passing(g) BY DEF HostInv
      <4>2. QED BY <2>3, <3>1, <4>1 DEF Passing, Starting, Here
    <3>2. QED BY <3>1
  <2>15. \A g \in Host, v \in Worker : Starting(g, v) => Starting(g, v)' BY <2>1 DEF Starting
  <2>16. \A g \in Host : Judging(g)' \/ rec'[g] = rec[g] BY <2>8, <2>13
  <2>17. QED BY <2>1, <2>9, <2>10, <2>11, <2>12, <2>14, <2>15, <2>16, WorkerStep
<1>3. QED BY <1>1, <1>2

\* A reconcile pass lists, goes over the jobs, and ends; the host is up then.
LEMMA RecStep ==
  ASSUME HostInv, NEW h \in Host,
         RecBegin(h) \/ RecJobs(h) \/ RecEnd(h) \/ \E j \in Job : RecJob(h, j)
  PROVE  HostInv'
<1> USE DEF store, plane
<1>0. Shape /\ Judging(h) /\ Passing(h) BY DEF HostInv
<1>1. /\ UNCHANGED <<workers, assigned, boots, pass, exit, live>> /\ run[h] # "down"
      /\ run' = run \/ (run[h] = "boot" /\ run' = [run EXCEPT ![h] = "up"])
      /\ \/ PutRec(h, Listing(FALSE)) \/ PutRec(h, NoRecon)
         \/ \E js : PutRec(h, [rec[h] EXCEPT !.pc = "jobs", !.jobs = js])
  <2>1. CASE RecBegin(h) BY <2>1 DEF RecBegin, RecAt, Running
  <2>2. CASE RecJobs(h) BY <2>2 DEF RecJobs, RecAt, Running
  <2>3. CASE RecEnd(h) BY <2>3 DEF RecEnd, RecAt, Running
  <2>4. ASSUME NEW j \in Job, RecJob(h, j)
        PROVE  /\ UNCHANGED <<workers, assigned, boots, pass, exit, live, run>> /\ run[h] # "down"
               /\ \E js : PutRec(h, [rec[h] EXCEPT !.pc = "jobs", !.jobs = js])
    <3>1. rec[h].pc = "jobs" /\ PutRec(h, [rec[h] EXCEPT !.jobs = rec[h].jobs \ {j}])
      BY <2>4 DEF RecJob, RecAt
    <3>2. [rec[h] EXCEPT !.jobs = rec[h].jobs \ {j}]
            = [rec[h] EXCEPT !.pc = "jobs", !.jobs = rec[h].jobs \ {j}]
      BY <1>0, <3>1 DEF Shape
    <3>3. QED BY <2>4, <3>1, <3>2 DEF RecJob, RecAt, Running
  <2>5. QED BY <2>1, <2>2, <2>3, <2>4
<1>2. /\ run' \in [Host -> {"down", "boot", "up", "stopping"}]
      /\ \A g \in Host : (run'[g] = "down") = (run[g] = "down")
  BY <1>0, <1>1 DEF Shape
<1>3. /\ DOMAIN rec' = Host /\ \A g \in Host : g # h => rec'[g] = rec[g]
      /\ DOMAIN rec'[h] = {"pc", "forced", "todo", "victim", "fixed", "jobs"}
      /\ rec'[h].forced \in BOOLEAN /\ rec'[h].pc # "write"
      /\ \/ rec'[h].forced = rec[h].forced /\ rec'[h].todo = rec[h].todo
         \/ rec'[h].forced = FALSE /\ rec'[h].todo \subseteq Unended
  <2>1. CASE PutRec(h, Listing(FALSE))
    <3>1. PICK r : r = Listing(FALSE) OBVIOUS
    <3>2. /\ DOMAIN r = {"pc", "forced", "todo", "victim", "fixed", "jobs"} /\ r.pc = "judge"
          /\ r.forced = FALSE /\ r.todo = Unended
      BY <3>1 DEF Listing, NoRecon
    <3>3. QED BY <1>0, <2>1, <3>1, <3>2, PutRecFact
  <2>2. CASE PutRec(h, NoRecon)
    <3>1. PICK r : r = NoRecon OBVIOUS
    <3>2. /\ DOMAIN r = {"pc", "forced", "todo", "victim", "fixed", "jobs"} /\ r.pc = "idle"
          /\ r.forced = FALSE /\ r.todo = {}
      BY <3>1 DEF NoRecon
    <3>3. QED BY <1>0, <2>2, <3>1, <3>2, PutRecFact
  <2>3. ASSUME NEW js, PutRec(h, [rec[h] EXCEPT !.pc = "jobs", !.jobs = js])
        PROVE  /\ DOMAIN rec' = Host /\ \A g \in Host : g # h => rec'[g] = rec[g]
               /\ DOMAIN rec'[h] = {"pc", "forced", "todo", "victim", "fixed", "jobs"}
               /\ rec'[h].forced \in BOOLEAN /\ rec'[h].pc # "write"
               /\ rec'[h].forced = rec[h].forced /\ rec'[h].todo = rec[h].todo
    <3>1. PICK r : r = [rec[h] EXCEPT !.pc = "jobs", !.jobs = js] OBVIOUS
    <3>2. /\ DOMAIN r = {"pc", "forced", "todo", "victim", "fixed", "jobs"} /\ r.pc = "jobs"
          /\ r.forced = rec[h].forced /\ r.todo = rec[h].todo
      BY <1>0, <3>1 DEF Shape
    <3>3. DOMAIN rec' = Host /\ rec'[h] = r /\ \A g \in Host : g # h => rec'[g] = rec[g]
      BY <1>0, <2>3, <3>1, PutRecFact
    <3>4. rec[h].forced \in BOOLEAN BY <1>0 DEF Shape
    <3>5. QED BY <3>2, <3>3, <3>4
  <2>4. QED BY <1>1, <2>1, <2>2, <2>3
<1>4. Unended \subseteq Worker /\ \A w \in Unended : workers[w].status # "absent"
  BY DEF Unended, Schedulable
<1>5. Shape' BY <1>0, <1>1, <1>2, <1>3, <1>4 DEF Shape
<1>6. \A w \in Worker : Left(w) /\ Same(w)
  <2>1. ASSUME NEW w \in Worker PROVE Left(w) /\ Same(w)
    <3>1. Placed(w) BY DEF HostInv
    <3>2. QED BY <1>1, <1>2, <3>1 DEF Left, Same, Here, Running, Placed
  <2>2. QED BY <2>1
<1>7. ASSUME NEW w \in Worker PROVE Placed(w)'
  <2>1. Placed(w) BY DEF HostInv
  <2>2. QED BY <1>1, <1>2, <1>6, <2>1, PlacedKept DEF Starting, Running
<1>8. ASSUME NEW g \in Host PROVE Passing(g)' /\ Judging(g)'
  <2>1. Passing(g) /\ Judging(g) BY DEF HostInv
  <2>2. Passing(g)' BY <1>1, <1>2, <2>1 DEF Passing, Running
  <2>3. CASE g = h
    <3>1. rec[h].todo \subseteq Worker BY <1>0 DEF Shape
    <3>2. ASSUME NEW w \in rec'[h].todo
          PROVE  workers'[w].status # "absent" /\ (rec'[h].forced => ~Here(w)')
      BY <1>0, <1>1, <1>3, <1>4, <1>6, <3>1 DEF Judging, Left
    <3>3. QED BY <1>3, <2>2, <2>3, <3>2 DEF Judging
  <2>4. CASE g # h BY <1>0, <1>3, <1>6, <2>1, <2>2, <2>4, JudgingKept
  <2>5. QED BY <2>3, <2>4
<1>9. QED BY <1>5, <1>7, <1>8 DEF HostInv

\* A runtime starts for the first time, where no worker of another is listed.
LEMMA BootStep ==
  ASSUME HostInv, MultiHostAssumption, Orderly, NEW h \in Host, Boot(h)
  PROVE  HostInv'
<1> USE DEF store, plane
<1>0. Shape /\ Passing(h) BY DEF HostInv
<1>1. /\ run[h] = "down" /\ boots[h] = 0 /\ boots[h] < MaxBoots /\ Alone(h)
      /\ run' = [run EXCEPT ![h] = "boot"]
      /\ boots' = [boots EXCEPT ![h] = 1] /\ PutRec(h, Listing(TRUE))
      /\ UNCHANGED <<workers, assigned, live, pass, exit>>
  <2>1. boots[h] \in Nat /\ MaxBoots \in Nat BY <1>0 DEF Shape, MultiHostAssumption
  <2>2. /\ run[h] = "down" /\ boots[h] < MaxBoots /\ run' = [run EXCEPT ![h] = "boot"]
        /\ boots' = [boots EXCEPT ![h] = boots[h] + 1] /\ PutRec(h, Listing(TRUE))
        /\ UNCHANGED <<workers, assigned, live, pass, exit>>
    BY DEF Boot
  <2>3. boots[h] = 0 /\ boots[h] + 1 = 1 BY <2>1, <2>2 DEF Orderly
  <2>4. Alone(h) BY DEF Boot, Orderly
  <2>5. QED BY <2>2, <2>3, <2>4
<1>2. /\ run' \in [Host -> {"down", "boot", "up", "stopping"}] /\ boots' \in [Host -> Nat]
      /\ run'[h] = "boot" /\ boots'[h] = 1
      /\ \A g \in Host : g # h => run'[g] = run[g] /\ boots'[g] = boots[g]
  BY <1>0, <1>1 DEF Shape
<1>3. /\ DOMAIN rec' = Host /\ \A g \in Host : g # h => rec'[g] = rec[g]
      /\ DOMAIN rec'[h] = {"pc", "forced", "todo", "victim", "fixed", "jobs"}
      /\ rec'[h].forced = TRUE /\ rec'[h].pc = "judge" /\ rec'[h].todo = Unended
  <2>1. PICK r : r = Listing(TRUE) OBVIOUS
  <2>2. /\ DOMAIN r = {"pc", "forced", "todo", "victim", "fixed", "jobs"} /\ r.pc = "judge"
        /\ r.forced = TRUE /\ r.todo = Unended
    BY <2>1 DEF Listing, NoRecon
  <2>3. QED BY <1>0, <1>1, <2>1, <2>2, PutRecFact
<1>4. Unended \subseteq Worker /\ \A w \in Unended : workers[w].status # "absent"
  BY DEF Unended, Schedulable
<1>5. Shape'
  <2>1. \A g \in Host : /\ DOMAIN rec'[g] = {"pc", "forced", "todo", "victim", "fixed", "jobs"}
                        /\ rec'[g].forced \in BOOLEAN /\ rec'[g].todo \subseteq Worker
    BY <1>0, <1>3, <1>4 DEF Shape
  <2>2. QED BY <1>0, <1>1, <1>2, <1>3, <2>1 DEF Shape
<1>6. ASSUME NEW w \in Worker, workers[w].status # "absent"
      PROVE  workers[w].host \in Host /\ workers[w].host # h /\ (Here(w)' <=> Here(w))
  <2>1. Placed(w) BY DEF HostInv
  <2>2. workers[w].host \in Host /\ workers[w].host # h BY <1>1, <1>6, <2>1 DEF Placed
  <2>3. QED BY <1>1, <1>2, <2>2 DEF Here, Running
<1>7. \A w \in Worker : Left(w) /\ Same(w) BY <1>1, <1>6 DEF Left, Same
<1>8. ASSUME NEW w \in Worker PROVE Placed(w)'
  <2>1. Placed(w) BY DEF HostInv
  <2>2. w \in Unended => workers[w].status # "absent" BY <1>4
  <2>3. \A g \in Host : boots[g] # 0 => boots'[g] # 0 BY <1>1, <1>2
  <2>4. w \in Unended /\ Running(workers[w].host)' => Running(workers[w].host)
    BY <1>1, <1>6, <2>2 DEF Here
  <2>5. Starting(workers[w].host, w) => Starting(workers[w].host, w)' BY <1>1 DEF Starting
  <2>6. QED BY <1>7, <2>1, <2>3, <2>4, <2>5, PlacedKept
<1>9. ASSUME NEW g \in Host PROVE Passing(g)' /\ Judging(g)'
  <2>1. Passing(g) /\ Judging(g) BY DEF HostInv
  <2>2. CASE g = h
    <3>1. pass'[h].pc = "idle" BY <1>0, <1>1 DEF Passing, Running
    <3>2. 1 <= MaxBoots BY <1>1 DEF MultiHostAssumption
    <3>3. Passing(h)' BY <1>2, <3>1, <3>2 DEF Passing
    <3>4. \A w \in Unended : ~Here(w)' BY <1>1, <1>4, <1>6 DEF Alone
    <3>5. Judging(h)' BY <1>1, <1>3, <1>4, <3>4 DEF Judging
    <3>6. QED BY <2>2, <3>3, <3>5
  <2>3. CASE g # h
    <3>1. pass[g].pc \in {"spawn", "active", "register"} => pass[g].worker \in Worker
      BY <2>1 DEF Passing
    <3>2. Passing(g)' BY <1>0, <1>1, <1>2, <1>7, <2>1, <2>3, <3>1, PassingKept DEF Same
    <3>3. Judging(g)' BY <1>0, <1>3, <1>7, <2>1, <2>3, JudgingKept
    <3>4. QED BY <3>2, <3>3
  <2>4. QED BY <2>2, <2>3
<1>10. QED BY <1>5, <1>8, <1>9 DEF HostInv

\* A shutdown begins: the processes assigned to the host end.
LEMMA StopStep == ASSUME HostInv, NEW h \in Host, Stop(h) PROVE HostInv'
<1> USE DEF store
<1>0. Shape BY DEF HostInv
<1>1. /\ run[h] = "up" /\ run' = [run EXCEPT ![h] = "stopping"] /\ live' = live \ Owned(h)
      /\ UNCHANGED <<workers, assigned, boots, pass, exit, rec>>
  BY DEF Stop
<1>2. /\ run' \in [Host -> {"down", "boot", "up", "stopping"}]
      /\ \A g \in Host : (run'[g] = "down") = (run[g] = "down")
  BY <1>0, <1>1 DEF Shape
<1>3. Shape' BY <1>0, <1>1, <1>2 DEF Shape
<1>4. ASSUME NEW w \in Worker PROVE Placed(w)' /\ Left(w)
  <2>1. Placed(w) BY DEF HostInv
  <2>2. workers[w].status # "absent" => (Here(w)' <=> Here(w))
    BY <1>1, <1>2, <2>1 DEF Placed, Here, Running
  <2>3. w \in Unended => workers[w].status # "absent" BY DEF Unended, Schedulable
  <2>4. Left(w) BY <1>1, <2>2 DEF Left
  <2>5. Placed(w)' BY <1>1, <2>1, <2>2, <2>3 DEF Placed, Starting, Unended
  <2>6. QED BY <2>4, <2>5
<1>5. ASSUME NEW g \in Host PROVE Passing(g)' /\ Judging(g)'
  <2>1. Passing(g) /\ Judging(g) BY DEF HostInv
  <2>2. Passing(g)' BY <1>1, <1>2, <2>1 DEF Passing, Running
  <2>3. Judging(g)' BY <1>0, <1>1, <1>4, <2>1, JudgingKept
  <2>4. QED BY <2>2, <2>3
<1>6. QED BY <1>3, <1>4, <1>5 DEF HostInv

\* A host goes down, by a shutdown or a crash.
LEMMA GoneStep ==
  ASSUME HostInv, NEW h \in Host, Unregister(h) \/ Crash(h)
  PROVE  HostInv'
<1> USE DEF store, plane
<1>0. Shape BY DEF HostInv
<1>1. /\ run' = [run EXCEPT ![h] = "down"] /\ pass' = [pass EXCEPT ![h] = NoPass]
      /\ PutRec(h, NoRecon)
      /\ exit' = [w \in Worker |-> IF workers[w].host = h THEN "none" ELSE exit[w]]
      /\ UNCHANGED <<workers, boots>> /\ live' \subseteq live
      /\ \/ assigned' = assigned
         \/ assigned' = [w \in Worker |-> IF assigned[w] = h THEN NoHost ELSE assigned[w]]
  BY DEF Unregister, Crash, Gone
<1>2. /\ run' \in [Host -> {"down", "boot", "up", "stopping"}] /\ run'[h] = "down"
      /\ \A g \in Host : g # h => run'[g] = run[g]
  BY <1>0, <1>1 DEF Shape
<1>3. /\ DOMAIN pass' = Host /\ \A g \in Host : g # h => pass'[g] = pass[g]
      /\ DOMAIN pass'[h] = {"pc", "todo", "job", "worker"} /\ pass'[h].pc = "idle"
  <2>1. PICK p : p = NoPass OBVIOUS
  <2>2. DOMAIN p = {"pc", "todo", "job", "worker"} /\ p.pc = "idle" BY <2>1 DEF NoPass
  <2>3. QED BY <1>0, <1>1, <2>1, <2>2 DEF Shape
<1>4. /\ DOMAIN rec' = Host /\ \A g \in Host : g # h => rec'[g] = rec[g]
      /\ DOMAIN rec'[h] = {"pc", "forced", "todo", "victim", "fixed", "jobs"}
      /\ rec'[h].forced = FALSE /\ rec'[h].pc = "idle" /\ rec'[h].todo = {}
  <2>1. PICK r : r = NoRecon OBVIOUS
  <2>2. /\ DOMAIN r = {"pc", "forced", "todo", "victim", "fixed", "jobs"} /\ r.pc = "idle"
        /\ r.forced = FALSE /\ r.todo = {}
    BY <2>1 DEF NoRecon
  <2>3. QED BY <1>0, <1>1, <2>1, <2>2, PutRecFact
<1>5. /\ exit' \in [Worker -> {"none", "watch", "settle", "aggregate"}]
      /\ \A w \in Worker : /\ exit'[w] \in {"none", exit[w]}
                           /\ workers[w].host # h => exit'[w] = exit[w]
  BY <1>0, <1>1 DEF Shape
<1>6. /\ assigned' \in [Worker -> Host \cup {NoHost}]
      /\ \A w \in Worker : assigned[w] # h => assigned'[w] = assigned[w]
  BY <1>0, <1>1 DEF Shape
<1>7. Shape'
  <2>1. \A g \in Host : /\ DOMAIN pass'[g] = {"pc", "todo", "job", "worker"}
                        /\ pass'[g].pc \in PassPc
    BY <1>0, <1>3 DEF Shape, PassPc
  <2>2. \A g \in Host : /\ DOMAIN rec'[g] = {"pc", "forced", "todo", "victim", "fixed", "jobs"}
                        /\ rec'[g].forced \in BOOLEAN /\ rec'[g].todo \subseteq Worker
    BY <1>0, <1>4 DEF Shape
  <2>3. QED BY <1>0, <1>1, <1>2, <1>3, <1>4, <1>5, <1>6, <2>1, <2>2 DEF Shape
<1>8. ASSUME NEW w \in Worker PROVE Placed(w)' /\ Left(w)
  <2>1. Placed(w) BY DEF HostInv
  <2>2. workers[w].status # "absent" => workers[w].host \in Host BY <2>1 DEF Placed
  <2>3. workers[w].status # "absent" /\ Here(w)' => Here(w) /\ workers[w].host # h
    BY <1>1, <1>2, <2>2 DEF Here, Running
  <2>4. Left(w) BY <1>1, <2>3 DEF Left
  <2>5. w \in Unended => workers[w].status # "absent" BY DEF Unended, Schedulable
  <2>6. ASSUME w \in Unended, Here(w)'
        PROVE  assigned'[w] = workers'[w].host \/ Starting(workers[w].host, w)'
    <3>1. workers[w].host \in Host /\ workers[w].host # h /\ Here(w) BY <2>2, <2>3, <2>5, <2>6
    <3>2. pass'[workers[w].host] = pass[workers[w].host] BY <1>3, <3>1
    <3>3. QED BY <1>1, <1>6, <2>1, <2>6, <3>1, <3>2 DEF Placed, Starting
  <2>7. (w \in Unended)' <=> w \in Unended BY <1>1 DEF Unended
  <2>8. Placed(w)' BY <1>1, <1>5, <2>1, <2>6, <2>7 DEF Placed, Starting
  <2>9. QED BY <2>4, <2>8
<1>9. ASSUME NEW g \in Host PROVE Passing(g)' /\ Judging(g)'
  <2>1. Passing(g) /\ Judging(g) BY DEF HostInv
  <2>2. CASE g = h BY <1>1, <1>2, <1>3, <1>4, <2>1, <2>2 DEF Passing, Judging
  <2>3. CASE g # h
    <3>1. pass[g].pc \in {"spawn", "active", "register"} =>
            /\ workers'[pass[g].worker] = workers[pass[g].worker]
            /\ exit'[pass[g].worker] = exit[pass[g].worker]
      BY <1>1, <1>5, <2>1, <2>3 DEF Passing
    <3>2. Passing(g)' BY <1>0, <1>1, <1>2, <1>3, <1>8, <2>1, <2>3, <3>1, PassingKept
    <3>3. Judging(g)' BY <1>0, <1>4, <1>8, <2>1, <2>3, JudgingKept
    <3>4. QED BY <3>2, <3>3
  <2>4. QED BY <2>2, <2>3
<1>10. QED BY <1>7, <1>8, <1>9 DEF HostInv

\* It holds of the stores before any runtime has started.
LEMMA HostInit == ASSUME MultiHostAssumption, Init PROVE HostInv
<1>1. PICK r0 : r0 = NoRec OBVIOUS
<1>2. PICK p0 : p0 = NoPass OBVIOUS
<1>3. PICK c0 : c0 = NoRecon OBVIOUS
<1>4. /\ DOMAIN r0 = {"status", "job", "host", "pid"} /\ r0.status = "absent" /\ r0.pid = FALSE
      /\ DOMAIN p0 = {"pc", "todo", "job", "worker"} /\ p0.pc = "idle"
      /\ DOMAIN c0 = {"pc", "forced", "todo", "victim", "fixed", "jobs"} /\ c0.pc = "idle"
      /\ c0.forced = FALSE /\ c0.todo = {}
  BY <1>1, <1>2, <1>3 DEF NoRec, NoPass, NoRecon
<1>5. /\ workers = [w \in Worker |-> r0] /\ live = {} /\ assigned = [w \in Worker |-> NoHost]
      /\ run = [h \in Host |-> "down"] /\ boots = [h \in Host |-> 0]
      /\ pass = [h \in Host |-> p0] /\ rec = [h \in Host |-> c0]
      /\ exit = [w \in Worker |-> "none"]
  BY <1>1, <1>2, <1>3 DEF Init
<1>6. Shape BY <1>4, <1>5 DEF Shape, Status, PassPc
<1>7. ASSUME NEW w \in Worker PROVE Placed(w)
  BY <1>4, <1>5 DEF Placed, Unended, Schedulable
<1>8. ASSUME NEW h \in Host PROVE Passing(h) /\ Judging(h)
  BY <1>4, <1>5 DEF Passing, Judging, Running, MultiHostAssumption
<1>9. QED BY <1>6, <1>7, <1>8 DEF HostInv

\* Every step keeps it.
LEMMA HostNext ==
  ASSUME HostInv, MultiHostAssumption, Orderly, [Next]_vars
  PROVE  HostInv'
<1>1. CASE Lapse \/ (\E h \in Host, j \in Job : Submit(h, j)) \/ \E h \in Host : DeleteLease(h)
  BY <1>1, HostStutter DEF Lapse, Submit, DeleteLease, store, local, plane
<1>2. ASSUME NEW h \in Host, BeginPass(h) \/ Dispatch(h) PROVE HostInv'
  BY <1>2, PassStep, StartStep DEF Dispatch
<1>3. ASSUME NEW h \in Host, Reconcile(h) PROVE HostInv'
  BY <1>3, RecStep, JudgeStep DEF Reconcile
<1>4. ASSUME NEW h \in Host, Boot(h) \/ Stop(h) \/ Unregister(h) \/ Crash(h) PROVE HostInv'
  BY <1>4, BootStep, StopStep, GoneStep
<1>5. ASSUME NEW w \in Worker, ProcessEnds(w) \/ Handle(w) PROVE HostInv'
  BY <1>5, EndStep DEF Handle
<1>6. CASE UNCHANGED vars BY <1>6, HostStutter DEF vars, store, local, plane
<1>7. QED BY <1>1, <1>2, <1>3, <1>4, <1>5, <1>6 DEF Next

\* The invariant of hosts and workers: a worker that has not ended at a running
\* host is being started there or has its assignment there, a pass only starts
\* workers of its own, and a reconcile pass only ever has the workers of hosts that
\* are gone in hand.
THEOREM HostsHold == ASSUME Orderly PROVE Spec => []HostInv
<1>1. MultiHostAssumption BY MultiHostAssumption
<1>2. Init => HostInv BY HostInit, MultiHostAssumption
<1>3. HostInv /\ [Next]_vars => HostInv' BY HostNext, MultiHostAssumption
<1>4. QED BY <1>2, <1>3, PTL DEF Spec

-----------------------------------------------------------------------------
(* Who writes a worker off *)

\* Only Repair writes a record as lost.
LEMMA LostByRepair ==
  ASSUME HostInv, MultiHostAssumption, [Next]_vars, NEW w \in Worker,
         workers'[w].status = "lost", workers[w].status # "lost"
  PROVE  \E h \in Host : Repair(h) /\ rec[h].pc = "write" /\ rec[h].victim = w
<1>0. Shape BY DEF HostInv
<1>1. workers' # workers BY DEF HostInv
<1>2. ASSUME NEW h \in Host, Create(h) PROVE FALSE
  <2>1. PICK v, r : v \in Worker /\ r.status = "starting" /\ workers' = [workers EXCEPT ![v] = r]
    BY <1>2 DEF Create, FreshWorker
  <2>2. QED BY <1>0, <2>1 DEF Shape
<1>3. ASSUME NEW h \in Host, ActiveWrite(h) PROVE FALSE
  <2>1. Passing(h) BY DEF HostInv
  <2>2. PICK v \in Worker : v = pass[h].worker BY <1>3, <2>1 DEF Passing, ActiveWrite, At
  <2>3. PICK r : r = [workers[v] EXCEPT !.status = "active", !.pid = TRUE] OBVIOUS
  <2>4. r.status = "active" BY <1>0, <2>3 DEF Shape
  <2>5. workers' = [workers EXCEPT ![v] = r] BY <1>3, <2>2, <2>3 DEF ActiveWrite
  <2>6. QED BY <1>0, <2>4, <2>5 DEF Shape
<1>4. ASSUME NEW v \in Worker, Handle(v) PROVE FALSE
  <2>1. PICK s \in {"finishing", "finished"} : Record(v, s)
    BY <1>1, <1>4 DEF Handle, ExitBegins, ExitSettles, Aggregate
  <2>2. s \in Status BY DEF Status
  <2>3. QED BY <1>0, <2>1, <2>2, RecordFact
<1>5. ASSUME NEW h \in Host, Repair(h) PROVE rec[h].pc = "write" /\ rec[h].victim = w
  <2>1. Judging(h) BY DEF HostInv
  <2>2. rec[h].pc = "write" BY <1>5 DEF Repair, RecAt
  <2>3. PICK v \in Worker : v = rec[h].victim BY <2>1, <2>2 DEF Judging
  <2>4. Record(v, "lost") /\ "lost" \in Status BY <1>5, <2>3 DEF Repair, Status
  <2>5. w = v BY <1>0, <2>4, RecordFact
  <2>6. QED BY <2>2, <2>3, <2>5
<1>6. \/ \E h \in Host : Create(h) \/ ActiveWrite(h) \/ Repair(h)
      \/ \E v \in Worker : Handle(v)
  <2>1. CASE UNCHANGED vars BY <1>1, <2>1 DEF vars, store
  <2>2. CASE Lapse \/ (\E h \in Host, j \in Job : Submit(h, j))
    BY <1>1, <2>2 DEF Lapse, Submit, store
  <2>3. ASSUME NEW h \in Host, BeginPass(h) \/ Dispatch(h)
        PROVE  Create(h) \/ ActiveWrite(h)
    BY <1>1, <2>3
    DEF BeginPass, Dispatch, Visit, EndPass, Spawn, Register, AfterJob, store
  <2>4. ASSUME NEW h \in Host, Reconcile(h) PROVE Repair(h)
    BY <1>1, <2>4 DEF Reconcile, RecBegin, RecJobs, RecJob, RecEnd, Judge, store
  <2>5. ASSUME NEW h \in Host,
               Boot(h) \/ Stop(h) \/ DeleteLease(h) \/ Unregister(h) \/ Crash(h)
        PROVE  FALSE
    BY <1>1, <2>5 DEF Boot, Stop, DeleteLease, Unregister, Crash, store
  <2>6. ASSUME NEW v \in Worker, ProcessEnds(v) PROVE FALSE
    BY <1>1, <2>6 DEF ProcessEnds, store
  <2>7. QED BY <2>1, <2>2, <2>3, <2>4, <2>5, <2>6 DEF Next
<1>7. QED BY <1>2, <1>3, <1>4, <1>5, <1>6

\* A worker is written off as lost only when its host is gone: not by a host that
\* is merely unlucky with the age of the record, and not while its own host is
\* still shutting down (getRecoveryDisposition and repairWorker of reconciler.ts).
THEOREM WrittenOffWhenGone == ASSUME Orderly PROVE Spec => LostOnlyWhenGone
<1>1. ASSUME HostInv, [Next]_vars
      PROVE  [\A w \in Worker :
                workers'[w].status = "lost" /\ workers[w].status # "lost" => ~Here(w)]_vars
  <2>1. ASSUME NEW w \in Worker, workers'[w].status = "lost", workers[w].status # "lost"
        PROVE  ~Here(w)
    <3>1. PICK h \in Host : rec[h].pc = "write" /\ rec[h].victim = w
      BY <1>1, <2>1, LostByRepair, MultiHostAssumption
    <3>2. Judging(h) BY <1>1 DEF HostInv
    <3>3. QED BY <3>1, <3>2 DEF Judging
  <2>2. QED BY <2>1
<1>2. Spec => []HostInv BY HostsHold
<1>3. Spec => [][\A w \in Worker :
                   workers'[w].status = "lost" /\ workers[w].status # "lost" => ~Here(w)]_vars
  BY <1>1, <1>2, PTL DEF Spec
<1>4. QED BY <1>3 DEF LostOnlyWhenGone

-----------------------------------------------------------------------------
(* The lease, and one worker for a job *)

\* Every worker that can still be scheduled could before, for the same job.
Fewer ==
  \A w \in Worker : workers'[w].status \in Schedulable =>
                      workers[w].status \in Schedulable /\ workers'[w].job = workers[w].job

\* Every step but a start is such a step.
LEMMA FewerStep ==
  ASSUME HostInv, MultiHostAssumption, [Next]_vars, \A h \in Host : ~Create(h)
  PROVE  Fewer
<1>0. Shape BY DEF HostInv
<1>1. CASE UNCHANGED workers BY <1>1 DEF Fewer
<1>2. ASSUME NEW h \in Host, ActiveWrite(h) PROVE Fewer
  <2>1. Passing(h) BY DEF HostInv
  <2>2. PICK v \in Worker : v = pass[h].worker BY <1>2, <2>1 DEF Passing, ActiveWrite, At
  <2>3. workers[v].status = "starting" BY <1>2, <2>1, <2>2 DEF Passing, ActiveWrite, At
  <2>4. PICK r : r = [workers[v] EXCEPT !.status = "active", !.pid = TRUE] OBVIOUS
  <2>5. r.job = workers[v].job BY <1>0, <2>4 DEF Shape
  <2>6. workers' = [workers EXCEPT ![v] = r] BY <1>2, <2>2, <2>4 DEF ActiveWrite
  <2>7. QED BY <1>0, <2>3, <2>5, <2>6 DEF Shape, Fewer, Schedulable
<1>3. ASSUME NEW v \in Worker, NEW s \in {"finishing", "finished", "lost"}, Record(v, s)
      PROVE  Fewer
  <2>1. s \in Status /\ s \notin Schedulable BY DEF Status, Schedulable
  <2>2. QED BY <1>0, <1>3, <2>1, RecordFact DEF Fewer
<1>4. ASSUME NEW v \in Worker, Handle(v) PROVE Fewer
  BY <1>1, <1>3, <1>4 DEF Handle, ExitBegins, ExitSettles, Aggregate
<1>5. ASSUME NEW h \in Host, Repair(h) PROVE Fewer
  <2>1. Judging(h) BY DEF HostInv
  <2>2. rec[h].victim \in Worker BY <1>5, <2>1 DEF Repair, RecAt, Judging
  <2>3. QED BY <1>3, <1>5, <2>2 DEF Repair
<1>6. CASE UNCHANGED vars BY <1>1, <1>6 DEF vars, store
<1>7. CASE Lapse \/ (\E h \in Host, j \in Job : Submit(h, j))
  BY <1>1, <1>7 DEF Lapse, Submit, store
<1>8. ASSUME NEW h \in Host, BeginPass(h) \/ Dispatch(h) PROVE Fewer
  BY <1>1, <1>2, <1>8
  DEF BeginPass, Dispatch, Visit, EndPass, Spawn, Register, AfterJob, store
<1>9. ASSUME NEW h \in Host, Reconcile(h) PROVE Fewer
  BY <1>1, <1>5, <1>9 DEF Reconcile, RecBegin, RecJobs, RecJob, RecEnd, Judge, store
<1>10. ASSUME NEW h \in Host,
              Boot(h) \/ Stop(h) \/ DeleteLease(h) \/ Unregister(h) \/ Crash(h)
       PROVE  Fewer
  BY <1>1, <1>10 DEF Boot, Stop, DeleteLease, Unregister, Crash, store
<1>11. ASSUME NEW v \in Worker, ProcessEnds(v) PROVE Fewer BY <1>1, <1>11 DEF ProcessEnds, store
<1>12. QED BY <1>4, <1>6, <1>7, <1>8, <1>9, <1>10, <1>11 DEF Next

\* A host that is past stays so.
LEMMA PastStays ==
  ASSUME HostInv, MultiHostAssumption, Orderly, [Next]_vars, NEW g \in Host, Past(g)
  PROVE  Past(g)'
<1>0. Shape /\ Passing(g) BY DEF HostInv
<1>1. CASE UNCHANGED <<run, boots>> BY <1>1 DEF Past
<1>2. ASSUME NEW h \in Host, RecEnd(h) PROVE Past(g)'
  BY <1>0, <1>2 DEF RecEnd, Past, Shape
<1>3. ASSUME NEW h \in Host, Boot(h) PROVE Past(g)'
  <2>1. boots[h] \in Nat /\ MaxBoots \in Nat BY <1>0 DEF Shape, MultiHostAssumption
  <2>2. run[h] = "down" /\ boots[h] = 0 BY <1>3, <2>1 DEF Boot, Orderly
  <2>3. g # h BY <2>2 DEF Past
  <2>4. QED BY <1>0, <1>3, <2>3 DEF Boot, Past, Shape
<1>4. ASSUME NEW h \in Host, Stop(h) PROVE Past(g)' BY <1>0, <1>4 DEF Stop, Past, Shape
<1>5. ASSUME NEW h \in Host, Unregister(h) \/ Crash(h) PROVE Past(g)'
  <2>1. run' = [run EXCEPT ![h] = "down"] /\ boots' = boots
    BY <1>5 DEF Unregister, Crash, Gone
  <2>2. boots[g] # 0 BY <1>0 DEF Past, Passing
  <2>3. QED BY <1>0, <2>1, <2>2 DEF Past, Shape
<1>6. CASE UNCHANGED vars BY <1>1, <1>6 DEF vars, local
<1>7. CASE Lapse \/ (\E h \in Host, j \in Job : Submit(h, j))
  BY <1>1, <1>7 DEF Lapse, Submit, local
<1>8. ASSUME NEW h \in Host, BeginPass(h) \/ Dispatch(h) PROVE Past(g)'
  BY <1>1, <1>8
  DEF BeginPass, Dispatch, Visit, EndPass, Create, Spawn, ActiveWrite, Register, AfterJob
<1>9. ASSUME NEW h \in Host, Reconcile(h) PROVE Past(g)'
  BY <1>1, <1>2, <1>9 DEF Reconcile, RecBegin, RecJobs, RecJob, Judge, Repair
<1>10. ASSUME NEW h \in Host, DeleteLease(h) PROVE Past(g)'
  BY <1>1, <1>10 DEF DeleteLease, local
<1>11. ASSUME NEW w \in Worker, ProcessEnds(w) \/ Handle(w) PROVE Past(g)'
  BY <1>1, <1>11 DEF ProcessEnds, Handle, ExitBegins, ExitSettles, Aggregate, local
<1>12. QED BY <1>3, <1>4, <1>5, <1>6, <1>7, <1>8, <1>9, <1>10, <1>11 DEF Next

\* A host whose pass and phase do not move keeps the lead it has.
LEMMA LeadingKept ==
  ASSUME NEW h \in Host, Leading(h), Fewer, pass'[h] = pass[h], run'[h] = run[h],
         h \in release' => h \in release,
         \A g \in Stoppable : Past(g) => Past(g)',
         pass[h].pc = "idle" \/ lease' = lease \/ \E g \in Stoppable \ {h} : Past(g)'
  PROVE  Leading(h)'
<1>1. pass'[h].pc # "idle" => \/ lease'.owner = h /\ lease'.fresh
                              \/ \E g \in Stoppable \ {h} : Past(g)'
  BY DEF Leading
<1>2. pass[h].pc = "create" => ~Busy(pass[h].job)'
  BY DEF Leading, Busy, WorkersOf, Fewer
<1>3. QED BY <1>1, <1>2 DEF Leading

\* A step that neither starts a worker nor begins a pass.
LEMMA LeaseKept ==
  ASSUME LeaseInv, Fewer, DOMAIN lease' = {"owner", "fresh"},
         \A h \in Host : Leading(h)' /\ (pass'[h].pc # "idle" => pass[h].pc # "idle")
  PROVE  LeaseInv'
<1>1. \A g, h \in Host : pass'[g].pc # "idle" /\ pass'[h].pc # "idle" => g = h
  BY DEF LeaseInv
<1>2. \A v, w \in Worker :
        /\ workers'[v].status \in Schedulable /\ workers'[w].status \in Schedulable
        /\ workers'[v].job = workers'[w].job
        => v = w
  BY DEF LeaseInv, Fewer
<1>3. QED BY <1>1, <1>2 DEF LeaseInv

\* Beside a host that is past and may be shut down there is one other at most.
LEMMA OneOther ==
  ASSUME OnePlanned, NEW s \in Stoppable, NEW g \in Host, NEW k \in Host, g # s, k # s
  PROVE  g = k
BY DEF OnePlanned

\* The lease lapses, or is deleted.
LEMMA LeaseGoes ==
  ASSUME HostInv, MultiHostAssumption, LeaseInv, Fewer,
         \A g \in Stoppable : Past(g) => Past(g)',
         Lapse \/ \E h \in Host : DeleteLease(h)
  PROVE  LeaseInv'
<1>1. /\ UNCHANGED <<run, pass>> /\ release' \subseteq release
      /\ DOMAIN lease' = {"owner", "fresh"}
  <2>1. CASE Lapse BY <2>1 DEF Lapse, local, LeaseInv
  <2>2. CASE \E h \in Host : DeleteLease(h)
    <3>1. PICK l : l = NoLease OBVIOUS
    <3>2. DOMAIN l = {"owner", "fresh"} BY <3>1 DEF NoLease
    <3>3. lease' = l BY <2>2, <3>1 DEF DeleteLease
    <3>4. QED BY <2>2, <3>2, <3>3 DEF DeleteLease, local
  <2>3. QED BY <2>1, <2>2
<1>2. ASSUME NEW g \in Host PROVE Leading(g)'
  <2>1. Leading(g) /\ Passing(g) BY DEF LeaseInv, HostInv
  <2>2. CASE pass[g].pc = "idle" BY <1>1, <2>1, <2>2, LeadingKept
  <2>3. CASE Lapse /\ pass[g].pc # "idle"
    <3>1. lease.owner # g BY <2>1, <2>3 DEF Lapse, Passing
    <3>2. \E s \in Stoppable \ {g} : Past(s)' BY <2>1, <2>3, <3>1 DEF Leading
    <3>3. QED BY <1>1, <2>1, <3>2, LeadingKept
  <2>4. ASSUME NEW h \in Host, DeleteLease(h), pass[g].pc # "idle" PROVE Leading(g)'
    <3>1. h \in release BY <2>4 DEF DeleteLease
    <3>2. Leading(h) BY DEF LeaseInv
    <3>3. h \in Stoppable /\ Past(h) /\ h # g BY <2>1, <2>4, <3>1, <3>2 DEF Leading, Past
    <3>4. \E s \in Stoppable \ {g} : Past(s)' BY <3>3
    <3>5. QED BY <1>1, <2>1, <3>4, LeadingKept
  <2>5. QED BY <2>2, <2>3, <2>4
<1>3. QED BY <1>1, <1>2, LeaseKept

\* Clients, the ends of workers, and most of a reconcile pass.
LEMMA LeaseQuiet ==
  ASSUME LeaseInv, Fewer, \A g \in Stoppable : Past(g) => Past(g)',
         UNCHANGED <<lease, release, run, pass>>
  PROVE  LeaseInv'
<1>1. DOMAIN lease' = {"owner", "fresh"} BY DEF LeaseInv
<1>2. \A g \in Host : Leading(g)' BY LeadingKept DEF LeaseInv
<1>3. QED BY <1>1, <1>2, LeaseKept

\* A pass goes on: the next entry is for a job without a worker.
LEMMA LeasePass ==
  ASSUME HostInv, LeaseInv, Fewer, \A g \in Stoppable : Past(g) => Past(g)', NEW h \in Host,
         Visit(h) \/ EndPass(h) \/ Spawn(h) \/ ActiveWrite(h) \/ Register(h) \/ AfterJob(h)
  PROVE  LeaseInv'
<1>0. Shape /\ Leading(h) BY DEF HostInv, LeaseInv
<1>1. /\ UNCHANGED <<lease, release, run>> /\ pass[h].pc # "idle"
      /\ \A g \in Host : g # h => pass'[g] = pass[g]
      /\ pass'[h].pc = "create" => ~Busy(pass'[h].job)
  <2> USE DEF plane
  <2>1. CASE Visit(h)
    <3>1. PICK pc, todo, j :
            /\ pass' = [pass EXCEPT ![h] = [pass[h] EXCEPT !.todo = todo, !.job = j, !.pc = pc]]
            /\ pc = IF Needless(j) THEN "visit" ELSE "create"
      BY <2>1 DEF Visit
    <3>2. PICK p : p = [pass[h] EXCEPT !.todo = todo, !.job = j, !.pc = pc] OBVIOUS
    <3>3. p.job = j /\ (p.pc = "create" => ~Busy(j)) BY <1>0, <3>1, <3>2 DEF Shape, Needless
    <3>4. pass' = [pass EXCEPT ![h] = p] BY <3>1, <3>2
    <3>5. QED BY <1>0, <2>1, <3>3, <3>4 DEF Visit, At, Shape
  <2>2. CASE EndPass(h)
    <3>1. PICK p : p = NoPass OBVIOUS
    <3>2. p.pc = "idle" BY <3>1 DEF NoPass
    <3>3. pass' = [pass EXCEPT ![h] = p] BY <2>2, <3>1 DEF EndPass
    <3>4. QED BY <1>0, <2>2, <3>2, <3>3 DEF EndPass, At, Shape
  <2>3. CASE AfterJob(h)
    <3>1. PICK p : p = [NoPass EXCEPT !.pc = "visit", !.todo = pass[h].todo] OBVIOUS
    <3>2. p.pc = "visit" BY <3>1 DEF NoPass
    <3>3. pass' = [pass EXCEPT ![h] = p] BY <2>3, <3>1 DEF AfterJob
    <3>4. QED BY <1>0, <2>3, <3>2, <3>3 DEF AfterJob, At, Shape
  <2>4. ASSUME NEW pc \in {"active", "register", "after"}, Go(h, pc)
        PROVE  pass'[h].pc # "create" /\ \A g \in Host : g # h => pass'[g] = pass[g]
    BY <1>0, <2>4, GoFact DEF PassPc
  <2>5. CASE Spawn(h) BY <2>4, <2>5 DEF Spawn, At
  <2>6. CASE ActiveWrite(h) BY <2>4, <2>6 DEF ActiveWrite, At
  <2>7. CASE Register(h) BY <2>4, <2>7 DEF Register, At
  <2>8. QED BY <2>1, <2>2, <2>3, <2>5, <2>6, <2>7
<1>2. pass'[h].pc = "create" => ~Busy(pass[h].job)'
  <2>1. PICK j : j = pass'[h].job OBVIOUS
  <2>2. pass'[h].pc = "create" => ~Busy(j)' BY <1>1, <2>1 DEF Busy, WorkersOf, Fewer
  <2>3. QED BY <2>1, <2>2 DEF Busy, WorkersOf
<1>3. Leading(h)' BY <1>0, <1>1, <1>2 DEF Leading
<1>4. \A g \in Host : Leading(g)' BY <1>1, <1>3, LeadingKept DEF LeaseInv
<1>5. DOMAIN lease' = {"owner", "fresh"} BY <1>1 DEF LeaseInv
<1>6. QED BY <1>1, <1>4, <1>5, LeaseKept

\* A pass begins, with the lease: no other is under way.
LEMMA LeaseBegin ==
  ASSUME HostInv, MultiHostAssumption, OnePlanned, LeaseInv, Fewer,
         \A g \in Stoppable : Past(g) => Past(g)', NEW h \in Host, BeginPass(h)
  PROVE  LeaseInv'
<1>0. Shape /\ Leading(h) BY DEF HostInv, LeaseInv
<1>1. DOMAIN lease' = {"owner", "fresh"} /\ lease'.owner = h /\ lease'.fresh
  <2>1. PICK l : l = Acquired(h) OBVIOUS
  <2>2. DOMAIN l = {"owner", "fresh"} /\ l.owner = h /\ l.fresh = TRUE BY <2>1 DEF Acquired
  <2>3. lease' = l BY <2>1 DEF BeginPass
  <2>4. QED BY <2>2, <2>3
<1>2. /\ UNCHANGED <<release, run>> /\ run[h] = "up"
      /\ pass'[h].pc # "create" /\ \A g \in Host : g # h => pass'[g] = pass[g]
  <2>1. PICK p : p = [NoPass EXCEPT !.pc = "visit", !.todo = queue] OBVIOUS
  <2>2. p.pc = "visit" BY <2>1 DEF NoPass
  <2>3. pass' = pass \/ pass' = [pass EXCEPT ![h] = p] BY <2>1 DEF BeginPass
  <2>4. QED BY <1>0, <2>2, <2>3 DEF BeginPass, Shape
<1>3. ASSUME NEW g \in Host, g # h, pass[g].pc # "idle" PROVE FALSE
  <2>1. Leading(g) BY DEF LeaseInv
  <2>2. CASE lease.owner = g /\ lease.fresh
    BY <1>3, <2>2 DEF BeginPass, CanAcquire, MultiHostAssumption
  <2>3. ASSUME NEW s \in Stoppable, s # g, Past(s) PROVE FALSE
    <3>1. s # h BY <1>2, <2>3 DEF Past
    <3>2. QED BY <1>3, <2>3, <3>1, OneOther
  <2>4. QED BY <1>3, <2>1, <2>2, <2>3 DEF Leading
<1>4. Leading(h)' BY <1>0, <1>1, <1>2 DEF Leading
<1>5. \A g \in Host : g # h => Leading(g)' BY <1>2, <1>3, LeadingKept DEF LeaseInv
<1>6. \A g, k \in Host : pass'[g].pc # "idle" /\ pass'[k].pc # "idle" => g = k
  BY <1>2, <1>3
<1>7. \A v, w \in Worker :
        /\ workers'[v].status \in Schedulable /\ workers'[w].status \in Schedulable
        /\ workers'[v].job = workers'[w].job
        => v = w
  BY DEF LeaseInv, Fewer
<1>8. QED BY <1>1, <1>4, <1>5, <1>6, <1>7 DEF LeaseInv

\* A worker is started, for a job that has none.
LEMMA LeaseStart ==
  ASSUME HostInv, LeaseInv, \A g \in Stoppable : Past(g) => Past(g)',
         NEW h \in Host, Create(h)
  PROVE  LeaseInv'
<1>0. Shape /\ Leading(h) BY DEF HostInv, LeaseInv
<1>1. PICK w \in FreshWorker :
        /\ workers' = [workers EXCEPT ![w] =
                         [status |-> "starting", job |-> pass[h].job, host |-> h, pid |-> FALSE]]
        /\ pass' = [pass EXCEPT ![h] = [pass[h] EXCEPT !.pc = "spawn", !.worker = w]]
  BY DEF Create
<1>2. PICK r : r = [status |-> "starting", job |-> pass[h].job, host |-> h, pid |-> FALSE]
  OBVIOUS
<1>3. PICK p : p = [pass[h] EXCEPT !.pc = "spawn", !.worker = w] OBVIOUS
<1>4. /\ UNCHANGED <<lease, release, run>> /\ pass[h].pc = "create" /\ w \in Worker
      /\ workers' = [workers EXCEPT ![w] = r] /\ pass' = [pass EXCEPT ![h] = p]
  BY <1>1, <1>2, <1>3 DEF Create, At, plane, FreshWorker
<1>5. r.job = pass[h].job BY <1>2
<1>6. /\ \A v \in Worker : v # w => workers'[v] = workers[v]
      /\ workers'[w].job = pass[h].job
  BY <1>0, <1>4, <1>5 DEF Shape
<1>7. pass'[h].pc = "spawn" /\ \A g \in Host : g # h => pass'[g] = pass[g]
  <2>1. p.pc = "spawn" BY <1>0, <1>3 DEF Shape
  <2>2. QED BY <1>0, <1>4, <2>1 DEF Shape
<1>8. ~Busy(pass[h].job) BY <1>0, <1>4 DEF Leading
<1>9. \A v \in Worker : workers[v].status \in Schedulable => workers[v].job # pass[h].job
  BY <1>8 DEF Busy, WorkersOf
<1>10. \A u, v \in Worker :
         /\ workers'[u].status \in Schedulable /\ workers'[v].status \in Schedulable
         /\ workers'[u].job = workers'[v].job
         => u = v
  BY <1>6, <1>9 DEF LeaseInv
<1>11. \A g \in Host : g # h => pass[g].pc = "idle" BY <1>4 DEF LeaseInv
<1>12. Leading(h)'
  <2>1. (lease'.owner = h /\ lease'.fresh) \/ \E s \in Stoppable \ {h} : Past(s)'
    BY <1>0, <1>4 DEF Leading
  <2>2. QED BY <1>0, <1>4, <1>7, <2>1 DEF Leading
<1>13. \A g \in Host : g # h => Leading(g)'
  <2>1. ASSUME NEW g \in Host, g # h PROVE Leading(g)'
    <3>1. Leading(g) BY DEF LeaseInv
    <3>2. QED BY <1>4, <1>7, <1>11, <2>1, <3>1 DEF Leading
  <2>2. QED BY <2>1
<1>14. DOMAIN lease' = {"owner", "fresh"} BY <1>4 DEF LeaseInv
<1>15. \A g, k \in Host : pass'[g].pc # "idle" /\ pass'[k].pc # "idle" => g = k
  BY <1>7, <1>11
<1>16. QED BY <1>10, <1>12, <1>13, <1>14, <1>15 DEF LeaseInv

\* A host comes up, begins to stop, or goes.
LEMMA LeaseHost ==
  ASSUME HostInv, OnePlanned, LeaseInv, Fewer, \A g \in Stoppable : Past(g) => Past(g)',
         NEW h \in Host, RecEnd(h) \/ Boot(h) \/ Stop(h) \/ Unregister(h) \/ Crash(h)
  PROVE  LeaseInv'
<1> USE DEF store, plane
<1>0. Shape /\ Leading(h) /\ Passing(h) BY DEF HostInv, LeaseInv
<1>1. /\ \A g \in Host : g # h => run'[g] = run[g] /\ pass'[g] = pass[g]
      /\ run'[h] = "stopping" => pass'[h].pc = "idle"
      /\ pass'[h] = pass[h] \/ pass'[h].pc = "idle"
      /\ release' \subseteq release \cup {h}
      /\ h \in release' => h \in Stoppable /\ run'[h] = "stopping"
  <2>1. CASE RecEnd(h) BY <1>0, <2>1 DEF RecEnd, RecAt, Running, Shape, Leading
  <2>2. CASE Boot(h) BY <1>0, <2>2 DEF Boot, Shape, Leading
  <2>3. CASE Stop(h) BY <1>0, <2>3 DEF Stop, Shape, OnePlanned
  <2>4. ASSUME Gone(h), h \notin release, release' = release
        PROVE  /\ \A g \in Host : g # h => run'[g] = run[g] /\ pass'[g] = pass[g]
               /\ pass'[h].pc = "idle" /\ release' = release /\ h \notin release'
    <3>1. PICK p : p = NoPass OBVIOUS
    <3>2. p.pc = "idle" BY <3>1 DEF NoPass
    <3>3. pass' = [pass EXCEPT ![h] = p] /\ run' = [run EXCEPT ![h] = "down"]
      BY <2>4, <3>1 DEF Gone
    <3>4. QED BY <1>0, <2>4, <3>2, <3>3 DEF Shape
  <2>5. CASE Unregister(h) BY <2>4, <2>5 DEF Unregister
  <2>6. CASE Crash(h) BY <1>0, <2>4, <2>6 DEF Crash, Leading
  <2>7. QED BY <2>1, <2>2, <2>3, <2>5, <2>6
<1>2. DOMAIN lease' = {"owner", "fresh"} /\ (lease' = lease \/ lease.owner = h)
  <2>1. CASE lease' = lease BY <2>1 DEF LeaseInv
  <2>2. CASE lease' = NoLease /\ lease.owner = h
    <3>1. PICK l : l = NoLease OBVIOUS
    <3>2. DOMAIN l = {"owner", "fresh"} BY <3>1 DEF NoLease
    <3>3. QED BY <2>2, <3>1, <3>2
  <2>3. QED BY <2>1, <2>2 DEF RecEnd, Boot, Stop, Unregister, Crash
<1>3. Leading(h)'
  <2>1. CASE pass'[h].pc = "idle" BY <1>1, <2>1 DEF Leading
  <2>2. CASE pass'[h].pc # "idle"
    <3>1. pass'[h] = pass[h] /\ pass[h].pc # "idle" BY <1>1, <2>2
    <3>2. lease' = lease
      BY <1>0, <3>1 DEF RecEnd, Boot, Stop, Unregister, Crash, OnePlanned, Leading
    <3>3. pass'[h].pc # "idle" => (lease'.owner = h /\ lease'.fresh)
                                   \/ \E s \in Stoppable \ {h} : Past(s)'
      BY <1>0, <3>1, <3>2 DEF Leading
    <3>4. pass'[h].pc = "create" => ~Busy(pass[h].job)'
      BY <1>0, <3>1 DEF Leading, Busy, WorkersOf, Fewer
    <3>5. QED BY <1>1, <3>3, <3>4 DEF Leading
  <2>3. QED BY <2>1, <2>2
<1>4. ASSUME NEW g \in Host, g # h PROVE Leading(g)'
  <2>1. Leading(g) BY DEF LeaseInv
  <2>2. CASE lease' = lease \/ pass[g].pc = "idle" BY <1>1, <1>4, <2>1, <2>2, LeadingKept
  <2>3. CASE lease' # lease /\ pass[g].pc # "idle"
    <3>1. lease.owner # g BY <1>2, <1>4, <2>3
    <3>2. \E s \in Stoppable \ {g} : Past(s)' BY <2>1, <2>3, <3>1 DEF Leading
    <3>3. QED BY <1>1, <1>4, <2>1, <3>2, LeadingKept
  <2>4. QED BY <2>2, <2>3
<1>5. \A g \in Host : Leading(g)' BY <1>3, <1>4
<1>6. \A g \in Host : pass'[g].pc # "idle" => pass[g].pc # "idle" BY <1>1
<1>7. QED BY <1>2, <1>5, <1>6, LeaseKept

\* Every step keeps the lease with the one host that is in a pass.
LEMMA LeaseNext ==
  ASSUME HostInv, MultiHostAssumption, Orderly, OnePlanned, LeaseInv, [Next]_vars
  PROVE  LeaseInv'
<1>0. \A g \in Stoppable : Past(g) => Past(g)' BY PastStays DEF MultiHostAssumption
<1>1. ASSUME NEW h \in Host, Create(h) PROVE LeaseInv' BY <1>0, <1>1, LeaseStart
<1>2. CASE \A h \in Host : ~Create(h)
  <2>0. Fewer BY <1>2, FewerStep
  <2>1. CASE UNCHANGED <<lease, release, run, pass>> BY <1>0, <2>0, <2>1, LeaseQuiet
  <2>2. CASE UNCHANGED vars BY <2>1, <2>2 DEF vars, plane, local
  <2>3. CASE Lapse BY <1>0, <2>0, <2>3, LeaseGoes
  <2>4. CASE \E h \in Host, j \in Job : Submit(h, j) BY <2>1, <2>4 DEF Submit, plane, local
  <2>5. ASSUME NEW h \in Host, BeginPass(h) \/ Dispatch(h) PROVE LeaseInv'
    BY <1>0, <1>2, <2>0, <2>5, LeaseBegin, LeasePass DEF Dispatch
  <2>6. ASSUME NEW h \in Host, Reconcile(h) PROVE LeaseInv'
    BY <1>0, <2>0, <2>1, <2>6, LeaseHost
    DEF Reconcile, RecBegin, Repair, RecJobs, Judge, RecJob, plane
  <2>7. ASSUME NEW h \in Host,
               Boot(h) \/ Stop(h) \/ DeleteLease(h) \/ Unregister(h) \/ Crash(h)
        PROVE  LeaseInv'
    BY <1>0, <2>0, <2>7, LeaseHost, LeaseGoes
  <2>8. ASSUME NEW w \in Worker, ProcessEnds(w) \/ Handle(w) PROVE LeaseInv'
    BY <2>1, <2>8 DEF ProcessEnds, Handle, ExitBegins, ExitSettles, Aggregate, plane, local
  <2>9. QED BY <2>2, <2>3, <2>4, <2>5, <2>6, <2>7, <2>8 DEF Next
<1>3. QED BY <1>1, <1>2

\* Nobody has the lease, and nobody is in a pass, before any runtime has started.
LEMMA LeaseInit == ASSUME Init PROVE LeaseInv
<1>1. PICK l : l = NoLease OBVIOUS
<1>2. PICK p : p = NoPass OBVIOUS
<1>3. PICK r : r = NoRec OBVIOUS
<1>4. DOMAIN l = {"owner", "fresh"} /\ p.pc = "idle" /\ r.status = "absent"
  BY <1>1, <1>2, <1>3 DEF NoLease, NoPass, NoRec
<1>5. /\ lease = l /\ release = {} /\ run = [h \in Host |-> "down"]
      /\ pass = [h \in Host |-> p] /\ workers = [w \in Worker |-> r]
  BY <1>1, <1>2, <1>3 DEF Init
<1>6. \A h \in Host : Leading(h) BY <1>4, <1>5 DEF Leading
<1>7. QED BY <1>4, <1>5, <1>6 DEF LeaseInv, Schedulable

\* A job has at most one worker in state starting or active, and one host at a time
\* is in a dispatch pass: the one that has the lease, unless a host being shut down
\* has taken the lease from it (acquireLease of sqliteCoordinator.ts).
THEOREM OneScheduler == ASSUME Orderly, OnePlanned PROVE Spec => []LeaseInv
<1>1. Init => HostInv /\ LeaseInv BY HostInit, LeaseInit, MultiHostAssumption
<1>2. HostInv /\ LeaseInv /\ [Next]_vars => HostInv' /\ LeaseInv'
  BY HostNext, LeaseNext, MultiHostAssumption
<1>3. QED BY <1>1, <1>2, PTL DEF Spec

\* A job never has two processes whose pids are on record, however the lease
\* moves from a host that stops or crashes to another and whoever repairs what.
THEOREM OneProcess == ASSUME Orderly, OnePlanned PROVE Spec => []OneProcessPerJob
<1>1. ASSUME HostInv, LeaseInv PROVE OneProcessPerJob
  <2>1. ASSUME NEW j \in Job
        PROVE  Cardinality({w \in live : workers[w].pid /\ workers[w].job = j}) <= 1
    <3>1. PICK P : P = {w \in live : workers[w].pid /\ workers[w].job = j} OBVIOUS
    <3>2. P \subseteq Worker BY <1>1, <3>1 DEF HostInv, Shape
    <3>3. ASSUME NEW v \in P, NEW w \in P PROVE v = w
      <4>1. v \in Worker /\ w \in Worker BY <3>2
      <4>2. Placed(v) /\ Placed(w) BY <1>1, <4>1 DEF HostInv
      <4>3. workers[v].status = "active" /\ workers[w].status = "active"
        BY <3>1, <4>2 DEF Placed
      <4>4. workers[v].job = workers[w].job BY <3>1
      <4>5. QED BY <1>1, <4>1, <4>3, <4>4 DEF LeaseInv, Schedulable
    <3>4. Cardinality(P) \in {0, 1}
      <4>1. CASE P = {} BY <4>1, FS_EmptySet
      <4>2. CASE P # {}
        <5>1. PICK v \in P : P = {v} BY <3>3, <4>2
        <5>2. QED BY <5>1, FS_Singleton
      <4>3. QED BY <4>1, <4>2
    <3>5. Cardinality(P) <= 1 BY <3>4
    <3>6. QED BY <3>1, <3>5
  <2>2. QED BY <2>1 DEF OneProcessPerJob
<1>2. Spec => []HostInv BY HostsHold
<1>3. Spec => []LeaseInv BY OneScheduler
<1>4. QED BY <1>1, <1>2, <1>3, PTL
=============================================================================
