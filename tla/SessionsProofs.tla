---------------------------- MODULE SessionsProofs ----------------------------
(***************************************************************************)
(* What holds of Sessions for any number of sessions, callers, calls and   *)
(* crashes: types, that the status of a session agrees with its clients,   *)
(* who can open a closed session again, and what a start of the            *)
(* orchestrator heals.                                                     *)
(***************************************************************************)
EXTENDS Sessions, TLAPS

StartPlaces == {"idle", "spawn", "sync", "persist", "store", "write",
                "register", "running", "finish", "close", "closing", "done"}
CallPlaces == {"idle", "create", "link", "attach", "detach", "touch", "send",
               "cancel", "stop", "shut"}

\* A record, or a copy of one, as it may be: calls bounds its clients, and
\* what has never been stored has neither clients nor an identity.
Good(k, n) ==
  /\ k \in Copy /\ k.clients <= n + 1
  /\ k.status \in {"closed", "detached"} => k.clients = 0
  /\ k.status \in {"attached", "active"} => k.clients > 0
  /\ k.status = "absent" => ~k.rt /\ k.clients = 0

Known(s) == s \in Session /\ sessions[s].status # "absent"

Plain ==
  /\ worker \in WorkerRecord /\ runtime \in {"none", "up", "gone"} /\ handle \in BOOLEAN
  /\ boot \in {"up", "reconcile", "sessions"}
  /\ calls \in 0..MaxCalls /\ restarts \in 0..MaxRestarts

Records == sessions \in [Session -> Copy] /\ \A s \in Session : Good(sessions[s], calls)

\* What startWorker and handleWorkerExit hold.
StartHolds ==
  /\ start \in Frame(StartPlaces) /\ Good(start.copy, calls)
  /\ start.pc \in {"persist", "write", "store", "closing"} => Known(start.s)
  /\ start.pc \in {"write", "store", "closing"} => start.copy.status # "absent"
  /\ start.pc = "write" => start.copy.status # "closed" /\ start.copy.clients > 0

\* What an output callback holds.
PumpHolds ==
  /\ pump \in Frame({"idle", "write"}) /\ Good(pump.copy, calls)
  /\ pump.pc = "write" => Known(pump.s) /\ pump.copy.status # "absent"

\* What an API call holds: a session that is being created is its own.
CallHolds(c) ==
  /\ Good(call[c].copy, calls)
  /\ call[c].pc \notin {"idle", "create"} => Known(call[c].s)
  /\ call[c].pc = "create" => call[c].s \in Session /\ sessions[call[c].s].status = "absent"
  /\ call[c].pc \in {"attach", "detach", "touch", "send", "shut"}
       => call[c].copy.status \notin {"absent", "closed"}
  /\ call[c].pc = "cancel" => call[c].copy.status # "absent"
  /\ call[c].pc = "attach" => call[c].copy.clients <= calls
CallsHold ==
  /\ call \in [Caller -> Frame(CallPlaces)] /\ \A c \in Caller : CallHolds(c)
  /\ \A c, d \in Caller : c # d /\ call[c].pc = "create" /\ call[d].pc = "create"
                            => call[c].s # call[d].s

\* A start of the orchestrator: nothing from before it is under way, and once
\* the worker is repaired it has ended or there is a handle on its runtime.
Booting ==
  /\ boot # "up" => /\ \A c \in Caller : call[c].pc = "idle"
                    /\ start.pc \in {"running", "finish", "close", "closing", "done"}
  /\ boot = "sessions" => handle \/ Ended(worker)

SessInv == Plain /\ Records /\ StartHolds /\ PumpHolds /\ CallsHold /\ Booting

-----------------------------------------------------------------------------
(* Records *)

LEMMA Made ==
  ASSUME NEW st \in SessionStatus, NEW n \in 0..(MaxCalls + 1), NEW b \in BOOLEAN
  PROVE  /\ [status |-> st, clients |-> n, rt |-> b] \in Copy
         /\ [status |-> st, clients |-> n, rt |-> b].status = st
         /\ [status |-> st, clients |-> n, rt |-> b].clients = n
BY DEF Copy

LEMMA RtSet ==
  ASSUME NEW k \in Copy, NEW b \in BOOLEAN
  PROVE  /\ [k EXCEPT !.rt = b] \in Copy
         /\ [k EXCEPT !.rt = b].status = k.status
         /\ [k EXCEPT !.rt = b].clients = k.clients
BY DEF Copy

LEMMA ClosedFact ==
  ASSUME NEW k \in Copy, NEW n \in Nat
  PROVE  /\ Closed(k) \in Copy /\ Closed(k).status = "closed" /\ Closed(k).clients = 0
         /\ Good(Closed(k), n)
<1>1. 0 \in 0..(MaxCalls + 1) /\ "closed" \in SessionStatus
  BY SessionsAssumption DEF SessionStatus, SessionsAssumption
<1>2. Closed(k) \in Copy BY <1>1 DEF Closed, Copy
<1>3. Closed(k).status = "closed" BY <1>1 DEF Closed, Copy
<1>4. Closed(k).clients = 0 BY <1>1 DEF Closed, Copy
<1>5. QED BY <1>2, <1>3, <1>4 DEF Good

LEMMA AbsentFact ==
  /\ Absent \in Copy /\ Absent.status = "absent" /\ \A n \in Nat : Good(Absent, n)
  /\ \A P : "idle" \in P => Idle \in Frame(P)
  /\ \A P : "done" \in P => Done \in Frame(P)
  /\ Idle.pc = "idle" /\ Idle.copy = Absent /\ Done.pc = "done" /\ Done.copy = Absent
<1>1. Absent \in Copy /\ Absent.status = "absent"
  BY SessionsAssumption DEF Absent, Copy, SessionStatus, SessionsAssumption
<1>2. \A n \in Nat : Good(Absent, n) BY <1>1 DEF Good, Absent
<1>3. [status |-> "created", sid |-> NoSession] \in WorkerRecord
  BY DEF WorkerRecord, WorkerStatus
<1>4. Done = [pc |-> "done", s |-> NoSession, copy |-> Absent,
              w |-> [status |-> "created", sid |-> NoSession]]
  BY DEF Done, Idle
<1>5. QED BY <1>1, <1>2, <1>3, <1>4 DEF Idle, Frame

LEMMA AbsentOnly ==
  ASSUME NEW n \in Nat, NEW k \in Copy, Good(k, n), k.status = "absent"
  PROVE  k = Absent
BY DEF Good, Copy, Absent

LEMMA GoodMore ==
  ASSUME NEW n \in Nat, NEW m \in Nat, n <= m, NEW k, Good(k, n)
  PROVE  Good(k, m)
BY DEF Good, Copy

LEMMA SessInit == Init => SessInv
<1> SUFFICES ASSUME Init PROVE SessInv OBVIOUS
<1>1. PICK first \in Session \cup {NoSession} :
        /\ worker = [status |-> "created", sid |-> first]
        /\ sessions = [s \in Session |-> IF s # first THEN Absent
                         ELSE [status |-> "attached", clients |-> 1, rt |-> FALSE]]
  BY DEF Init
<1>2. Plain
  <2>1. "created" \in WorkerStatus BY DEF WorkerStatus
  <2>2. [status |-> "created", sid |-> first] \in WorkerRecord BY <2>1 DEF WorkerRecord
  <2>3. worker = [status |-> "created", sid |-> first] BY <1>1
  <2>4. worker \in WorkerRecord BY <2>2, <2>3
  <2>5. /\ runtime = "none" /\ handle = FALSE /\ boot = "up"
        /\ calls = 0 /\ restarts = 0 BY DEF Init
  <2>6. 0 \in 0..MaxCalls /\ 0 \in 0..MaxRestarts
    BY SessionsAssumption DEF SessionsAssumption
  <2>7. QED BY <2>4, <2>5, <2>6 DEF Plain
<1> DEFINE fresh == [status |-> "attached", clients |-> 1, rt |-> FALSE]
<1>3. fresh \in Copy /\ Good(fresh, calls)
  BY SessionsAssumption DEF Init, Copy, SessionStatus, SessionsAssumption, Good
<1>4. calls \in Nat /\ Absent \in Copy /\ Good(Absent, calls) BY AbsentFact DEF Init
<1>5. Records BY <1>1, <1>3, <1>4 DEF Records
<1>6. StartHolds /\ PumpHolds BY <1>4, AbsentFact DEF Init, StartHolds, PumpHolds, StartPlaces
<1>7. CallsHold BY <1>4, AbsentFact DEF Init, CallsHold, CallHolds, CallPlaces
<1>8. QED BY <1>2, <1>5, <1>6, <1>7 DEF SessInv, Booting, Init

-----------------------------------------------------------------------------
(* What is written into a session record *)

\* A record that is stored is replaced by a good one.
Rewritten(s, k) ==
  /\ Known(s) /\ Good(k, calls) /\ k.status # "absent"
  /\ sessions' = [sessions EXCEPT ![s] = k]

LEMMA StartWrites ==
  ASSUME SessInv, SyncWrite \/ CloseWrite
  PROVE  \E s, k : Rewritten(s, k)
<1>1. CASE SyncWrite
  <2>1. start.copy \in Copy /\ Good(start.copy, calls) BY DEF SessInv, StartHolds, Good
  <2>2. Known(start.s) /\ start.copy.status # "absent"
        /\ (start.pc = "write" => start.copy.clients > 0)
    BY <1>1 DEF SessInv, StartHolds, SyncWrite
  <2> DEFINE st == IF start.pc = "write" THEN "active" ELSE start.copy.status
             k == [start.copy EXCEPT !.rt = TRUE,
                                     !.status = IF start.pc = "write" THEN "active" ELSE @]
  <2>3. st \in SessionStatus BY <2>1, <2>2 DEF Copy, SessionStatus
  <2>4. k \in Copy BY <2>1, <2>3 DEF Copy
  <2>5. k.status = st BY <2>1 DEF Copy
  <2>6. k.clients = start.copy.clients BY <2>1 DEF Copy
  <2>7. sessions' = [sessions EXCEPT ![start.s] = k] BY <1>1 DEF SyncWrite
  <2> HIDE DEF k
  <2>8. k.status # "absent" BY <2>2, <2>5
  <2>9. Good(k, calls) BY <2>1, <2>2, <2>4, <2>5, <2>6, <2>8 DEF Good
  <2>10. QED BY <2>2, <2>7, <2>8, <2>9 DEF Rewritten
<1>2. CASE CloseWrite
  <2>1. start.copy \in Copy /\ Known(start.s) /\ calls \in Nat
    BY <1>2 DEF SessInv, StartHolds, Good, CloseWrite, Plain
  <2>2. sessions' = [sessions EXCEPT ![start.s] = Closed(start.copy)]
    BY <1>2 DEF CloseWrite, Update
  <2>3. QED BY <2>1, <2>2, ClosedFact DEF Rewritten
<1>3. QED BY <1>1, <1>2

LEMMA PumpWrites ==
  ASSUME SessInv, OutputWrite PROVE Rewritten(pump.s, pump.copy)
BY DEF SessInv, PumpHolds, OutputWrite, Rewritten

LEMMA CallWrites ==
  ASSUME SessInv, NEW c \in Caller,
         AttachWrite(c) \/ DetachWrite(c) \/ AcknowledgeWrite(c) \/ SendWrite(c) \/ ShutWrite(c)
  PROVE  \E s, k : Rewritten(s, k)
<1> DEFINE copy == call[c].copy
<1>1. Known(call[c].s) /\ Good(copy, calls) /\ copy \in Copy /\ calls \in Nat
  BY DEF SessInv, CallsHold, CallHolds, AttachWrite, DetachWrite, AcknowledgeWrite,
         SendWrite, ShutWrite, Good, Plain
<1>2. copy.status \notin {"absent", "closed"}
  BY DEF SessInv, CallsHold, CallHolds, AttachWrite, DetachWrite, AcknowledgeWrite,
         SendWrite, ShutWrite
<1>3. copy.rt \in BOOLEAN /\ copy.clients \in 0..(MaxCalls + 1) /\ calls \in 0..MaxCalls
  BY <1>1 DEF Copy, SessInv, Plain
<1>4. CASE AttachWrite(c)
  <2> DEFINE st == IF call[c].w.status = "active" THEN "active" ELSE "attached"
             b == Merged(copy, Bridged(c))
             n == copy.clients + 1
             k == [status |-> st, clients |-> n, rt |-> b]
  <2>1. b \in BOOLEAN BY DEF Merged
  <2>2. st \in SessionStatus BY DEF SessionStatus
  <2>3. copy.clients <= calls BY <1>4 DEF SessInv, CallsHold, CallHolds, AttachWrite
  <2>4. n \in 0..(MaxCalls + 1) BY <1>3, <2>3, SessionsAssumption DEF SessionsAssumption
  <2>5. sessions' = [sessions EXCEPT ![call[c].s] = k] BY <1>4 DEF AttachWrite, Update
  <2>6. k \in Copy /\ k.status = st /\ k.clients = n
    <3> HIDE DEF st, b, n
    <3>1. QED BY <2>1, <2>2, <2>4, Made
  <2>7. st \in {"active", "attached"} /\ n > 0 /\ n <= calls + 1 BY <1>3, <2>3
  <2>8. Good(k, calls) /\ k.status # "absent"
    <3> HIDE DEF k
    <3>1. QED BY <2>6, <2>7 DEF Good
  <2>9. QED
    <3> HIDE DEF k
    <3>1. QED BY <1>1, <2>5, <2>8 DEF Rewritten
<1>5. CASE DetachWrite(c)
  <2> DEFINE n == Remaining(copy)
             st == IF n = 0 THEN "detached" ELSE "active"
             b == Merged(copy, Released(n))
             k == [status |-> st, clients |-> n, rt |-> b]
  <2>1. b \in BOOLEAN BY DEF Merged
  <2>2. st \in SessionStatus BY DEF SessionStatus
  <2>4. n \in 0..(MaxCalls + 1) /\ n <= copy.clients
    BY <1>3, SessionsAssumption DEF SessionsAssumption, Remaining
  <2>5. sessions' = [sessions EXCEPT ![call[c].s] = k] BY <1>5 DEF DetachWrite, Update
  <2>6. k \in Copy /\ k.status = st /\ k.clients = n
    <3> HIDE DEF st, b, n
    <3>1. QED BY <2>1, <2>2, <2>4, Made
  <2>7. /\ n = 0 => st = "detached" 
        /\ n # 0 => st = "active"
    OBVIOUS
  <2>8. Good(k, calls) /\ k.status # "absent"
    <3> HIDE DEF k, n, st
    <3>1. n <= calls + 1 /\ n \in Nat BY <1>1, <1>3, <2>4 DEF Good
    <3>2. QED BY <2>6, <2>7, <3>1 DEF Good
  <2>9. QED
    <3> HIDE DEF k
    <3>1. QED BY <1>1, <2>5, <2>8 DEF Rewritten
<1>6. CASE AcknowledgeWrite(c)
  <2>1. sessions' = [sessions EXCEPT ![call[c].s] = copy] BY <1>6 DEF AcknowledgeWrite, Update
  <2>2. QED BY <1>1, <1>2, <2>1 DEF Rewritten
<1>7. CASE SendWrite(c)
  <2> DEFINE b == Merged(copy, Answered)
             k == [copy EXCEPT !.rt = b]
  <2>1. b \in BOOLEAN BY DEF Merged
  <2>2. sessions' = [sessions EXCEPT ![call[c].s] = k] BY <1>7 DEF SendWrite, Update
  <2>3. k \in Copy /\ k.status = copy.status /\ k.clients = copy.clients
    <3> HIDE DEF b
    <3>1. QED BY <1>1, <2>1, RtSet
  <2>4. Good(k, calls) /\ k.status # "absent"
    <3> HIDE DEF k
    <3>1. QED BY <1>1, <1>2, <2>3 DEF Good
  <2>5. QED
    <3> HIDE DEF k
    <3>1. QED BY <1>1, <2>2, <2>4 DEF Rewritten
<1>8. CASE ShutWrite(c)
  <2>1. sessions' = [sessions EXCEPT ![call[c].s] = Closed(copy)] BY <1>8 DEF ShutWrite, Update
  <2>2. QED BY <1>1, <2>1, ClosedFact DEF Rewritten
<1>9. QED BY <1>4, <1>5, <1>6, <1>7, <1>8

LEMMA CancelWrites ==
  ASSUME SessInv, NEW c \in Caller, CancelWrite(c)
  PROVE  sessions' = sessions \/ \E s, k : Rewritten(s, k)
<1>1. Known(call[c].s) /\ call[c].copy \in Copy /\ calls \in Nat
  BY DEF SessInv, CallsHold, CallHolds, CancelWrite, Good, Plain
<1>2. \/ sessions' = sessions
      \/ sessions' = [sessions EXCEPT ![call[c].s] = Closed(call[c].copy)]
  BY DEF CancelWrite, Update
<1>3. QED BY <1>1, <1>2, ClosedFact DEF Rewritten

LEMMA RepairWrites ==
  ASSUME SessInv, Repair
  PROVE  sessions' = sessions \/ \E s, k : Rewritten(s, k)
<1>1. \/ sessions' = sessions
      \/ Linked /\ sessions' = [sessions EXCEPT ![worker.sid] = Closed(sessions[worker.sid])]
  BY DEF Repair
<1>2. ASSUME Linked PROVE Known(worker.sid) /\ sessions[worker.sid] \in Copy
  BY <1>2 DEF Linked, Open, Known, SessInv, Plain, WorkerRecord, Records
<1>3. calls \in Nat BY DEF SessInv, Plain
<1>4. QED BY <1>1, <1>2, <1>3, ClosedFact DEF Rewritten

LEMMA RewrittenFact ==
  ASSUME SessInv, NEW s, NEW k, Rewritten(s, k), calls' = calls
  PROVE  /\ Records' /\ \A x \in Session : Known(x) => Known(x)'
         /\ \A x \in Session : ~Known(x) => sessions'[x] = sessions[x]
<1>1. s \in Session /\ k \in Copy /\ sessions \in [Session -> Copy]
  BY DEF Rewritten, Good, SessInv, Records, Known
<1>2. sessions' \in [Session -> Copy] /\ sessions'[s] = k
      /\ \A x \in Session \ {s} : sessions'[x] = sessions[x]
  BY <1>1 DEF Rewritten
<1>3. \A x \in Session : Good(sessions'[x], calls')
  BY <1>2 DEF Rewritten, SessInv, Records
<1>4. QED BY <1>2, <1>3 DEF Rewritten, Records, Known

\* What every step does to the records: one that is known stays known, and
\* only the call that creates a session makes it known.
Stays == /\ Records'
         /\ \A x \in Session : Known(x) => Known(x)'
         /\ \A x \in Session : ~Known(x) =>
              \/ ~Known(x)'
              \/ \E c \in Caller : call[c].pc = "create" /\ call[c].s = x /\ CreateWrite(c)

LEMMA SameRecords ==
  ASSUME SessInv, sessions' = sessions, calls' \in Nat, calls <= calls' PROVE Stays
<1>1. \A x \in Session : Good(sessions[x], calls') BY GoodMore DEF SessInv, Plain, Records
<1>2. QED BY <1>1 DEF SessInv, Records, Stays, Known

LEMMA CreateFact ==
  ASSUME SessInv, NEW c \in Caller, CreateWrite(c) PROVE Stays
<1> DEFINE s == call[c].s
           b == Bridged(c)
           k == [status |-> "attached", clients |-> 1, rt |-> b]
<1>1. s \in Session /\ sessions[s].status = "absent" /\ call[c].pc = "create"
  BY DEF SessInv, CallsHold, CallHolds, CreateWrite
<1>2. b \in BOOLEAN BY DEF Bridged
<1>3. "attached" \in SessionStatus /\ 1 \in 0..(MaxCalls + 1)
  BY SessionsAssumption DEF SessionStatus, SessionsAssumption
<1>4. sessions' = [sessions EXCEPT ![s] = k] /\ calls' = calls
  BY DEF CreateWrite, bounds
<1>5. k \in Copy /\ k.status = "attached" /\ k.clients = 1
  <2> HIDE DEF b
  <2>1. QED BY <1>2, <1>3, Made
<1> HIDE DEF k
<1>6. sessions' \in [Session -> Copy] /\ sessions'[s] = k
      /\ \A x \in Session \ {s} : sessions'[x] = sessions[x]
  BY <1>1, <1>4, <1>5 DEF SessInv, Records
<1>7. Good(k, calls) BY <1>5 DEF Good, SessInv, Plain
<1>8. \A x \in Session : Good(sessions'[x], calls')
  BY <1>4, <1>6, <1>7 DEF SessInv, Records
<1>9. \A x \in Session : Known(x) => Known(x)' BY <1>1, <1>6 DEF Known
<1>10. \A x \in Session \ {s} : Known(x)' => Known(x) BY <1>6 DEF Known
<1>11. QED BY <1>1, <1>6, <1>8, <1>9, <1>10 DEF Stays, Records

LEMMA BootFact ==
  ASSUME SessInv, BootSessions PROVE Stays
<1>1. \A x \in Session : sessions[x] \in Copy /\ Good(sessions[x], calls)
  BY DEF SessInv, Records
<1>2. calls' = calls /\ calls \in Nat BY DEF BootSessions, bounds, SessInv, Plain
<1>3. sessions' = [s \in Session |-> IF Orphan(s) THEN Closed(sessions[s]) ELSE sessions[s]]
  BY DEF BootSessions
<1>4. \A x \in Session : /\ Closed(sessions[x]) \in Copy /\ Good(Closed(sessions[x]), calls)
                         /\ Closed(sessions[x]).status = "closed"
  BY <1>1, <1>2, ClosedFact
<1>5. \A x \in Session : Orphan(x) => sessions[x].status # "absent" BY DEF Orphan, Open
<1>6. \A x \in Session : sessions'[x] = IF Orphan(x) THEN Closed(sessions[x]) ELSE sessions[x]
  BY <1>3
<1>7. sessions' \in [Session -> Copy] BY <1>1, <1>3, <1>4
<1>8. \A x \in Session : Good(sessions'[x], calls') BY <1>1, <1>2, <1>4, <1>6
<1>9. \A x \in Session : (sessions'[x].status = "absent") = (sessions[x].status = "absent")
  BY <1>4, <1>5, <1>6
<1>10. QED BY <1>7, <1>8, <1>9 DEF Stays, Records, Known

\* The steps that leave all records alone.
Quiet ==
  \/ StartWorker \/ Spawned \/ SpawnFails \/ SyncRead \/ PersistRead \/ Register
  \/ ExitRead \/ ExitWrite \/ CloseRead \/ ProcessExit \/ Crash
  \/ \E s \in Session : OutputRead(s)
  \/ \E c \in Caller : \/ CreateLink(c) \/ StopRunning(c) \/ StopReattached(c)
                       \/ StopUnstarted(c) \/ StopEnded(c)

LEMMA QuietFact ==
  ASSUME SessInv, Quiet PROVE sessions' = sessions /\ calls' = calls
<1> USE DEF bounds
<1>1. CASE StartWorker \/ Spawned \/ SpawnFails \/ SyncRead \/ PersistRead \/ Register
  BY <1>1 DEF StartWorker, Spawned, SpawnFails, SyncRead, PersistRead, Register
<1>2. CASE ExitRead \/ ExitWrite \/ CloseRead \/ ProcessExit \/ Crash
  BY <1>2 DEF ExitRead, ExitWrite, CloseRead, ProcessExit, Crash
<1>3. ASSUME NEW s \in Session, OutputRead(s) PROVE sessions' = sessions /\ calls' = calls
  BY <1>3 DEF OutputRead
<1>4. ASSUME NEW c \in Caller,
             \/ CreateLink(c) \/ StopRunning(c) \/ StopReattached(c)
             \/ StopUnstarted(c) \/ StopEnded(c)
      PROVE  sessions' = sessions /\ calls' = calls
  BY <1>4 DEF CreateLink, StopRunning, StopReattached, StopUnstarted, StopEnded
<1>5. QED BY <1>1, <1>2, <1>3, <1>4 DEF Quiet

LEMMA BeginFact ==
  ASSUME NEW c \in Caller, Calling(c)
  PROVE  \E s \in Session :
           \/ Begin(c, "create", s) /\ sessions[s] = Absent /\ \A d \in Caller : call[d].s # s
           \/ \E pc \in {"attach", "detach", "touch", "send"} : Begin(c, pc, s) /\ Open(s)
           \/ Begin(c, "cancel", s) /\ sessions[s] # Absent
BY DEF Calling, Create, Attach, Detach, Acknowledge, Send, Cancel

LEMMA RecordsStay == SessInv /\ [Next]_vars => Stays
<1> SUFFICES ASSUME SessInv, [Next]_vars PROVE Stays OBVIOUS
<1>0. calls \in Nat BY DEF SessInv, Plain
<1>1. CASE Quiet BY <1>0, <1>1, QuietFact, SameRecords
<1>2. ASSUME calls' = calls, \E s, k : Rewritten(s, k) PROVE Stays
  <2>1. PICK s, k : Rewritten(s, k) BY <1>2
  <2>2. QED BY <1>2, <2>1, RewrittenFact DEF Stays, Known
<1>3. CASE SyncWrite \/ CloseWrite
  BY <1>2, <1>3, StartWrites DEF SyncWrite, CloseWrite, bounds
<1>4. CASE OutputWrite BY <1>2, <1>4, PumpWrites DEF OutputWrite, bounds
<1>5. ASSUME NEW c \in Caller,
             \/ AttachWrite(c) \/ DetachWrite(c) \/ AcknowledgeWrite(c)
             \/ SendWrite(c) \/ ShutWrite(c)
      PROVE  Stays
  BY <1>2, <1>5, CallWrites
     DEF AttachWrite, DetachWrite, AcknowledgeWrite, SendWrite, ShutWrite, bounds
<1>6. ASSUME NEW c \in Caller, CancelWrite(c) PROVE Stays
  <2>1. calls' = calls BY <1>6 DEF CancelWrite, bounds
  <2>2. QED BY <1>0, <1>2, <1>6, <2>1, CancelWrites, SameRecords
<1>7. CASE BootWorker \/ RepairStale
  <2>1. calls' = calls BY <1>7 DEF BootWorker, RepairStale, bounds
  <2>2. sessions' = sessions \/ Repair BY <1>7 DEF BootWorker, RepairStale
  <2>3. QED BY <1>0, <1>2, <2>1, <2>2, RepairWrites, SameRecords
<1>8. ASSUME NEW c \in Caller, Calling(c) PROVE Stays
  <2>1. sessions' = sessions /\ calls' = calls + 1 BY <1>8, BeginFact DEF Begin
  <2>2. QED BY <1>0, <2>1, SameRecords
<1>9. CASE UNCHANGED vars BY <1>0, <1>9, SameRecords DEF vars
<1>10. QED
  BY <1>1, <1>3, <1>4, <1>5, <1>6, <1>7, <1>8, <1>9, CreateFact, BootFact
     DEF Next, Quiet, Starting, Exiting, Output, Reconciling, Returning

-----------------------------------------------------------------------------
(* What the operations under way hold *)

LEMMA Grows == SessInv /\ [Next]_vars => calls' \in 0..MaxCalls /\ calls <= calls'
<1> SUFFICES ASSUME SessInv, [Next]_vars PROVE calls' \in 0..MaxCalls /\ calls <= calls' OBVIOUS
<1>0. calls \in 0..MaxCalls /\ MaxCalls \in Nat
  BY SessionsAssumption DEF SessInv, Plain, SessionsAssumption
<1>1. CASE calls' = calls BY <1>0, <1>1
<1>2. ASSUME NEW c \in Caller, Calling(c) PROVE calls' \in 0..MaxCalls /\ calls <= calls'
  <2>1. calls < MaxCalls /\ calls' = calls + 1 BY <1>2, BeginFact DEF Begin
  <2>2. QED BY <1>0, <2>1
<1>3. CASE Quiet BY <1>1, <1>3, QuietFact
<1>4. CASE \/ SyncWrite \/ CloseWrite \/ OutputWrite \/ BootWorker \/ RepairStale \/ BootSessions
  BY <1>1, <1>4 DEF SyncWrite, CloseWrite, OutputWrite, BootWorker, RepairStale, BootSessions, bounds
<1>5. ASSUME NEW c \in Caller,
             \/ CreateWrite(c) \/ AttachWrite(c) \/ DetachWrite(c) \/ AcknowledgeWrite(c)
             \/ SendWrite(c) \/ ShutWrite(c) \/ CancelWrite(c)
      PROVE  calls' \in 0..MaxCalls /\ calls <= calls'
  BY <1>1, <1>5 DEF CreateWrite, AttachWrite, DetachWrite, AcknowledgeWrite, SendWrite, ShutWrite,
                    CancelWrite, bounds
<1>6. CASE UNCHANGED vars BY <1>1, <1>6 DEF vars
<1>7. QED BY <1>2, <1>3, <1>4, <1>5, <1>6
          DEF Next, Quiet, Starting, Exiting, Output, Reconciling, Returning

LEMMA Moved ==
  ASSUME NEW P, NEW f \in Frame(P), NEW pc \in P, NEW g, g = [f EXCEPT !.pc = pc]
  PROVE  g \in Frame(P) /\ g.pc = pc /\ g.s = f.s /\ g.copy = f.copy /\ g.w = f.w
BY DEF Frame

\* Frames that hold nothing.
LEMMA DoneFact ==
  /\ Done \in Frame(StartPlaces) /\ Done.pc = "done"
  /\ [Idle EXCEPT !.pc = "running"] \in Frame(StartPlaces)
  /\ [Idle EXCEPT !.pc = "running"].pc = "running"
  /\ \A n \in Nat : Good(Done.copy, n) /\ Good([Idle EXCEPT !.pc = "running"].copy, n)
                    /\ Good(Idle.copy, n)
  /\ Idle \in Frame(CallPlaces) /\ Idle \in Frame({"idle", "write"}) /\ Idle.pc = "idle"
<1>1. "idle" \in StartPlaces /\ "done" \in StartPlaces /\ "running" \in StartPlaces
      /\ "idle" \in CallPlaces
  BY DEF StartPlaces, CallPlaces
<1>2. /\ Idle \in Frame(StartPlaces) /\ Done \in Frame(StartPlaces)
      /\ Idle \in Frame(CallPlaces) /\ Idle \in Frame({"idle", "write"})
  BY <1>1, AbsentFact
<1> DEFINE r == [Idle EXCEPT !.pc = "running"]
<1>3. r \in Frame(StartPlaces) /\ r.pc = "running" /\ r.copy = Idle.copy
  <2>1. r \in Frame(StartPlaces) BY <1>1, <1>2 DEF Frame
  <2>2. r.pc = "running" /\ r.copy = Idle.copy BY DEF Idle
  <2>3. QED BY <2>1, <2>2
<1> HIDE DEF r
<1>4. \A n \in Nat : Good(Done.copy, n) /\ Good(r.copy, n) /\ Good(Idle.copy, n)
  BY <1>3, AbsentFact
<1>5. QED BY <1>2, <1>3, <1>4, AbsentFact DEF r

LEMMA StartSame ==
  ASSUME SessInv, Stays, start' = start, calls' \in Nat, calls <= calls'
  PROVE  StartHolds'
<1>1. calls \in Nat /\ Good(start.copy, calls) BY DEF SessInv, Plain, StartHolds
<1>2. Good(start'.copy, calls') BY <1>1, GoodMore
<1>3. start'.pc \in {"persist", "write", "store", "closing"} => Known(start.s) BY DEF SessInv, StartHolds
<1>4. Known(start.s) => Known(start.s)' BY DEF Stays, Known
<1>5. QED BY <1>2, <1>3, <1>4 DEF SessInv, StartHolds

LEMMA PumpSame ==
  ASSUME SessInv, Stays, pump' = pump, calls' \in Nat, calls <= calls'
  PROVE  PumpHolds'
<1>1. calls \in Nat /\ Good(pump.copy, calls) BY DEF SessInv, Plain, PumpHolds
<1>2. Good(pump'.copy, calls') BY <1>1, GoodMore
<1>3. Known(pump.s) => Known(pump.s)' BY DEF Stays, Known
<1>4. QED BY <1>2, <1>3 DEF SessInv, PumpHolds

LEMMA CallSame ==
  ASSUME SessInv, Stays, NEW c \in Caller, call'[c] = call[c], calls' \in Nat, calls <= calls',
         \A d \in Caller \ {c} : ~CreateWrite(d) \/ call[d].s # call[c].s \/ call[c].pc # "create",
         ~CreateWrite(c)
  PROVE  CallHolds(c)'
<1>1. calls \in Nat /\ CallHolds(c) BY DEF SessInv, Plain, CallsHold
<1>2. Good(call'[c].copy, calls') BY <1>1, GoodMore DEF CallHolds
<1>3. Known(call[c].s) => Known(call[c].s)' BY DEF Stays, Known
<1>4. call[c].pc = "create" => call[c].s \in Session /\ sessions'[call[c].s].status = "absent"
  BY <1>1 DEF CallHolds, Stays, Known
<1>5. call[c].pc = "attach" => call[c].copy.clients <= calls'
  <2>1. call[c].copy.clients \in Nat BY <1>1 DEF CallHolds, Good, Copy
  <2>2. QED BY <1>1, <2>1 DEF CallHolds
<1>6. QED BY <1>1, <1>2, <1>3, <1>4, <1>5 DEF CallHolds

LEMMA StartNext ==
  ASSUME SessInv, Stays, Starting \/ Exiting
  PROVE  StartHolds'
<1>p. \A pc \in {"spawn", "sync", "persist", "store", "write", "register", "running",
                 "finish", "close", "closing", "done"} : pc \in StartPlaces
  BY DEF StartPlaces
<1>0. /\ start \in Frame(StartPlaces) /\ Good(start.copy, calls) /\ calls \in Nat
      /\ worker \in WorkerRecord /\ start.w \in WorkerRecord /\ start.copy \in Copy
      /\ sessions \in [Session -> Copy] /\ \A s \in Session : Good(sessions[s], calls)
  BY DEF SessInv, Plain, Records, StartHolds, Frame
<1>f. start \in Frame(StartPlaces) BY <1>0
<1>a. \A w \in WorkerRecord : End(w) \in WorkerRecord
  BY DEF End, WorkerRecord, WorkerStatus
<1>b. \A w \in WorkerRecord, st \in WorkerStatus : [w EXCEPT !.status = st] \in WorkerRecord
  BY DEF WorkerRecord
<1>c. calls' = calls
  BY DEF Starting, Exiting, StartWorker, Spawned, SpawnFails, SyncRead, PersistRead, SyncWrite,
         Register, ExitRead, ExitWrite, CloseRead, CloseWrite, bounds
<1>1. CASE StartWorker
  <2>1. worker' \in WorkerRecord BY <1>0, <1>b, <1>1 DEF StartWorker, WorkerStatus
  <2>2. start' = [start EXCEPT !.pc = "spawn", !.w = worker'] BY <1>1 DEF StartWorker
  <2>3. start' \in Frame(StartPlaces) /\ start'.pc = "spawn" /\ start'.copy = start.copy
    <3>1. start' \in Frame(StartPlaces) BY <1>f, <2>1, <2>2, <1>p DEF Frame
    <3>2. start'.pc = "spawn" BY <1>f, <2>1, <2>2, <1>p DEF Frame
    <3>3. start'.copy = start.copy BY <1>f, <2>1, <2>2, <1>p DEF Frame
    <3>4. QED BY <3>1, <3>2, <3>3
  <2>4. QED BY <1>0, <1>c, <2>3 DEF StartHolds
<1>2. CASE Spawned
  <2>1. worker' \in WorkerRecord BY <1>0, <1>b, <1>2 DEF Spawned, WorkerStatus
  <2>2. start' = [start EXCEPT !.pc = "sync", !.w = worker'] BY <1>2 DEF Spawned
  <2>3. start' \in Frame(StartPlaces) /\ start'.pc = "sync" /\ start'.copy = start.copy
    <3>1. start' \in Frame(StartPlaces) BY <1>f, <2>1, <2>2, <1>p DEF Frame
    <3>2. start'.pc = "sync" BY <1>f, <2>1, <2>2, <1>p DEF Frame
    <3>3. start'.copy = start.copy BY <1>f, <2>1, <2>2, <1>p DEF Frame
    <3>4. QED BY <3>1, <3>2, <3>3
  <2>4. QED BY <1>0, <1>c, <2>3 DEF StartHolds
<1>3. CASE SpawnFails \/ ExitWrite
  <2>1. worker' \in WorkerRecord BY <1>0, <1>a, <1>3 DEF SpawnFails, ExitWrite
  <2>2. start' = [start EXCEPT !.pc = "close", !.w = worker'] BY <1>3 DEF SpawnFails, ExitWrite
  <2>3. start' \in Frame(StartPlaces) /\ start'.pc = "close" /\ start'.copy = start.copy
    <3>1. start' \in Frame(StartPlaces) BY <1>f, <2>1, <2>2, <1>p DEF Frame
    <3>2. start'.pc = "close" BY <1>f, <2>1, <2>2, <1>p DEF Frame
    <3>3. start'.copy = start.copy BY <1>f, <2>1, <2>2, <1>p DEF Frame
    <3>4. QED BY <3>1, <3>2, <3>3
  <2>4. QED BY <1>0, <1>c, <2>3 DEF StartHolds
<1>4. CASE SyncRead
  <2> DEFINE s == start.w.sid
  <2>1. CASE ~Open(s)
    <3>1. start' = [start EXCEPT !.pc = "register"] BY <1>4, <2>1 DEF SyncRead
    <3>2. start' \in Frame(StartPlaces) /\ start'.pc = "register" /\ start'.copy = start.copy
      BY <1>f, <3>1, <1>p, Moved
    <3>3. QED BY <1>0, <1>c, <3>2 DEF StartHolds
  <2>2. CASE Open(s)
    <3>1. s \in Session /\ sessions[s].status \notin {"absent", "closed"}
      BY <1>0, <2>2 DEF Open, WorkerRecord
    <3> DEFINE pc == IF Attended(sessions[s]) THEN "write" ELSE "persist"
    <3>2. start' = [start EXCEPT !.pc = pc, !.s = s, !.copy = sessions[s]]
      BY <1>4, <2>2 DEF SyncRead
    <3>3. pc \in StartPlaces /\ pc \in {"write", "persist"} BY <1>p
    <3>4. pc = "write" => sessions[s].clients > 0 BY DEF Attended
    <3>5. sessions[s] \in Copy /\ s \in Session \cup {NoSession} BY <1>0, <3>1
    <3> HIDE DEF pc
    <3>6. /\ start' \in Frame(StartPlaces) /\ start'.pc = pc /\ start'.s = s
          /\ start'.copy = sessions[s]
      <4>1. start' \in Frame(StartPlaces) BY <1>f, <3>2, <3>3, <3>5, <1>p DEF Frame
      <4>2. start'.pc = pc BY <1>f, <3>2, <3>3, <3>5, <1>p DEF Frame
      <4>3. start'.s = s BY <1>f, <3>2, <3>3, <3>5, <1>p DEF Frame
      <4>4. start'.copy = sessions[s] BY <1>f, <3>2, <3>3, <3>5, <1>p DEF Frame
      <4>5. QED BY <4>1, <4>2, <4>3, <4>4
    <3>7. sessions'[s].status # "absent" BY <3>1 DEF Stays, Known
    <3>8. QED BY <1>0, <1>c, <3>1, <3>3, <3>4, <3>6, <3>7 DEF StartHolds, Known
  <2>3. QED BY <2>1, <2>2
<1>5. CASE PersistRead
  <2>1. Known(start.s) BY <1>5 DEF PersistRead, SessInv, StartHolds
  <2>2. start' = [start EXCEPT !.pc = "store", !.copy = sessions[start.s]] BY <1>5 DEF PersistRead
  <2>3. sessions[start.s] \in Copy /\ Good(sessions[start.s], calls) BY <1>0, <2>1 DEF Known
  <2>4. /\ start' \in Frame(StartPlaces) /\ start'.pc = "store" /\ start'.s = start.s
        /\ start'.copy = sessions[start.s]
    <3>1. start' \in Frame(StartPlaces) BY <1>f, <2>2, <2>3, <1>p DEF Frame
    <3>2. start'.pc = "store" BY <1>f, <2>2, <2>3, <1>p DEF Frame
    <3>3. start'.s = start.s BY <1>f, <2>2, <2>3, <1>p DEF Frame
    <3>4. start'.copy = sessions[start.s] BY <1>f, <2>2, <2>3, <1>p DEF Frame
    <3>5. QED BY <3>1, <3>2, <3>3, <3>4
  <2>5. sessions'[start.s].status # "absent" BY <2>1 DEF Stays, Known
  <2>6. QED BY <1>c, <2>1, <2>3, <2>4, <2>5 DEF StartHolds, Known
<1>6. CASE SyncWrite
  <2>1. start' = [start EXCEPT !.pc = "register", !.s = NoSession, !.copy = Absent]
    BY <1>6 DEF SyncWrite
  <2>2. start' \in Frame(StartPlaces) /\ start'.pc = "register" /\ start'.copy = Absent
    <3>1. start' \in Frame(StartPlaces) BY <1>f, <2>1, AbsentFact, <1>p DEF Frame
    <3>2. start'.pc = "register" BY <1>f, <2>1, AbsentFact, <1>p DEF Frame
    <3>3. start'.copy = Absent BY <1>f, <2>1, AbsentFact, <1>p DEF Frame
    <3>4. QED BY <3>1, <3>2, <3>3
  <2>3. QED BY <1>0, <1>c, <2>2, AbsentFact DEF StartHolds
<1>7. CASE Register
  <2>1. start' = [start EXCEPT !.pc = "running"] BY <1>7 DEF Register
  <2>2. start' \in Frame(StartPlaces) /\ start'.pc = "running" /\ start'.copy = start.copy
    BY <1>f, <2>1, <1>p, Moved
  <2>3. QED BY <1>0, <1>c, <2>2 DEF StartHolds
<1>d. ASSUME start' = Done PROVE StartHolds'
  BY <1>0, <1>c, <1>d, DoneFact DEF StartHolds
<1>8. CASE ExitRead
  <2>1. CASE Ended(worker) BY <1>8, <1>d, <2>1 DEF ExitRead
  <2>2. CASE ~Ended(worker)
    <3> DEFINE st == IF worker.status = "created" THEN worker.status ELSE "finishing"
    <3>1. worker' = [worker EXCEPT !.status = st] /\ start' = [start EXCEPT !.pc = "finish", !.w = worker']
      BY <1>8, <2>2 DEF ExitRead
    <3>2. st \in WorkerStatus BY <1>0 DEF WorkerRecord, WorkerStatus
    <3> HIDE DEF st
    <3>3. worker' \in WorkerRecord BY <1>0, <1>b, <3>1, <3>2
    <3>4. start' \in Frame(StartPlaces) /\ start'.pc = "finish" /\ start'.copy = start.copy
      <4>1. start' \in Frame(StartPlaces) BY <1>f, <3>1, <3>3, <1>p DEF Frame
      <4>2. start'.pc = "finish" BY <1>f, <3>1, <3>3, <1>p DEF Frame
      <4>3. start'.copy = start.copy BY <1>f, <3>1, <3>3, <1>p DEF Frame
      <4>4. QED BY <4>1, <4>2, <4>3
    <3>5. QED BY <1>0, <1>c, <3>4 DEF StartHolds
  <2>3. QED BY <2>1, <2>2
<1>9. CASE CloseRead
  <2> DEFINE s == start.w.sid
  <2>1. CASE ~Open(s) BY <1>9, <1>d, <2>1 DEF CloseRead
  <2>2. CASE Open(s)
    <3>1. s \in Session /\ sessions[s].status \notin {"absent", "closed"}
      BY <1>0, <2>2 DEF Open, WorkerRecord
    <3>2. start' = [start EXCEPT !.pc = "closing", !.s = s, !.copy = sessions[s]]
      BY <1>9, <2>2 DEF CloseRead
    <3>3. sessions[s] \in Copy /\ s \in Session \cup {NoSession} BY <1>0, <3>1
    <3>4. /\ start' \in Frame(StartPlaces) /\ start'.pc = "closing" /\ start'.s = s
          /\ start'.copy = sessions[s]
      <4>1. start' \in Frame(StartPlaces) BY <1>f, <3>2, <3>3, <1>p DEF Frame
      <4>2. start'.pc = "closing" BY <1>f, <3>2, <3>3, <1>p DEF Frame
      <4>3. start'.s = s BY <1>f, <3>2, <3>3, <1>p DEF Frame
      <4>4. start'.copy = sessions[s] BY <1>f, <3>2, <3>3, <1>p DEF Frame
      <4>5. QED BY <4>1, <4>2, <4>3, <4>4
    <3>5. sessions'[s].status # "absent" BY <3>1 DEF Stays, Known
    <3>6. QED BY <1>0, <1>c, <3>1, <3>4, <3>5 DEF StartHolds, Known
  <2>3. QED BY <2>1, <2>2
<1>10. CASE CloseWrite BY <1>10, <1>d DEF CloseWrite
<1>11. QED BY <1>1, <1>2, <1>3, <1>4, <1>5, <1>6, <1>7, <1>8, <1>9, <1>10 DEF Starting, Exiting

LEMMA StartLeft ==
  ASSUME SessInv, start' \in {Done, [Idle EXCEPT !.pc = "running"]}, calls' \in Nat
  PROVE  StartHolds'
<1> DEFINE r == [Idle EXCEPT !.pc = "running"]
<1>1. r \in Frame(StartPlaces) /\ r.pc = "running" /\ Good(r.copy, calls') BY DoneFact
<1>2. Done \in Frame(StartPlaces) /\ Done.pc = "done" /\ Good(Done.copy, calls') BY DoneFact
<1>3. start' = Done \/ start' = r OBVIOUS
<1> HIDE DEF r
<1>4. QED BY <1>1, <1>2, <1>3 DEF StartHolds

LEMMA PumpNext ==
  ASSUME SessInv, Stays, Output \/ Crash
  PROVE  PumpHolds'
<1>0. calls' = calls /\ calls \in Nat
  <2>1. calls \in Nat BY DEF SessInv, Plain
  <2>2. CASE Crash BY <2>1, <2>2 DEF Crash
  <2>3. CASE Output BY <2>1, <2>3 DEF Output, OutputRead, OutputWrite, bounds
  <2>4. QED BY <2>2, <2>3
<1>1. ASSUME pump' = Idle PROVE PumpHolds' BY <1>0, <1>1, DoneFact DEF PumpHolds
<1>2. ASSUME NEW s \in Session, OutputRead(s) PROVE PumpHolds'
  <2>1. pump' = [Idle EXCEPT !.pc = "write", !.s = s, !.copy = sessions[s]] /\ sessions[s].rt
    BY <1>2 DEF OutputRead
  <2>2. sessions[s] \in Copy /\ Good(sessions[s], calls) BY DEF SessInv, Records
  <2>3. sessions[s].status # "absent" BY <2>1, <2>2 DEF Good
  <2>4. Idle \in Frame({"idle", "write"}) BY DoneFact
  <2>5. pump' \in Frame({"idle", "write"}) BY <2>1, <2>2, <2>4 DEF Frame
  <2>6. pump'.s = s /\ pump'.pc = "write" BY <2>1, <2>4 DEF Frame
  <2>7. pump'.copy = sessions[s] BY <2>1, <2>4 DEF Frame
  <2>8. sessions'[s].status # "absent" BY <2>3 DEF Stays, Known
  <2>9. QED BY <1>0, <2>2, <2>3, <2>5, <2>6, <2>7, <2>8 DEF PumpHolds, Known
<1>3. QED BY <1>1, <1>2 DEF Output, OutputWrite, Crash

\* A call moves on to hold f, the others stay where they are.
LEMMA CallMoves ==
  ASSUME SessInv, Stays, NEW c \in Caller, NEW f \in Frame(CallPlaces),
         call' = [call EXCEPT ![c] = f], calls' \in Nat, calls <= calls',
         Good(f.copy, calls'),
         f.pc \notin {"idle", "create"} => f.s \in Session /\ sessions'[f.s].status # "absent",
         f.pc = "create" => /\ f.s \in Session /\ sessions'[f.s].status = "absent"
                            /\ \A d \in Caller : call[d].s # f.s,
         f.pc \in {"attach", "detach", "touch", "send", "shut"}
           => f.copy.status \notin {"absent", "closed"},
         f.pc = "cancel" => f.copy.status # "absent",
         f.pc = "attach" => f.copy.clients <= calls',
         \A d \in Caller : ~CreateWrite(d) \/ d = c
  PROVE  CallsHold'
<1>1. call \in [Caller -> Frame(CallPlaces)] BY DEF SessInv, CallsHold
<1>2. /\ call' \in [Caller -> Frame(CallPlaces)] /\ call'[c] = f
      /\ \A d \in Caller \ {c} : call'[d] = call[d]
  BY <1>1
<1>3. CallHolds(c)' BY <1>2 DEF CallHolds, Known
<1>4. ASSUME NEW d \in Caller \ {c} PROVE CallHolds(d)'
  <2>1. \A e \in Caller \ {d} : ~CreateWrite(e) \/ call[e].s # call[d].s \/ call[d].pc # "create"
    <3>1. SUFFICES ASSUME CreateWrite(c), call[d].pc = "create" PROVE call[c].s # call[d].s
      OBVIOUS
    <3>2. call[c].pc = "create" BY <3>1 DEF CreateWrite
    <3>3. QED BY <3>1, <3>2 DEF SessInv, CallsHold
  <2>2. ~CreateWrite(d) OBVIOUS
  <2>3. QED BY <1>2, <2>1, <2>2, CallSame
<1>5. ASSUME NEW d \in Caller, NEW e \in Caller, d # e,
             call'[d].pc = "create", call'[e].pc = "create"
      PROVE  call'[d].s # call'[e].s
  <2>1. CASE d # c /\ e # c BY <1>2, <1>5, <2>1 DEF SessInv, CallsHold
  <2>2. CASE d = c \/ e = c BY <1>2, <1>5, <2>2
  <2>3. QED BY <2>1, <2>2
<1>6. QED BY <1>2, <1>3, <1>4, <1>5 DEF CallsHold

LEMMA CallsSame ==
  ASSUME SessInv, Stays, call' = call, calls' \in Nat, calls <= calls',
         \A d \in Caller : ~CreateWrite(d)
  PROVE  CallsHold'
<1>1. \A c \in Caller : CallHolds(c)' BY CallSame
<1>2. QED BY <1>1 DEF SessInv, CallsHold

LEMMA CallReturns ==
  ASSUME SessInv, Stays, NEW c \in Caller, Return(c), calls' = calls,
         \A d \in Caller : ~CreateWrite(d)
  PROVE  CallsHold'
<1>1. Idle \in Frame(CallPlaces) /\ Idle.pc = "idle" /\ Good(Idle.copy, calls) /\ calls \in Nat
  BY DoneFact DEF SessInv, Plain
<1>2. call' = [call EXCEPT ![c] = Idle] BY DEF Return
<1>3. PICK f : f = Idle OBVIOUS
<1>4. /\ f \in Frame(CallPlaces) /\ f.pc = "idle" /\ Good(f.copy, calls')
      /\ call' = [call EXCEPT ![c] = f] /\ calls' \in Nat /\ calls <= calls'
  BY <1>1, <1>2, <1>3
<1>5. QED BY <1>4, CallMoves

LEMMA CallBegins ==
  ASSUME SessInv, Stays, NEW c \in Caller, Calling(c)
  PROVE  CallsHold'
<1>1. PICK s \in Session :
        \/ Begin(c, "create", s) /\ sessions[s] = Absent /\ \A d \in Caller : call[d].s # s
        \/ \E pc \in {"attach", "detach", "touch", "send"} : Begin(c, pc, s) /\ Open(s)
        \/ Begin(c, "cancel", s) /\ sessions[s] # Absent
  BY BeginFact
<1>2. PICK pc \in {"create", "attach", "detach", "touch", "send", "cancel"} :
        /\ Begin(c, pc, s)
        /\ pc = "create" => sessions[s] = Absent /\ \A d \in Caller : call[d].s # s
        /\ pc \in {"attach", "detach", "touch", "send"} => Open(s)
        /\ pc = "cancel" => sessions[s] # Absent
  BY <1>1
<1> DEFINE f == [pc |-> pc, s |-> s, copy |-> sessions[s], w |-> worker]
<1>3. /\ call' = [call EXCEPT ![c] = f] /\ calls' = calls + 1 /\ sessions' = sessions
      /\ call[c].pc = "idle"
  BY <1>2 DEF Begin
<1>4. calls \in Nat /\ worker \in WorkerRecord /\ sessions[s] \in Copy /\ Good(sessions[s], calls)
  BY DEF SessInv, Plain, Records
<1>5. pc \in CallPlaces BY DEF CallPlaces
<1>6. f \in Frame(CallPlaces) BY <1>4, <1>5 DEF Frame
<1>7. f.pc = pc /\ f.s = s /\ f.copy = sessions[s] OBVIOUS
<1> HIDE DEF f
<1>8. Good(f.copy, calls') /\ f.copy.clients <= calls'
  BY <1>3, <1>4, <1>7, GoodMore DEF Good
<1>9. Absent.status = "absent" BY AbsentFact
<1>10. pc = "cancel" => sessions[s].status # "absent"
  <2>1. sessions[s].status = "absent" => sessions[s] = Absent BY <1>4, AbsentOnly
  <2>2. QED BY <1>2, <2>1
<1>11. \A d \in Caller : ~CreateWrite(d) \/ d = c
  <2>1. ASSUME NEW d \in Caller, CreateWrite(d), d # c PROVE FALSE
    <3>1. call[d].pc = "create" /\ call' = [call EXCEPT ![d] = [@ EXCEPT !.pc = "link"]]
      BY <2>1 DEF CreateWrite
    <3>2. calls' = calls BY <2>1 DEF CreateWrite, bounds
    <3>3. QED BY <1>3, <1>4, <3>2
  <2>2. QED BY <2>1
<1>12. /\ f.pc \notin {"idle", "create"} => f.s \in Session /\ sessions'[f.s].status # "absent"
       /\ f.pc = "create" => /\ f.s \in Session /\ sessions'[f.s].status = "absent"
                             /\ \A d \in Caller : call[d].s # f.s
       /\ f.pc \in {"attach", "detach", "touch", "send", "shut"}
            => f.copy.status \notin {"absent", "closed"}
       /\ f.pc = "cancel" => f.copy.status # "absent"
  BY <1>2, <1>3, <1>7, <1>9, <1>10 DEF Open
<1>13. calls' \in Nat /\ calls <= calls' BY <1>3, <1>4
<1>14. QED BY <1>3, <1>6, <1>8, <1>11, <1>12, <1>13, CallMoves

LEMMA CallGoesOn ==
  ASSUME SessInv, Stays, NEW c \in Caller, Returning(c)
  PROVE  CallsHold'
<1>0. calls \in Nat /\ call[c] \in Frame(CallPlaces) /\ call \in [Caller -> Frame(CallPlaces)]
      /\ CallHolds(c)
  BY DEF SessInv, Plain, CallsHold
<1>1. CASE CreateWrite(c)
  <2>1. PICK f : f = [call[c] EXCEPT !.pc = "link"] OBVIOUS
  <2>2. call[c].pc = "create" /\ call' = [call EXCEPT ![c] = f] /\ calls' = calls
    BY <1>1, <2>1 DEF CreateWrite, bounds
  <2>3. "link" \in CallPlaces BY DEF CallPlaces
  <2>4. f \in Frame(CallPlaces) /\ f.pc = "link" /\ f.s = call[c].s /\ f.copy = call[c].copy
    BY <1>0, <2>1, <2>3, Moved
  <2>5. call[c].s \in Session /\ Good(f.copy, calls') BY <1>0, <2>2, <2>4 DEF CallHolds
  <2>6. sessions'[call[c].s].status # "absent"
    <3>1. sessions' = [sessions EXCEPT ![call[c].s] =
                        [status |-> "attached", clients |-> 1, rt |-> Bridged(c)]]
      BY <1>1 DEF CreateWrite
    <3>2. sessions'[call[c].s] = [status |-> "attached", clients |-> 1, rt |-> Bridged(c)]
      BY <2>5, <3>1 DEF SessInv, Records
    <3>3. QED BY <3>2
  <2>7. \A d \in Caller : ~CreateWrite(d) \/ d = c
    <3>1. ASSUME NEW d \in Caller, CreateWrite(d), d # c PROVE FALSE
      <4>1. call' = [call EXCEPT ![d] = [call[d] EXCEPT !.pc = "link"]] BY <3>1 DEF CreateWrite
      <4>2. call'[c] = call[c] BY <1>0, <3>1, <4>1
      <4>3. call'[c] = f BY <1>0, <2>2
      <4>4. QED BY <2>2, <2>4, <4>2, <4>3
    <3>2. QED BY <3>1
  <2>8. calls' \in Nat /\ calls <= calls' BY <1>0, <2>2
  <2>9. QED BY <2>2, <2>4, <2>5, <2>6, <2>7, <2>8, CallMoves
<1>2. ASSUME ~CreateWrite(c) PROVE \A d \in Caller : ~CreateWrite(d)
  <2>1. SUFFICES ASSUME NEW d \in Caller, CreateWrite(d) PROVE FALSE OBVIOUS
  <2>2. d # c BY <1>2, <2>1
  <2>3. PICK f : f = [call[d] EXCEPT !.pc = "link"] OBVIOUS
  <2>4. call[d].pc = "create" /\ call' = [call EXCEPT ![d] = f]
    BY <2>1, <2>3 DEF CreateWrite
  <2>5. call[d] \in Frame(CallPlaces) /\ "link" \in CallPlaces
    BY <1>0 DEF CallPlaces
  <2>6. f.pc = "link" BY <2>3, <2>5, Moved
  <2>7. call'[c] = call[c] /\ call'[d] = f BY <1>0, <2>2, <2>4
  <2>8. \/ call' = [call EXCEPT ![c] = Idle]
        \/ CancelWrite(c) \/ StopUnstarted(c)
    BY <1>2 DEF Returning, Return, CreateLink, AttachWrite, DetachWrite, AcknowledgeWrite,
                SendWrite, StopRunning, StopReattached, ShutWrite, StopEnded
  <2>9. \E g : call' = [call EXCEPT ![c] = g]
    BY <2>8 DEF CancelWrite, StopUnstarted
  <2>10. call'[d] = call[d] BY <1>0, <2>2, <2>9
  <2>11. QED BY <2>4, <2>6, <2>7, <2>10
<1>3. CASE \/ CreateLink(c) \/ AttachWrite(c) \/ DetachWrite(c) \/ AcknowledgeWrite(c) \/ SendWrite(c)
           \/ StopRunning(c) \/ StopReattached(c) \/ ShutWrite(c) \/ StopEnded(c)
  <2>1. Return(c) /\ calls' = calls
    BY <1>3 DEF CreateLink, AttachWrite, DetachWrite, AcknowledgeWrite, SendWrite,
                StopRunning, StopReattached, ShutWrite, StopEnded, bounds
  <2>2. ~CreateWrite(c)
    BY <1>3 DEF CreateLink, AttachWrite, DetachWrite, AcknowledgeWrite, SendWrite,
                StopRunning, StopReattached, ShutWrite, StopEnded, CreateWrite
  <2>3. QED BY <1>2, <2>1, <2>2, CallReturns
<1>4. CASE CancelWrite(c)
  <2>1. PICK f : f = [call[c] EXCEPT !.pc = "stop"] OBVIOUS
  <2>2. call[c].pc = "cancel" /\ call' = [call EXCEPT ![c] = f] /\ calls' = calls
    BY <1>4, <2>1 DEF CancelWrite, bounds
  <2>3. "stop" \in CallPlaces BY DEF CallPlaces
  <2>4. f \in Frame(CallPlaces) /\ f.pc = "stop" /\ f.s = call[c].s /\ f.copy = call[c].copy
    BY <1>0, <2>1, <2>3, Moved
  <2>5. Known(call[c].s) /\ Good(f.copy, calls') BY <1>0, <2>2, <2>4 DEF CallHolds
  <2>6. f.s \in Session /\ sessions'[f.s].status # "absent"
    BY <2>4, <2>5 DEF Stays, Known
  <2>7. \A d \in Caller : ~CreateWrite(d) BY <1>2, <1>4, <2>2 DEF CreateWrite
  <2>8. calls' \in Nat /\ calls <= calls' BY <1>0, <2>2
  <2>9. QED BY <2>2, <2>4, <2>5, <2>6, <2>7, <2>8, CallMoves
<1>5. CASE StopUnstarted(c)
  <2>1. \A d \in Caller : ~CreateWrite(d) BY <1>2, <1>5 DEF CreateWrite, StopUnstarted
  <2>2. calls' = calls BY <1>5 DEF StopUnstarted, bounds
  <2>3. CASE ~Linked
    <3>1. Return(c) BY <1>5, <2>3 DEF StopUnstarted, Return
    <3>2. QED BY <2>1, <2>2, <3>1, CallReturns
  <2>4. CASE Linked
    <3> DEFINE s == worker.sid
    <3>1. s \in Session /\ sessions[s].status \notin {"absent", "closed"}
      BY <2>4 DEF Linked, Open, SessInv, Plain, WorkerRecord
    <3>2. PICK f : f = [call[c] EXCEPT !.pc = "shut", !.s = s, !.copy = sessions[s]] OBVIOUS
    <3>3. call' = [call EXCEPT ![c] = f] BY <1>5, <2>4, <3>2 DEF StopUnstarted
    <3>4. sessions[s] \in Copy /\ Good(sessions[s], calls) BY <3>1 DEF SessInv, Records
    <3>5. "shut" \in CallPlaces BY DEF CallPlaces
    <3>6. f \in Frame(CallPlaces) BY <1>0, <3>1, <3>2, <3>4, <3>5 DEF Frame
    <3>7. f.pc = "shut" BY <1>0, <3>2 DEF Frame
    <3>8. f.s = s BY <1>0, <3>2 DEF Frame
    <3>9. f.copy = sessions[s] BY <1>0, <3>2 DEF Frame
    <3>10. sessions'[s].status # "absent" BY <3>1 DEF Stays, Known
    <3>11. calls' \in Nat /\ calls <= calls' /\ Good(f.copy, calls')
      BY <1>0, <2>2, <3>4, <3>9
    <3>12. /\ f.s \in Session /\ sessions'[f.s].status # "absent"
           /\ f.copy.status \notin {"absent", "closed"}
      BY <3>1, <3>8, <3>9, <3>10
    <3>13. QED BY <2>1, <3>3, <3>6, <3>7, <3>11, <3>12, CallMoves
  <2>5. QED BY <2>3, <2>4
<1>6. QED BY <1>1, <1>3, <1>4, <1>5 DEF Returning

LEMMA CallsNext == SessInv /\ Stays /\ [Next]_vars => CallsHold'
<1> SUFFICES ASSUME SessInv, Stays, [Next]_vars PROVE CallsHold' OBVIOUS
<1>0. calls' \in Nat /\ calls <= calls'
  BY Grows, SessionsAssumption DEF SessionsAssumption
<1>1. ASSUME NEW c \in Caller, Calling(c) \/ Returning(c) PROVE CallsHold'
  BY <1>1, CallBegins, CallGoesOn
<1>2. CASE Crash
  <2>1. call' = [c \in Caller |-> Idle] BY <1>2 DEF Crash
  <2>2. Idle \in Frame(CallPlaces) /\ Idle.pc = "idle" /\ Good(Idle.copy, calls')
    BY <1>0, DoneFact
  <2>3. QED BY <2>1, <2>2 DEF CallsHold, CallHolds
<1>3. CASE Starting \/ Exiting \/ ProcessExit \/ Output \/ Reconciling \/ UNCHANGED vars
  <2>1. call' = call
    BY <1>3 DEF Starting, Exiting, ProcessExit, Output, Reconciling, vars, StartWorker, Spawned,
                SpawnFails, SyncRead, PersistRead, SyncWrite, Register, ExitRead, ExitWrite,
                CloseRead, CloseWrite, OutputRead, OutputWrite, BootWorker, BootSessions, RepairStale
  <2>2. \A d \in Caller : ~CreateWrite(d)
    <3>1. SUFFICES ASSUME NEW d \in Caller, CreateWrite(d) PROVE FALSE OBVIOUS
    <3>2. PICK f : f = [call[d] EXCEPT !.pc = "link"] OBVIOUS
    <3>3. call[d].pc = "create" /\ call' = [call EXCEPT ![d] = f]
      BY <3>1, <3>2 DEF CreateWrite
    <3>4. call \in [Caller -> Frame(CallPlaces)] /\ "link" \in CallPlaces
      BY DEF CallPlaces, SessInv, CallsHold
    <3>5. f.pc = "link" BY <3>2, <3>4, Moved
    <3>6. call'[d] = f BY <3>3, <3>4
    <3>7. QED BY <2>1, <3>3, <3>5, <3>6
  <2>3. QED BY <1>0, <2>1, <2>2, CallsSame
<1>4. QED BY <1>1, <1>2, <1>3 DEF Next

-----------------------------------------------------------------------------
(* The invariant *)

LEMMA EndFact == \A w \in WorkerRecord : End(w) \in WorkerRecord /\ Ended(End(w))
<1> SUFFICES ASSUME NEW w \in WorkerRecord PROVE End(w) \in WorkerRecord /\ Ended(End(w)) OBVIOUS
<1>1. End(w) \in WorkerRecord BY DEF End, WorkerRecord, WorkerStatus
<1>2. End(w).status = "lost" BY DEF End, WorkerRecord
<1>3. QED BY <1>1, <1>2 DEF Ended, TerminalWorker

LEMMA HeldRecords ==
  SessInv => /\ start.w \in WorkerRecord /\ start.s \in Session \cup {NoSession}
             /\ worker \in WorkerRecord
             /\ \A c \in Caller : call[c].w \in WorkerRecord /\ call[c].s \in Session \cup {NoSession}
BY DEF SessInv, Plain, StartHolds, CallsHold, Frame

LEMMA WorkerNext == SessInv /\ [Next]_vars => worker' \in WorkerRecord
<1> SUFFICES ASSUME SessInv, [Next]_vars PROVE worker' \in WorkerRecord OBVIOUS
<1>1. CASE worker' = worker BY <1>1, HeldRecords
<1>2. ASSUME NEW w \in WorkerRecord, worker' = End(w) PROVE worker' \in WorkerRecord
  BY <1>2, EndFact
<1>3. ASSUME NEW w \in WorkerRecord, NEW st \in WorkerStatus, worker' = [w EXCEPT !.status = st]
      PROVE  worker' \in WorkerRecord
  BY <1>3 DEF WorkerRecord
<1>4. {"starting", "active", "finishing"} \subseteq WorkerStatus BY DEF WorkerStatus
<1>5. CASE StartWorker \/ Spawned
  <2>1. worker' = [worker EXCEPT !.status = "starting"] \/ worker' = [start.w EXCEPT !.status = "active"]
    BY <1>5 DEF StartWorker, Spawned
  <2>2. QED BY <1>3, <1>4, <2>1, HeldRecords
<1>6. CASE SpawnFails \/ ExitWrite
  BY <1>2, <1>6, HeldRecords DEF SpawnFails, ExitWrite
<1>7. CASE ExitRead
  <2>1. \/ worker' = worker
        \/ \E st \in {worker.status, "finishing"} : worker' = [worker EXCEPT !.status = st]
    BY <1>7 DEF ExitRead
  <2>2. worker.status \in WorkerStatus BY HeldRecords DEF WorkerRecord
  <2>3. QED BY <1>1, <1>3, <1>4, <2>1, <2>2, HeldRecords
<1>8. ASSUME NEW c \in Caller, CreateLink(c) PROVE worker' \in WorkerRecord
  <2>1. worker' = [call[c].w EXCEPT !.sid = call[c].s] BY <1>8 DEF CreateLink
  <2>2. call[c].w \in WorkerRecord /\ call[c].s \in Session \cup {NoSession} BY HeldRecords
  <2>3. QED BY <2>1, <2>2 DEF WorkerRecord
<1>9. ASSUME NEW c \in Caller, Returning(c) PROVE worker' \in WorkerRecord
  <2>1. \/ worker' = worker \/ worker' = End(worker) \/ CreateLink(c)
    BY <1>9 DEF Returning, CreateWrite, AttachWrite, DetachWrite, AcknowledgeWrite, SendWrite,
                CancelWrite, StopRunning, StopReattached, StopUnstarted, ShutWrite, StopEnded
  <2>2. QED BY <1>1, <1>2, <1>8, <2>1, HeldRecords
<1>10. CASE Reconciling
  <2>1. worker' = worker \/ worker' = End(worker)
    BY <1>10 DEF Reconciling, BootWorker, BootSessions, RepairStale, Repair
  <2>2. QED BY <1>1, <1>2, <2>1, HeldRecords
<1>11. CASE \/ SyncRead \/ PersistRead \/ SyncWrite \/ Register \/ CloseRead \/ CloseWrite
            \/ ProcessExit \/ Output \/ Crash \/ UNCHANGED vars
  BY <1>1, <1>11 DEF SyncRead, PersistRead, SyncWrite, Register, CloseRead, CloseWrite,
                     ProcessExit, Output, OutputRead, OutputWrite, Crash, vars
<1>12. ASSUME NEW c \in Caller, Calling(c) PROVE worker' \in WorkerRecord
  BY <1>1, <1>12, BeginFact DEF Begin
<1>13. QED BY <1>5, <1>6, <1>7, <1>9, <1>10, <1>11, <1>12 DEF Next, Starting, Exiting

LEMMA PlainNext == SessInv /\ [Next]_vars => Plain'
<1> SUFFICES ASSUME SessInv, [Next]_vars PROVE Plain' OBVIOUS
<1>0. worker' \in WorkerRecord /\ calls' \in 0..MaxCalls BY WorkerNext, Grows
<1> DEFINE Up      == runtime' \in {"none", "up", "gone"}
           Held    == handle' \in BOOLEAN
           Boots   == boot' \in {"up", "reconcile", "sessions"}
           Counted == restarts' \in 0..MaxRestarts
           Others  == Up /\ Held /\ Boots /\ Counted
<1>1. /\ runtime \in {"none", "up", "gone"} /\ handle \in BOOLEAN
      /\ boot \in {"up", "reconcile", "sessions"} /\ restarts \in 0..MaxRestarts
      /\ MaxRestarts \in Nat
  BY SessionsAssumption DEF SessInv, Plain, SessionsAssumption
<1>2. ASSUME runtime' = runtime, handle' = handle, boot' = boot, restarts' = restarts
      PROVE  Others
  BY <1>1, <1>2
<1>3. ASSUME Starting PROVE Others
  <2>1. \/ UNCHANGED <<runtime, handle, boot, restarts>>
        \/ runtime' = "up" /\ UNCHANGED <<handle, boot, restarts>>
        \/ handle' = TRUE /\ UNCHANGED <<runtime, boot, restarts>>
    BY <1>3 DEF Starting, StartWorker, Spawned, SpawnFails, SyncRead, PersistRead, SyncWrite,
                Register, bounds
  <2>2. QED BY <1>1, <2>1
<1>4. ASSUME Exiting \/ ProcessExit PROVE Others
  <2>1. \/ UNCHANGED <<runtime, handle, boot, restarts>>
        \/ runtime' = "gone" /\ UNCHANGED <<handle, boot, restarts>>
        \/ handle' = FALSE /\ UNCHANGED <<runtime, boot, restarts>>
    BY <1>4 DEF Exiting, ProcessExit, ExitRead, ExitWrite, CloseRead, CloseWrite, bounds
  <2>2. QED BY <1>1, <2>1
<1>5. ASSUME Output \/ UNCHANGED vars PROVE Others
  BY <1>2, <1>5 DEF Output, OutputRead, OutputWrite, vars, bounds
<1>6. ASSUME Crash PROVE Others
  <2>1. /\ runtime' \in {runtime, "gone"} /\ handle' = FALSE /\ boot' = "reconcile"
        /\ restarts < MaxRestarts /\ restarts' = restarts + 1
    BY <1>6 DEF Crash
  <2>2. Counted BY <1>1, <2>1
  <2>3. Up BY <1>1, <2>1
  <2>4. Held /\ Boots BY <2>1
  <2>5. QED BY <2>2, <2>3, <2>4
<1>7. ASSUME Reconciling PROVE Others
  <2>1. /\ boot' \in {boot, "up", "sessions"}
        /\ handle' \in {TRUE, handle} /\ UNCHANGED <<runtime, restarts>>
    BY <1>7 DEF Reconciling, BootWorker, BootSessions, RepairStale, Repair, bounds
  <2>2. QED BY <1>1, <2>1
<1>8. ASSUME NEW c \in Caller, Calling(c) PROVE Others
  <2>1. UNCHANGED <<runtime, handle, boot, restarts>> BY <1>8, BeginFact DEF Begin
  <2>2. QED BY <1>2, <2>1
<1>9. ASSUME NEW c \in Caller, Returning(c) PROVE Others
  <2>1. /\ runtime' \in {runtime, "gone"} /\ handle' \in {TRUE, handle}
        /\ UNCHANGED <<boot, restarts>>
    BY <1>9 DEF Returning, CreateWrite, CreateLink, AttachWrite, DetachWrite, AcknowledgeWrite,
                SendWrite, CancelWrite, StopRunning, StopReattached, StopUnstarted, ShutWrite,
                StopEnded, Kill, bounds
  <2>2. QED BY <1>1, <2>1
<1>10. Others BY <1>3, <1>4, <1>5, <1>6, <1>7, <1>8, <1>9 DEF Next
<1>11. QED BY <1>0, <1>10 DEF Plain

LEMMA StartHeld == SessInv /\ Stays /\ [Next]_vars => StartHolds'
<1> SUFFICES ASSUME SessInv, Stays, [Next]_vars PROVE StartHolds' OBVIOUS
<1>0. calls' \in Nat /\ calls <= calls'
  BY Grows, SessionsAssumption DEF SessionsAssumption
<1>1. CASE Starting \/ Exiting BY <1>1, StartNext
<1>2. CASE start' = start BY <1>0, <1>2, StartSame
<1>3. CASE start' \in {Done, [Idle EXCEPT !.pc = "running"]} BY <1>0, <1>3, StartLeft
<1>4. CASE ProcessExit \/ Output \/ UNCHANGED vars
  BY <1>2, <1>4 DEF ProcessExit, Output, OutputRead, OutputWrite, vars
<1>5. CASE Crash \/ Reconciling
  BY <1>2, <1>3, <1>5 DEF Crash, Reconciling, BootWorker, BootSessions, RepairStale, Repair
<1>6. ASSUME NEW c \in Caller, Calling(c) PROVE StartHolds'
  BY <1>2, <1>6, BeginFact DEF Begin
<1>7. ASSUME NEW c \in Caller, Returning(c) PROVE StartHolds'
  BY <1>2, <1>3, <1>7 DEF Returning, CreateWrite, CreateLink, AttachWrite, DetachWrite,
                          AcknowledgeWrite, SendWrite, CancelWrite, StopRunning, StopReattached,
                          StopUnstarted, ShutWrite, StopEnded
<1>8. QED BY <1>1, <1>4, <1>5, <1>6, <1>7 DEF Next

LEMMA PumpHeld == SessInv /\ Stays /\ [Next]_vars => PumpHolds'
<1> SUFFICES ASSUME SessInv, Stays, [Next]_vars PROVE PumpHolds' OBVIOUS
<1>0. calls' \in Nat /\ calls <= calls'
  BY Grows, SessionsAssumption DEF SessionsAssumption
<1>1. CASE Output \/ Crash BY <1>1, PumpNext
<1>2. CASE pump' = pump BY <1>0, <1>2, PumpSame
<1>3. CASE Starting
  BY <1>2, <1>3 DEF Starting, StartWorker, Spawned, SpawnFails, SyncRead, PersistRead, SyncWrite,
                    Register
<1>4. CASE Exiting \/ ProcessExit \/ Reconciling \/ UNCHANGED vars
  BY <1>2, <1>4 DEF Exiting, ProcessExit, ExitRead, ExitWrite, CloseRead, CloseWrite, vars,
                    Reconciling, BootWorker, BootSessions, RepairStale
<1>6. ASSUME NEW c \in Caller, Calling(c) PROVE PumpHolds'
  BY <1>2, <1>6, BeginFact DEF Begin
<1>7. ASSUME NEW c \in Caller, Returning(c) PROVE PumpHolds'
  BY <1>2, <1>7 DEF Returning, CreateWrite, CreateLink, AttachWrite, DetachWrite,
                    AcknowledgeWrite, SendWrite, CancelWrite, StopRunning, StopReattached,
                    StopUnstarted, ShutWrite, StopEnded
<1>8. QED BY <1>1, <1>3, <1>4, <1>6, <1>7 DEF Next

LEMMA BootingNext == SessInv /\ [Next]_vars => Booting'
<1> SUFFICES ASSUME SessInv, [Next]_vars PROVE Booting' OBVIOUS
<1> DEFINE Places == {"running", "finish", "close", "closing", "done"}
<1>1. CASE boot' = "up" BY <1>1 DEF Booting
<1>2. CASE Crash
  <2>1. boot' = "reconcile" /\ start' = Done /\ call' = [c \in Caller |-> Idle]
    BY <1>2 DEF Crash
  <2>2. start'.pc = "done" /\ \A c \in Caller : call'[c].pc = "idle" BY <2>1, AbsentFact
  <2>3. QED BY <2>1, <2>2 DEF Booting
<1>3. CASE BootWorker
  <2>1. /\ boot # "up" /\ boot' = "sessions" /\ call' = call
        /\ start' \in {start, [Idle EXCEPT !.pc = "running"]}
        /\ \/ Ended(worker) /\ worker' = worker
           \/ handle' = TRUE
           \/ worker' = End(worker)
    BY <1>3 DEF BootWorker, Repair
  <2>2. handle' \/ Ended(worker') BY <2>1, HeldRecords, EndFact
  <2>3. start'.pc \in Places
    <3>1. [Idle EXCEPT !.pc = "running"].pc = "running" BY DEF Idle
    <3>2. QED BY <2>1, <3>1 DEF SessInv, Booting
  <2>4. \A c \in Caller : call'[c].pc = "idle" BY <2>1 DEF SessInv, Booting
  <2>5. QED BY <2>1, <2>2, <2>3, <2>4 DEF Booting
<1>4. ASSUME boot # "up", boot' = boot, call' = call, start'.pc \in Places,
             \/ handle' = handle /\ worker' = worker
             \/ Ended(worker')
             \/ handle' = handle /\ ~Ended(worker)
      PROVE  Booting'
  BY <1>4 DEF SessInv, Booting, Ended
<1>5. CASE boot # "up" /\ (ProcessExit \/ Output \/ UNCHANGED vars)
  <2>1. /\ boot' = boot /\ call' = call /\ start' = start
        /\ handle' = handle /\ worker' = worker
    BY <1>5 DEF ProcessExit, Output, OutputRead, OutputWrite, vars
  <2>2. start.pc \in Places BY <1>5 DEF SessInv, Booting
  <2>3. QED BY <1>4, <1>5, <2>1, <2>2
<1>6. CASE boot # "up" /\ ExitRead
  <2>1. /\ boot' = boot /\ call' = call
        /\ \/ worker' = worker /\ Ended(worker) /\ start' = Done
           \/ handle' = handle /\ ~Ended(worker)
              /\ start' = [start EXCEPT !.pc = "finish", !.w = worker']
    BY <1>6 DEF ExitRead
  <2>2. Done.pc = "done" BY AbsentFact
  <2>3. [start EXCEPT !.pc = "finish", !.w = worker'].pc = "finish"
    BY DEF SessInv, StartHolds, Frame
  <2>4. start'.pc \in Places BY <2>1, <2>2, <2>3
  <2>5. QED BY <1>4, <1>6, <2>1, <2>4
<1>7. CASE boot # "up" /\ ExitWrite
  <2>1. /\ boot' = boot /\ call' = call /\ worker' = End(start.w)
        /\ start' = [start EXCEPT !.pc = "close", !.w = worker']
    BY <1>7 DEF ExitWrite
  <2>2. start'.pc = "close" BY <2>1 DEF SessInv, StartHolds, Frame
  <2>3. Ended(worker') BY <2>1, HeldRecords, EndFact
  <2>4. QED BY <1>4, <1>7, <2>1, <2>2, <2>3
<1>8. CASE boot # "up" /\ (CloseRead \/ CloseWrite)
  <2>1. /\ boot' = boot /\ call' = call /\ handle' = handle /\ worker' = worker
        /\ \/ start' = Done
           \/ start' = [start EXCEPT !.pc = "closing", !.s = start.w.sid,
                                     !.copy = sessions[start.w.sid]]
    BY <1>8 DEF CloseRead, CloseWrite
  <2>2. Done.pc = "done" BY AbsentFact
  <2>3. [start EXCEPT !.pc = "closing", !.s = start.w.sid,
                      !.copy = sessions[start.w.sid]].pc = "closing"
    BY DEF SessInv, StartHolds, Frame
  <2>4. start'.pc \in Places BY <2>1, <2>2, <2>3
  <2>5. QED BY <1>4, <1>8, <2>1, <2>4
<1>9. ASSUME boot # "up", Starting PROVE FALSE
  BY <1>9 DEF SessInv, Booting, Starting, StartWorker, Spawned, SpawnFails, SyncRead, PersistRead,
              SyncWrite, Register
<1>10. ASSUME boot # "up", NEW c \in Caller, Calling(c) PROVE FALSE
  BY <1>10, BeginFact DEF Begin
<1>11. ASSUME boot # "up", NEW c \in Caller, Returning(c) PROVE FALSE
  <2>1. call[c].pc = "idle" BY <1>11 DEF SessInv, Booting
  <2>2. QED BY <1>11, <2>1 DEF Returning, CreateWrite, CreateLink, AttachWrite, DetachWrite,
                 AcknowledgeWrite, SendWrite, CancelWrite, StopRunning, StopReattached,
                 StopUnstarted, ShutWrite, StopEnded
<1>12. CASE boot = "up" /\ ~Crash /\ ~BootWorker
  <2>1. boot' = "up" \/ boot' = boot
    <3>1. CASE Starting
      BY <3>1 DEF Starting, StartWorker, Spawned, SpawnFails, SyncRead, PersistRead, SyncWrite,
                  Register
    <3>2. CASE Exiting \/ ProcessExit \/ Output \/ UNCHANGED vars \/ BootSessions \/ RepairStale
      BY <3>2 DEF Exiting, ProcessExit, ExitRead, ExitWrite, CloseRead, CloseWrite, Output,
                  OutputRead, OutputWrite, vars, BootSessions, RepairStale
    <3>3. ASSUME NEW c \in Caller, Calling(c) PROVE boot' = boot
      BY <3>3, BeginFact DEF Begin
    <3>4. ASSUME NEW c \in Caller, Returning(c) PROVE boot' = boot
      BY <3>4 DEF Returning, CreateWrite, CreateLink, AttachWrite, DetachWrite, AcknowledgeWrite,
                  SendWrite, CancelWrite, StopRunning, StopReattached, StopUnstarted, ShutWrite,
                  StopEnded
    <3>5. QED BY <1>12, <3>1, <3>2, <3>3, <3>4 DEF Next, Reconciling
  <2>2. QED BY <1>1, <1>12, <2>1
<1>13. CASE BootSessions \/ RepairStale
  BY <1>1, <1>13 DEF BootSessions, RepairStale
<1>14. QED BY <1>2, <1>3, <1>5, <1>6, <1>7, <1>8, <1>9, <1>10, <1>11, <1>12, <1>13
           DEF Next, Exiting, Reconciling

LEMMA SessStep == SessInv /\ [Next]_vars => SessInv'
<1> SUFFICES ASSUME SessInv, [Next]_vars PROVE SessInv' OBVIOUS
<1>1. Stays BY RecordsStay
<1>2. Records' BY <1>1 DEF Stays
<1>3. QED BY <1>1, <1>2, PlainNext, StartHeld, PumpHeld, CallsNext, BootingNext DEF SessInv

-----------------------------------------------------------------------------
(* Theorems *)

\* The inductive invariant: what each record may be, and what every operation
\* of WorkerManager and SessionManager that has read a record holds of it.
THEOREM Invariance == Spec => []SessInv
<1>1. Init => SessInv BY SessInit
<1>2. SessInv /\ [Next]_vars => SessInv' BY SessStep
<1>3. QED BY <1>1, <1>2, PTL DEF Spec

\* The records of a worker and its sessions, and the copies that operations
\* hold of them, have their types.
THEOREM TypeCorrect == Spec => []TypeOK
<1>1. SessInv => TypeOK
  BY DEF SessInv, Plain, Records, StartHolds, PumpHolds, CallsHold, TypeOK, StartPlaces, CallPlaces
<1>2. QED BY <1>1, Invariance, PTL

\* However the whole-record writes of calls, callbacks, exits and repairs
\* overtake each other, a session's status agrees with its attached clients.
THEOREM StatusAgrees == Spec => []StatusMatchesClients
<1>1. SessInv => StatusMatchesClients
  BY DEF SessInv, Records, Good, StatusMatchesClients
<1>2. QED BY <1>1, Invariance, PTL

\* A write of one record that leaves session s, which was closed, open.
LEMMA Reopened ==
  ASSUME SessInv, NEW s \in Session, NEW x, NEW k, sessions' = [sessions EXCEPT ![x] = k],
         sessions[s].status = "closed", sessions'[s].status # "closed"
  PROVE  x = s /\ k.status # "closed"
<1>1. sessions \in [Session -> Copy] BY DEF SessInv, Records
<1>2. CASE x # s BY <1>1, <1>2
<1>3. CASE x = s
  <2>1. sessions'[s] = k BY <1>1, <1>3
  <2>2. QED BY <1>3, <2>1
<1>4. QED BY <1>2, <1>3

LEMMA LateStep ==
  ASSUME SessInv, Next, NEW s \in Session,
         sessions[s].status = "closed", sessions'[s].status # "closed"
  PROVE  Stale(start, s) \/ Stale(pump, s) \/ \E c \in Caller : Stale(call[c], s)
<1>1. sessions' # sessions OBVIOUS
<1>2. CASE SyncWrite
  <2> DEFINE st == IF start.pc = "write" THEN "active" ELSE start.copy.status
             k == [start.copy EXCEPT !.rt = TRUE,
                                     !.status = IF start.pc = "write" THEN "active" ELSE @]
  <2>1. start.copy \in Copy BY DEF SessInv, StartHolds, Good
  <2>2. k.status = st BY <2>1 DEF Copy
  <2>3. sessions' = [sessions EXCEPT ![start.s] = k] BY <1>2 DEF SyncWrite
  <2>4. start.s = s /\ k.status # "closed"
    <3> HIDE DEF k
    <3>1. QED BY <2>3, Reopened
  <2>5. start.copy.status # "absent" /\ (start.pc = "write" => start.copy.status # "closed")
    BY <1>2 DEF SessInv, StartHolds, SyncWrite
  <2>6. start.copy.status # "closed" BY <2>2, <2>4, <2>5
  <2>7. QED BY <2>4, <2>5, <2>6 DEF Stale
<1>3. CASE CloseWrite
  <2>1. sessions' = [sessions EXCEPT ![start.s] = Closed(start.copy)]
    BY <1>3 DEF CloseWrite, Update
  <2>2. start.copy \in Copy /\ calls \in Nat BY DEF SessInv, StartHolds, Good, Plain
  <2>3. QED BY <2>1, <2>2, Reopened, ClosedFact
<1>4. CASE OutputWrite
  <2>1. sessions' = [sessions EXCEPT ![pump.s] = pump.copy] BY <1>4 DEF OutputWrite
  <2>2. pump.s = s /\ pump.copy.status # "closed" BY <2>1, Reopened
  <2>3. pump.copy.status # "absent" BY <1>4 DEF SessInv, PumpHolds, OutputWrite
  <2>4. QED BY <2>2, <2>3 DEF Stale
<1>5. CASE BootWorker \/ RepairStale
  <2>1. Repair BY <1>1, <1>5 DEF BootWorker, RepairStale
  <2>2. Linked /\ sessions' = [sessions EXCEPT ![worker.sid] = Closed(sessions[worker.sid])]
    BY <1>1, <2>1 DEF Repair
  <2>3. sessions[worker.sid] \in Copy /\ calls \in Nat
    BY <2>2 DEF Linked, Open, SessInv, Plain, WorkerRecord, Records
  <2>4. QED BY <2>2, <2>3, Reopened, ClosedFact
<1>6. CASE BootSessions
  <2>1. sessions'[s] = sessions[s] BY <1>6 DEF BootSessions, Orphan, Open
  <2>2. QED BY <2>1
<1>7. ASSUME NEW c \in Caller, CreateWrite(c) PROVE FALSE
  <2>1. \E k : sessions' = [sessions EXCEPT ![call[c].s] = k] BY <1>7 DEF CreateWrite
  <2>2. call[c].s = s BY <2>1, Reopened
  <2>3. QED BY <1>7, <2>2 DEF SessInv, CallsHold, CallHolds, CreateWrite
<1>8. ASSUME NEW c \in Caller,
             AttachWrite(c) \/ DetachWrite(c) \/ AcknowledgeWrite(c) \/ SendWrite(c)
      PROVE  Stale(call[c], s)
  <2>1. \E k : sessions' = [sessions EXCEPT ![call[c].s] = k]
    BY <1>8 DEF AttachWrite, DetachWrite, AcknowledgeWrite, SendWrite, Update
  <2>2. call[c].s = s BY <2>1, Reopened
  <2>3. call[c].copy.status \notin {"absent", "closed"}
    BY <1>8 DEF SessInv, CallsHold, CallHolds, AttachWrite, DetachWrite, AcknowledgeWrite, SendWrite
  <2>4. QED BY <2>2, <2>3 DEF Stale
<1>9. ASSUME NEW c \in Caller, CancelWrite(c) \/ ShutWrite(c) PROVE FALSE
  <2>1. sessions' = [sessions EXCEPT ![call[c].s] = Closed(call[c].copy)]
    BY <1>1, <1>9 DEF CancelWrite, ShutWrite, Update
  <2>2. call[c].copy \in Copy /\ calls \in Nat
    BY DEF SessInv, CallsHold, CallHolds, Good, Plain
  <2>3. QED BY <2>1, <2>2, Reopened, ClosedFact
<1>10. ASSUME NEW c \in Caller, Calling(c) PROVE FALSE
  BY <1>1, <1>10, BeginFact DEF Begin
<1>11. CASE Quiet BY <1>1, <1>11, QuietFact
<1>12. QED
  BY <1>2, <1>3, <1>4, <1>5, <1>6, <1>7, <1>8, <1>9, <1>10, <1>11
     DEF Next, Quiet, Starting, Exiting, Output, Reconciling, Returning

\* A closed session opens again only by the write of a call, a callback or the
\* start of the worker that had read it before it was closed.
THEOREM LateReopens == Spec => OnlyLateReopen
<1> DEFINE Late == \A s \in Session :
                     sessions[s].status = "closed" /\ sessions'[s].status # "closed"
                       => Stale(start, s) \/ Stale(pump, s) \/ \E c \in Caller : Stale(call[c], s)
<1>1. SessInv /\ [Next]_vars => [Late]_vars
  <2> SUFFICES ASSUME SessInv, Next PROVE Late OBVIOUS
  <2>1. QED BY LateStep
<1>2. Spec => [][Late]_vars BY <1>1, Invariance, PTL DEF Spec
<1>3. QED BY <1>2 DEF OnlyLateReopen

LEMMA HealStep ==
  ASSUME SessInv, Next, boot = "sessions", boot' = "up", NEW s \in Session,
         sessions'[s].status \in {"attached", "active", "detached"}
  PROVE  handle' /\ ~Ended(worker')
<1>1. BootSessions
  <2>1. ASSUME boot' = boot PROVE FALSE BY <2>1
  <2>2. ~Starting /\ ~Exiting /\ ~ProcessExit /\ ~Output /\ ~Crash /\ ~BootWorker /\ ~RepairStale
    BY <2>1 DEF Starting, StartWorker, Spawned, SpawnFails, SyncRead, PersistRead, SyncWrite,
                Register, Exiting, ProcessExit, ExitRead, ExitWrite, CloseRead, CloseWrite, Output,
                OutputRead, OutputWrite, Crash, BootWorker, RepairStale
  <2>3. ASSUME NEW c \in Caller, Calling(c) PROVE FALSE
    BY <2>1, <2>3, BeginFact DEF Begin
  <2>4. ASSUME NEW c \in Caller, Returning(c) PROVE FALSE
    BY <2>1, <2>4 DEF Returning, CreateWrite, CreateLink, AttachWrite, DetachWrite,
                  AcknowledgeWrite, SendWrite, CancelWrite, StopRunning, StopReattached,
                  StopUnstarted, ShutWrite, StopEnded
  <2>5. QED BY <2>2, <2>3, <2>4 DEF Next, Reconciling
<1>2. handle' = handle /\ worker' = worker BY <1>1 DEF BootSessions
<1>3. handle \/ Ended(worker) BY DEF SessInv, Booting
<1>4. sessions'[s] = IF Orphan(s) THEN Closed(sessions[s]) ELSE sessions[s]
  BY <1>1 DEF BootSessions
<1>5. sessions[s] \in Copy /\ calls \in Nat BY DEF SessInv, Records, Plain
<1>6. ~Orphan(s)
  <2>1. CASE Orphan(s)
    <3>1. sessions'[s].status = "closed" BY <1>4, <1>5, <2>1, ClosedFact
    <3>2. QED BY <3>1
  <2>2. QED BY <2>1
<1>7. ~Ended(worker)
  <2>1. sessions'[s] = sessions[s] BY <1>4, <1>6
  <2>2. Open(s) \/ s = NoSession BY <2>1 DEF Open
  <2>3. s # NoSession BY SessionsAssumption DEF SessionsAssumption
  <2>4. QED BY <1>6, <2>2, <2>3 DEF Orphan
<1>8. Ended(worker') = Ended(worker) BY <1>2 DEF Ended
<1>9. QED BY <1>2, <1>3, <1>7, <1>8

\* When the server starts after a crash, every session that is still open has a
\* worker that has not ended and a handle on its runtime (reconcile).
THEOREM BootsHeal == Spec => BootHeals
<1> DEFINE Heal == boot = "sessions" /\ boot' = "up"
                     => \A s \in Session :
                          sessions'[s].status \in {"attached", "active", "detached"}
                            => handle' /\ ~Ended(worker')
<1>1. SessInv /\ [Next]_vars => [Heal]_vars
  <2> SUFFICES ASSUME SessInv, Next PROVE Heal OBVIOUS
  <2>1. QED BY HealStep
<1>2. Spec => [][Heal]_vars BY <1>1, Invariance, PTL DEF Spec
<1>3. QED BY <1>2 DEF BootHeals

=============================================================================
