---------------------------- MODULE StateMachine ----------------------------
(***************************************************************************)
(* The status tables of core/stateMachine.ts and the "advance" rule that   *)
(* Scheduler and WorkerManager build on them.  Pure definitions only: the  *)
(* modules that hold state EXTEND this one.                                *)
(***************************************************************************)
EXTENDS Naturals

JobStatus == {"queued", "preparing", "dispatching", "running", "aggregating",
              "completed", "failed", "canceled", "timed_out"}
WorkerStatus == {"created", "starting", "active", "finishing",
                 "finished", "failed", "canceled", "lost"}

TerminalJob    == {"completed", "failed", "canceled", "timed_out"}
TerminalWorker == {"finished", "failed", "canceled", "lost"}

-----------------------------------------------------------------------------
(* The transition tables, as sets of <<from, to>> pairs. *)

JobTransitions ==
  {<<"queued", "preparing">>, <<"preparing", "dispatching">>,
   <<"dispatching", "running">>, <<"running", "aggregating">>,
   <<"aggregating", "completed">>}
  \cup ({"queued", "preparing", "dispatching", "running", "aggregating"}
          \X {"canceled"})
  \cup ({"preparing", "dispatching", "running", "aggregating"} \X {"failed"})
  \cup ({"dispatching", "running", "aggregating"} \X {"timed_out"})

WorkerTransitions ==
  {<<"created", "starting">>, <<"created", "canceled">>,
   <<"starting", "active">>, <<"active", "finishing">>,
   <<"finishing", "finished">>}
  \cup ({"starting", "active", "finishing"} \X {"failed", "canceled", "lost"})

ValidJob(from, to)    == <<from, to>> \in JobTransitions
ValidWorker(from, to) == <<from, to>> \in WorkerTransitions

-----------------------------------------------------------------------------
(* #advanceJobToStatus walks the happy path one transition (one store      *)
(* write) at a time.  Past(s, t): the job is already at or beyond t, so    *)
(* the call writes nothing.  NextStatus(s, t): the next status the call    *)
(* writes.  AdvanceThrows(s, t): assertValidJobTransition throws.          *)

Flow == {"queued", "preparing", "dispatching", "running", "aggregating"}

FlowRank == [queued |-> 0, preparing |-> 1, dispatching |-> 2,
             running |-> 3, aggregating |-> 4]

FlowNext == [queued |-> "preparing", preparing |-> "dispatching",
             dispatching |-> "running", running |-> "aggregating"]

Past(s, t) ==
  \/ s = t
  \/ s \in Flow /\ t \in Flow /\ FlowRank[s] > FlowRank[t]

NextStatus(s, t) ==
  IF s \in Flow /\ t \in Flow THEN FlowNext[s] ELSE t

AdvanceThrows(s, t) == ~Past(s, t) /\ ~ValidJob(s, NextStatus(s, t))
=============================================================================
