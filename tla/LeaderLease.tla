----------------------------- MODULE LeaderLease -----------------------------
(***************************************************************************)
(* What the scheduler:dispatch lease promises ("lease_based_single_leader"): *)
(* at most one runtime holds it, it passes to another runtime only after   *)
(* it has lapsed or been given up, and a runtime that still counts on an   *)
(* unexpired grant is the holder.                                          *)
(***************************************************************************)
CONSTANTS Host, NoHost

VARIABLES holder,     \* the runtime that holds the lease, or NoHost
          believers   \* runtimes whose last grant has not expired

lvars == <<holder, believers>>

Init == holder = NoHost /\ believers = {}

\* A grant or a renewal: never while another runtime holds the lease.
Grant(h) ==
  /\ holder \in {NoHost, h}
  /\ holder' = h /\ believers' = believers \cup {h}

\* The holder gives the lease up (scheduler stop, executor unregistration).
Resign(h) ==
  /\ holder' = (IF holder = h THEN NoHost ELSE holder)
  /\ believers' = believers \ {h}

\* A crash loses the runtime's knowledge of its grant, not the grant.
Crash(h) == believers' = believers \ {h} /\ UNCHANGED holder

\* Nobody renewed the lease in time.
Lapse == holder' = NoHost /\ believers' = {}

Next == Lapse \/ \E h \in Host : Grant(h) \/ Resign(h) \/ Crash(h)

Spec == Init /\ [][Next]_lvars
=============================================================================
