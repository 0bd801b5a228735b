--------------------------- MODULE StoreContract ---------------------------
(***************************************************************************)
(* What a StateStore keeps, whichever backend holds it: the records last   *)
(* written, a transcript per session and a log of events that only grow.   *)
(* A deployment has one store in use and one set aside.  Starting on a     *)
(* backend that has nothing yet takes everything along; starting on one    *)
(* that has something goes back to what that one held.                     *)
(***************************************************************************)
EXTENDS Naturals, Sequences

CONSTANTS Id, Session, Record, Entry, Event, None

VARIABLES used, aside   \* contents: records, transcripts and events

Blank == [records |-> [i \in Id |-> None],
          transcripts |-> [s \in Session |-> <<>>], events |-> <<>>]

Init == used = Blank /\ aside = Blank

Put(i, r) ==
  /\ used' = [used EXCEPT !.records[i] = r] /\ UNCHANGED aside
AppendEntry(s, e) ==
  /\ used' = [used EXCEPT !.transcripts[s] = Append(@, e)] /\ UNCHANGED aside
AppendEvent(e) ==
  /\ used' = [used EXCEPT !.events = Append(@, e)] /\ UNCHANGED aside
TakeAlong == aside' = used /\ UNCHANGED used
GoBack == used' = aside /\ aside' = used

Next ==
  \/ \E i \in Id : used'.records[i] \in Record /\ Put(i, used'.records[i])
  \/ \E s \in Session, e \in Entry : AppendEntry(s, e)
  \/ \E e \in Event : AppendEvent(e)
  \/ TakeAlong \/ GoBack

Spec == Init /\ [][Next]_<<used, aside>>
=============================================================================
