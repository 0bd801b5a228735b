------------------------------ MODULE AppendLog ------------------------------
(***************************************************************************)
(* What a log promises: entries are appended at its end, each once, and a  *)
(* list shows the log as it was at some moment of the listing.             *)
(***************************************************************************)
EXTENDS Naturals, Sequences

CONSTANTS Entry, Reader

VARIABLES log, list   \* list[r]: not begun, begun at a length, or what it shows

Init == log = <<>> /\ list = [r \in Reader |-> [state |-> "none", from |-> 0, shows |-> <<>>]]

Extend(e) ==
  /\ \A i \in DOMAIN log : log[i] # e
  /\ log' = Append(log, e) /\ UNCHANGED list

Begin(r) ==
  /\ list[r].state = "none"
  /\ list' = [list EXCEPT ![r] = [state |-> "begun", from |-> Len(log), shows |-> <<>>]]
  /\ UNCHANGED log

\* A list that begins with this step shows the whole log.
Show(r) ==
  /\ list[r].state \in {"none", "begun"}
  /\ \E from \in {IF list[r].state = "none" THEN Len(log) ELSE list[r].from} :
       \E n \in from..Len(log) :
         list' = [list EXCEPT ![r] = [state |-> "shown", from |-> from, shows |-> SubSeq(log, 1, n)]]
  /\ UNCHANGED log

\* The process ends, and the lists under way with it.
Restart ==
  /\ list' = [r \in Reader |-> IF list[r].state = "begun"
                                THEN [list[r] EXCEPT !.state = "aborted"] ELSE list[r]]
  /\ UNCHANGED log

Next == Restart \/ (\E e \in Entry : Extend(e)) \/ \E r \in Reader : Begin(r) \/ Show(r)

Spec == Init /\ [][Next]_<<log, list>>
=============================================================================
