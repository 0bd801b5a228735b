--------------------------- MODULE MCStateStores ---------------------------
(* Instances of StateStores for TLC. *)
EXTENDS StateStores

CONSTANT j1
OneJob == [i \in Worker \cup Session |-> j1]
Symm == Permutations(Session) \cup Permutations(EventType) \cup Permutations(Status)
=============================================================================
