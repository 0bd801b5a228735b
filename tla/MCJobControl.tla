---------------------------- MODULE MCJobControl ----------------------------
(* Instances of JobControl for TLC. *)
EXTENDS JobControl, TLC

PlainOutcomes == {<<"ok", "none">>, <<"error", "none">>}
SignalOutcomes == {<<"ok", "none">>, <<"signal", "none">>}
FileOutcomes == {<<"ok", "completed">>, <<"signal", "none">>, <<"error", "failed">>}
Symm == Permutations(Worker)
=============================================================================
