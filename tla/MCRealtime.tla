----------------------------- MODULE MCRealtime -----------------------------
(* Realtime for TLC: model values for the clients. *)
EXTENDS Realtime
CONSTANTS c1, c2
=============================================================================
