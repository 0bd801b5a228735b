---------------------------- MODULE MCRemotePlane ----------------------------
(* Instances of RemotePlane for TLC. *)
EXTENDS RemotePlane

Outs == {<<"completed", "completed">>, <<"failed", "none">>}
=============================================================================
