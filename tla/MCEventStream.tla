---------------------------- MODULE MCEventStream ----------------------------
(* EventStream on small instances for TLC. *)
EXTENDS EventStream, TLC

CONSTANTS c1, c2

=============================================================================
