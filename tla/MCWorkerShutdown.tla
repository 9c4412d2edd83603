-------------------------- MODULE MCWorkerShutdown --------------------------
(* WorkerShutdown on a small instance for TLC. *)
EXTENDS WorkerShutdown

CONSTANTS u1, k1, s1, s2, s3

TwoWorkers == {{s1, s2}, {s3}}
=============================================================================
