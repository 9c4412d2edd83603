---------------------------- MODULE MCRateLimiter ----------------------------
(* RateLimiter on small instances for TLC, with one request per window. *)
EXTENDS RateLimiter, TLC

CONSTANTS p1, p2, u1, u2

MCLimit == "global" :> 1 @@ "auth" :> 1 @@ "user" :> 1

=============================================================================
