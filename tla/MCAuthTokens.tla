----------------------------- MODULE MCAuthTokens -----------------------------
(* Small instances of AuthTokens; see the .cfg files. *)
EXTENDS AuthTokens, TLC

Symmetry == Permutations(Tokens) \cup Permutations(Handlers)
=============================================================================
