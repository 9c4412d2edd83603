------------------------------- MODULE MCTaskApi -------------------------------
(* Small instances of TaskApi; see the .cfg files. *)
EXTENDS TaskApi, TLC

Symmetry == Permutations(Ids) \cup Permutations(Handlers) \cup Permutations(Users \ Admins)
=============================================================================
