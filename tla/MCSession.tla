------------------------------- MODULE MCSession -------------------------------
(* Small instances of Session; see the .cfg files. *)
EXTENDS Session, TLC

OtherTokens == Tokens \ {FirstToken}
Symmetry == Permutations(OtherTokens) \cup Permutations(Handlers) \cup Permutations(Tabs)
            \cup Permutations(Calls \ {Me})
=============================================================================
