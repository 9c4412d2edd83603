------------------------------ MODULE TaskLedger ------------------------------
(***************************************************************************)
(* What the task endpoints promise their users: every change of a task is  *)
(* one step, made by someone who may make it at that moment, and a task    *)
(* that goes leaves one row in the deletion log, in the same step.         *)
(***************************************************************************)
EXTENDS Naturals

CONSTANTS Ids, Users, Admins, NoUser

VARIABLES row, owner, ver, entry, author

ledgerVars == <<row, owner, ver, entry, author>>

Init ==
    /\ row = [i \in Ids |-> "none"] /\ owner = [i \in Ids |-> NoUser]
    /\ ver = [i \in Ids |-> 0] /\ entry = [i \in Ids |-> 0]
    /\ author = [i \in Ids |-> NoUser]

May(u, i) == row[i] = "live" /\ u \in Admins \cup {owner[i]}

By(u, i) == author' = [author EXCEPT ![i] = u]

Create(u, i) ==
    /\ row[i] = "none"
    /\ row' = [row EXCEPT ![i] = "live"]
    /\ owner' = [owner EXCEPT ![i] = u]
    /\ By(u, i)
    /\ UNCHANGED <<ver, entry>>

Update(u, i) ==
    /\ May(u, i)
    /\ ver' = [ver EXCEPT ![i] = @ + 1]
    /\ By(u, i)
    /\ UNCHANGED <<row, owner, entry>>

Delete(u, i) ==
    /\ May(u, i)
    /\ row' = [row EXCEPT ![i] = "gone"]
    /\ entry' = [entry EXCEPT ![i] = @ + 1]
    /\ By(u, i)
    /\ UNCHANGED <<owner, ver>>

Next == \E u \in Users, i \in Ids : Create(u, i) \/ Update(u, i) \/ Delete(u, i)

Spec == Init /\ [][Next]_ledgerVars
=============================================================================
