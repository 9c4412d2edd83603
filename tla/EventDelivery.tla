---------------------------- MODULE EventDelivery ----------------------------
(***************************************************************************)
(* What the event stream promises the services it connects: an event that  *)
(* is published meets exactly one fate.  It is handled, once; or its       *)
(* handler fails; or it is lost to a fault.  None is forgotten.            *)
(***************************************************************************)
EXTENDS Naturals

CONSTANT Events

VARIABLES
    fate,       \* fate[e]: what became of event e
    times       \* times[e]: how often the handler finished for event e

deliveryVars == <<fate, times>>

Fates == {"unpublished", "due", "handled", "failed", "lost"}

Init ==
    /\ fate = [e \in Events |-> "unpublished"]
    /\ times = [e \in Events |-> 0]

\* A fault, or the bound of the stream, strikes none, some or all of the events due.
SparedOrLost(e) ==
    \/ fate'[e] = fate[e]
    \/ fate[e] = "due" /\ fate'[e] = "lost"

Lose ==
    /\ fate' \in [Events -> Fates]
    /\ \A e \in Events : SparedOrLost(e)
    /\ UNCHANGED times

\* An event is due from its publication on, if there is a group of consumers.
Publish(e) ==
    /\ fate[e] = "unpublished"
    /\ fate' \in [Events -> Fates]
    /\ fate'[e] \in {"due", "lost"}
    /\ \A d \in Events \ {e} : SparedOrLost(d)
    /\ UNCHANGED times

Handle(e) ==
    /\ fate[e] = "due"
    /\ fate' = [fate EXCEPT ![e] = "handled"]
    /\ times' = [times EXCEPT ![e] = @ + 1]

Fail(e) ==
    /\ fate[e] = "due"
    /\ fate' = [fate EXCEPT ![e] = "failed"]
    /\ UNCHANGED times

Next == Lose \/ \E e \in Events : Publish(e) \/ Handle(e) \/ Fail(e)

Spec == Init /\ [][Next]_deliveryVars

EveryEventSettles == \A e \in Events : (fate[e] = "due") ~> (fate[e] # "due")
=============================================================================
