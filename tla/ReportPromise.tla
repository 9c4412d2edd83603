---------------------------- MODULE ReportPromise ----------------------------
(***************************************************************************)
(* What a client of the report service relies on, with no queue, worker or *)
(* claim in sight: a requested report is pending until it is done or dead, *)
(* an outcome is final until the job is forgotten, and a job mails at most *)
(* once.  ReportJobs implements it (ReportJobsProofs, reports_promise).    *)
(***************************************************************************)
EXTENDS Naturals

CONSTANT Jobs

VARIABLES phase, mails

promiseVars == <<phase, mails>>

Init ==
    /\ phase = [j \in Jobs |-> "none"]
    /\ mails = [j \in Jobs |-> 0]

\* A forgotten job's id may be requested again: that is a new job.
Request(j) ==
    /\ phase[j] \in {"none", "forgotten"}
    /\ phase' = [phase EXCEPT ![j] = "pending"]
    /\ mails' = [mails EXCEPT ![j] = 0]

\* The mail may trail the outcome: a run that lost its job can still be sending.
Mail(j) ==
    /\ phase[j] # "none"
    /\ mails[j] = 0
    /\ mails' = [mails EXCEPT ![j] = 1]
    /\ UNCHANGED phase

Conclude(j) ==
    /\ phase[j] = "pending"
    /\ phase' \in {[phase EXCEPT ![j] = outcome] : outcome \in {"done", "dead"}}
    /\ UNCHANGED mails

Forget(j) ==
    /\ phase[j] \in {"done", "dead"}
    /\ phase' = [phase EXCEPT ![j] = "forgotten"]
    /\ UNCHANGED mails

Next == \E j \in Jobs : Request(j) \/ Mail(j) \/ Conclude(j) \/ Forget(j)

Spec == Init /\ [][Next]_promiseVars

FairSpec == Spec /\ \A j \in Jobs : WF_promiseVars(Conclude(j))
=============================================================================
