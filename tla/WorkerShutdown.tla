---------------------------- MODULE WorkerShutdown ----------------------------
(***************************************************************************)
(* The worker processes of the report pipeline come and go (worker.js): on *)
(* SIGTERM a worker takes no more jobs, lets the ones in hand finish, then *)
(* closes its connections and exits; after ten seconds it exits in any     *)
(* case.  Kubernetes starts it again.                                      *)
(*                                                                         *)
(* A second signal waits for the same worker.close() and adds no step of   *)
(* its own.  Between the end of worker.close() and the exit nothing of the *)
(* process runs, so closing the connections is part of the exit.           *)
(***************************************************************************)
EXTENDS ReportJobs

VARIABLES
    stage,      \* stage[P]: "up", "draining" from SIGTERM on, or "down"
    cut         \* jobs that lost a run, or its lock, before the run ended

shutdownVars == <<vars, stage, cut>>

ShutdownInit == Init /\ stage = [P \in Processes |-> "up"] /\ cut = {}

To(P, s) == stage' = [stage EXCEPT ![P] = s]
RunBy(P) == {cur[s] : s \in P} \ {NoJob}

Sigterm(P) ==
    /\ stage[P] = "up"
    /\ To(P, "draining")
    /\ UNCHANGED <<vars, cut>>

FaultyDrained(P) == TRUE                                \* worker.close() is not awaited
Drained(P) == RunBy(P) = {}

\* Whatever the process was doing ends with it.
Exit(P) ==
    /\ To(P, "down")
    /\ pc' = [s \in Slots |-> IF s \in P THEN "idle" ELSE pc[s]]
    /\ cur' = [s \in Slots |-> IF s \in P THEN NoJob ELSE cur[s]]
    /\ UNCHANGED <<queueVars, mailVars, handed>>

\* worker.close() returns when no processor call is left, exit(0).
CloseWorker(P) ==
    /\ stage[P] = "draining"
    /\ Drained(P)
    /\ Exit(P)
    /\ UNCHANGED cut

\* forceExitAfter(10000), exit(1).
ForceExit(P) ==
    /\ stage[P] = "draining"
    /\ Exit(P)
    /\ cut' = cut \cup RunBy(P)

StartWorker(P) ==
    /\ stage[P] = "down"
    /\ To(P, "up")
    /\ UNCHANGED <<vars, cut>>

\* A worker that is closing fetches no job.
TakeWhileUp(s, j) ==
    /\ \A P \in Processes : s \in P => stage[P] = "up"
    /\ Take(s, j)
    /\ UNCHANGED <<stage, cut>>

\* BullMQ's timers are those of its workers; the lock key's TTL is Redis's.
Timer(j) ==
    /\ \/ LockTimeout(j)
       \/ /\ \E P \in Processes : stage[P] # "down"
          /\ StalledCheck(j) \/ PromoteDelayed(j)
    /\ UNCHANGED <<stage, cut>>

LoseLock(j) == LockLost(j) /\ cut' = cut \cup {j} /\ UNCHANGED stage
Forget(j) == Evict(j) /\ cut' = cut \ {j} /\ UNCHANGED stage

ShutdownNext ==
    \/ \E P \in Processes : Sigterm(P) \/ CloseWorker(P) \/ ForceExit(P) \/ StartWorker(P)
    \/ \E s \in Slots, j \in Jobs : TakeWhileUp(s, j)
    \/ \E j \in Jobs : Timer(j) \/ LoseLock(j) \/ Forget(j)
    \/ /\ \/ \E u \in Users : RequestReport(u)
          \/ \E s \in Slots : SlotStep(s)
          \/ \E j \in Jobs : ClaimExpire(j)
       /\ UNCHANGED <<stage, cut>>

ShutdownSpec == ShutdownInit /\ [][ShutdownNext]_shutdownVars

\* A signalled worker exits and is started again.  A processor call settles (queries
\* and SMTP have time limits and Redis is up).  Workers may be signalled again and again,
\* but one that starts looks for stalled, delayed and waiting jobs first, and the waiting
\* list is a FIFO: hence strong fairness.
ShutdownFairSpec ==
    /\ ShutdownSpec
    /\ \A P \in Processes : /\ WF_shutdownVars(ForceExit(P))
                            /\ WF_shutdownVars(StartWorker(P))
    /\ \A s \in Slots : WF_shutdownVars(SlotStep(s) /\ UNCHANGED <<stage, cut>>)
    /\ \A j \in Jobs : /\ SF_shutdownVars(Timer(j))
                       /\ SF_shutdownVars(\E s \in Slots : TakeWhileUp(s, j))

-----------------------------------------------------------------------------
(* Properties; KeepsPromise, AtMostOnceEmail and ClaimIsExclusive go with them. *)

\* A shutdown that is not forced costs no job a run: a job is found stalled only after
\* a forced exit or a lock that was lost, however often workers are replaced
\* (worker.js:22, "Stop picking up new jobs and let in-flight ones finish").
StallsAreForced == \A j \in Jobs : stalled[j] > 0 => j \in cut
=============================================================================
