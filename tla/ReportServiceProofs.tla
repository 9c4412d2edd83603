-------------------------- MODULE ReportServiceProofs -------------------------
(***************************************************************************)
(* What stands around the report pipeline: worker processes that come and  *)
(* go, requests for the status of a job, and the figures of a report.      *)
(*                                                                         *)
(* However its workers are replaced, and whatever is asked about its jobs, *)
(* the pipeline is a behaviour of ReportJobs, and inherits what            *)
(* ReportJobsProofs proves.                                                *)
(***************************************************************************)
EXTENDS WorkerShutdown, ReportStatus, ReportSummary, ReportJobsProofs, FiniteSetTheorems

(* Workers that are replaced *)

\* A process whose slots run nothing can exit without a trace.
LEMMA IdleExit ==
    ASSUME PipelineInv, NEW P \in Processes, Exit(P), \A s \in P : pc[s] = "idle"
    PROVE  UNCHANGED vars
<1>1. \A s \in P : s \in Slots /\ cur[s] = NoJob
  BY SlotsAssumption DEF PipelineInv, SlotsHaveJobs
<1>2. pc' = pc /\ cur' = cur
  BY <1>1 DEF PipelineInv, TypeOK, Exit
<1> QED BY <1>2 DEF Exit, vars, slotVars

LEMMA DrainedIsIdle ==
    ASSUME PipelineInv, NEW P \in Processes, Drained(P)
    PROVE  \A s \in P : pc[s] = "idle"
BY SlotsAssumption DEF PipelineInv, SlotsHaveJobs, Drained, RunBy

\* A forced exit is a crash of ReportJobs.
LEMMA ForcedExit ==
    ASSUME "crash" \in Events, PipelineInv, NEW P \in Processes, ForceExit(P)
    PROVE  CrashWorker(P) \/ UNCHANGED vars
<1>1. CASE \A s \in P : pc[s] = "idle"
  BY <1>1, IdleExit DEF ForceExit
<1>2. CASE \E s \in P : pc[s] # "idle"
  BY <1>2 DEF ForceExit, Exit, CrashWorker
<1> QED BY <1>1, <1>2

LEMMA ShutdownStep ==
    ASSUME "crash" \in Events, PipelineInv, [ShutdownNext]_shutdownVars
    PROVE  [Next]_vars
<1>1. ASSUME NEW P \in Processes, Sigterm(P) \/ StartWorker(P) PROVE [Next]_vars
  BY <1>1 DEF Sigterm, StartWorker
<1>2. ASSUME NEW P \in Processes, CloseWorker(P) PROVE [Next]_vars
  BY <1>2, IdleExit, DrainedIsIdle DEF CloseWorker
<1>3. ASSUME NEW P \in Processes, ForceExit(P) PROVE [Next]_vars
  BY <1>3, ForcedExit DEF Next
<1>4. ASSUME NEW s \in Slots, NEW j \in Jobs, TakeWhileUp(s, j) PROVE [Next]_vars
  BY <1>4 DEF TakeWhileUp, Next
<1>5. ASSUME NEW j \in Jobs, Timer(j) \/ LoseLock(j) \/ Forget(j) PROVE [Next]_vars
  BY <1>5 DEF Timer, LoseLock, Forget, QueueTimer, Next
<1>6. ASSUME \/ \E u \in Users : RequestReport(u)
             \/ \E s \in Slots : SlotStep(s)
             \/ \E j \in Jobs : ClaimExpire(j)
      PROVE  [Next]_vars
  BY <1>6 DEF Next
<1>7. CASE UNCHANGED shutdownVars
  BY <1>7 DEF shutdownVars
<1> QED BY <1>1, <1>2, <1>3, <1>4, <1>5, <1>6, <1>7 DEF ShutdownNext

\* Workers that are signalled, drained, forced out and started again are workers
\* that crash now and then: every theorem about Spec holds of them (worker.js:21-44).
THEOREM ShutdownImplements ==
    ASSUME "crash" \in Events
    PROVE  ShutdownSpec => Spec
<1>1. ShutdownInit => Init /\ PipelineInv
  BY InitPipeline DEF ShutdownInit
<1>2. PipelineInv /\ [ShutdownNext]_shutdownVars => [Next]_vars
  BY ShutdownStep
<1>3. PipelineInv /\ [Next]_vars => PipelineInv'
  BY StepPipeline
<1> QED BY <1>1, <1>2, <1>3, PTL DEF ShutdownSpec, Spec

\* One mail per job, through every replacement of workers.
THEOREM ShutdownMailsOnce ==
    ASSUME "crash" \in Events, SafeEvents
    PROVE  ShutdownSpec => []AtMostOnceEmail
BY ShutdownImplements, AtMostOnce, PTL

\* A mail is sent only under the job's one claim, and no claim is gone while a run
\* could send it again, although a forced exit cuts runs off anywhere between the claim
\* and its release (report.service.js:124-138, worker.js:36-39).
THEOREM ShutdownClaimsHold ==
    ASSUME "crash" \in Events, SafeEvents
    PROVE  ShutdownSpec => []ClaimIsExclusive
BY ShutdownImplements, ExclusiveClaim, PTL

\* The safety half of KeepsPromise: a client who knows of no worker sees reports that
\* are pending until they are done or dead, and outcomes that stay, through every
\* replacement of workers.
THEOREM ShutdownKeepsPromise ==
    ASSUME "crash" \in Events, SafeEvents
    PROVE  ShutdownSpec => Promise!Spec
BY ShutdownImplements, ImplementsPromise, PTL

-----------------------------------------------------------------------------
(***************************************************************************)
(* StallsAreForced needs to know why an active job is not stalled: unless  *)
(* it was cut off, the slot whose token is in its lock is running it.      *)
(***************************************************************************)
InGoodHands ==
    \A j \in Jobs \ cut : st[j] = "active" => lock[j] \in Slots /\ cur[lock[j]] = j

CutInv == PipelineInv /\ StallsAreForced /\ InGoodHands

LEMMA StepCut ==
    ASSUME "crash" \in Events, CutInv, [ShutdownNext]_shutdownVars
    PROVE  CutInv'
<1> DEFINE Good == StallsAreForced' /\ InGoodHands'
<1>0. PipelineInv'
  BY ShutdownStep, StepPipeline DEF CutInv
<1> USE JobsAssumption, SlotsAssumption, LimitsAssumption
    DEF CutInv, PipelineInv, TypeOK, SlotsHaveJobs, LockMeansActive, StallsAreForced,
        InGoodHands, States, Steps, Finished, Missing, queueVars, mailVars, slotVars
<1>1. ASSUME NEW P \in Processes, Sigterm(P) \/ StartWorker(P) PROVE Good
  BY <1>1 DEF Sigterm, StartWorker, vars
<1>2. ASSUME NEW P \in Processes, CloseWorker(P) PROVE Good
  <2>1. UNCHANGED <<vars, cut>>
    BY <1>2, IdleExit, DrainedIsIdle DEF CloseWorker
  <2> QED BY <2>1 DEF vars
<1>3. ASSUME NEW P \in Processes, ForceExit(P) PROVE Good
  BY <1>3 DEF ForceExit, Exit, RunBy
<1>4. ASSUME NEW s \in Slots, NEW j \in Jobs, TakeWhileUp(s, j) PROVE Good
  BY <1>4 DEF TakeWhileUp, Take, Goto
<1>5. ASSUME NEW j \in Jobs, Timer(j) PROVE Good
  <2>1. CASE LockTimeout(j)
    BY <1>5, <2>1 DEF Timer, LockTimeout, DropLock
  <2>2. CASE StalledCheck(j)
    BY <1>5, <2>2 DEF Timer, StalledCheck, HasStalled, TooOften
  <2>3. CASE PromoteDelayed(j)
    BY <1>5, <2>3 DEF Timer, PromoteDelayed
  <2> QED BY <1>5, <2>1, <2>2, <2>3 DEF Timer
<1>6. ASSUME NEW j \in Jobs, LoseLock(j) PROVE Good
  BY <1>6 DEF LoseLock, LockLost, DropLock
<1>7. ASSUME NEW j \in Jobs, Forget(j) PROVE Good
  BY <1>7 DEF Forget, Evict
<1>8. ASSUME NEW u \in Users, RequestReport(u), UNCHANGED cut PROVE Good
  <2>1. ASSUME NEW j \in Jobs, EnqueueReportJob(j, u), UNCHANGED <<claim, slotVars>>
        PROVE  Good
    BY <1>8, <2>1 DEF EnqueueReportJob, IsNew
  <2> QED BY <1>8, <2>1, RequestedJob
<1>9. ASSUME NEW s \in Slots, SlotStep(s), UNCHANGED cut PROVE Good
  <2>1. CASE UNCHANGED <<queueVars, cur>>
    BY <1>9, <2>1
  <2>2. CASE ReturnReport(s)
    BY <1>9, <2>2, BusySlot DEF ReturnReport, LeaveJob, Goto, HoldsLock
  <2>3. CASE ThrowError(s)
    BY <1>9, <2>3, BusySlot DEF ThrowError, RetriesLeft, LeaveJob, Goto, HoldsLock
  <2> QED BY <1>9, <2>1, <2>2, <2>3
          DEF SlotStep, BuildReport, ClaimEmailSend, SendEmail, ReleaseEmailClaim
<1>10. ASSUME NEW j \in Jobs, ClaimExpire(j), UNCHANGED cut PROVE Good
  BY <1>10 DEF ClaimExpire
<1>11. ASSUME UNCHANGED shutdownVars PROVE Good
  BY <1>11 DEF shutdownVars, vars
<1>12. Good
  BY <1>1, <1>2, <1>3, <1>4, <1>5, <1>6, <1>7, <1>8, <1>9, <1>10, <1>11 DEF ShutdownNext
<1> QED BY <1>0, <1>12

\* A job is found stalled only after a forced exit or a lost lock: shutdowns that
\* drain cost no run, for any workers, jobs and limits (worker.js:22).
THEOREM StallsForced ==
    ASSUME "crash" \in Events
    PROVE  ShutdownSpec => []StallsAreForced
<1>1. ShutdownInit => CutInv
  BY InitPipeline, JobsAssumption DEF ShutdownInit, Init, CutInv, StallsAreForced, InGoodHands
<1>2. CutInv /\ [ShutdownNext]_shutdownVars => CutInv'
  BY StepCut
<1>3. CutInv => StallsAreForced
  BY DEF CutInv
<1> QED BY <1>1, <1>2, <1>3, PTL DEF ShutdownSpec

-----------------------------------------------------------------------------
(***************************************************************************)
(* Whose reports a user can ask for, for any users, admins, keys and       *)
(* interleaving of the two reads of a status request with the pipeline.    *)
(***************************************************************************)

\* The owner of a job was handed its id: both come from one request.  What a handler
\* has read it may answer, then or later, since no id is ever taken back.
OwnersWereHanded ==
    \A j \in Jobs : st[j] \notin Missing => owner[j] \in Users /\ j \in handed[owner[j]]

MayKnow(u, j) == u \in Users /\ (u \in Admins \/ j \in handed[u])

StatusInv ==
    /\ PipelineInv
    /\ OwnersWereHanded
    /\ poll = [u \in Users |-> poll[u]]
    /\ \A u \in Users : poll[u] = NoPoll \/ MayKnow(u, poll[u].job)
    /\ Answered => MayKnow(reply.to, reply.job)

\* A step of the pipeline only adds to what a user was handed, and a job that comes
\* into being is handed to its owner.
LEMMA StepHanded ==
    ASSUME PipelineInv, OwnersWereHanded, [Next]_vars
    PROVE  OwnersWereHanded' /\ \A u \in Users : handed[u] \subseteq handed'[u]
<1> DEFINE Goal == OwnersWereHanded' /\ \A u \in Users : handed[u] \subseteq handed'[u]
<1> USE DEF OwnersWereHanded, PipelineInv, TypeOK, States, Finished, Missing, queueVars,
            mailVars
<1>1. ASSUME NEW u \in Users, RequestReport(u) PROVE Goal
  <2>1. ASSUME NEW j \in Jobs, EnqueueReportJob(j, u),
               handed' = [handed EXCEPT ![u] = @ \cup {j}]
        PROVE  Goal
    <3>1. CASE st[j] \in Missing
      BY <2>1, <3>1 DEF EnqueueReportJob, IsNew
    <3>2. CASE st[j] \notin Missing
      BY <2>1, <3>2 DEF EnqueueReportJob, IsNew
    <3> QED BY <3>1, <3>2
  <2> QED BY <1>1, <2>1, RequestedJob
<1>2. ASSUME NEW s \in Slots, NEW j \in Jobs, Take(s, j) PROVE Goal
  BY <1>2 DEF Take
<1>3. ASSUME NEW s \in Slots, SlotStep(s) PROVE Goal
  <2>1. /\ UNCHANGED <<owner, handed>>
        /\ \/ UNCHANGED st
           \/ /\ cur[s] \in Jobs /\ st[cur[s]] = "active"
              /\ \E state \in {"completed", "delayed", "failed"} :
                    st' = [st EXCEPT ![cur[s]] = state]
    BY <1>3, SlotEffect
  <2> QED BY <2>1
<1>4. ASSUME NEW P \in Processes, CrashWorker(P) PROVE Goal
  BY <1>4 DEF CrashWorker
<1>5. ASSUME NEW j \in Jobs, QueueTimer(j) \/ LockLost(j) \/ Evict(j) \/ ClaimExpire(j)
      PROVE  Goal
  <2>1. CASE Evict(j)
    BY <2>1 DEF Evict
  <2>2. CASE StalledCheck(j) \/ PromoteDelayed(j)
    BY <2>2 DEF StalledCheck, HasStalled, TooOften, PromoteDelayed
  <2>3. CASE UNCHANGED <<st, owner, handed>>
    BY <2>3
  <2> QED BY <1>5, <2>1, <2>2, <2>3
          DEF QueueTimer, LockTimeout, LockLost, DropLock, ClaimExpire
<1>6. ASSUME UNCHANGED vars PROVE Goal
  BY <1>6 DEF vars
<1> QED BY <1>1, <1>2, <1>3, <1>4, <1>5, <1>6 DEF Next

LEMMA StepStatus == StatusInv /\ [StatusNext]_statusVars => StatusInv'
<1> SUFFICES ASSUME StatusInv, [StatusNext]_statusVars PROVE StatusInv'
    OBVIOUS
<1>1. ASSUME [Next]_vars, UNCHANGED <<poll, reply>> PROVE StatusInv'
  <2>1. PipelineInv'
    BY <1>1, StepPipeline DEF StatusInv
  <2>2. OwnersWereHanded' /\ \A u \in Users : handed[u] \subseteq handed'[u]
    BY <1>1, StepHanded DEF StatusInv
  <2> QED BY <1>1, <2>1, <2>2 DEF StatusInv, MayKnow, Answered
<1>2. ASSUME UNCHANGED vars
      PROVE  PipelineInv' /\ OwnersWereHanded' /\ UNCHANGED handed
  BY <1>2, StepPipeline DEF StatusInv, OwnersWereHanded, vars, queueVars
<1>3. ASSUME NEW u \in Users, NEW j \in Jobs, GetJob(u, j) PROVE StatusInv'
  <2>1. CASE st[j] \in Missing \/ ~MayRead(u, j)
    BY <1>2, <1>3, <2>1 DEF GetJob, NotFound, StatusInv, MayKnow, Answered
  <2>2. CASE st[j] \notin Missing /\ MayRead(u, j)
    <3>1. MayKnow(u, j)
      BY <2>2 DEF MayRead, MayKnow, StatusInv, OwnersWereHanded
    <3> QED BY <1>2, <1>3, <2>2, <3>1 DEF GetJob, StatusInv, MayKnow, Answered
  <2> QED BY <2>1, <2>2
<1>4. ASSUME NEW u \in Users, GetState(u) PROVE StatusInv'
  BY <1>2, <1>4 DEF GetState, StatusInv, MayKnow, Answered
<1>5. ASSUME UNCHANGED statusVars PROVE StatusInv'
  BY <1>1, <1>5 DEF statusVars
<1> QED BY <1>1, <1>3, <1>4, <1>5 DEF StatusNext

\* Whatever ids a user tries, and however a status request interleaves with requests,
\* runs and evictions, it answers the job's status only to an admin or to a user who
\* was handed that id (report.controller.js:59-61).
THEOREM StatusPrivate == StatusSpec => []StatusIsPrivate
<1>1. StatusInit => StatusInv
  BY InitPipeline DEF StatusInit, StatusInv, Init, OwnersWereHanded, Missing, NoReply, Answered
<1>2. StatusInv => StatusIsPrivate
  BY DEF StatusInv, StatusIsPrivate, MayKnow
<1> QED BY <1>1, <1>2, StepStatus, PTL DEF StatusSpec

\* Requests for a status do not disturb the pipeline: its theorems hold next to them.
THEOREM StatusOnlyReads == StatusSpec => Spec
<1>1. StatusInit => Init
  BY DEF StatusInit
<1>2. [StatusNext]_statusVars => [Next]_vars
  BY DEF StatusNext, statusVars, GetJob, GetState
<1> QED BY <1>1, <1>2, PTL DEF StatusSpec, Spec

\* A user is handed only ids of that user's own jobs, with status requests going on
\* (report.queue.js:17, the user is part of the id).
THEOREM StatusHandedIsOwn == StatusSpec => []HandedJobIsOwn
BY StatusOnlyReads, HandedJobsAreOwn, PTL

\* Without process faults what a status request calls completed was mailed.
THEOREM StatusCompletedIsMailed ==
    ASSUME Events = {}
    PROVE  StatusSpec => []CompletedMeansMailed
BY StatusOnlyReads, MailedWhenCompleted, PTL

-----------------------------------------------------------------------------
(* The figures of a report *)

\* The figures of a report agree: the statuses add up to the total, only open tasks are
\* overdue, and a report that says 100 percent leaves at most one task in 200 open
\* (report.service.js:27-37).
THEOREM SummariesAgree ==
    ASSUME NEW ids, NEW rows \in SUBSET Rows(ids), IsFiniteSet(rows), NEW now \in Nat,
           NEW report \in Summaries(rows, now)
    PROVE  /\ report.total = report.pending + report.inProgress + report.completed
           /\ report.overdue <= report.total - report.completed
           /\ report.rate \in 0 .. 100
           /\ report.completed = 0 => report.rate = 0
           /\ report.total > 0 /\ report.completed = report.total => report.rate = 100
           /\ report.rate = 100 => 200 * (report.total - report.completed) <= report.total
<1> DEFINE Of(s) == {t \in rows : t.status = s}
           late == {t \in rows : IsOverdue(t, now)}
           open == Of("PENDING") \cup Of("IN_PROGRESS")
<1>1. /\ IsFiniteSet(Of("PENDING")) /\ IsFiniteSet(Of("IN_PROGRESS"))
      /\ IsFiniteSet(Of("COMPLETED")) /\ IsFiniteSet(late)
  BY FS_Subset
<1>2. /\ rows = open \cup Of("COMPLETED")
      /\ open \cap Of("COMPLETED") = {} /\ Of("PENDING") \cap Of("IN_PROGRESS") = {}
      /\ late \subseteq open
  BY DEF Rows, TaskStatuses, IsOverdue
<1> DEFINE pending == Cardinality(Of("PENDING"))
           inProgress == Cardinality(Of("IN_PROGRESS"))
           c == Cardinality(Of("COMPLETED"))
           total == Cardinality(rows)
           overdue == Cardinality(late)
<1>3. /\ report.total = total /\ report.pending = pending /\ report.inProgress = inProgress
      /\ report.completed = c /\ report.overdue = overdue
      /\ report.rate \in CompletionRates(c, total)
  BY DEF Summaries, ByStatus, Overdue
<1> HIDE DEF Of, late
<1>4. /\ pending \in Nat /\ inProgress \in Nat /\ c \in Nat /\ total \in Nat /\ overdue \in Nat
      /\ Cardinality({}) = 0
  BY <1>1, FS_CardinalityType, FS_EmptySet
<1>5. IsFiniteSet(open) /\ Cardinality(open) = pending + inProgress
  <2>0. Cardinality(Of("PENDING") \cap Of("IN_PROGRESS")) = 0
    BY <1>2, <1>4
  <2>1. /\ IsFiniteSet(open)
        /\ Cardinality(open) = pending + inProgress - Cardinality(Of("PENDING") \cap Of("IN_PROGRESS"))
    BY <1>1, FS_Union
  <2> HIDE DEF open, pending, inProgress
  <2> QED BY <1>4, <2>0, <2>1
<1> HIDE DEF open
<1>6. total = Cardinality(open) + c
  <2>1. Cardinality(open \cup Of("COMPLETED"))
          = Cardinality(open) + c - Cardinality(open \cap Of("COMPLETED"))
    BY <1>1, <1>5, FS_Union
  <2> QED BY SMTT(30), <1>2, <1>4, <1>5, <2>1
<1>7. overdue <= Cardinality(open)
  BY <1>2, <1>5, FS_Subset
<1> HIDE DEF pending, inProgress, c, total, overdue
<1>8. total = pending + inProgress + c /\ overdue <= total - c
  BY <1>4, <1>5, <1>6, <1>7
<1> DEFINE rate == report.rate
<1>9. /\ rate \in 0 .. 100
      /\ c = 0 => rate = 0
      /\ total > 0 /\ c = total => rate = 100
      /\ rate = 100 => 200 * (total - c) <= total
  <2>1. CASE total = 0
    BY <1>3, <1>4, <1>8, <2>1 DEF CompletionRates
  <2>2. CASE total # 0
    <3>1. /\ rate \in Int /\ 2 * (100 * c - rate * total) <= total
          /\ 2 * (rate * total - 100 * c) <= total
      BY <1>3, <2>2 DEF CompletionRates
    <3> HIDE DEF rate
    <3>2. total >= 1 /\ c <= total
      BY <1>4, <1>8, <2>2
    <3>3. rate >= 0
      <4> SUFFICES ASSUME rate <= 0 - 1 PROVE FALSE
        BY <3>1
      <4>1. rate * total <= 0 - total
        BY <1>4, <3>1, <3>2
      <4> QED BY <1>4, <3>1, <3>2, <4>1
    <3>4. rate <= 100
      <4> SUFFICES ASSUME rate >= 101 PROVE FALSE
        BY <3>1
      <4>1. rate * total >= 101 * total
        BY <1>4, <3>1, <3>2
      <4> QED BY <1>4, <3>1, <3>2, <4>1
    <3>5. c = 0 => rate = 0
      <4> SUFFICES ASSUME c = 0, rate >= 1 PROVE FALSE
        BY <3>1, <3>3
      <4>1. rate * total >= total
        BY <1>4, <3>1, <3>2
      <4> QED BY <1>4, <3>1, <3>2, <4>1
    <3>6. c = total => rate = 100
      <4> SUFFICES ASSUME c = total, rate <= 99 PROVE FALSE
        BY <3>1, <3>4
      <4>1. rate * total <= 99 * total
        BY <1>4, <3>1, <3>2, <3>3
      <4> QED BY <1>4, <3>1, <3>2, <4>1
    <3>7. rate = 100 => 200 * (total - c) <= total
      BY <1>4, <3>1, <3>2
    <3> QED BY <3>1, <3>3, <3>4, <3>5, <3>6, <3>7
  <2> QED BY <2>1, <2>2
<1> QED BY <1>3, <1>8, <1>9
==============================================================================
