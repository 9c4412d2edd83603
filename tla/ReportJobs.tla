------------------------------ MODULE ReportJobs ------------------------------
(***************************************************************************)
(* The report pipeline of TaskFlow: POST /api/v1/reports enqueues a BullMQ *)
(* job (report.controller.js, reportQueue.js), slots of the worker         *)
(* processes take jobs and run processReportJob (report.worker.js,         *)
(* report.service.js), which builds a report and mails it under a claim    *)
(* key in Redis.                                                           *)
(*                                                                         *)
(* The queue itself is BullMQ 5 with its defaults: a lock per active job,  *)
(* a stalled-job check, retries with backoff and retention of finished     *)
(* jobs.  It is not in the repository; its actions say what the code here  *)
(* relies on.                                                              *)
(***************************************************************************)
EXTENDS Naturals, FiniteSets

CONSTANTS
    Users,          \* authenticated users
    Keys,           \* Idempotency-Key header values
    AutoIds,        \* job ids the queue generates when there is no key
    Slots,          \* concurrent processor calls, over all worker processes
    Processes,      \* worker processes: each one the set of its slots
    MaxAttempts,    \* REPORT_QUEUE_ATTEMPTS
    MaxStalled,     \* BullMQ maxStalledCount
    Events,         \* what the environment may do, see EventKinds
    NoJob, NoSlot, NoUser

EventKinds ==
    {"crash",             \* a worker process dies and is restarted
     "lock_loss",         \* a live run outlasts its lock: its event loop stood still
     "smtp_ambiguous",    \* the mail is accepted but the send is reported as failed
     "claim_reply_lost",  \* ioredis resends SET NX after losing its first reply
     "release_reply_lost",\* ioredis resends the DEL of a claim after losing a reply
     "evict",             \* a finished job reaches its retention and is removed
     "early_ttl"}         \* the 24 h of the claim end before its job does

Jobs == (Users \X Keys) \cup AutoIds

ASSUME JobsAssumption == NoJob \notin Jobs /\ AutoIds \cap (Users \X Keys) = {}
ASSUME SlotsAssumption == NoSlot \notin Slots /\ Processes \subseteq SUBSET Slots
ASSUME UsersAssumption == NoUser \notin Users
ASSUME LimitsAssumption == MaxAttempts \in Nat \ {0} /\ MaxStalled \in Nat
ASSUME EventsAssumption == Events \subseteq EventKinds

VARIABLES
    st,         \* st[j]: where the queue keeps job j
    owner,      \* owner[j]: data.userId of job j
    attempts,   \* attempts[j]: attemptsMade
    stalled,    \* stalled[j]: stalledCounter
    lock,       \* lock[j]: the slot whose token is in the job's lock key
    claim,      \* claim[j]: the key report:email-sent:<j> exists
    delivered,  \* delivered[j]: mails handed to SMTP for j since it was added
    pc, cur,    \* pc[s], cur[s]: the step slot s is at, the job it processes
    handed      \* handed[u]: the job ids POST /reports answered user u with

queueVars == <<st, owner, attempts, stalled, lock>>
mailVars == <<claim, delivered>>
slotVars == <<pc, cur>>
vars == <<queueVars, mailVars, slotVars, handed>>

States == {"absent", "waiting", "active", "delayed", "completed", "failed", "evicted"}
Finished == {"completed", "failed"}
Missing == {"absent", "evicted"}
Steps == {"idle", "building", "claiming", "sending", "releasing", "returning", "throwing"}

TypeOK ==
    /\ st \in [Jobs -> States]
    /\ owner \in [Jobs -> Users \cup {NoUser}]
    /\ attempts \in [Jobs -> 0 .. MaxAttempts]
    /\ stalled \in [Jobs -> 0 .. MaxStalled + 1]
    /\ lock \in [Jobs -> Slots \cup {NoSlot}]
    /\ claim \in [Jobs -> BOOLEAN]
    /\ delivered \in [Jobs -> Nat]
    /\ pc \in [Slots -> Steps]
    /\ cur \in [Slots -> Jobs \cup {NoJob}]
    /\ handed \in [Users -> SUBSET Jobs]

Init ==
    /\ st = [j \in Jobs |-> "absent"]
    /\ owner = [j \in Jobs |-> NoUser]
    /\ attempts = [j \in Jobs |-> 0]
    /\ stalled = [j \in Jobs |-> 0]
    /\ lock = [j \in Jobs |-> NoSlot]
    /\ claim = [j \in Jobs |-> FALSE]
    /\ delivered = [j \in Jobs |-> 0]
    /\ pc = [s \in Slots |-> "idle"]
    /\ cur = [s \in Slots |-> NoJob]
    /\ handed = [u \in Users |-> {}]

-----------------------------------------------------------------------------
(* The API: POST /api/v1/reports *)

\* Operators called Faulty... are the mistakes the properties are tested with.
FaultyJobIdFor(u, k) == <<CHOOSE v \in Users : TRUE, k>>   \* not scoped to the user

\* The id of a keyed job carries the user, so that two users may use one key.
\* (The queue refuses a key with a colon, so distinct pairs have distinct ids.)
JobIdFor(u, k) == <<u, k>>

IsNew(j) == st[j] \in Missing

\* Queue.add: a job whose id the queue knows is left as it is.
EnqueueReportJob(j, u) ==
    IF IsNew(j)
    THEN /\ st' = [st EXCEPT ![j] = "waiting"]
         /\ owner' = [owner EXCEPT ![j] = u]
         /\ attempts' = [attempts EXCEPT ![j] = 0]
         /\ stalled' = [stalled EXCEPT ![j] = 0]
         /\ delivered' = [delivered EXCEPT ![j] = 0]
         /\ UNCHANGED lock
    ELSE UNCHANGED <<queueVars, delivered>>

RequestReport(u) ==
    /\ \/ \E k \in Keys : /\ EnqueueReportJob(JobIdFor(u, k), u)
                          /\ handed' = [handed EXCEPT ![u] = @ \cup {JobIdFor(u, k)}]
       \/ \E id \in AutoIds : /\ st[id] = "absent"      \* generated ids are never reused
                              /\ EnqueueReportJob(id, u)
                              /\ handed' = [handed EXCEPT ![u] = @ \cup {id}]
    /\ UNCHANGED <<claim, slotVars>>

-----------------------------------------------------------------------------
(* A slot of a worker: processReportJob *)

Goto(s, step) == pc' = [pc EXCEPT ![s] = step]

Take(s, j) ==
    /\ pc[s] = "idle"
    /\ st[j] = "waiting"
    /\ st' = [st EXCEPT ![j] = "active"]
    /\ lock' = [lock EXCEPT ![j] = s]
    /\ Goto(s, "building")
    /\ cur' = [cur EXCEPT ![s] = j]
    /\ UNCHANGED <<owner, attempts, stalled, mailVars, handed>>

\* updateProgress(10), the aggregation, updateProgress(70).  It throws when the
\* task query fails, on an injected fault, and when the job is gone from Redis.
BuildReport(s) ==
    /\ pc[s] = "building"
    /\ \/ st[cur[s]] \notin Missing /\ Goto(s, "claiming")
       \/ Goto(s, "throwing")
    /\ UNCHANGED <<queueVars, mailVars, cur, handed>>

FaultyClaimIsFree(j) == TRUE                             \* SET without NX
ClaimIsFree(j) == ~claim[j]

\* SET NX on the claim key: the winner sends, everyone else skips the mail.
ClaimEmailSend(s) ==
    /\ pc[s] = "claiming"
    /\ IF ClaimIsFree(cur[s])
       THEN /\ claim' = [claim EXCEPT ![cur[s]] = TRUE]
            /\ \/ Goto(s, "sending")
               \/ "claim_reply_lost" \in Events /\ Goto(s, "returning")
       ELSE Goto(s, "returning") /\ UNCHANGED claim
    /\ UNCHANGED <<queueVars, delivered, cur, handed>>

FaultyAfterSend(accepted) == "releasing"                 \* finally, not catch
FaultyAfterReject(accepted) == "returning"               \* catch without rethrow
AfterSend(accepted) == IF accepted THEN "returning" ELSE "releasing"

SendEmail(s) ==
    /\ pc[s] = "sending"
    /\ \/ Goto(s, AfterSend(TRUE)) /\ delivered' = [delivered EXCEPT ![cur[s]] = @ + 1]
       \/ Goto(s, AfterSend(FALSE)) /\ UNCHANGED delivered
       \/ /\ "smtp_ambiguous" \in Events
          /\ Goto(s, AfterSend(FALSE))
          /\ delivered' = [delivered EXCEPT ![cur[s]] = @ + 1]
    /\ UNCHANGED <<queueVars, claim, cur, handed>>

\* DEL, whoever has claimed the mail by now.
ReleaseEmailClaim(s) ==
    /\ pc[s] = "releasing"
    /\ claim' = [claim EXCEPT ![cur[s]] = FALSE]
    /\ \/ Goto(s, "throwing")
       \/ "release_reply_lost" \in Events /\ UNCHANGED pc
    /\ UNCHANGED <<queueVars, delivered, cur, handed>>

FaultyHoldsLock(s) == TRUE                               \* any run may finish a job

\* The queue takes a result or an error only from the slot that has the lock.
HoldsLock(s) == lock[cur[s]] = s

LeaveJob(s) ==
    /\ Goto(s, "idle")
    /\ cur' = [cur EXCEPT ![s] = NoJob]

\* updateProgress(100), return report; the queue stores it.
ReturnReport(s) ==
    /\ pc[s] = "returning"
    /\ LeaveJob(s)
    /\ IF HoldsLock(s)
       THEN /\ st' = [st EXCEPT ![cur[s]] = "completed"]
            /\ attempts' = [attempts EXCEPT ![cur[s]] = @ + 1]
            /\ lock' = [lock EXCEPT ![cur[s]] = NoSlot]
       ELSE UNCHANGED <<st, attempts, lock>>
    /\ UNCHANGED <<owner, stalled, mailVars, handed>>

FaultyRetriesLeft(n) == n <= MaxAttempts
RetriesLeft(n) == n < MaxAttempts

\* The processor threw: retried with backoff while attempts are left.
ThrowError(s) ==
    /\ pc[s] = "throwing"
    /\ LeaveJob(s)
    /\ IF HoldsLock(s)
       THEN /\ attempts' = [attempts EXCEPT ![cur[s]] = @ + 1]
            /\ st' = [st EXCEPT ![cur[s]] =
                         IF RetriesLeft(attempts[cur[s]] + 1) THEN "delayed" ELSE "failed"]
            /\ lock' = [lock EXCEPT ![cur[s]] = NoSlot]
       ELSE UNCHANGED <<st, attempts, lock>>
    /\ UNCHANGED <<owner, stalled, mailVars, handed>>

SlotStep(s) ==
    \/ BuildReport(s)
    \/ ClaimEmailSend(s)
    \/ SendEmail(s)
    \/ ReleaseEmailClaim(s)
    \/ ReturnReport(s)
    \/ ThrowError(s)

-----------------------------------------------------------------------------
(* Crashes and the queue's own timers *)

\* kill -9, an uncaught exception, or the 10 s force exit of worker.js.
CrashWorker(P) ==
    /\ "crash" \in Events
    /\ \E s \in P : pc[s] # "idle"
    /\ pc' = [s \in Slots |-> IF s \in P THEN "idle" ELSE pc[s]]
    /\ cur' = [s \in Slots |-> IF s \in P THEN NoJob ELSE cur[s]]
    /\ UNCHANGED <<queueVars, mailVars, handed>>

DropLock(j) ==
    /\ lock[j] # NoSlot
    /\ lock' = [lock EXCEPT ![j] = NoSlot]
    /\ UNCHANGED <<st, owner, attempts, stalled, mailVars, slotVars, handed>>

\* Nobody renews the lock of a run that died.
LockTimeout(j) == (\A s \in Slots : lock[j] = s => cur[s] # j) /\ DropLock(j)

LockLost(j) == "lock_loss" \in Events /\ DropLock(j)

FaultyStalledAgain(j) == st[j] = "active" /\ lock[j] = NoSlot /\ stalled[j] < MaxStalled
HasStalled(j) == st[j] = "active" /\ lock[j] = NoSlot

TooOften(n) == n > MaxStalled

\* An active job without a lock has stalled: back to the queue, or failed.
StalledCheck(j) ==
    /\ HasStalled(j)
    /\ stalled' = [stalled EXCEPT ![j] = @ + 1]
    /\ st' = [st EXCEPT ![j] = IF TooOften(stalled[j] + 1) THEN "failed" ELSE "waiting"]
    /\ UNCHANGED <<owner, attempts, lock, mailVars, slotVars, handed>>

PromoteDelayed(j) ==
    /\ st[j] = "delayed"
    /\ st' = [st EXCEPT ![j] = "waiting"]
    /\ UNCHANGED <<owner, attempts, stalled, lock, mailVars, slotVars, handed>>

\* removeOnComplete after an hour or 500 jobs, removeOnFail after a day.
Evict(j) ==
    /\ "evict" \in Events
    /\ st[j] \in Finished
    /\ st' = [st EXCEPT ![j] = "evicted"]
    /\ owner' = [owner EXCEPT ![j] = NoUser]
    /\ attempts' = [attempts EXCEPT ![j] = 0]
    /\ stalled' = [stalled EXCEPT ![j] = 0]
    /\ UNCHANGED <<lock, mailVars, slotVars, handed>>

\* No run of j is under way and none will be.
Quiet(j) == st[j] \in Finished \cup Missing /\ \A s \in Slots : cur[s] # j

\* EX 24 h on the claim key: long after the runs of a job, unless "early_ttl".
ClaimExpire(j) ==
    /\ claim[j]
    /\ Quiet(j) \/ "early_ttl" \in Events
    /\ claim' = [claim EXCEPT ![j] = FALSE]
    /\ UNCHANGED <<queueVars, delivered, slotVars, handed>>

QueueTimer(j) ==
    \/ LockTimeout(j)
    \/ StalledCheck(j)
    \/ PromoteDelayed(j)

Next ==
    \/ \E u \in Users : RequestReport(u)
    \/ \E s \in Slots : SlotStep(s) \/ \E j \in Jobs : Take(s, j)
    \/ \E P \in Processes : CrashWorker(P)
    \/ \E j \in Jobs : QueueTimer(j) \/ LockLost(j) \/ Evict(j) \/ ClaimExpire(j)

Spec == Init /\ [][Next]_vars

-----------------------------------------------------------------------------
(* Properties *)

\* At most one mail per job, whatever crashes, stalls and retries happen
\* (report.service.js:94, "never sends twice").
AtMostOnceEmail == \A j \in Jobs : delivered[j] <= 1

\* Why: the claim of a job is held by at most one run, and outlives the mail.
Holds(s, j) == cur[s] = j /\ pc[s] \in {"sending", "releasing"}

ClaimIsExclusive ==
    /\ \A j \in Jobs : \A s, t \in Slots : Holds(s, j) /\ Holds(t, j) => s = t
    /\ \A j \in Jobs : \A s \in Slots : Holds(s, j) => claim[j] /\ delivered[j] = 0
    /\ \A j \in Jobs : delivered[j] > 0 => claim[j] \/ Quiet(j)

\* A job that can still run has attempts and stalls left, so that a job is run
\* at most MaxAttempts + MaxStalled times (reportQueue.js:24-27).
RetriesAreBounded ==
    \A j \in Jobs : st[j] \in {"waiting", "active", "delayed"} =>
        attempts[j] < MaxAttempts /\ stalled[j] <= MaxStalled

\* Without the claim a job would still mail no more often than it is run: a send reported
\* as failed after the server took the mail costs one mail more per retry, not a flood
\* (report.service.js:129-138).  To a keyed job that comes back after its eviction, runs
\* left over from before may add theirs.
Leftover(j) == IF j \in AutoIds \/ "evict" \notin Events THEN 0 ELSE Cardinality(Slots)

MailsAreBounded ==
    \A j \in Jobs : delivered[j] <= MaxAttempts + MaxStalled + Leftover(j)

\* Only an active job has a lock, and a job whose live run has the lock is in no
\* other hands that could store its outcome.
LockMeansActive == \A j \in Jobs : lock[j] # NoSlot => st[j] = "active"

\* The id a user was handed names a job of that user, as long as the job exists:
\* two users with the same Idempotency-Key never share one (report.controller.js:30-32).
HandedJobIsOwn ==
    \A u \in Users : \A j \in handed[u] : st[j] \notin Missing => owner[j] = u

\* A finished job stays as it finished until it is removed: a run that lost its
\* lock can neither complete a failed job nor fail a completed one.
FinishedIsFinal ==
    [][\A j \in Jobs : st[j] \in Finished => st'[j] \in {st[j], "evicted"}]_vars

\* As long as no process fault intervenes, a job that completes has mailed its report
\* and one that failed has not: a rejected mail makes the run throw, and the claim goes
\* back when, and only when, the send failed, so that no retry completes without a mail
\* and none that is still to fail finds the claim free after one (report.service.js:134-138).
CompletedMeansMailed ==
    \A j \in Jobs : /\ st[j] = "completed" => delivered[j] = 1
                    /\ st[j] = "failed" => delivered[j] = 0

\* What every action relies on, the inductive invariant of ReportJobsProofs: a
\* slot is idle when it has no job, and what a slot runs was once enqueued.
SlotsHaveJobs ==
    \A s \in Slots : /\ pc[s] = "idle" <=> cur[s] = NoJob
                     /\ cur[s] # NoJob => st[cur[s]] # "absent"

PipelineInv == TypeOK /\ SlotsHaveJobs /\ LockMeansActive /\ RetriesAreBounded

-----------------------------------------------------------------------------
(* What the pipeline promises: ReportPromise *)

Phase(state) ==
    CASE state = "absent" -> "none"
      [] state = "completed" -> "done"
      [] state = "failed" -> "dead"
      [] state = "evicted" -> "forgotten"
      [] OTHER -> "pending"

Phases == [j \in Jobs |-> Phase(st[j])]

Promise == INSTANCE ReportPromise WITH phase <- Phases, mails <- delivered

\* The pipeline implements the service its clients see, with an outcome for
\* every request (README: queue and worker sections); its liveness is WorkerShutdown's.
KeepsPromise == Promise!FairSpec
=============================================================================
