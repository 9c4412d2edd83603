-------------------------- MODULE ReportJobsProofs --------------------------
(***************************************************************************)
(* Theorems about the report pipeline, for any users, keys, slots,         *)
(* processes and limits.                                                   *)
(***************************************************************************)
EXTENDS ReportJobs, FiniteSetTheorems, TLAPS

LEMMA JobIdInJobs == \A u \in Users, k \in Keys : JobIdFor(u, k) \in Jobs
BY DEF JobIdFor, Jobs

\* A slot that works on a job, and what the guard on its lock means.
LEMMA BusySlot ==
    ASSUME PipelineInv, NEW s \in Slots, pc[s] # "idle"
    PROVE  /\ cur[s] \in Jobs
           /\ st[cur[s]] # "absent"
           /\ HoldsLock(s) => /\ st[cur[s]] = "active"
                              /\ attempts[cur[s]] < MaxAttempts
BY JobsAssumption, SlotsAssumption
   DEF PipelineInv, TypeOK, SlotsHaveJobs, LockMeansActive, RetriesAreBounded, HoldsLock

\* The job a request asks for.
LEMMA RequestedJob ==
    ASSUME NEW u \in Users, RequestReport(u)
    PROVE  \E j \in Jobs : /\ EnqueueReportJob(j, u)
                            /\ handed' = [handed EXCEPT ![u] = @ \cup {j}]
                            /\ UNCHANGED <<claim, slotVars>>
                            /\ \/ j \in AutoIds /\ st[j] = "absent"
                               \/ \E k \in Keys : j = JobIdFor(u, k)
<1>1. CASE \E k \in Keys : /\ EnqueueReportJob(JobIdFor(u, k), u)
                            /\ handed' = [handed EXCEPT ![u] = @ \cup {JobIdFor(u, k)}]
  BY <1>1, JobIdInJobs DEF RequestReport
<1>2. CASE \E id \in AutoIds : /\ st[id] = "absent"
                                /\ EnqueueReportJob(id, u)
                                /\ handed' = [handed EXCEPT ![u] = @ \cup {id}]
  BY <1>2 DEF RequestReport, Jobs
<1> QED BY <1>1, <1>2 DEF RequestReport

\* What a slot can do to the queue: store an outcome of an active job.
LEMMA SlotEffect ==
    ASSUME PipelineInv, NEW s \in Slots, SlotStep(s)
    PROVE  /\ UNCHANGED <<owner, handed>>
           /\ \/ UNCHANGED st
              \/ /\ cur[s] \in Jobs
                 /\ st[cur[s]] = "active"
                 /\ UNCHANGED delivered
                 /\ \E state \in {"completed", "delayed", "failed"} :
                       st' = [st EXCEPT ![cur[s]] = state]
<1> USE DEF queueVars, mailVars
<1>1. CASE BuildReport(s) \/ ClaimEmailSend(s) \/ SendEmail(s) \/ ReleaseEmailClaim(s)
  BY <1>1 DEF BuildReport, ClaimEmailSend, SendEmail, ReleaseEmailClaim
<1>2. CASE ReturnReport(s)
  <2>1. CASE HoldsLock(s)
    BY <1>2, <2>1, BusySlot DEF ReturnReport
  <2>2. CASE ~HoldsLock(s)
    BY <1>2, <2>2 DEF ReturnReport
  <2> QED BY <2>1, <2>2
<1>3. CASE ThrowError(s)
  <2>1. CASE HoldsLock(s)
    BY <1>3, <2>1, BusySlot DEF ThrowError, RetriesLeft
  <2>2. CASE ~HoldsLock(s)
    BY <1>3, <2>2 DEF ThrowError, RetriesLeft
  <2> QED BY <2>1, <2>2
<1> QED BY <1>1, <1>2, <1>3 DEF SlotStep

LEMMA InitPipeline == Init => PipelineInv
BY JobsAssumption, LimitsAssumption
   DEF Init, PipelineInv, TypeOK, SlotsHaveJobs, LockMeansActive, RetriesAreBounded,
       States, Steps

LEMMA StepPipeline == PipelineInv /\ [Next]_vars => PipelineInv'
<1> SUFFICES ASSUME PipelineInv, [Next]_vars PROVE PipelineInv'
    OBVIOUS
<1> USE JobsAssumption, SlotsAssumption, UsersAssumption, LimitsAssumption
    DEF PipelineInv, TypeOK, SlotsHaveJobs, LockMeansActive, RetriesAreBounded,
        States, Steps, Finished, Missing, queueVars, mailVars, slotVars
<1>1. ASSUME NEW u \in Users, RequestReport(u) PROVE PipelineInv'
  <2>1. ASSUME NEW j \in Jobs, EnqueueReportJob(j, u), UNCHANGED <<claim, slotVars>>,
               handed' = [handed EXCEPT ![u] = @ \cup {j}]
        PROVE  PipelineInv'
    BY <2>1 DEF EnqueueReportJob, IsNew
  <2> QED BY <1>1, <2>1, RequestedJob
<1>2. ASSUME NEW s \in Slots, NEW j \in Jobs, Take(s, j) PROVE PipelineInv'
  BY <1>2 DEF Take, Goto
<1>3. ASSUME NEW s \in Slots, SlotStep(s) PROVE PipelineInv'
  <2>1. CASE BuildReport(s)
    BY <2>1, BusySlot DEF BuildReport, Goto
  <2>2. CASE ClaimEmailSend(s)
    <3>1. /\ cur[s] \in Jobs
          /\ UNCHANGED <<queueVars, delivered, cur, handed>>
      BY <2>2, BusySlot DEF ClaimEmailSend, ClaimIsFree
    <3>2. PICK step \in {"returning", "sending"} : pc' = [pc EXCEPT ![s] = step]
      BY <2>2 DEF ClaimEmailSend, ClaimIsFree, Goto
    <3>3. claim' \in [Jobs -> BOOLEAN]
      <4>1. claim' = claim \/ claim' = [claim EXCEPT ![cur[s]] = TRUE]
        BY <2>2, Zenon DEF ClaimEmailSend, ClaimIsFree
      <4> QED BY <3>1, <4>1
    <3> QED BY <2>2, <3>1, <3>2, <3>3 DEF ClaimEmailSend, ClaimIsFree
  <2>3. CASE SendEmail(s)
    BY <2>3, BusySlot DEF SendEmail, AfterSend, Goto
  <2>4. CASE ReleaseEmailClaim(s)
    BY <2>4, BusySlot DEF ReleaseEmailClaim, Goto
  <2>5. CASE ReturnReport(s)
    BY <2>5, BusySlot DEF ReturnReport, LeaveJob, Goto, HoldsLock
  <2>6. CASE ThrowError(s)
    BY <2>6, BusySlot DEF ThrowError, RetriesLeft, LeaveJob, Goto, HoldsLock
  <2> QED BY <1>3, <2>1, <2>2, <2>3, <2>4, <2>5, <2>6 DEF SlotStep
<1>4. ASSUME NEW P \in Processes, CrashWorker(P) PROVE PipelineInv'
  BY <1>4 DEF CrashWorker
<1>5. ASSUME NEW j \in Jobs, QueueTimer(j) \/ LockLost(j) \/ Evict(j) \/ ClaimExpire(j)
      PROVE  PipelineInv'
  <2>1. CASE DropLock(j)
    BY <2>1 DEF DropLock
  <2>2. CASE StalledCheck(j)
    BY <2>2 DEF StalledCheck, HasStalled, TooOften
  <2>3. CASE PromoteDelayed(j)
    BY <2>3 DEF PromoteDelayed
  <2>4. CASE Evict(j)
    BY <2>4 DEF Evict
  <2>5. CASE ClaimExpire(j)
    BY <2>5 DEF ClaimExpire
  <2> QED BY <1>5, <2>1, <2>2, <2>3, <2>4, <2>5 DEF QueueTimer, LockTimeout, LockLost
<1>6. CASE UNCHANGED vars
  BY <1>6 DEF vars
<1> QED BY <1>1, <1>2, <1>3, <1>4, <1>5, <1>6 DEF Next

\* The queue, the slots and the locks stay well typed and in step with each
\* other through every interleaving of requests, runs, crashes and timers.
THEOREM PipelineInvariant == Spec => []PipelineInv
BY InitPipeline, StepPipeline, PTL DEF Spec

\* No job is run after its attempts or its stalls are used up.
THEOREM RetriesBounded == Spec => [](TypeOK /\ RetriesAreBounded /\ LockMeansActive)
<1>1. PipelineInv => TypeOK /\ RetriesAreBounded /\ LockMeansActive
  BY DEF PipelineInv
<1> QED BY <1>1, PipelineInvariant, PTL

-----------------------------------------------------------------------------
(***************************************************************************)
(* At most one mail.  AtMostOnceEmail is not inductive: that a second mail *)
(* cannot be sent needs that the claim is exclusive while it is held and   *)
(* that it outlives the mail (ClaimIsExclusive).                           *)
(***************************************************************************)
MailInv == PipelineInv /\ ClaimIsExclusive /\ AtMostOnceEmail

\* The faults that can cost a second mail stay away: a mail that was accepted and reported
\* as failed, a claim that ends before its job, and a DEL that is sent again and may hit
\* the claim of a later run.
SafeEvents == Events \cap {"smtp_ambiguous", "early_ttl", "release_reply_lost"} = {}

LEMMA InitMail == Init => MailInv
BY InitPipeline, JobsAssumption
   DEF Init, MailInv, ClaimIsExclusive, Holds, AtMostOnceEmail

LEMMA StepMail ==
    ASSUME SafeEvents, MailInv, [Next]_vars
    PROVE  MailInv'
<1> DEFINE Exclusive == ClaimIsExclusive' /\ AtMostOnceEmail'
<1> USE JobsAssumption, SlotsAssumption
    DEF MailInv, PipelineInv, TypeOK, ClaimIsExclusive, AtMostOnceEmail, Holds, Quiet,
        States, Steps, Finished, Missing, queueVars, mailVars, slotVars
<1>1. ASSUME NEW u \in Users, RequestReport(u) PROVE Exclusive
  <2>1. ASSUME NEW j \in Jobs, EnqueueReportJob(j, u), UNCHANGED <<claim, slotVars>>
        PROVE  Exclusive
    BY <2>1 DEF EnqueueReportJob, IsNew
  <2> QED BY <1>1, <2>1, RequestedJob
<1>2. ASSUME NEW s \in Slots, NEW j \in Jobs, Take(s, j) PROVE Exclusive
  BY <1>2 DEF Take, Goto
<1>3. ASSUME NEW s \in Slots, SlotStep(s) PROVE Exclusive
  <2>1. CASE BuildReport(s)
    BY <2>1, BusySlot DEF BuildReport, Goto
  <2>2. CASE ClaimEmailSend(s)
    <3>1. /\ cur[s] \in Jobs
          /\ UNCHANGED <<queueVars, delivered, cur, handed>>
      BY <2>2, BusySlot DEF ClaimEmailSend, ClaimIsFree
    <3>2. CASE claim[cur[s]] = TRUE
      BY <2>2, <3>1, <3>2 DEF ClaimEmailSend, ClaimIsFree, Goto
    <3>3. CASE claim[cur[s]] = FALSE
      BY <2>2, <3>1, <3>3 DEF ClaimEmailSend, ClaimIsFree, Goto
    <3>4. claim[cur[s]] \in BOOLEAN
      BY <3>1
    <3> QED BY <3>2, <3>3, <3>4
  <2>3. CASE SendEmail(s)
    BY SMTT(30), <2>3, BusySlot DEF SendEmail, AfterSend, Goto, SafeEvents
  <2>4. CASE ReleaseEmailClaim(s)
    BY <2>4, BusySlot DEF SafeEvents, ReleaseEmailClaim, Goto
  <2>5. CASE ReturnReport(s)
    BY <2>5, BusySlot DEF ReturnReport, LeaveJob, Goto
  <2>6. CASE ThrowError(s)
    BY <2>6, BusySlot DEF ThrowError, RetriesLeft, LeaveJob, Goto
  <2> QED BY <1>3, <2>1, <2>2, <2>3, <2>4, <2>5, <2>6 DEF SlotStep
<1>4. ASSUME NEW P \in Processes, CrashWorker(P) PROVE Exclusive
  BY <1>4 DEF CrashWorker
<1>5. ASSUME NEW j \in Jobs, QueueTimer(j) \/ LockLost(j) \/ Evict(j) \/ ClaimExpire(j)
      PROVE  Exclusive
  <2>1. CASE DropLock(j)
    BY <2>1 DEF DropLock
  <2>2. CASE StalledCheck(j)
    BY <2>2 DEF StalledCheck, HasStalled, TooOften
  <2>3. CASE PromoteDelayed(j)
    BY <2>3 DEF PromoteDelayed
  <2>4. CASE Evict(j)
    BY <2>4 DEF Evict
  <2>5. CASE ClaimExpire(j)
    BY <2>5 DEF ClaimExpire, SafeEvents
  <2> QED BY <1>5, <2>1, <2>2, <2>3, <2>4, <2>5 DEF QueueTimer, LockTimeout, LockLost
<1>6. ASSUME UNCHANGED vars PROVE Exclusive
  BY <1>6 DEF vars
<1>7. Exclusive
  BY <1>1, <1>2, <1>3, <1>4, <1>5, <1>6 DEF Next
<1>8. PipelineInv'
  BY StepPipeline
<1> QED BY <1>7, <1>8

\* A job mails at most once, whichever crashes, stalls, lost locks, lost claim
\* replies and evictions happen, as long as SMTP reports sends truthfully and the
\* claim key outlives the runs of its job (report.service.js:124-145).
THEOREM AtMostOnce ==
    ASSUME SafeEvents
    PROVE  Spec => []AtMostOnceEmail
<1>1. MailInv /\ [Next]_vars => MailInv'
  BY StepMail
<1>2. MailInv => AtMostOnceEmail
  BY DEF MailInv
<1> QED BY <1>1, <1>2, InitMail, PTL DEF Spec

\* Two runs of one job never both hold its claim, and a claim that was used to mail
\* stays as long as the job can run (report.service.js:68-77, 126-145).
THEOREM ExclusiveClaim ==
    ASSUME SafeEvents
    PROVE  Spec => []ClaimIsExclusive
<1>1. MailInv /\ [Next]_vars => MailInv'
  BY StepMail
<1>2. MailInv => ClaimIsExclusive
  BY DEF MailInv
<1> QED BY <1>1, <1>2, InitMail, PTL DEF Spec

-----------------------------------------------------------------------------
(***************************************************************************)
(* How often a job mails when the claim is of no use: once per run.  Runs  *)
(* are counted by what ended them (attempts and stalled), the current one  *)
(* by the job being active.                                                *)
(***************************************************************************)
\* The runs of j that may still mail.
Mailing(j) == {s \in Slots : cur[s] = j /\ pc[s] \in {"building", "claiming", "sending"}}

\* The runs j was given, as far as the queue knows.
Given(j) == attempts[j] + stalled[j] + IF st[j] = "active" THEN 1 ELSE 0

Allowed(j) == IF st[j] = "evicted" THEN MaxAttempts + MaxStalled ELSE Given(j)

Accounted(j) ==
    /\ delivered[j] + Cardinality(Mailing(j)) <= Allowed(j) + Leftover(j)
    /\ Given(j) <= MaxAttempts + MaxStalled
    /\ st[j] = "evicted" => "evict" \in Events

RunsInv == PipelineInv /\ \A j \in Jobs : Accounted(j)

\* What a step may do to the runs of a job: nothing, end some, or send a mail with one.
LEMMA MailingOf ==
    ASSUME IsFiniteSet(Slots), NEW j
    PROVE  /\ IsFiniteSet(Mailing(j)) /\ Cardinality(Mailing(j)) \in Nat
           /\ Cardinality(Mailing(j)) <= Cardinality(Slots) /\ Cardinality(Slots) \in Nat
BY FS_Subset, FS_CardinalityType DEF Mailing

LEMMA FewerMailing ==
    ASSUME IsFiniteSet(Slots), NEW j, Mailing(j)' \subseteq Mailing(j)
    PROVE  Cardinality(Mailing(j)') <= Cardinality(Mailing(j))
BY MailingOf, FS_Subset

LEMMA StepRuns ==
    ASSUME IsFiniteSet(Slots), RunsInv, [Next]_vars
    PROVE  RunsInv'
<1>0. PipelineInv'
  BY StepPipeline DEF RunsInv
<1> SUFFICES ASSUME NEW i \in Jobs PROVE Accounted(i)'
  BY <1>0 DEF RunsInv
<1>1. /\ PipelineInv /\ Accounted(i)
      /\ Cardinality(Mailing(i)) \in Nat
      /\ Cardinality(Mailing(i)') \in Nat
      /\ Leftover(i) \in Nat /\ Leftover(i)' = Leftover(i)
      /\ delivered[i] \in Nat /\ attempts[i] \in Nat /\ stalled[i] \in Nat
      /\ MaxAttempts \in Nat /\ MaxStalled \in Nat
      /\ Given(i) \in Nat /\ Allowed(i) \in Nat
  <2>1. IsFiniteSet(Mailing(i)')
    BY FS_Subset DEF Mailing
  <2> QED BY <2>1, MailingOf, FS_CardinalityType, LimitsAssumption
          DEF RunsInv, Leftover, Given, Allowed, PipelineInv, TypeOK
\* A step that touches neither the books of the job nor its mails.
<1>2. ASSUME Mailing(i)' \subseteq Mailing(i), delivered'[i] = delivered[i],
             Allowed(i)' = Allowed(i), Given(i)' = Given(i),
             st'[i] = "evicted" => st[i] = "evicted"
      PROVE  Accounted(i)'
  BY <1>1, <1>2, FewerMailing DEF Accounted
<1> USE JobsAssumption, SlotsAssumption
    DEF PipelineInv, TypeOK, States, Steps, Finished, Missing, queueVars, mailVars, slotVars
<1>3. ASSUME NEW u \in Users, RequestReport(u) PROVE Accounted(i)'
  <2>1. ASSUME NEW j \in Jobs, EnqueueReportJob(j, u), UNCHANGED <<claim, slotVars>>,
               st[j] = "absent" \/ j \notin AutoIds
        PROVE  Accounted(i)'
    <3>1. Mailing(i)' = Mailing(i)
      BY <2>1 DEF Mailing
    <3>2. CASE IsNew(j) /\ i = j
      <4>1. /\ Given(i)' = 0 /\ Allowed(i)' = 0 /\ delivered'[i] = 0 /\ st'[i] = "waiting"
        BY <1>1, <2>1, <3>2 DEF EnqueueReportJob, Given, Allowed
      <4>2. CASE st[i] = "absent"
        <5>1. Mailing(i) = {}
          BY <1>1, <4>2 DEF Mailing, SlotsHaveJobs
        <5> QED BY <1>1, <3>1, <4>1, <5>1, FS_EmptySet DEF Accounted
      <4>3. CASE st[i] = "evicted"
        <5>1. Leftover(i) = Cardinality(Slots)
          BY <1>1, <2>1, <3>2, <4>3 DEF Leftover, Accounted
        <5> QED BY <1>1, <3>1, <4>1, <5>1, MailingOf DEF Accounted
      <4> QED BY <3>2, <4>2, <4>3 DEF IsNew
    <3>3. CASE ~(IsNew(j) /\ i = j)
      <4>1. /\ st'[i] = st[i] /\ attempts'[i] = attempts[i] /\ stalled'[i] = stalled[i]
            /\ delivered'[i] = delivered[i]
        BY <1>1, <2>1, <3>3 DEF EnqueueReportJob
      <4> QED BY <1>2, <3>1, <4>1 DEF Given, Allowed
    <3> QED BY <3>2, <3>3
  <2>2. CASE \E k \in Keys : EnqueueReportJob(JobIdFor(u, k), u)
    <3>1. PICK k \in Keys : EnqueueReportJob(JobIdFor(u, k), u)
      BY <2>2
    <3>2. JobIdFor(u, k) \in Jobs /\ JobIdFor(u, k) \notin AutoIds
      BY JobIdInJobs DEF JobIdFor
    <3> QED BY <1>3, <2>1, <3>1, <3>2 DEF RequestReport
  <2>3. CASE \E id \in AutoIds : st[id] = "absent" /\ EnqueueReportJob(id, u)
    BY <1>3, <2>1, <2>3 DEF RequestReport, Jobs
  <2> QED BY <1>3, <2>2, <2>3 DEF RequestReport
<1>4. ASSUME NEW s \in Slots, NEW j \in Jobs, Take(s, j) PROVE Accounted(i)'
  <2>1. CASE i = j
    <3>1. Mailing(i)' = Mailing(i) \cup {s} /\ s \notin Mailing(i)
      BY <1>1, <1>4, <2>1 DEF Take, Goto, Mailing
    <3>2. Cardinality(Mailing(i)') = Cardinality(Mailing(i)) + 1
      BY <3>1, MailingOf, FS_AddElement
    <3>3. /\ Given(i)' = Given(i) + 1 /\ Allowed(i)' = Allowed(i) + 1
          /\ st'[i] = "active" /\ delivered'[i] = delivered[i]
          /\ Given(i) = attempts[i] + stalled[i]
      BY <1>1, <1>4, <2>1 DEF Take, Given, Allowed
    <3>4. attempts[i] < MaxAttempts /\ stalled[i] <= MaxStalled
      BY <1>1, <1>4, <2>1 DEF Take, RetriesAreBounded
    <3>5. Given(i)' <= MaxAttempts + MaxStalled
      BY <1>1, <3>3, <3>4
    <3> QED BY <1>1, <3>2, <3>3, <3>5 DEF Accounted
  <2>2. CASE i # j
    <3>1. Mailing(i)' \subseteq Mailing(i)
      BY <1>1, <1>4, <2>2 DEF Take, Goto, Mailing
    <3> QED BY <1>1, <1>2, <1>4, <2>2, <3>1 DEF Take, Given, Allowed
  <2> QED BY <2>1, <2>2
<1>5. ASSUME NEW s \in Slots, SlotStep(s) PROVE Accounted(i)'
  <2>1. CASE BuildReport(s) \/ ClaimEmailSend(s) \/ ReleaseEmailClaim(s)
    <3>1. Mailing(i)' \subseteq Mailing(i)
      BY <1>1, <2>1 DEF BuildReport, ClaimEmailSend, ReleaseEmailClaim, Goto, Mailing
    <3>2. UNCHANGED <<queueVars, delivered>>
      BY <2>1 DEF BuildReport, ClaimEmailSend, ReleaseEmailClaim
    <3> QED BY <1>2, <3>1, <3>2 DEF Given, Allowed
  <2>2. CASE SendEmail(s)
    <3>1. /\ pc[s] = "sending" /\ pc'[s] \in {"returning", "releasing"}
          /\ pc' = [pc EXCEPT ![s] = pc'[s]]
          /\ cur[s] \in Jobs /\ UNCHANGED <<queueVars, cur>>
          /\ delivered' \in {delivered, [delivered EXCEPT ![cur[s]] = @ + 1]}
      BY <1>1, <2>2, BusySlot DEF SendEmail, AfterSend, Goto
    <3>2. Given(i)' = Given(i) /\ Allowed(i)' = Allowed(i) /\ st'[i] = st[i]
      BY <3>1 DEF Given, Allowed
    <3>3. CASE cur[s] = i
      <4>1. Mailing(i)' = Mailing(i) \ {s} /\ s \in Mailing(i)
        BY <1>1, <3>1, <3>3 DEF Mailing
      <4>2. Cardinality(Mailing(i)') = Cardinality(Mailing(i)) - 1
        BY <4>1, MailingOf, FS_RemoveElement
      <4>3. delivered'[i] <= delivered[i] + 1 /\ delivered'[i] \in Nat
        BY <1>1, <3>1, <3>3
      <4> QED BY <1>1, <3>2, <4>2, <4>3 DEF Accounted
    <3>4. CASE cur[s] # i
      <4>1. Mailing(i)' \subseteq Mailing(i) /\ delivered'[i] = delivered[i]
        BY <1>1, <3>1, <3>4 DEF Mailing
      <4> QED BY <1>2, <3>2, <4>1
    <3> QED BY <3>3, <3>4
  <2>3. CASE ReturnReport(s) \/ ThrowError(s)
    <3>1. /\ Mailing(i)' \subseteq Mailing(i) /\ delivered' = delivered
          /\ UNCHANGED stalled /\ cur[s] \in Jobs
      BY <1>1, <2>3, BusySlot DEF ReturnReport, ThrowError, LeaveJob, Goto, Mailing
    <3>2. CASE HoldsLock(s) /\ cur[s] = i
      <4>1. /\ st[i] = "active" /\ st'[i] \in {"completed", "delayed", "failed"}
            /\ attempts'[i] = attempts[i] + 1
        BY <1>1, <2>3, <3>1, <3>2, BusySlot DEF ReturnReport, ThrowError
      <4> QED BY <1>1, <1>2, <3>1, <4>1 DEF Given, Allowed
    <3>3. CASE ~(HoldsLock(s) /\ cur[s] = i)
      <4>1. st'[i] = st[i] /\ attempts'[i] = attempts[i]
        BY <1>1, <2>3, <3>1, <3>3 DEF ReturnReport, ThrowError
      <4> QED BY <1>2, <3>1, <4>1 DEF Given, Allowed
    <3> QED BY <3>2, <3>3
  <2> QED BY <1>5, <2>1, <2>2, <2>3 DEF SlotStep
<1>6. ASSUME NEW P \in Processes, CrashWorker(P) PROVE Accounted(i)'
  <2>1. Mailing(i)' \subseteq Mailing(i)
    BY <1>1, <1>6 DEF CrashWorker, Mailing
  <2> QED BY <1>2, <1>6, <2>1 DEF CrashWorker, Given, Allowed
<1>7. ASSUME NEW j \in Jobs, QueueTimer(j) \/ LockLost(j) \/ Evict(j) \/ ClaimExpire(j)
      PROVE  Accounted(i)'
  <2>0. Mailing(i)' = Mailing(i) /\ delivered' = delivered
    BY <1>7 DEF QueueTimer, LockTimeout, LockLost, DropLock, StalledCheck, PromoteDelayed,
                Evict, ClaimExpire, Mailing
  <2>1. CASE DropLock(j) \/ ClaimExpire(j)
    BY <1>2, <2>0, <2>1 DEF DropLock, ClaimExpire, Given, Allowed
  <2>2. CASE StalledCheck(j)
    <3>1. CASE i = j
      <4>1. /\ st[i] = "active" /\ st'[i] \in {"failed", "waiting"}
            /\ attempts'[i] = attempts[i] /\ stalled'[i] = stalled[i] + 1
        BY <1>1, <2>2, <3>1 DEF StalledCheck, HasStalled
      <4> QED BY <1>1, <1>2, <2>0, <4>1 DEF Given, Allowed
    <3>2. CASE i # j
      BY <1>1, <1>2, <2>0, <2>2, <3>2 DEF StalledCheck, Given, Allowed
    <3> QED BY <3>1, <3>2
  <2>3. CASE PromoteDelayed(j)
    BY <1>1, <1>2, <2>0, <2>3 DEF PromoteDelayed, Given, Allowed
  <2>4. CASE Evict(j)
    <3>1. CASE i = j
      <4>1. /\ st'[i] = "evicted" /\ attempts'[i] = 0 /\ stalled'[i] = 0
            /\ st[i] # "evicted" /\ "evict" \in Events
        BY <1>1, <2>4, <3>1 DEF Evict
      <4>2. Given(i)' = 0 /\ Allowed(i)' = MaxAttempts + MaxStalled /\ Allowed(i) = Given(i)
        BY <4>1 DEF Given, Allowed
      <4> QED BY <1>1, <2>0, <4>1, <4>2 DEF Accounted
    <3>2. CASE i # j
      BY <1>1, <1>2, <2>0, <2>4, <3>2 DEF Evict, Given, Allowed
    <3> QED BY <3>1, <3>2
  <2> QED BY <1>7, <2>1, <2>2, <2>3, <2>4 DEF QueueTimer, LockTimeout, LockLost
<1>8. CASE UNCHANGED vars
  BY <1>1, <1>2, <1>8 DEF vars, Mailing, Given, Allowed
<1> QED BY <1>3, <1>4, <1>5, <1>6, <1>7, <1>8 DEF Next

\* Under every fault, ambiguous sends and lost or early claims included: a job mails at
\* most once for each run it is granted (report.service.js:129-138, reportQueue.js:24-27).
THEOREM MailsOncePerRun ==
    ASSUME IsFiniteSet(Slots)
    PROVE  Spec => []MailsAreBounded
<1>1. Init => RunsInv
  <2> SUFFICES ASSUME Init, NEW j \in Jobs PROVE Accounted(j)
    BY InitPipeline DEF RunsInv
  <2>1. Mailing(j) = {} /\ Given(j) = 0 /\ Allowed(j) = 0 /\ delivered[j] = 0
    BY JobsAssumption DEF Init, Mailing, Given, Allowed
  <2> QED BY <2>1, MailingOf, FS_EmptySet, LimitsAssumption DEF Init, Accounted, Leftover
<1>2. RunsInv /\ [Next]_vars => RunsInv'
  BY StepRuns
<1>3. RunsInv => MailsAreBounded
  <2> SUFFICES ASSUME RunsInv, NEW j \in Jobs
               PROVE  delivered[j] <= MaxAttempts + MaxStalled + Leftover(j)
    BY DEF MailsAreBounded
  <2>1. /\ Allowed(j) <= MaxAttempts + MaxStalled /\ Allowed(j) \in Nat
        /\ delivered[j] \in Nat /\ Cardinality(Mailing(j)) \in Nat /\ Leftover(j) \in Nat
    BY MailingOf, LimitsAssumption
       DEF RunsInv, Accounted, Allowed, Given, Leftover, PipelineInv, TypeOK
  <2> QED BY <2>1, LimitsAssumption DEF RunsInv, Accounted
<1> QED BY <1>1, <1>2, <1>3, PTL DEF Spec

-----------------------------------------------------------------------------
(***************************************************************************)
(* Without faults a job completes with its mail.  The strengthening: then  *)
(* the active jobs are those with a run, by the slot that has their lock,  *)
(* and the step of that run tells what became of the claim and the mail.   *)
(***************************************************************************)
Unmailed(j) == delivered[j] = 0 /\ claim[j] = FALSE

RunOf(s, j) ==
    /\ st[j] = "active" /\ lock[j] = s
    /\ pc[s] \in {"building", "claiming", "throwing"} => Unmailed(j)
    /\ pc[s] \in {"sending", "releasing"} => delivered[j] = 0 /\ claim[j] = TRUE
    /\ pc[s] = "returning" => delivered[j] = 1

CalmInv ==
    /\ PipelineInv
    /\ \A j \in Jobs : /\ st[j] # "evicted"
                       /\ st[j] \in {"absent", "waiting", "delayed"} => Unmailed(j)
                       /\ st[j] = "active" => lock[j] \in Slots /\ cur[lock[j]] = j
                       /\ st[j] = "completed" => delivered[j] = 1
                       /\ st[j] = "failed" => delivered[j] = 0
    /\ \A s \in Slots : cur[s] # NoJob => RunOf(s, cur[s])

LEMMA StepCalm ==
    ASSUME Events = {}, CalmInv, [Next]_vars
    PROVE  CalmInv'
<1>0. PipelineInv'
  BY StepPipeline DEF CalmInv
<1> USE JobsAssumption, SlotsAssumption, <1>0
    DEF CalmInv, RunOf, Unmailed, PipelineInv, TypeOK, SlotsHaveJobs, LockMeansActive,
        States, Steps, Finished, Missing, queueVars, mailVars, slotVars
<1>1. ASSUME NEW u \in Users, RequestReport(u) PROVE CalmInv'
  <2>1. ASSUME NEW j \in Jobs, EnqueueReportJob(j, u), UNCHANGED <<claim, slotVars>>
        PROVE  CalmInv'
    BY <2>1 DEF EnqueueReportJob, IsNew
  <2> QED BY <1>1, <2>1, RequestedJob
<1>2. ASSUME NEW s \in Slots, NEW j \in Jobs, Take(s, j) PROVE CalmInv'
  BY <1>2 DEF Take, Goto
<1>3. ASSUME NEW s \in Slots, SlotStep(s) PROVE CalmInv'
  <2>0. pc[s] # "idle" => /\ cur[s] \in Jobs /\ HoldsLock(s)
                          /\ \A t \in Slots : t # s => cur[t] # cur[s]
    BY BusySlot DEF HoldsLock
  <2>1. CASE BuildReport(s)
    BY <2>0, <2>1 DEF BuildReport, Goto
  <2>2. CASE ClaimEmailSend(s)
    <3>1. /\ claim' = [claim EXCEPT ![cur[s]] = TRUE]
          /\ Goto(s, "sending")
      BY <2>0, <2>2 DEF ClaimEmailSend, ClaimIsFree
    <3>2. UNCHANGED <<queueVars, delivered, cur>> /\ pc[s] = "claiming"
      BY <2>2 DEF ClaimEmailSend
    <3> QED BY <2>0, <3>1, <3>2 DEF Goto
  <2>3. CASE SendEmail(s)
    BY <2>0, <2>3 DEF SendEmail, AfterSend, Goto
  <2>4. CASE ReleaseEmailClaim(s)
    BY <2>0, <2>4 DEF ReleaseEmailClaim, Goto
  <2>5. CASE ReturnReport(s)
    BY <2>0, <2>5 DEF ReturnReport, LeaveJob, Goto, HoldsLock
  <2>6. CASE ThrowError(s)
    BY <2>0, <2>6 DEF ThrowError, RetriesLeft, LeaveJob, Goto, HoldsLock
  <2> QED BY <1>3, <2>1, <2>2, <2>3, <2>4, <2>5, <2>6 DEF SlotStep
<1>4. ASSUME NEW P \in Processes, CrashWorker(P) PROVE CalmInv'
  BY <1>4 DEF CrashWorker
<1>5. ASSUME NEW j \in Jobs, QueueTimer(j) \/ LockLost(j) \/ Evict(j) \/ ClaimExpire(j)
      PROVE  CalmInv'
  <2>1. CASE LockTimeout(j)
    BY <2>1 DEF LockTimeout, DropLock
  <2>2. CASE StalledCheck(j)
    BY <2>2 DEF StalledCheck, HasStalled
  <2>3. CASE PromoteDelayed(j)
    BY <2>3 DEF PromoteDelayed
  <2>4. CASE ClaimExpire(j)
    BY <2>4 DEF ClaimExpire, Quiet
  <2>5. ~LockLost(j) /\ ~Evict(j)
    BY DEF LockLost, Evict
  <2> QED BY <1>5, <2>1, <2>2, <2>3, <2>4, <2>5 DEF QueueTimer
<1>6. ASSUME UNCHANGED vars PROVE CalmInv'
  BY <1>6 DEF vars
<1> QED BY <1>1, <1>2, <1>3, <1>4, <1>5, <1>6 DEF Next

\* When no process fault intervenes, "completed" means that the report was mailed and
\* "failed" that it was not: the claim is given back exactly when the send failed, for
\* any number of slots and attempts (report.service.js:126-145).
THEOREM MailedWhenCompleted ==
    ASSUME Events = {}
    PROVE  Spec => []CompletedMeansMailed
<1>1. Init => CalmInv
  BY InitPipeline, JobsAssumption DEF Init, CalmInv, Unmailed
<1>2. CalmInv /\ [Next]_vars => CalmInv'
  BY StepCalm
<1>3. CalmInv => CompletedMeansMailed
  BY DEF CalmInv, CompletedMeansMailed
<1> QED BY <1>1, <1>2, <1>3, PTL DEF Spec

-----------------------------------------------------------------------------
(* Outcomes are final. *)

LEMMA StepFinal ==
    ASSUME PipelineInv, Next
    PROVE  \A j \in Jobs : st[j] \in Finished => st'[j] \in {st[j], "evicted"}
<1> DEFINE Final == \A j \in Jobs : st[j] \in Finished => st'[j] \in {st[j], "evicted"}
<1> USE DEF PipelineInv, TypeOK, States, Finished, Missing, queueVars
<1>1. ASSUME NEW u \in Users, RequestReport(u) PROVE Final
  <2>1. ASSUME NEW j \in Jobs, EnqueueReportJob(j, u) PROVE Final
    BY <2>1 DEF EnqueueReportJob, IsNew
  <2> QED BY <1>1, <2>1, RequestedJob
<1>2. ASSUME NEW s \in Slots, NEW j \in Jobs, Take(s, j) PROVE Final
  BY <1>2 DEF Take
<1>3. ASSUME NEW s \in Slots, SlotStep(s) PROVE Final
  <2>1. UNCHANGED st \/ (cur[s] \in Jobs /\ st[cur[s]] = "active" /\
                           \E state : st' = [st EXCEPT ![cur[s]] = state])
    BY <1>3, SlotEffect
  <2> QED BY <2>1
<1>4. ASSUME NEW P \in Processes, CrashWorker(P) PROVE Final
  BY <1>4 DEF CrashWorker
<1>5. ASSUME NEW j \in Jobs, QueueTimer(j) \/ LockLost(j) \/ Evict(j) \/ ClaimExpire(j)
      PROVE  Final
  <2>1. CASE Evict(j)
    BY <2>1 DEF Evict
  <2>2. CASE StalledCheck(j) \/ PromoteDelayed(j)
    BY <2>2 DEF StalledCheck, HasStalled, TooOften, PromoteDelayed
  <2>3. CASE UNCHANGED st
    BY <2>3
  <2> QED BY <1>5, <2>1, <2>2, <2>3
          DEF QueueTimer, LockTimeout, LockLost, DropLock, ClaimExpire
<1> QED BY <1>1, <1>2, <1>3, <1>4, <1>5 DEF Next

\* No step takes a job out of "completed" or "failed" but its eviction: a run
\* that lost the lock of its job cannot store a second outcome.
THEOREM OutcomesAreFinal == Spec => FinishedIsFinal
<1>1. PipelineInv /\ [Next]_vars
        => [\A j \in Jobs : st[j] \in Finished => st'[j] \in {st[j], "evicted"}]_vars
  BY StepFinal
<1> QED BY <1>1, PipelineInvariant, PTL DEF Spec, FinishedIsFinal

-----------------------------------------------------------------------------
(***************************************************************************)
(* Jobs belong to the user who was handed their id.  HandedJobIsOwn needs  *)
(* that a keyed job belongs to the user in its id even before that user is *)
(* told of it, and that a generated id is handed out once.                 *)
(***************************************************************************)
OwnershipInv ==
    /\ PipelineInv
    /\ \A u \in Users, k \in Keys :
          st[JobIdFor(u, k)] \notin Missing => owner[JobIdFor(u, k)] = u
    /\ \A u \in Users : \A j \in handed[u] :
          /\ j \in AutoIds \cup {JobIdFor(u, k) : k \in Keys}
          /\ st[j] # "absent"
          /\ st[j] \notin Missing => owner[j] = u

LEMMA StepOwnership == OwnershipInv /\ [Next]_vars => OwnershipInv'
<1> SUFFICES ASSUME OwnershipInv, [Next]_vars PROVE OwnershipInv'
    OBVIOUS
<1>0. PipelineInv'
  BY StepPipeline DEF OwnershipInv
<1> USE JobsAssumption, UsersAssumption, <1>0
    DEF OwnershipInv, PipelineInv, TypeOK, States, Finished, Missing, queueVars, mailVars,
        slotVars, Jobs, JobIdFor
<1>1. ASSUME NEW u \in Users, RequestReport(u) PROVE OwnershipInv'
  <2>1. ASSUME NEW j \in Jobs, EnqueueReportJob(j, u),
               handed' = [handed EXCEPT ![u] = @ \cup {j}],
               \/ j \in AutoIds /\ st[j] = "absent"
               \/ \E k \in Keys : j = JobIdFor(u, k)
        PROVE  OwnershipInv'
    <3>1. CASE st[j] \in Missing
      BY <2>1, <3>1 DEF EnqueueReportJob, IsNew
    <3>2. CASE st[j] \notin Missing
      BY <2>1, <3>2 DEF EnqueueReportJob, IsNew
    <3> QED BY <3>1, <3>2
  <2> QED BY <1>1, <2>1, RequestedJob
<1>2. ASSUME NEW s \in Slots, NEW j \in Jobs, Take(s, j) PROVE OwnershipInv'
  BY SMTT(30), <1>2 DEF Take
<1>3. ASSUME NEW s \in Slots, SlotStep(s) PROVE OwnershipInv'
  <2>1. /\ owner' = owner /\ handed' = handed
        /\ \/ st' = st
           \/ /\ cur[s] \in Jobs
              /\ st[cur[s]] = "active"
              /\ \E state \in {"completed", "delayed", "failed"} :
                    st' = [st EXCEPT ![cur[s]] = state]
    BY <1>3, SlotEffect
  <2> QED BY <2>1
<1>4. ASSUME NEW P \in Processes, CrashWorker(P) PROVE OwnershipInv'
  BY <1>4 DEF CrashWorker
<1>5. ASSUME NEW j \in Jobs, QueueTimer(j) \/ LockLost(j) \/ Evict(j) \/ ClaimExpire(j)
      PROVE  OwnershipInv'
  <2>1. CASE Evict(j)
    BY <2>1 DEF Evict
  <2>2. CASE StalledCheck(j)
    BY SMTT(30), <2>2 DEF StalledCheck, HasStalled, TooOften
  <2>3. CASE PromoteDelayed(j)
    BY <2>3 DEF PromoteDelayed
  <2>4. CASE UNCHANGED <<st, owner, handed>>
    BY <2>4
  <2> QED BY <1>5, <2>1, <2>2, <2>3, <2>4
          DEF QueueTimer, LockTimeout, LockLost, DropLock, ClaimExpire
<1>6. CASE UNCHANGED vars
  BY <1>6 DEF vars
<1> QED BY <1>1, <1>2, <1>3, <1>4, <1>5, <1>6 DEF Next

\* A job id a user was handed names a job of that user for as long as the job
\* exists, whichever keys the users choose (report.controller.js:30-35).
THEOREM HandedJobsAreOwn == Spec => []HandedJobIsOwn
<1>1. Init => OwnershipInv
  BY InitPipeline, JobIdInJobs DEF Init, OwnershipInv, Missing
<1>2. OwnershipInv => HandedJobIsOwn
  BY DEF OwnershipInv, HandedJobIsOwn
<1> QED BY <1>1, <1>2, StepOwnership, PTL DEF Spec

-----------------------------------------------------------------------------
(***************************************************************************)
(* The pipeline implements ReportPromise: moving a job between waiting,    *)
(* active and delayed is invisible, an outcome is a Conclude, an accepted  *)
(* mail is a Mail, which needs MailInv: nothing was mailed before it.      *)
(***************************************************************************)
LEMMA PhaseOfUpdate ==
    ASSUME TypeOK, NEW j \in Jobs, NEW state, st' = [st EXCEPT ![j] = state]
    PROVE  Phases' = [Phases EXCEPT ![j] = Phase(state)]
BY DEF TypeOK, Phases

LEMMA PhaseInvisible ==
    ASSUME TypeOK, NEW j \in Jobs, NEW state, st' = [st EXCEPT ![j] = state],
           Phase(state) = Phase(st[j])
    PROVE  UNCHANGED Phases
BY DEF TypeOK, Phases

LEMMA PhaseTable ==
    /\ Phase("absent") = "none"
    /\ Phase("waiting") = "pending"
    /\ Phase("active") = "pending"
    /\ Phase("delayed") = "pending"
    /\ Phase("completed") = "done"
    /\ Phase("failed") = "dead"
    /\ Phase("evicted") = "forgotten"
BY DEF Phase

LEMMA StepPromise ==
    ASSUME SafeEvents, MailInv, [Next]_vars
    PROVE  [Promise!Next]_Promise!promiseVars
<1> DEFINE Quietly == UNCHANGED <<Phases, delivered>>
           Visibly(j) == Promise!Request(j) \/ Promise!Mail(j) \/ Promise!Conclude(j)
                           \/ Promise!Forget(j)
           Promised == Quietly \/ \E j \in Jobs : Visibly(j)
<1>0. PipelineInv /\ TypeOK
  BY DEF MailInv, PipelineInv
<1>a. ASSUME NEW j \in Jobs, NEW state, st' = [st EXCEPT ![j] = state], UNCHANGED delivered,
             \/ Phase(state) = Phase(st[j])
             \/ Phase(st[j]) = "pending" /\ Phase(state) \in {"done", "dead"}
      PROVE  Promised
  <2>1. CASE Phase(state) = Phase(st[j])
    BY <1>0, <1>a, <2>1, PhaseInvisible
  <2>2. CASE Phase(st[j]) = "pending" /\ Phase(state) \in {"done", "dead"}
    <3>1. Phases[j] = "pending" /\ Phases' = [Phases EXCEPT ![j] = Phase(state)]
      BY <1>0, <1>a, <2>2, PhaseOfUpdate DEF Phases
    <3>2. Promise!Conclude(j)
      BY <1>a, <2>2, <3>1 DEF Promise!Conclude
    <3> QED BY <3>2
  <2> QED BY <1>a, <2>1, <2>2
<1>1. ASSUME NEW u \in Users, RequestReport(u) PROVE Promised
  <2>1. ASSUME NEW j \in Jobs, EnqueueReportJob(j, u) PROVE Promised
    <3>1. CASE st[j] \in Missing
      <4>1. st' = [st EXCEPT ![j] = "waiting"] /\ delivered' = [delivered EXCEPT ![j] = 0]
        BY <2>1, <3>1 DEF EnqueueReportJob, IsNew
      <4>2. Phases[j] \in {"none", "forgotten"}
        BY <3>1, PhaseTable DEF Phases, Missing
      <4>3. Phases' = [Phases EXCEPT ![j] = "pending"]
        BY ZenonT(60), <1>0, <4>1, PhaseOfUpdate, PhaseTable
      <4> QED BY <4>1, <4>2, <4>3 DEF Promise!Request
    <3>2. CASE st[j] \notin Missing
      BY <2>1, <3>2 DEF EnqueueReportJob, IsNew, queueVars, Phases
    <3> QED BY <3>1, <3>2
  <2> QED BY <1>1, <2>1, RequestedJob
<1>2. ASSUME NEW s \in Slots, NEW j \in Jobs, Take(s, j) PROVE Promised
  <2>1. st[j] = "waiting" /\ st' = [st EXCEPT ![j] = "active"] /\ UNCHANGED delivered
    BY <1>2 DEF Take, mailVars
  <2> QED BY <1>a, <2>1, PhaseTable
<1>3. ASSUME NEW s \in Slots, SlotStep(s) PROVE Promised
  <2>1. CASE SendEmail(s)
    <3>1. /\ UNCHANGED st
          /\ cur[s] \in Jobs /\ st[cur[s]] # "absent" /\ delivered[cur[s]] = 0
      BY <1>0, <2>1, BusySlot DEF SendEmail, AfterSend, queueVars, MailInv, ClaimIsExclusive, Holds
    <3>2. UNCHANGED Phases /\ Phases[cur[s]] # "none"
      <4>1. st[cur[s]] \in States \ {"absent"}
        BY <1>0, <3>1 DEF TypeOK
      <4> QED BY <3>1, <4>1, PhaseTable DEF Phases, States
    <3>3. UNCHANGED delivered \/ delivered' = [delivered EXCEPT ![cur[s]] = 1]
      BY <1>0, <2>1, <3>1 DEF SendEmail, AfterSend, TypeOK
    <3> QED BY <3>1, <3>2, <3>3 DEF Promise!Mail
  <2>2. CASE ~SendEmail(s)
    <3>1. UNCHANGED delivered
      BY <1>3, <2>2 DEF SlotStep, BuildReport, ClaimEmailSend, ReleaseEmailClaim,
         ReturnReport, ThrowError, mailVars
    <3>2. CASE UNCHANGED st
      BY <3>1, <3>2 DEF Phases
    <3>3. CASE ~UNCHANGED st
      <4>1. PICK state \in {"completed", "delayed", "failed"} :
               st' = [st EXCEPT ![cur[s]] = state]
        BY <1>0, <1>3, <3>3, SlotEffect
      <4>2. cur[s] \in Jobs /\ st[cur[s]] = "active"
        BY <1>0, <1>3, <3>3, SlotEffect
      <4> QED BY <1>a, <3>1, <4>1, <4>2, PhaseTable
    <3> QED BY <3>2, <3>3
  <2> QED BY <2>1, <2>2
<1>4. ASSUME NEW P \in Processes, CrashWorker(P) PROVE Promised
  BY <1>4 DEF CrashWorker, queueVars, mailVars, Phases
<1>5. ASSUME NEW j \in Jobs, QueueTimer(j) \/ LockLost(j) \/ Evict(j) \/ ClaimExpire(j)
      PROVE  Promised
  <2>1. CASE StalledCheck(j) \/ PromoteDelayed(j)
    <3>1. PICK state \in {"waiting", "failed"} : st' = [st EXCEPT ![j] = state]
      BY <2>1 DEF StalledCheck, HasStalled, TooOften, PromoteDelayed
    <3>2. UNCHANGED delivered /\ st[j] \in {"active", "delayed"}
      BY <2>1 DEF StalledCheck, HasStalled, TooOften, PromoteDelayed, mailVars
    <3> QED BY <1>a, <3>1, <3>2, PhaseTable
  <2>2. CASE Evict(j)
    <3>1. st[j] \in Finished /\ st' = [st EXCEPT ![j] = "evicted"] /\ UNCHANGED delivered
      BY <2>2 DEF Evict, mailVars
    <3>2. Phases[j] \in {"done", "dead"}
      BY <3>1, PhaseTable DEF Phases, Finished
    <3>3. Phases' = [Phases EXCEPT ![j] = "forgotten"]
      BY ZenonT(60), <1>0, <3>1, PhaseOfUpdate, PhaseTable
    <3> QED BY <3>1, <3>2, <3>3 DEF Promise!Forget
  <2>3. CASE UNCHANGED <<st, delivered>>
    BY <2>3 DEF Phases
  <2> QED BY <1>5, <2>1, <2>2, <2>3
          DEF QueueTimer, LockTimeout, LockLost, DropLock, ClaimExpire, mailVars, queueVars
<1>6. CASE UNCHANGED vars
  <2> Quietly
    BY <1>6 DEF vars, queueVars, mailVars, Phases
  <2> QED BY DEF Promise!promiseVars
<1>7. CASE Next
  <2>1. Promised
    BY <1>1, <1>2, <1>3, <1>4, <1>5, <1>7 DEF Next
  <2> QED BY <2>1 DEF Promise!Next, Promise!promiseVars
<1> QED BY <1>6, <1>7

\* For every choice of users, keys, slots, processes and limits, what clients see
\* of the pipeline is a behaviour of ReportPromise.
THEOREM ImplementsPromise ==
    ASSUME SafeEvents
    PROVE  Spec => Promise!Spec
<1>1. Init => Promise!Init
  BY PhaseTable DEF Init, Promise!Init, Phases
<1>2. MailInv /\ [Next]_vars => [Promise!Next]_Promise!promiseVars
  BY StepPromise
<1>3. MailInv /\ [Next]_vars => MailInv'
  BY StepMail
<1> QED BY <1>1, <1>2, <1>3, InitMail, PTL DEF Spec, Promise!Spec
=============================================================================
