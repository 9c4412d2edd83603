----------------------------- MODULE ReportStatus -----------------------------
(***************************************************************************)
(* GET /api/v1/reports/:jobId (report.controller.js, getReportStatus) next *)
(* to the pipeline.  The handler reads Redis twice: the job with its data  *)
(* and return value, then its state.  The pipeline moves between the two.  *)
(***************************************************************************)
EXTENDS ReportJobs

CONSTANT Admins         \* users whose token carries the role ADMIN

ASSUME AdminsAssumption == Admins \subseteq Users

VARIABLES
    poll,       \* poll[u]: the job user u's request has read, or NoPoll
    reply       \* the last answer and the user it went to

statusVars == <<vars, poll, reply>>

NoPoll == [job |-> NoJob]
NoReply == [code |-> 0]
NotFound(u, j) == [code |-> 404, to |-> u, job |-> j]

\* getState of a job that is gone says "unknown".
StateOf(j) == IF st[j] \in Missing THEN "unknown" ELSE st[j]

StatusInit == Init /\ poll = [u \in Users |-> NoPoll] /\ reply = NoReply

FaultyMayRead(u, j) == TRUE                             \* no ownership check
MayRead(u, j) == u \in Admins \/ owner[j] = u

\* queue.getJob: a snapshot of the job; unknown and foreign jobs look the same.
GetJob(u, j) ==
    /\ poll[u] = NoPoll
    /\ IF st[j] \in Missing \/ ~MayRead(u, j)
       THEN reply' = NotFound(u, j) /\ UNCHANGED poll
       ELSE /\ poll' = [poll EXCEPT ![u] = [job |-> j, value |-> st[j] = "completed"]]
            /\ UNCHANGED reply
    /\ UNCHANGED vars

\* job.getState, and the answer; the report is the one of the snapshot.
GetState(u) ==
    /\ poll[u] # NoPoll
    /\ LET status == StateOf(poll[u].job)
       IN  reply' = [code |-> 200, to |-> u, job |-> poll[u].job, status |-> status,
                     report |-> status = "completed" /\ poll[u].value]
    /\ poll' = [poll EXCEPT ![u] = NoPoll]
    /\ UNCHANGED vars

StatusNext ==
    \/ Next /\ UNCHANGED <<poll, reply>>
    \/ \E u \in Users : GetState(u) \/ \E j \in Jobs : GetJob(u, j)

StatusSpec == StatusInit /\ [][StatusNext]_statusVars

-----------------------------------------------------------------------------
(* The property; HandedJobIsOwn and CompletedMeansMailed of ReportJobs go with it. *)

Answered == reply.code = 200

\* A user who is no admin learns the status of a job only if the API handed that
\* user its id, whatever ids are tried (report.controller.js:59-61).
StatusIsPrivate == Answered => reply.to \in Admins \/ reply.job \in handed[reply.to]
=============================================================================
