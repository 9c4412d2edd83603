-------------------------------- MODULE TaskApi --------------------------------
(***************************************************************************)
(* The task endpoints (task.controller.js, task.model.js) on the tables    *)
(* tasks and deleted_tasks, with the audit record and the stream event of  *)
(* every change.  A handler is one request; the database and Redis are     *)
(* reached in atomic calls, and other handlers run in between.             *)
(***************************************************************************)
EXTENDS Naturals

CONSTANTS
    Ids,            \* task ids
    Users, Admins,  \* users, and those with the role ADMIN
    NoId, NoUser,
    Handlers,       \* requests in flight at a time
    MaxUpdates,     \* bound on the updates of one task
    MaxLost,        \* bound on the replies of Redis that are lost
    Faults          \* subset of FaultKinds

FaultKinds ==
    {"db_error",    \* a database call returns an error, carried out or not
     "redis_error", \* Redis answers XADD with an error
     "redis_down",  \* Redis cannot be reached for a while
     "reply_lost",  \* the connection breaks after Redis has carried out an XADD
     "crash"}       \* the API process exits

ASSUME TasksAssumption ==
    /\ Admins \subseteq Users /\ NoUser \notin Users /\ NoId \notin Ids
    /\ MaxUpdates \in Nat /\ MaxLost \in Nat /\ Faults \subseteq FaultKinds

VARIABLES
    row,            \* has the task not been inserted, is it there, was it deleted
    owner,          \* tasks.user_id
    ver,            \* how often the task was updated: its content
    entry,          \* rows of deleted_tasks for the task
    author,         \* the user whose request changed the task last
    told,           \* how often an event is on the stream
    doubtful, lost, \* events with an XADD whose reply was lost, and how many were
    reachable,      \* is the API connected to Redis
    op, step,       \* the request's endpoint, and its next call
    who, id,        \* the user and the task of the request
    made,           \* the version the request wrote
    code,           \* its answer (0: none)
    done, audited   \* requests that changed data; that left an audit record

data == <<row, owner, ver, entry, author>>
request == <<op, who, id>>
handlers == <<op, step, who, id, made, code, done, audited>>
stream == <<told, doubtful, lost>>
redis == <<stream, reachable>>
vars == <<data, redis, handlers>>

Ops == {"create", "read", "update", "delete"}
Steps == {"idle", "find", "insert", "update", "delete", "record", "publish", "answered"}
Event(what, i, v) == [type |-> what, id |-> i, ver |-> v]
Events == [type : {"create", "update", "delete"}, id : Ids, ver : 0 .. MaxUpdates]

TypeOK ==
    /\ row \in [Ids -> {"none", "live", "gone"}]
    /\ owner \in [Ids -> Users \cup {NoUser}]
    /\ ver \in [Ids -> 0 .. MaxUpdates] /\ entry \in [Ids -> Nat]
    /\ author \in [Ids -> Users \cup {NoUser}]
    /\ told \in [Events -> Nat] /\ doubtful \subseteq Events /\ lost \in Nat
    /\ reachable \in BOOLEAN
    /\ op \in [Handlers -> Ops] /\ step \in [Handlers -> Steps]
    /\ who \in [Handlers -> Users \cup {NoUser}] /\ id \in [Handlers -> Ids \cup {NoId}]
    /\ made \in [Handlers -> 0 .. MaxUpdates]
    /\ code \in [Handlers -> {0, 200, 201, 400, 404, 500}]
    /\ done \subseteq Handlers /\ audited \subseteq Handlers
    /\ \A h \in Handlers :
          /\ step[h] # "idle" => who[h] \in Users
          /\ step[h] \notin {"idle", "insert", "answered"} => id[h] \in Ids

Init ==
    /\ row = [i \in Ids |-> "none"] /\ owner = [i \in Ids |-> NoUser]
    /\ ver = [i \in Ids |-> 0] /\ entry = [i \in Ids |-> 0]
    /\ author = [i \in Ids |-> NoUser]
    /\ told = [e \in Events |-> 0] /\ doubtful = {} /\ lost = 0 /\ reachable = TRUE
    /\ op = [h \in Handlers |-> "read"] /\ step = [h \in Handlers |-> "idle"]
    /\ who = [h \in Handlers |-> NoUser] /\ id = [h \in Handlers |-> NoId]
    /\ made = [h \in Handlers |-> 0] /\ code = [h \in Handlers |-> 0]
    /\ done = {} /\ audited = {}

DbError == "db_error" \in Faults

Goto(h, s) == step' = [step EXCEPT ![h] = s] /\ UNCHANGED code
Answer(h, c) == step' = [step EXCEPT ![h] = "answered"] /\ code' = [code EXCEPT ![h] = c]

FaultyFirstStep(o) == "find"                            \* looks up what is not there yet
FirstStep(o) == IF o = "create" THEN "insert" ELSE "find"

\* A request of user u: "create" inserts, the others look up task i first.
Call(h, o, u, i) ==
    /\ step[h] \in {"idle", "answered"}
    /\ op' = [op EXCEPT ![h] = o]
    /\ who' = [who EXCEPT ![h] = u]
    /\ id' = [id EXCEPT ![h] = i]
    /\ step' = [step EXCEPT ![h] = FirstStep(o)]
    /\ code' = [code EXCEPT ![h] = 0]
    /\ made' = [made EXCEPT ![h] = 0]
    /\ done' = done \ {h} /\ audited' = audited \ {h}
    /\ UNCHANGED <<data, redis>>

Audit(h) == audited' = audited \cup {h}

FaultyCanAccess(u, i) == TRUE                           \* no ownership check
CanAccess(u, i) == u \in Admins \/ owner[i] = u

\* findById, canAccess, and for an update the check of its body.  A query that
\* fails is answered like a task that is not there.
FindById(h) ==
    /\ step[h] = "find"
    /\ \/ (row[id[h]] # "live" \/ DbError) /\ Answer(h, 404) /\ UNCHANGED audited
       \/ /\ row[id[h]] = "live"
          /\ IF ~CanAccess(who[h], id[h])
             THEN Answer(h, 404) /\ IF op[h] = "read" THEN UNCHANGED audited ELSE Audit(h)
             ELSE /\ \/ op[h] = "read" /\ Answer(h, 200)
                     \/ op[h] = "update" /\ Answer(h, 400)
                     \/ op[h] # "read" /\ Goto(h, op[h])
                  /\ UNCHANGED audited
    /\ UNCHANGED <<data, redis, request, made, done>>

\* The handler goes on when the write was answered, and with an error when the
\* write was lost or only its answer was.
Written(h) ==
    \/ Goto(h, "record")
    \/ DbError /\ Answer(h, 500)

InsertTask(h) ==
    /\ step[h] = "insert"
    /\ \E i \in Ids :
          /\ row[i] = "none"
          /\ row' = [row EXCEPT ![i] = "live"]
          /\ owner' = [owner EXCEPT ![i] = who[h]]
          /\ author' = [author EXCEPT ![i] = who[h]]
          /\ id' = [id EXCEPT ![h] = i]
    /\ made' = [made EXCEPT ![h] = 0]
    /\ done' = done \cup {h}
    /\ Written(h)
    /\ UNCHANGED <<ver, entry, redis, op, who, audited>>

\* UPDATE ... RETURNING the new row; bound: MaxUpdates.
UpdateTask(h) ==
    /\ step[h] = "update" /\ row[id[h]] = "live"
    /\ ver[id[h]] < MaxUpdates
    /\ ver' = [ver EXCEPT ![id[h]] = @ + 1]
    /\ author' = [author EXCEPT ![id[h]] = who[h]]
    /\ made' = [made EXCEPT ![h] = ver[id[h]] + 1]
    /\ done' = done \cup {h}
    /\ Written(h)
    /\ UNCHANGED <<row, owner, entry, redis, request, audited>>

FaultyDeletes(h) == step[h] = "delete"                  \* logs without looking at the row
Deletes(h) == step[h] = "delete" /\ row[id[h]] = "live"

\* DELETE, and in the same transaction the trigger's row in deleted_tasks.
RemoveTask(h) ==
    /\ Deletes(h)
    /\ row' = [row EXCEPT ![id[h]] = "gone"]
    /\ entry' = [entry EXCEPT ![id[h]] = @ + 1]
    /\ author' = [author EXCEPT ![id[h]] = who[h]]
    /\ made' = [made EXCEPT ![h] = ver[id[h]]]
    /\ done' = done \cup {h}
    /\ Written(h)
    /\ UNCHANGED <<owner, ver, redis, request, audited>>

\* No row was written: the task is gone since FindById, or the query failed.
WriteFails(h) ==
    /\ step[h] \in {"insert", "update", "delete"}
    /\ DbError \/ (step[h] # "insert" /\ row[id[h]] # "live")
    /\ Answer(h, 500)
    /\ UNCHANGED <<data, redis, request, made, done, audited>>

FaultyRecord(h) == UNCHANGED audited                    \* no record of the change
Record(h) == Audit(h)

AuditChange(h) ==
    /\ step[h] = "record"
    /\ Record(h)
    /\ Goto(h, "publish")
    /\ UNCHANGED <<data, redis, request, made, done>>

Success(h) == IF op[h] = "create" THEN 201 ELSE 200

FaultyOutcome(h) == IF op[h] = "delete" THEN "update" ELSE op[h]    \* no task.deleted
Outcome(h) == op[h]

ToTell(h) == Event(Outcome(h), id[h], made[h])

\* XADD.  Its command waits while Redis is away, and the request with it: retries have
\* no limit (maxRetriesPerRequest null) and the client queues what it cannot send.  An
\* error that Redis answers with is logged only.
PublishEvent(h) ==
    /\ step[h] = "publish" /\ reachable
    /\ \/ told' = [told EXCEPT ![ToTell(h)] = @ + 1]
       \/ "redis_error" \in Faults /\ UNCHANGED told
    /\ Answer(h, Success(h))
    /\ UNCHANGED <<data, doubtful, lost, reachable, request, made, done, audited>>

\* The reply is lost with the connection: the client sends the command again once it is
\* connected.  Bound: MaxLost.
LoseReply(h) ==
    /\ "reply_lost" \in Faults
    /\ step[h] = "publish" /\ reachable
    /\ lost < MaxLost /\ lost' = lost + 1
    /\ told' = [told EXCEPT ![ToTell(h)] = @ + 1]
    /\ doubtful' = doubtful \cup {ToTell(h)}
    /\ reachable' = FALSE
    /\ UNCHANGED <<data, handlers>>

LoseRedis ==
    /\ "redis_down" \in Faults
    /\ reachable /\ reachable' = FALSE
    /\ UNCHANGED <<data, stream, handlers>>

Reconnect ==
    /\ ~reachable /\ reachable' = TRUE
    /\ UNCHANGED <<data, stream, handlers>>

Crash(h) ==
    /\ "crash" \in Faults
    /\ step[h] \notin {"idle", "answered"}
    /\ Answer(h, 0)
    /\ UNCHANGED <<data, redis, request, made, done, audited>>

HandlerStep(h) ==
    \/ FindById(h) \/ InsertTask(h) \/ UpdateTask(h) \/ RemoveTask(h) \/ WriteFails(h)
    \/ AuditChange(h) \/ PublishEvent(h)

Next ==
    \/ \E h \in Handlers :
          \/ \E u \in Users : \/ Call(h, "create", u, NoId)
                              \/ \E o \in Ops \ {"create"}, i \in Ids : Call(h, o, u, i)
          \/ HandlerStep(h)
          \/ LoseReply(h)
          \/ Crash(h)
    \/ LoseRedis
    \/ Reconnect

Spec == Init /\ [][Next]_vars

\* Calls of the database and of a Redis that is connected return.
FairSpec == Spec /\ \A h \in Handlers : WF_vars(HandlerStep(h))

-----------------------------------------------------------------------------
(* Properties *)

\* A task is in the deletion log exactly once if it was deleted, and not before,
\* also when two requests delete it at once (task.controller.js:191-195).
DeletionIsLogged == \A i \in Ids : entry[i] = IF row[i] = "gone" THEN 1 ELSE 0

\* Whoever changed a task last was allowed to, although the check was made on a row
\* read before the change.
OnlyOwnersWrite == \A i \in Ids : row[i] # "none" => author[i] \in Admins \cup {owner[i]}

TellsTheTruth(e) ==
    /\ e.type = "create" => row[e.id] # "none"
    /\ e.type = "update" => e.ver \in 1 .. ver[e.id]
    /\ e.type = "delete" => row[e.id] = "gone" /\ e.ver = ver[e.id]

\* Two requests never announce the same change: an event is on the stream once, unless
\* the reply to its XADD was lost and the client sent it again (redis.js:24-30).
ToldOnce == \A e \in Events : told[e] <= 1 \/ e \in doubtful

\* An event speaks of a change that was made, and one event of each
\* (task.controller.js, the publishEvent of every handler).
EventsAreTrue == ToldOnce /\ \A e \in Events : told[e] > 0 => TellsTheTruth(e)

\* Success is answered exactly to changes that were made and audited, unless the process
\* stopped: none goes unrecorded (audit.js:9-12).  A request that waits for Redis has made
\* its change and left its record all the same.
ChangesAreAudited ==
    \A h \in Handlers :
        /\ step[h] = "answered" /\ op[h] # "read" /\ code[h] # 0 =>
              (code[h] \in {200, 201} <=> h \in done \cap audited)
        /\ step[h] = "publish" => h \in done \cap audited

\* A streaming failure does not break the request (eventStream.js:14-17): every request
\* is answered.  While Redis is away none that changed a task is.
RequestsAreAnswered ==
    \A h \in Handlers : step[h] \notin {"idle", "answered"} ~> step[h] = "answered"

\* The endpoints implement TaskLedger: although the check is made on a row read earlier,
\* every write is one its author may make when it is made, and a deletion and its log
\* row are one step (task.controller.js:12-16, 191-194).
Ledger == INSTANCE TaskLedger

KeepsLedger == Ledger!Spec
=============================================================================
