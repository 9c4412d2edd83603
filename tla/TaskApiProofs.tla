----------------------------- MODULE TaskApiProofs -----------------------------
(***************************************************************************)
(* Theorems about TaskApi for any number of tasks, users and requests.     *)
(***************************************************************************)
EXTENDS TaskApi, TLAPS

\* A request works on its endpoint's steps, and past the look-up it was allowed to:
\* the owner of a task does not change, so the check stays true until the write.
MayWrite ==
    \A h \in Handlers :
        /\ step[h] = "insert" => op[h] = "create"
        /\ step[h] = "find" => op[h] # "create"
        /\ step[h] \in {"update", "delete"} =>
              /\ op[h] = step[h]
              /\ row[id[h]] # "none" /\ CanAccess(who[h], id[h])

\* A write that is still to be announced was made, and is not undone.
WasMade ==
    \A h \in Handlers :
        step[h] \in {"record", "publish"} =>
            /\ op[h] \in {"create", "update", "delete"}
            /\ row[id[h]] # "none"
            /\ op[h] = "update" => made[h] \in 1 .. ver[id[h]]
            /\ op[h] = "delete" => row[id[h]] = "gone" /\ made[h] = ver[id[h]]

Truthful == \A e \in Events : told[e] > 0 => TellsTheTruth(e)

TaskInv == TypeOK /\ DeletionIsLogged /\ MayWrite /\ OnlyOwnersWrite /\ WasMade /\ Truthful

-----------------------------------------------------------------------------
(* Type correctness *)

LEMMA InitTask == Init => TaskInv
<1> SUFFICES ASSUME Init PROVE TaskInv
    OBVIOUS
<1>1. TypeOK
  BY TasksAssumption DEF Init, TypeOK, Ops, Steps
<1>2. DeletionIsLogged /\ OnlyOwnersWrite
  BY DEF Init, DeletionIsLogged, OnlyOwnersWrite
<1>3. MayWrite /\ WasMade
  BY DEF Init, MayWrite, WasMade
<1>4. Truthful
  BY DEF Init, Truthful
<1> QED BY <1>1, <1>2, <1>3, <1>4 DEF TaskInv

\* What a request announces is an event.
LEMMA ToldEvents ==
    ASSUME TaskInv, NEW h \in Handlers, step[h] = "publish"
    PROVE  ToTell(h) \in Events
<1>1. op[h] \in {"create", "update", "delete"} /\ id[h] \in Ids /\ made[h] \in 0 .. MaxUpdates
  BY DEF TaskInv, TypeOK, WasMade
<1> QED BY <1>1 DEF ToTell, Outcome, Event, Events

\* The steps of the endpoints, one by one.
LEMMA StepCases ==
    ASSUME [Next]_vars
    PROVE  \/ \E h \in Handlers : HandlerStep(h) \/ LoseReply(h) \/ Crash(h)
           \/ \E h \in Handlers, o \in Ops, u \in Users, i \in Ids \cup {NoId} :
                 Call(h, o, u, i) /\ (o = "create" \/ i \in Ids)
           \/ UNCHANGED <<data, stream, handlers>> /\ reachable' \in BOOLEAN \cup {reachable}
BY DEF Next, Ops, LoseRedis, Reconnect, vars, redis

LEMMA StepTypes == TaskInv /\ [Next]_vars => TypeOK'
<1> SUFFICES ASSUME TaskInv, [Next]_vars PROVE TypeOK'
    OBVIOUS
<1> USE TasksAssumption DEF TypeOK, Steps, Ops, TaskInv, redis, stream
<1>1. ASSUME NEW h \in Handlers, NEW o \in Ops, NEW u \in Users, NEW i \in Ids \cup {NoId},
             Call(h, o, u, i), o = "create" \/ i \in Ids
      PROVE  TypeOK'
  BY <1>1 DEF Call, FirstStep, data
<1>2. ASSUME NEW h \in Handlers, FindById(h) PROVE TypeOK'
  <2>1. audited' \subseteq Handlers /\ step[h] = "find"
    BY <1>2 DEF FindById, Audit
  <2>2. \/ Answer(h, 404) \/ Answer(h, 200) \/ Answer(h, 400)
        \/ Goto(h, op[h]) /\ op[h] \in {"update", "delete"}
    BY <1>2, <2>1 DEF FindById, MayWrite
  <2> QED BY <1>2, <2>1, <2>2 DEF FindById, Answer, Goto, data, request
<1>3. ASSUME NEW h \in Handlers, InsertTask(h) PROVE TypeOK'
  <2>1. step[h] = "insert" /\ who[h] \in Users /\ Written(h) /\ UNCHANGED <<ver, entry, redis, op, who, audited>>
    BY <1>3 DEF InsertTask
  <2>2. PICK i \in Ids : /\ row' = [row EXCEPT ![i] = "live"]
                         /\ owner' = [owner EXCEPT ![i] = who[h]]
                         /\ author' = [author EXCEPT ![i] = who[h]]
                         /\ id' = [id EXCEPT ![h] = i]
    BY <1>3 DEF InsertTask
  <2>3. made' \in [Handlers -> 0 .. MaxUpdates] /\ done' \subseteq Handlers
    BY <1>3 DEF InsertTask
  <2>4. \/ step' = [step EXCEPT ![h] = "record"] /\ UNCHANGED code
        \/ step' = [step EXCEPT ![h] = "answered"] /\ code' = [code EXCEPT ![h] = 500]
    BY <2>1 DEF Written, Goto, Answer
  <2>5. /\ row' \in [Ids -> {"none", "live", "gone"}]
        /\ owner' \in [Ids -> Users \cup {NoUser}]
        /\ author' \in [Ids -> Users \cup {NoUser}]
    BY <2>1, <2>2
  <2>6. /\ id' \in [Handlers -> Ids \cup {NoId}]
        /\ step' \in [Handlers -> Steps]
        /\ code' \in [Handlers -> {0, 200, 201, 400, 404, 500}]
    BY <2>2, <2>4
  <2>7. \A k \in Handlers : /\ step'[k] # "idle" => who'[k] \in Users
                            /\ step'[k] \notin {"idle", "insert", "answered"} => id'[k] \in Ids
    BY <2>1, <2>2, <2>4
  <2> QED BY <2>1, <2>3, <2>5, <2>6, <2>7
<1>4. ASSUME NEW h \in Handlers, UpdateTask(h) PROVE TypeOK'
  <2>1. /\ step[h] = "update" /\ who[h] \in Users /\ id[h] \in Ids
        /\ ver[id[h]] \in 0 .. MaxUpdates /\ ver[id[h]] + 1 \in 0 .. MaxUpdates
    BY <1>4 DEF UpdateTask
  <2>2. \/ step' = [step EXCEPT ![h] = "record"] /\ UNCHANGED code
        \/ step' = [step EXCEPT ![h] = "answered"] /\ code' = [code EXCEPT ![h] = 500]
    BY <1>4 DEF UpdateTask, Written, Goto, Answer
  <2>3. /\ ver' \in [Ids -> 0 .. MaxUpdates] /\ author' \in [Ids -> Users \cup {NoUser}]
        /\ made' \in [Handlers -> 0 .. MaxUpdates] /\ done' \subseteq Handlers
    BY <1>4, <2>1 DEF UpdateTask
  <2>4. UNCHANGED <<row, owner, entry, redis, op, who, id, audited>>
    BY <1>4 DEF UpdateTask, request
  <2> QED BY <2>1, <2>2, <2>3, <2>4
<1>5. ASSUME NEW h \in Handlers, RemoveTask(h) PROVE TypeOK'
  <2>1. step[h] = "delete" /\ who[h] \in Users /\ id[h] \in Ids
        /\ ver[id[h]] \in 0 .. MaxUpdates /\ entry[id[h]] \in Nat
    BY <1>5 DEF RemoveTask, Deletes
  <2>2. \/ step' = [step EXCEPT ![h] = "record"] /\ UNCHANGED code
        \/ step' = [step EXCEPT ![h] = "answered"] /\ code' = [code EXCEPT ![h] = 500]
    BY <1>5 DEF RemoveTask, Written, Goto, Answer
  <2> QED BY <1>5, <2>1, <2>2 DEF RemoveTask, request
<1>6. ASSUME NEW h \in Handlers, WriteFails(h) PROVE TypeOK'
  BY <1>6 DEF WriteFails, Answer, data, request
<1>7. ASSUME NEW h \in Handlers, AuditChange(h) PROVE TypeOK'
  BY <1>7 DEF AuditChange, Record, Audit, Goto, data, request
<1>8. ASSUME NEW h \in Handlers, PublishEvent(h) PROVE TypeOK'
  <2>1. step[h] = "publish" /\ UNCHANGED <<data, doubtful, lost, reachable, request, made, done, audited>>
    BY <1>8 DEF PublishEvent
  <2>2. told' \in [Events -> Nat]
    BY <1>8, <2>1, ToldEvents DEF PublishEvent
  <2>3. step' = [step EXCEPT ![h] = "answered"] /\ code' = [code EXCEPT ![h] = Success(h)]
    BY <1>8 DEF PublishEvent, Answer
  <2> QED BY <2>1, <2>2, <2>3 DEF Success, data, request
<1>9. ASSUME NEW h \in Handlers, LoseReply(h) PROVE TypeOK'
  <2>1. step[h] = "publish" /\ UNCHANGED <<data, handlers>>
    BY <1>9 DEF LoseReply
  <2>2. told' \in [Events -> Nat] /\ doubtful' \subseteq Events
    BY <1>9, <2>1, ToldEvents DEF LoseReply
  <2>3. lost' = lost + 1 /\ reachable' = FALSE
    BY <1>9 DEF LoseReply
  <2>4. UNCHANGED <<row, owner, ver, entry, author, op, step, who, id, made, code, done, audited>>
    BY <2>1 DEF data, handlers
  <2>5. lost' \in Nat
    BY <2>3
  <2>6. reachable' \in BOOLEAN
    BY <2>3, Zenon
  <2> QED BY <2>2, <2>4, <2>5, <2>6
<1>10. ASSUME NEW h \in Handlers, Crash(h) PROVE TypeOK'
  BY <1>10 DEF Crash, Answer, data, request
<1>11. CASE UNCHANGED <<data, stream, handlers>> /\ reachable' \in BOOLEAN \cup {reachable}
  BY <1>11 DEF data, handlers
<1> HIDE DEF TypeOK, TaskInv, redis, stream
<1>12. ASSUME NEW h \in Handlers, HandlerStep(h) PROVE TypeOK'
  BY <1>2, <1>3, <1>4, <1>5, <1>6, <1>7, <1>8, <1>12 DEF HandlerStep
<1>13. CASE \E h \in Handlers : HandlerStep(h) \/ LoseReply(h) \/ Crash(h)
  BY <1>10, <1>9, <1>12, <1>13
<1>14. CASE \E h \in Handlers, o \in Ops, u \in Users, i \in Ids \cup {NoId} :
               Call(h, o, u, i) /\ (o = "create" \/ i \in Ids)
  BY <1>1, <1>14
<1> QED BY StepCases, <1>11, <1>13, <1>14

-----------------------------------------------------------------------------
(* The tables *)

\* What a step may do to the tables: nothing, one insert, one update or one delete.
LEMMA TableStep ==
    ASSUME [Next]_vars
    PROVE  \/ UNCHANGED data
           \/ \E h \in Handlers : InsertTask(h) \/ UpdateTask(h) \/ RemoveTask(h)
BY DEF Next, HandlerStep, Call, FindById, WriteFails, AuditChange, PublishEvent, LoseReply,
       LoseRedis, Reconnect, Crash, vars

LEMMA StepLog == TaskInv /\ [Next]_vars => DeletionIsLogged'
<1> SUFFICES ASSUME TaskInv, [Next]_vars PROVE DeletionIsLogged'
    OBVIOUS
<1> USE DEF TaskInv, DeletionIsLogged
<1>1. ASSUME NEW h \in Handlers, InsertTask(h) PROVE DeletionIsLogged'
  BY <1>1 DEF InsertTask, TypeOK
<1>2. ASSUME NEW h \in Handlers, UpdateTask(h) PROVE DeletionIsLogged'
  BY <1>2 DEF UpdateTask
<1>3. ASSUME NEW h \in Handlers, RemoveTask(h) PROVE DeletionIsLogged'
  <2>1. id[h] \in Ids /\ entry[id[h]] = 0
    BY <1>3 DEF RemoveTask, Deletes, TypeOK
  <2> QED BY <1>3, <2>1 DEF RemoveTask, TypeOK
<1>4. CASE UNCHANGED data
  BY <1>4 DEF data
<1> QED BY <1>1, <1>2, <1>3, <1>4, TableStep

\* Rows do not vanish, and keep their owner.
LEMMA RowsStay ==
    ASSUME TaskInv, [Next]_vars, NEW i \in Ids, row[i] # "none"
    PROVE  row'[i] # "none" /\ owner'[i] = owner[i]
<1>1. ASSUME NEW h \in Handlers, InsertTask(h) PROVE row'[i] # "none" /\ owner'[i] = owner[i]
  BY <1>1 DEF InsertTask, TaskInv, TypeOK
<1>2. ASSUME NEW h \in Handlers, UpdateTask(h) \/ RemoveTask(h)
      PROVE  row'[i] # "none" /\ owner'[i] = owner[i]
  BY <1>2 DEF UpdateTask, RemoveTask, TaskInv, TypeOK
<1>3. CASE UNCHANGED data
  BY <1>3 DEF data
<1> QED BY <1>1, <1>2, <1>3, TableStep

LEMMA StepMayWrite == TaskInv /\ [Next]_vars => MayWrite'
<1> SUFFICES ASSUME TaskInv, [Next]_vars PROVE MayWrite'
    OBVIOUS
<1> USE DEF TaskInv, MayWrite, TypeOK
<1>1. \A i \in Ids : row[i] # "none" => row'[i] # "none" /\ owner'[i] = owner[i]
  BY RowsStay
\* A request whose own step this is not, and that does not change, keeps its right.
<1>2. ASSUME NEW h \in Handlers, op'[h] = op[h], who'[h] = who[h], id'[h] = id[h],
             step[h] = step'[h]
      PROVE  /\ step'[h] = "insert" => op'[h] = "create"
             /\ step'[h] = "find" => op'[h] # "create"
             /\ step'[h] \in {"update", "delete"} =>
                   /\ op'[h] = step'[h]
                   /\ row'[id'[h]] # "none" /\ CanAccess(who[h], id[h])'
  BY <1>1, <1>2 DEF CanAccess
<1>3. ASSUME NEW h \in Handlers, NEW o \in Ops, NEW u, NEW i, Call(h, o, u, i) PROVE MayWrite'
  BY <1>2, <1>3 DEF Call, FirstStep, Ops
<1>4. ASSUME NEW h \in Handlers, FindById(h) PROVE MayWrite'
  <2>1. /\ id[h] \in Ids /\ UNCHANGED <<data, request>>
        /\ \/ step' = [step EXCEPT ![h] = "answered"]
           \/ /\ step' = [step EXCEPT ![h] = op[h]] /\ op[h] \in {"update", "delete"}
              /\ row[id[h]] = "live" /\ CanAccess(who[h], id[h])
    BY <1>4 DEF FindById, Answer, Goto, Ops
  <2> QED BY <2>1 DEF data, request, CanAccess
<1>5. ASSUME NEW h \in Handlers, step[h] \in {"insert", "update", "delete", "record", "publish"},
             \/ step' = [step EXCEPT ![h] = "record"]
             \/ step' = [step EXCEPT ![h] = "publish"]
             \/ step' = [step EXCEPT ![h] = "answered"],
             UNCHANGED <<op, who>>,
             \A k \in Handlers : k # h => id'[k] = id[k]
      PROVE  MayWrite'
  BY <1>2, <1>5
<1>6. ASSUME NEW h \in Handlers, InsertTask(h) PROVE MayWrite'
  BY <1>5, <1>6 DEF InsertTask, Written, Goto, Answer
<1>7. ASSUME NEW h \in Handlers, UpdateTask(h) \/ RemoveTask(h) \/ WriteFails(h) PROVE MayWrite'
  BY <1>5, <1>7 DEF UpdateTask, RemoveTask, Deletes, WriteFails, Written, Goto, Answer, request
<1>8. ASSUME NEW h \in Handlers, AuditChange(h) \/ PublishEvent(h) PROVE MayWrite'
  BY <1>5, <1>8 DEF AuditChange, PublishEvent, Goto, Answer, request
<1>9. ASSUME NEW h \in Handlers, Crash(h) PROVE MayWrite'
  BY <1>2, <1>9 DEF Crash, Answer, request
<1>10. CASE UNCHANGED handlers
  BY <1>2, <1>10 DEF handlers
<1> QED BY <1>3, <1>4, <1>6, <1>7, <1>8, <1>9, <1>10
        DEF Next, HandlerStep, Ops, LoseReply, LoseRedis, Reconnect, vars

LEMMA StepOwners == TaskInv /\ [Next]_vars => OnlyOwnersWrite'
<1> SUFFICES ASSUME TaskInv, [Next]_vars PROVE OnlyOwnersWrite'
    OBVIOUS
<1> USE DEF TaskInv, OnlyOwnersWrite, TypeOK
<1>1. ASSUME NEW h \in Handlers, InsertTask(h) PROVE OnlyOwnersWrite'
  BY <1>1 DEF InsertTask
<1>2. ASSUME NEW h \in Handlers, UpdateTask(h) \/ RemoveTask(h) PROVE OnlyOwnersWrite'
  <2>1. id[h] \in Ids /\ who[h] \in Admins \cup {owner[id[h]]}
    BY <1>2 DEF UpdateTask, RemoveTask, Deletes, MayWrite, CanAccess
  <2>2. UNCHANGED owner /\ author' = [author EXCEPT ![id[h]] = who[h]]
        /\ \A i \in Ids : row'[i] # "none" => i = id[h] \/ row[i] # "none"
    BY <1>2 DEF UpdateTask, RemoveTask
  <2> QED BY <2>1, <2>2
<1>3. CASE UNCHANGED data
  BY <1>3 DEF data
<1> QED BY <1>1, <1>2, <1>3, TableStep
-----------------------------------------------------------------------------
(* The events *)

\* A version is never undone, and a deleted task is not touched again.
LEMMA ChangesStay ==
    ASSUME TaskInv, [Next]_vars, NEW i \in Ids
    PROVE  /\ ver[i] \in Nat /\ ver'[i] \in Nat /\ ver[i] <= ver'[i]
           /\ row[i] = "gone" => row'[i] = "gone" /\ ver'[i] = ver[i]
<1> USE DEF TaskInv, TypeOK
<1>1. ASSUME NEW h \in Handlers, UpdateTask(h)
      PROVE  /\ ver[i] \in Nat /\ ver'[i] \in Nat /\ ver[i] <= ver'[i]
             /\ row[i] = "gone" => row'[i] = "gone" /\ ver'[i] = ver[i]
  <2>1. /\ id[h] \in Ids /\ row[id[h]] = "live" /\ UNCHANGED row
        /\ ver' = [ver EXCEPT ![id[h]] = @ + 1]
    BY <1>1 DEF UpdateTask
  <2> QED BY <2>1
<1>2. ASSUME NEW h \in Handlers, InsertTask(h) \/ RemoveTask(h)
      PROVE  UNCHANGED ver /\ (row[i] = "gone" => row'[i] = "gone")
  BY <1>2 DEF InsertTask, RemoveTask
<1>3. CASE UNCHANGED data
  BY <1>3 DEF data
<1> QED BY <1>1, <1>2, <1>3, TableStep

\* What WasMade says of one request.
MadeBy(h) ==
    /\ op[h] \in {"create", "update", "delete"}
    /\ row[id[h]] # "none"
    /\ op[h] = "update" => made[h] \in 1 .. ver[id[h]]
    /\ op[h] = "delete" => row[id[h]] = "gone" /\ made[h] = ver[id[h]]

LEMMA MadeStays ==
    ASSUME TaskInv, [Next]_vars, NEW h \in Handlers, id[h] \in Ids, MadeBy(h),
           op'[h] = op[h], id'[h] = id[h], made'[h] = made[h]
    PROVE  MadeBy(h)'
<1>1. row'[id[h]] # "none"
  BY RowsStay DEF MadeBy
<1>2. op[h] = "update" => made[h] \in 1 .. ver'[id[h]]
  BY ChangesStay DEF MadeBy, TaskInv, TypeOK
<1>3. op[h] = "delete" => row'[id[h]] = "gone" /\ made[h] = ver'[id[h]]
  BY ChangesStay DEF MadeBy
<1> QED BY <1>1, <1>2, <1>3 DEF MadeBy

LEMMA StepWasMade == TaskInv /\ [Next]_vars => WasMade'
<1> SUFFICES ASSUME TaskInv, [Next]_vars, NEW h \in Handlers, step'[h] \in {"record", "publish"}
             PROVE  MadeBy(h)'
    BY DEF WasMade, MadeBy
<1> USE DEF TaskInv, TypeOK
<1>1. CASE InsertTask(h)
  <2>1. /\ op'[h] = "create" /\ id'[h] \in Ids /\ row'[id'[h]] = "live"
    BY <1>1 DEF InsertTask, MayWrite
  <2> QED BY <2>1 DEF MadeBy
<1>2. CASE UpdateTask(h)
  <2>1. /\ op'[h] = "update" /\ id'[h] = id[h] /\ id[h] \in Ids /\ row'[id[h]] = "live"
        /\ ver[id[h]] \in Nat /\ ver'[id[h]] = ver[id[h]] + 1 /\ made'[h] = ver[id[h]] + 1
    BY <1>2 DEF UpdateTask, MayWrite, request
  <2> QED BY <2>1 DEF MadeBy
<1>3. CASE RemoveTask(h)
  <2>1. /\ op'[h] = "delete" /\ id'[h] = id[h] /\ id[h] \in Ids /\ row'[id[h]] = "gone"
        /\ ver' = ver /\ made'[h] = ver[id[h]]
    BY <1>3 DEF RemoveTask, Deletes, MayWrite, request
  <2> QED BY <2>1 DEF MadeBy
<1>4. ASSUME step[h] \in {"record", "publish"}, op'[h] = op[h], id'[h] = id[h], made'[h] = made[h]
      PROVE  MadeBy(h)'
  <2>1. MadeBy(h) /\ id[h] \in Ids
    BY <1>4 DEF WasMade, MadeBy
  <2> QED BY <1>4, <2>1, MadeStays
<1>5. ASSUME NEW k \in Handlers, k # h, InsertTask(k) \/ UpdateTask(k) \/ RemoveTask(k)
      PROVE  MadeBy(h)'
  <2>1. step[h] = step'[h] /\ op'[h] = op[h] /\ id'[h] = id[h] /\ made'[h] = made[h]
    BY <1>5 DEF InsertTask, UpdateTask, RemoveTask, Written, Goto, Answer, request
  <2> QED BY <1>4, <2>1
<1>6. ASSUME NEW k \in Handlers,
             \/ FindById(k) \/ WriteFails(k) \/ AuditChange(k) \/ PublishEvent(k) \/ Crash(k)
      PROVE  MadeBy(h)'
  <2>1. UNCHANGED <<op, id, made>>
    BY <1>6 DEF FindById, WriteFails, AuditChange, PublishEvent, Crash, request
  <2>2. step[h] \in {"record", "publish"}
    BY <1>6 DEF FindById, WriteFails, AuditChange, PublishEvent, Crash, Goto, Answer, Ops, MayWrite
  <2> QED BY <1>4, <2>1, <2>2
<1>7. ASSUME NEW k \in Handlers, NEW o, NEW u, NEW i, Call(k, o, u, i) PROVE MadeBy(h)'
  <2>1. k # h
    BY <1>7 DEF Call, FirstStep
  <2> QED BY <1>4, <1>7, <2>1 DEF Call
<1>8. CASE UNCHANGED handlers
  BY <1>4, <1>8 DEF handlers
<1> QED BY <1>1, <1>2, <1>3, <1>5, <1>6, <1>7, <1>8
        DEF Next, HandlerStep, LoseReply, LoseRedis, Reconnect, vars

LEMMA StepEvents == TaskInv /\ [Next]_vars => Truthful'
<1> SUFFICES ASSUME TaskInv, [Next]_vars, NEW e \in Events, told'[e] > 0 PROVE TellsTheTruth(e)'
    BY DEF Truthful
<1> USE DEF TaskInv, TellsTheTruth
<1>1. CASE told[e] > 0
  <2>1. e.id \in Ids /\ e.ver \in 0 .. MaxUpdates
    BY DEF Events
  <2>2. TellsTheTruth(e)
    BY <1>1 DEF Truthful
  <2> QED BY <2>1, <2>2, RowsStay, ChangesStay
<1>2. ASSUME NEW h \in Handlers, PublishEvent(h) \/ LoseReply(h), e = ToTell(h)
      PROVE  TellsTheTruth(e)'
  <2>1. step[h] = "publish" /\ UNCHANGED <<row, ver>>
    BY <1>2 DEF PublishEvent, LoseReply, data
  <2> QED BY <1>2, <2>1 DEF WasMade, ToTell, Outcome, Event
<1>3. told'[e] = told[e] \/ \E h \in Handlers : (PublishEvent(h) \/ LoseReply(h)) /\ e = ToTell(h)
  <2>1. ASSUME NEW h \in Handlers, PublishEvent(h) \/ LoseReply(h), e # ToTell(h)
        PROVE  told'[e] = told[e]
    BY <2>1 DEF PublishEvent, LoseReply, TypeOK
  <2>2. ASSUME UNCHANGED redis PROVE told'[e] = told[e]
    BY <2>2 DEF redis, stream
  <2>3. CASE LoseRedis \/ Reconnect
    BY <2>3 DEF LoseRedis, Reconnect, stream
  <2> QED BY <2>1, <2>2, <2>3
          DEF Next, HandlerStep, Call, FindById, InsertTask, UpdateTask, RemoveTask, WriteFails,
              AuditChange, Crash, vars
<1> QED BY <1>1, <1>2, <1>3

-----------------------------------------------------------------------------
(* Theorems *)

\* Types, permissions, log and announcements together are preserved by every step of any
\* number of handlers.
THEOREM TaskInvariant == Spec => []TaskInv
<1>1. TaskInv /\ [Next]_vars => TaskInv'
  BY StepTypes, StepLog, StepMayWrite, StepOwners, StepWasMade, StepEvents DEF TaskInv
<1> QED BY <1>1, InitTask, PTL DEF Spec

\* Rows, requests and events stay well typed: a request past its look-up has a user
\* and a task, and every answer is one of the six the controller gives.
THEOREM TaskTypes == Spec => []TypeOK
<1>1. TaskInv => TypeOK
  BY DEF TaskInv
<1> QED BY <1>1, TaskInvariant, PTL

\* Through concurrent deletes, failing queries and crashes the deletion log has
\* exactly one row for every deleted task, and none for the others.
THEOREM DeletionsLogged == Spec => []DeletionIsLogged
BY TaskInvariant, PTL DEF TaskInv

\* However the requests interleave between check and write, whoever changed a task
\* last owned it or was an admin.
THEOREM OwnersWrite == Spec => []OnlyOwnersWrite
BY TaskInvariant, PTL DEF TaskInv

-----------------------------------------------------------------------------
(* Every step is a step of TaskLedger, or none. *)

LEMMA StepLedger == TaskInv /\ [Next]_vars => [Ledger!Next]_Ledger!ledgerVars
<1> SUFFICES ASSUME TaskInv, [Next]_vars PROVE [Ledger!Next]_Ledger!ledgerVars
    OBVIOUS
<1> USE DEF TaskInv, TypeOK
<1>1. ASSUME NEW h \in Handlers, InsertTask(h) PROVE Ledger!Next
  <2>1. who[h] \in Users
    BY <1>1 DEF InsertTask
  <2>2. \E i \in Ids : Ledger!Create(who[h], i)
    BY <1>1 DEF InsertTask, Ledger!Create, Ledger!By
  <2> QED BY <2>1, <2>2 DEF Ledger!Next
<1>2. ASSUME NEW h \in Handlers, UpdateTask(h) PROVE Ledger!Next
  <2>1. who[h] \in Users /\ id[h] \in Ids /\ Ledger!May(who[h], id[h])
    BY <1>2 DEF UpdateTask, MayWrite, CanAccess, Ledger!May
  <2>2. Ledger!Update(who[h], id[h])
    BY <1>2, <2>1 DEF UpdateTask, Ledger!Update, Ledger!By
  <2> QED BY <2>1, <2>2 DEF Ledger!Next
<1>3. ASSUME NEW h \in Handlers, RemoveTask(h) PROVE Ledger!Next
  <2>1. who[h] \in Users /\ id[h] \in Ids /\ Ledger!May(who[h], id[h])
    BY <1>3 DEF RemoveTask, Deletes, MayWrite, CanAccess, Ledger!May
  <2>2. Ledger!Delete(who[h], id[h])
    BY <1>3, <2>1 DEF RemoveTask, Ledger!Delete, Ledger!By
  <2> QED BY <2>1, <2>2 DEF Ledger!Next
<1> QED BY <1>1, <1>2, <1>3, TableStep DEF data, Ledger!ledgerVars

\* For any tasks, users, requests and faults the endpoints behave like TaskLedger: the
\* gap between check and write is not seen.
THEOREM ImplementsLedger == Spec => KeepsLedger
<1>1. Init => Ledger!Init
  BY DEF Init, Ledger!Init
<1> QED BY <1>1, StepLedger, TaskInvariant, PTL DEF Spec, KeepsLedger, Ledger!Spec

-----------------------------------------------------------------------------
(***************************************************************************)
(* Changes and records.  A request changes data before it leaves a record, *)
(* and both before it is answered success.                                 *)
(***************************************************************************)
AuditInOrder ==
    \A h \in Handlers :
        /\ step[h] \in {"find", "insert", "update", "delete"} => h \notin done \cup audited
        /\ step[h] = "record" => h \in done \ audited
        /\ step[h] = "publish" => h \in done \cap audited

AuditInv == AuditInOrder /\ ChangesAreAudited

LEMMA StepAudit == TaskInv /\ AuditInv /\ [Next]_vars => AuditInv'
<1> SUFFICES ASSUME TaskInv, AuditInv, [Next]_vars PROVE AuditInv'
    OBVIOUS
<1> USE DEF AuditInv, AuditInOrder, ChangesAreAudited, request
<1> DEFINE InOrder(h) ==
             /\ step[h] \in {"find", "insert", "update", "delete"} => h \notin done \cup audited
             /\ step[h] = "record" => h \in done \ audited
             /\ step[h] = "publish" => h \in done \cap audited
             /\ step[h] = "answered" /\ op[h] # "read" /\ code[h] # 0 =>
                   (code[h] \in {200, 201} <=> h \in done \cap audited)
           Apart(h) == \A g \in Handlers \ {h} :
                         /\ step'[g] = step[g] /\ op'[g] = op[g] /\ code'[g] = code[g]
                         /\ g \in done' <=> g \in done
                         /\ g \in audited' <=> g \in audited
<1>0. /\ step \in [Handlers -> Steps] /\ op \in [Handlers -> Ops]
      /\ code \in [Handlers -> {0, 200, 201, 400, 404, 500}]
  BY DEF TaskInv, TypeOK
<1>a. ASSUME NEW h \in Handlers, Apart(h), InOrder(h)' PROVE AuditInv'
  BY <1>a
<1>1. ASSUME NEW h \in Handlers, NEW o \in Ops, NEW u, NEW i, Call(h, o, u, i) PROVE AuditInv'
  <2>1. Apart(h)
    BY <1>0, <1>1 DEF Call
  <2>2. InOrder(h)'
    BY <1>0, <1>1 DEF Call, FirstStep
  <2> QED BY <1>a, <2>1, <2>2
<1>2. ASSUME NEW h \in Handlers, FindById(h) PROVE AuditInv'
  <2>1. /\ step[h] = "find" /\ h \notin done \cup audited
        /\ UNCHANGED <<op, done>>
        /\ audited' = audited \/ audited' = audited \cup {h}
    BY <1>2 DEF FindById, Audit
  <2>2. \/ step' = [step EXCEPT ![h] = "answered"] /\ \E c : code' = [code EXCEPT ![h] = c]
        \/ /\ step' = [step EXCEPT ![h] = op[h]] /\ UNCHANGED <<code, audited>>
           /\ op[h] \in {"update", "delete"}
    BY <1>2, <2>1 DEF FindById, Goto, Answer, TaskInv, MayWrite, Ops, TypeOK
  <2>3. op[h] # "read" => \/ step'[h] = "answered" /\ code'[h] \in {400, 404}
                          \/ step'[h] = op[h] /\ UNCHANGED audited
    BY <1>0, <1>2, <2>1 DEF FindById, Goto, Answer
  <2>4. Apart(h)
    BY <1>0, <2>1, <2>2
  <2>5. InOrder(h)'
    <3>1. CASE /\ step' = [step EXCEPT ![h] = "answered"]
               /\ \E c : code' = [code EXCEPT ![h] = c]
      BY <1>0, <2>1, <2>3, <3>1 DEF Ops
    <3>2. CASE /\ step' = [step EXCEPT ![h] = op[h]] /\ UNCHANGED <<code, audited>>
               /\ op[h] \in {"update", "delete"}
      BY <1>0, <2>1, <3>2
    <3> QED BY <2>2, <3>1, <3>2
  <2> QED BY <1>a, <2>4, <2>5
<1>3. ASSUME NEW h \in Handlers, InsertTask(h) \/ UpdateTask(h) \/ RemoveTask(h) PROVE AuditInv'
  <2>1. /\ step[h] \in {"insert", "update", "delete"} /\ h \notin audited
        /\ UNCHANGED <<op, audited>> /\ done' = done \cup {h}
        /\ \/ step' = [step EXCEPT ![h] = "record"] /\ UNCHANGED code
           \/ step' = [step EXCEPT ![h] = "answered"] /\ code' = [code EXCEPT ![h] = 500]
    BY <1>3 DEF InsertTask, UpdateTask, RemoveTask, Deletes, Written, Goto, Answer
  <2> QED BY <1>0, <1>a, <2>1
<1>4. ASSUME NEW h \in Handlers, WriteFails(h) PROVE AuditInv'
  <2>1. /\ h \notin done \cup audited /\ UNCHANGED <<op, done, audited>>
        /\ step' = [step EXCEPT ![h] = "answered"] /\ code' = [code EXCEPT ![h] = 500]
    BY <1>4 DEF WriteFails, Answer
  <2> QED BY <1>0, <1>a, <2>1
<1>5. ASSUME NEW h \in Handlers, AuditChange(h) PROVE AuditInv'
  <2>1. /\ h \in done /\ audited' = audited \cup {h} /\ UNCHANGED <<op, done, code>>
        /\ step' = [step EXCEPT ![h] = "publish"]
    BY <1>5 DEF AuditChange, Record, Audit, Goto
  <2> QED BY <1>0, <1>a, <2>1
<1>6. ASSUME NEW h \in Handlers, PublishEvent(h) PROVE AuditInv'
  <2>1. /\ h \in done \cap audited /\ UNCHANGED <<op, done, audited>>
        /\ step' = [step EXCEPT ![h] = "answered"] /\ code' = [code EXCEPT ![h] = Success(h)]
    BY <1>6 DEF PublishEvent, Answer
  <2> QED BY <1>0, <1>a, <2>1 DEF Success
<1>7. ASSUME NEW h \in Handlers, Crash(h) PROVE AuditInv'
  <2>1. /\ UNCHANGED <<op, done, audited>>
        /\ step' = [step EXCEPT ![h] = "answered"] /\ code' = [code EXCEPT ![h] = 0]
    BY <1>7 DEF Crash, Answer
  <2> QED BY <1>0, <1>a, <2>1
<1>8. CASE UNCHANGED handlers
  BY <1>8 DEF handlers
<1> QED BY <1>1, <1>2, <1>3, <1>4, <1>5, <1>6, <1>7, <1>8
        DEF Next, HandlerStep, Ops, LoseReply, LoseRedis, Reconnect, vars

\* Success is answered exactly to the changes that were made and recorded, through
\* failing queries, outages of Redis and any interleaving (audit.js:9-12), and a request
\* that waits for Redis is recorded before it waits.
THEOREM ChangesAudited == Spec => []ChangesAreAudited
<1>1. Init => AuditInv
  BY DEF Init, AuditInv, AuditInOrder, ChangesAreAudited
<1>2. TaskInv /\ AuditInv /\ [Next]_vars => AuditInv'
  BY StepAudit
<1>3. AuditInv => ChangesAreAudited
  BY DEF AuditInv
<1> QED BY <1>1, <1>2, <1>3, TaskInvariant, PTL DEF Spec

-----------------------------------------------------------------------------
(***************************************************************************)
(* Consequences for readers of the tables and of the stream.               *)
(***************************************************************************)
\* A deleted task takes no more changes, not even one whose check was made before it
\* was deleted, and no task changes hands (task.controller.js:12-16).
DeletedIsFinal ==
    [][\A i \in Ids : /\ row[i] = "gone" => /\ row'[i] = "gone" /\ ver'[i] = ver[i]
                                            /\ entry'[i] = entry[i] /\ author'[i] = author[i]
                      /\ row[i] # "none" => owner'[i] = owner[i]]_vars

\* For any requests and faults: what a deletion leaves nobody writes to.
THEOREM DeletedTasksRest == Spec => DeletedIsFinal
<1> DEFINE Rest(i) == /\ row[i] = "gone" => /\ row'[i] = "gone" /\ ver'[i] = ver[i]
                                            /\ entry'[i] = entry[i] /\ author'[i] = author[i]
                      /\ row[i] # "none" => owner'[i] = owner[i]
<1>1. TaskInv /\ [Next]_vars => \A i \in Ids : Rest(i)
  <2> SUFFICES ASSUME TaskInv, [Next]_vars, NEW i \in Ids PROVE Rest(i)
      OBVIOUS
  <2>1. ASSUME NEW h \in Handlers, InsertTask(h) \/ UpdateTask(h) \/ RemoveTask(h),
               row[i] = "gone"
        PROVE  entry'[i] = entry[i] /\ author'[i] = author[i]
    BY <2>1 DEF InsertTask, UpdateTask, RemoveTask, Deletes, TaskInv, TypeOK
  <2>2. row[i] = "gone" => entry'[i] = entry[i] /\ author'[i] = author[i]
    BY <2>1, TableStep DEF data
  <2> QED BY <2>2, RowsStay, ChangesStay
<1>2. TaskInv /\ [Next]_vars => [\A i \in Ids : Rest(i)]_vars
  BY <1>1
<1> QED BY <1>2, TaskInvariant, PTL DEF Spec, DeletedIsFinal

Telling == {h \in Handlers : step[h] \in {"record", "publish"}}

\* What a request is to announce nobody has announced, but perhaps the request itself, and
\* nobody else is to, since no two requests write the same version of a task.
NewsIsOwn ==
    \A h \in Telling : /\ told[ToTell(h)] = 0 \/ ToTell(h) \in doubtful
                       /\ \A g \in Telling \ {h} : ToTell(g) # ToTell(h)

LEMMA TellingEvents ==
    ASSUME TaskInv, NEW h \in Telling
    PROVE  h \in Handlers /\ ToTell(h) \in Events
<1>1. h \in Handlers /\ step[h] \in {"record", "publish"}
  BY DEF Telling
<1>2. op[h] \in {"create", "update", "delete"} /\ id[h] \in Ids /\ made[h] \in 0 .. MaxUpdates
  BY <1>1 DEF TaskInv, TypeOK, WasMade
<1> QED BY <1>1, <1>2 DEF ToTell, Outcome, Event, Events

\* What a request that writes is to announce is new.
LEMMA NewsIsNew ==
    ASSUME TaskInv, TypeOK', NEW h \in Handlers, InsertTask(h) \/ UpdateTask(h) \/ RemoveTask(h)
    PROVE  /\ told[ToTell(h)'] = 0
           /\ \A g \in Telling \ {h} : ToTell(g) # ToTell(h)'
<1> USE DEF TaskInv, TypeOK, ToTell, Outcome, Event, Telling, WasMade
<1>1. ASSUME op'[h] \in {"create", "update", "delete"}, id'[h] \in Ids, ~TellsTheTruth(ToTell(h)')
      PROVE  told[ToTell(h)'] = 0
  <2>1. ToTell(h)' \in Events
    BY <1>1 DEF Events
  <2>2. told[ToTell(h)'] \in Nat
    BY <2>1
  <2> QED BY <1>1, <2>1, <2>2 DEF Truthful
<1>2. CASE InsertTask(h)
  <2>1. op'[h] = "create" /\ id'[h] \in Ids /\ row[id'[h]] = "none"
    BY <1>2 DEF InsertTask, MayWrite
  <2>2. ~TellsTheTruth(ToTell(h)')
    BY <2>1 DEF TellsTheTruth
  <2>3. \A g \in Telling \ {h} : ToTell(g) # ToTell(h)'
    BY <2>1
  <2> QED BY <1>1, <2>1, <2>2, <2>3
<1>3. CASE UpdateTask(h)
  <2>1. /\ op'[h] = "update" /\ id'[h] \in Ids /\ ver[id'[h]] \in Nat
        /\ made'[h] = ver[id'[h]] + 1
    BY <1>3 DEF UpdateTask, MayWrite, request
  <2>2. made'[h] \notin 1 .. ver[id'[h]]
    BY <2>1
  <2>3. ~TellsTheTruth(ToTell(h)')
    BY <2>1, <2>2 DEF TellsTheTruth
  <2>4. \A g \in Telling \ {h} : ToTell(g) # ToTell(h)'
    BY <2>1, <2>2
  <2> QED BY <1>1, <2>1, <2>3, <2>4
<1>4. CASE RemoveTask(h)
  <2>1. op'[h] = "delete" /\ id'[h] \in Ids /\ row[id'[h]] = "live"
    BY <1>4 DEF RemoveTask, Deletes, MayWrite, request
  <2>2. ~TellsTheTruth(ToTell(h)')
    BY <2>1 DEF TellsTheTruth
  <2>3. \A g \in Telling \ {h} : ToTell(g) # ToTell(h)'
    BY <2>1
  <2> QED BY <1>1, <2>1, <2>2, <2>3
<1> QED BY <1>2, <1>3, <1>4

LEMMA StepNews ==
    TaskInv /\ ToldOnce /\ NewsIsOwn /\ [Next]_vars => ToldOnce' /\ NewsIsOwn'
<1> SUFFICES ASSUME TaskInv, ToldOnce, NewsIsOwn, [Next]_vars PROVE ToldOnce' /\ NewsIsOwn'
    OBVIOUS
<1> DEFINE Kept == ToldOnce' /\ NewsIsOwn'
\* A step that publishes nothing and writes nothing adds nothing to announce.
<1>1. ASSUME UNCHANGED <<told, doubtful>>, Telling' \subseteq Telling,
             \A g \in Telling' : ToTell(g)' = ToTell(g)
      PROVE  Kept
  BY <1>1 DEF ToldOnce, NewsIsOwn
<1>2. ASSUME NEW h \in Handlers, InsertTask(h) \/ UpdateTask(h) \/ RemoveTask(h) PROVE Kept
  <2>1. /\ UNCHANGED <<told, doubtful>> /\ Telling' \subseteq Telling \cup {h}
        /\ \A g \in Telling' \ {h} : ToTell(g)' = ToTell(g)
    BY <1>2 DEF InsertTask, UpdateTask, RemoveTask, Deletes, Written, Goto, Answer, request,
                Telling, ToTell, Outcome, Event, redis, stream, TaskInv, TypeOK
  <2>2. TypeOK'
    BY StepTypes
  <2> QED BY <1>2, <2>1, <2>2, NewsIsNew DEF ToldOnce, NewsIsOwn
<1>3. ASSUME NEW h \in Handlers, PublishEvent(h) PROVE Kept
  <2>1. /\ h \in Telling /\ Telling' = Telling \ {h} /\ doubtful' = doubtful
        /\ \A g \in Telling' : ToTell(g)' = ToTell(g)
        /\ told' = told \/ told' = [told EXCEPT ![ToTell(h)] = @ + 1]
    BY <1>3 DEF PublishEvent, Answer, request, Telling, ToTell, Outcome, Event, TaskInv, TypeOK
  <2>2. ToTell(h) \in Events /\ told \in [Events -> Nat]
    BY <2>1, TellingEvents DEF TaskInv, TypeOK
  <2>3. ToldOnce'
    BY <2>1, <2>2 DEF ToldOnce, NewsIsOwn
  <2>4. \A g \in Telling' : ToTell(g) \in Events /\ told'[ToTell(g)] = told[ToTell(g)]
    BY <2>1, <2>2, TellingEvents DEF NewsIsOwn
  <2> QED BY <2>1, <2>3, <2>4 DEF NewsIsOwn
<1>4. ASSUME NEW h \in Handlers, LoseReply(h) PROVE Kept
  <2>1. /\ h \in Telling /\ Telling' = Telling /\ doubtful' = doubtful \cup {ToTell(h)}
        /\ \A g \in Handlers : ToTell(g)' = ToTell(g)
        /\ told' = [told EXCEPT ![ToTell(h)] = @ + 1]
    BY <1>4 DEF LoseReply, handlers, Telling, ToTell, Outcome, Event
  <2>2. ToTell(h) \in Events /\ told \in [Events -> Nat]
    BY <2>1, TellingEvents DEF TaskInv, TypeOK
  <2>3. ToldOnce'
    BY <2>1, <2>2 DEF ToldOnce
  <2>4. \A g \in Telling : /\ ToTell(g)' = ToTell(g) /\ ToTell(g) \in Events
                           /\ g # h => told'[ToTell(g)] = told[ToTell(g)]
    BY <2>1, <2>2, TellingEvents DEF NewsIsOwn
  <2> QED BY <2>1, <2>3, <2>4 DEF NewsIsOwn
<1>5. ASSUME NEW h \in Handlers, FindById(h) \/ WriteFails(h) \/ AuditChange(h) \/ Crash(h)
      PROVE  Kept
  <2>1. Telling' \subseteq Telling
    BY <1>5 DEF FindById, WriteFails, AuditChange, Crash, Goto, Answer, Telling, MayWrite, Ops,
                TaskInv, TypeOK
  <2>2. UNCHANGED <<told, doubtful, op, id, made>>
    BY <1>5 DEF FindById, WriteFails, AuditChange, Crash, request, redis, stream
  <2>3. \A g \in Telling' : ToTell(g)' = ToTell(g)
    BY <2>1, <2>2 DEF ToTell, Outcome, Event
  <2> QED BY <1>1, <2>1, <2>2, <2>3
<1>6. ASSUME NEW h \in Handlers, NEW o, NEW u, NEW i, Call(h, o, u, i) PROVE Kept
  <2>1. Telling' \subseteq Telling \ {h} /\ UNCHANGED <<told, doubtful>>
    BY <1>6 DEF Call, FirstStep, Telling, redis, stream, TaskInv, TypeOK
  <2>2. \A g \in Telling' : ToTell(g)' = ToTell(g)
    BY <1>6, <2>1 DEF Call, Telling, ToTell, Outcome, Event, TaskInv, TypeOK
  <2> QED BY <1>1, <2>1, <2>2
<1>7. ASSUME UNCHANGED <<data, stream, handlers>> PROVE Kept
  BY <1>1, <1>7 DEF stream, handlers, Telling, ToTell, Outcome, Event
<1> HIDE DEF Kept
<1>8. ASSUME NEW h \in Handlers, HandlerStep(h) PROVE Kept
  BY <1>2, <1>3, <1>5, <1>8 DEF HandlerStep
<1>9. ASSUME \E h \in Handlers : HandlerStep(h) \/ LoseReply(h) \/ Crash(h) PROVE Kept
  BY <1>4, <1>5, <1>8, <1>9
<1>10. ASSUME NEW h \in Handlers,
              \E o \in Ops, u \in Users, i \in Ids \cup {NoId} : Call(h, o, u, i)
       PROVE  Kept
  BY <1>6, <1>10
<1>11. Kept
  BY StepCases, <1>7, <1>9, <1>10
<1> QED BY <1>11 DEF Kept

\* However requests interleave and fail, and Redis comes and goes, no two of them announce
\* the same change; an event is on the stream twice only if the reply to its XADD was lost
\* (task.controller.js, the publishEvent of each handler; redis.js:24-30).
THEOREM NoEventTwice == Spec => []ToldOnce
<1>1. Init => ToldOnce /\ NewsIsOwn
  BY DEF Init, ToldOnce, NewsIsOwn, Telling
<1> QED BY <1>1, StepNews, TaskInvariant, PTL DEF Spec

\* Every event on the stream speaks of a change that was made and still stands, and is
\* its only event unless a reply was lost.
THEOREM EventsTrue == Spec => []EventsAreTrue
<1>1. TaskInv /\ ToldOnce => EventsAreTrue
  BY DEF TaskInv, Truthful, EventsAreTrue
<1> QED BY <1>1, NoEventTwice, TaskInvariant, PTL
=============================================================================
