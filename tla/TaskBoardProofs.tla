---------------------------- MODULE TaskBoardProofs ----------------------------
(***************************************************************************)
(* What the dashboard shows, for any tasks, calls, faults and other        *)
(* clients; and that what its form accepts the API accepts and stores.     *)
(***************************************************************************)
EXTENDS TaskBoard, TaskInput, FiniteSetTheorems, TLAPS

CallRecord == [kind : {"none", "list", "log", "create", "update", "delete"},
               task : Tasks \cup {NoTask}, at : {"unsent", "sent", "answered", "done"},
               ok : BOOLEAN, rows : [Tasks -> Nat], log : SUBSET Tasks]

Typed == TypeOK /\ call \in [Calls -> CallRecord]

Saves == {"create", "update"}
AtMostOne(kinds) == \A c, d \in InFlight(kinds) : c = d

\* Which calls there can be: calls are numbered, the list is read once, while it is
\* the user can do nothing, and each dialog has one call under way at most.
Numbered ==
    \A c \in Calls :
        /\ c > calls => call[c] = NoCall
        /\ call[c].kind \in {"update", "delete"} => call[c].task \in Tasks
        /\ call[c].at = "sent" => ~call[c].ok
        /\ call[c].at = "sent" /\ call[c].kind = "create" => call[c].task = NoTask

Orderly ==
    /\ Numbered
    /\ confirm => selectedTask \in Tasks
    /\ loading => ~modal /\ ~confirm /\ ~submitting /\ ~confirming
    /\ confirming => calls < MaxCalls
    /\ AtMostOne({"list"}) /\ AtMostOne(Saves) /\ AtMostOne({"delete"})
    /\ ControlsFollowCalls

OrderInv == Typed /\ Orderly

-----------------------------------------------------------------------------
(* What the actions do to the calls *)

Others(c) == \A d \in Calls \ {c} : call'[d] = call[d]

LEMMA NoCallTypes ==
    /\ NoCall \in CallRecord /\ NoCall.kind = "none" /\ NoCall.at = "unsent" /\ ~NoCall.ok
    /\ \A t \in Tasks : NoCall.rows[t] = 0
    /\ NoCall.task = NoTask /\ NoCall.log = {}
<1>1. Empty \in [Tasks -> Nat]
  BY DEF Empty
<1> QED BY <1>1 DEF NoCall, CallRecord, Empty

LEMMA CallTypes ==
    ASSUME NEW kind \in {"list", "log", "create", "update", "delete"},
           NEW t \in Tasks \cup {NoTask}
    PROVE  LET q == Call(kind, t) IN
           /\ q \in CallRecord /\ q.kind = kind /\ q.task = t /\ q.at = "sent" /\ ~q.ok
           /\ \A u \in Tasks : q.rows[u] = 0
<1>1. Empty \in [Tasks -> Nat]
  BY DEF Empty
<1> QED BY <1>1 DEF Call, NoCall, CallRecord, Empty

LEMMA AnsweredCalls ==
    ASSUME Typed, NEW c \in Calls, NEW t \in Tasks \cup {NoTask},
           NEW rows \in [Tasks -> Nat], NEW log \in SUBSET Tasks, Answer(c, t, rows, log)
    PROVE  /\ call' \in [Calls -> CallRecord] /\ Others(c)
           /\ call'[c].kind = call[c].kind /\ call'[c].at = "answered" /\ call'[c].task = t
           /\ \/ /\ call'[c].ok /\ call'[c].rows = rows /\ call'[c].log = log
                 /\ doubtful' = doubtful
              \/ /\ call'[c].ok = call[c].ok /\ call'[c].rows = call[c].rows
                 /\ call'[c].log = call[c].log
                 /\ doubtful' = doubtful \cup ({t} \ {NoTask})
<1>1. call[c] \in CallRecord
  BY DEF Typed
<1>2. CASE call' = [call EXCEPT ![c].at = "answered", ![c].ok = TRUE, ![c].task = t,
                                ![c].rows = rows, ![c].log = log] /\ UNCHANGED doubtful
  <2> DEFINE q == [call[c] EXCEPT !.at = "answered", !.ok = TRUE, !.task = t,
                                  !.rows = rows, !.log = log]
  <2>1. call' = [call EXCEPT ![c] = q]
    BY <1>2, Zenon
  <2>2. q \in CallRecord /\ q.kind = call[c].kind /\ q.at = "answered" /\ q.task = t
        /\ q.ok /\ q.rows = rows /\ q.log = log
    BY <1>1 DEF CallRecord
  <2> HIDE DEF q
  <2>3. call' \in [Calls -> CallRecord] /\ Others(c) /\ call'[c] = q
    BY <2>1, <2>2 DEF Typed, Others
  <2> QED BY <1>2, <2>2, <2>3, Zenon
<1>3. CASE /\ call' = [call EXCEPT ![c].at = "answered", ![c].task = t]
           /\ doubtful' = doubtful \cup ({t} \ {NoTask})
  <2> DEFINE q == [call[c] EXCEPT !.at = "answered", !.task = t]
  <2>1. call' = [call EXCEPT ![c] = q]
    BY <1>3, Zenon
  <2>2. q \in CallRecord /\ q.kind = call[c].kind /\ q.at = "answered" /\ q.task = t
        /\ q.ok = call[c].ok /\ q.rows = call[c].rows /\ q.log = call[c].log
    BY <1>1 DEF CallRecord
  <2> HIDE DEF q
  <2>3. call' \in [Calls -> CallRecord] /\ Others(c) /\ call'[c] = q
    BY <2>1, <2>2 DEF Typed, Others
  <2> QED BY <1>3, <2>2, <2>3, Zenon
<1> QED BY <1>2, <1>3 DEF Answer

LEMMA AnsweredTypes ==
    ASSUME Typed, NEW c \in Calls, NEW t \in Tasks \cup {NoTask},
           NEW rows \in [Tasks -> Nat], NEW log \in SUBSET Tasks, Answer(c, t, rows, log)
    PROVE  /\ call' \in [Calls -> CallRecord] /\ Others(c)
           /\ call'[c].kind = call[c].kind /\ call'[c].at = "answered" /\ call'[c].task = t
           /\ doubtful' \subseteq Tasks
<1>1. /\ call' \in [Calls -> CallRecord] /\ Others(c)
      /\ call'[c].kind = call[c].kind /\ call'[c].at = "answered" /\ call'[c].task = t
  BY AnsweredCalls
<1>2. doubtful' = doubtful \/ doubtful' = doubtful \cup ({t} \ {NoTask})
  BY DEF Answer
<1> QED BY <1>1, <1>2 DEF Typed, TypeOK

LEMMA RefusedCalls ==
    ASSUME Typed, NEW c \in Calls, Refuse(c)
    PROVE  /\ call' \in [Calls -> CallRecord] /\ Others(c)
           /\ call'[c].kind = call[c].kind /\ call'[c].at = "answered"
           /\ call'[c].task = call[c].task /\ call'[c].ok = call[c].ok
           /\ call'[c].rows = call[c].rows /\ call'[c].log = call[c].log
<1> DEFINE q == [call[c] EXCEPT !.at = "answered"]
<1>1. call' = [call EXCEPT ![c] = q]
  BY Zenon DEF Refuse
<1>2. q \in CallRecord /\ q.kind = call[c].kind /\ q.at = "answered" /\ q.task = call[c].task
      /\ q.ok = call[c].ok /\ q.rows = call[c].rows /\ q.log = call[c].log
  BY DEF Typed, CallRecord
<1> HIDE DEF q
<1> QED BY <1>1, <1>2 DEF Typed, Others

LEMMA DoneCalls ==
    ASSUME Typed, NEW c \in Calls
    PROVE  LET q == Done(c)[c] IN
           /\ Done(c) \in [Calls -> CallRecord] /\ \A d \in Calls \ {c} : Done(c)[d] = call[d]
           /\ q.kind = "none" /\ q.at = "done" /\ ~q.ok /\ q.task = NoTask
           /\ \A t \in Tasks : q.rows[t] = 0
<1> DEFINE r == [NoCall EXCEPT !.at = "done"]
<1>1. r \in CallRecord /\ r.kind = "none" /\ r.at = "done" /\ ~r.ok /\ r.task = NoTask
      /\ \A t \in Tasks : r.rows[t] = 0
  BY NoCallTypes DEF CallRecord, NoCall
<1> HIDE DEF r
<1>2. Done(c) = [call EXCEPT ![c] = r]
  BY DEF Done, r
<1> QED BY <1>1, <1>2 DEF Typed

LEMMA SentCalls ==
    ASSUME Typed, NEW c \in Calls, NEW kind \in {"create", "update", "delete"},
           NEW t \in Tasks \cup {NoTask}, Send(c, kind, t)
    PROVE  /\ c = calls + 1 /\ calls' = c
           /\ call' \in [Calls -> CallRecord] /\ Others(c)
           /\ call'[c].kind = kind /\ call'[c].at = "sent" /\ call'[c].task = t /\ ~call'[c].ok
           /\ \A u \in Tasks : call'[c].rows[u] = 0
<1> DEFINE q == Call(kind, t)
<1>1. q \in CallRecord /\ q.kind = kind /\ q.task = t /\ q.at = "sent" /\ ~q.ok
      /\ \A u \in Tasks : q.rows[u] = 0
  BY CallTypes
<1>2. call' = [call EXCEPT ![c] = q]
  BY DEF Send
<1> HIDE DEF q
<1> QED BY <1>1, <1>2 DEF Typed, Others, Send

-----------------------------------------------------------------------------
(* Order among calls, dialogs and spinners *)

LEMMA InitOrder == Init => OrderInv
<1> SUFFICES ASSUME Init PROVE OrderInv
  OBVIOUS
<1> DEFINE q(c) == CASE c = 1 -> Call("list", NoTask) [] c = 2 -> Call("log", NoTask)
                     [] OTHER -> NoCall
<1>1. call = [c \in Calls |-> q(c)]
  BY DEF Init
<1>2. \A c \in Calls : /\ c = 1 => q(c) = Call("list", NoTask)
                       /\ c = 2 => q(c) = Call("log", NoTask)
                       /\ c \notin {1, 2} => q(c) = NoCall
  OBVIOUS
<1> HIDE DEF q
<1>3. Call("list", NoTask) \in CallRecord /\ Call("list", NoTask).kind = "list"
      /\ Call("list", NoTask).at = "sent" /\ ~Call("list", NoTask).ok
  BY CallTypes
<1>4. Call("log", NoTask) \in CallRecord /\ Call("log", NoTask).kind = "log"
      /\ Call("log", NoTask).at = "sent" /\ ~Call("log", NoTask).ok
  BY CallTypes
<1>5. \A c \in Calls : call[c] = q(c) /\ q(c) \in CallRecord
  BY <1>1, <1>2, <1>3, <1>4, NoCallTypes
<1>6. call \in [Calls -> CallRecord]
  BY <1>1, <1>5
<1>7. \A kinds : InFlight(kinds) = {c \in Calls : \/ c = 1 /\ "list" \in kinds
                                                  \/ c = 2 /\ "log" \in kinds}
  BY <1>2, <1>3, <1>4, <1>5, NoCallTypes DEF InFlight
<1>8. 1 \in Calls /\ 2 \in Calls
  BY BoundsAssumption DEF Calls
<1>9. Empty \in [Tasks -> Nat]
  BY DEF Empty
<1>10. \A c \in Calls : call[c] \in CallRecord
  BY <1>5
<1>11. Typed
  <2>1. /\ db \in [Tasks -> Nat] /\ deleted \subseteq Tasks /\ \A t \in deleted : db[t] = 0
        /\ tasks \in [Tasks -> Nat] /\ deletedTasks \subseteq Tasks
        /\ selectedTask \in Tasks \cup {NoTask} /\ doubtful \subseteq Tasks
        /\ calls \in 0 .. MaxCalls /\ others \in 0 .. MaxOthers
    BY <1>9, BoundsAssumption DEF Init
  <2>2. {loading, modal, confirm, submitting, confirming, loaded, logTrouble} \subseteq BOOLEAN
    BY DEF Init
  <2> QED BY <1>6, <1>10, <2>1, <2>2 DEF Typed, TypeOK, CallRecord
<1>12. ControlsFollowCalls
  BY <1>7, <1>8 DEF Init, ControlsFollowCalls
<1>13. AtMostOne({"list"}) /\ AtMostOne(Saves) /\ AtMostOne({"delete"})
  BY <1>7 DEF AtMostOne, Saves
<1>14. \A c \in Calls : /\ c > calls => call[c] = NoCall
                        /\ call[c].kind \notin {"create", "update", "delete"}
                        /\ call[c].at = "sent" => ~call[c].ok
  BY <1>2, <1>3, <1>4, <1>5, NoCallTypes DEF Init
<1>15. ~modal /\ ~confirm /\ ~submitting /\ ~confirming
  BY Zenon DEF Init
<1> QED BY <1>11, <1>12, <1>13, <1>14, <1>15 DEF OrderInv, Orderly, Numbered

\* What a call that is answered, sent or done does to the calls under way.
LEMMA FlightOfAnswered ==
    ASSUME NEW c \in Calls, call[c].at = "sent", call'[c].at = "answered",
           call'[c].kind = call[c].kind, Others(c)
    PROVE  \A kinds : InFlight(kinds)' = InFlight(kinds)
BY DEF InFlight, Others

LEMMA FlightOfSent ==
    ASSUME NEW c \in Calls, call[c] = NoCall, call'[c].at = "sent", Others(c)
    PROVE  \A kinds : InFlight(kinds)' =
              InFlight(kinds) \cup (IF call'[c].kind \in kinds THEN {c} ELSE {})
BY NoCallTypes DEF InFlight, Others

LEMMA FlightOfDone ==
    ASSUME Typed, NEW c \in Calls, call' = Done(c)
    PROVE  \A kinds : InFlight(kinds)' = InFlight(kinds) \ {c}
BY DoneCalls DEF InFlight

Tables == db \in [Tasks -> Nat] /\ deleted \subseteq Tasks /\ \A t \in deleted : db[t] = 0

LEMMA ServedCalls ==
    ASSUME OrderInv, NEW c \in Calls, Serve(c)
    PROVE  /\ call[c].at = "sent" /\ call' \in [Calls -> CallRecord] /\ Others(c)
           /\ call'[c].kind = call[c].kind /\ call'[c].at = "answered"
           /\ call[c].kind \in {"update", "delete"} => call'[c].task = call[c].task
           /\ doubtful' \subseteq Tasks /\ Tables'
<1>1. /\ call[c] \in CallRecord /\ call[c].at = "sent" /\ Tables /\ doubtful \subseteq Tasks
      /\ call[c].kind \in {"update", "delete"} => call[c].task \in Tasks
  BY DEF OrderInv, Typed, TypeOK, Orderly, Numbered, Serve, Tables
<1>2. Empty \in [Tasks -> Nat] /\ \A t \in Tasks, v \in Nat : Row(t, v) \in [Tasks -> Nat]
  BY DEF Empty, Row
<1>3. ASSUME ServeRead(c)
      PROVE  /\ call[c].kind \in {"list", "log"}
             /\ \E rows \in [Tasks -> Nat], log \in SUBSET Tasks : Answer(c, NoTask, rows, log)
  BY <1>1, <1>2, <1>3 DEF ServeRead, Tables
<1>4. CASE ServeRead(c)
  <2>1. PICK rows \in [Tasks -> Nat], log \in SUBSET Tasks : Answer(c, NoTask, rows, log)
    BY <1>3, <1>4
  <2>2. UNCHANGED server /\ call[c].kind \in {"list", "log"}
    BY <1>4 DEF ServeRead
  <2>3. /\ call' \in [Calls -> CallRecord] /\ Others(c)
        /\ call'[c].kind = call[c].kind /\ call'[c].at = "answered"
        /\ doubtful' \subseteq Tasks
    BY <2>1, AnsweredTypes DEF OrderInv
  <2>4. Tables'
    BY <1>1, <2>2 DEF server, Tables
  <2> QED BY <1>1, <2>2, <2>3, <2>4
<1>5. CASE ServeCreate(c)
  <2>1. PICK t \in Fresh : /\ db' = [db EXCEPT ![t] = 1]
                           /\ Answer(c, t, Row(t, 1), {})
    BY <1>5 DEF ServeCreate
  <2>2. t \in Tasks /\ t \notin deleted /\ deleted' = deleted /\ call[c].kind = "create"
    BY <1>5 DEF Fresh, ServeCreate
  <2>3. Tables'
    BY <1>1, <2>1, <2>2 DEF Tables
  <2>5. Row(t, 1) \in [Tasks -> Nat] /\ {} \in SUBSET Tasks /\ t \in Tasks \cup {NoTask}
    BY <1>2, <2>1, <2>2
  <2>6. /\ call' \in [Calls -> CallRecord] /\ Others(c)
        /\ call'[c].kind = call[c].kind /\ call'[c].at = "answered" /\ call'[c].task = t
        /\ doubtful' \subseteq Tasks
    BY <2>1, <2>5, AnsweredTypes, Zenon DEF OrderInv
  <2> QED BY <1>1, <2>2, <2>3, <2>6
<1>6. CASE ServeUpdate(c)
  <2> DEFINE t == call[c].task
  <2>1. /\ db' = [db EXCEPT ![t] = @ + 1] /\ Answer(c, t, Row(t, db[t] + 1), {})
        /\ deleted' = deleted /\ t \in Tasks /\ db[t] > 0
    BY <1>1, <1>6 DEF ServeUpdate, Exists
  <2>2. Tables' /\ db[t] + 1 \in Nat
    BY <1>1, <2>1 DEF Tables
  <2>5. Row(t, db[t] + 1) \in [Tasks -> Nat] /\ {} \in SUBSET Tasks /\ t \in Tasks \cup {NoTask}
    BY <1>2, <2>1, <2>2
  <2>6. /\ call' \in [Calls -> CallRecord] /\ Others(c)
        /\ call'[c].kind = call[c].kind /\ call'[c].at = "answered" /\ call'[c].task = t
        /\ doubtful' \subseteq Tasks
    BY <2>1, <2>5, AnsweredTypes, Zenon DEF OrderInv
  <2> QED BY <1>1, <2>2, <2>6
<1>7. CASE ServeDelete(c)
  <2> DEFINE t == call[c].task
  <2>1. /\ db' = [db EXCEPT ![t] = 0] /\ Answer(c, t, Empty, {})
        /\ deleted' = deleted \cup {t} /\ t \in Tasks
    BY <1>1, <1>7 DEF ServeDelete
  <2>2. Tables'
    BY <1>1, <2>1 DEF Tables
  <2>5. Empty \in [Tasks -> Nat] /\ {} \in SUBSET Tasks /\ t \in Tasks \cup {NoTask}
    BY <1>2, <2>1, <2>2
  <2>6. /\ call' \in [Calls -> CallRecord] /\ Others(c)
        /\ call'[c].kind = call[c].kind /\ call'[c].at = "answered" /\ call'[c].task = t
        /\ doubtful' \subseteq Tasks
    BY <2>1, <2>5, AnsweredTypes, Zenon DEF OrderInv
  <2> QED BY <1>1, <2>2, <2>6
<1>8. CASE Refuse(c)
  BY <1>1, <1>8, RefusedCalls DEF OrderInv, Refuse, server, Tables
<1> QED BY <1>4, <1>5, <1>6, <1>7, <1>8 DEF Serve

\* Typed, put together from its parts.
LEMMA TypedAgain ==
    ASSUME call' \in [Calls -> CallRecord], Tables', doubtful' \subseteq Tasks,
           tasks' \in [Tasks -> Nat], deletedTasks' \subseteq Tasks,
           {loading', modal', confirm', submitting', confirming', loaded', logTrouble'}
               \subseteq BOOLEAN,
           selectedTask' \in Tasks \cup {NoTask}, calls' \in 0 .. MaxCalls,
           others' \in 0 .. MaxOthers
    PROVE  Typed'
<1>1. \A c \in Calls : call'[c] \in CallRecord
  OBVIOUS
<1> QED BY <1>1 DEF Typed, TypeOK, CallRecord, Tables

LEMMA OrderServe ==
    ASSUME OrderInv, NEW c \in Calls, Serve(c)
    PROVE  OrderInv'
<1>1. /\ call[c].at = "sent" /\ call' \in [Calls -> CallRecord] /\ Others(c)
      /\ call'[c].kind = call[c].kind /\ call'[c].at = "answered"
      /\ call[c].kind \in {"update", "delete"} => call'[c].task = call[c].task
      /\ doubtful' \subseteq Tasks /\ Tables'
  BY ServedCalls
<1>2. UNCHANGED <<tasks, deletedTasks, loading, modal, confirm, selectedTask, submitting,
                  confirming, calls, loaded, logTrouble, others>>
  BY DEF Serve, shown, dialogs
<1>3. Typed'
  BY <1>1, <1>2, TypedAgain DEF OrderInv, Typed, TypeOK
<1>4. \A kinds : InFlight(kinds)' = InFlight(kinds)
  BY <1>1, FlightOfAnswered
<1>5. ControlsFollowCalls' /\ AtMostOne({"list"})' /\ AtMostOne(Saves)' /\ AtMostOne({"delete"})'
  BY <1>2, <1>4 DEF OrderInv, Orderly, ControlsFollowCalls, AtMostOne
<1>6. Numbered'
  <2>1. c <= calls
    BY <1>1, NoCallTypes DEF OrderInv, Orderly, Numbered, Typed, TypeOK, Calls
  <2> QED BY <1>1, <1>2, <2>1 DEF OrderInv, Orderly, Numbered, Others, Typed, TypeOK, Calls
<1> QED BY <1>2, <1>3, <1>5, <1>6 DEF OrderInv, Orderly

LEMMA DeletesUnderWay ==
    ASSUME OrderInv
    PROVE  Cardinality(InFlight({"delete"})) = IF confirming THEN 1 ELSE 0
<1>1. CASE confirming
  <2>1. PICK c \in Calls : c \in InFlight({"delete"})
    BY <1>1 DEF OrderInv, Orderly, ControlsFollowCalls, InFlight
  <2>2. InFlight({"delete"}) = {c}
    BY <2>1 DEF OrderInv, Orderly, AtMostOne
  <2> QED BY <1>1, <2>2, FS_Singleton
<1>2. CASE ~confirming
  BY <1>2, FS_EmptySet DEF OrderInv, Orderly, ControlsFollowCalls
<1> QED BY <1>1, <1>2

\* A call is made, by a dialog with none under way.
LEMMA OrderSend ==
    ASSUME OrderInv, NEW c \in Calls, NEW kind \in {"create", "update", "delete"},
           Send(c, kind, selectedTask),
           kind = "create" => selectedTask = NoTask,
           kind \in {"update", "delete"} => selectedTask \in Tasks,
           kind = "delete" => ~confirming /\ confirming' /\ submitting' = submitting,
           kind # "delete" => ~submitting /\ submitting' /\ confirming' = confirming,
           modal \/ confirm, {submitting', confirming'} \subseteq BOOLEAN,
           UNCHANGED <<server, shown, modal, confirm, selectedTask, memory, others>>
    PROVE  OrderInv'
<1>1. selectedTask \in Tasks \cup {NoTask} /\ calls \in Nat
  BY DEF OrderInv, Typed, TypeOK
<1>2. /\ c = calls + 1 /\ calls' = c
      /\ call' \in [Calls -> CallRecord] /\ Others(c)
      /\ call'[c].kind = kind /\ call'[c].at = "sent" /\ call'[c].task = selectedTask
      /\ ~call'[c].ok
  BY <1>1, SentCalls DEF OrderInv
<1>3. UNCHANGED <<db, deleted, tasks, deletedTasks, loading, modal, confirm, selectedTask,
                  doubtful, loaded, logTrouble, others>>
  BY DEF server, shown, memory
<1>4. Typed'
  <2>1. calls' \in 0 .. MaxCalls
    BY <1>2, BoundsAssumption DEF Calls
  <2>2. Tables' /\ tasks' \in [Tasks -> Nat] /\ deletedTasks' \subseteq Tasks
        /\ doubtful' \subseteq Tasks /\ selectedTask' \in Tasks \cup {NoTask}
        /\ others' \in 0 .. MaxOthers
    BY <1>3 DEF Tables, OrderInv, Typed, TypeOK
  <2>3. {loading', modal', confirm', submitting', confirming', loaded', logTrouble'}
            \subseteq BOOLEAN
    BY <1>3 DEF OrderInv, Typed, TypeOK
  <2> QED BY <1>2, <2>1, <2>2, <2>3, TypedAgain
<1>5. ~loading /\ call[c] = NoCall
  BY <1>1, <1>2 DEF OrderInv, Orderly, Numbered
<1>6. \A kinds : InFlight(kinds)' =
         InFlight(kinds) \cup (IF kind \in kinds THEN {c} ELSE {})
  BY <1>2, <1>5, FlightOfSent
<1>7. /\ kind = "delete" => InFlight({"delete"}) = {}
      /\ kind # "delete" => InFlight(Saves) = {}
  BY DEF OrderInv, Orderly, ControlsFollowCalls, Saves
<1>8. AtMostOne({"list"})' /\ AtMostOne(Saves)' /\ AtMostOne({"delete"})'
  BY <1>6, <1>7 DEF OrderInv, Orderly, AtMostOne, Saves
<1>9. /\ InFlight({"list"})' = InFlight({"list"})
      /\ InFlight(Saves)' = IF kind \in Saves THEN InFlight(Saves) \cup {c} ELSE InFlight(Saves)
      /\ InFlight({"delete"})' = IF kind = "delete" THEN InFlight({"delete"}) \cup {c}
                                 ELSE InFlight({"delete"})
  BY <1>6
<1>10. ControlsFollowCalls'
  BY <1>3, <1>9 DEF OrderInv, Orderly, ControlsFollowCalls, Saves
<1>11. confirming' => calls' < MaxCalls
  <2>1. ASSUME confirming' PROVE c + 1 <= MaxCalls
    <3>1. c + Cardinality(InFlight({"delete"})) + (IF kind = "delete" THEN 1 ELSE 0) <= MaxCalls
      BY DEF Send
    <3>2. CASE kind = "delete"
      BY <1>1, <1>2, <3>1, <3>2, DeletesUnderWay
    <3>3. CASE kind # "delete"
      <4>1. confirming
        BY <2>1, <3>3, Zenon
      <4>2. Cardinality(InFlight({"delete"})) = 1
        BY <4>1, DeletesUnderWay, Zenon
      <4> QED BY <1>1, <1>2, <3>1, <3>3, <4>2
    <3> QED BY <3>2, <3>3
  <2> QED BY <1>1, <1>2, <2>1, BoundsAssumption
<1>12. Numbered'
  BY <1>1, <1>2 DEF OrderInv, Orderly, Numbered, Others, Calls
<1> QED BY <1>3, <1>4, <1>5, <1>8, <1>10, <1>11, <1>12 DEF OrderInv, Orderly

LEMMA OrderSubmit ==
    ASSUME OrderInv, NEW c \in Calls, Submit(c) \/ Confirm(c)
    PROVE  OrderInv'
<1>1. CASE Submit(c)
  <2> DEFINE kind == IF selectedTask = NoTask THEN "create" ELSE "update"
  <2>1. kind \in {"create", "update", "delete"} /\ kind # "delete"
        /\ (kind = "create" => selectedTask = NoTask)
        /\ (kind \in {"update", "delete"} => selectedTask \in Tasks)
    BY DEF OrderInv, Typed, TypeOK
  <2>2. /\ Send(c, kind, selectedTask) /\ modal /\ ~submitting /\ submitting'
        /\ confirming' = confirming
        /\ UNCHANGED <<server, shown, modal, confirm, selectedTask, memory, others>>
    BY <1>1 DEF Submit
  <2>3. {submitting', confirming'} \subseteq BOOLEAN
    BY <1>1 DEF Submit, OrderInv, Typed, TypeOK
  <2> HIDE DEF kind
  <2> QED BY <2>1, <2>2, <2>3, OrderSend
<1>2. CASE Confirm(c)
  <2>1. /\ Send(c, "delete", selectedTask) /\ confirm /\ ~confirming /\ confirming'
        /\ submitting' = submitting
        /\ UNCHANGED <<server, shown, modal, confirm, selectedTask, memory, others>>
    BY <1>2 DEF Confirm
  <2>2. {submitting', confirming'} \subseteq BOOLEAN /\ selectedTask \in Tasks
    BY <1>2, <2>1 DEF Confirm, OrderInv, Orderly, Typed, TypeOK
  <2> QED BY <2>1, <2>2, OrderSend
<1> QED BY <1>1, <1>2

\* A call is done with and its control, if it has one, is free again.
LEMMA OrderDone ==
    ASSUME OrderInv, NEW c \in Calls, call[c].at = "answered", call' = Done(c),
           call[c].kind \in {"list", "log", "create", "update", "delete"},
           Typed', calls' = calls,
           loading' = (loading /\ call[c].kind # "list"),
           submitting' = (submitting /\ call[c].kind \notin Saves),
           confirming' = (confirming /\ call[c].kind # "delete"),
           modal' => modal, confirm' => confirm, selectedTask' = selectedTask
    PROVE  OrderInv'
<1>1. /\ call' \in [Calls -> CallRecord] /\ Others(c)
      /\ call'[c].kind = "none" /\ call'[c].at = "done"
  BY DoneCalls DEF OrderInv, Others
<1>2. \A kinds : InFlight(kinds)' = InFlight(kinds) \ {c}
  BY FlightOfDone DEF OrderInv
<1>3. \A kinds : call[c].kind \in kinds => c \in InFlight(kinds)
  BY DEF InFlight
<1>4. \A kinds : call[c].kind \notin kinds => c \notin InFlight(kinds)
  BY DEF InFlight
<1>5. AtMostOne({"list"})' /\ AtMostOne(Saves)' /\ AtMostOne({"delete"})'
  BY <1>2 DEF OrderInv, Orderly, AtMostOne
<1>6. \A kinds : AtMostOne(kinds) =>
         InFlight(kinds)' = IF call[c].kind \in kinds THEN {} ELSE InFlight(kinds)
  BY <1>2, <1>3, <1>4 DEF AtMostOne
<1>7. /\ InFlight({"list"})' = IF call[c].kind = "list" THEN {} ELSE InFlight({"list"})
      /\ InFlight(Saves)' = IF call[c].kind \in Saves THEN {} ELSE InFlight(Saves)
      /\ InFlight({"delete"})' = IF call[c].kind = "delete" THEN {} ELSE InFlight({"delete"})
  BY <1>6 DEF OrderInv, Orderly
<1>8. ControlsFollowCalls'
  BY <1>7 DEF OrderInv, Orderly, ControlsFollowCalls, Saves
<1>9. Numbered'
  <2>1. call[c] # NoCall
    BY NoCallTypes
  <2> QED BY <1>1, <2>1 DEF OrderInv, Orderly, Numbered, Others
<1> QED BY <1>5, <1>8, <1>9 DEF OrderInv, Orderly

\* A call of kind "log" more changes nothing of the order.
LEMMA OrderMore ==
    ASSUME OrderInv, NEW c \in Calls, call[c].at = "answered", call[c].kind = "delete",
           call' = [Done(c) EXCEPT ![calls + 1] = Call("log", NoTask)], calls' = calls + 1,
           Typed', loading' = loading, submitting' = submitting, ~confirming',
           modal' = modal, ~confirm', selectedTask' = selectedTask
    PROVE  OrderInv'
<1> DEFINE n == calls + 1
<1>1. n \in Calls /\ n # c /\ call[n] = NoCall
  <2>1. c \in InFlight({"delete"})
    BY DEF InFlight
  <2>2. confirming
    BY <2>1 DEF OrderInv, Orderly, ControlsFollowCalls
  <2>3. n \in Calls
    BY <2>2 DEF OrderInv, Orderly, Typed, TypeOK, Calls
  <2> QED BY <2>3, NoCallTypes DEF OrderInv, Orderly, Numbered, Typed, TypeOK
<1>2. /\ call'[n] = Call("log", NoTask) /\ call'[c] = Done(c)[c]
      /\ \A d \in Calls \ {c, n} : call'[d] = call[d]
      /\ call' \in [Calls -> CallRecord]
  BY <1>1, DoneCalls, CallTypes DEF OrderInv
<1>3. call'[n].kind = "log" /\ call'[n].at = "sent" /\ ~call'[n].ok
  BY <1>2, CallTypes
<1>4. call'[c].kind = "none" /\ call'[c].at = "done"
  BY <1>2, DoneCalls DEF OrderInv
<1>5. \A kinds : "log" \notin kinds => InFlight(kinds)' = InFlight(kinds) \ {c}
  BY <1>1, <1>2, <1>3, <1>4, NoCallTypes DEF InFlight
<1>6. /\ InFlight({"list"})' = InFlight({"list"}) \ {c}
      /\ InFlight(Saves)' = InFlight(Saves) \ {c}
      /\ InFlight({"delete"})' = InFlight({"delete"}) \ {c}
  BY <1>5 DEF Saves
<1>7. AtMostOne({"list"})' /\ AtMostOne(Saves)' /\ AtMostOne({"delete"})'
  BY <1>6 DEF OrderInv, Orderly, AtMostOne
<1>8. /\ InFlight({"list"})' = InFlight({"list"}) /\ InFlight(Saves)' = InFlight(Saves)
      /\ InFlight({"delete"})' = {}
  <2>1. c \notin InFlight({"list"}) /\ c \notin InFlight(Saves) /\ c \in InFlight({"delete"})
    BY DEF InFlight, Saves
  <2> QED BY <1>6, <2>1 DEF OrderInv, Orderly, AtMostOne
<1>9. ControlsFollowCalls'
  <2>1. confirming' = FALSE
    BY DEF Typed, TypeOK
  <2>2. /\ loading = (InFlight({"list"}) # {})
        /\ submitting = (InFlight({"create", "update"}) # {})
    BY DEF OrderInv, Orderly, ControlsFollowCalls
  <2> QED BY <1>8, <2>1, <2>2, Zenon DEF ControlsFollowCalls, Saves
<1>10. Numbered'
  <2>1. calls \in Nat
    BY DEF OrderInv, Typed, TypeOK
  <2>2. call'[c] # NoCall /\ c <= calls
    BY <1>4, <2>1, NoCallTypes DEF OrderInv, Orderly, Numbered, Calls
  <2> QED BY <1>1, <1>2, <1>3, <1>4, <2>1, <2>2 DEF OrderInv, Orderly, Numbered, Calls
<1> QED BY <1>7, <1>9, <1>10 DEF OrderInv, Orderly

LEMMA OrderReceive ==
    ASSUME OrderInv, NEW c \in Calls, Receive(c)
    PROVE  OrderInv'
<1>1. call[c] \in CallRecord
  BY DEF OrderInv, Typed
<1>2. Done(c) \in [Calls -> CallRecord]
  BY DoneCalls DEF OrderInv
<1>3. /\ Tables /\ doubtful \subseteq Tasks /\ tasks \in [Tasks -> Nat]
      /\ deletedTasks \subseteq Tasks /\ selectedTask \in Tasks \cup {NoTask}
      /\ calls \in 0 .. MaxCalls /\ others \in 0 .. MaxOthers
      /\ {loading, modal, confirm, submitting, confirming, loaded, logTrouble} \subseteq BOOLEAN
  BY DEF OrderInv, Typed, TypeOK, Tables
<1>4. /\ call[c].rows \in [Tasks -> Nat] /\ call[c].log \subseteq Tasks /\ call[c].ok \in BOOLEAN
  BY <1>1 DEF CallRecord
<1>5. CASE ListAnswered(c)
  <2>1. /\ call[c].kind = "list" /\ call[c].at = "answered" /\ call' = Done(c)
        /\ loading' = FALSE /\ loaded' = call[c].ok /\ calls' = calls
        /\ tasks' = tasks \/ tasks' = call[c].rows
        /\ UNCHANGED <<db, deleted, deletedTasks, modal, confirm, selectedTask, submitting,
                       confirming, doubtful, logTrouble, others>>
    BY <1>5 DEF ListAnswered, Arrives, server, dialogs
  <2>2. Typed'
    <3>1. Tables'
      BY <1>3, <2>1 DEF Tables
    <3>2. {loading', modal', confirm', submitting', confirming', loaded', logTrouble'}
              \subseteq BOOLEAN
      BY <1>3, <1>4, <2>1
    <3> QED BY <1>2, <1>3, <1>4, <2>1, <3>1, <3>2, TypedAgain
  <2>3. /\ loading' = (loading /\ call[c].kind # "list")
        /\ submitting' = (submitting /\ call[c].kind \notin Saves)
        /\ confirming' = (confirming /\ call[c].kind # "delete")
    BY <1>3, <2>1 DEF Saves
  <2> QED BY <2>1, <2>2, <2>3, OrderDone
<1>6. CASE LogAnswered(c)
  <2>1. /\ call[c].kind = "log" /\ call[c].at = "answered" /\ call' = Done(c)
        /\ logTrouble' = (logTrouble \/ ~call[c].ok) /\ calls' = calls
        /\ deletedTasks' = deletedTasks \/ deletedTasks' = call[c].log
        /\ UNCHANGED <<db, deleted, tasks, loading, modal, confirm, selectedTask, submitting,
                       confirming, doubtful, loaded, others>>
    BY <1>6 DEF LogAnswered, Arrives, server, dialogs
  <2>2. Typed'
    <3>1. Tables'
      BY <1>3, <2>1 DEF Tables
    <3>2. {loading', modal', confirm', submitting', confirming', loaded', logTrouble'}
              \subseteq BOOLEAN
      BY <1>3, <1>4, <2>1
    <3> QED BY <1>2, <1>3, <1>4, <2>1, <3>1, <3>2, TypedAgain
  <2>3. /\ loading' = (loading /\ call[c].kind # "list")
        /\ submitting' = (submitting /\ call[c].kind \notin Saves)
        /\ confirming' = (confirming /\ call[c].kind # "delete")
    BY <1>3, <2>1 DEF Saves
  <2> QED BY <2>1, <2>2, <2>3, OrderDone
<1>7. CASE SaveAnswered(c)
  <2>1. /\ call[c].kind \in Saves /\ call[c].at = "answered" /\ call' = Done(c)
        /\ modal' = (modal /\ ~call[c].ok) /\ submitting' = FALSE /\ calls' = calls
        /\ tasks' = tasks \/ tasks' = AfterSave(c)
        /\ UNCHANGED <<db, deleted, deletedTasks, loading, confirm, selectedTask, confirming,
                       doubtful, loaded, logTrouble, others>>
    BY <1>7 DEF SaveAnswered, SubmittingAfter, Arrives, Saves, server, memory
  <2>2. Typed'
    <3>1. Tables'
      BY <1>3, <2>1 DEF Tables
    <3>2. {loading', modal', confirm', submitting', confirming', loaded', logTrouble'}
              \subseteq BOOLEAN
      BY <1>3, <1>4, <2>1
    <3>3. AfterSave(c) \in [Tasks -> Nat]
      BY <1>3, <1>4 DEF AfterSave
    <3> QED BY <1>2, <1>3, <2>1, <3>1, <3>2, <3>3, TypedAgain
  <2>3. /\ loading' = (loading /\ call[c].kind # "list")
        /\ submitting' = (submitting /\ call[c].kind \notin Saves)
        /\ confirming' = (confirming /\ call[c].kind # "delete")
        /\ modal' => modal
    BY <1>3, <2>1 DEF Saves
  <2> QED BY <2>1, <2>2, <2>3, OrderDone DEF Saves
<1>8. CASE DeleteAnswered(c)
  <2>1. /\ call[c].kind = "delete" /\ call[c].at = "answered"
        /\ confirm' = FALSE /\ confirming' = FALSE
        /\ tasks' = tasks \/ tasks' = [tasks EXCEPT ![call[c].task] = 0]
        /\ UNCHANGED <<db, deleted, deletedTasks, loading, modal, selectedTask, submitting,
                       doubtful, loaded, others>>
    BY <1>8 DEF DeleteAnswered, Arrives, server
  <2>2. \/ /\ call' = [Done(c) EXCEPT ![calls + 1] = Call("log", NoTask)]
           /\ calls' = calls + 1 /\ logTrouble' = (logTrouble \/ InFlight({"log"}) # {})
        \/ call' = Done(c) /\ calls' = calls /\ logTrouble' = logTrouble
    BY <1>8 DEF DeleteAnswered
  <2>3. call' \in [Calls -> CallRecord]
    BY <1>2, <2>2, CallTypes
  <2>4. calls' \in 0 .. MaxCalls
    <3>1. confirming
      BY <2>1 DEF OrderInv, Orderly, ControlsFollowCalls, InFlight
    <3>2. calls < MaxCalls
      BY <3>1 DEF OrderInv, Orderly
    <3> QED BY <1>3, <2>2, <3>2, BoundsAssumption
  <2>5. Typed'
    <3>1. Tables'
      BY <1>3, <2>1 DEF Tables
    <3>2. {loading', modal', confirm', submitting', confirming', loaded', logTrouble'}
              \subseteq BOOLEAN
      BY <1>3, <2>1, <2>2
    <3> QED BY <1>3, <2>1, <2>3, <2>4, <3>1, <3>2, TypedAgain
  <2>6. /\ loading' = (loading /\ call[c].kind # "list")
        /\ submitting' = (submitting /\ call[c].kind \notin Saves)
        /\ confirming' = (confirming /\ call[c].kind # "delete")
    BY <1>3, <2>1 DEF Saves
  <2>7. CASE call' = Done(c) /\ calls' = calls
    BY <2>1, <2>5, <2>6, <2>7, OrderDone
  <2>8. CASE call' = [Done(c) EXCEPT ![calls + 1] = Call("log", NoTask)] /\ calls' = calls + 1
    BY <2>1, <2>5, <2>8, OrderMore
  <2> QED BY <2>2, <2>7, <2>8
<1> QED BY <1>5, <1>6, <1>7, <1>8 DEF Receive

\* The user opens and closes dialogs, another client changes a task.
LEMMA OrderClick ==
    ASSUME OrderInv, \/ \E t \in Tasks : EditClick(t) \/ DeleteClick(t)
                     \/ NewClick \/ CloseModal \/ CloseConfirm
    PROVE  OrderInv'
<1>1. /\ selectedTask' \in Tasks \cup {NoTask} /\ {modal', confirm'} \subseteq BOOLEAN
      /\ UNCHANGED <<db, deleted, tasks, deletedTasks, loading, submitting, confirming, call,
                     calls, doubtful, loaded, logTrouble, others>>
  BY DEF EditClick, DeleteClick, NewClick, CloseModal, CloseConfirm, OrderInv, Typed, TypeOK,
         server, shown, memory
<1>2. /\ confirm' => selectedTask' \in Tasks
      /\ loading => ~modal' /\ ~confirm'
  BY DEF EditClick, DeleteClick, NewClick, CloseModal, CloseConfirm, OrderInv, Orderly, AtHand
<1>3. Typed'
  BY <1>1 DEF OrderInv, Typed, TypeOK
<1>4. \A kinds : InFlight(kinds)' = InFlight(kinds)
  BY <1>1 DEF InFlight
<1>5. ControlsFollowCalls' /\ AtMostOne({"list"})' /\ AtMostOne(Saves)' /\ AtMostOne({"delete"})'
  BY <1>1, <1>4 DEF OrderInv, Orderly, ControlsFollowCalls, AtMostOne
<1>6. Numbered'
  BY <1>1 DEF OrderInv, Orderly, Numbered
<1> QED BY <1>1, <1>2, <1>3, <1>5, <1>6 DEF OrderInv, Orderly

LEMMA OrderOther ==
    ASSUME OrderInv, NEW t \in Tasks, OtherClient(t)
    PROVE  OrderInv'
<1>1. UNCHANGED <<tasks, deletedTasks, loading, modal, confirm, selectedTask, submitting,
                  confirming, call, calls, loaded, logTrouble>>
  BY DEF OtherClient, shown, dialogs
<1>2. Tables'
  BY DEF OtherClient, Exists, OrderInv, Typed, TypeOK, Tables
<1>3. doubtful' \subseteq Tasks /\ others' \in 0 .. MaxOthers
  BY BoundsAssumption DEF OtherClient, OrderInv, Typed, TypeOK
<1>4. Typed'
  BY <1>1, <1>2, <1>3 DEF OrderInv, Typed, TypeOK, Tables
<1>5. \A kinds : InFlight(kinds)' = InFlight(kinds)
  BY <1>1 DEF InFlight
<1>6. ControlsFollowCalls' /\ AtMostOne({"list"})' /\ AtMostOne(Saves)' /\ AtMostOne({"delete"})'
  BY <1>1, <1>5 DEF OrderInv, Orderly, ControlsFollowCalls, AtMostOne
<1>7. Numbered'
  BY <1>1 DEF OrderInv, Orderly, Numbered
<1> QED BY <1>1, <1>4, <1>6, <1>7 DEF OrderInv, Orderly

LEMMA StepOrder == OrderInv /\ [Next]_vars => OrderInv'
<1> SUFFICES ASSUME OrderInv, [Next]_vars PROVE OrderInv'
  OBVIOUS
<1>1. CASE UNCHANGED vars
  <2>1. UNCHANGED <<db, deleted, tasks, deletedTasks, loading, modal, confirm, selectedTask,
                    submitting, confirming, call, calls, doubtful, loaded, logTrouble, others>>
    BY <1>1 DEF vars, server, shown, dialogs, memory
  <2>2. \A kinds : InFlight(kinds)' = InFlight(kinds)
    BY <2>1 DEF InFlight
  <2>3. Typed' /\ Numbered'
    BY <2>1 DEF OrderInv, Orderly, Numbered, Typed, TypeOK
  <2>4. ControlsFollowCalls' /\ AtMostOne({"list"})' /\ AtMostOne(Saves)' /\ AtMostOne({"delete"})'
    BY <2>1, <2>2 DEF OrderInv, Orderly, ControlsFollowCalls, AtMostOne
  <2> QED BY <2>1, <2>3, <2>4 DEF OrderInv, Orderly
<1> QED BY <1>1, OrderServe, OrderReceive, OrderSubmit, OrderOther, OrderClick DEF Next

\* The types, and no task in the table and in the log.
THEOREM BoardTypes == Spec => []TypeOK
<1>1. OrderInv => TypeOK
  BY DEF OrderInv, Typed
<1> QED BY <1>1, InitOrder, StepOrder, PTL DEF Spec

\* However dialogs are closed and answers come, a spinner turns exactly while a call of
\* its control is under way (useTasks.js:22, TaskModal.jsx:69, ConfirmDialog.jsx:16).
THEOREM ControlsAreRight == Spec => []ControlsFollowCalls
<1>1. OrderInv => ControlsFollowCalls
  BY DEF OrderInv, Orderly
<1> QED BY <1>1, InitOrder, StepOrder, PTL DEF Spec

-----------------------------------------------------------------------------
(* What is shown *)

Known(t) == db[t] > 0 \/ t \in deleted

\* Whatever the tab has to do with is, or was, a row of the database.
KnownFirst ==
    /\ \A t \in Tasks : tasks[t] > 0 \/ t \in doubtful => Known(t)
    /\ selectedTask # NoTask => Known(selectedTask)
    /\ \A c \in Calls : /\ call[c].task # NoTask => Known(call[c].task)
                        /\ \A t \in Tasks : call[c].rows[t] > 0 => Known(t)

Succeeded(c, kinds, t) ==
    call[c].kind \in kinds /\ call[c].at = "answered" /\ call[c].ok /\ call[c].task = t

\* A new task is in no list, dialog or other call before the tab knows of it.
NewAndUnseen ==
    \A c \in Calls, t \in Tasks : Succeeded(c, {"create"}, t) =>
        /\ tasks[t] = 0 /\ selectedTask # t /\ \A d \in Calls \ {c} : call[d].task # t
        /\ t \notin doubtful => db[t] > 0

Deletions == \A c \in Calls, t \in Tasks : Succeeded(c, {"delete"}, t) => t \in deleted

\* The list has, or will have by the answers under way, what the database has.
Converges(t) ==
    \/ \E c \in Calls : Succeeded(c, {"delete"}, t)
    \/ \E c \in Calls : Succeeded(c, Saves, t) /\ AfterSave(c)[t] = db[t]
    \/ tasks[t] = db[t] /\ \A c \in Calls : ~Succeeded(c, Saves, t)

ListIsNew(t) == \A c \in Calls : Arrives(c, {"list"}) /\ call[c].ok => call[c].rows[t] = db[t]

Agreeing == \A t \in Tasks \ doubtful : ListIsNew(t) /\ (loaded => Converges(t))

\* A deletion is in the log shown, or in one under way, or one will be asked for.
Logged(t) ==
    \/ \E c \in Calls : Succeeded(c, {"delete"}, t)
    \/ \E c \in InFlight({"log"}) : call[c].at = "sent" \/ ~call[c].ok \/ t \in call[c].log
    \/ InFlight({"log"}) = {} /\ t \in deletedTasks

LogComes == ~logTrouble => AtMostOne({"log"}) /\ \A t \in deleted \ doubtful : Logged(t)

BoardInv == OrderInv /\ KnownFirst /\ NewAndUnseen /\ Deletions /\ Agreeing /\ LogComes

-----------------------------------------------------------------------------
(* The API carries out a call *)

Effect(c, t) ==
    \/ call[c].kind \in {"list", "log"} /\ t = NoTask /\ db' = db /\ deleted' = deleted
    \/ call[c].kind = "create" /\ t \in Fresh /\ db' = [db EXCEPT ![t] = 1] /\ deleted' = deleted
    \/ /\ call[c].kind = "update" /\ t = call[c].task /\ t \in Tasks /\ db[t] > 0
       /\ db' = [db EXCEPT ![t] = @ + 1] /\ deleted' = deleted
    \/ /\ call[c].kind = "delete" /\ t = call[c].task /\ t \in Tasks /\ db[t] > 0
       /\ db' = [db EXCEPT ![t] = 0] /\ deleted' = deleted \cup {t}

Heard(c, t) ==
    /\ call'[c].ok /\ doubtful' = doubtful
    /\ call[c].kind = "list" => call'[c].rows = db
    /\ call[c].kind \in Saves => call'[c].rows = Row(t, db'[t])
    /\ call[c].kind \in {"log", "delete"} => call'[c].rows = Empty
    /\ call[c].kind = "log" => call'[c].log = deleted

NotHeard(c) ==
    ~call'[c].ok /\ call'[c].rows = call[c].rows /\ call'[c].log = call[c].log

LEMMA ServedHow ==
    ASSUME OrderInv, NEW c \in Calls, Serve(c)
    PROVE  \/ /\ Effect(c, call'[c].task)
              /\ \/ Heard(c, call'[c].task)
                 \/ NotHeard(c) /\ doubtful' = doubtful \cup ({call'[c].task} \ {NoTask})
           \/ /\ call'[c].task = call[c].task /\ NotHeard(c)
              /\ UNCHANGED <<db, deleted, doubtful>>
<1> DEFINE Lost == NotHeard(c) /\ doubtful' = doubtful \cup ({call'[c].task} \ {NoTask})
<1>1. /\ call[c] \in CallRecord /\ call[c].at = "sent" /\ ~call[c].ok /\ Tables
      /\ call[c].kind \in {"update", "delete"} => call[c].task \in Tasks
  BY DEF OrderInv, Typed, TypeOK, Orderly, Numbered, Serve, Tables
<1>2. Empty \in [Tasks -> Nat] /\ \A t \in Tasks, v \in Nat : Row(t, v) \in [Tasks -> Nat]
  BY DEF Empty, Row
<1>3. ASSUME NEW t \in Tasks \cup {NoTask}, NEW rows \in [Tasks -> Nat],
             NEW log \in SUBSET Tasks, Answer(c, t, rows, log)
      PROVE  /\ call'[c].task = t
             /\ \/ /\ call'[c].ok /\ call'[c].rows = rows /\ call'[c].log = log
                   /\ doubtful' = doubtful
                \/ Lost
  <2>1. /\ call'[c].task = t
        /\ \/ /\ call'[c].ok /\ call'[c].rows = rows /\ call'[c].log = log
              /\ doubtful' = doubtful
           \/ /\ call'[c].ok = call[c].ok /\ call'[c].rows = call[c].rows
              /\ call'[c].log = call[c].log
              /\ doubtful' = doubtful \cup ({t} \ {NoTask})
    BY <1>3, AnsweredCalls, Zenon DEF OrderInv
  <2> QED BY <1>1, <2>1, Zenon DEF NotHeard
<1>4. ASSUME ServeRead(c), call[c].kind = "list"
      PROVE  Effect(c, call'[c].task) /\ (Heard(c, call'[c].task) \/ Lost)
  <2>1. Answer(c, NoTask, db, {}) /\ db' = db /\ deleted' = deleted
    BY <1>4 DEF ServeRead, server
  <2>2. /\ call'[c].task = NoTask
        /\ (call'[c].ok /\ call'[c].rows = db /\ doubtful' = doubtful) \/ Lost
    BY <1>1, <1>3, <2>1 DEF Tables
  <2> QED BY <1>4, <2>1, <2>2 DEF Effect, Heard, Saves
<1>5. ASSUME ServeRead(c), call[c].kind = "log"
      PROVE  Effect(c, call'[c].task) /\ (Heard(c, call'[c].task) \/ Lost)
  <2>1. Answer(c, NoTask, Empty, deleted) /\ db' = db /\ deleted' = deleted
    BY <1>5 DEF ServeRead, server
  <2>2. /\ call'[c].task = NoTask
        /\ \/ call'[c].ok /\ call'[c].rows = Empty /\ call'[c].log = deleted /\ doubtful' = doubtful
           \/ Lost
    BY <1>1, <1>2, <1>3, <2>1 DEF Tables
  <2> QED BY <1>5, <2>1, <2>2 DEF Effect, Heard, Saves
<1>6. ASSUME ServeCreate(c)
      PROVE  Effect(c, call'[c].task) /\ (Heard(c, call'[c].task) \/ Lost)
  <2>1. PICK t \in Fresh : db' = [db EXCEPT ![t] = 1] /\ Answer(c, t, Row(t, 1), {})
    BY <1>6 DEF ServeCreate
  <2>2. t \in Tasks /\ deleted' = deleted /\ call[c].kind = "create" /\ db'[t] = 1
    BY <1>1, <1>6, <2>1 DEF Fresh, ServeCreate, Tables
  <2>3. Row(t, 1) \in [Tasks -> Nat] /\ {} \in SUBSET Tasks /\ t \in Tasks \cup {NoTask}
    BY <1>2, <2>2
  <2>4. /\ call'[c].task = t
        /\ (call'[c].ok /\ call'[c].rows = Row(t, 1) /\ doubtful' = doubtful) \/ Lost
    BY <1>3, <2>1, <2>3, Zenon
  <2> QED BY <2>1, <2>2, <2>4 DEF Effect, Heard, Saves
<1>7. ASSUME ServeUpdate(c)
      PROVE  Effect(c, call'[c].task) /\ (Heard(c, call'[c].task) \/ Lost)
  <2> DEFINE t == call[c].task
  <2>1. /\ db' = [db EXCEPT ![t] = @ + 1] /\ Answer(c, t, Row(t, db[t] + 1), {})
        /\ deleted' = deleted /\ t \in Tasks /\ db[t] > 0 /\ call[c].kind = "update"
    BY <1>1, <1>7 DEF ServeUpdate, Exists
  <2>2. db[t] + 1 \in Nat /\ db'[t] = db[t] + 1
    BY <1>1, <2>1 DEF Tables
  <2>3. Row(t, db[t] + 1) \in [Tasks -> Nat] /\ {} \in SUBSET Tasks /\ t \in Tasks \cup {NoTask}
    BY <1>2, <2>1, <2>2
  <2>4. /\ call'[c].task = t
        /\ (call'[c].ok /\ call'[c].rows = Row(t, db[t] + 1) /\ doubtful' = doubtful) \/ Lost
    BY <1>3, <2>1, <2>3, Zenon
  <2> QED BY <2>1, <2>2, <2>4 DEF Effect, Heard, Saves
<1>8. ASSUME ServeDelete(c)
      PROVE  Effect(c, call'[c].task) /\ (Heard(c, call'[c].task) \/ Lost)
  <2> DEFINE t == call[c].task
  <2>1. /\ db' = [db EXCEPT ![t] = 0] /\ Answer(c, t, Empty, {})
        /\ deleted' = deleted \cup {t} /\ t \in Tasks /\ db[t] > 0 /\ call[c].kind = "delete"
    BY <1>1, <1>8 DEF ServeDelete, Exists
  <2>2. {} \in SUBSET Tasks /\ t \in Tasks \cup {NoTask}
    BY <2>1
  <2>3. /\ call'[c].task = t
        /\ (call'[c].ok /\ call'[c].rows = Empty /\ doubtful' = doubtful) \/ Lost
    BY <1>2, <1>3, <2>1, <2>2, Zenon
  <2> QED BY <2>1, <2>3 DEF Effect, Heard, Saves
<1>9. ASSUME Refuse(c)
      PROVE  /\ call'[c].task = call[c].task /\ NotHeard(c)
             /\ UNCHANGED <<db, deleted, doubtful>>
  <2>1. /\ call'[c].task = call[c].task /\ call'[c].ok = call[c].ok
        /\ call'[c].rows = call[c].rows /\ call'[c].log = call[c].log
    BY <1>9, RefusedCalls, Zenon DEF OrderInv
  <2>2. UNCHANGED <<db, deleted, doubtful>>
    BY <1>9 DEF Refuse, server
  <2> QED BY <1>1, <2>1, <2>2, Zenon DEF NotHeard
<1>10. ServeRead(c) => call[c].kind \in {"list", "log"}
  BY DEF ServeRead
<1> HIDE DEF Lost
<1>11. \/ Effect(c, call'[c].task) /\ (Heard(c, call'[c].task) \/ Lost)
       \/ /\ call'[c].task = call[c].task /\ NotHeard(c)
          /\ UNCHANGED <<db, deleted, doubtful>>
  BY <1>4, <1>5, <1>6, <1>7, <1>8, <1>9, <1>10 DEF Serve
<1> QED BY <1>11, Zenon DEF Lost

KnownNext(t) == db'[t] > 0 \/ t \in deleted'

LEMMA EffectIsKnown ==
    ASSUME Tables, NEW c \in Calls, NEW u, Effect(c, u)
    PROVE  /\ \A t \in Tasks : Known(t) => KnownNext(t)
           /\ deleted \subseteq deleted'
           /\ u # NoTask => u \in Tasks /\ KnownNext(u)
           /\ \A t \in Tasks : t # u => db'[t] = db[t] /\ (t \in deleted' => t \in deleted)
           /\ call[c].kind = "create" => u \in Tasks /\ ~Known(u) /\ db'[u] > 0
           /\ call[c].kind \in {"update", "delete"} => u = call[c].task /\ u \in Tasks /\ db[u] > 0
           /\ call[c].kind = "delete" => db'[u] = 0 /\ u \in deleted'
           /\ call[c].kind \in {"list", "log"} => u = NoTask /\ db' = db /\ deleted' = deleted
           /\ call[c].kind \in {"list", "log", "create", "update", "delete"}
<1>1. CASE call[c].kind \in {"list", "log"}
  BY <1>1, NamesAssumption DEF Effect, Known, KnownNext
<1>2. CASE call[c].kind = "create"
  BY <1>2 DEF Effect, Known, KnownNext, Fresh, Tables
<1>3. CASE call[c].kind = "update"
  BY <1>3 DEF Effect, Known, KnownNext, Tables
<1>4. CASE call[c].kind = "delete"
  BY <1>4 DEF Effect, Known, KnownNext, Tables
<1>5. call[c].kind \in {"list", "log", "create", "update", "delete"}
  BY DEF Effect
<1> QED BY <1>1, <1>2, <1>3, <1>4, <1>5

LEMMA KnownServe ==
    ASSUME BoardInv, NEW c \in Calls, Serve(c)
    PROVE  KnownFirst'
<1>1. /\ Typed /\ Tables /\ call' \in [Calls -> CallRecord] /\ Others(c) /\ KnownFirst
      /\ call'[c].kind = call[c].kind /\ call'[c] \in CallRecord /\ call[c] \in CallRecord
  BY ServedCalls DEF BoardInv, OrderInv, Typed, TypeOK, Tables
<1>2. UNCHANGED <<tasks, selectedTask>>
  BY DEF Serve, shown, dialogs
<1>3. PICK u : u = call'[c].task
  OBVIOUS
<1>4. \/ Effect(c, u) /\ Heard(c, u)
      \/ Effect(c, u) /\ NotHeard(c) /\ doubtful' = doubtful \cup ({u} \ {NoTask})
      \/ u = call[c].task /\ NotHeard(c) /\ UNCHANGED <<db, deleted, doubtful>>
  <2>1. BoardInv => OrderInv
    BY DEF BoardInv
  <2> QED BY <1>3, <2>1, ServedHow, Zenon
<1>5. \A t \in Tasks : Known(t) => KnownNext(t)
  <2>1. CASE Effect(c, u)
    BY <1>1, <2>1, EffectIsKnown
  <2>2. CASE UNCHANGED <<db, deleted>>
    BY <2>2 DEF Known, KnownNext
  <2> QED BY <1>4, <2>1, <2>2
<1>6. u # NoTask => u \in Tasks /\ KnownNext(u)
  <2>1. CASE Effect(c, u)
    BY <1>1, <2>1, EffectIsKnown
  <2>2. CASE u = call[c].task
    <3>1. u # NoTask => u \in Tasks /\ Known(u)
      BY <1>1, <2>2 DEF KnownFirst, CallRecord
    <3> QED BY <1>5, <3>1
  <2> QED BY <1>4, <2>1, <2>2
<1>7. \A t \in Tasks : t \in doubtful' => KnownNext(t)
  <2>1. doubtful' \subseteq doubtful \cup ({u} \ {NoTask})
    BY <1>4 DEF Heard
  <2>2. \A t \in Tasks : t \in doubtful => Known(t)
    BY <1>1 DEF KnownFirst
  <2> QED BY <1>5, <1>6, <2>1, <2>2
<1>8. \A t \in Tasks : call'[c].rows[t] > 0 => KnownNext(t)
  <2>1. CASE NotHeard(c)
    <3>1. \A t \in Tasks : call[c].rows[t] > 0 => Known(t)
      BY <1>1 DEF KnownFirst
    <3> QED BY <1>5, <2>1, <3>1 DEF NotHeard
  <2>2. ASSUME Effect(c, u), Heard(c, u)
        PROVE  \A t \in Tasks : call'[c].rows[t] > 0 => KnownNext(t)
    <3>1. ASSUME call[c].kind = "list"
          PROVE  \A t \in Tasks : call'[c].rows[t] > 0 => KnownNext(t)
      <4>1. call'[c].rows = db
        BY <2>2, <3>1 DEF Heard
      <4> QED BY <1>5, <4>1 DEF Known
    <3>2. ASSUME call[c].kind \in Saves
          PROVE  \A t \in Tasks : call'[c].rows[t] > 0 => KnownNext(t)
      <4>1. u \in Tasks /\ KnownNext(u)
        <5>1. u # NoTask => u \in Tasks /\ KnownNext(u)
          BY <1>1, <2>2, EffectIsKnown
        <5>2. CASE call[c].kind = "create"
          BY <1>1, <2>2, <5>1, <5>2, EffectIsKnown, NamesAssumption
        <5>3. CASE call[c].kind = "update"
          BY <1>1, <2>2, <5>1, <5>3, EffectIsKnown, NamesAssumption
        <5> QED BY <3>2, <5>2, <5>3 DEF Saves
      <4>2. call'[c].rows = Row(u, db'[u])
        BY <2>2, <3>2 DEF Heard
      <4>3. \A t \in Tasks : t # u => call'[c].rows[t] = 0
        BY <4>1, <4>2 DEF Row, Empty
      <4> QED BY <4>1, <4>3
    <3>3. ASSUME call[c].kind \in {"log", "delete"}
          PROVE  \A t \in Tasks : call'[c].rows[t] > 0 => KnownNext(t)
      BY <2>2, <3>3 DEF Heard, Empty
    <3>4. call[c].kind \in {"list", "log", "create", "update", "delete"}
      BY <1>1, <2>2, EffectIsKnown
    <3> QED BY <3>1, <3>2, <3>3, <3>4 DEF Saves
  <2> QED BY <1>4, <2>1, <2>2
<1>9. ASSUME NEW d \in Calls
      PROVE  /\ call'[d].task # NoTask => KnownNext(call'[d].task)
             /\ \A t \in Tasks : call'[d].rows[t] > 0 => KnownNext(t)
  <2>1. CASE d = c
    BY <1>3, <1>6, <1>8, <2>1
  <2>2. CASE d # c
    <3>1. call'[d] = call[d] /\ call[d].task \in Tasks \cup {NoTask}
      BY <1>1, <2>2 DEF Others, Typed, CallRecord
    <3>2. /\ call[d].task # NoTask => Known(call[d].task)
          /\ \A t \in Tasks : call[d].rows[t] > 0 => Known(t)
      BY <1>1 DEF KnownFirst
    <3> QED BY <1>5, <3>1, <3>2
  <2> QED BY <2>1, <2>2
<1>10. /\ \A t \in Tasks : tasks[t] > 0 => Known(t)
       /\ selectedTask # NoTask => selectedTask \in Tasks /\ Known(selectedTask)
  BY <1>1 DEF KnownFirst, Typed, TypeOK
<1> QED BY <1>2, <1>5, <1>7, <1>9, <1>10 DEF KnownFirst, Known, KnownNext

LEMMA NewServe ==
    ASSUME BoardInv, NEW c \in Calls, Serve(c)
    PROVE  NewAndUnseen' /\ Deletions'
<1>1. /\ Typed /\ Tables /\ Others(c) /\ KnownFirst /\ NewAndUnseen /\ Deletions
      /\ call[c].at = "sent" /\ call'[c].kind = call[c].kind /\ call[c] \in CallRecord
  BY ServedCalls DEF BoardInv, OrderInv, Typed, TypeOK, Tables
<1>2. UNCHANGED <<tasks, selectedTask>>
  BY DEF Serve, shown, dialogs
<1>3. PICK u : u = call'[c].task
  OBVIOUS
<1>4. \/ Effect(c, u) /\ Heard(c, u)
      \/ Effect(c, u) /\ NotHeard(c) /\ doubtful' = doubtful \cup ({u} \ {NoTask})
      \/ u = call[c].task /\ NotHeard(c) /\ UNCHANGED <<db, deleted, doubtful>>
  <2>1. BoardInv => OrderInv
    BY DEF BoardInv
  <2> QED BY <1>3, <2>1, ServedHow, Zenon
<1>5. doubtful \subseteq doubtful' /\ deleted \subseteq deleted'
  <2>1. Effect(c, u) => deleted \subseteq deleted'
    BY <1>1, EffectIsKnown
  <2> QED BY <1>4, <2>1 DEF Heard
<1>6. ASSUME NEW kinds, NEW t \in Tasks, Succeeded(c, kinds, t)'
      PROVE  t = u /\ Effect(c, t) /\ call[c].kind \in kinds
  BY <1>1, <1>3, <1>4, <1>6 DEF Succeeded, NotHeard
<1>7. ASSUME NEW d \in Calls \ {c}, NEW kinds, NEW t \in Tasks, Succeeded(d, kinds, t)'
      PROVE  Succeeded(d, kinds, t)
  BY <1>1, <1>7 DEF Succeeded, Others
<1>8. ASSUME NEW t \in Tasks, Succeeded(c, {"create"}, t)'
      PROVE  /\ tasks[t] = 0 /\ selectedTask # t /\ \A d \in Calls \ {c} : call'[d].task # t
             /\ db'[t] > 0
  <2>1. Effect(c, t) /\ call[c].kind = "create"
    BY <1>6, <1>8
  <2>2. ~Known(t) /\ db'[t] > 0
    BY <1>1, <2>1, EffectIsKnown
  <2>3. tasks[t] \in Nat /\ ~(tasks[t] > 0)
    BY <1>1, <2>2 DEF KnownFirst, Typed, TypeOK
  <2>4. t # NoTask
    BY NamesAssumption
  <2>5. \A d \in Calls : call[d].task # t
    BY <1>1, <2>2, <2>4 DEF KnownFirst
  <2>6. selectedTask # t
    BY <1>1, <2>2, <2>4 DEF KnownFirst
  <2> QED BY <1>1, <2>2, <2>3, <2>5, <2>6 DEF Others
<1>9. ASSUME NEW d \in Calls \ {c}, NEW t \in Tasks, Succeeded(d, {"create"}, t)
      PROVE  u # t /\ (t \notin doubtful' => db'[t] > 0)
  <2>1. call[c].task # t /\ (t \notin doubtful => db[t] > 0)
    BY <1>1, <1>9 DEF NewAndUnseen
  <2>2. t # NoTask /\ Known(t)
    BY <1>1, <1>9, NamesAssumption DEF Succeeded, KnownFirst
  <2>3. CASE Effect(c, u)
    <3>1. u # t
      <4>1. CASE call[c].kind \in {"update", "delete"}
        BY <1>1, <2>1, <2>3, <4>1, EffectIsKnown
      <4>2. CASE call[c].kind = "create"
        BY <1>1, <2>2, <2>3, <4>2, EffectIsKnown
      <4>3. CASE call[c].kind \in {"list", "log"}
        BY <1>1, <2>2, <2>3, <4>3, EffectIsKnown
      <4> QED BY <1>1, <2>3, <4>1, <4>2, <4>3, EffectIsKnown
    <3>2. db'[t] = db[t]
      BY <1>1, <2>3, <3>1, EffectIsKnown
    <3> QED BY <1>5, <2>1, <3>1, <3>2
  <2>4. CASE u = call[c].task /\ UNCHANGED <<db, deleted, doubtful>>
    BY <2>1, <2>4
  <2> QED BY <1>4, <2>3, <2>4
<1>10. NewAndUnseen'
  <2> SUFFICES ASSUME NEW d \in Calls, NEW t \in Tasks, Succeeded(d, {"create"}, t)'
               PROVE  /\ tasks[t] = 0 /\ selectedTask # t
                      /\ \A e \in Calls \ {d} : call'[e].task # t
                      /\ t \notin doubtful' => db'[t] > 0
    BY <1>2 DEF NewAndUnseen
  <2>1. CASE d = c
    BY <1>8, <2>1
  <2>2. CASE d # c
    <3>1. Succeeded(d, {"create"}, t)
      BY <1>7, <2>2
    <3>2. tasks[t] = 0 /\ selectedTask # t /\ \A e \in Calls \ {d} : call[e].task # t
      BY <1>1, <3>1 DEF NewAndUnseen
    <3>3. u # t /\ (t \notin doubtful' => db'[t] > 0)
      BY <1>9, <2>2, <3>1
    <3>4. ASSUME NEW e \in Calls \ {d} PROVE call'[e].task # t
      BY <1>1, <1>3, <3>2, <3>3 DEF Others
    <3> QED BY <3>2, <3>3, <3>4
  <2> QED BY <2>1, <2>2
<1>11. Deletions'
  <2> SUFFICES ASSUME NEW d \in Calls, NEW t \in Tasks, Succeeded(d, {"delete"}, t)'
               PROVE  t \in deleted'
    BY DEF Deletions
  <2>1. CASE d = c
    <3>1. Effect(c, t) /\ call[c].kind = "delete"
      BY <1>6, <2>1
    <3> QED BY <1>1, <3>1, EffectIsKnown
  <2>2. CASE d # c
    <3>1. Succeeded(d, {"delete"}, t)
      BY <1>7, <2>2
    <3> QED BY <1>1, <1>5, <3>1 DEF Deletions
  <2> QED BY <2>1, <2>2
<1> QED BY <1>10, <1>11

LEMMA AgreeServe ==
    ASSUME BoardInv, NEW c \in Calls, Serve(c)
    PROVE  Agreeing' /\ LogComes'
<1>1. /\ OrderInv /\ Typed /\ Tables /\ call' \in [Calls -> CallRecord] /\ Others(c)
      /\ KnownFirst /\ NewAndUnseen /\ Agreeing /\ LogComes /\ NoTask \notin Tasks
      /\ call[c].at = "sent" /\ call'[c].kind = call[c].kind /\ call'[c].at = "answered"
  BY ServedCalls, NamesAssumption DEF BoardInv, OrderInv, Typed, TypeOK, Tables
<1>2. UNCHANGED <<tasks, deletedTasks, loaded, logTrouble>>
  BY DEF Serve, shown
<1>3. PICK u : u = call'[c].task
  OBVIOUS
<1>4. \/ Effect(c, u) /\ Heard(c, u)
      \/ Effect(c, u) /\ NotHeard(c) /\ doubtful' = doubtful \cup ({u} \ {NoTask})
      \/ u = call[c].task /\ NotHeard(c) /\ UNCHANGED <<db, deleted, doubtful>>
  BY <1>1, <1>3, ServedHow, Zenon
<1>5. doubtful \subseteq doubtful'
  BY <1>4 DEF Heard
<1>6. ~call[c].ok
  BY <1>1 DEF OrderInv, Orderly, Numbered
<1>7. ASSUME NEW kinds, NEW t \in Tasks, Succeeded(c, kinds, t)'
      PROVE  t = u /\ Effect(c, t) /\ Heard(c, t) /\ call[c].kind \in kinds
  BY <1>1, <1>3, <1>4, <1>7 DEF Succeeded, NotHeard
<1>8. ASSUME NEW d \in Calls \ {c}
      PROVE  /\ call'[d] = call[d] /\ AfterSave(d)' = AfterSave(d)
             /\ \A kinds : \A t \in Tasks : Succeeded(d, kinds, t)' = Succeeded(d, kinds, t)
  BY <1>1, <1>2, <1>8 DEF Others, Succeeded, AfterSave
<1>9. \A kinds : \A t : ~Succeeded(c, kinds, t)
  BY <1>1 DEF Succeeded
<1>10. \A kinds : InFlight(kinds)' = InFlight(kinds)
  BY <1>1, FlightOfAnswered
<1>11. ASSUME NEW t \in Tasks \ doubtful', Effect(c, t), ~Heard(c, t), u = t
       PROVE  FALSE
  <2>1. u \notin doubtful' /\ u # NoTask
    BY <1>1, <1>11
  <2>2. UNCHANGED <<db, deleted>>
    BY <1>4, <1>11, <2>1
  <2> QED BY <1>1, <1>11, <2>2 DEF Effect, Tables, Fresh
<1>12. ASSUME NEW t \in Tasks \ doubtful' PROVE ListIsNew(t)'
  <2> SUFFICES ASSUME NEW d \in Calls, Arrives(d, {"list"})', call'[d].ok
               PROVE  call'[d].rows[t] = db'[t]
    BY DEF ListIsNew
  <2>1. CASE d = c
    BY <1>1, <1>3, <1>4, <2>1 DEF Arrives, NotHeard, Heard, Effect
  <2>2. CASE d # c
    <3>1. Arrives(d, {"list"}) /\ call[d].ok /\ call'[d] = call[d]
      BY <1>8, <2>2 DEF Arrives
    <3>2. call[d].rows[t] = db[t]
      BY <1>1, <1>5, <3>1 DEF Agreeing, ListIsNew
    <3>3. loading
      BY <1>1, <3>1 DEF Arrives, InFlight, OrderInv, Orderly, ControlsFollowCalls
    <3>4. call[c].kind \notin {"create", "update", "delete"}
      BY <1>1, <3>3 DEF InFlight, OrderInv, Orderly, ControlsFollowCalls
    <3>5. db' = db
      BY <1>4, <3>4 DEF Effect
    <3> QED BY <3>1, <3>2, <3>5
  <2> QED BY <2>1, <2>2
<1>13. ASSUME NEW t \in Tasks \ doubtful', loaded, t # u \/ ~Effect(c, u)
       PROVE  Converges(t)'
  <2>1. db'[t] = db[t] /\ Converges(t)
    <3>1. t # u /\ Effect(c, u) => db'[t] = db[t]
      BY <1>1, EffectIsKnown
    <3> QED BY <1>1, <1>4, <1>5, <1>13, <3>1 DEF Agreeing
  <2>2. \A kinds : ~Succeeded(c, kinds, t)'
    BY <1>7, <1>13
  <2>3. CASE \E d \in Calls : Succeeded(d, {"delete"}, t)
    BY <1>8, <1>9, <2>3 DEF Converges
  <2>4. CASE \E d \in Calls : Succeeded(d, Saves, t) /\ AfterSave(d)[t] = db[t]
    <3>1. PICK d \in Calls : Succeeded(d, Saves, t) /\ AfterSave(d)[t] = db[t]
      BY <2>4
    <3>2. d # c
      BY <1>9, <3>1
    <3>3. Succeeded(d, Saves, t)' /\ AfterSave(d)'[t] = db'[t]
      BY <1>8, <2>1, <3>1, <3>2
    <3> QED BY <3>3 DEF Converges
  <2>5. CASE tasks[t] = db[t] /\ \A d \in Calls : ~Succeeded(d, Saves, t)
    BY <1>2, <1>8, <2>1, <2>2, <2>5 DEF Converges
  <2> QED BY <2>1, <2>3, <2>4, <2>5 DEF Converges
<1>14. ASSUME NEW t \in Tasks \ doubtful', loaded, t = u, Effect(c, u)
       PROVE  Converges(t)'
  <2>1. Converges(t) /\ Heard(c, t)
    BY <1>1, <1>5, <1>11, <1>14 DEF Agreeing
  <2>2. ASSUME NEW kinds, call[c].kind \in kinds PROVE Succeeded(c, kinds, t)'
    BY <1>1, <1>3, <1>14, <2>1, <2>2 DEF Succeeded, Heard
  <2>3. CASE call[c].kind = "delete"
    BY <2>2, <2>3 DEF Converges
  <2>4. CASE call[c].kind \in Saves
    <3>1. Succeeded(c, Saves, t)'
      BY <2>2, <2>4
    <3>2. call'[c].rows = Row(t, db'[t]) /\ call'[c].task = t
      BY <1>3, <1>14, <2>1, <2>4 DEF Heard
    <3>3. call'[c].rows[t] = db'[t]
      BY <3>2 DEF Row, Empty
    <3>4. call[c].kind = "create" \/ tasks[t] > 0 \/ Converges(t)'
      <4>1. CASE call[c].kind = "create"
        BY <4>1
      <4>2. CASE call[c].kind = "update"
        <5>1. db[t] > 0 /\ call[c].task = t
          BY <1>1, <1>14, <4>2, EffectIsKnown
        <5>2. ASSUME NEW d \in Calls, Succeeded(d, Saves, t) PROVE FALSE
          <6>1. d # c /\ d \in InFlight(Saves) /\ c \in InFlight(Saves)
            BY <1>1, <1>9, <2>4, <5>2 DEF InFlight, Succeeded
          <6> QED BY <1>1, <6>1 DEF OrderInv, Orderly, AtMostOne
        <5>3. CASE \E d \in Calls : Succeeded(d, {"delete"}, t)
          BY <1>8, <1>9, <5>3 DEF Converges
        <5>4. CASE tasks[t] = db[t]
          BY <5>1, <5>4
        <5> QED BY <2>1, <5>2, <5>3, <5>4 DEF Converges
      <4> QED BY <2>4, <4>1, <4>2 DEF Saves
    <3>5. CASE call[c].kind = "create" \/ tasks[t] > 0
      <4>1. AfterSave(c)'[t] = db'[t]
        BY <1>1, <1>2, <3>2, <3>3, <3>5 DEF AfterSave
      <4> QED BY <3>1, <4>1 DEF Converges
    <3> QED BY <3>4, <3>5
  <2>5. call[c].kind \notin {"list", "log"}
    BY <1>1, <1>14, EffectIsKnown
  <2> QED BY <1>14, <2>3, <2>4, <2>5 DEF Effect, Saves
<1>15. Agreeing'
  BY <1>2, <1>12, <1>13, <1>14 DEF Agreeing
<1>16. ASSUME ~logTrouble, NEW t \in deleted' \ doubtful' PROVE Logged(t)'
  <2>1. CASE t \in deleted
    <3>1. Logged(t)
      BY <1>1, <1>5, <1>16, <2>1 DEF LogComes
    <3>2. t \in Tasks
      BY <1>1, <2>1 DEF Tables
    <3>3. CASE \E d \in Calls : Succeeded(d, {"delete"}, t)
      BY <1>8, <1>9, <3>2, <3>3 DEF Logged
    <3>4. CASE \E d \in InFlight({"log"}) : call[d].at = "sent" \/ ~call[d].ok \/ t \in call[d].log
      <4>1. PICK d \in InFlight({"log"}) :
                    call[d].at = "sent" \/ ~call[d].ok \/ t \in call[d].log
        BY <3>4
      <4>2. d \in Calls /\ d \in InFlight({"log"})'
        BY <1>10, <4>1 DEF InFlight
      <4>3. call'[d].at = "sent" \/ ~call'[d].ok \/ t \in call'[d].log
        <5>1. CASE d = c
          <6>1. call[c].kind = "log"
            BY <4>1, <5>1 DEF InFlight
          <6> QED BY <1>4, <1>6, <2>1, <5>1, <6>1 DEF Heard, NotHeard
        <5>2. CASE d # c
          BY <1>8, <4>1, <4>2, <5>2
        <5> QED BY <5>1, <5>2
      <4> QED BY <4>2, <4>3 DEF Logged
    <3>5. CASE InFlight({"log"}) = {} /\ t \in deletedTasks
      BY <1>2, <1>10, <3>5 DEF Logged
    <3> QED BY <3>1, <3>3, <3>4, <3>5 DEF Logged
  <2>2. CASE t \notin deleted
    <3>1. t = u /\ Effect(c, u) /\ call[c].kind = "delete" /\ t \in Tasks
      BY <1>4, <1>16, <2>2 DEF Effect
    <3>2. Heard(c, t)
      BY <1>11, <1>16, <3>1
    <3>3. Succeeded(c, {"delete"}, t)'
      BY <1>1, <1>3, <3>1, <3>2 DEF Succeeded, Heard
    <3> QED BY <3>3 DEF Logged
  <2> QED BY <2>1, <2>2
<1>17. LogComes'
  <2>1. ~logTrouble => AtMostOne({"log"})'
    BY <1>1, <1>10 DEF LogComes, AtMostOne
  <2> QED BY <1>2, <1>16, <2>1 DEF LogComes
<1> QED BY <1>15, <1>17

-----------------------------------------------------------------------------
(* The user, and other clients *)

LEMMA InitBoard == Init => BoardInv
<1> SUFFICES ASSUME Init PROVE BoardInv
  OBVIOUS
<1>1. OrderInv /\ Typed
  BY InitOrder DEF OrderInv
<1> DEFINE q(c) == CASE c = 1 -> Call("list", NoTask) [] c = 2 -> Call("log", NoTask)
                     [] OTHER -> NoCall
<1>2. call = [c \in Calls |-> q(c)]
  BY DEF Init
<1>3. \A c \in Calls : q(c) \in {Call("list", NoTask), Call("log", NoTask), NoCall}
  OBVIOUS
<1> HIDE DEF q
<1>4. \A c \in Calls : call[c] \in {Call("list", NoTask), Call("log", NoTask), NoCall}
  BY <1>2, <1>3
<1>5. \A p \in {Call("list", NoTask), Call("log", NoTask), NoCall} :
          p.task = NoTask /\ p.at # "answered" /\ \A t \in Tasks : p.rows[t] = 0
  BY CallTypes, NoCallTypes
<1>6. \A c \in Calls :
          call[c].task = NoTask /\ call[c].at # "answered" /\ \A t \in Tasks : call[c].rows[t] = 0
  BY <1>4, <1>5
<1>7. /\ tasks = Empty /\ selectedTask = NoTask /\ doubtful = {} /\ deleted = {}
      /\ loaded = FALSE /\ logTrouble = FALSE
  BY DEF Init
<1>8. KnownFirst
  BY <1>6, <1>7 DEF KnownFirst, Empty
<1>9. NewAndUnseen /\ Deletions
  BY <1>6 DEF NewAndUnseen, Deletions, Succeeded
<1>10. Agreeing
  BY <1>6, <1>7 DEF Agreeing, ListIsNew, Arrives
<1>11. LogComes
  <2>1. \A c \in InFlight({"log"}) : c = 2
    <3>1. \A c \in Calls : c # 2 => q(c) \in {Call("list", NoTask), NoCall}
      BY DEF q
    <3>2. \A p \in {Call("list", NoTask), NoCall} : p.kind # "log"
      BY CallTypes, NoCallTypes
    <3> QED BY <1>2, <3>1, <3>2 DEF InFlight
  <2> QED BY <1>7, <2>1 DEF LogComes, AtMostOne
<1> QED BY <1>1, <1>8, <1>9, <1>10, <1>11 DEF BoardInv

\* A call of the user takes nothing from what is shown.
LEMMA BoardSubmit ==
    ASSUME BoardInv, NEW c \in Calls, Submit(c) \/ Confirm(c)
    PROVE  KnownFirst' /\ NewAndUnseen' /\ Deletions' /\ Agreeing' /\ LogComes'
<1>1. /\ UNCHANGED <<db, deleted, tasks, deletedTasks, selectedTask, doubtful, loaded, logTrouble>>
      /\ \E kind \in {"create", "update", "delete"} : Send(c, kind, selectedTask)
  BY DEF Submit, Confirm, server, shown, memory
<1>2. PICK kind \in {"create", "update", "delete"} : Send(c, kind, selectedTask)
  BY <1>1
<1>3. /\ Typed /\ KnownFirst /\ NewAndUnseen /\ Deletions /\ Agreeing /\ LogComes
      /\ selectedTask \in Tasks \cup {NoTask} /\ NoTask \notin Tasks
  BY NamesAssumption DEF BoardInv, OrderInv, Typed, TypeOK
<1>4. /\ c = calls + 1 /\ Others(c)
      /\ call'[c].kind = kind /\ call'[c].at = "sent" /\ call'[c].task = selectedTask
      /\ \A u \in Tasks : call'[c].rows[u] = 0
  BY <1>2, <1>3, SentCalls, Zenon
<1>5. call[c] = NoCall
  <2>1. c > calls
    BY <1>3, <1>4 DEF Typed, TypeOK
  <2> QED BY <2>1 DEF BoardInv, OrderInv, Orderly, Numbered
<1>6. InFlight({"log"})' = InFlight({"log"}) /\ c \notin InFlight({"log"})
  <2>1. \A kinds : InFlight(kinds)' =
              InFlight(kinds) \cup (IF call'[c].kind \in kinds THEN {c} ELSE {})
    BY <1>4, <1>5, FlightOfSent
  <2>2. call'[c].kind \notin {"log"}
    BY <1>4
  <2>3. InFlight({"log"})' = InFlight({"log"})
    BY <2>1, <2>2
  <2>4. c \notin InFlight({"log"})
    BY <1>5, NoCallTypes DEF InFlight
  <2> QED BY <2>3, <2>4
<1>7. /\ \A kinds : \A t \in Tasks : ~Succeeded(c, kinds, t) /\ ~Succeeded(c, kinds, t)'
      /\ call[c].at # "answered"
  BY <1>4, <1>5, NoCallTypes DEF Succeeded
<1>8. ASSUME NEW d \in Calls \ {c}
      PROVE  /\ call'[d] = call[d] /\ AfterSave(d)' = AfterSave(d)
             /\ \A kinds : \A t \in Tasks : Succeeded(d, kinds, t)' = Succeeded(d, kinds, t)
  BY <1>1, <1>4, <1>8 DEF Others, Succeeded, AfterSave
<1>9. KnownFirst'
  <2>1. ASSUME NEW d \in Calls
        PROVE  /\ call'[d].task # NoTask => Known(call'[d].task)
               /\ \A t \in Tasks : call'[d].rows[t] > 0 => Known(t)
    <3>1. CASE d = c
      BY <1>3, <1>4, <3>1 DEF KnownFirst
    <3>2. CASE d # c
      BY <1>3, <1>8, <3>2 DEF KnownFirst
    <3> QED BY <3>1, <3>2
  <2> QED BY <1>1, <1>3, <2>1 DEF KnownFirst, Known
<1>10. NewAndUnseen'
  <2> SUFFICES ASSUME NEW d \in Calls, NEW t \in Tasks, Succeeded(d, {"create"}, t)'
               PROVE  /\ tasks[t] = 0 /\ selectedTask # t
                      /\ \A e \in Calls \ {d} : call'[e].task # t
                      /\ t \notin doubtful => db[t] > 0
    BY <1>1 DEF NewAndUnseen
  <2>1. d # c /\ Succeeded(d, {"create"}, t)
    BY <1>7, <1>8
  <2>2. /\ tasks[t] = 0 /\ selectedTask # t /\ \A e \in Calls \ {d} : call[e].task # t
        /\ t \notin doubtful => db[t] > 0
    BY <1>3, <2>1 DEF NewAndUnseen
  <2> QED BY <1>4, <1>8, <2>2
<1>11. Deletions'
  BY <1>1, <1>3, <1>7, <1>8 DEF Deletions
<1>12. Agreeing'
  <2> SUFFICES ASSUME NEW t \in Tasks \ doubtful PROVE ListIsNew(t)' /\ (loaded => Converges(t)')
    BY <1>1 DEF Agreeing
  <2>1. ListIsNew(t) /\ (loaded => Converges(t))
    BY <1>3 DEF Agreeing
  <2>2. ListIsNew(t)'
    BY <1>1, <1>4, <1>8, <2>1 DEF ListIsNew, Arrives
  <2>3. ASSUME Converges(t) PROVE Converges(t)'
    <3>1. CASE \E d \in Calls : Succeeded(d, {"delete"}, t)
      BY <1>7, <1>8, <3>1 DEF Converges
    <3>2. CASE \E d \in Calls : Succeeded(d, Saves, t) /\ AfterSave(d)[t] = db[t]
      <4>1. PICK d \in Calls : Succeeded(d, Saves, t) /\ AfterSave(d)[t] = db[t]
        BY <3>2
      <4>2. Succeeded(d, Saves, t)' /\ AfterSave(d)'[t] = db'[t]
        BY <1>1, <1>7, <1>8, <4>1
      <4> QED BY <4>2 DEF Converges
    <3>3. CASE tasks[t] = db[t] /\ \A d \in Calls : ~Succeeded(d, Saves, t)
      BY <1>1, <1>7, <1>8, <3>3 DEF Converges
    <3> QED BY <2>3, <3>1, <3>2, <3>3 DEF Converges
  <2> QED BY <2>1, <2>2, <2>3
<1>13. LogComes'
  <2>1. ~logTrouble => AtMostOne({"log"})'
    BY <1>3, <1>6 DEF LogComes, AtMostOne
  <2>2. ASSUME ~logTrouble, NEW t \in deleted \ doubtful PROVE Logged(t)'
    <3>1. Logged(t) /\ t \in Tasks
      BY <1>3, <2>2 DEF LogComes, Typed, TypeOK
    <3>2. \A d \in InFlight({"log"}) : call'[d] = call[d] /\ d \in Calls
      BY <1>6, <1>8 DEF InFlight
    <3>3. CASE \E d \in Calls : Succeeded(d, {"delete"}, t)
      BY <1>7, <1>8, <3>1, <3>3 DEF Logged
    <3>4. CASE \E d \in InFlight({"log"}) : call[d].at = "sent" \/ ~call[d].ok \/ t \in call[d].log
      BY <1>6, <3>2, <3>4 DEF Logged
    <3>5. CASE InFlight({"log"}) = {} /\ t \in deletedTasks
      BY <1>1, <1>6, <3>5 DEF Logged
    <3> QED BY <3>1, <3>3, <3>4, <3>5 DEF Logged
  <2> QED BY <1>1, <2>1, <2>2 DEF LogComes
<1> QED BY <1>9, <1>10, <1>11, <1>12, <1>13

\* Nothing but the dialogs changes, and what they are open for is in the list.
LEMMA BoardClick ==
    ASSUME BoardInv, \/ \E t \in Tasks : EditClick(t) \/ DeleteClick(t)
                     \/ NewClick \/ CloseModal \/ CloseConfirm
    PROVE  KnownFirst' /\ NewAndUnseen' /\ Deletions' /\ Agreeing' /\ LogComes'
<1>1. /\ UNCHANGED <<db, deleted, tasks, deletedTasks, call, doubtful, loaded, logTrouble>>
      /\ \/ selectedTask' = selectedTask \/ selectedTask' = NoTask
         \/ selectedTask' \in Tasks /\ tasks[selectedTask'] > 0
  BY DEF EditClick, DeleteClick, NewClick, CloseModal, CloseConfirm, server, shown, memory
<1>2. KnownFirst /\ NewAndUnseen /\ Deletions /\ Agreeing /\ LogComes /\ NoTask \notin Tasks
  BY NamesAssumption DEF BoardInv
<1>3. KnownFirst'
  <2>1. selectedTask' # NoTask => Known(selectedTask')
    BY <1>1, <1>2 DEF KnownFirst
  <2> QED BY <1>1, <1>2, <2>1 DEF KnownFirst, Known
<1>4. NewAndUnseen'
  BY <1>1, <1>2 DEF NewAndUnseen, Succeeded
<1>5. Deletions' /\ Agreeing' /\ LogComes'
  BY <1>1, <1>2 DEF Deletions, Agreeing, LogComes, Succeeded, ListIsNew, Arrives, Converges,
     AfterSave, Logged, InFlight, AtMostOne
<1> QED BY <1>3, <1>4, <1>5

\* What another client touches is in doubt from then on.
LEMMA BoardOther ==
    ASSUME BoardInv, NEW u \in Tasks, OtherClient(u)
    PROVE  KnownFirst' /\ NewAndUnseen' /\ Deletions' /\ Agreeing' /\ LogComes'
<1>1. /\ UNCHANGED <<tasks, deletedTasks, selectedTask, call, loaded, logTrouble>>
      /\ doubtful' = doubtful \cup {u}
  BY DEF OtherClient, shown, dialogs
<1>2. /\ KnownFirst /\ NewAndUnseen /\ Deletions /\ Agreeing /\ LogComes /\ Typed /\ Tables
      /\ selectedTask \in Tasks \cup {NoTask}
  BY DEF BoardInv, OrderInv, Typed, TypeOK, Tables
<1>3. /\ \A t \in Tasks \ {u} : db'[t] = db[t] /\ (t \in deleted' => t \in deleted)
      /\ deleted \subseteq deleted' /\ KnownNext(u) /\ \A t \in Tasks : Known(t) => KnownNext(t)
  BY <1>2 DEF OtherClient, Known, KnownNext, Tables
<1>4. KnownFirst'
  <2>1. \A d \in Calls : call[d].task \in Tasks \cup {NoTask}
    BY <1>2 DEF Typed, CallRecord
  <2>2. \A t \in Tasks : tasks[t] > 0 \/ t \in doubtful => KnownNext(t)
    BY <1>2, <1>3 DEF KnownFirst
  <2>3. selectedTask # NoTask => KnownNext(selectedTask)
    BY <1>2, <1>3 DEF KnownFirst
  <2>4. \A d \in Calls : /\ call[d].task # NoTask => KnownNext(call[d].task)
                         /\ \A t \in Tasks : call[d].rows[t] > 0 => KnownNext(t)
    BY <1>2, <1>3, <2>1 DEF KnownFirst
  <2> QED BY <1>1, <1>3, <2>2, <2>3, <2>4 DEF KnownFirst, Known, KnownNext
<1>5. NewAndUnseen'
  BY <1>1, <1>2, <1>3 DEF NewAndUnseen, Succeeded
<1>6. Deletions'
  BY <1>1, <1>2, <1>3 DEF Deletions, Succeeded
<1>7. Agreeing'
  <2> SUFFICES ASSUME NEW t \in Tasks \ doubtful' PROVE ListIsNew(t)' /\ (loaded => Converges(t)')
    BY <1>1 DEF Agreeing
  <2>1. t \in Tasks \ doubtful /\ db'[t] = db[t] /\ ListIsNew(t) /\ (loaded => Converges(t))
    BY <1>1, <1>2, <1>3 DEF Agreeing
  <2> QED BY <1>1, <2>1 DEF Succeeded, ListIsNew, Arrives, Converges, AfterSave
<1>8. LogComes'
  <2>1. \A t \in deleted' \ doubtful' : t \in deleted \ doubtful
    BY <1>1, <1>2, <1>3 DEF OtherClient, Tables
  <2> QED BY <1>1, <1>2, <2>1 DEF LogComes, Logged, Succeeded, InFlight, AtMostOne
<1> QED BY <1>4, <1>5, <1>6, <1>7, <1>8

-----------------------------------------------------------------------------
(* An answer comes *)

\* Calls that are over, or that are new, concern nobody.
LEMMA OverCalls ==
    ASSUME BoardInv, OrderInv', NEW over \in SUBSET Calls,
           \A d \in Calls \ over : call'[d] = call[d],
           \A d \in over : /\ call'[d].task = NoTask /\ call'[d].at # "answered"
                          /\ \A t \in Tasks : call'[d].rows[t] = 0,
           UNCHANGED <<db, deleted, doubtful, selectedTask>>,
           \A t \in Tasks : tasks'[t] > 0 => Known(t),
           \A t \in Tasks : tasks[t] = 0 /\ tasks'[t] > 0 =>
               \A d \in Calls \ over : ~Succeeded(d, {"create"}, t)
    PROVE  /\ \A d \in Calls \ over : \A kinds : \A t \in Tasks :
                  Succeeded(d, kinds, t)' = Succeeded(d, kinds, t)
           /\ \A d \in over : \A kinds : \A t \in Tasks : ~Succeeded(d, kinds, t)'
           /\ KnownFirst' /\ NewAndUnseen' /\ Deletions'
           /\ \A t \in Tasks \ doubtful : ListIsNew(t)'
<1>1. /\ KnownFirst /\ NewAndUnseen /\ Deletions /\ Agreeing /\ NoTask \notin Tasks
      /\ tasks' \in [Tasks -> Nat]
  BY NamesAssumption DEF BoardInv, OrderInv, Typed, TypeOK
<1>2. \A d \in Calls \ over : \A kinds : \A t \in Tasks :
          Succeeded(d, kinds, t)' = Succeeded(d, kinds, t)
  BY DEF Succeeded
<1>3. \A d \in over : \A kinds : \A t \in Tasks : ~Succeeded(d, kinds, t)'
  BY DEF Succeeded
<1>4. KnownFirst'
  <2>1. ASSUME NEW d \in Calls
        PROVE  /\ call'[d].task # NoTask => Known(call'[d].task)
               /\ \A t \in Tasks : call'[d].rows[t] > 0 => Known(t)
    <3>1. CASE d \in over
      BY <3>1
    <3>2. CASE d \notin over
      BY <1>1, <3>2 DEF KnownFirst
    <3> QED BY <3>1, <3>2
  <2> QED BY <1>1, <2>1 DEF KnownFirst, Known
<1>5. NewAndUnseen'
  <2> SUFFICES ASSUME NEW d \in Calls, NEW t \in Tasks, Succeeded(d, {"create"}, t)'
               PROVE  /\ tasks'[t] = 0 /\ selectedTask # t
                      /\ \A e \in Calls \ {d} : call'[e].task # t
                      /\ t \notin doubtful => db[t] > 0
    BY DEF NewAndUnseen
  <2>1. d \notin over /\ Succeeded(d, {"create"}, t)
    BY <1>2, <1>3
  <2>2. /\ tasks[t] = 0 /\ selectedTask # t /\ \A e \in Calls \ {d} : call[e].task # t
        /\ t \notin doubtful => db[t] > 0
    BY <1>1, <2>1 DEF NewAndUnseen
  <2>3. tasks'[t] = 0
    BY <1>1, <2>1, <2>2
  <2>4. \A e \in Calls \ {d} : call'[e].task # t
    BY <1>1, <2>2
  <2> QED BY <2>2, <2>3, <2>4
<1>6. Deletions'
  BY <1>1, <1>2, <1>3 DEF Deletions
<1>7. \A t \in Tasks \ doubtful : ListIsNew(t)'
  BY <1>1 DEF Agreeing, ListIsNew, Arrives
<1> QED BY <1>2, <1>3, <1>4, <1>5, <1>6, <1>7

LEMMA EndedCalls ==
    ASSUME BoardInv, NEW c \in Calls, call' = Done(c)
    PROVE  /\ \A d \in Calls \ {c} : call'[d] = call[d]
           /\ \A d \in {c} : /\ call'[d].task = NoTask /\ call'[d].at # "answered"
                            /\ \A t \in Tasks : call'[d].rows[t] = 0
BY DoneCalls DEF BoardInv, OrderInv

\* The end of any other call leaves the log as it is on its way.
LEMMA LogLater ==
    ASSUME BoardInv, NEW c \in Calls, call' = Done(c), call[c].kind # "log",
           call[c].kind # "delete" \/ ~call[c].ok,
           UNCHANGED <<deleted, deletedTasks, doubtful, logTrouble>>
    PROVE  LogComes'
<1>1. Typed /\ LogComes
  BY DEF BoardInv, OrderInv
<1>2. \A d \in Calls \ {c} : call'[d] = call[d]
  BY <1>1, DoneCalls
<1>3. InFlight({"log"})' = InFlight({"log"}) /\ c \notin InFlight({"log"})
  <2>1. InFlight({"log"})' = InFlight({"log"}) \ {c}
    BY <1>1, FlightOfDone
  <2> QED BY <2>1 DEF InFlight
<1>4. ASSUME NEW t \in Tasks, Logged(t) PROVE Logged(t)'
  <2>1. CASE \E d \in Calls : Succeeded(d, {"delete"}, t)
    BY <1>2, <2>1 DEF Logged, Succeeded
  <2>2. CASE \E d \in InFlight({"log"}) : call[d].at = "sent" \/ ~call[d].ok \/ t \in call[d].log
    <3>1. \A d \in InFlight({"log"}) : call'[d] = call[d]
      BY <1>2, <1>3 DEF InFlight
    <3> QED BY <1>3, <2>2, <3>1 DEF Logged
  <2>3. CASE InFlight({"log"}) = {} /\ t \in deletedTasks
    BY <1>3, <2>3 DEF Logged
  <2> QED BY <1>4, <2>1, <2>2, <2>3 DEF Logged
<1>5. deleted \subseteq Tasks
  BY <1>1 DEF Typed, TypeOK
<1> QED BY <1>1, <1>3, <1>4, <1>5 DEF LogComes, AtMostOne

LEMMA BoardList ==
    ASSUME BoardInv, OrderInv', NEW c \in Calls, ListAnswered(c)
    PROVE  KnownFirst' /\ NewAndUnseen' /\ Deletions' /\ Agreeing' /\ LogComes'
<1>1. /\ call[c].kind = "list" /\ call[c].at = "answered" /\ call' = Done(c)
      /\ tasks' = (IF call[c].ok THEN call[c].rows ELSE tasks) /\ loaded' = call[c].ok
      /\ UNCHANGED <<db, deleted, deletedTasks, selectedTask, doubtful, logTrouble>>
  BY DEF ListAnswered, Arrives, server, dialogs
<1>2. KnownFirst /\ Agreeing
  BY DEF BoardInv
<1>3. ~submitting
  <2>1. loading
    BY <1>1 DEF BoardInv, OrderInv, Orderly, ControlsFollowCalls, InFlight
  <2> QED BY <2>1 DEF BoardInv, OrderInv, Orderly
<1>4. \A d \in Calls : \A t \in Tasks : ~Succeeded(d, Saves, t) /\ ~Succeeded(d, {"create"}, t)
  BY <1>3 DEF BoardInv, OrderInv, Orderly, ControlsFollowCalls, InFlight, Succeeded, Saves
<1>5. \A t \in Tasks : tasks'[t] > 0 => Known(t)
  BY <1>1, <1>2 DEF KnownFirst
<1>6. /\ \A d \in Calls \ {c} : \A kinds : \A t \in Tasks :
             Succeeded(d, kinds, t)' = Succeeded(d, kinds, t)
      /\ \A d \in {c} : \A kinds : \A t \in Tasks : ~Succeeded(d, kinds, t)'
      /\ KnownFirst' /\ NewAndUnseen' /\ Deletions'
      /\ \A t \in Tasks \ doubtful : ListIsNew(t)'
  <2>1. /\ {c} \in SUBSET Calls /\ \A d \in Calls \ {c} : call'[d] = call[d]
        /\ \A d \in {c} : /\ call'[d].task = NoTask /\ call'[d].at # "answered"
                         /\ \A t \in Tasks : call'[d].rows[t] = 0
    BY <1>1, EndedCalls
  <2>2. /\ UNCHANGED <<db, deleted, doubtful, selectedTask>>
        /\ \A t \in Tasks : tasks'[t] > 0 => Known(t)
        /\ \A t \in Tasks : tasks[t] = 0 /\ tasks'[t] > 0 =>
               \A d \in Calls \ {c} : ~Succeeded(d, {"create"}, t)
    BY <1>1, <1>4, <1>5
  <2> QED BY <2>1, <2>2, OverCalls
<1>7. Agreeing'
  <2> SUFFICES ASSUME NEW t \in Tasks \ doubtful, loaded' PROVE Converges(t)'
    BY <1>1, <1>6 DEF Agreeing
  <2>1. tasks'[t] = db[t]
    BY <1>1, <1>2 DEF Agreeing, ListIsNew, Arrives
  <2>2. \A d \in Calls : ~Succeeded(d, Saves, t)'
    BY <1>4, <1>6
  <2> QED BY <1>1, <2>1, <2>2 DEF Converges
<1>8. LogComes'
  BY <1>1, LogLater
<1> QED BY <1>6, <1>7, <1>8

LEMMA BoardLog ==
    ASSUME BoardInv, OrderInv', NEW c \in Calls, LogAnswered(c)
    PROVE  KnownFirst' /\ NewAndUnseen' /\ Deletions' /\ Agreeing' /\ LogComes'
<1>1. /\ call[c].kind = "log" /\ call[c].at = "answered" /\ call' = Done(c)
      /\ deletedTasks' = (IF call[c].ok THEN call[c].log ELSE deletedTasks)
      /\ logTrouble' = (logTrouble \/ ~call[c].ok)
      /\ UNCHANGED <<db, deleted, tasks, selectedTask, doubtful, loaded>>
  BY DEF LogAnswered, Arrives, server, dialogs
<1>2. Typed /\ KnownFirst /\ Agreeing /\ LogComes /\ deleted \subseteq Tasks
  BY DEF BoardInv, OrderInv, Typed, TypeOK
<1>3. \A t \in Tasks : (tasks'[t] > 0 => Known(t)) /\ ~(tasks[t] = 0 /\ tasks'[t] > 0)
  BY <1>1, <1>2 DEF KnownFirst
<1>4. /\ \A d \in Calls \ {c} : \A kinds : \A t \in Tasks :
             Succeeded(d, kinds, t)' = Succeeded(d, kinds, t)
      /\ \A d \in {c} : \A kinds : \A t \in Tasks : ~Succeeded(d, kinds, t)'
      /\ KnownFirst' /\ NewAndUnseen' /\ Deletions'
      /\ \A t \in Tasks \ doubtful : ListIsNew(t)'
  <2>1. /\ {c} \in SUBSET Calls /\ \A d \in Calls \ {c} : call'[d] = call[d]
        /\ \A d \in {c} : /\ call'[d].task = NoTask /\ call'[d].at # "answered"
                         /\ \A t \in Tasks : call'[d].rows[t] = 0
    BY <1>1, EndedCalls
  <2>2. /\ UNCHANGED <<db, deleted, doubtful, selectedTask>>
        /\ \A t \in Tasks : tasks'[t] > 0 => Known(t)
        /\ \A t \in Tasks : tasks[t] = 0 /\ tasks'[t] > 0 =>
               \A d \in Calls \ {c} : ~Succeeded(d, {"create"}, t)
    BY <1>1, <1>3
  <2> QED BY <2>1, <2>2, OverCalls
<1>5. \A t \in Tasks : ~Succeeded(c, {"delete"}, t) /\ ~Succeeded(c, Saves, t)
  BY <1>1 DEF Succeeded, Saves
<1>6. Agreeing'
  <2> SUFFICES ASSUME NEW t \in Tasks \ doubtful, Converges(t) PROVE Converges(t)'
    BY <1>1, <1>2, <1>4 DEF Agreeing
  <2>1. CASE \E d \in Calls : Succeeded(d, {"delete"}, t)
    BY <1>4, <1>5, <2>1 DEF Converges
  <2>2. CASE \E d \in Calls : Succeeded(d, Saves, t) /\ AfterSave(d)[t] = db[t]
    <3>1. PICK d \in Calls : Succeeded(d, Saves, t) /\ AfterSave(d)[t] = db[t]
      BY <2>2
    <3>2. d # c /\ call'[d] = call[d]
      BY <1>1, <1>5, <3>1, EndedCalls
    <3>3. AfterSave(d)'[t] = db'[t]
      BY <1>1, <3>1, <3>2 DEF AfterSave
    <3> QED BY <1>4, <3>1, <3>2, <3>3 DEF Converges
  <2>3. CASE tasks[t] = db[t] /\ \A d \in Calls : ~Succeeded(d, Saves, t)
    BY <1>1, <1>4, <2>3 DEF Converges
  <2> QED BY <2>1, <2>2, <2>3 DEF Converges
<1>7. ASSUME ~logTrouble' PROVE AtMostOne({"log"})' /\ \A t \in deleted \ doubtful : Logged(t)'
  <2>1. ~logTrouble /\ call[c].ok /\ AtMostOne({"log"}) /\ deletedTasks' = call[c].log
    BY <1>1, <1>2, <1>7 DEF LogComes
  <2>2. InFlight({"log"}) = {c} /\ InFlight({"log"})' = {}
    <3>1. c \in InFlight({"log"})
      BY <1>1 DEF InFlight
    <3>2. InFlight({"log"}) = {c}
      BY <2>1, <3>1 DEF AtMostOne
    <3> QED BY <1>1, <1>2, <3>2, FlightOfDone
  <2>3. ASSUME NEW t \in deleted \ doubtful PROVE Logged(t)'
    <3>1. Logged(t) /\ t \in Tasks
      BY <1>2, <2>1, <2>3 DEF LogComes
    <3>2. CASE \E d \in Calls : Succeeded(d, {"delete"}, t)
      BY <1>4, <1>5, <3>1, <3>2 DEF Logged
    <3>3. CASE \E d \in InFlight({"log"}) : call[d].at = "sent" \/ ~call[d].ok \/ t \in call[d].log
      BY <1>1, <2>1, <2>2, <3>3 DEF Logged
    <3> QED BY <2>2, <3>1, <3>2, <3>3 DEF Logged
  <2> QED BY <2>2, <2>3 DEF AtMostOne
<1>8. LogComes'
  BY <1>1, <1>7 DEF LogComes
<1> QED BY <1>4, <1>6, <1>8

LEMMA BoardSave ==
    ASSUME BoardInv, OrderInv', NEW c \in Calls, SaveAnswered(c)
    PROVE  KnownFirst' /\ NewAndUnseen' /\ Deletions' /\ Agreeing' /\ LogComes'
<1>1. /\ call[c].kind \in Saves /\ call[c].at = "answered" /\ call' = Done(c)
      /\ tasks' = (IF call[c].ok THEN AfterSave(c) ELSE tasks)
      /\ UNCHANGED <<db, deleted, deletedTasks, selectedTask, doubtful, loaded, logTrouble>>
  BY DEF SaveAnswered, Arrives, Saves, server, memory
<1>2. Typed /\ KnownFirst /\ Agreeing /\ AtMostOne(Saves)
  BY DEF BoardInv, OrderInv, Orderly
<1>3. \A d \in Calls \ {c} : \A t \in Tasks :
          ~Succeeded(d, Saves, t) /\ ~Succeeded(d, {"create"}, t)
  <2> SUFFICES ASSUME NEW d \in Calls \ {c}, NEW t \in Tasks,
                      Succeeded(d, Saves, t) \/ Succeeded(d, {"create"}, t)
               PROVE  FALSE
    OBVIOUS
  <2>1. c \in InFlight(Saves) /\ d \in InFlight(Saves)
    BY <1>1 DEF InFlight, Succeeded, Saves
  <2> QED BY <1>2, <2>1 DEF AtMostOne
<1>4. \A t \in Tasks : tasks'[t] > 0 => Known(t)
  BY <1>1, <1>2 DEF KnownFirst, AfterSave
<1>5. /\ \A d \in Calls \ {c} : \A kinds : \A t \in Tasks :
             Succeeded(d, kinds, t)' = Succeeded(d, kinds, t)
      /\ \A d \in {c} : \A kinds : \A t \in Tasks : ~Succeeded(d, kinds, t)'
      /\ KnownFirst' /\ NewAndUnseen' /\ Deletions'
      /\ \A t \in Tasks \ doubtful : ListIsNew(t)'
  <2>1. /\ {c} \in SUBSET Calls /\ \A d \in Calls \ {c} : call'[d] = call[d]
        /\ \A d \in {c} : /\ call'[d].task = NoTask /\ call'[d].at # "answered"
                         /\ \A t \in Tasks : call'[d].rows[t] = 0
    BY <1>1, EndedCalls
  <2>2. /\ UNCHANGED <<db, deleted, doubtful, selectedTask>>
        /\ \A t \in Tasks : tasks'[t] > 0 => Known(t)
        /\ \A t \in Tasks : tasks[t] = 0 /\ tasks'[t] > 0 =>
               \A d \in Calls \ {c} : ~Succeeded(d, {"create"}, t)
    BY <1>1, <1>3, <1>4
  <2> QED BY <2>1, <2>2, OverCalls
<1>6. \A t \in Tasks : \A d \in Calls : ~Succeeded(d, Saves, t)'
  BY <1>3, <1>5
<1>7. Agreeing'
  <2> SUFFICES ASSUME NEW t \in Tasks \ doubtful, Converges(t) PROVE Converges(t)'
    BY <1>1, <1>2, <1>5 DEF Agreeing
  <2>1. CASE \E d \in Calls : Succeeded(d, {"delete"}, t)
    <3>1. PICK d \in Calls : Succeeded(d, {"delete"}, t)
      BY <2>1
    <3>2. d # c
      BY <1>1, <3>1 DEF Succeeded, Saves
    <3> QED BY <1>5, <3>1, <3>2 DEF Converges
  <2>2. CASE \E d \in Calls : Succeeded(d, Saves, t) /\ AfterSave(d)[t] = db[t]
    <3>1. PICK d \in Calls : Succeeded(d, Saves, t) /\ AfterSave(d)[t] = db[t]
      BY <2>2
    <3>2. d = c /\ call[c].ok
      BY <1>3, <3>1 DEF Succeeded
    <3>3. tasks'[t] = db[t]
      BY <1>1, <3>1, <3>2
    <3> QED BY <1>1, <1>6, <3>3 DEF Converges
  <2>3. CASE tasks[t] = db[t] /\ \A d \in Calls : ~Succeeded(d, Saves, t)
    <3>1. ~call[c].ok \/ call[c].task # t
      BY <1>1, <2>3 DEF Succeeded
    <3>2. tasks'[t] = tasks[t]
      BY <1>1, <3>1 DEF AfterSave
    <3> QED BY <1>1, <1>6, <2>3, <3>2 DEF Converges
  <2> QED BY <2>1, <2>2, <2>3 DEF Converges
<1>8. LogComes'
  BY <1>1, LogLater DEF Saves
<1> QED BY <1>5, <1>7, <1>8

LEMMA BoardDelete ==
    ASSUME BoardInv, OrderInv', NEW c \in Calls, DeleteAnswered(c)
    PROVE  KnownFirst' /\ NewAndUnseen' /\ Deletions' /\ Agreeing' /\ LogComes'
<1> DEFINE n == calls + 1
           over == IF call[c].ok THEN {c, n} ELSE {c}
<1>1. /\ call[c].kind = "delete" /\ call[c].at = "answered"
      /\ tasks' = (IF call[c].ok THEN [tasks EXCEPT ![call[c].task] = 0] ELSE tasks)
      /\ UNCHANGED <<db, deleted, deletedTasks, selectedTask, doubtful, loaded>>
  BY DEF DeleteAnswered, Arrives, server
<1>2. \/ /\ call[c].ok /\ call' = [Done(c) EXCEPT ![n] = Call("log", NoTask)]
         /\ logTrouble' = (logTrouble \/ InFlight({"log"}) # {})
      \/ ~call[c].ok /\ call' = Done(c) /\ logTrouble' = logTrouble
  BY DEF DeleteAnswered, Refreshes
<1>3. /\ Typed /\ KnownFirst /\ NewAndUnseen /\ Deletions /\ Agreeing /\ LogComes
      /\ AtMostOne({"delete"}) /\ Tables /\ calls \in Nat /\ n \in Calls /\ n # c
  <2>1. /\ confirming /\ calls \in 0 .. MaxCalls /\ Typed
    BY <1>1 DEF BoardInv, OrderInv, Orderly, ControlsFollowCalls, InFlight, Typed, TypeOK
  <2>2. calls < MaxCalls
    BY <2>1 DEF BoardInv, OrderInv, Orderly
  <2>3. n \in Calls
    BY <2>1, <2>2, BoundsAssumption DEF Calls
  <2>4. n # c
    <3>1. n > calls
      BY <2>1
    <3>2. call[n].kind = "none"
      BY <2>3, <3>1, NoCallTypes DEF BoardInv, OrderInv, Orderly, Numbered
    <3> QED BY <1>1, <3>2
  <2> QED BY <2>1, <2>3, <2>4 DEF BoardInv, OrderInv, Orderly, Typed, TypeOK, Tables
<1>4. call[n] = NoCall
  <2>1. n > calls
    BY <1>3
  <2> QED BY <1>3, <2>1 DEF BoardInv, OrderInv, Orderly, Numbered
<1>5. /\ over \in SUBSET Calls /\ \A d \in Calls \ over : call'[d] = call[d]
      /\ \A d \in over : /\ call'[d].task = NoTask /\ call'[d].at # "answered"
                         /\ \A t \in Tasks : call'[d].rows[t] = 0
      /\ call[c].ok => call'[n].kind = "log" /\ call'[n].at = "sent"
      /\ call'[c].kind = "none"
  <2>1. /\ Done(c) \in [Calls -> CallRecord] /\ \A d \in Calls \ {c} : Done(c)[d] = call[d]
        /\ Done(c)[c].kind = "none" /\ Done(c)[c].at = "done" /\ Done(c)[c].task = NoTask
        /\ \A t \in Tasks : Done(c)[c].rows[t] = 0
    BY <1>3, DoneCalls
  <2>2. CASE ~call[c].ok
    BY <1>2, <2>1, <2>2
  <2>3. ASSUME call[c].ok
        PROVE  /\ \A d \in Calls \ {c, n} : call'[d] = call[d]
               /\ call'[c] = Done(c)[c] /\ call'[n] = Call("log", NoTask)
    BY <1>2, <1>3, <2>1, <2>3
  <2>4. LET q == Call("log", NoTask) IN
        /\ q.kind = "log" /\ q.task = NoTask /\ q.at = "sent" /\ \A t \in Tasks : q.rows[t] = 0
    BY CallTypes
  <2>5. CASE call[c].ok
    BY <1>3, <2>1, <2>3, <2>4, <2>5
  <2> QED BY <2>2, <2>5
<1>6. \A t \in Tasks : (tasks'[t] > 0 => Known(t)) /\ ~(tasks[t] = 0 /\ tasks'[t] > 0)
  <2>1. tasks \in [Tasks -> Nat]
    BY <1>3 DEF Typed, TypeOK
  <2> QED BY <1>1, <1>3, <2>1 DEF KnownFirst
<1> HIDE DEF over
<1>7. /\ \A d \in Calls \ over : \A kinds : \A t \in Tasks :
             Succeeded(d, kinds, t)' = Succeeded(d, kinds, t)
      /\ \A d \in over : \A kinds : \A t \in Tasks : ~Succeeded(d, kinds, t)'
      /\ KnownFirst' /\ NewAndUnseen' /\ Deletions'
      /\ \A t \in Tasks \ doubtful : ListIsNew(t)'
  <2>1. /\ UNCHANGED <<db, deleted, doubtful, selectedTask>>
        /\ \A t \in Tasks : tasks'[t] > 0 => Known(t)
        /\ \A t \in Tasks : tasks[t] = 0 /\ tasks'[t] > 0 =>
               \A d \in Calls \ over : ~Succeeded(d, {"create"}, t)
    BY <1>1, <1>6
  <2> QED BY <1>5, <2>1, OverCalls
<1>8. \A d \in over : \A t \in Tasks : ~Succeeded(d, Saves, t)
  BY <1>1, <1>4, NoCallTypes DEF Succeeded, Saves, over
<1>9. \A d \in Calls \ {c} : \A t \in Tasks : ~Succeeded(d, {"delete"}, t)
  <2> SUFFICES ASSUME NEW d \in Calls \ {c}, NEW t \in Tasks, Succeeded(d, {"delete"}, t)
               PROVE  FALSE
    OBVIOUS
  <2>1. c \in InFlight({"delete"}) /\ d \in InFlight({"delete"})
    BY <1>1 DEF InFlight, Succeeded
  <2> QED BY <1>3, <2>1 DEF AtMostOne
<1>10. ASSUME NEW t \in Tasks \ doubtful, Converges(t), call[c].ok, call[c].task = t
       PROVE  Converges(t)'
  <2>1. Succeeded(c, {"delete"}, t)
    BY <1>1, <1>10 DEF Succeeded
  <2>2. db[t] = 0 /\ tasks'[t] = 0
    <3>1. t \in deleted
      BY <1>3, <2>1 DEF Deletions
    <3> QED BY <1>1, <1>3, <1>10, <3>1 DEF Tables, Typed, TypeOK
  <2>3. CASE \A d \in Calls : ~Succeeded(d, Saves, t)'
    BY <1>1, <2>2, <2>3 DEF Converges
  <2>4. ASSUME NEW d \in Calls, Succeeded(d, Saves, t)' PROVE Converges(t)'
    <3>1. d \notin over /\ Succeeded(d, Saves, t)
      BY <1>7, <2>4
    <3>2. d # c
      BY <3>1 DEF over
    <3>3. call[d].kind = "update"
      <4>1. call[d].kind # "create"
        <5>1. Succeeded(d, {"create"}, t) => call[c].task # t
          BY <1>3, <3>2 DEF NewAndUnseen
        <5> QED BY <1>10, <3>1, <5>1 DEF Succeeded
      <4> QED BY <3>1, <4>1 DEF Succeeded, Saves
    <3>4. AfterSave(d)'[t] = 0
      BY <1>5, <2>2, <3>1, <3>3 DEF AfterSave
    <3> QED BY <1>1, <2>2, <2>4, <3>4 DEF Converges
  <2> QED BY <2>3, <2>4
<1>11. ASSUME NEW t \in Tasks \ doubtful, Converges(t), ~call[c].ok \/ call[c].task # t
       PROVE  Converges(t)'
  <2>1. tasks'[t] = tasks[t]
    BY <1>1, <1>3, <1>11 DEF Typed, TypeOK
  <2>2. \A d \in Calls : ~Succeeded(d, {"delete"}, t)
    BY <1>9, <1>11 DEF Succeeded
  <2>3. CASE \E d \in Calls : Succeeded(d, Saves, t) /\ AfterSave(d)[t] = db[t]
    <3>1. PICK d \in Calls : Succeeded(d, Saves, t) /\ AfterSave(d)[t] = db[t]
      BY <2>3
    <3>2. d \notin over /\ call'[d] = call[d]
      BY <1>5, <1>8, <3>1
    <3>3. AfterSave(d)'[t] = db'[t]
      BY <1>1, <2>1, <3>1, <3>2 DEF AfterSave
    <3> QED BY <1>7, <3>1, <3>2, <3>3 DEF Converges
  <2>4. CASE tasks[t] = db[t] /\ \A d \in Calls : ~Succeeded(d, Saves, t)
    <3>1. \A d \in Calls : ~Succeeded(d, Saves, t)'
      BY <1>7, <2>4
    <3> QED BY <1>1, <2>1, <2>4, <3>1 DEF Converges
  <2> QED BY <1>11, <2>2, <2>3, <2>4 DEF Converges
<1>12. Agreeing'
  BY <1>1, <1>3, <1>7, <1>10, <1>11 DEF Agreeing
<1>13. LogComes'
  <2>1. CASE ~call[c].ok
    BY <1>1, <1>2, <2>1, LogLater
  <2>2. CASE call[c].ok
    <3> SUFFICES ASSUME ~logTrouble'
                 PROVE  AtMostOne({"log"})' /\ \A t \in deleted \ doubtful : Logged(t)'
      BY <1>1 DEF LogComes
    <3>1. InFlight({"log"}) = {}
      BY <1>2, <2>2
    <3>2. \A d \in InFlight({"log"})' : d = n
      BY <1>1, <1>5, <2>2, <3>1 DEF InFlight, over
    <3>3. n \in InFlight({"log"})' /\ call'[n].at = "sent"
      BY <1>3, <1>5, <2>2 DEF InFlight
    <3> QED BY <3>2, <3>3 DEF AtMostOne, Logged
  <2> QED BY <2>1, <2>2
<1> QED BY <1>7, <1>12, <1>13

LEMMA StepBoard == BoardInv /\ [Next]_vars => BoardInv'
<1> SUFFICES ASSUME BoardInv, [Next]_vars PROVE BoardInv'
  OBVIOUS
<1> DEFINE Goal == KnownFirst' /\ NewAndUnseen' /\ Deletions' /\ Agreeing' /\ LogComes'
<1>1. OrderInv'
  BY StepOrder DEF BoardInv
<1>2. ASSUME UNCHANGED vars PROVE Goal
  BY <1>2 DEF vars, server, shown, dialogs, memory, BoardInv, KnownFirst, Known, NewAndUnseen,
     Deletions, Agreeing, LogComes, Succeeded, ListIsNew, Arrives, Converges, AfterSave, Logged,
     InFlight, AtMostOne
<1>3. ASSUME NEW c \in Calls, Serve(c) PROVE Goal
  BY <1>3, KnownServe, NewServe, AgreeServe
<1>4. ASSUME NEW c \in Calls, Receive(c) PROVE Goal
  BY <1>1, <1>4, BoardList, BoardLog, BoardSave, BoardDelete DEF Receive
<1>5. ASSUME NEW c \in Calls, Submit(c) \/ Confirm(c) PROVE Goal
  BY <1>5, BoardSubmit
<1>6. ASSUME NEW t \in Tasks, OtherClient(t) PROVE Goal
  BY <1>6, BoardOther
<1>7. ASSUME \/ \E t \in Tasks : EditClick(t) \/ DeleteClick(t)
             \/ NewClick \/ CloseModal \/ CloseConfirm
      PROVE  Goal
  BY <1>7, BoardClick
<1> HIDE DEF Goal
<1>8. Goal
  BY <1>2, <1>3, <1>4, <1>5, <1>6, <1>7 DEF Next
<1> QED BY <1>1, <1>8 DEF BoardInv, Goal

\* However answers to saves and deletions overtake each other, the list ends up with
\* what the server has for every task nobody else touched (useTasks.js:37-54).
THEOREM ListIsRight == Spec => []ListAgrees
<1>1. BoardInv => ListAgrees
  <2> SUFFICES ASSUME BoardInv, loaded, InFlight({"create", "update", "delete"}) = {},
                      NEW t \in Tasks \ doubtful
               PROVE  tasks[t] = db[t]
    BY DEF ListAgrees
  <2>1. \A c \in Calls : ~Succeeded(c, {"delete"}, t) /\ ~Succeeded(c, Saves, t)
    BY DEF InFlight, Succeeded, Saves
  <2>2. Converges(t)
    BY DEF BoardInv, Agreeing
  <2> QED BY <2>1, <2>2 DEF Converges
<1> QED BY <1>1, InitBoard, StepBoard, PTL DEF Spec

\* The log read after a deletion brings what was deleted, unless it overlapped another
\* or failed (useTasks.js:52).
THEOREM LogIsRight == Spec => []LogShowsDeletions
<1>1. BoardInv => LogShowsDeletions
  <2> SUFFICES ASSUME BoardInv, ~logTrouble, InFlight({"log", "delete"}) = {},
                      NEW t \in deleted \ doubtful
               PROVE  t \in deletedTasks
    BY DEF LogShowsDeletions
  <2>1. InFlight({"log"}) = {} /\ \A c \in Calls : ~Succeeded(c, {"delete"}, t)
    BY DEF InFlight, Succeeded
  <2>2. Logged(t)
    BY DEF BoardInv, LogComes
  <2> QED BY <2>1, <2>2 DEF Logged
<1> QED BY <1>1, InitBoard, StepBoard, PTL DEF Spec

\* A row comes back to the list only with a list read, or as a task just created, and
\* neither concerns a deleted one (useTasks.js:25, 39, 45).
THEOREM DeletedStays == Spec => DeletedStaysGone
<1> DEFINE Gone == \A t \in Tasks \ doubtful' : tasks[t] = 0 /\ tasks'[t] > 0 => t \notin deleted
<1>1. ASSUME BoardInv, [Next]_vars PROVE [Gone]_vars
  <2> SUFFICES ASSUME Next PROVE Gone
    BY <1>1
  <2>1. /\ Agreeing /\ NewAndUnseen /\ Tables /\ tasks \in [Tasks -> Nat]
    BY <1>1 DEF BoardInv, OrderInv, Typed, TypeOK, Tables
  <2>2. CASE \E c \in Calls : ListAnswered(c)
    <3>1. PICK c \in Calls : ListAnswered(c)
      BY <2>2
    <3>2. /\ call[c].kind = "list" /\ call[c].at = "answered" /\ doubtful' = doubtful
          /\ tasks' = (IF call[c].ok THEN call[c].rows ELSE tasks)
      BY <3>1 DEF ListAnswered, Arrives
    <3> QED BY <2>1, <3>2 DEF Agreeing, ListIsNew, Arrives, Tables
  <2>3. CASE \E c \in Calls : SaveAnswered(c)
    <3>1. PICK c \in Calls : SaveAnswered(c)
      BY <2>3
    <3>2. /\ call[c].at = "answered" /\ doubtful' = doubtful
          /\ tasks' = (IF call[c].ok THEN AfterSave(c) ELSE tasks)
      BY <3>1 DEF SaveAnswered, Arrives, memory
    <3>3. ASSUME NEW t \in Tasks \ doubtful, tasks[t] = 0, tasks'[t] > 0 PROVE t \notin deleted
      <4>1. call[c].ok
        BY <3>2, <3>3
      <4>2. Succeeded(c, {"create"}, t)
        BY <3>2, <3>3, <4>1 DEF Succeeded, AfterSave
      <4>3. db[t] > 0
        BY <2>1, <3>3, <4>2 DEF NewAndUnseen
      <4> QED BY <2>1, <4>3 DEF Tables
    <3> QED BY <3>2, <3>3
  <2>4. CASE \E c \in Calls : DeleteAnswered(c)
    BY <2>1, <2>4 DEF DeleteAnswered
  <2>5. CASE UNCHANGED tasks
    BY <2>1, <2>5
  <2>6. \/ UNCHANGED tasks
        \/ \E c \in Calls : ListAnswered(c) \/ SaveAnswered(c) \/ DeleteAnswered(c)
    BY DEF Next, Serve, Receive, LogAnswered, Submit, Confirm, OtherClient, EditClick,
       DeleteClick, NewClick, CloseModal, CloseConfirm, shown
  <2> QED BY <2>2, <2>3, <2>4, <2>5, <2>6
<1>2. Spec => []BoardInv
  BY InitBoard, StepBoard, PTL DEF Spec
<1>3. BoardInv /\ [Next]_vars => [Gone]_vars
  BY <1>1
<1> QED BY <1>2, <1>3, PTL DEF Spec, DeletedStaysGone

-----------------------------------------------------------------------------
(* The form and the schemas of the API *)

LEMMA TrimmedTexts ==
    ASSUME NEW t \in Texts
    PROVE  /\ Trim(t) \in Texts /\ Trim(Trim(t)) = Trim(t) /\ IsBlank(Trim(t)) = IsBlank(t)
           /\ Size(Trim(t)) \in Nat /\ Size(t) \in Nat /\ Size(Trim(t)) <= Size(t)
           /\ Size(Trim(t)) = 0 <=> IsBlank(t)
           /\ t # Nothing /\ Trim(t) # Nothing
<1>1. t.pad \in Nat /\ t.body \in Bodies /\ Length[t.body] \in Nat
  BY BodiesAssumption DEF Texts
<1>2. Trim(t) = [pad |-> 0, body |-> t.body]
  BY DEF Trim, Texts
<1>3. Trim(t) \in Texts
  BY <1>1, <1>2 DEF Texts
<1>4. Trim(Trim(t)) = Trim(t)
  BY <1>2 DEF Trim
<1> QED BY <1>1, <1>2, <1>3, <1>4, BodiesAssumption, NothingAssumption DEF Size, IsBlank

\* A date that went through the form once comes back from it unchanged.
LEMMA ThroughTheClock ==
    ASSUME NEW d \in Instants
    PROVE  /\ d # Nothing /\ Shown[d] \in Minutes /\ Shown[d] # Nothing
           /\ Meant[Shown[d]] \in Instants /\ Meant[Shown[d]] # Nothing
           /\ Meant[Shown[d]] <= d /\ Shown[Meant[Shown[d]]] = Shown[d]
<1>1. Shown[d] \in Minutes /\ Meant[Shown[d]] \in Instants
  BY ClockAssumption
<1>2. d # Nothing /\ Shown[d] # Nothing /\ Meant[Shown[d]] # Nothing
  BY <1>1, DatesAssumption, Zenon
<1> QED BY <1>1, <1>2, ClockAssumption

LEMMA FormTypes ==
    ASSUME NEW f \in Forms
    PROVE  /\ f.title \in Texts /\ f.description \in Texts /\ f.status \in Statuses
           /\ Payload(f) \in Payloads
<1>1. /\ f.title \in Texts /\ f.description \in Texts /\ f.status \in Statuses
      /\ f.due \in Minutes \cup {Nothing}
  BY DEF Forms
<1>2. Trim(f.title) \in Texts /\ Trim(f.description) \in Texts
  BY <1>1, TrimmedTexts
<1> QED BY <1>1, <1>2, ClockAssumption DEF Payload, Payloads

\* What the form lets through the schemas let through, and it is stored as it was sent:
\* trimming in both places and checking before (TaskModal.jsx:38-63) and after the trim
\* (task.model.js:10-29) makes no difference for texts the form made.
THEOREM FormTasksAreAccepted ==
    ASSUME NEW f \in Forms, FormAccepts(f), f.due # Nothing => Meant[f.due] <= LastIso
    PROVE  SchemaAccepts(Payload(f)) /\ Stored(Payload(f)) = Payload(f)
<1> DEFINE p == Payload(f)
<1>1. /\ f.title \in Texts /\ f.description \in Texts
      /\ p.title = Trim(f.title)
      /\ p.description = IF IsBlank(f.description) THEN Nothing ELSE Trim(f.description)
      /\ p.due = IF f.due = Nothing THEN Nothing ELSE Meant[f.due]
      /\ p \in Payloads
  BY FormTypes DEF Payload
<1>2. /\ 1 <= Size(p.title) /\ Size(p.title) <= MaxTitle
      /\ Trim(p.title) = p.title
  BY <1>1, TrimmedTexts, TextLimitsAssumption DEF FormAccepts
<1>3. p.description # Nothing => /\ Size(p.description) <= MaxDescription
                                 /\ Trim(p.description) = p.description
  BY <1>1, TrimmedTexts, TextLimitsAssumption DEF FormAccepts
<1>4. SchemaAccepts(p)
  BY <1>1, <1>2, <1>3 DEF SchemaAccepts
<1> HIDE DEF p
<1>5. Stored(p) = p
  BY <1>1, <1>2, <1>3 DEF Stored, Payloads
<1> QED BY <1>4, <1>5 DEF p

LEMMA StoredTexts ==
    ASSUME NEW p \in Payloads
    PROVE  LET row == Stored(p) IN
           /\ row \in Payloads
           /\ row.title = Trim(p.title) /\ row.due = p.due /\ row.status = p.status
           /\ p.description = Nothing => row.description = Nothing
           /\ p.description # Nothing =>
                 p.description \in Texts /\ row.description = Trim(p.description)
<1>1. /\ p.title \in Texts /\ p.description \in Texts \cup {Nothing}
      /\ p.due \in Instants \cup {Nothing} /\ p.status \in Statuses
  BY DEF Payloads
<1>2. Trim(p.title) \in Texts /\ (p.description # Nothing => Trim(p.description) \in Texts)
  BY <1>1, TrimmedTexts
<1> QED BY <1>1, <1>2 DEF Stored, Payloads

\* A stored task opens as a form that can be saved exactly if its title is not blank. The
\* schemas take a title of white space, which is stored as "" (task.model.js:16-18).
THEOREM OpenedFormsAreAccepted ==
    ASSUME NEW p \in Payloads, SchemaAccepts(p)
    PROVE  FormAccepts(FormOf(Stored(p))) <=> ~IsBlank(p.title)
<1> DEFINE row == Stored(p)
           f == FormOf(row)
<1>1. p.title \in Texts
  BY DEF Payloads
<1>2. /\ f.title = Trim(p.title)
      /\ f.description = IF p.description = Nothing THEN EmptyText ELSE Trim(p.description)
  <2>1. p.description # Nothing => Trim(p.description) # Nothing
    BY StoredTexts, TrimmedTexts
  <2> QED BY <2>1, StoredTexts DEF FormOf
<1>3. Size(f.title) <= MaxTitle /\ (IsBlank(f.title) <=> IsBlank(p.title))
  BY <1>1, <1>2, TrimmedTexts, TextLimitsAssumption DEF SchemaAccepts
<1>4. Size(f.description) <= MaxDescription
  <2>1. CASE p.description = Nothing
    <3>1. Size(EmptyText) = 0
      BY BodiesAssumption DEF Size, EmptyText
    <3> QED BY <1>2, <2>1, <3>1, TextLimitsAssumption
  <2>2. CASE p.description # Nothing
    <3>1. p.description \in Texts /\ Size(p.description) <= MaxDescription
      BY <2>2, StoredTexts DEF SchemaAccepts
    <3> QED BY <1>2, <2>2, <3>1, TrimmedTexts, TextLimitsAssumption
  <2> QED BY <2>1, <2>2
<1> QED BY <1>3, <1>4 DEF FormAccepts

\* Whoever opens a task and saves it untouched changes at most its due date, to an
\* earlier time, and an empty description to null; from then on nothing changes, although
\* dates are cut to local minutes that two instants may share (TaskModal.jsx:15-20, 61).
THEOREM ResavingSettles ==
    ASSUME NEW p \in Payloads
    PROVE  LET row == Stored(p)
               again == Resaved(row)
           IN  /\ again.title = row.title /\ again.status = row.status
               /\ row.description \notin {Nothing, EmptyText}
                     => again.description = row.description
               /\ row.due # Nothing => again.due <= row.due
               /\ Resaved(again) = again
<1> DEFINE row == Stored(p)
           f == FormOf(row)
           again == Resaved(row)
           g == FormOf(again)
<1>1. /\ row \in Payloads /\ row.title = Trim(p.title) /\ row.title \in Texts
      /\ row.description \in Texts \cup {Nothing} /\ row.due \in Instants \cup {Nothing}
      /\ row.status \in Statuses
      /\ row.description # Nothing => Trim(row.description) = row.description
      /\ Trim(row.title) = row.title
  <2>1. p.title \in Texts
    BY DEF Payloads
  <2>2. row \in Payloads /\ row.title = Trim(p.title)
    BY StoredTexts
  <2>3. row.description # Nothing => Trim(row.description) = row.description
    BY StoredTexts, TrimmedTexts
  <2> QED BY <2>1, <2>2, <2>3, TrimmedTexts DEF Payloads
<1>2. EmptyText \in Texts /\ IsBlank(EmptyText) /\ Trim(EmptyText) = EmptyText
  BY BodiesAssumption DEF EmptyText, Texts, IsBlank, Trim
<1>3. ASSUME NEW t \in Texts, Trim(t) = t, IsBlank(t) PROVE t = EmptyText
  BY <1>3 DEF Texts, Trim, IsBlank, EmptyText
<1> HIDE DEF row
<1>4. /\ f.title = row.title /\ f.status = row.status
      /\ f.description = IF row.description = Nothing THEN EmptyText ELSE row.description
      /\ f.due = IF row.due = Nothing THEN Nothing ELSE Shown[row.due]
  BY DEF FormOf
<1>5. /\ f.description \in Texts /\ Trim(f.description) = f.description /\ f \in Forms
      /\ f.due # Nothing <=> row.due # Nothing
  <2>1. f.description \in Texts /\ Trim(f.description) = f.description
    BY <1>1, <1>2, <1>4
  <2>2. f.due \in Minutes \cup {Nothing} /\ (f.due # Nothing <=> row.due # Nothing)
    BY <1>1, <1>4, ThroughTheClock
  <2>3. f = [title |-> f.title, description |-> f.description, due |-> f.due,
             status |-> f.status]
    BY DEF FormOf
  <2>4. f.title \in Texts /\ f.status \in Statuses
    BY <1>1, <1>4
  <2> HIDE DEF f
  <2> QED BY <2>1, <2>2, <2>3, <2>4 DEF Forms
<1>6. /\ again.title = row.title /\ again.status = row.status
      /\ again.description = IF IsBlank(f.description) THEN Nothing ELSE f.description
      /\ again.due = IF row.due = Nothing THEN Nothing ELSE Meant[Shown[row.due]]
      /\ again \in Payloads
  <2> DEFINE q == Payload(f)
  <2>1. /\ q.title = row.title /\ q.status = row.status
        /\ q.description = IF IsBlank(f.description) THEN Nothing ELSE f.description
        /\ q.due = IF row.due = Nothing THEN Nothing ELSE Meant[Shown[row.due]]
    BY <1>1, <1>4, <1>5 DEF Payload
  <2>2. q \in Payloads
    BY <1>5, FormTypes
  <2> HIDE DEF q, f
  <2>3. Stored(q) \in Payloads /\ Stored(q).title = Trim(q.title)
        /\ Stored(q).due = q.due /\ Stored(q).status = q.status
        /\ (q.description = Nothing => Stored(q).description = Nothing)
        /\ (q.description # Nothing => Stored(q).description = Trim(q.description))
    BY <2>2, StoredTexts
  <2>4. again = Stored(q)
    BY DEF Resaved, q, f
  <2> QED BY <1>1, <1>5, <2>1, <2>3, <2>4
<1> HIDE DEF again, f
<1>7. row.description \notin {Nothing, EmptyText} => again.description = row.description
  BY <1>1, <1>3, <1>4, <1>6
<1>8. row.due # Nothing => again.due <= row.due
  BY <1>1, <1>6, ClockAssumption
<1>9. /\ g.title = again.title /\ g.status = again.status
      /\ g.description = IF again.description = Nothing THEN EmptyText ELSE again.description
      /\ g.due = IF again.due = Nothing THEN Nothing ELSE Shown[again.due]
      /\ g.description \in Texts /\ Trim(g.description) = g.description
      /\ IF IsBlank(g.description) THEN again.description = Nothing
                                   ELSE again.description = g.description
  BY <1>2, <1>5, <1>6 DEF FormOf
<1>10. /\ again.due = Nothing <=> row.due = Nothing
       /\ again.due = IF g.due = Nothing THEN Nothing ELSE Meant[g.due]
  <2>1. CASE row.due = Nothing
    BY <1>6, <1>9, <2>1
  <2>2. CASE row.due # Nothing
    <3>1. row.due \in Instants /\ again.due = Meant[Shown[row.due]]
      BY <1>1, <1>6, <2>2
    <3>2. again.due # Nothing /\ Shown[again.due] = Shown[row.due] /\ Shown[row.due] # Nothing
      BY <3>1, ThroughTheClock
    <3> HIDE DEF g
    <3> QED BY <1>9, <2>2, <3>1, <3>2
  <2> QED BY <2>1, <2>2
<1>11. Payload(g) = again
  <2>1. /\ Payload(g).title = again.title /\ Payload(g).description = again.description
        /\ Payload(g).due = again.due /\ Payload(g).status = again.status
    BY <1>1, <1>6, <1>9, <1>10 DEF Payload
  <2>2. Payload(g) = [title |-> Payload(g).title, description |-> Payload(g).description,
                      due |-> Payload(g).due, status |-> Payload(g).status]
    BY DEF Payload
  <2>3. again = [title |-> again.title, description |-> again.description,
                 due |-> again.due, status |-> again.status]
    BY <1>6 DEF Payloads
  <2> HIDE DEF g
  <2> QED BY <2>1, <2>2, <2>3
<1>12. Stored(again) = again
  BY <1>1, <1>5, <1>6 DEF Stored, Payloads
<1>13. Resaved(again) = again
  BY <1>11, <1>12 DEF Resaved
<1> QED BY <1>6, <1>7, <1>8, <1>13 DEF row, again
================================================================================
