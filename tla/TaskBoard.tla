------------------------------ MODULE TaskBoard ------------------------------
(***************************************************************************)
(* The dashboard of one signed-in browser tab: the task list and deletion  *)
(* log it shows (useTasks.js), the edit form and the delete dialog         *)
(* (Dashboard.jsx, TaskModal.jsx, ConfirmDialog.jsx), its calls to the     *)
(* API, and other clients that change the same tasks.                      *)
(*                                                                         *)
(* A task's content is a version number, 0 stands for no task; ids are     *)
(* used once.  How a handler of the API interleaves with others is TaskApi *)
(* and the renewal of tokens is Session: here a call takes effect in one   *)
(* step, or fails.                                                         *)
(***************************************************************************)
EXTENDS Naturals, FiniteSets

CONSTANTS
    Tasks,          \* ids of tasks
    NoTask,         \* selectedTask = null
    MaxCalls,       \* bound on the calls of the tab
    MaxOthers,      \* bound on the changes other clients make
    Faults          \* what may go wrong, see FaultKinds

FaultKinds ==
    {"fails",           \* a call is refused or fails before it has any effect
     "answer_lost"}     \* a call takes effect and the tab sees it fail

ASSUME NamesAssumption == NoTask \notin Tasks
ASSUME BoundsAssumption == MaxCalls \in Nat \ {0, 1} /\ MaxOthers \in Nat /\ Faults \subseteq FaultKinds

Calls == 1 .. MaxCalls

VARIABLES
    db,             \* the user's rows of tasks
    deleted,        \* and of deleted_tasks
    tasks,          \* the list shown
    deletedTasks,   \* the deletion log shown
    loading,
    modal, confirm, \* isModalOpen, isConfirmOpen
    selectedTask,   \* of both, a task or NoTask
    submitting, confirming,     \* `submitting` of the form and of the dialog
    call, calls,    \* the calls made, calls of them, and the answers under way
    doubtful,       \* tasks changed by others, or by a call whose answer was lost
    loaded, logTrouble, \* the list came; two log reads overlapped, or one failed
    others          \* changes by others so far

server == <<db, deleted>>
shown == <<tasks, deletedTasks, loading>>
dialogs == <<modal, confirm, selectedTask, submitting, confirming>>
memory == <<doubtful, loaded, logTrouble>>
vars == <<server, shown, dialogs, call, calls, memory, others>>

Empty == [t \in Tasks |-> 0]
NoCall == [kind |-> "none", task |-> NoTask, at |-> "unsent", ok |-> FALSE, rows |-> Empty,
           log |-> {}]
Call(kind, t) == [NoCall EXCEPT !.kind = kind, !.task = t, !.at = "sent"]

\* Besides the types: no task is both in the table and in the log.
TypeOK ==
    /\ db \in [Tasks -> Nat] /\ deleted \subseteq Tasks /\ \A t \in deleted : db[t] = 0
    /\ tasks \in [Tasks -> Nat] /\ deletedTasks \subseteq Tasks
    /\ {loading, modal, confirm, submitting, confirming, loaded, logTrouble} \subseteq BOOLEAN
    /\ selectedTask \in Tasks \cup {NoTask}
    /\ calls \in 0 .. MaxCalls /\ others \in 0 .. MaxOthers
    /\ doubtful \subseteq Tasks
    /\ \A c \in Calls :
          /\ call[c].kind \in {"none", "list", "log", "create", "update", "delete"}
          /\ call[c].at \in {"unsent", "sent", "answered", "done"}
          /\ call[c].task \in Tasks \cup {NoTask}
          /\ call[c].ok \in BOOLEAN /\ call[c].rows \in [Tasks -> Nat] /\ call[c].log \subseteq Tasks

\* The page mounts: fetchTasks and fetchDeletedTasks are sent, each once.  (In development
\* StrictMode, main.jsx:7, runs the effects of a mount twice; the build does not.)
Init ==
    /\ db \in [Tasks -> {0, 1}] /\ deleted = {}
    /\ tasks = Empty /\ deletedTasks = {} /\ loading = TRUE
    /\ modal = FALSE /\ confirm = FALSE /\ selectedTask = NoTask
    /\ submitting = FALSE /\ confirming = FALSE
    /\ doubtful = {} /\ loaded = FALSE /\ logTrouble = FALSE /\ others = 0
    /\ calls = 2
    /\ call = [c \in Calls |-> CASE c = 1 -> Call("list", NoTask) [] c = 2 -> Call("log", NoTask)
                                 [] OTHER -> NoCall]

InFlight(kinds) == {c \in Calls : call[c].kind \in kinds /\ call[c].at \in {"sent", "answered"}}

-----------------------------------------------------------------------------
(* The API *)

Fresh == {t \in Tasks : db[t] = 0 /\ t \notin deleted}

FaultyExists(t) == TRUE                                 \* upsert
Exists(t) == db[t] > 0

\* The call of slot c is carried out for task t and answered; the tab may not hear of it.
Answer(c, t, rows, log) ==
    \/ /\ call' = [call EXCEPT ![c].at = "answered", ![c].ok = TRUE, ![c].task = t,
                               ![c].rows = rows, ![c].log = log]
       /\ UNCHANGED doubtful
    \/ /\ "answer_lost" \in Faults
       /\ call' = [call EXCEPT ![c].at = "answered", ![c].task = t]
       /\ doubtful' = doubtful \cup ({t} \ {NoTask})

Row(t, version) == [Empty EXCEPT ![t] = version]

ServeRead(c) ==
    /\ call[c].kind \in {"list", "log"}
    /\ IF call[c].kind = "list" THEN Answer(c, NoTask, db, {}) ELSE Answer(c, NoTask, Empty, deleted)
    /\ UNCHANGED server

ServeCreate(c) ==
    /\ call[c].kind = "create"
    /\ \E t \in Fresh :
          /\ db' = [db EXCEPT ![t] = 1]
          /\ Answer(c, t, Row(t, 1), {})
    /\ UNCHANGED deleted

ServeUpdate(c) ==
    LET t == call[c].task IN
    /\ call[c].kind = "update" /\ Exists(t)
    /\ db' = [db EXCEPT ![t] = @ + 1]
    /\ Answer(c, t, Row(t, db[t] + 1), {})
    /\ UNCHANGED deleted

\* The trigger of migration 004 writes the log in the same transaction.
ServeDelete(c) ==
    LET t == call[c].task IN
    /\ call[c].kind = "delete" /\ Exists(t)
    /\ db' = [db EXCEPT ![t] = 0]
    /\ deleted' = deleted \cup {t}
    /\ Answer(c, t, Empty, {})

\* The task is gone, or no effect and an error.
Refuse(c) ==
    /\ "fails" \in Faults \/ (call[c].kind \in {"update", "delete"} /\ ~Exists(call[c].task))
    /\ call' = [call EXCEPT ![c].at = "answered"]
    /\ UNCHANGED <<server, doubtful>>

Serve(c) ==
    /\ call[c].at = "sent"
    /\ ServeRead(c) \/ ServeCreate(c) \/ ServeUpdate(c) \/ ServeDelete(c) \/ Refuse(c)
    /\ UNCHANGED <<shown, dialogs, calls, loaded, logTrouble, others>>

\* Another client, or another tab, creates, updates or deletes t.
OtherClient(t) ==
    /\ others < MaxOthers
    /\ others' = others + 1
    /\ doubtful' = doubtful \cup {t}
    /\ \/ t \notin deleted /\ db' = [db EXCEPT ![t] = @ + 1] /\ UNCHANGED deleted
       \/ Exists(t) /\ db' = [db EXCEPT ![t] = 0] /\ deleted' = deleted \cup {t}
    /\ UNCHANGED <<shown, dialogs, call, calls, loaded, logTrouble>>

-----------------------------------------------------------------------------
(* The user.  While it loads the dashboard is a spinner; an open dialog covers it. *)

FaultyAtHand == ~modal /\ ~confirm                      \* the list is shown while it loads
AtHand == ~loading /\ ~modal /\ ~confirm

\* The bound on calls leaves room for the log read that follows a deletion.
Send(c, kind, t) ==
    /\ c = calls + 1
    /\ c + Cardinality(InFlight({"delete"})) + (IF kind = "delete" THEN 1 ELSE 0) <= MaxCalls
    /\ calls' = c
    /\ call' = [call EXCEPT ![c] = Call(kind, t)]

\* handleNewClick
NewClick ==
    /\ AtHand
    /\ modal' = TRUE /\ selectedTask' = NoTask
    /\ UNCHANGED <<server, shown, confirm, submitting, confirming, call, calls, memory, others>>

\* handleEditClick
EditClick(t) ==
    /\ AtHand /\ tasks[t] > 0
    /\ modal' = TRUE /\ selectedTask' = t
    /\ UNCHANGED <<server, shown, confirm, submitting, confirming, call, calls, memory, others>>

\* handleDeleteClick
DeleteClick(t) ==
    /\ AtHand /\ tasks[t] > 0
    /\ confirm' = TRUE /\ selectedTask' = t
    /\ UNCHANGED <<server, shown, modal, submitting, confirming, call, calls, memory, others>>

\* The overlay and the cross close a dialog also while its call is under way.
CloseModal ==
    /\ modal /\ modal' = FALSE
    /\ UNCHANGED <<server, shown, confirm, selectedTask, submitting, confirming, call, calls, memory, others>>

CloseConfirm ==
    /\ confirm /\ confirm' = FALSE
    /\ UNCHANGED <<server, shown, modal, selectedTask, submitting, confirming, call, calls, memory, others>>

\* handleSubmit and handleSaveTask, which has the selected task of this moment
Submit(c) ==
    /\ modal /\ ~submitting
    /\ Send(c, IF selectedTask = NoTask THEN "create" ELSE "update", selectedTask)
    /\ submitting' = TRUE
    /\ UNCHANGED <<server, shown, modal, confirm, selectedTask, confirming, memory, others>>

\* handleConfirm and handleConfirmDelete
Confirm(c) ==
    /\ confirm /\ ~confirming
    /\ Send(c, "delete", selectedTask)
    /\ confirming' = TRUE
    /\ UNCHANGED <<server, shown, modal, confirm, selectedTask, submitting, memory, others>>

-----------------------------------------------------------------------------
(* Answers *)

Arrives(c, kinds) == call[c].kind \in kinds /\ call[c].at = "answered"
Done(c) == [call EXCEPT ![c] = [NoCall EXCEPT !.at = "done"]]

\* fetchTasks; on an error the list stays as it is.
ListAnswered(c) ==
    /\ Arrives(c, {"list"})
    /\ tasks' = IF call[c].ok THEN call[c].rows ELSE tasks
    /\ loading' = FALSE
    /\ loaded' = call[c].ok
    /\ call' = Done(c)
    /\ UNCHANGED <<server, deletedTasks, dialogs, calls, doubtful, logTrouble, others>>

\* fetchDeletedTasks; an error is not shown.
LogAnswered(c) ==
    /\ Arrives(c, {"log"})
    /\ deletedTasks' = IF call[c].ok THEN call[c].log ELSE deletedTasks
    /\ logTrouble' = (logTrouble \/ ~call[c].ok)
    /\ call' = Done(c)
    /\ UNCHANGED <<server, tasks, loading, dialogs, calls, doubtful, loaded, others>>

FaultyAfterSave(c) ==                                   \* adds a task that is not there
    [tasks EXCEPT ![call[c].task] = call[c].rows[call[c].task]]
AfterSave(c) ==
    [t \in Tasks |-> IF t = call[c].task /\ (call[c].kind = "create" \/ tasks[t] > 0)
                     THEN call[c].rows[t] ELSE tasks[t]]

FaultySubmittingAfter(ok) == ~ok                        \* not in `finally`
SubmittingAfter(ok) == FALSE

\* createTask, updateTask and the end of handleSubmit: onClose closes whatever is open.
SaveAnswered(c) ==
    /\ Arrives(c, {"create", "update"})
    /\ tasks' = IF call[c].ok THEN AfterSave(c) ELSE tasks
    /\ modal' = (modal /\ ~call[c].ok)
    /\ submitting' = SubmittingAfter(call[c].ok)
    /\ call' = Done(c)
    /\ UNCHANGED <<server, deletedTasks, loading, confirm, selectedTask, confirming,
                   calls, memory, others>>

FaultyRefreshes(c) == deletedTasks = {}                 \* only while the log is empty
Refreshes(c) == TRUE

\* deleteTask and the end of handleConfirm, which closes the dialog in any case.
DeleteAnswered(c) ==
    /\ Arrives(c, {"delete"})
    /\ IF call[c].ok /\ Refreshes(c)
       THEN /\ calls' = calls + 1
            /\ call' = [Done(c) EXCEPT ![calls + 1] = Call("log", NoTask)]
            /\ logTrouble' = (logTrouble \/ InFlight({"log"}) # {})
       ELSE call' = Done(c) /\ UNCHANGED <<calls, logTrouble>>
    /\ tasks' = IF call[c].ok THEN [tasks EXCEPT ![call[c].task] = 0] ELSE tasks
    /\ confirm' = FALSE /\ confirming' = FALSE
    /\ UNCHANGED <<server, deletedTasks, loading, modal, selectedTask, submitting,
                   doubtful, loaded, others>>

Receive(c) == ListAnswered(c) \/ LogAnswered(c) \/ SaveAnswered(c) \/ DeleteAnswered(c)

Next ==
    \/ \E c \in Calls : Serve(c) \/ Receive(c) \/ Submit(c) \/ Confirm(c)
    \/ \E t \in Tasks : OtherClient(t) \/ EditClick(t) \/ DeleteClick(t)
    \/ NewClick \/ CloseModal \/ CloseConfirm

Spec == Init /\ [][Next]_vars

-----------------------------------------------------------------------------
(* Properties *)

\* When nothing is being saved or deleted the list shows what the server has, for every
\* task that nobody else touched and no lost answer concerns, however updates and
\* deletions of one task overtook each other (useTasks.js:37-54).
ListAgrees ==
    loaded /\ InFlight({"create", "update", "delete"}) = {} =>
        \A t \in Tasks \ doubtful : tasks[t] = db[t]

\* A deleted task does not come back to the list, not even for a moment, when answers
\* to a save and a deletion cross (useTasks.js:45, 51).
DeletedStaysGone ==
    [][\A t \in Tasks \ doubtful' : tasks[t] = 0 /\ tasks'[t] > 0 => t \notin deleted]_vars

\* The deletion log shows what was deleted in this tab as soon as nothing is under way,
\* if no two reads of the log overlapped and none failed (useTasks.js:52, "Refresh the
\* deletion log so the home page reflects the new entry").
LogShowsDeletions ==
    ~logTrouble /\ InFlight({"log", "delete"}) = {} => deleted \ doubtful \subseteq deletedTasks

\* Spinner and disabled buttons stand for a call under way, whatever fails and however
\* often a dialog is closed before its call is answered: no control stays stuck, and
\* none is free for a second call (useTasks.js:22, TaskModal.jsx:69, ConfirmDialog.jsx:16).
ControlsFollowCalls ==
    /\ loading = (InFlight({"list"}) # {})
    /\ submitting = (InFlight({"create", "update"}) # {})
    /\ confirming = (InFlight({"delete"}) # {})
=============================================================================
