------------------------------- MODULE TaskInput -------------------------------
(***************************************************************************)
(* A task on its way from the form of the dashboard (TaskModal.jsx) over   *)
(* the schemas of the API (task.model.js, validate.js) to the row it       *)
(* becomes, and back into the form: who checks what, who trims, and what   *)
(* is left of a date.                                                      *)
(*                                                                         *)
(* A text is the white space around it and what trim() leaves; only sizes  *)
(* are checked.  An instant is a point in time as the database keeps it,   *)
(* a minute what an input of type datetime-local holds, in local time.     *)
(***************************************************************************)
EXTENDS Integers

CONSTANTS
    Bodies,         \* texts without white space around them
    EmptyBody,      \* the empty one
    Length,         \* Length[b]: characters
    Bytes,          \* Bytes[b]: bytes in a JSON body
    MaxTitle,       \* 255
    MaxDescription, \* 5000
    MaxBody,        \* what 10kb leave for title and description
    Instants,
    LastIso,        \* the end of the year 9999: later dates are no ISO 8601 for zod
    Minutes,
    Shown,          \* Shown[d]: the local minute the form shows for instant d
    Meant,          \* Meant[m]: the instant new Date(m) gives for local minute m
    Nothing         \* null

Statuses == {"PENDING", "IN_PROGRESS", "COMPLETED"}

ASSUME BodiesAssumption ==
    /\ EmptyBody \in Bodies /\ Length \in [Bodies -> Nat] /\ Bytes \in [Bodies -> Nat]
    /\ \A b \in Bodies : Length[b] = 0 <=> b = EmptyBody
ASSUME TextLimitsAssumption == MaxTitle \in Nat /\ MaxDescription \in Nat /\ MaxBody \in Nat
ASSUME DatesAssumption == Instants \subseteq Int /\ LastIso \in Int /\ Nothing \notin Instants \cup Minutes

\* A date in the form is cut to its minute.  In the hour that is repeated when clocks go
\* back one local minute stands for two instants and means the first of them.
ASSUME ClockAssumption ==
    /\ Shown \in [Instants -> Minutes] /\ Meant \in [Minutes -> Instants]
    /\ \A d \in Instants : Meant[Shown[d]] <= d /\ Shown[Meant[Shown[d]]] = Shown[d]

Texts == [pad : Nat, body : Bodies]
ASSUME NothingAssumption == Nothing \notin Texts

Trim(t) == [t EXCEPT !.pad = 0]
Size(t) == t.pad + Length[t.body]
IsBlank(t) == t.body = EmptyBody
EmptyText == [pad |-> 0, body |-> EmptyBody]

Forms == [title : Texts, description : Texts, due : Minutes \cup {Nothing}, status : Statuses]
Payloads == [title : Texts, description : Texts \cup {Nothing}, due : Instants \cup {Nothing},
             status : Statuses]

-----------------------------------------------------------------------------
(* The form *)

\* validate(): the title must have something in it; both fields have a maximum.
FormAccepts(f) ==
    /\ ~IsBlank(f.title) /\ Size(f.title) <= MaxTitle
    /\ Size(f.description) <= MaxDescription

\* handleSubmit: what is sent.
Payload(f) ==
    [title |-> Trim(f.title),
     description |-> IF IsBlank(f.description) THEN Nothing ELSE Trim(f.description),
     due |-> IF f.due = Nothing THEN Nothing ELSE Meant[f.due],
     status |-> f.status]

\* useEffect on [task, isOpen]: the form of a stored task.
FormOf(row) ==
    [title |-> row.title,
     description |-> IF row.description = Nothing THEN EmptyText ELSE row.description,
     due |-> IF row.due = Nothing THEN Nothing ELSE Shown[row.due],
     status |-> row.status]

-----------------------------------------------------------------------------
(* The API *)

\* express.json({ limit: '10kb' }) comes before every route.
Fits(p) ==
    Bytes[p.title.body] + p.title.pad
        + (IF p.description = Nothing THEN 0
           ELSE Bytes[p.description.body] + p.description.pad) <= MaxBody

\* createTaskSchema and updateTaskSchema: min and max look at the text as it was sent,
\* trim() comes after them.
SchemaAccepts(p) ==
    /\ 1 <= Size(p.title) /\ Size(p.title) <= MaxTitle
    /\ p.description # Nothing => Size(p.description) <= MaxDescription
    /\ p.due # Nothing => p.due <= LastIso

\* What validate() puts in place of the body, and the controller stores.
Stored(p) ==
    [p EXCEPT !.title = Trim(p.title),
              !.description = IF p.description = Nothing THEN Nothing ELSE Trim(p.description)]

\* A task that is opened in the form and saved with nothing changed.
Resaved(row) == Stored(Payload(FormOf(row)))
===============================================================================
