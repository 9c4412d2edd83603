----------------------------- MODULE ReportSummary -----------------------------
(***************************************************************************)
(* The figures of a report (report.service.js, buildReport) as operators   *)
(* on the rows the query returned: records with a status and a due date.   *)
(***************************************************************************)
EXTENDS Integers, FiniteSets

TaskStatuses == {"PENDING", "IN_PROGRESS", "COMPLETED"}

\* The rows are told apart by their id; due 0 stands for null.
Rows(ids) == [id : ids, status : TaskStatuses, due : Nat]

ByStatus(rows, s) == Cardinality({t \in rows : t.status = s})

IsOverdue(t, now) == t.due # 0 /\ t.status # "COMPLETED" /\ t.due < now
Overdue(rows, now) == Cardinality({t \in rows : IsOverdue(t, now)})

\* Math.round of completed / total * 100.  The quotient is a floating point number: next
\* to a half it may fall on either side, so that both neighbours are possible.
CompletionRates(completed, total) ==
    IF total = 0 THEN {0}
    ELSE {rate \in Int : /\ 2 * (100 * completed - rate * total) <= total
                         /\ 2 * (rate * total - 100 * completed) <= total}

\* totals and completionRate of the report.
Summaries(rows, now) ==
    [total : {Cardinality(rows)}, pending : {ByStatus(rows, "PENDING")},
     inProgress : {ByStatus(rows, "IN_PROGRESS")}, completed : {ByStatus(rows, "COMPLETED")},
     overdue : {Overdue(rows, now)},
     rate : CompletionRates(ByStatus(rows, "COMPLETED"), Cardinality(rows))]
===============================================================================
