---------------------------- MODULE MCReportStatus ----------------------------
(* ReportStatus on small instances for TLC, with ReportSummary for its reports. *)
EXTENDS ReportStatus, ReportSummary

CONSTANTS u1, u2, k1, s1, s2

OneProcessEach == {{s1}, {s2}}

\* Theorem SummariesAgree of ReportServiceProofs, for up to three tasks.
ASSUME FiguresAgree ==
    \A rows \in SUBSET [id : 1 .. 2, status : TaskStatuses, due : {0, 1, 3}] :
        Cardinality(rows) <= 3 =>
            /\ Cardinality(rows) = ByStatus(rows, "PENDING") + ByStatus(rows, "IN_PROGRESS")
                                     + ByStatus(rows, "COMPLETED")
            /\ Overdue(rows, 2) + ByStatus(rows, "COMPLETED") <= Cardinality(rows)
            /\ \A rate \in (-1) .. 101 :
                   rate \in CompletionRates(ByStatus(rows, "COMPLETED"), Cardinality(rows))
                       => rate \in 0 .. 100
===============================================================================
