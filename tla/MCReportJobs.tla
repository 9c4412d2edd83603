---------------------------- MODULE MCReportJobs ----------------------------
(* ReportJobs on small instances for TLC. *)
EXTENDS ReportJobs, TLC

CONSTANTS u1, k1, a1, s1, s2, s3

OneProcessEach == {{s1}, {s2}}
TwoProcesses == {{s1, s2}, {s3}}
SlotSymmetry == Permutations({s1, s2})
=============================================================================
