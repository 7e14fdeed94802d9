---------------------------- MODULE MCReportRuns ----------------------------
(* Instances of ReportRuns for TLC. *)
EXTENDS ReportRuns, TLC

CONSTANTS w1, w2, c1, c2, k1, k2
Alike == Permutations(Worker) \cup Permutations(Cleaner) \cup Permutations(Key)
=============================================================================
