--------------------------- MODULE MCReportService ---------------------------
(* ReportService on small sets; calls of one sort are interchangeable.     *)
EXTENDS ReportService, TLC

Calls == Permutations(Requests) \cup Permutations(Cancels)
=============================================================================
