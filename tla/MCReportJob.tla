----------------------------- MODULE MCReportJob -----------------------------
(* ReportJob on small sets; the DELETE calls are interchangeable.          *)
EXTENDS ReportJob, TLC

Calls == Permutations(Cancels)
=============================================================================
