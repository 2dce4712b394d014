------------------------------ MODULE MCOdooScan ------------------------------
(* OdooScan on small sets; calls of one sort are interchangeable.          *)
EXTENDS OdooScan, TLC

Interchangeable == Permutations(Starts) \cup Permutations(Retries)
=============================================================================
