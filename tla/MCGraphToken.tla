---------------------------- MODULE MCGraphToken ----------------------------
(* GraphToken with few callers.  Liveness is checked, so no symmetry.      *)
EXTENDS GraphToken, TLC
=============================================================================
