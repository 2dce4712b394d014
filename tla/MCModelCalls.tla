---------------------------- MODULE MCModelCalls ----------------------------
(* ModelCalls on a few report jobs, which are interchangeable.             *)
EXTENDS ModelCalls, TLC

Jobs == Permutations(Tasks)
=============================================================================
