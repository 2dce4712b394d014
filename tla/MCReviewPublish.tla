--------------------------- MODULE MCReviewPublish ---------------------------
(* ReviewPublish on small sets; the calls are interchangeable.             *)
EXTENDS ReviewPublish, TLC

Calls == Permutations(Requests)
=============================================================================
