--------------------------- MODULE ReportLifecycle ---------------------------
(***************************************************************************)
(* What Decision Center promises about one report, without processes,      *)
(* statements or faults.  A request is in progress until it ends; it never *)
(* starts again.  It ends completed only when a report was saved.  Only a  *)
(* saved report is approved, and only an approved one is published; what   *)
(* is published stays published.                                           *)
(***************************************************************************)
EXTENDS Integers

CONSTANT Artifacts

VARIABLES
    phase,     \* of the request
    saved,     \* a report was saved for review
    approved,  \* some reviewer approved it
    published  \* the published artifacts

vars == <<phase, saved, approved, published>>

Init ==
    /\ phase = "absent"
    /\ saved = FALSE
    /\ approved = FALSE
    /\ published = {}

Accept ==
    /\ phase = "absent"
    /\ phase' = "in_progress"
    /\ UNCHANGED <<saved, approved, published>>

\* An ended request may end again, otherwise: a cancellation and a
\* completion can both be on their way.
End ==
    /\ phase # "absent"
    /\ phase' = "stopped" \/ (saved /\ phase' = "completed")
    /\ UNCHANGED <<saved, approved, published>>

\* The save itself may still be on its way when the request is stopped.
Save ==
    /\ phase # "absent"
    /\ saved' = TRUE
    /\ UNCHANGED <<phase, approved, published>>

Approve ==
    /\ saved
    /\ approved' = TRUE
    /\ UNCHANGED <<phase, saved, published>>

Publish ==
    /\ approved
    /\ published \subseteq published'
    /\ published' \subseteq Artifacts
    /\ UNCHANGED <<phase, saved, approved>>

Next == Accept \/ End \/ Save \/ Approve \/ Publish

Spec == Init /\ [][Next]_vars
=============================================================================
