------------------------------ MODULE Coverage ------------------------------
(***************************************************************************)
(* Connector coverage (graph/coverage.py): what each retrieval node says   *)
(* it did, and the summary the draft and the quality gate take from it.    *)
(***************************************************************************)
EXTENDS Integers

ProjectSources == {"odoo", "sharepoint", "email"}

Statuses == {"ok", "zero_no_match", "error", "timeout", "blocked",
             "rbac_denied", "not_enabled"}

Entries == [enabled : BOOLEAN, attempted : BOOLEAN, status : Statuses,
            evidence_count : Nat]

Entry(enabled, attempted, status, count) ==
    [enabled |-> enabled, attempted |-> attempted, status |-> status,
     evidence_count |-> count]

(* The entry of a source whose node recorded nothing.                      *)
NotRecorded == Entry(FALSE, FALSE, "not_enabled", 0)

(* What a node records about a source it did not ask, and about one that   *)
(* answered with count items it could use.                                 *)
Skipped(enabled, status) == Entry(enabled, FALSE, status, 0)
Answered(enabled, count) ==
    Entry(enabled, TRUE, IF count > 0 THEN "ok" ELSE "zero_no_match", count)

-----------------------------------------------------------------------------
(* summary.                                                                *)
EnabledIn(cov) == {s \in ProjectSources : cov[s].enabled}

ConnectorErrors(cov) == {s \in EnabledIn(cov) : cov[s].status = "error"}

NotAttempted(cov) ==
    {s \in EnabledIn(cov) :
        ~cov[s].attempted /\ cov[s].status \notin {"blocked", "rbac_denied"}}

TimedOut(cov) == {s \in EnabledIn(cov) : cov[s].status = "timeout"}

Completeness(cov) ==
    IF EnabledIn(cov) = {} THEN "none_enabled"
    ELSE IF \A s \in EnabledIn(cov) : cov[s].evidence_count > 0
         THEN "full" ELSE "partial"
=============================================================================
