----------------------------- MODULE QualityGate -----------------------------
(***************************************************************************)
(* Node 13 (node_13_quality_gate.py): the deterministic checks of a report *)
(* and the verdict they make together with connector coverage.  Which      *)
(* checks run is the policy of the report's type (report_policy.py).       *)
(***************************************************************************)
EXTENDS DraftRules, Coverage

(* The types whose policy differs; data_report is as salary_payroll, risk  *)
(* and delay as general_project_status.                                    *)
ReportTypes == {"management_question", "salary_payroll", "data_report",
                "financial", "risk", "delay", "document_search",
                "general_project_status"}

Focused == {"salary_payroll", "data_report", "document_search"}

Baseline == {"claims", "financials", "sources", "conflicts", "executive_summary",
             "search_summary", "raw_filename", "project_identity",
             "confidence", "timeout_semantics"}

(* A mutant: the focused types go without the search-summary check.        *)
ChecksForFocused(type) ==
    IF type \in Focused
    THEN (Baseline \ {"search_summary"}) \cup {"intent_correctness", "irrelevant_sections"}
    ELSE Baseline \cup (IF type = "management_question"
                        THEN {"management_question_answer"} ELSE {})

ChecksFor(type) ==
    Baseline \cup
    (IF type = "management_question" THEN {"management_question_answer"} ELSE {})
    \cup (IF type \in Focused THEN {"intent_correctness", "irrelevant_sections"} ELSE {})

AllClaims(report) == UNION {report[s] : s \in Sections}

BoundFigure(fs, f, pack) == fs[f].status = "available" => fs[f].id \in pack.ids

-----------------------------------------------------------------------------
(* Each check, as the condition under which it objects.                    *)
(* _check_claims, _check_financials, _check_executive_summary,             *)
(* _check_raw_filename_findings, _check_management_question_answer and     *)
(* _check_project_identity call the report unsupported.                    *)
Objects(check, report, pack, named) ==
    CASE check = "claims" ->
            \E c \in AllClaims(report) : ~Cites(c, pack)
      [] check = "financials" ->
            \/ \E f \in Figures : ~BoundFigure(report.fs, f, pack)
            \/ ~(report.variance.ids \subseteq pack.ids)
      [] check = "executive_summary" -> report.summary = {} /\ pack.ids # {}
      [] check = "raw_filename" ->
            \E c \in AllClaims(report) : c.text = "filename"
      [] check = "management_question_answer" -> report.answer # "given"
      [] check = "project_identity" -> ~named
      [] OTHER -> FALSE

(* _check_sources, _check_conflicts, _check_search_summary_patterns,       *)
(* _check_intent_correctness, _check_irrelevant_sections,                  *)
(* _check_confidence_against_evidence and _check_timeout_semantics ask for *)
(* a review.                                                               *)
Doubts(check, report, type, cov) ==
    CASE check = "conflicts" -> ~report.conflicts
      [] check = "sources" -> ~report.sources
      [] check = "search_summary" ->
            \E c \in report.summary : c.text = "catalogue"
      [] check = "intent_correctness" -> report.answer = "given"
      [] check = "irrelevant_sections" ->
            \/ report.body # {}
            \/ /\ type = "document_search"
               /\ \E f \in Figures : report.fs[f].status = "available"
      [] check = "confidence" ->
            /\ \E c \in AllClaims(report) : c.high
            /\ TimedOut(cov) \cup ConnectorErrors(cov) # {}
      [] check = "timeout_semantics" -> report.no_data /\ TimedOut(cov) # {}
      [] OTHER -> FALSE

Unsupported(report, type, pack, named) ==
    {k \in ChecksFor(type) : Objects(k, report, pack, named)}

NeedsReview(report, type, cov) ==
    {k \in ChecksFor(type) : Doubts(k, report, type, cov)}

Claimed(report, type, pack, cov, named) ==
    IF \/ AllClaims(report) = {} /\ pack.ids = {}
       \/ Unsupported(report, type, pack, named) # {}
    THEN "failed"
    ELSE IF NeedsReview(report, type, cov) # {} THEN "needs_review" ELSE "passed"

(* A source that failed or was silently left out takes a pass away, and    *)
(* nothing else.                                                           *)
Blocking(cov) == ConnectorErrors(cov) \cup NotAttempted(cov)

(* A mutant: the verdict is set whatever it was.                           *)
LoweredAnyway(verdict, cov) ==
    IF Blocking(cov) # {} THEN "needs_review" ELSE verdict

Lowered(verdict, cov) ==
    IF Blocking(cov) # {} /\ verdict = "passed" THEN "needs_review" ELSE verdict

Verdict(report, type, pack, cov, named) ==
    Lowered(Claimed(report, type, pack, cov, named), cov)

-----------------------------------------------------------------------------
(* _compute_analytical_completeness: metadata beside the verdict.          *)
AnalyticalCompleteness(report) ==
    IF report.summary = {} \/ report.fs["budget"].status # "available"
    THEN "incomplete"
    ELSE IF \/ report.findings = {} \/ report.actions = {}
            \/ report.fs["actual_cost"].status # "available"
    THEN "partial" ELSE "complete"
=============================================================================
