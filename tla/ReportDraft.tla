----------------------------- MODULE ReportDraft -----------------------------
(***************************************************************************)
(* Nodes 12 and 13 of the workflow: the draft of a report from its         *)
(* evidence, by a language model that may answer anything, and the quality *)
(* gate's verdict on it.                                                   *)
(*                                                                         *)
(* The job starts with the pack and the coverage the retrieval nodes left  *)
(* (EvidencePipeline).                                                     *)
(***************************************************************************)
EXTENDS QualityGate

CONSTANTS
    Types,      \* report types of the queries
    Packs,      \* packs the retrieval may leave
    Coverages,  \* coverage it may leave
    Drafts,     \* drafts the model may answer
    Salary      \* evidence with salary data

Packages == [ids : SUBSET Evidence, amounts : SUBSET Evidence]

DraftRecords == [report : Reports, form : Forms, alias : Evidence \cup {NoId}]

ASSUME ReportDraftAssumption ==
    /\ Types \subseteq ReportTypes
    /\ Salary \subseteq Evidence
    /\ Packs \subseteq Packages
    /\ \A p \in Packs : p.amounts \subseteq Odoo(p)
    /\ Drafts \subseteq DraftRecords
    /\ \A d \in Drafts : d.alias # NoId => d.report.sources
    /\ Coverages \subseteq [ProjectSources -> Entries]

VARIABLES
    pc,
    type,     \* report_type
    pack,     \* state.evidence
    coverage, \* source_coverage
    named,    \* the project identity has a name
    draft,    \* what was parsed from the model's answer
    author,   \* whose report it is: the model's, the builder's, or the
              \* salary availability report
    report,     \* report_json
    verdict,    \* quality_gate
    completeness \* evidence_completeness, analytical_completeness

inputs == <<type, pack, coverage, named>>
judged == <<verdict, completeness>>
vars   == <<pc, inputs, draft, author, report, judged>>

(* No draft, and a report that is not written yet.                         *)
NoReport ==
    [summary |-> {}, findings |-> {}, body |-> {}, actions |-> {},
     fs |-> EmptySnapshot, variance |-> NoVariance, answer |-> "none",
     conflicts |-> TRUE, sources |-> TRUE, no_data |-> FALSE]

NoDraft == [report |-> NoReport, form |-> [s \in Sections |-> "absent"],
            alias |-> NoId]

Init ==
    /\ pc = "draft"
    /\ type \in Types /\ pack \in Packs /\ coverage \in Coverages
    /\ named \in BOOLEAN
    /\ draft = NoDraft
    /\ author = "nobody" /\ report = NoReport /\ verdict = "not_run"
    /\ completeness = [evidence |-> "not_run", analytical |-> "not_run"]

-----------------------------------------------------------------------------
(* A salary query without salary evidence is answered without the model.   *)
NoSalaryEvidence == type = "salary_payroll" /\ pack.ids \cap Salary = {}

DraftSalary ==
    /\ pc = "draft" /\ NoSalaryEvidence
    /\ report' = SalaryReport(pack) /\ author' = "availability"
    /\ pc' = "gate"
    /\ UNCHANGED <<inputs, draft, judged>>

(* The model's answer, an object or something else that parses (and is     *)
(* then dropped).                                                          *)
ModelDrafts ==
    /\ pc = "draft" /\ ~NoSalaryEvidence
    /\ draft' \in Drafts \cup {NoDraft}
    /\ pc' = "finish"
    /\ UNCHANGED <<inputs, author, report, judged>>

(* An answer that is no JSON.  json_repair, if it is installed, may still  *)
(* make an object of it.                                                   *)
ModelGarbles ==
    /\ pc = "draft" /\ ~NoSalaryEvidence
    /\ \/ draft' = draft /\ pc' = "repair"
       \/ draft' \in Drafts /\ pc' = "finish"
    /\ UNCHANGED <<inputs, author, report, judged>>

(* One more call asks the model to repair its answer; its failure is       *)
(* swallowed.                                                              *)
ModelRepairs ==
    /\ pc = "repair"
    /\ draft' \in Drafts \cup {NoDraft}
    /\ pc' = "finish"
    /\ UNCHANGED <<inputs, author, report, judged>>

(* The first call raises (budget guard, provider): the workflow fails.     *)
ModelRaises ==
    /\ pc = "draft" /\ ~NoSalaryEvidence
    /\ pc' = "raised"
    /\ UNCHANGED <<inputs, draft, author, report, judged>>

(* What the corrections start from.                                        *)
Base == IF Usable(draft, pack) THEN Shaped(draft, pack) ELSE Built(type, pack)

(* A made-up source id beside a null section, a null answer or a figure    *)
(* that is no number raises where the code means to fall back.             *)
FinishRaises ==
    \/ RemapRaises(draft, pack)
    \/ Usable(draft, pack) /\ draft.report.answer = "null"
    \/ CorrectionRaises(Base, type, pack)

Finish ==
    /\ pc = "finish" /\ ~FinishRaises
    /\ report' = Corrected(Base, type, pack)
    /\ author' = IF Usable(draft, pack) THEN "model" ELSE "builder"
    /\ draft' = NoDraft
    /\ pc' = "gate"
    /\ UNCHANGED <<inputs, judged>>

FinishFails ==
    /\ pc = "finish" /\ FinishRaises
    /\ pc' = "raised" /\ draft' = NoDraft
    /\ UNCHANGED <<inputs, author, report, judged>>

Gate ==
    /\ pc = "gate"
    /\ verdict' = Verdict(report, type, pack, coverage, named)
    /\ completeness' = [evidence   |-> Completeness(coverage),
                        analytical |-> AnalyticalCompleteness(report)]
    /\ pc' = "done"
    /\ UNCHANGED <<inputs, draft, author, report>>

Next ==
    \/ DraftSalary
    \/ ModelDrafts \/ ModelGarbles \/ ModelRepairs \/ ModelRaises
    \/ Finish \/ FinishFails
    \/ Gate

Spec == Init /\ [][Next]_vars

-----------------------------------------------------------------------------
Judged == pc = "done"

(* Whatever the model drafted and the corrections made of it, a report that*)
(* the gate lets go on cites evidence of the pack in every claim and every *)
(* available figure, and one that passes leaves no enabled source failed   *)
(* or silently out (node_13_quality_gate.py run).                          *)
ReleasedIsBacked ==
    Judged /\ verdict # "failed" =>
        /\ \A s \in Sections : \A c \in report[s] : Cites(c, pack)
        /\ \A f \in Figures : report.fs[f].status = "available" =>
                                 report.fs[f].id \in pack.ids
        /\ verdict = "passed" => \A s \in ProjectSources :
              coverage[s].enabled =>
                 /\ coverage[s].status # "error"
                 /\ coverage[s].attempted \/ coverage[s].status \in {"blocked", "rbac_denied"}

(* The report built without the model is one the gate does not refuse: it  *)
(* fails only without a project name, or when the evidence used is nothing *)
(* but cost lines without an amount (_build_report_from_evidence and the   *)
(* corrections against the gate's checks).                                 *)
NothingToSay(used) == used.ids \subseteq Lines(used) /\ used.amounts = {}

FallbackHolds ==
    Judged /\ author = "builder" /\ verdict = "failed" =>
        \/ ~named
        \/ NothingToSay(IF type = "financial" THEN FinancialPart(pack) ELSE pack)

(* A report whose summary only says that no analysis could be made never   *)
(* passes: the gate's search-summary pattern and the wording of the        *)
(* fallback summaries agree (_basic_executive_summary,                     *)
(* _enforce_executive_summary, _check_search_summary_patterns).            *)
FallbackIsReviewed ==
    Judged /\ verdict = "passed" /\ author # "model" =>
        Position(pack) # {} /\ author = "builder"

(* Where Odoo has a figure the report has Odoo's, whatever the model wrote *)
(* there, and nothing has a budget (_enforce_financial_from_odoo,          *)
(* _enforce_financial_categories).                                         *)
OdooFiguresWin ==
    pc \in {"gate", "done"} /\ author # "availability" =>
        /\ report.fs["budget"].status # "available"
        /\ Valued(pack, "cost_line") # {} =>
              \/ report.fs["actual_cost"].status = "absent"
              \/ report.fs["actual_cost"].value = {"odoo"}
        /\ \A f \in DOMAIN KindOfFigure : Valued(pack, KindOfFigure[f]) # {} =>
              report.fs[f].value = {"odoo"}

(* node_12_draft_json.py, first lines: "financial values MUST come from    *)
(* Odoo".  The code leaves a figure the model made up where Odoo has none. *)
FigureFromOdoo ==
    Judged /\ verdict # "failed" =>
        \A f \in Figures : report.fs[f].value \subseteq {"odoo"}
=============================================================================
