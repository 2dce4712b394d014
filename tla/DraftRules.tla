----------------------------- MODULE DraftRules -----------------------------
(***************************************************************************)
(* The deterministic rules of node 12 (node_12_draft_json.py): what Odoo   *)
(* evidence says about money, how a draft of the language model is brought *)
(* into shape and corrected, and the report built without the model.       *)
(*                                                                         *)
(* Evidence is a set of ids of known kinds.  A number is modelled by where *)
(* it comes from: a value is a set of origins, {} for none, and holds      *)
(* "text" when it is no number.  A claim cites ids, has one sort of text   *)
(* and may claim high confidence.  Where the code takes the first or the   *)
(* latest of several ids, one is chosen.                                   *)
(***************************************************************************)
EXTENDS Integers, FiniteSets

CONSTANTS
    Evidence,   \* evidence ids
    KindOf,     \* what each is
    Quotable,   \* documents and mails with an excerpt that is not a file name
    Tagged,     \* those tagged delay, eot, schedule, contract, claim or risk
    Financial,  \* documents and mails the financial filter keeps
    Unknown,    \* an id no evidence has
    Alias,      \* a source id the model made up, with a title beside it
    NoId

OdooKinds == {"project", "cost_line", "payroll", "expense", "purchase"}

ASSUME DraftAssumption ==
    /\ KindOf \in [Evidence -> OdooKinds \cup {"document", "email"}]
    /\ Tagged \subseteq Quotable
    /\ Quotable \cup Financial \subseteq
            {e \in Evidence : KindOf[e] \in {"document", "email"}}
    /\ Cardinality({Unknown, Alias, NoId}) = 3
    /\ {Unknown, Alias, NoId} \cap Evidence = {}

Ids == Evidence \cup {Unknown, Alias}

Some(ids) == IF ids = {} THEN NoId ELSE CHOOSE e \in ids : TRUE

Claims == [ids : SUBSET Ids, high : BOOLEAN,
           text : {"analysis", "placeholder", "catalogue", "filename"}]

Claim(ids, text) == [ids |-> ids, high |-> FALSE, text |-> text]

-----------------------------------------------------------------------------
(* A pack is the evidence with the part of it that carries an amount.      *)
Odoo(pack)  == {e \in pack.ids : KindOf[e] \in OdooKinds}
Lines(pack) == {e \in pack.ids : KindOf[e] = "cost_line"}

(* _is_cost_line: whatever else comes from Odoo is a project record.       *)
ProjectRecords(pack) == Odoo(pack) \ Lines(pack)

Documents(pack) == pack.ids \ Odoo(pack)

(* _project_amount, _sum_odoo_category: what carries an amount of a kind.  *)
(* A project's amounts of zero count as none.                              *)
Valued(pack, kind) == {e \in pack.amounts : KindOf[e] = kind}

(* The record an amount is cited from.  For the cost lines it is the       *)
(* latest one, with or without an amount of its own.                       *)
Record(pack, kind) ==
    Some(IF kind = "cost_line" THEN Lines(pack) ELSE Valued(pack, kind))

(* filter_financial_evidence.                                              *)
FinancialPart(pack) ==
    [ids     |-> Odoo(pack) \cup (pack.ids \cap Financial),
     amounts |-> pack.amounts]

-----------------------------------------------------------------------------
(* The financial snapshot.                                                 *)
Figures == {"budget", "contract_value", "estimate", "actual_cost",
            "payroll_cost", "expense_cost", "committed_cost", "total_incurred"}

Origins == {"odoo", "model", "text"}

Nodes == [status : {"absent", "not_available", "available"},
          value  : SUBSET Origins,
          id     : Ids \cup {NoId}]

Absent       == [status |-> "absent", value |-> {}, id |-> NoId]
NotAvailable == [status |-> "not_available", value |-> {}, id |-> NoId]
Available(value, id) == [status |-> "available", value |-> value, id |-> id]

Has(fs, f) == fs[f].status = "available" /\ fs[f].value # {}

(* The snapshot the code puts where the draft has none.                    *)
EmptySnapshot ==
    [f \in Figures |->
        IF f \in {"budget", "actual_cost"} THEN NotAvailable ELSE Absent]

NoVariance == [value |-> {}, ids |-> {}]

(* _enforce_financial_from_odoo: no budget, the sum of the cost lines as   *)
(* the actual cost, and no actual cost with an id that is not evidence.    *)
ActualCost(node, pack) ==
    IF node.status = "absent" THEN node
    ELSE IF Valued(pack, "cost_line") # {}
         THEN Available({"odoo"}, Record(pack, "cost_line"))
    ELSE IF node.status = "available" /\ node.id \notin pack.ids THEN NotAvailable
    ELSE node

FromOdoo(fs, pack) ==
    [fs EXCEPT !["budget"] = IF @.status = "absent" THEN @ ELSE NotAvailable,
               !["actual_cost"] = ActualCost(@, pack)]

(* _enforce_financial_categories: a figure Odoo backs is set; one it does  *)
(* not back is created if it is missing, and left as it was otherwise.     *)
KindOfFigure == [contract_value |-> "project", estimate |-> "project",
                 committed_cost |-> "purchase", payroll_cost |-> "payroll",
                 expense_cost |-> "expense"]

(* A mutant: what the model wrote is kept.                                 *)
CategoryKept(fs, f, pack) ==
    IF Has(fs, f) THEN fs[f]
    ELSE IF Valued(pack, KindOfFigure[f]) = {} THEN NotAvailable
    ELSE Available({"odoo"}, Record(pack, KindOfFigure[f]))

Category(fs, f, pack) ==
    IF Valued(pack, KindOfFigure[f]) # {}
    THEN Available({"odoo"}, Record(pack, KindOfFigure[f]))
    ELSE IF fs[f].status = "absent" THEN NotAvailable ELSE fs[f]

WithCategories(fs, pack) ==
    [f \in Figures |->
        IF f \in DOMAIN KindOfFigure THEN Category(fs, f, pack) ELSE fs[f]]

(* The cost that was incurred, in the order it is summed.                  *)
Incurred(fs) == {f \in {"actual_cost", "payroll_cost", "expense_cost"} : Has(fs, f)}

FirstOf(parts) ==
    IF "actual_cost" \in parts THEN "actual_cost"
    ELSE IF "payroll_cost" \in parts THEN "payroll_cost" ELSE "expense_cost"

WithTotal(fs) ==
    LET parts == Incurred(fs)
    IN  [fs EXCEPT !["total_incurred"] =
            IF parts # {}
            THEN Available(UNION {fs[f].value : f \in parts}, fs[FirstOf(parts)].id)
            ELSE IF @.status = "absent" THEN NotAvailable ELSE @]

Categories(fs, pack) == WithTotal(WithCategories(fs, pack))

(* The variance of estimate and cost is set when both are there, and left  *)
(* as it was otherwise.                                                    *)
Spent(fs) == IF Cardinality(Incurred(fs)) > 1 THEN "total_incurred" ELSE "actual_cost"

Variance(fs, variance) ==
    IF Has(fs, "estimate") /\ Has(fs, Spent(fs))
    THEN [value |-> fs["estimate"].value \cup fs[Spent(fs)].value,
          ids   |-> {fs["estimate"].id, fs[Spent(fs)].id} \ {NoId}]
    ELSE variance

(* Arithmetic on a value that is no number raises.                         *)
NotANumber(fs) ==
    \/ \E f \in Incurred(fs) : "text" \in fs[f].value
    \/ Has(fs, "estimate") /\ Has(fs, Spent(fs)) /\ "text" \in fs["estimate"].value

-----------------------------------------------------------------------------
(* The sections that carry claims; "body" is root causes, delay analysis   *)
(* and contractual implications together.  A report has them all as lists; *)
(* a draft of the model may lack one or have null in its place (form).     *)
Sections == {"summary", "findings", "body", "actions"}

Forms == [Sections -> {"list", "absent", "null"}]

(* The parts of a draft and of a report.  A draft without a snapshot is    *)
(* one with EmptySnapshot, which the code puts there.                      *)
Reports ==
    [summary : SUBSET Claims, findings : SUBSET Claims, body : SUBSET Claims,
     actions : SUBSET Claims, fs : [Figures -> Nodes],
     variance : [value : SUBSET Origins, ids : SUBSET Ids],
     answer    : {"none", "given", "null"}, \* executive_answer
     conflicts : BOOLEAN,                   \* conflicts is a list
     sources   : BOOLEAN,                   \* sources is a list
     no_data   : BOOLEAN]                   \* missing_data says "no data"

(* _remap_evidence_ids: a made-up source id whose title is that of an item *)
(* is replaced by the item's id, in claims and not in the snapshot.  Going *)
(* through a section that is null raises.                                  *)
RemapRaises(draft, pack) ==
    /\ draft.alias \in pack.ids
    /\ \E s \in Sections : draft.form[s] = "null"

Remapped(claims, alias) ==
    {[c EXCEPT !.ids = (@ \ {Alias}) \cup (IF Alias \in @ THEN {alias} ELSE {})] :
        c \in claims}

Resolve(report, alias, pack) ==
    IF alias \notin pack.ids THEN report
    ELSE [x \in DOMAIN report |->
            IF x \in Sections THEN Remapped(report[x], alias) ELSE report[x]]

Cites(claim, pack) == claim.ids # {} /\ claim.ids \subseteq pack.ids

(* _report_has_valid_claims.                                               *)
HasValidClaims(report, pack) ==
    /\ \A s \in Sections : \A c \in report[s] : Cites(c, pack)
    /\ \E s \in Sections : \E c \in report[s] : c.text # "placeholder"

(* _normalize: what the corrections of a draft leave of it, and whether it *)
(* can be used.                                                            *)
Shaped(draft, pack) ==
    [Resolve(draft.report, draft.alias, pack) EXCEPT !.fs = FromOdoo(@, pack)]

Usable(draft, pack) ==
    /\ \A s \in Sections : draft.form[s] = "list"
    /\ HasValidClaims(Shaped(draft, pack), pack)

-----------------------------------------------------------------------------
(* _basic_executive_summary: the financial position if Odoo has one, else  *)
(* a note on the documents given, else one on the project records.         *)
Position(pack) ==
    {Record(pack, k) : k \in {kind \in OdooKinds \ {"purchase"} :
                                        Valued(pack, kind) # {}}}

(* A mutant: the note on the documents cites none of them.                 *)
BasicSummaryBare(pack, documents) ==
    IF Position(pack) # {} THEN {Claim(Position(pack), "analysis")}
    ELSE IF documents # {} THEN {Claim({}, "catalogue")}
    ELSE IF ProjectRecords(pack) # {}
         THEN {Claim(ProjectRecords(pack), "catalogue")} ELSE {}

BasicSummary(pack, documents) ==
    IF Position(pack) # {} THEN {Claim(Position(pack), "analysis")}
    ELSE IF documents # {} THEN {Claim(documents, "catalogue")}
    ELSE IF ProjectRecords(pack) # {}
         THEN {Claim(ProjectRecords(pack), "catalogue")} ELSE {}

(* _financial_snapshot_findings: one claim per figure, one on the variance *)
(* or its absence; without a figure one on the project records.            *)
Shown(fs) == {f \in Figures \ {"budget"} : Has(fs, f) /\ fs[f].id # NoId}

SnapshotFindings(fs, variance, pack) ==
    LET figures == {Claim({fs[f].id}, "analysis") : f \in Shown(fs)}
        spread  == IF variance.value # {}
                   THEN IF variance.ids # {}
                        THEN {Claim(variance.ids, "analysis")} ELSE {}
                   ELSE {Claim({fs[f].id}, "analysis") : f \in Shown(fs)}
        found   == figures \cup spread
    IN  IF found = {} /\ ProjectRecords(pack) # {}
        THEN {Claim(ProjectRecords(pack), "analysis")} ELSE found

(* Writing a figure that is no number raises.                              *)
FindingRaises(fs) == \E f \in Shown(fs) : "text" \in fs[f].value

(* _force_financial_odoo_synthesis.                                        *)
FinancialSynthesis(report, pack) ==
    [report EXCEPT
        !.findings = SnapshotFindings(report.fs, report.variance, pack),
        !.summary  = IF ProjectRecords(pack) # {} \/ Valued(pack, "cost_line") # {}
                     THEN BasicSummary(pack, {}) ELSE @,
        !.body     = {},
        !.answer   = "none"]

(* _enforce_executive_summary: an empty summary is written from findings.  *)
FilledSummary(report, pack) ==
    LET cited == UNION {c.ids : c \in report.findings}
    IN  IF report.summary = {} /\ pack.ids # {} /\ cited # {}
        THEN [report EXCEPT !.summary = {Claim(cited, "catalogue")}]
        ELSE report

(* _enrich_management_question_answer: always answered, if asked.          *)
Enriched(report, type) ==
    IF type = "management_question" THEN [report EXCEPT !.answer = "given"]
    ELSE report

-----------------------------------------------------------------------------
(* _build_report_from_evidence: the report without the model.  The roles   *)
(* that may not see finance lose the actual cost here and get it back when *)
(* the report is corrected.                                                *)
Quotes(ids) == {Claim({e}, "analysis") : e \in ids}

Built(type, pack) ==
    LET used   == IF type = "financial" THEN FinancialPart(pack) ELSE pack
        quoted == IF type = "financial" THEN {} ELSE used.ids \cap Quotable
        fs     == Categories(FromOdoo(EmptySnapshot, used), used)
        report == [summary   |-> BasicSummary(used, Documents(used)),
                   findings  |-> Quotes(quoted \ Tagged),
                   body      |-> Quotes(quoted \cap Tagged),
                   actions   |-> {},
                   fs        |-> fs,
                   variance  |-> Variance(fs, NoVariance),
                   answer    |-> "none",
                   conflicts |-> TRUE,
                   sources   |-> TRUE,
                   no_data   |-> FALSE]
    IN  IF type = "financial" THEN FinancialSynthesis(report, used) ELSE report

(* _build_salary_availability_report, returned as it is.                   *)
SalaryReport(pack) ==
    LET mails   == {e \in Documents(pack) : KindOf[e] = "email"}
        checked == {Some(ids) : ids \in
                       {Documents(pack) \ mails, mails, Odoo(pack)} \ {{}}}
        cited   == IF checked = {} THEN {} ELSE {Some(checked)}
    IN  [summary   |-> IF cited = {} THEN {} ELSE {Claim(cited, "catalogue")},
         findings  |-> Quotes(checked),
         body      |-> {},
         actions   |-> {Claim(cited, "analysis")},
         fs        |-> EmptySnapshot,
         variance  |-> NoVariance,
         answer    |-> "none",
         conflicts |-> TRUE,
         sources   |-> TRUE,
         no_data   |-> FALSE]

(* The corrections every other report goes through, model's or not.  The   *)
(* sources of a financial report are written anew from its citations.      *)
Corrected(report, type, pack) ==
    LET fs      == Categories(FromOdoo(report.fs, pack), pack)
        figured == [report EXCEPT !.fs = fs, !.variance = Variance(fs, @),
                                  !.sources = @ \/ type = "financial"]
        led     == IF type = "financial" THEN FinancialSynthesis(figured, pack)
                   ELSE figured
    IN  Enriched(FilledSummary(led, pack), type)

CorrectionRaises(report, type, pack) ==
    LET with == WithCategories(FromOdoo(report.fs, pack), pack)
    IN  \/ NotANumber(with)
        \/ type = "financial" /\ FindingRaises(WithTotal(with))
=============================================================================
