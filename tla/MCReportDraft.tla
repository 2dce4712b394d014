---------------------------- MODULE MCReportDraft ----------------------------
(* ReportDraft for packs of up to six items and drafts with the faults a    *)
(* language model makes: ids nobody has, made-up sources, sections missing  *)
(* or null, figures of its own, text for numbers, null for an answer.       *)
EXTENDS ReportDraft

CONSTANTS proj, line, pay, doc, doc2, mail

MCEvidence == {proj, line, pay, doc, doc2, mail}

MCKindOf == [e \in MCEvidence |->
    CASE e = proj -> "project" [] e = line -> "cost_line" [] e = pay -> "payroll"
      [] e = mail -> "email" [] OTHER -> "document"]

MCQuotable  == {doc, mail}
MCTagged    == {mail}
MCFinancial == {doc}
MCSalary    == {pay}

MCTypes == {"management_question", "salary_payroll", "financial",
            "document_search", "risk"}

MCPack(ids, amounts) == [ids |-> ids, amounts |-> amounts]

MCPacks ==
    {MCPack({}, {}), MCPack({doc, mail}, {}), MCPack({doc2}, {}),
     MCPack({proj, doc}, {}), MCPack({proj, line, mail}, {proj, line}),
     MCPack({proj, pay, doc}, {pay}), MCPack({line}, {}),
     MCPack(MCEvidence, {proj, line, pay})}

MCCoverage(odoo, mail_entry) ==
    [odoo |-> odoo, sharepoint |-> Answered(TRUE, 1), email |-> mail_entry]

MCCoverages ==
    {MCCoverage(Answered(TRUE, 1), Answered(TRUE, 1)),
     MCCoverage(Answered(TRUE, 1), NotRecorded),
     MCCoverage(Answered(TRUE, 0), Entry(TRUE, FALSE, "blocked", 0)),
     MCCoverage(Entry(TRUE, TRUE, "error", 0), NotRecorded),
     MCCoverage(Entry(TRUE, TRUE, "timeout", 0), Answered(TRUE, 0)),
     MCCoverage(Answered(TRUE, 1), Entry(TRUE, FALSE, "not_enabled", 0))}

MCAllLists == [s \in Sections |-> "list"]

MCReport == [NoReport EXCEPT !.summary = {Claim({proj}, "analysis")},
                             !.actions = {Claim({doc}, "placeholder")}]

MCDraft(r, form, alias) == [report |-> r, form |-> form, alias |-> alias]

(* Drafts that differ in what they claim and cite.                          *)
MCClaimDrafts ==
    {MCDraft([NoReport EXCEPT !.summary = s, !.findings = f, !.answer = "given"],
             form, alias) :
        s \in {{}, {Claim({proj}, "analysis")}, {Claim({line}, "catalogue")},
               {Claim({Unknown}, "analysis")}, {Claim({Alias}, "analysis")}},
        f \in {{}, {Claim({doc}, "filename")}, {Claim({doc}, "placeholder")},
               {[Claim({proj, doc}, "analysis") EXCEPT !.high = TRUE]}},
        form \in {MCAllLists, [MCAllLists EXCEPT !["actions"] = "absent"],
                  [MCAllLists EXCEPT !["body"] = "null"]},
        alias \in {NoId, doc}}

(* Drafts that differ in their figures.                                     *)
MCModelled(id) == Available({"model"}, id)

MCSnapshots ==
    {EmptySnapshot,
     [EmptySnapshot EXCEPT !["actual_cost"] = MCModelled(proj)],
     [EmptySnapshot EXCEPT !["actual_cost"] = MCModelled(Unknown),
                           !["payroll_cost"] = MCModelled(pay)],
     [EmptySnapshot EXCEPT !["actual_cost"] = Absent,
                           !["budget"] = MCModelled(proj)],
     [EmptySnapshot EXCEPT !["estimate"] = MCModelled(proj),
                           !["expense_cost"] = MCModelled(Unknown)],
     [EmptySnapshot EXCEPT !["actual_cost"] = Available({"text"}, proj)],
     [EmptySnapshot EXCEPT !["contract_value"] = Available({"text"}, NoId)]}

MCFigureDrafts ==
    {MCDraft([MCReport EXCEPT !.summary = {Claim(ids, "analysis")},
                              !.actions = IF doc \in ids THEN @ ELSE {},
                              !.fs = fs,
                              !.variance = v, !.answer = a, !.conflicts = ok,
                              !.no_data = ~ok, !.sources = ok \/ a = "none"],
             MCAllLists, NoId) :
        ids \in {{proj}, {doc}},
        fs \in MCSnapshots,
        v \in {NoVariance, [value |-> {"model"}, ids |-> {Unknown}]},
        a \in {"none", "given", "null"},
        ok \in BOOLEAN}

MCDrafts == MCClaimDrafts \cup MCFigureDrafts
=============================================================================
