-------------------------- MODULE ReportDraftProofs --------------------------
(***************************************************************************)
(* Proofs about ReportDraft, for any evidence, any packs and coverage, and *)
(* any answers of the language model.                                      *)
(***************************************************************************)
EXTENDS ReportDraft, TLAPS

Fields == {"summary", "findings", "body", "actions", "fs", "variance",
           "answer", "conflicts", "sources", "no_data"}

\* A report with all its parts and all its figures.
Whole(r) == DOMAIN r = Fields /\ DOMAIN r.fs = Figures

\* Odoo's figures are in a snapshot, and nothing is its budget.
OdooWins(fs, p) ==
    /\ fs["budget"].status # "available"
    /\ Valued(p, "cost_line") # {} =>
          fs["actual_cost"].status = "absent" \/ fs["actual_cost"].value = {"odoo"}
    /\ \A f \in DOMAIN KindOfFigure :
          Valued(p, KindOfFigure[f]) # {} => fs[f].value = {"odoo"}

\* What is known of a report by its author.
Authored ==
    pc \in {"gate", "done"} =>
        /\ author \in {"model", "builder", "availability"}
        /\ author = "availability" => report = SalaryReport(pack)
        /\ author = "builder" => report = Corrected(Built(type, pack), type, pack)
        /\ author # "availability" => OdooWins(report.fs, pack)

DraftInv ==
    /\ type \in Types /\ pack \in Packs
    /\ draft \in Drafts \cup {NoDraft}
    /\ Authored
    /\ Judged => verdict = Verdict(report, type, pack, coverage, named)

-----------------------------------------------------------------------------
\* The snapshot after the corrections, whatever it was before.
LEMMA CategoriesWin ==
    ASSUME NEW fs, DOMAIN fs = Figures, NEW p
    PROVE  OdooWins(Categories(FromOdoo(fs, p), p), p)
<1> DEFINE first == FromOdoo(fs, p)
           second == WithCategories(first, p)
<1>1. /\ first["budget"].status # "available"
      /\ Valued(p, "cost_line") # {} =>
            first["actual_cost"].status = "absent" \/ first["actual_cost"].value = {"odoo"}
  <2>1. /\ first["budget"] = IF fs["budget"].status = "absent" THEN fs["budget"]
                               ELSE NotAvailable
        /\ first["actual_cost"] = ActualCost(fs["actual_cost"], p)
    BY DEF FromOdoo, Figures
  <2>2. NotAvailable.status = "not_available"
    BY DEF NotAvailable
  <2>3. \A node : Valued(p, "cost_line") # {} =>
            \/ ActualCost(node, p).status = "absent"
            \/ ActualCost(node, p).value = {"odoo"}
    <3> SUFFICES ASSUME NEW node, Valued(p, "cost_line") # {},
                        node.status # "absent"
                 PROVE  ActualCost(node, p).value = {"odoo"}
      BY DEF ActualCost
    <3>1. ActualCost(node, p) = Available({"odoo"}, Record(p, "cost_line"))
      BY DEF ActualCost
    <3>2. QED
      BY <3>1 DEF Available
  <2>4. QED
    BY <2>1, <2>2, <2>3
<1>2. /\ second["budget"] = first["budget"] /\ second["actual_cost"] = first["actual_cost"]
      /\ \A f \in DOMAIN KindOfFigure : second[f] = Category(first, f, p)
      /\ DOMAIN second = Figures
  BY DEF WithCategories, KindOfFigure, Figures
<1>3. \A f \in Figures \ {"total_incurred"} : WithTotal(second)[f] = second[f]
  BY <1>2 DEF WithTotal
<1>4. ASSUME NEW f \in DOMAIN KindOfFigure, Valued(p, KindOfFigure[f]) # {}
      PROVE  Category(first, f, p).value = {"odoo"}
  BY <1>4 DEF Category, Available
<1>5. DOMAIN KindOfFigure \subseteq Figures \ {"total_incurred"}
  BY DEF KindOfFigure, Figures
<1>6. Categories(first, p) = WithTotal(second)
  BY DEF Categories
<1> HIDE DEF first, second
<1>7. OdooWins(WithTotal(second), p)
  BY <1>1, <1>2, <1>3, <1>4, <1>5 DEF OdooWins, Figures
<1>8. QED
  BY <1>6, <1>7 DEF first

\* The other corrections leave the snapshot alone.
LEMMA CorrectedFigures ==
    ASSUME NEW r, Whole(r), NEW ty, NEW p
    PROVE  Corrected(r, ty, p).fs = Categories(FromOdoo(r.fs, p), p)
<1> DEFINE fs == Categories(FromOdoo(r.fs, p), p)
           figured == [r EXCEPT !.fs = fs, !.variance = Variance(fs, @),
                                !.sources = @ \/ ty = "financial"]
           led == IF ty = "financial" THEN FinancialSynthesis(figured, p) ELSE figured
<1>1. DOMAIN figured = Fields /\ figured.fs = fs
  BY DEF Whole, Fields
<1>2. DOMAIN led = Fields /\ led.fs = fs
  <2> HIDE DEF figured, fs
  <2> QED BY <1>1 DEF FinancialSynthesis, Fields
<1>3. Corrected(r, ty, p) = Enriched(FilledSummary(led, p), ty)
  BY DEF Corrected
<1> HIDE DEF led, figured, fs
<1>4. DOMAIN FilledSummary(led, p) = Fields /\ FilledSummary(led, p).fs = fs
  BY <1>2 DEF FilledSummary, Fields
<1>5. Enriched(FilledSummary(led, p), ty).fs = fs
  BY <1>4 DEF Enriched, Fields
<1>6. QED
  BY <1>3, <1>5 DEF fs

\* Every report the corrections start from is whole.
LEMMA DraftsAreWhole ==
    ASSUME NEW d \in Drafts \cup {NoDraft}
    PROVE  Whole(d.report)
<1>1. CASE d \in Drafts
  <2>1. d.report \in Reports
    BY <1>1, ReportDraftAssumption DEF ReportDraftAssumption, DraftRecords
  <2>2. QED
    BY <2>1 DEF Reports, Whole, Fields
<1>2. CASE d = NoDraft
  BY <1>2 DEF NoDraft, NoReport, Whole, Fields, EmptySnapshot
<1>3. QED
  BY <1>1, <1>2

\* A shaped draft has every field.
LEMMA ShapedIsWhole ==
    ASSUME NEW d \in Drafts \cup {NoDraft}, NEW p
    PROVE  Whole(Shaped(d, p))
<1> DEFINE found == Resolve(d.report, d.alias, p)
<1>1. Whole(d.report)
  BY DraftsAreWhole
<1>2. DOMAIN found = Fields /\ found.fs = d.report.fs
  <2>1. CASE d.alias \notin p.ids
    BY <1>1, <2>1 DEF Resolve, Whole
  <2>2. CASE d.alias \in p.ids
    BY <1>1, <2>2 DEF Resolve, Whole, Fields, Sections
  <2>3. QED
    BY <2>1, <2>2
<1>3. Shaped(d, p) = [found EXCEPT !.fs = FromOdoo(@, p)]
  BY DEF Shaped
<1> HIDE DEF found
<1>4. DOMAIN Shaped(d, p) = Fields /\ Shaped(d, p).fs = FromOdoo(d.report.fs, p)
  BY <1>2, <1>3 DEF Fields
<1>5. DOMAIN FromOdoo(d.report.fs, p) = Figures
  BY <1>1 DEF Whole, FromOdoo
<1>6. QED
  BY <1>4, <1>5 DEF Whole

\* So does a report built without the model, ...
LEMMA BuiltIsWhole ==
    ASSUME NEW ty, NEW p
    PROVE  Whole(Built(ty, p))
<1> DEFINE used   == IF ty = "financial" THEN FinancialPart(p) ELSE p
           quoted == IF ty = "financial" THEN {} ELSE used.ids \cap Quotable
           fs     == Categories(FromOdoo(EmptySnapshot, used), used)
           report0 == [summary   |-> BasicSummary(used, Documents(used)),
                       findings  |-> Quotes(quoted \ Tagged),
                       body      |-> Quotes(quoted \cap Tagged),
                       actions   |-> {},
                       fs        |-> fs,
                       variance  |-> Variance(fs, NoVariance),
                       answer    |-> "none",
                       conflicts |-> TRUE,
                       sources   |-> TRUE,
                       no_data   |-> FALSE]
<1>1. DOMAIN fs = Figures
  BY DEF Categories, WithTotal, WithCategories
<1>2. Built(ty, p) = IF ty = "financial" THEN FinancialSynthesis(report0, used) ELSE report0
  BY DEF Built
<1> HIDE DEF fs, used, quoted
<1>3. DOMAIN report0 = Fields /\ report0.fs = fs
  BY DEF Fields
<1> HIDE DEF report0
<1>4. DOMAIN FinancialSynthesis(report0, used) = Fields
      /\ FinancialSynthesis(report0, used).fs = fs
  BY <1>3 DEF FinancialSynthesis, Fields
<1>5. QED
  BY <1>1, <1>2, <1>3, <1>4 DEF Whole

\* ... and whatever post-processing starts from.
LEMMA BaseIsWhole == draft \in Drafts \cup {NoDraft} => Whole(Base)
BY ShapedIsWhole, BuiltIsWhole DEF Base

-----------------------------------------------------------------------------
\* Before drafting the invariant holds.
LEMMA InitDraft == Init => DraftInv
BY DEF Init, DraftInv, Authored, Judged

\* A step that writes no report: the model's, or one that raises.
LEMMA WaitKeeps ==
    ASSUME DraftInv, ModelDrafts \/ ModelGarbles \/ ModelRepairs \/ ModelRaises
                        \/ FinishFails
    PROVE  DraftInv'
<1>1. pc' \notin {"gate", "done"} /\ UNCHANGED inputs
  BY DEF ModelDrafts, ModelGarbles, ModelRepairs, ModelRaises, FinishFails
<1>2. draft' \in Drafts \cup {NoDraft}
  BY DEF DraftInv, ModelDrafts, ModelGarbles, ModelRepairs, ModelRaises, FinishFails
<1>3. QED
  BY <1>1, <1>2 DEF DraftInv, Authored, Judged, inputs

\* Post-processing keeps it.
LEMMA FinishKeeps ==
    ASSUME DraftInv, Finish
    PROVE  DraftInv'
<1>1. /\ pc' = "gate" /\ UNCHANGED inputs /\ draft' = NoDraft
      /\ report' = Corrected(Base, type, pack)
      /\ author' = IF Usable(draft, pack) THEN "model" ELSE "builder"
  BY DEF Finish
<1>2. OdooWins(report'.fs, pack)
  <2>1. Whole(Base)
    BY BaseIsWhole DEF DraftInv
  <2>2. report'.fs = Categories(FromOdoo(Base.fs, pack), pack)
    BY <1>1, <2>1, CorrectedFigures
  <2>3. QED
    BY <2>1, <2>2, CategoriesWin DEF Whole
<1>3. author' = "builder" => report' = Corrected(Built(type, pack), type, pack)
  BY <1>1 DEF Base
<1>4. author' \in {"model", "builder"}
  BY <1>1
<1>5. Authored'
  <2>1. type' = type /\ pack' = pack
    BY <1>1 DEF inputs
  <2>2. OdooWins(report.fs, pack)'
    BY <1>2, <2>1 DEF OdooWins, Valued
  <2>3. QED
    BY <1>3, <1>4, <2>1, <2>2 DEF Authored
<1>6. QED
  BY <1>1, <1>5 DEF DraftInv, Judged, inputs

\* Every step keeps it.
LEMMA NextDraft == DraftInv /\ [Next]_vars => DraftInv'
<1> SUFFICES ASSUME DraftInv, [Next]_vars PROVE DraftInv'
  OBVIOUS
<1>1. CASE DraftSalary
  BY <1>1 DEF DraftSalary, DraftInv, Authored, Judged, inputs
<1>2. CASE ModelDrafts \/ ModelGarbles \/ ModelRepairs \/ ModelRaises \/ FinishFails
  BY <1>2, WaitKeeps
<1>3. CASE Finish
  BY <1>3, FinishKeeps
<1>4. CASE Gate
  BY <1>4 DEF Gate, DraftInv, Authored, Judged, inputs, OdooWins, Valued
<1>5. CASE UNCHANGED vars
  BY <1>5 DEF vars, inputs, judged, DraftInv, Authored, Judged, OdooWins, Valued
<1>6. QED
  BY <1>1, <1>2, <1>3, <1>4, <1>5 DEF Next

\* It holds in every state.
LEMMA DraftInvariant == Spec => []DraftInv
BY InitDraft, NextDraft, PTL DEF Spec

-----------------------------------------------------------------------------
\* What the verdict says of the report.
LEMMA JudgedReport ==
    ASSUME DraftInv, Judged, verdict # "failed"
    PROVE  /\ \A c \in AllClaims(report) : Cites(c, pack)
           /\ \A f \in Figures : BoundFigure(report.fs, f, pack)
           /\ AllClaims(report) # {} \/ pack.ids # {}
           /\ report.summary # {} \/ pack.ids = {}
           /\ verdict = "passed" =>
                 Blocking(coverage) = {} /\ NeedsReview(report, type, coverage) = {}
<1> DEFINE claimed == Claimed(report, type, pack, coverage, named)
           unsupported == Unsupported(report, type, pack, named)
<1>1. verdict = Lowered(claimed, coverage)
  BY DEF DraftInv, Verdict
<1>2. claimed # "failed" /\ (verdict = "passed" => claimed = "passed" /\ Blocking(coverage) = {})
  <2> HIDE DEF claimed
  <2> QED BY <1>1 DEF Lowered
<1>3. /\ unsupported = {}
      /\ ~(AllClaims(report) = {} /\ pack.ids = {})
      /\ claimed = "passed" => NeedsReview(report, type, coverage) = {}
  <2> HIDE DEF unsupported
  <2>1. claimed = IF (AllClaims(report) = {} /\ pack.ids = {}) \/ unsupported # {}
                  THEN "failed"
                  ELSE IF NeedsReview(report, type, coverage) # {}
                       THEN "needs_review" ELSE "passed"
    BY DEF Claimed, unsupported
  <2> HIDE DEF claimed
  <2>2. QED
    BY <1>2, <2>1
<1>4. \A k \in Baseline : ~Objects(k, report, pack, named)
  BY <1>3 DEF Unsupported, ChecksFor
<1>5. ~Objects("claims", report, pack, named)
      /\ ~Objects("financials", report, pack, named)
      /\ ~Objects("executive_summary", report, pack, named)
  BY <1>4 DEF Baseline
<1>6. \A c \in AllClaims(report) : Cites(c, pack)
  BY <1>5 DEF Objects
<1>7. \A f \in Figures : BoundFigure(report.fs, f, pack)
  BY <1>5 DEF Objects
<1>8. report.summary # {} \/ pack.ids = {}
  BY <1>5 DEF Objects
<1>9. QED
  BY <1>2, <1>3, <1>6, <1>7, <1>8

\* What the gate lets through is backed by the pack, and what passes hides
\* no failed source: for any answer of the model (node 13 run).
THEOREM ReleasedReportsAreBacked == Spec => []ReleasedIsBacked
<1>1. ASSUME DraftInv PROVE ReleasedIsBacked
  <2> SUFFICES ASSUME Judged, verdict # "failed"
               PROVE  /\ \A s \in Sections : \A c \in report[s] : Cites(c, pack)
                      /\ \A f \in Figures : report.fs[f].status = "available" =>
                                               report.fs[f].id \in pack.ids
                      /\ verdict = "passed" => \A s \in ProjectSources :
                            coverage[s].enabled =>
                               /\ coverage[s].status # "error"
                               /\ coverage[s].attempted
                                  \/ coverage[s].status \in {"blocked", "rbac_denied"}
    BY DEF ReleasedIsBacked
  <2>1. /\ \A c \in AllClaims(report) : Cites(c, pack)
        /\ \A f \in Figures : BoundFigure(report.fs, f, pack)
        /\ verdict = "passed" => Blocking(coverage) = {}
    BY <1>1, JudgedReport
  <2>2. Blocking(coverage) = {} => \A s \in ProjectSources : coverage[s].enabled =>
           /\ coverage[s].status # "error"
           /\ coverage[s].attempted \/ coverage[s].status \in {"blocked", "rbac_denied"}
    BY DEF Blocking, ConnectorErrors, NotAttempted, EnabledIn
  <2>3. \A s \in Sections : \A c \in report[s] : Cites(c, pack)
    BY <2>1 DEF AllClaims
  <2>4. QED
    BY <2>1, <2>2, <2>3 DEF BoundFigure
<1>2. QED
  BY DraftInvariant, <1>1, PTL

\* Where Odoo has a figure the report has Odoo's, whatever the model wrote
\* (_enforce_financial_from_odoo, _enforce_financial_categories).
THEOREM OdooFiguresAlwaysWin == Spec => []OdooFiguresWin
<1>1. DraftInv => OdooFiguresWin
  BY DEF DraftInv, Authored, OdooWins, OdooFiguresWin
<1>2. QED
  BY DraftInvariant, <1>1, PTL

-----------------------------------------------------------------------------
\* A summary that only says what there is, and no analysis.
Catalogue(claims) == \A c \in claims : c.text = "catalogue"

\* Without a position the basic summary lists documents.
LEMMA BasicIsCatalogue ==
    ASSUME NEW p, Position(p) = {}, NEW documents
    PROVE  Catalogue(BasicSummary(p, documents))
BY DEF BasicSummary, Catalogue, Claim

\* The financial filter keeps what the position is made of.
LEMMA FinancialPosition ==
    ASSUME NEW p, Position(p) = {}
    PROVE  Position(FinancialPart(p)) = {}
<1>1. \A k : Valued(FinancialPart(p), k) = Valued(p, k)
  BY DEF Valued, FinancialPart
<1>2. \A k \in OdooKinds \ {"purchase"} : Valued(p, k) = {}
  BY DEF Position
<1>3. QED
  BY <1>1, <1>2 DEF Position

\* Without a position the financial synthesis leaves such a summary so, ...
LEMMA SynthesisSummary ==
    ASSUME NEW r, DOMAIN r = Fields, Catalogue(r.summary), NEW p, Position(p) = {}
    PROVE  Catalogue(FinancialSynthesis(r, p).summary)
<1>1. \/ FinancialSynthesis(r, p).summary = BasicSummary(p, {})
      \/ FinancialSynthesis(r, p).summary = r.summary
  BY DEF FinancialSynthesis, Fields
<1>2. QED
  BY <1>1, BasicIsCatalogue

\* ... and so does the whole post-processing, ...
LEMMA CorrectedSummary ==
    ASSUME NEW r, Whole(r), Catalogue(r.summary), NEW ty, NEW p, Position(p) = {}
    PROVE  Catalogue(Corrected(r, ty, p).summary)
<1> DEFINE fs == Categories(FromOdoo(r.fs, p), p)
           figured == [r EXCEPT !.fs = fs, !.variance = Variance(fs, @),
                                !.sources = @ \/ ty = "financial"]
           led == IF ty = "financial" THEN FinancialSynthesis(figured, p) ELSE figured
<1>1. DOMAIN figured = Fields /\ figured.summary = r.summary
  BY DEF Whole, Fields
<1>2. Corrected(r, ty, p) = Enriched(FilledSummary(led, p), ty)
  BY DEF Corrected
<1> HIDE DEF figured
<1>3. DOMAIN FinancialSynthesis(figured, p) = Fields
  BY <1>1 DEF FinancialSynthesis
<1>4. DOMAIN led = Fields /\ Catalogue(led.summary)
  BY <1>1, <1>3, SynthesisSummary
<1> HIDE DEF led
<1>5. DOMAIN FilledSummary(led, p) = Fields /\ Catalogue(FilledSummary(led, p).summary)
  BY <1>4 DEF FilledSummary, Fields, Catalogue, Claim
<1>6. Enriched(FilledSummary(led, p), ty).summary = FilledSummary(led, p).summary
  BY <1>5 DEF Enriched, Fields
<1>7. QED
  BY <1>2, <1>5, <1>6

\* ... and the report built without the model has one.
LEMMA BuiltSummary ==
    ASSUME NEW ty, NEW p, Position(p) = {}
    PROVE  Catalogue(Built(ty, p).summary)
<1> DEFINE used   == IF ty = "financial" THEN FinancialPart(p) ELSE p
           quoted == IF ty = "financial" THEN {} ELSE used.ids \cap Quotable
           fs     == Categories(FromOdoo(EmptySnapshot, used), used)
           report0 == [summary   |-> BasicSummary(used, Documents(used)),
                       findings  |-> Quotes(quoted \ Tagged),
                       body      |-> Quotes(quoted \cap Tagged),
                       actions   |-> {},
                       fs        |-> fs,
                       variance  |-> Variance(fs, NoVariance),
                       answer    |-> "none",
                       conflicts |-> TRUE,
                       sources   |-> TRUE,
                       no_data   |-> FALSE]
<1>1. Position(used) = {}
  BY FinancialPosition
<1>2. Built(ty, p) = IF ty = "financial" THEN FinancialSynthesis(report0, used) ELSE report0
  BY DEF Built
<1> HIDE DEF fs, used, quoted
<1>3. DOMAIN report0 = Fields /\ report0.summary = BasicSummary(used, Documents(used))
  BY DEF Fields
<1> HIDE DEF report0
<1>4. Catalogue(report0.summary)
  BY <1>1, <1>3, BasicIsCatalogue
<1>5. Catalogue(FinancialSynthesis(report0, used).summary)
  BY <1>1, <1>3, <1>4, SynthesisSummary
<1>6. QED
  BY <1>2, <1>4, <1>5

\* A report without the model passes only if it states Odoo's financial
\* position: otherwise its summary is one the gate has reviewed
\* (_basic_executive_summary, _check_search_summary_patterns).
THEOREM FallbacksAreReviewed == Spec => []FallbackIsReviewed
<1>1. ASSUME DraftInv PROVE FallbackIsReviewed
  <2> SUFFICES ASSUME Judged, verdict = "passed", author # "model"
               PROVE  Position(pack) # {} /\ author = "builder"
    BY DEF FallbackIsReviewed
  <2>1. /\ \A c \in AllClaims(report) : Cites(c, pack)
        /\ AllClaims(report) # {} \/ pack.ids # {}
        /\ report.summary # {} \/ pack.ids = {}
        /\ NeedsReview(report, type, coverage) = {}
    BY <1>1, JudgedReport
  <2>2. ~Catalogue(report.summary)
    <3>1. report.summary # {}
      BY <2>1 DEF Cites
    <3>2. ~Doubts("search_summary", report, type, coverage)
      BY <2>1 DEF NeedsReview, ChecksFor, Baseline
    <3>3. ~ \E c \in report.summary : c.text = "catalogue"
      BY <3>2 DEF Doubts
    <3>4. QED
      BY <3>1, <3>3 DEF Catalogue
  <2>3. author # "availability"
    <3>1. SUFFICES ASSUME report = SalaryReport(pack) PROVE FALSE
      BY <1>1 DEF DraftInv, Authored, Judged
    <3>2. Catalogue(SalaryReport(pack).summary)
      BY DEF SalaryReport, Catalogue, Claim
    <3>3. QED
      BY <2>2, <3>1, <3>2
  <2>4. author = "builder" /\ report = Corrected(Built(type, pack), type, pack)
    BY <1>1, <2>3 DEF DraftInv, Authored, Judged
  <2>5. Position(pack) # {}
    <3>1. SUFFICES ASSUME Position(pack) = {} PROVE Catalogue(report.summary)
      BY <2>2
    <3>2. Whole(Built(type, pack)) /\ Catalogue(Built(type, pack).summary)
      BY <3>1, BuiltIsWhole, BuiltSummary
    <3>3. QED
      BY <2>4, <3>1, <3>2, CorrectedSummary
  <2>6. QED
    BY <2>4, <2>5
<1>2. QED
  BY DraftInvariant, <1>1, PTL
-----------------------------------------------------------------------------
\* The report without the model, for every pack: what it claims is backed by
\* the pack, and it says something unless there is nothing to say.
GoodPack(p) == p.ids \subseteq Evidence /\ p.amounts \subseteq Odoo(p)

Honest(claims, p) == \A c \in claims : Cites(c, p) /\ c.text # "filename"

BoundSnapshot(fs, p) ==
    DOMAIN fs = Figures /\ \A f \in Figures : BoundFigure(fs, f, p)

Backed(r, p) ==
    /\ DOMAIN r = Fields
    /\ \A s \in Sections : Honest(r[s], p)
    /\ BoundSnapshot(r.fs, p)
    /\ r.variance.ids \subseteq p.ids

\* The part of a pack the financial report uses has all figures of the pack.
LEMMA FinancialPartIsGood ==
    ASSUME NEW p, GoodPack(p)
    PROVE  LET used == FinancialPart(p)
           IN  /\ GoodPack(used) /\ used.ids \subseteq p.ids
               /\ Odoo(used) = Odoo(p) /\ Lines(used) = Lines(p)
               /\ \A k : Valued(used, k) = Valued(p, k)
<1> DEFINE used == FinancialPart(p)
<1>1. used.ids = Odoo(p) \cup (p.ids \cap Financial) /\ used.amounts = p.amounts
  BY DEF FinancialPart
<1>2. \A e \in Financial : KindOf[e] \notin OdooKinds
  BY DraftAssumption DEF DraftAssumption, OdooKinds
<1>3. "cost_line" \in OdooKinds
  BY DEF OdooKinds
<1> HIDE DEF used
<1>4. Odoo(used) = Odoo(p) /\ Lines(used) = Lines(p)
  BY <1>1, <1>2, <1>3 DEF Odoo, Lines
<1>5. used.ids \subseteq p.ids
  BY <1>1 DEF Odoo
<1>6. GoodPack(used)
  BY <1>1, <1>4, <1>5 DEF GoodPack
<1>7. \A k : Valued(used, k) = Valued(p, k)
  BY <1>1 DEF Valued
<1>8. QED
  BY <1>4, <1>5, <1>6, <1>7 DEF used

\* An amount is cited from a record of the pack.
LEMMA RecordInPack ==
    ASSUME NEW p, GoodPack(p), NEW kind, Valued(p, kind) # {}
    PROVE  Record(p, kind) \in p.ids
<1>1. Valued(p, kind) \subseteq p.ids
  BY DEF Valued, GoodPack, Odoo
<1>2. \A ids : ids # {} => Some(ids) \in ids
  BY DEF Some
<1>3. CASE kind = "cost_line"
  <2>1. Lines(p) # {} /\ Lines(p) \subseteq p.ids
    BY <1>1, <1>3 DEF Valued, Lines
  <2>2. QED
    BY <1>2, <1>3, <2>1 DEF Record
<1>4. CASE kind # "cost_line"
  BY <1>1, <1>2, <1>4 DEF Record
<1>5. QED
  BY <1>3, <1>4

\* Odoo's figures cite items of the pack.
LEMMA FromOdooBound ==
    ASSUME NEW p, GoodPack(p), NEW fs, BoundSnapshot(fs, p)
    PROVE  BoundSnapshot(FromOdoo(fs, p), p)
<1>1. \A node : LET cost == ActualCost(node, p)
                IN  cost.status = "available" => cost.id \in p.ids
  <2>1. Valued(p, "cost_line") # {} => Record(p, "cost_line") \in p.ids
    BY RecordInPack
  <2>2. QED
    BY <2>1 DEF ActualCost, Available, NotAvailable
<1>2. /\ DOMAIN FromOdoo(fs, p) = Figures
      /\ FromOdoo(fs, p)["budget"].status # "available"
      /\ FromOdoo(fs, p)["actual_cost"] = ActualCost(fs["actual_cost"], p)
      /\ \A f \in Figures \ {"budget", "actual_cost"} : FromOdoo(fs, p)[f] = fs[f]
  BY DEF FromOdoo, BoundSnapshot, Figures, NotAvailable
<1>3. QED
  BY <1>1, <1>2 DEF BoundSnapshot, BoundFigure

\* So do the category sums, ...
LEMMA CategoriesBound ==
    ASSUME NEW p, GoodPack(p), NEW fs, BoundSnapshot(fs, p)
    PROVE  BoundSnapshot(Categories(fs, p), p)
<1> DEFINE second == WithCategories(fs, p)
<1>1. BoundSnapshot(second, p)
  <2>1. ASSUME NEW f \in DOMAIN KindOfFigure
        PROVE  Category(fs, f, p).status = "available" => Category(fs, f, p).id \in p.ids
    <3>1. DOMAIN KindOfFigure \subseteq Figures
      BY DEF KindOfFigure, Figures
    <3>2. Valued(p, KindOfFigure[f]) # {} => Record(p, KindOfFigure[f]) \in p.ids
      BY RecordInPack
    <3>3. QED
      BY <3>1, <3>2 DEF Category, Available, NotAvailable, BoundSnapshot, BoundFigure
  <2>2. DOMAIN second = Figures
    BY DEF WithCategories
  <2>3. \A f \in Figures :
           second[f] = IF f \in DOMAIN KindOfFigure THEN Category(fs, f, p) ELSE fs[f]
    BY DEF WithCategories
  <2> HIDE DEF second
  <2>4. QED
    BY <2>1, <2>2, <2>3 DEF BoundSnapshot, BoundFigure
<1> HIDE DEF second
<1>2. BoundSnapshot(WithTotal(second), p)
  <2> DEFINE parts == Incurred(second)
  <2>1. parts # {} => FirstOf(parts) \in parts
    BY DEF Incurred, FirstOf
  <2>2. \A f \in parts : f \in Figures /\ second[f].id \in p.ids
    BY <1>1 DEF Incurred, Has, BoundSnapshot, BoundFigure, Figures
  <2>3. DOMAIN WithTotal(second) = Figures
        /\ \A f \in Figures \ {"total_incurred"} : WithTotal(second)[f] = second[f]
    BY <1>1 DEF WithTotal, BoundSnapshot
  <2>4. LET total == WithTotal(second)["total_incurred"]
        IN  \/ total.status = "available" /\ parts # {} /\ total.id = second[FirstOf(parts)].id
            \/ total = NotAvailable
            \/ total = second["total_incurred"]
    BY <1>1 DEF WithTotal, Available, BoundSnapshot, Figures
  <2> HIDE DEF parts
  <2>5. BoundFigure(WithTotal(second), "total_incurred", p)
    BY <1>1, <2>1, <2>2, <2>4 DEF BoundFigure, NotAvailable, BoundSnapshot, Figures
  <2>6. QED
    BY <1>1, <2>3, <2>5 DEF BoundSnapshot, BoundFigure
<1>3. QED
  BY <1>2 DEF Categories, second

\* ... the variance, ...
LEMMA VarianceBound ==
    ASSUME NEW p, NEW fs, BoundSnapshot(fs, p), NEW v, v.ids \subseteq p.ids
    PROVE  Variance(fs, v).ids \subseteq p.ids
<1>1. "estimate" \in Figures /\ Spent(fs) \in Figures
  BY DEF Spent, Figures
<1>2. CASE Has(fs, "estimate") /\ Has(fs, Spent(fs))
  <2>1. fs["estimate"].id \in p.ids /\ fs[Spent(fs)].id \in p.ids
    BY <1>1, <1>2 DEF Has, BoundSnapshot, BoundFigure
  <2>2. Variance(fs, v).ids = {fs["estimate"].id, fs[Spent(fs)].id} \ {NoId}
    BY <1>2 DEF Variance
  <2>3. QED
    BY <2>1, <2>2
<1>3. CASE ~(Has(fs, "estimate") /\ Has(fs, Spent(fs)))
  BY <1>3 DEF Variance
<1>4. QED
  BY <1>2, <1>3

\* ... the basic summary ...
LEMMA SummaryHonest ==
    ASSUME NEW p, GoodPack(p), NEW documents, documents \subseteq p.ids
    PROVE  Honest(BasicSummary(p, documents), p)
<1>1. Position(p) \subseteq p.ids
  BY RecordInPack DEF Position
<1>2. ProjectRecords(p) \subseteq p.ids
  BY DEF ProjectRecords, Odoo
<1>3. \A ids, text : ids # {} /\ ids \subseteq p.ids /\ text # "filename"
                     => Honest({Claim(ids, text)}, p)
  BY DEF Honest, Cites, Claim
<1>4. Honest({}, p)
  BY DEF Honest
<1>5. QED
  BY <1>1, <1>2, <1>3, <1>4 DEF BasicSummary

\* ... and the findings made from the snapshot.
LEMMA FindingsHonest ==
    ASSUME NEW p, NEW fs, BoundSnapshot(fs, p), NEW v, v.ids \subseteq p.ids
    PROVE  Honest(SnapshotFindings(fs, v, p), p)
<1> DEFINE figures == {Claim({fs[f].id}, "analysis") : f \in Shown(fs)}
           spread  == IF v.value # {}
                      THEN IF v.ids # {} THEN {Claim(v.ids, "analysis")} ELSE {}
                      ELSE figures
<1>1. \A ids : ids # {} /\ ids \subseteq p.ids => Honest({Claim(ids, "analysis")}, p)
  BY DEF Honest, Cites, Claim
<1>2. Honest(figures, p)
  <2>1. \A f \in Shown(fs) : fs[f].id \in p.ids
    BY DEF Shown, Has, BoundSnapshot, BoundFigure
  <2>2. QED
    BY <2>1 DEF Honest, Cites, Claim
<1>3. Honest({}, p)
  BY DEF Honest
<1>4. SnapshotFindings(fs, v, p) =
         IF figures \cup spread = {} /\ ProjectRecords(p) # {}
         THEN {Claim(ProjectRecords(p), "analysis")} ELSE figures \cup spread
  BY DEF SnapshotFindings
<1> HIDE DEF figures
<1>5. Honest(spread, p)
  BY <1>1, <1>2, <1>3
<1>6. ProjectRecords(p) \subseteq p.ids
  BY DEF ProjectRecords, Odoo
<1> HIDE DEF spread
<1>7. Honest(figures \cup spread, p)
  BY <1>2, <1>5 DEF Honest
<1>8. QED
  BY <1>1, <1>4, <1>6, <1>7

\* The financial synthesis keeps a backed report backed.
LEMMA SynthesisBacked ==
    ASSUME NEW p, GoodPack(p), NEW r, Backed(r, p)
    PROVE  Backed(FinancialSynthesis(r, p), p)
<1> DEFINE led == FinancialSynthesis(r, p)
<1>1. /\ DOMAIN led = Fields /\ led.fs = r.fs /\ led.variance = r.variance
      /\ led.findings = SnapshotFindings(r.fs, r.variance, p)
      /\ led.summary = BasicSummary(p, {}) \/ led.summary = r.summary
      /\ led.body = {} /\ led.actions = r.actions
  BY DEF FinancialSynthesis, Backed, Fields
<1> HIDE DEF led
<1>2. Honest(led.findings, p) /\ Honest(BasicSummary(p, {}), p) /\ Honest({}, p)
  BY <1>1, FindingsHonest, SummaryHonest DEF Backed, Honest
<1>3. \A s \in Sections : Honest(led[s], p)
  BY <1>1, <1>2 DEF Backed, Sections
<1>4. QED
  BY <1>1, <1>3 DEF Backed, led

\* Filling an empty summary and the answer keeps it backed.
LEMMA FilledBacked ==
    ASSUME NEW p, GoodPack(p), NEW r, Backed(r, p), NEW ty
    PROVE  LET filled == Enriched(FilledSummary(r, p), ty)
           IN  /\ Backed(filled, p)
               /\ r.summary # {} => filled.summary # {}
               /\ ty = "management_question" => filled.answer = "given"
<1> DEFINE cited  == UNION {c.ids : c \in r.findings}
           filled == FilledSummary(r, p)
<1>1. cited \subseteq p.ids
  BY DEF Backed, Sections, Honest, Cites
<1>2. /\ DOMAIN filled = Fields
      /\ \A x \in Fields \ {"summary"} : filled[x] = r[x]
      /\ \/ filled.summary = r.summary
         \/ r.summary = {} /\ cited # {} /\ filled.summary = {Claim(cited, "catalogue")}
  BY DEF FilledSummary, Backed, Fields
<1> HIDE DEF filled, cited
<1>3. Honest(filled.summary, p)
  BY <1>1, <1>2 DEF Honest, Cites, Claim, Backed, Sections
<1>4. Backed(filled, p)
  BY <1>2, <1>3 DEF Backed, Sections, Fields
<1> DEFINE answered == Enriched(filled, ty)
<1>5. /\ DOMAIN answered = Fields
      /\ \A x \in Fields \ {"answer"} : answered[x] = filled[x]
      /\ ty = "management_question" => answered.answer = "given"
  BY <1>2 DEF Enriched, Fields
<1> HIDE DEF answered
<1>6. Backed(answered, p)
  BY <1>4, <1>5 DEF Backed, Sections, Fields
<1>7. r.summary # {} => answered.summary # {}
  BY <1>2, <1>5 DEF Fields
<1>8. QED
  BY <1>5, <1>6, <1>7 DEF answered, filled

\* A summary is there unless there is nothing to say.
LEMMA SomethingToSay ==
    ASSUME NEW p, GoodPack(p), ~NothingToSay(p)
    PROVE  BasicSummary(p, Documents(p)) # {}
<1> SUFFICES ASSUME Position(p) = {}, Documents(p) = {}, ProjectRecords(p) = {}
             PROVE  FALSE
  BY DEF BasicSummary
<1>1. p.ids \subseteq Lines(p)
  BY DEF Documents, ProjectRecords
<1>2. p.amounts \subseteq Valued(p, "cost_line")
  BY <1>1 DEF GoodPack, Odoo, Lines, Valued
<1>3. Valued(p, "cost_line") = {}
  BY DEF Position, OdooKinds
<1>4. QED
  BY <1>1, <1>2, <1>3 DEF NothingToSay

\* The financial synthesis takes no summary away.
LEMMA SynthesisSays ==
    ASSUME NEW p, GoodPack(p), NEW r, DOMAIN r = Fields, r.summary # {}
    PROVE  FinancialSynthesis(r, p).summary # {}
<1>1. FinancialSynthesis(r, p).summary =
         IF ProjectRecords(p) # {} \/ Valued(p, "cost_line") # {}
         THEN BasicSummary(p, {}) ELSE r.summary
  BY DEF FinancialSynthesis, Fields
<1>2. Valued(p, "cost_line") # {} => Position(p) # {}
  BY DEF Position, OdooKinds
<1>3. QED
  BY <1>1, <1>2 DEF BasicSummary

\* Hence post-processing keeps it backed, with what the gate asks for.
LEMMA CorrectedBacked ==
    ASSUME NEW p, GoodPack(p), NEW r, Backed(r, p), NEW ty
    PROVE  LET corrected == Corrected(r, ty, p)
           IN  /\ Backed(corrected, p)
               /\ r.summary # {} => corrected.summary # {}
               /\ ty = "management_question" => corrected.answer = "given"
<1> DEFINE fs == Categories(FromOdoo(r.fs, p), p)
           figured == [r EXCEPT !.fs = fs, !.variance = Variance(fs, @),
                                !.sources = @ \/ ty = "financial"]
           led == IF ty = "financial" THEN FinancialSynthesis(figured, p) ELSE figured
<1>1. BoundSnapshot(fs, p)
  BY FromOdooBound, CategoriesBound DEF Backed
<1>2. Variance(fs, r.variance).ids \subseteq p.ids
  BY <1>1, VarianceBound DEF Backed
<1>3. Corrected(r, ty, p) = Enriched(FilledSummary(led, p), ty)
  BY DEF Corrected
<1> HIDE DEF fs
<1>4. /\ DOMAIN figured = Fields /\ figured.fs = fs
      /\ figured.variance = Variance(fs, r.variance)
      /\ \A s \in Sections : figured[s] = r[s]
      /\ figured.summary = r.summary
  BY DEF Backed, Fields, Sections
<1> HIDE DEF figured
<1>5. Backed(figured, p)
  BY <1>1, <1>2, <1>4 DEF Backed
<1>6. Backed(led, p) /\ (r.summary # {} => led.summary # {})
  BY <1>4, <1>5, SynthesisBacked, SynthesisSays
<1> HIDE DEF led
<1>7. QED
  BY <1>3, <1>6, FilledBacked

\* The report built without the model is backed, and says something unless
\* there is nothing to say.
LEMMA BuiltBacked ==
    ASSUME NEW p, GoodPack(p), NEW ty
    PROVE  LET used == IF ty = "financial" THEN FinancialPart(p) ELSE p
           IN  /\ Backed(Built(ty, p), p)
               /\ ~NothingToSay(used) => Built(ty, p).summary # {}
<1> DEFINE used   == IF ty = "financial" THEN FinancialPart(p) ELSE p
           quoted == IF ty = "financial" THEN {} ELSE used.ids \cap Quotable
           fs     == Categories(FromOdoo(EmptySnapshot, used), used)
           first  == [summary   |-> BasicSummary(used, Documents(used)),
                      findings  |-> Quotes(quoted \ Tagged),
                      body      |-> Quotes(quoted \cap Tagged),
                      actions   |-> {},
                      fs        |-> fs,
                      variance  |-> Variance(fs, NoVariance),
                      answer    |-> "none",
                      conflicts |-> TRUE,
                      sources   |-> TRUE,
                      no_data   |-> FALSE]
<1>1. GoodPack(used) /\ used.ids \subseteq p.ids
  BY FinancialPartIsGood
<1>2. Built(ty, p) = IF ty = "financial" THEN FinancialSynthesis(first, used) ELSE first
  BY DEF Built
<1>3. quoted \subseteq used.ids
  OBVIOUS
<1> HIDE DEF used, quoted
<1>4. BoundSnapshot(fs, used)
  <2>1. BoundSnapshot(EmptySnapshot, used)
    BY DEF BoundSnapshot, BoundFigure, EmptySnapshot, Absent, NotAvailable
  <2>2. QED
    BY <1>1, <2>1, FromOdooBound, CategoriesBound
<1>5. Variance(fs, NoVariance).ids \subseteq used.ids
  BY <1>4, VarianceBound DEF NoVariance
<1>6. \A ids : ids \subseteq used.ids => Honest(Quotes(ids), used)
  BY DEF Honest, Quotes, Cites, Claim
<1>7. Honest(BasicSummary(used, Documents(used)), used)
  BY <1>1, SummaryHonest DEF Documents
<1> HIDE DEF fs
<1>8. /\ DOMAIN first = Fields /\ first.fs = fs
      /\ first.variance = Variance(fs, NoVariance)
      /\ first.summary = BasicSummary(used, Documents(used))
      /\ first.findings = Quotes(quoted \ Tagged)
      /\ first.body = Quotes(quoted \cap Tagged) /\ first.actions = {}
  BY DEF Fields
<1> HIDE DEF first
<1>9. Backed(first, used)
  <2>1. Honest({}, used)
    BY DEF Honest
  <2>2. \A s \in Sections : Honest(first[s], used)
    BY <1>3, <1>6, <1>7, <1>8, <2>1 DEF Sections
  <2>3. QED
    BY <1>4, <1>5, <1>8, <2>2 DEF Backed
<1>10. Backed(Built(ty, p), used)
  BY <1>1, <1>2, <1>9, SynthesisBacked
<1>11. Backed(Built(ty, p), p)
  BY <1>1, <1>10 DEF Backed, Honest, Cites, BoundSnapshot, BoundFigure
<1>12. ~NothingToSay(used) => Built(ty, p).summary # {}
  BY <1>1, <1>2, <1>8, SomethingToSay, SynthesisSays
<1>13. QED
  BY <1>11, <1>12 DEF used

\* What a backed report with a summary can fail on.
LEMMA BackedIsAccepted ==
    ASSUME NEW r, NEW p, Backed(r, p), r.summary # {},
           NEW ty, ty = "management_question" => r.answer = "given",
           NEW cov, Verdict(r, ty, p, cov, named) = "failed"
    PROVE  ~named
<1>1. \A c \in AllClaims(r) : Cites(c, p) /\ c.text # "filename"
  BY DEF AllClaims, Backed, Honest
<1>2. AllClaims(r) # {}
  BY DEF AllClaims, Sections
<1>3. Claimed(r, ty, p, cov, named) = "failed"
  BY DEF Verdict, Lowered
<1>4. PICK k \in ChecksFor(ty) : Objects(k, r, p, named)
  BY <1>2, <1>3 DEF Claimed, Unsupported
<1>5. k \in Baseline \cup {"management_question_answer", "intent_correctness",
                            "irrelevant_sections"}
  BY DEF ChecksFor
<1>6. CASE k = "claims"
  BY <1>1, <1>4, <1>6 DEF Objects
<1>7. CASE k = "financials"
  BY <1>4, <1>7 DEF Objects, Backed, BoundSnapshot
<1>8. CASE k = "executive_summary"
  BY <1>4, <1>8 DEF Objects
<1>9. CASE k = "raw_filename"
  BY <1>1, <1>4, <1>9 DEF Objects
<1>10. CASE k = "management_question_answer"
  <2>1. ty = "management_question"
    BY <1>10 DEF ChecksFor, Baseline
  <2>2. QED
    BY <1>4, <1>10, <2>1 DEF Objects
<1>11. CASE k = "project_identity"
  BY <1>4, <1>11 DEF Objects
<1>12. CASE k \in {"sources", "conflicts", "search_summary", "confidence",
                  "timeout_semantics", "intent_correctness", "irrelevant_sections"}
  BY <1>4, <1>12 DEF Objects
<1>13. QED
  BY <1>5, <1>6, <1>7, <1>8, <1>9, <1>10, <1>11, <1>12 DEF Baseline

\* The report built without the model satisfies every check of the gate, for
\* every pack and whatever the coverage: it fails only without a project name
\* or with nothing to say (_build_report_from_evidence and the corrections
\* of node 12 against the checks of node 13).
THEOREM FallbacksHold == Spec => []FallbackHolds
<1>1. ASSUME DraftInv PROVE FallbackHolds
  <2> DEFINE used == IF type = "financial" THEN FinancialPart(pack) ELSE pack
  <2> SUFFICES ASSUME Judged, author = "builder", verdict = "failed",
                      ~NothingToSay(used)
               PROVE  ~named
    BY DEF FallbackHolds
  <2>1. GoodPack(pack)
    BY <1>1, ReportDraftAssumption DEF DraftInv, ReportDraftAssumption, Packages, GoodPack
  <2>2. report = Corrected(Built(type, pack), type, pack)
        /\ verdict = Verdict(report, type, pack, coverage, named)
    BY <1>1 DEF DraftInv, Authored, Judged
  <2>3. Backed(Built(type, pack), pack) /\ Built(type, pack).summary # {}
    BY <2>1, BuiltBacked
  <2>4. /\ Backed(report, pack) /\ report.summary # {}
        /\ type = "management_question" => report.answer = "given"
    BY <2>1, <2>2, <2>3, CorrectedBacked
  <2>5. QED
    BY <2>2, <2>4, BackedIsAccepted
<1>2. QED
  BY DraftInvariant, <1>1, PTL
=============================================================================
