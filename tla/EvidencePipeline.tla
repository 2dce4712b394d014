-------------------------- MODULE EvidencePipeline --------------------------
(***************************************************************************)
(* Nodes 1 to 11 of the workflow: how one report job is let in and gathers *)
(* its evidence.  The nodes run one after the other.  Node 1 checks the    *)
(* role and the project, nodes 2 to 4 ask the language model about the     *)
(* query.  Each search of nodes 5 to 8 is a call of an external program    *)
(* that may answer, fail or (Odoo) run out of time, and every node turns   *)
(* that into items of the pack and one entry of connector coverage.  Node  *)
(* 9 removes duplicates, node 10 decides whether the evidence will do, and *)
(* node 11 may fetch some more.                                            *)
(*                                                                         *)
(* An item has a source, a key (its source_uri and hash_sha256 together)   *)
(* and a title in lower case, NoTitle when empty.  The time node 8 has     *)
(* left is counted in ticks.                                               *)
(***************************************************************************)
EXTENDS Coverage, FiniteSets, Sequences

CONSTANTS
    Projects,    \* mapping entries a report may be about
    NoProject,   \* a project code the mapping does not have
    Names,       \* project names, NoName among them
    NoName,
    Roles,       \* roles of the callers, "none" for a missing one
    Queries,     \* [financial : BOOLEAN, cost_words : BOOLEAN]
    KeysOf,      \* per source, the keys of its items
    TitlesOf,    \* per source, the titles of its items
    NoTitle,
    TermLimit,   \* _MAX_TERM_ATTEMPTS, 3 in the code
    FinancialTermLimit, \* 6 in the code
    Extended,    \* how many Odoo sources of the registry are scoped by the
                 \* project's id, and how many by its analytic account
    Budget,      \* ODOO_NODE_BUDGET_S
    ProjectCap,  \* ODOO_PROJECT_IDENTITY_TIMEOUT_S
    CostCap,     \* ODOO_ACTUAL_COST_TIMEOUT_S
    ExtendedCap, \* ODOO_EXTENDED_SOURCE_TIMEOUT_S
    Backoff,     \* ODOO_RETRY_BACKOFF_S
    Margin       \* what a retry wants left besides (0.5 s)

Sources == {"odoo", "sharepoint", "owncloud", "email"}

ASSUME PipelineAssumption ==
    /\ Projects \subseteq [enabled    : SUBSET ProjectSources,
                           shared     : SUBSET {"caller", "other"},
                           group      : SUBSET {"id", "mail", "mail_enabled"},
                           verified   : BOOLEAN,
                           name       : Names,
                           odoo_name  : Names,
                           linked     : BOOLEAN,
                           analytic   : BOOLEAN,
                           extended   : BOOLEAN]
    /\ NoProject \notin Projects /\ NoName \in Names
    /\ Roles \subseteq {"executive", "project_manager", "finance", "commercial",
                        "document_control", "procurement", "legal", "auditor",
                        "admin", "none"}
    /\ Queries \subseteq [financial : BOOLEAN, cost_words : BOOLEAN]
    /\ TermLimit \in Nat \ {0} /\ FinancialTermLimit \in Nat \ {0}
    /\ Extended \in [project : Nat, analytic : Nat]
    /\ {Budget, ProjectCap, CostCap, ExtendedCap} \subseteq Nat \ {0}
    /\ {Backoff, Margin} \subseteq Nat

VARIABLES
    pc,          \* the node that runs next, or the step of node 8
    project, role, query,
    allowed_mailboxes,
    identity,    \* project_identity
    coverage,    \* source_coverage
    evidence,    \* state.evidence
    round,       \* search term of node 5, attempt or source of node 8
    left,        \* ticks until node 8's deadline
    cost_status, \* odoo_cost_status
    extended_status, \* odoo_extended_status
    sufficiency, \* evidence_sufficiency
    correction,  \* self_correction_status
    added        \* self_correction_added

inputs == <<project, role, query, allowed_mailboxes, identity>>
odoo   == <<left, cost_status, extended_status>>
after  == <<sufficiency, correction, added>>
vars   == <<pc, inputs, coverage, evidence, round, odoo, after>>

(* What one search of a source may return: an item or none.  More than one *)
(* item comes from several searches.                                       *)
ItemsOf(s) == [source : {s}, key : KeysOf[s], title : TitlesOf[s]]
Results(s) == {<<>>} \cup {<<i>> : i \in ItemsOf(s)}
Pairs(s)   == Results(s) \cup {<<i, j>> : i, j \in ItemsOf(s)}

CountOf(s) == Cardinality({i \in DOMAIN evidence : evidence[i].source = s})

(* The permissions of a role the nodes ask for.  Every role may read       *)
(* SharePoint and ownCloud.                                                *)
MayGenerate(r)       == r \notin {"auditor", "none"}
MayReadOwnMailbox(r) == r \notin {"executive", "auditor", "admin"}
MayReadOdoo(r)       == r # "document_control"

Enabled(s) == s \in project.enabled

Init ==
    /\ pc = "auth"
    /\ project \in Projects \cup {NoProject} /\ role \in Roles /\ query \in Queries
    /\ allowed_mailboxes = {}
    /\ identity = [name |-> NoName, confidence |-> "unresolved"]
    /\ coverage = [s \in ProjectSources |-> NotRecorded]
    /\ evidence = <<>>
    /\ round = 1
    /\ left = Budget
    /\ cost_status = "unset" /\ extended_status = "unset"
    /\ sufficiency = "unknown" /\ correction = "unset" /\ added = 0

gathered == <<coverage, evidence, round>>

-----------------------------------------------------------------------------
(* Node 1.  The mapping is the file docs/config/project_source_mapping.json*)
(* whatever the database says.                                             *)
GroupMail(p) == "email" \in p.enabled /\ {"mail", "mail_enabled"} \subseteq p.group

AllowedMailboxes(p) == p.shared \cup (IF GroupMail(p) THEN {"group"} ELSE {})

(* resolve_project_identity.  The names documents and Odoo records would   *)
(* give come from evidence, and there is none yet.                         *)
NamesOf(p) == {p.name, p.odoo_name} \ {NoName}

Identity(p) ==
    [name |-> IF p.name # NoName THEN p.name ELSE p.odoo_name,
     confidence |-> CASE NamesOf(p) = {} -> "not_verified"
                      [] Cardinality(NamesOf(p)) = 1 /\ p.verified -> "verified"
                      [] OTHER -> "partial"]

Authorized == MayGenerate(role) /\ project # NoProject

Authorize ==
    /\ pc = "auth" /\ Authorized
    /\ allowed_mailboxes' = AllowedMailboxes(project)
    /\ identity' = Identity(project)
    /\ pc' = "intent"
    /\ UNCHANGED <<project, role, query, gathered, odoo, after>>

Refuse ==
    /\ pc = "auth" /\ ~Authorized
    /\ pc' = "raised"
    /\ UNCHANGED <<inputs, gathered, odoo, after>>

(* Nodes 2 to 4.  The model names intents, a scope and the sources to ask; *)
(* an answer that does not parse is replaced by a default.  The retrieval  *)
(* nodes look at none of it: each classifies the query itself and asks its *)
(* source whatever the plan says.  A call may raise.                       *)
Planning == [intent |-> "scope", scope |-> "plan", plan |-> "sharepoint"]

Plan ==
    /\ pc \in DOMAIN Planning
    /\ pc' = Planning[pc]
    /\ UNCHANGED <<inputs, gathered, odoo, after>>

PlanRaises ==
    /\ pc \in DOMAIN Planning
    /\ pc' = "raised"
    /\ UNCHANGED <<inputs, gathered, odoo, after>>

-----------------------------------------------------------------------------
(* A node appends what it found, records its entry and hands over.         *)
Gather(s, items, entry, next) ==
    /\ evidence' = evidence \o items
    /\ coverage' = [coverage EXCEPT ![s] = entry]
    /\ pc' = next
    /\ round' = 1

(* Node 5.  Search terms are tried in order until one finds a document     *)
(* (for a financial report: one the financial filter keeps).  A financial  *)
(* report always has FinancialTermLimit terms, another may have fewer.     *)
Limit == IF query.financial THEN FinancialTermLimit ELSE TermLimit

SharePointFinds ==
    /\ pc = "sharepoint"
    /\ \E items \in Pairs("sharepoint") :
        /\ items = <<>> => (~query.financial \/ round = Limit)
        /\ Gather("sharepoint", items,
                  Answered(Enabled("sharepoint"), Len(items)), "owncloud")
    /\ UNCHANGED <<inputs, odoo, after>>

SharePointNextTerm ==
    /\ pc = "sharepoint" /\ round < Limit
    /\ round' = round + 1
    /\ UNCHANGED <<pc, inputs, coverage, evidence, odoo, after>>

SharePointFails ==
    /\ pc = "sharepoint"
    /\ Gather("sharepoint", <<>>,
              Entry(Enabled("sharepoint"), TRUE, "error", 0), "owncloud")
    /\ UNCHANGED <<inputs, odoo, after>>

(* Node 6 records no coverage and swallows every error.                    *)
OwnCloud ==
    /\ pc = "owncloud"
    /\ \E items \in Results("owncloud") : evidence' = evidence \o items
    /\ pc' = "email"
    /\ UNCHANGED <<inputs, coverage, round, odoo, after>>

-----------------------------------------------------------------------------
(* Node 7.  The project's group mailbox when there is one; otherwise the   *)
(* caller's own mailbox, if the role and the project's allowlist let it.   *)
ByGroup == Enabled("email") /\ {"id", "mail_enabled"} \subseteq project.group

(* Mutants: a project without mailboxes is always "not enabled"; a list    *)
(* with any mailbox lets the caller's be read.                             *)
EmailSkipUnblocked ==
    IF ~MayReadOwnMailbox(role) THEN "rbac_denied"
    ELSE IF allowed_mailboxes = {} THEN "not_enabled"
    ELSE IF "caller" \notin allowed_mailboxes THEN "rbac_denied" ELSE "search"

EmailSkipAnyone ==
    IF ~MayReadOwnMailbox(role) THEN "rbac_denied"
    ELSE IF allowed_mailboxes = {}
         THEN IF Enabled("email") THEN "blocked" ELSE "not_enabled"
    ELSE "search"

EmailSkip ==
    IF ~MayReadOwnMailbox(role) THEN "rbac_denied"
    ELSE IF allowed_mailboxes = {}
         THEN IF Enabled("email") THEN "blocked" ELSE "not_enabled"
    ELSE IF "caller" \notin allowed_mailboxes THEN "rbac_denied" ELSE "search"

Searched == ByGroup \/ EmailSkip = "search"

EmailSkipped ==
    /\ pc = "email" /\ ~Searched
    /\ Gather("email", <<>>, Skipped(Enabled("email"), EmailSkip), "odoo")
    /\ UNCHANGED <<inputs, odoo, after>>

EmailFinds ==
    /\ pc = "email" /\ Searched
    /\ \E items \in Results("email") :
        Gather("email", items, Answered(Enabled("email"), Len(items)), "odoo")
    /\ UNCHANGED <<inputs, odoo, after>>

EmailFails ==
    /\ pc = "email" /\ Searched
    /\ Gather("email", <<>>, Entry(Enabled("email"), TRUE, "error", 0), "odoo")
    /\ UNCHANGED <<inputs, odoo, after>>

-----------------------------------------------------------------------------
(* Node 8.  The project record, the cost lines of the verified analytic    *)
(* account and the extended sources are read one after the other, each     *)
(* under its own timeout and all before one deadline.                      *)
Within(cap)  == IF cap < left THEN cap ELSE left
Took(cap)    == 0..Within(cap)

(* A failed read is repeated once, and only if a full one still fits.      *)
(* Mutant: the back-off is not counted.                                    *)
RetryTooLate(cap, rest) == round = 1 /\ rest >= cap + Margin

Retry(cap, rest) == round = 1 /\ rest >= cap + Backoff + Margin

OdooItems(pack) == {i \in DOMAIN pack : pack[i].source = "odoo"}

Conclude(pack, entry) ==
    /\ evidence' = pack
    /\ coverage' = [coverage EXCEPT !["odoo"] = entry]
    /\ pc' = "normalize"
    /\ round' = 1 /\ left' = Budget

Complete(pack) ==
    Conclude(pack, Answered(Enabled("odoo"), Cardinality(OdooItems(pack))))

Proceed(next, pack, rest) ==
    /\ evidence' = pack /\ pc' = next /\ round' = 1 /\ left' = rest
    /\ UNCHANGED coverage

(* Mutant: the refusal is recorded and the node goes on reading.           *)
OdooDeniedOnPaper ==
    /\ pc = "odoo" /\ ~MayReadOdoo(role)
    /\ Gather("odoo", <<>>, Skipped(Enabled("odoo"), "rbac_denied"),
              IF project.analytic THEN "odoo_cost" ELSE "normalize")
    /\ UNCHANGED <<inputs, odoo, after>>

OdooDenied ==
    /\ pc = "odoo" /\ ~MayReadOdoo(role)
    /\ Gather("odoo", <<>>, Skipped(Enabled("odoo"), "rbac_denied"), "normalize")
    /\ UNCHANGED <<inputs, odoo, after>>

(* The extended sources the mapping has the id for; the others are noted   *)
(* and not asked.                                                          *)
Scoped ==
    (IF project.linked THEN Extended.project ELSE 0)
    + (IF project.analytic THEN Extended.analytic ELSE 0)

(* What follows the cost lines, or a mapping without an analytic account.  *)
AfterCost(pack, rest, cost) ==
    /\ cost_status' = cost
    /\ IF project.extended /\ Scoped > 0
       THEN Proceed("odoo_extended", pack, rest) /\ UNCHANGED extended_status
       ELSE /\ Complete(pack)
            /\ extended_status' = IF project.extended THEN "ok" ELSE "disabled"

ProjectAnswers ==
    /\ pc = "odoo" /\ MayReadOdoo(role) /\ left > 0
    /\ \E d \in Took(ProjectCap), items \in Results("odoo") :
        LET pack == evidence \o items
        IN  IF project.analytic
            THEN /\ Proceed("odoo_cost", pack, left - d)
                 /\ UNCHANGED <<cost_status, extended_status>>
            ELSE AfterCost(pack, left - d, "no_verified_analytic_account")
    /\ UNCHANGED <<inputs, after>>

ProjectFails ==
    /\ pc = "odoo" /\ MayReadOdoo(role) /\ left > 0
    /\ \E d \in Took(ProjectCap) :
        IF Retry(ProjectCap, left - d)
        THEN /\ round' = 2 /\ left' = left - d - Backoff
             /\ UNCHANGED <<pc, coverage, evidence>>
        ELSE Conclude(evidence, Entry(Enabled("odoo"), TRUE, "error", 0))
    /\ UNCHANGED <<inputs, cost_status, extended_status, after>>

ProjectTimesOut ==
    /\ pc = "odoo" /\ MayReadOdoo(role)
    /\ Conclude(evidence, Entry(Enabled("odoo"), TRUE, "timeout", 0))
    /\ UNCHANGED <<inputs, cost_status, extended_status, after>>

CostAnswers ==
    /\ pc = "odoo_cost" /\ left > 0
    /\ \E d \in Took(CostCap), items \in Results("odoo") :
        AfterCost(evidence \o items, left - d, "unset")
    /\ UNCHANGED <<inputs, after>>

CostFails ==
    /\ pc = "odoo_cost" /\ left > 0
    /\ \E d \in Took(CostCap) :
        IF Retry(CostCap, left - d)
        THEN /\ round' = 2 /\ left' = left - d - Backoff
             /\ UNCHANGED <<pc, coverage, evidence, cost_status, extended_status>>
        ELSE AfterCost(evidence, left - d, "error")
    /\ UNCHANGED <<inputs, after>>

CostTimesOut ==
    /\ pc = "odoo_cost"
    /\ AfterCost(evidence, left - Within(CostCap), "timeout")
    /\ UNCHANGED <<inputs, after>>

(* One extended source after another; a late or failing one is skipped,    *)
(* and the end of the budget ends the list.                                *)
NextExtended(pack, rest, status) ==
    /\ extended_status' = status
    /\ IF round = Scoped \/ (rest = 0 /\ status = "timeout")
       THEN Complete(pack)
       ELSE /\ evidence' = pack /\ round' = round + 1 /\ left' = rest
            /\ UNCHANGED <<pc, coverage>>

SoFar == IF extended_status = "timeout" THEN "timeout" ELSE "ok"

ExtendedAnswers ==
    /\ pc = "odoo_extended" /\ left > 0
    /\ \E d \in Took(ExtendedCap), items \in Results("odoo") :
        NextExtended(evidence \o items, left - d, SoFar)
    /\ UNCHANGED <<inputs, cost_status, after>>

ExtendedFails ==
    /\ pc = "odoo_extended" /\ left > 0
    /\ \E d \in Took(ExtendedCap) : NextExtended(evidence, left - d, SoFar)
    /\ UNCHANGED <<inputs, cost_status, after>>

ExtendedTimesOut ==
    /\ pc = "odoo_extended"
    /\ NextExtended(evidence, left - Within(ExtendedCap), "timeout")
    /\ UNCHANGED <<inputs, cost_status, after>>

-----------------------------------------------------------------------------
(* Node 9.  Of the items with one key the one of the best source stays, at *)
(* the place of the first; then of the titled items of one source the      *)
(* first of each title.                                                    *)
Priority == [odoo |-> 3, sharepoint |-> 2, owncloud |-> 2, email |-> 1]

(* Mutant: a worse source replaces the better one.                         *)
Worse(a, b) == Priority[a.source] < Priority[b.source]

Better(a, b) == Priority[a.source] > Priority[b.source]

(* The item the scan of a key's items ends with.                           *)
Kept(pack, k) ==
    LET same == {i \in DOMAIN pack : pack[i].key = k}
    IN  pack[CHOOSE i \in same : \A j \in same :
                \/ Better(pack[i], pack[j])
                \/ ~Better(pack[j], pack[i]) /\ i <= j]

(* The n-th of a set of indexes, and the items at them in order.           *)
Nth(indexes) ==
    [n \in 1..Cardinality(indexes) |->
        CHOOSE i \in indexes : Cardinality({j \in indexes : j < i}) = n - 1]

At(pack, indexes) ==
    [n \in 1..Cardinality(indexes) |-> pack[Nth(indexes)[n]]]

ByKey(pack) ==
    LET first == {i \in DOMAIN pack : \A j \in 1..(i - 1) : pack[j].key # pack[i].key}
        heads == At(pack, first)
    IN  [n \in DOMAIN heads |-> Kept(pack, heads[n].key)]

ByTitle(pack) ==
    At(pack, {i \in DOMAIN pack :
                \/ pack[i].title = NoTitle
                \/ \A j \in 1..(i - 1) :
                     <<pack[j].source, pack[j].title>>
                         # <<pack[i].source, pack[i].title>>})

Deduplicated(pack) == ByTitle(ByKey(pack))

Normalize ==
    /\ pc = "normalize"
    /\ evidence' = Deduplicated(evidence)
    /\ pc' = "sufficiency"
    /\ UNCHANGED <<inputs, coverage, round, odoo, after>>

(* Node 10.  A query with a cost word needs Odoo evidence.                 *)
Enough(pack) ==
    /\ pack # <<>>
    /\ query.cost_words => OdooItems(pack) # {}

Sufficiency ==
    /\ pc = "sufficiency"
    /\ sufficiency' = IF Enough(evidence) THEN "sufficient" ELSE "insufficient"
    /\ pc' = "self_correct"
    /\ UNCHANGED <<inputs, coverage, evidence, round, odoo, correction, added>>

-----------------------------------------------------------------------------
(* Node 11.  The model plans a second retrieval from SharePoint and Odoo;  *)
(* a retrieval that raises adds nothing.  The linear runner comes here     *)
(* once, so the limits on loop_count are never met.                        *)
NotNeeded ==
    /\ pc = "self_correct" /\ sufficiency = "sufficient"
    /\ correction' = "not_needed" /\ pc' = "draft"
    /\ UNCHANGED <<inputs, coverage, evidence, round, odoo, sufficiency, added>>

Stop ==
    /\ pc = "self_correct" /\ sufficiency # "sufficient"
    /\ correction' = "stopped" /\ pc' = "draft"
    /\ UNCHANGED <<inputs, coverage, evidence, round, odoo, sufficiency, added>>

Refetch ==
    /\ pc = "self_correct" /\ sufficiency # "sufficient"
    /\ \E documents \in Results("sharepoint"), records \in Results("odoo") :
        /\ evidence' = evidence \o documents \o records
        /\ added' = Len(documents) + Len(records)
    /\ correction' = "retried" /\ pc' = "draft"
    /\ UNCHANGED <<inputs, coverage, round, odoo, sufficiency>>

(* The budget guard or the provider raises: the workflow fails.            *)
ModelRaises ==
    /\ pc = "self_correct" /\ sufficiency # "sufficient"
    /\ pc' = "raised"
    /\ UNCHANGED <<inputs, coverage, evidence, round, odoo, after>>

Next ==
    \/ Authorize \/ Refuse \/ Plan \/ PlanRaises
    \/ SharePointFinds \/ SharePointNextTerm \/ SharePointFails
    \/ OwnCloud
    \/ EmailSkipped \/ EmailFinds \/ EmailFails
    \/ OdooDenied
    \/ ProjectAnswers \/ ProjectFails \/ ProjectTimesOut
    \/ CostAnswers \/ CostFails \/ CostTimesOut
    \/ ExtendedAnswers \/ ExtendedFails \/ ExtendedTimesOut
    \/ Normalize \/ Sufficiency
    \/ NotNeeded \/ Stop \/ Refetch \/ ModelRaises

Spec == Init /\ [][Next]_vars

-----------------------------------------------------------------------------
OdooSteps == {"odoo", "odoo_cost", "odoo_extended"}
Gathered  == {"normalize", "sufficiency", "self_correct", "draft"}

PipelineTypeOK ==
    /\ pc \in {"auth", "sharepoint", "owncloud", "email", "raised"}
                \cup DOMAIN Planning \cup OdooSteps \cup Gathered
    /\ project \in Projects \cup {NoProject} /\ role \in Roles /\ query \in Queries
    /\ allowed_mailboxes \subseteq {"caller", "other", "group"}
    /\ identity.name \in Names
    /\ coverage \in [ProjectSources -> Entries]
    /\ evidence \in Seq(UNION {ItemsOf(s) : s \in Sources})
    /\ round \in Nat \ {0}
    /\ left \in 0..Budget
    /\ cost_status \in {"unset", "error", "timeout", "no_verified_analytic_account"}
    /\ extended_status \in {"unset", "ok", "timeout", "disabled"}
    /\ sufficiency \in {"unknown", "sufficient", "insufficient"}
    /\ correction \in {"unset", "not_needed", "stopped", "retried"}
    /\ added \in Nat

(* Coverage tells the truth about retrieval: when the four nodes are done, *)
(* every enabled source was asked or its refusal is on record, whichever   *)
(* way through the mapping, the role and the failures they took; and until *)
(* duplicates are removed each entry counts exactly the items its node put *)
(* into the pack (coverage.record in nodes 5, 7 and 8).                    *)
CoverageIsTrue ==
    /\ pc \in Gathered => NotAttempted(coverage) = {}
    /\ pc = "normalize" =>
        \A s \in ProjectSources : coverage[s].evidence_count = CountOf(s)

(* A repeated Odoo read has its whole timeout before it, and the margin:   *)
(* the second attempt never starts into the end of node 8's budget         *)
(* (_read_odoo_with_retry).                                                *)
RetryFits ==
    round = 2 => /\ pc = "odoo" => left >= ProjectCap + Margin
                 /\ pc = "odoo_cost" => left >= CostCap + Margin

(* A source whose reading was refused to the role gives no evidence, except*)
(* through self-correction, which reads SharePoint and Odoo without asking *)
(* for a permission (nodes 7, 8 and 11).                                   *)
RefusedGivesNothing ==
    \A s \in ProjectSources : coverage[s].status = "rbac_denied" =>
        \A i \in DOMAIN evidence : evidence[i].source = s =>
            correction = "retried" /\ i > Len(evidence) - added

(* Nothing is read for a caller node 1 does not let in.  Mail comes from   *)
(* the group mailbox of a project with e-mail, or from a caller's mailbox  *)
(* the mapping lists, for a role that may read its own: the list made in   *)
(* node 1 and the ways through node 7 agree (node_01_auth, node_07_email). *)
ListedCaller == MayReadOwnMailbox(role) /\ "caller" \in project.shared

OnlyAllowedIsRead ==
    evidence # <<>> =>
        /\ MayGenerate(role) /\ project # NoProject
        /\ CountOf("email") > 0 =>
              \/ ListedCaller
              \/ Enabled("email") /\ {"id", "mail_enabled"} \subseteq project.group

(* What node 9 removes has a better or an equal twin that stays: an item   *)
(* of its key from a source at least as good, or one with the title and    *)
(* source of such an item; so Odoo evidence is never lost to a document.   *)
(* Afterwards no two items share a key.                                    *)
NormalizeKeepsBest ==
    [][pc = "normalize" =>
        /\ \A i \in DOMAIN evidence : \E w \in DOMAIN evidence, n \in DOMAIN evidence' :
            /\ evidence[w].key = evidence[i].key
            /\ Priority[evidence[w].source] >= Priority[evidence[i].source]
            /\ \/ evidence'[n] = evidence[w]
               \/ /\ evidence'[n].source = evidence[w].source
                  /\ evidence'[n].title = evidence[w].title
                  /\ evidence'[n].title # NoTitle
        /\ \A m, n \in DOMAIN evidence' :
            m # n => evidence'[m].key # evidence'[n].key]_vars

=============================================================================
