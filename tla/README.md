# Decision Center: TLA+ verification project

Decision Center (`apps/edr`) answers questions about construction projects with
*reports*: a FastAPI process runs an 18-node workflow that retrieves evidence,
drafts a report, checks it with a quality gate and stores it; people then
approve, reject or revise it, and approved reports are published to an immutable
path. PostgreSQL keeps the rows, MinIO the artifacts, Odoo / SharePoint / e-mail
are read through connectors. Everything runs in ONE asyncio process: code between
two awaits is atomic, every await lets other calls in, and the process may be
restarted at any time.

The modules follow one report from its submission to its publication - job,
evidence, draft, verdict, review - and the state around it that the admin console
and the connectors keep: source mappings, Odoo scans, the Graph token, the ledger of
what language models cost. Two kinds of difficulty get two kinds of module:
*protocols*, where calls interleave, raise and are lost (ReportService,
SourceMapping, OdooScan, ModelCalls, GraphToken), and *rules*, where one run takes
one of very many ways (EvidencePipeline, ReportDraft, OdooScanSource).

## 1. Inventory

Line numbers are of the files under `apps/edr/` unless said otherwise.

| Part | State | Operations | What is hard | Must hold |
|---|---|---|---|---|
| Report jobs (`app.py` 37-68, 709-935, 1116-1310) | `report_jobs` row; `_REPORT_JOB_TASKS` | submit, worker task, time-out, `DELETE`, status poll, start-up recovery | cancel and time-out against a statement in flight; restart; stage events landing late | a completed job has a report; a terminal answer stays; every job ends |
| Workflow runner (`graph/runner.py`, `graph/node_*.py`) | `DecisionState` of one run | 18 nodes in order, stage callbacks | a node raises; nodes 15-17 swallow their errors | the worker's view of stored state is right |
| Review and publish (`app.py` 1411-1538, 3594-3779, `graph/node_15..17`) | `audit_log.review_state`, `review_decisions`, `admin_events`, `staging/`, `final/`, `approval-log.json` | approve, reject, request revision, two overrides, node 17 | guards checked before the first await; several statements per call; crash inside the copy loop | nothing published without an approval; a final row is complete; overrides are audited |
| Persistence (`persistence/`) | PostgreSQL tables, MinIO objects | one statement per method, no transaction around two | a statement raises, applied or not | guards in `WHERE` clauses protect terminal rows |
| Odoo scan sessions (`admin/odoo_scan_session.py`, `app.py` 2890-3155) | `ACTIVE_SESSIONS`, `odoo_scan_sessions` rows, the task's own list of keys | start, retry, scan task, poll | check then await then register; two objects of one session; restart between saves | completed means all; completed sources stay; every scan ends |
| Odoo source scan (`scan_one_source`) | one `SourceScanState`, handed from run to run | count, page, resume, legacy fallback | failures between pages, resume offset, bounds | complete implies sampled; bounded reads |
| Source mappings and migrations (`persistence/postgres_store.py` 1020-1400, `app.py` 3166-4056, `admin/*rescan*`, `*enrich*`, `*sync*`) | `source_mappings` rows | put, disable, confirm, enrich, sync, rescan, report gate, migration in every `init_schema` | whole rows written from an old read, with Graph calls in between; a migration that runs again and again | an edit is not lost; the stored status is the earned one; changes are audited |
| Admission and evidence (`graph/node_01..11`, `graph/coverage.py`) | `DecisionState`: pack, coverage, time left | role and project check, plan, four searches, dedup, sufficiency, self-correction | every search may fail, be refused or run late; retries inside a time budget; evidence added after the counts were taken | nothing read for whom it is refused; coverage is true; the best copy stays |
| Draft and quality gate (`graph/node_12`, `node_13`, `report_policy.py`) | draft, report, verdict | parse, repair, remap, correct, build without the model; checks and verdict | a model may answer anything; corrections undo one another; three rules lower the verdict in an order | what is let through is backed; a failed source never passes silently; Odoo's figures win |
| LLM cost guard (`llm.py` 197-466) | the day's cost, cost by model | check, call, record, reset, cost screen | checked before and recorded after an await; midnight and restart in between | the overshoot is bounded and explained |
| Graph token cache (`connectors/graph_token.py`) | one token and a lock | get | lock held over a call that may fail or be cancelled; age counted from before the request | never a dying token, never a second request, nobody stuck |
| Status, content, download (`app.py` 1116-1238, 1546-1622) | none | read rows and objects | job row and audit row are read at different times | answers are consistent |
| Authentication, RBAC | role tables | check a token, a role, a permission | the same question asked in several nodes | the answers agree |
| Connectors, exporters, vector retrieval | none of their own | requests and formatting | external failures | - |
| Evidence cache (`retrieval/cache.py`) | Redis with an in-memory fallback | get, set | nothing in the program creates one | - |
| Connector status, services catalog, uploads, dashboards, evaluation, scripts, frontend, n8n | display and operator tools | reads | - | - |

Interaction: the HTTP endpoints and the worker task share the rows and objects of
one report; every statement and object key is keyed by the request id, so reports
share nothing but the process: its token, its ledger and the mapping table's gate at
submission. A scan session likewise belongs to one project. Calls of one process
interleave at awaits only.

The hazards are listed, each at its line, in `PROJECT.json`.

## 2. Modules

```
ReportLifecycle            what is promised about one report (abstract)
ReportStore                rows and objects of one report, one operator per statement
 |- ReviewPublish          review endpoints and node 17          - MCReviewPublish
 |   `- ReviewPublishProofs
 |- ReportJob              worker, cancel, poll, recovery        - MCReportJob
 |   `- ReportJobProofs
 `- ReportService          both on the same rows                 - MCReportService
     `- ReportServiceProofs    (on the two proof modules above)
MappingRules               errors, status and proposals of one mapping row
 `- SourceMapping          the calls that write the table        - MCSourceMapping
     `- SourceMappingProofs
Coverage                   connector coverage and its summary
 |- EvidencePipeline       nodes 1 to 11                         - MCEvidencePipeline
 |   `- EvidencePipelineProofs
DraftRules                 what node 12 makes of evidence and drafts
 `- QualityGate            the checks and the verdict (+ Coverage)
     `- ReportDraft        nodes 12 and 13                       - MCReportDraft
         `- ReportDraftProofs
OdooScan                   scan sessions of a project            - MCOdooScan
OdooScanSource             one source, page by page              - MCOdooScanSource
 `- OdooProofs             about both
ModelCalls                 the cost guard around every model call - MCModelCalls
GraphToken                 the cached token and its lock         - MCGraphToken
 `- SharedStateProofs      about both
```

**ReportStore** declares the durable state and one operator per SQL statement
(`InsertReportJob`, `MarkReportJobRunning`, `UpdateReviewState`, ...) or
object-store call, with the statement's own `WHERE` clause. `Execute(...)` is a
statement that succeeds, raises before it is applied, or raises after it was
applied (the last two when `DbFaults`).

**ReviewPublish.** A process is an HTTP call or the pipeline's node 17; `pc` names
the awaited statement it is suspended at and an action is that statement with
the synchronous code up to the next await. MinIO calls are synchronous, so the
copy loop of node 17 is one action that only a crash can cut (`CrashInCopy`).
`ReadAudit` = the read with the 404/403/409 checks; `RecordAdminEvent`,
`RecordDecision`, `RecordState` = the writes in order; `PublishReadAudit`,
`PublishReadDecisions`, `PublishCopy`, `PublishFinalize` = `node_17_publish.run`.

**ReportJob.** `task` is the await the worker is suspended at: `init_schema`, the
`start` and `end` stage events (one read and one update), a node, node 15's audit
insert, and what follows the workflow. `Interrupt` delivers `task.cancel()`,
`Timeout` the 15-minute `wait_for`: the statement awaited is applied or not.
`Crash` and `Recover*` are a restart and the two recovery statements.

**ReportService** composes the two: the worker's node 17 is the pipeline process
of ReviewPublish, entered at the last node, interrupted with the worker; reviewers
and `DELETE` write the same `review_state`.

**ReportLifecycle** is the abstract specification: phase, saved, approved,
published. ReportJob and ReportService are shown to implement it
(`JobLifecycle`, `ServiceLifecycle`) under the mapping in those modules.

**MappingRules** are the pure rules about one row: validation errors, the status it
earns, what the migration makes of a verified project's row, and what enrichment,
synchronisation and rescan decide from what Graph answered. How two names are
compared is abstracted to whether they match, and how strongly. **SourceMapping** is
the table and the admin calls: each runs `init_schema` (`InitSchema`, statements that
commit one by one), reads (`ReadPut`, `ReadDisable`, `ReadConfirm`, `ReadTable`),
asks Graph (`GraphBlocked`, `EnrichGroups`, `MatchSites`, `Rescan`), records the event
(`RecordRun`, `RecordChange`) and writes whole rows (`WriteRow`). `AdmitReport` is the
gate at submission. `Raise` is a statement that raises, done or not, and `Restart` the
death of the process, in the middle of a migration too.

**Coverage** is what a node says it did about a source. **EvidencePipeline** is one run
of nodes 1 to 11: `Authorize` or `Refuse`, three planning calls of the model, SharePoint
with its search terms, ownCloud, e-mail, the three Odoo reads with their time-outs and
one retry inside node 8's budget (`left`, in ticks), `Normalize` (node 9), `Sufficiency`
(10) and the ways out of node 11. An item has a source, a key (`source_uri` and hash
together) and a title, which is what deduplication compares. Every call of a connector
answers with items, raises, or (Odoo) runs out of time.

**DraftRules** are node 12's rules: what Odoo evidence says about money, the shape and
remapping rules for a draft, the corrections in their order, and the report built
without the model. A number is the set of its origins (`{}` for none, `"text"` in it
when it is none), so that "whose figure is this" can be asked of a report. **QualityGate**
is every check of node 13, the policy that picks them by report type, and the three
rules that lower the verdict. **ReportDraft** runs them: `DraftSalary` for the availability
report, `ModelDrafts`, `ModelGarbles`, `ModelRepairs`, `ModelRaises`, then `Finish` or
`FinishFails`, then `Gate`.

**OdooScan.** A `ScanSession` is a mutable object; a retry works on the registered
object or makes a second one from the row. Objects and tasks are therefore named
by the call that made them. `StartAudited`, `StartSaved`, `Retry`, `RetryLoaded`,
`RetryAudited` are the endpoints between awaits, `Task*` the background task between
its saves and its calls to Odoo; a save takes its snapshot when it starts.

**OdooScanSource** is `scan_one_source` with the result of the previous run as its
prior. `sampled` is a history variable: the rows any run has read.

**ModelCalls.** A task is a report job with one model call at a time: `Send` (check and
call), `Refuse`, `Fallback` (the deterministic answer without a key), `Answer` (record),
`Lose` (raises, is cancelled or times out: nothing recorded). `Midnight` advances the
clock, the tracker notices at its next look (`CheckReset`), and `ReadCost` is the screen.

**GraphToken.** `queue` is the lock in the order of asking, `phase` where a caller is:
`Ask`, `UseCache` or `Request` when it is its turn, `Issue` by Entra at any
moment in between, `Receive`, `Fail`, and `Tick`. The expiry is computed from the
clock read before the request, as in the code.

## 3. Runs

Every configuration but `model_calls` sets `CHECK_DEADLOCK FALSE`: calls are one-shot
and a run of the workflow ends, so each of these systems legitimately stops. Symmetry
over calls of one sort is used in runs without liveness properties only. Two
interchangeable calls are enough for a race; two artifacts, one of them optional, tell a
complete publish from a partial one; three nodes give a node before, at and after the
save.

| Run | Question | Bounds |
|---|---|---|
| `review_faults` | Is anything published without an approval, any override unaudited, a final row incomplete; do the 409 checks lock a final report when calls do not overlap? | 2 calls of any kind + pipeline, 1 crash, SQL and MinIO faults |
| `review_rejected` | Does a rejection exclude publication? No, see below | 2 calls |
| `job_faults` | Completed has a report, told terminal stays, implements the lifecycle | 2 cancels, time-out, polls, SQL faults, 1 crash, 3 nodes |
| `service_faults` | Do worker, reviewer and cancel together implement the lifecycle; is a final row complete when the worker's node 17 is interrupted? | 1 call, 1 cancel, time-out, SQL faults, 1 crash, 2 nodes (save and publish) |
| `service_ends` | Does every job end and have an owner; is every approval published or replaced? | the same, fair, no raising statement |
| `scans` | Does a stored completed mean all; do completed sources stay; does every scan end? | 1 start, 2 retries, 2 sources, every statement raising, 1 restart, fair |
| `source_sample` | Does a complete source have its sample; are reads bounded; does every run return? | 0-9 rows, pages of 2, sample of 5, 4 pages, 4 runs, fair |
| `mappings` | Is the stored status the earned one, every change audited first; what can a whole-row write from an old read overwrite? | 3 calls of any kinds, 1 verified and 1 synchronised project, 3 sites, 3 bodies, SQL faults, 1 restart |
| `model_calls` | By how much can calls in flight pass the daily cap, and why; do the ledgers agree? | 3 jobs, estimates 1 to 3, overrun 1, cap 6, 2 midnights, 1 restart |
| `graph_token` | Is a cached token alive, a request never repeated, every caller answered? | 3 callers, lifetimes 1 and 4, buffer 2, clock to 6, fair |
| `evidence_pipeline` | Is coverage true, a retry in time, nothing given that was refused, nothing read that was not allowed, the best copy kept? | 5 mapping entries, 5 roles, 3 queries, 3 keys, budget 7 with caps 3/2/1, backoff 1, margin 1, 2 or 3 search terms |
| `report_draft` | Is what the gate lets through backed by the pack; does the report without the model hold; whose figures are in it? | 5 types, 8 packs, 6 coverages, about 200 drafts |

Why these are enough. A sample of 5 with pages of 2 is not a multiple of the page,
tables of 0 to 9 rows are shorter than, equal to and longer than the sample and the
pages; four runs suffice for a failure, a resumption, a failed resumption and a restart
from zero. Three mapping calls are a reader, a writer that overtakes it and the
migration of a third; three sites are the row's own, another's and a free one, and
`TopCandidates = 2` lets a strong match lie outside what a rescan looks at closely.
Three jobs under a cap of two full estimates let the guard be passed once and twice over. The
lifetimes 1 and 4 lie on both sides of the buffer 2, and the clock runs past the
longest. A budget of 7 gives node 8 every combination of a full read, a late one and
a retry; its caps keep the order of the code's (project above cost above extended).
The keys let a document meet its copy from another source and from the same one. The
drafts differ in one thing each that the rules look at: ids nobody has, made-up
sources, missing and null sections, figures of the model's own, text for a number.

History variables make a promise exact instead of excluding the faults that bend it.
`missed` collects what an object-store call of node 17 failed to put under `final/`:
node 17 reports such a report as published all the same, so `FinalIsComplete` says a
final row has everything *but* that. `raced` becomes true when two processes have
overlapped: `FinalLocked` is a promise of the 409 checks, which read before they write.
In SourceMapping a call is marked *overtaken* when a row it has read is written by
another, and the whole-row properties hold for calls that are not; `proposal` is what a
rescan showed. In ModelCalls `answered` and `lifetime` are what today's and all answers
of the process cost, `billed` what the day really cost with lost and late calls, and
`causes` why the guard could not know; `CapExplained` lists the causes there are, and a
day without one stays below its cap. In GraphToken `got` is what each caller was given and when. In
EvidencePipeline `added` is how many items self-correction appended.

`ServiceLifecycle` and `JobLifecycle` are the refinements to `ReportLifecycle`: no
report is approved before it is saved or published before it is approved, and an
ended job never starts again.

The type invariants `JobTypeOK`, `ServiceTypeOK`, `ScanTypeOK` and `MappingTypeOK` are proved,
`CostTypeOK` is a part of the proved `CostInv`, and none of them is repeated in the runs.
`SourceTypeOK`, `TokenTypeOK` and `PipelineTypeOK` can be added to their runs as INVARIANTS and hold
there.

### What the repository says and the code does not do

`review_rejected` shows one such case as a counterexample:
`docs/workflows/EDR-AGENTIC-RAG-v2.1.md:1623` "rejection never publishes" - a rejection
that is recorded while a publish is at work leaves the report in `final/` with a row that
says rejected.

The following have a definition in their module and no run of their own. Adding it to the
named configuration, as an INVARIANT or, if it is a formula `[][...]_vars`, as a PROPERTY, shows
the behaviour.

| Definition (configuration) | Statement | What happens |
|---|---|---|
| `ReviewPublish!GateGatesPublish` (ReviewFaults) | `app.py:1436` "The automated quality gate still gates publish." | a report with a failed gate is approved and published |
| `ReportJob!ConfirmedCancelSticks` (JobFaults) | `docs/design/UI_CONTRACT_v1.md:1308` "On confirm, the workflow is terminated." | the cancellation is swallowed and the job completes |
| `ReportService!CancelledIsTerminal` (ServiceFaults) | `app.py:1248` names cancelled a terminal state | a cancelled report is approved |
| `OdooScan!OneScanPerProject` (Scans with `Starts = {s1, s2}`, `Retries = {}`) | `app.py:3026` "idempotent: reuse running scan" | two starts between look-up and registration |
| `OdooScan!RunningIsOwned` (Scans) | `admin/odoo_scan_session.py:20` "retried or resumed" | a retry of the failed sources after a restart leaves the session running for ever |
| `SourceMapping!DisabledUntilSaved` (Mappings) | a disabled mapping blocks reports until it is enabled again (`app.py:3353`, UI contract) | the migration in the next admin call, an enrichment or a synchronisation computes the status anew and enables it |
| `ReportDraft!FigureFromOdoo` (ReportDraft) | `graph/node_12_draft_json.py:4` "financial values MUST come from Odoo." | a figure the model made up stays where Odoo has none |

Seen in the same code, because they follow from one line or from the behaviours above.

Reports and review:

* `app.py:1421` "Self-approval is blocked." - `approve_report` compares the caller
  with nobody (a comment below it says the owner approves); only the overrides check.
* `node_17_publish.py:79` "Write approval-log.json exactly once" - each publish with an
  approval puts it again; two approvals past the 409 check write it twice.
* `EDR-AGENTIC-RAG-v2.1.md:133` no report in the final path without an approval log - the
  artifacts are copied first, so a crash in the copy loop leaves them without one.
* `UI_CONTRACT_v1.md:1308` "Audit event `report.cancelled` is written." - not for a job that
  is still processing.

Scans:

* `app.py:3126` sets a live session running before an admin event that may raise; then no
  task is launched, which is another way to the state of `RunningIsOwned`.
* `postgres_store.py:1504` "poll/resume/retry even across a worker restart" - a restart
  between the save of the last source and the final save stores a session that says
  running and has nothing a retry selects.
* `odoo_scan_session.py:118` pages "cumulative" - a run whose first call fails returns a fresh
  state and forgets the pages of the runs before.

Mappings:

* The confirmation and the synchronisation promise not to overwrite a confirmed site
  (409; "MANUALLY_CONFIRMED mappings must not be overwritten"). Both check a row they have
  read before they write, and a call in between is overwritten: `ConfirmKeepsSite` and
  `SyncTakesFreeSites` hold for calls that were not overtaken. Two Odoo projects of one name
  match the same site in one synchronisation.
* `UI_CONTRACT_v1.md:787` has every change of a mapping audited; the migration writes none.
* The migration leaves the status of an enriched verified row as it was while it rewrites
  the coordinates the status was earned with, and a disabled verified row without group data
  is complete again after the next `init_schema`, that is, after any admin call.
* A transient failure of Graph during enrichment is taken for "no group" and wipes the
  group data of the row.
* The gate on reports lets a report through when the statement that reads the mapping
  raises, and retrieval reads the mapping *file*, not the rows the console edits.

Cost and evidence:

* The daily cap is one per process life; lost calls cost nothing in it, and the breakdown
  by model on the cost screen is never reset while the total beside it is.
* An Odoo cost read that times out leaves coverage `ok` and complete, and the gate's check
  of time-outs does not see it.
* `graph/coverage.py:15` refusals are final - self-correction reads SharePoint and Odoo without a
  permission or enabled check, after `rbac_denied` too (the exception in
  `RefusedGivesNothing`). Completeness counts are taken before deduplication and
  self-correction; node 11 runs once, so its loop limits are never reached; node 4's plan is
  not read by the nodes after it, and sources that are not enabled are searched.
* Names of the project are resolved before there is evidence, so names found in evidence
  never apply.

Draft and gate:

* When Odoo has cost lines and the model's snapshot lacks the key `actual_cost`, it never gets
  Odoo's figure (the exception in `OdooFiguresWin`); `committed_total` is taken for it.
* A null section beside a made-up source id, a null executive answer and a text where
  a figure belongs raise in the corrections (`FinishFails`) where the code means to fall back
  to the report without the model.
* `can_see_finance` is undone by a later correction; the repair's pair is unpacked as
  one value; the checks of management questions cannot object after enrichment, and their
  analytical completeness is always "incomplete".
* An excerpt named like `x (1).pdf` passes the builder's filter and fails the gate's; a report
  built only from cost lines without amounts is refused (the exception in `FallbackHolds`);
  the salary availability report never passes.

## 4. Fairness

asyncio resumes every coroutine whose await is over, and every await here is
bounded: statements answer or raise, calls to Odoo and the workflow run under
`asyncio.wait_for`, the token request under httpx's 15 seconds. So
`ReportService!FairSpec`, `OdooScan!FairSpec` and `OdooScanSource!FairSourceSpec` have weak
fairness on the steps of each process that has begun: the worker and the delivery of a cancellation to it, recovery
(the container restarts), calls already made, scan tasks. `GraphToken!TokenSpec` has it on a
caller whose turn it is (`asyncio.Lock` wakes its waiters in the order of asking) and on
the end of a request. Nobody has to submit, approve, cancel, retry, poll or ask for a
token, no timer has to fire and no fault has to happen. `EveryJobEnds` and
`ApprovalPublishes` are claimed without raising statements: a statement that raises in
the worker's `init_schema`, in its exception handler or in the start-up hook does leave
a row in flight. `ApprovalPublishes` excludes a crash: nothing resumes a publish after a
restart.

## 5. Proofs

Assumptions are the named `ASSUME`s of the modules; TLC evaluates them in every run.
Each theorem below has the form `Spec => []Inv` or `Spec => [][A]_vars` and follows from
an inductive invariant that is stronger than what it says.

`ReviewPublishProofs`, for any sets of calls and artifacts, any number of crashes,
all fault settings:

* `ReviewTypeCorrect`. `ReviewTypeOK` is inductive; `LatestApprovalIsAuthor` (node 17's
  choice is an author of a decision) is the only step with content.
* `PublicationNeedsApproval`. Not inductive: a call suspended in node 17 acts on an
  `approved` it read long ago. The strengthening `ApprovalInv` says the approval is
  recorded as soon as any process can still act on one: a call about to store its
  verdict has recorded its decision, a publish that read approved or final has an
  approval behind it. `ApprovalStays` (decisions only accumulate) carries it over every step.
* `FinalReportsAreComplete`. The strengthening `CompleteInv` says that whoever is about to
  write `final` has copied everything staged and written the log, but for what is in
  `missed`; that a publish which enters the copy loop knows an approver (by `ApprovalInv`,
  since it read approved before the decisions); and that what is under `final/` never shrinks.
* `OverridesAreAudited`. `OverrideInv` adds the calls that are past their guards, and past
  their admin event, to those that are recorded.
* `FinalizedIsLocked`. `AloneInv` says that without an overlap at most one process is in
  progress, that the approval a publish is about to write is still the latest one, and
  that no call past its guards is left once the row says final. With `CompleteInv` every
  step is then a locked one: a publish that runs again copies what is there and names the
  approval that is named.

`ReportJobProofs`, for any number of nodes, cancels and crashes, all fault settings:

* `JobTypeCorrect`, with `RowStatements` for the SQL statements and `PendingTypes` for
  the statement an interruption leaves applied or not.
* `StepRows`: every step of every process is a `RowStep`, that is, it writes one of the
  two rows in one of five (three) ways. The invariant `JobInv` it needs says where
  the worker can be without a row, that a worker about to complete has seen the audit
  row, and that what the client was told, or is about to be told, is true.
* `CompletedJobsHaveReport`, `TerminalAnswersStay` and the refinement
  `JobImplementsLifecycle` (`Spec => JobLifecycle`: initial states map to initial states,
  each `RowStep` to a step of `ReportLifecycle` or a stutter) follow from the two.

`ReportServiceProofs`, for any calls, cancels, artifacts and nodes, any number of crashes,
all fault settings. The module instantiates ReportJobProofs and ReviewPublishProofs and
uses their lemmas about single steps for the composition's steps:

* `StepKinds` sorts those into a step of the worker's side (`JobPart`), one of the
  reviewers' side (`ReviewPart`), the interruption of node 17, and a crash of both.
  `JobKeeps` and `ReviewKeeps` say what each side leaves to the other, which is all that
  one side's invariant needs to survive the other's steps.
* `ServiceInv` is the invariants of both sides with three parts that only the composition
  needs: no reviewer is at work before the report is saved (`NotReviewed` with `BeforeSave`, so
  that the worker never stages artifacts under a publication), a call past its guards has
  seen the saved row (`Admitted`), and the approvals `CompleteInv` counts are reviewers', because
  a cancel records decisions too.
* `FinalStaysComplete` and `ServiceImplementsLifecycle` follow from it: an interrupted
  `update_review_state('final')` of node 17 may be applied or not, and in both cases the copies
  are already there (`InterruptKeeps`); a crash in the copy loop leaves only artifacts of an
  approved report under `final/` (`CrashesKeep`, `FinalGrows`). `ServiceTypeCorrect` is the type
  invariant.
* `InFlightRowsAreOwned` states `InFlightIsOwned` for statements that do not raise, as
  the run does. `OwnedParts` adds what is true in the middle of a recovery (the first statement
  leaves only rows without a saved report to the second) and why a worker may be stopped (a cancel
  has yet to store the status, or the job has ended).

`OdooProofs`, about OdooScan for any calls and sources, with raising statements and restarts:

* `ScanTypeCorrect`, `CompletedSessionsAreWhole` (`CompletedMeansAll`: a stored session that
  says completed has every source completed, although two tasks may save snapshots of two
  objects of one session) and `CompletedSourcesStay`. `ScanInv` says that every object,
  row and snapshot in flight is whole (`AllWhole`), that a call which may still change an
  object works on an unfinished one and has nothing completed to scan (`Owned`), and that no
  two such calls work on the same object (`Apart`): a retry makes a new object or takes one
  that is over. What is *stored* is a snapshot of one of them, so two objects of one
  session, which the code allows, cannot mix.

`OdooProofs`, about OdooScanSource for every page size, sample, table and number of runs:

* `SampleComplete` (`CompletedHasSample`) and `SampleBounded` (`SampleIsBounded`). The
  invariant `SampleInv` says that everything before `offset` has been read, that the offset is
  at least the rows seen and at least the pages read times the page size, and that the
  stored resume offset skips nothing. `PageSizes` (a short page ends the table) and
  `PageExtends` are its lemmas. The assumption `SampleTarget <= PageSize * MaxPages` is what
  makes stopping at the page cap harmless; the default settings satisfy it (a sample of 300,
  pages of 100, at most 50 of them), a deployment that configures others must too.

`SharedStateProofs`, about ModelCalls for any jobs, estimates, overruns and caps:

* `OvershootIsBounded`, `CapHoldsOnQuietDays`, `LedgersAgreeAlways`, from `CostInv`. The bound
  on the overshoot counts the calls in flight: each was admitted below the cap and is charged
  at most one `MaxCost`. `QuietDay` is what makes `CapExplained` inductive: on a day without a
  cause at most one call is in flight, its estimate still fits under the cap, and what was
  billed is in the ledger.

`SharedStateProofs`, about GraphToken for any callers, lifetimes and buffer:

* `CachedTokensLive` and `RequestsAreNotRepeated`, from `TokenInv`. A token is `Careful` when
  what it says of its end leaves the buffer before its real end; this needs that the clock was
  read *before* the request (`asked <= now` when Entra issues). `LockInv` keeps the useless
  cache useless while somebody requests, `HandedOut` says that every token handed out is the
  cached one or is used up.

`SourceMappingProofs`, for any projects, sites, mailboxes, bodies and calls, with raising
statements and restarts, the migration cut short at any statement included:

* `MappingTypeCorrect`, `StoredStatusesAreEarned`, `RescansPickUnique`, `EveryChangeIsAudited`,
  `ConfirmationsKeepSites`, `SyncsTakeFreeSites` and `EnrichmentsKeepEntries`, from `MappingInv`.
  Every stored row is `Earned` (its status is the one its columns earn, or "disabled", or the
  migration wrote it and it has group data). A list a call has read is `Fresh`: it is the table,
  but for the rows written since, which are all in `overtaken`. A planned row is `Sound`:
  measured against the row *as it is now*, it keeps what its kind of call must keep unless that row
  was overtaken. So a stale copy is not excluded; the invariant says what it is still
  good for. `SoundStays` and `Bystander` carry this over the writes of other calls.
* The rules: `SyncedBodyType` (the status a synchronisation stores is computed from the body it
  stores), `MigratedRow`, and `StrongestIsUnique`: sites are looked at strong ones first and
  `TopCandidates` is at least 2, so a strong match that is alone among the sites looked at is alone
  among all. With `TopCandidates = 1` that is false, which is the reason for the assumption; the code
  looks at five.
* `WhoChanges` says which steps change a row: `init_schema` (complete, cut short by a raising
  statement, or by a restart) those of the verified projects, and `WriteRow` the one its
  call has announced.

`EvidencePipelineProofs`, for any mapping entries, roles, queries, keys, titles and budgets:

* `RetriesFit`, from `TimeInv` alone: no read takes more of the budget than is left
  (`TookFits`), and a node that ends gives the next one a fresh count.
* `CoverageAlwaysTrue`, `RefusedSourcesGiveNothing`, `OnlyTheAllowedIsRead`, from `PackInv`: a
  node that has not run has added nothing (`Staged`), each source that is recorded as asked or
  refused says so (`Told`), counts are the pack's (`Counted`), and nothing is in the pack
  for a caller or a mailbox that was not let in (`Admitted`). `Grow`, `Recorded` and `ReadsOn`
  carry it over each sort of step.
* `NormalizingKeepsBest`: what node 9 removes has a better or equal twin that stays, and
  afterwards no two items share a key. The lemmas `BestItem`, `KeptIsBest`, `OnePerKey` and
  `OnePerTitle` speak of the best item of a key by rank; `LeastNatural` and `NthIsBijective`
  relate the positions in the sequence before and after.

`ReportDraftProofs`, for any evidence, packs and coverage and any answers of the model:

* `OdooFiguresAlwaysWin`: `CategoriesWin` says that the corrections end with Odoo's figures
  whatever the snapshot was before them.
* `ReleasedReportsAreBacked`: a verdict other than failed means that the checks of sources
  and figures found nothing, and every policy contains them; passed means in
  addition that neither coverage rule applied.
* `FallbacksAreReviewed`: the fallback's summary matches the pattern the gate looks for unless
  the pack says something about the project's position; `Authored` says which
  report is whose.
* `FallbacksHold`: no check of the gate objects to the report without the model, for every
  pack, type and coverage. `Backed` (every claim cites the pack and none is a file name, every
  available figure and the variance are bound to it) holds of what is built (`BuiltBacked`) and
  survives each correction (`FromOdooBound`, `CategoriesBound`, `VarianceBound`,
  `SynthesisBacked`, `FilledBacked`); `SomethingToSay` and `SynthesisSays` are why there is a
  summary, and `BackedIsAccepted` goes through the checks.

Every safety property of every run, the refinements included, has a theorem. Only
model-checked are the five liveness properties (`EveryJobEnds`, `ApprovalPublishes`,
`ScanEnds`, `RunReturns`, `EveryCallerEnds`) and the absence of deadlock in ModelCalls: liveness
under fairness and ENABLED are outside what the prover does. What is counterexample, not theorem:
`RejectionNeverPublishes` and the definitions in the table of section 3.

## 6. What is not modelled

* Several reports at once: they share no state but the process's token and ledger, which
  have modules of their own, and the mapping table.
* Refusals by the endpoints' authentication and role checks: they change nothing. Node 1's
  and the nodes' own checks are in EvidencePipeline.
* The synchronous endpoint `_run_report_sync`: the workflow without a job row, a
  part of what ReportJob does.
* Cancellation swallowed inside a retrieval node: nodes before 15 are one await of
  ReportJob; their insides are EvidencePipeline and ReportDraft, which run alone because
  they touch no shared state.
* A statement's commit and the continuation after it are one step; a crash between
  them is the crash before the next step.
* Two saves of one scan session overtaking each other on two connections.
* Requests and responses of connectors, prompts, reranking, wording, exports; how names are
  scored against each other in the Microsoft programs.
* The evidence cache: nothing in the program creates one. Connector status and the services
  catalog: they read, and nothing reads what they compute.
* Everything else under "not_modelled" in `PROJECT.json`, with its reason.

## 7. Plan

Done: all modules of section 2, their runs and the proofs of section 5. Left, in this order:

1. Facts the liveness arguments rest on and which are safety: in each state of OdooScan in
   which a scan is under way, some step of it is possible, and each such step brings its end
   nearer; the same for the worker of ReportService and for the lock of GraphToken.
2. Type correctness of ModelCalls, GraphToken, OdooScanSource, EvidencePipeline and ReportDraft
   as theorems of their own; today it is a part of the invariants.
3. Downloads and content: the guards of `_download_artifact` against review and publish.
4. The vector store as a supplementary writer of retrieval nodes, and uploads.

The set of runs is kept small enough to be repeated at every change.
