----------------------------- MODULE ReportStore -----------------------------
(***************************************************************************)
(* The durable state behind one report: its row in report_jobs, its row in *)
(* audit_log, its review_decisions, the admin events about it, and its     *)
(* objects under staging/ and final/ in MinIO.  Every SQL statement of     *)
(* PostgresStore and every object key of MinioStore is keyed by the        *)
(* request id, so reports share nothing and one report is the unit of the  *)
(* model.                                                                  *)
(*                                                                         *)
(* Each operator below is ONE statement (or one object-store call); the    *)
(* modules that extend this one decide who issues it and when.             *)
(***************************************************************************)
EXTENDS Integers, Sequences, FiniteSets

CONSTANTS
    Requests,    \* HTTP calls of reviewers (approve, reject, ... override)
    Cancels,     \* HTTP DELETE calls of the requester
    Nobody,      \* no author: the empty approval log
    Artifacts,   \* the objects node 17 publishes
    Optional,    \* the artifacts a run may leave out of staging
    NodeCount,   \* workflow nodes (18 in the code)
    DbFaults,    \* PostgreSQL statements may raise
    MinioFaults, \* object-store calls may raise
    Crashes      \* bound: how often the server process may die

ASSUME StoreAssumption ==
    /\ NodeCount \in Nat \ {0}
    /\ Optional \subseteq Artifacts
    /\ Requests \cap Cancels = {}
    /\ Nobody \notin Requests \cup Cancels
    /\ DbFaults \in BOOLEAN
    /\ MinioFaults \in BOOLEAN
    /\ Crashes \in Nat

VARIABLES
    job_status,   \* report_jobs.status, "absent" before the row is inserted
    job_node,     \* report_jobs.current_node
    review_state, \* audit_log.review_state, "absent" before node 15
    quality_gate, \* audit_log.quality_gate_status
    decisions,    \* review_decisions, oldest first
    admin_events, \* calls that inserted an admin event
    staging,      \* objects under staging/
    final,        \* objects under final/, the approval log apart
    approval_log, \* whose approval final/approval-log.json names
    missed,       \* history: what object-store calls failed to put under final/
    crashes       \* how often the server process has died

jobRow      == <<job_status, job_node>>
auditRow    == <<review_state, quality_gate>>
reviewTable == <<decisions, admin_events>>
finalPath   == <<final, approval_log, missed>>
objects     == <<staging, finalPath>>
rowVars     == <<job_status, job_node, review_state, quality_gate,
                 decisions, admin_events, objects>>
storeVars   == <<rowVars, crashes>>

-----------------------------------------------------------------------------
(* Vocabulary of the columns.                                              *)

InFlight    == {"queued", "running"}
Terminal    == {"completed", "failed", "timeout", "cancelled"}
JobStates   == {"absent"} \cup InFlight \cup Terminal

DecidedStates == {"final", "rejected", "approved", "revision_requested", "cancelled"}
ReviewStates  == {"absent", "staging"} \cup DecidedStates

Gates           == {"passed", "needs_review", "failed"}
ApprovalActions == {"approve", "admin_override"}
Actions         == ApprovalActions \cup {"report.cancelled"}
Decision        == [by : Requests \cup Cancels, action : Actions]

\* The state name shown to users: a decided review state wins, then the
\* gate verdict, then "staging".
DerivedState ==
    CASE review_state \in DecidedStates -> review_state
      [] review_state \notin DecidedStates /\ quality_gate \in {"failed", "needs_review"}
                                        -> quality_gate
      [] OTHER                          -> "staging"

StoreTypeOK ==
    /\ job_status \in JobStates
    /\ job_node \in 0..NodeCount
    /\ review_state \in ReviewStates
    /\ quality_gate \in Gates \cup {"none"}
    /\ decisions \in Seq(Decision)
    /\ admin_events \subseteq Requests
    /\ staging \subseteq Artifacts
    /\ final \subseteq Artifacts
    /\ approval_log \in Requests \cup Cancels \cup {Nobody}
    /\ missed \subseteq Artifacts \cup {"approval_log"}
    /\ crashes \in 0..Crashes

StoreInit ==
    /\ job_status = "absent"
    /\ job_node = 0
    /\ review_state = "absent"
    /\ quality_gate = "none"
    /\ decisions = << >>
    /\ admin_events = {}
    /\ staging = {}
    /\ final = {}
    /\ approval_log = Nobody
    /\ missed = {}
    /\ crashes = 0

-----------------------------------------------------------------------------
(* report_jobs                                                             *)

InsertReportJob ==
    /\ job_status' = "queued"
    /\ job_node' = 0

BuggyMarkReportJobRunning(node) ==  \* the WHERE clause forgets the status
    IF job_status # "absent"
    THEN job_status' = "running" /\ job_node' = node
    ELSE UNCHANGED jobRow

\* This one and the next carry WHERE status NOT IN (terminal).
MarkReportJobRunning(node) ==
    IF job_status \in InFlight
    THEN job_status' = "running" /\ job_node' = node
    ELSE UNCHANGED jobRow

MarkReportJobStageComplete(node) ==
    IF job_status \in InFlight
    THEN job_node' = node /\ UNCHANGED job_status
    ELSE UNCHANGED jobRow

\* Both terminal statements are unconditional: WHERE job_id = $1.
CompleteReportJob ==
    IF job_status # "absent"
    THEN job_status' = "completed" /\ job_node' = NodeCount
    ELSE UNCHANGED jobRow

FailReportJob(status) ==
    IF job_status # "absent"
    THEN job_status' = status /\ UNCHANGED job_node
    ELSE UNCHANGED jobRow

\* The two statements of recover_report_jobs_after_restart.
RecoverSaved ==
    IF job_status \in InFlight /\ review_state # "absent"
    THEN job_status' = "completed" /\ job_node' = NodeCount
    ELSE UNCHANGED jobRow

RecoverLost ==
    IF job_status \in InFlight /\ review_state = "absent"
    THEN job_status' = "failed" /\ UNCHANGED job_node
    ELSE UNCHANGED jobRow

-----------------------------------------------------------------------------
(* audit_log, review_decisions, admin_events                               *)

\* The upsert of node 15 puts the row back to review_state 'staging'.
InsertAudit(gate) ==
    /\ review_state' = "staging"
    /\ quality_gate' = gate

UpdateReviewState(state) ==
    /\ review_state' = IF review_state = "absent" THEN "absent" ELSE state
    /\ UNCHANGED quality_gate

InsertReviewDecision(call, act) ==
    /\ decisions' = Append(decisions, [by |-> call, action |-> act])
    /\ UNCHANGED admin_events

InsertAdminEvent(call) ==
    /\ admin_events' = admin_events \cup {call}
    /\ UNCHANGED decisions

\* get_review_decisions is newest first; node 17 takes the first entry whose
\* action is approve or admin_override.
ApprovalIndexes(table) == {i \in DOMAIN table : table[i].action \in ApprovalActions}

LatestApproval(table) ==
    IF ApprovalIndexes(table) = {} THEN Nobody
    ELSE table[CHOOSE i \in ApprovalIndexes(table) :
                  \A j \in ApprovalIndexes(table) : j <= i].by

-----------------------------------------------------------------------------
(* MinIO                                                                   *)

\* copy_to_final for every artifact: an object already in final/ is left
\* alone, one missing from staging/ or hit by a fault is not copied.
CopyToFinal(lost) == final' = final \cup (staging \ lost)

\* The calls a fault may hit: any of them, or none when there are no faults.
MaybeLost == IF MinioFaults THEN SUBSET Artifacts ELSE {{}}

-----------------------------------------------------------------------------
(* One awaited statement: it is applied and answered; or it raises, in     *)
(* which case the server may or may not have applied it.                   *)
Execute(statement, skipped, answered, raised) ==
    \/ statement /\ answered
    \/ DbFaults /\ raised /\ (statement \/ skipped)
=============================================================================
