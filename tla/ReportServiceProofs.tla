-------------------------- MODULE ReportServiceProofs --------------------------
(***************************************************************************)
(* Theorems about ReportService: what ReportJobProofs and                  *)
(* ReviewPublishProofs show of the worker and of the reviewers apart holds *)
(* when they share one report.  A step of the composition is a step of one *)
(* of the two, a crash of both, or the interruption of node 17; the lemmas *)
(* of the two modules are used for their own steps, and what remains to be *)
(* shown is that neither side breaks the invariant of the other.           *)
(***************************************************************************)
EXTENDS ReportService, TLAPS

JP == INSTANCE ReportJobProofs
RP == INSTANCE ReviewPublishProofs

\* The assumptions of the two parts hold of the whole.
LEMMA PartsAssumed == SaveNode \in 0..(NodeCount - 2) /\ Pipeline \notin Requests
BY ServiceAssumption DEF Job!JobAssumption, Review!ReviewAssumption

USE StoreAssumption, PartsAssumed

-----------------------------------------------------------------------------
(* The steps of the parts.                                                 *)

\* The part of the worker, the cancels and the recovery, and ...
JobPart ==
    \/ JP!Submit \/ JP!Schedule \/ JP!WorkerStep \/ JP!RunPublishNode \/ JP!Timeout
    \/ JP!Recover
    \/ \E call \in Cancels : JP!DelReadJob(call) \/ JP!DelStep(call)

\* ... the part of the reviewers and of node 17.
ReviewPart ==
    \/ AtPublishNode /\ RP!PipelinePublishes
    \/ \E call \in Requests : server = "up" /\ RP!ReadAudit(call)
    \/ \E call \in Requests : RP!ReviewStep(call)
    \/ \E p \in RP!Processes : RP!Publish(p)

\* Each part takes steps of its own module.
LEMMA PartsAreSteps == (JobPart => JP!Next) /\ (ReviewPart => RP!Next)
BY DEF JobPart, JP!Next, ReviewPart, RP!Next

\* The statements and awaits of _run_report_job, cancel_report and the
\* recovery are those that ReportJobProofs is about.
LEMMA JobSteps ==
    Job!Submit \/ Job!Schedule \/ Job!WorkerStep \/ Job!RunPublishNode \/ Job!Timeout
    \/ Job!Recover \/ (\E call \in Cancels : Job!DelReadJob(call) \/ Job!DelStep(call))
       => JobPart
<1> USE DEF Job!Execute, JP!Execute, Job!Proceed, JP!Proceed, Job!Raise, JP!Raise,
            Job!rowVars, JP!rowVars, Job!storeVars, JP!storeVars, Job!jobRow, JP!jobRow,
            Job!auditRow, JP!auditRow, Job!reviewTable, JP!reviewTable, Job!objects,
            JP!objects, Job!finalPath, JP!finalPath, Job!workerVars, JP!workerVars,
            Job!delVars, JP!delVars, Job!pollVars, JP!pollVars, Job!workerFrame,
            JP!workerFrame
<1>1. Job!Submit => JP!Submit
  BY DEF Job!Submit, JP!Submit, Job!InsertReportJob, JP!InsertReportJob
<1>2. Job!Schedule => JP!Schedule
  BY DEF Job!Schedule, JP!Schedule
<1>3. Job!InitSchema => JP!InitSchema
  BY DEF Job!InitSchema, JP!InitSchema
<1>4. Job!StartRead => JP!StartRead
  BY DEF Job!StartRead, JP!StartRead
<1>5. Job!StartMark => JP!StartMark
  BY DEF Job!StartMark, JP!StartMark, Job!EnterNode, JP!EnterNode, Job!MaybeLost,
         JP!MaybeLost, Job!MarkReportJobRunning, JP!MarkReportJobRunning, Job!InFlight,
         JP!InFlight
<1>6. Job!RunNode => JP!RunNode
  BY DEF Job!RunNode, JP!RunNode
<1>7. Job!RunPublishNode => JP!RunPublishNode
  BY DEF Job!RunPublishNode, JP!RunPublishNode
<1>8. Job!SaveAudit => JP!SaveAudit
  BY DEF Job!SaveAudit, JP!SaveAudit, Job!InsertAudit, JP!InsertAudit, Job!Gates, JP!Gates
<1>9. Job!EndMark => JP!EndMark
  BY DEF Job!EndMark, JP!EndMark, Job!MarkReportJobStageComplete,
         JP!MarkReportJobStageComplete, Job!InFlight, JP!InFlight
<1>10. Job!WorkflowDone => JP!WorkflowDone
  BY DEF Job!WorkflowDone, JP!WorkflowDone
<1>11. Job!CheckAudit => JP!CheckAudit
  BY DEF Job!CheckAudit, JP!CheckAudit
<1>12. Job!FailWithoutAudit => JP!FailWithoutAudit
  BY DEF Job!FailWithoutAudit, JP!FailWithoutAudit, Job!FailReportJob, JP!FailReportJob
<1>13. Job!Complete => JP!Complete
  BY DEF Job!Complete, JP!Complete, Job!CompleteReportJob, JP!CompleteReportJob
<1>14. Job!Fail => JP!Fail
  BY DEF Job!Fail, JP!Fail, Job!FailReportJob, JP!FailReportJob
<1>15. Job!Recover => JP!Recover
  BY DEF Job!Recover, JP!Recover, Job!RecoverSavedJob, JP!RecoverSavedJob,
         Job!RecoverLostJob, JP!RecoverLostJob, Job!RecoverSaved, JP!RecoverSaved,
         Job!RecoverLost, JP!RecoverLost, Job!InFlight, JP!InFlight
<1>16. Job!PendingStatement <=> JP!PendingStatement
  BY DEF Job!PendingStatement, JP!PendingStatement, Job!MarkReportJobRunning,
         JP!MarkReportJobRunning, Job!MarkReportJobStageComplete,
         JP!MarkReportJobStageComplete, Job!InsertAudit, JP!InsertAudit, Job!Gates,
         JP!Gates, Job!FailReportJob, JP!FailReportJob, Job!CompleteReportJob,
         JP!CompleteReportJob, Job!InFlight, JP!InFlight
<1>17. Job!Timeout => JP!Timeout
  BY <1>16 DEF Job!Timeout, JP!Timeout, Job!WorkflowAwaits, JP!WorkflowAwaits
<1>18. Job!Interrupt => JP!Interrupt
  BY <1>16 DEF Job!Interrupt, JP!Interrupt, Job!Awaits, JP!Awaits, Job!WorkflowAwaits,
         JP!WorkflowAwaits
<1>19. ASSUME NEW call \in Cancels
      PROVE  /\ Job!DelReadJob(call) => JP!DelReadJob(call)
             /\ Job!DelStep(call) => JP!DelStep(call)
  BY DEF Job!DelReadJob, JP!DelReadJob, Job!DelStep, JP!DelStep, Job!DelGoto, JP!DelGoto,
         Job!DelReadAudit, JP!DelReadAudit, Job!DelCancelTask, JP!DelCancelTask,
         Job!DelFailJob, JP!DelFailJob, Job!DelDecide, JP!DelDecide, Job!DelUpdate,
         JP!DelUpdate, Job!FailReportJob, JP!FailReportJob, Job!InsertReviewDecision,
         JP!InsertReviewDecision, Job!UpdateReviewState, JP!UpdateReviewState,
         Job!DerivedState, JP!DerivedState, Job!DecidedStates, JP!DecidedStates,
         Job!Terminal, JP!Terminal, Job!Awaits, JP!Awaits, Job!WorkflowAwaits,
         JP!WorkflowAwaits
<1>20. Job!WorkerStep => JP!WorkerStep
  BY <1>3, <1>4, <1>5, <1>6, <1>8, <1>9, <1>10, <1>11, <1>12, <1>13, <1>14, <1>18
     DEF Job!WorkerStep, JP!WorkerStep
<1>21. ASSUME NEW call \in Cancels, Job!DelReadJob(call) \/ Job!DelStep(call)
       PROVE  JobPart
  BY <1>19, <1>21 DEF JobPart
<1> QED BY <1>1, <1>2, <1>7, <1>15, <1>17, <1>20, <1>21 DEF JobPart

\* The reviewers' calls and node 17 are those that ReviewPublishProofs is about.
LEMMA ReviewSteps ==
    /\ Review!PipelinePublishes => RP!PipelinePublishes
    /\ \A call \in Requests : Review!ReadAudit(call) => RP!ReadAudit(call)
    /\ \A call \in Requests : Review!ReviewStep(call) => RP!ReviewStep(call)
    /\ \A p \in RP!Processes : Review!Publish(p) => RP!Publish(p)
<1> USE DEF Review!Execute, RP!Execute, Review!Goto, RP!Goto, Review!Enter, RP!Enter,
            Review!InProgress, RP!InProgress, Review!Processes, RP!Processes,
            Review!rowVars, RP!rowVars, Review!storeVars, RP!storeVars, Review!jobRow,
            RP!jobRow, Review!auditRow, RP!auditRow, Review!reviewTable, RP!reviewTable,
            Review!objects, RP!objects, Review!finalPath, RP!finalPath, Review!callVars,
            RP!callVars
<1>1. Review!PipelinePublishes => RP!PipelinePublishes
  BY DEF Review!PipelinePublishes, RP!PipelinePublishes
<1>2. ASSUME NEW call \in Requests PROVE Review!ReadAudit(call) => RP!ReadAudit(call)
  BY DEF Review!ReadAudit, RP!ReadAudit, Review!Admissible, RP!Admissible, Review!FirstStep,
         RP!FirstStep, Review!DerivedState, RP!DerivedState, Review!DecidedStates,
         RP!DecidedStates, Review!OverrideKinds, RP!OverrideKinds
<1>3. ASSUME NEW call \in Requests PROVE Review!ReviewStep(call) => RP!ReviewStep(call)
  BY DEF Review!ReviewStep, RP!ReviewStep, Review!RecordAdminEvent, RP!RecordAdminEvent,
         Review!RecordDecision, RP!RecordDecision, Review!RecordState, RP!RecordState,
         Review!InsertAdminEvent, RP!InsertAdminEvent, Review!InsertReviewDecision,
         RP!InsertReviewDecision, Review!UpdateReviewState, RP!UpdateReviewState,
         Review!ActionOf, RP!ActionOf, Review!StateAfter, RP!StateAfter, Review!AfterUpdate,
         RP!AfterUpdate, Review!ApproveKinds, RP!ApproveKinds, Review!OverrideKinds,
         RP!OverrideKinds
<1>4. ASSUME NEW p \in RP!Processes PROVE Review!Publish(p) => RP!Publish(p)
  BY DEF Review!Publish, RP!Publish, Review!PublishReadAudit, RP!PublishReadAudit,
         Review!PublishReadDecisions, RP!PublishReadDecisions, Review!PublishCopy,
         RP!PublishCopy, Review!PublishFinalize, RP!PublishFinalize, Review!CopyAll,
         RP!CopyAll, Review!CopyToFinal, RP!CopyToFinal, Review!WriteApprovalLog,
         RP!WriteApprovalLog, Review!MaybeLost, RP!MaybeLost, Review!Publishable,
         RP!Publishable, Review!LatestApproval, RP!LatestApproval, Review!ApprovalIndexes,
         RP!ApprovalIndexes, Review!ApprovalActions, RP!ApprovalActions,
         Review!UpdateReviewState, RP!UpdateReviewState
<1> QED BY <1>1, <1>2, <1>3, <1>4

-----------------------------------------------------------------------------
(* The inductive invariant.                                                *)

\* The worker has not come to the upload of node 15.
BeforeSave ==
    \/ task \in {"none", "inserting", "init"}
    \/ task \in {"start_read", "start_mark"} /\ at <= SaveNode
    \/ task \in {"node", "end_mark"} /\ at < SaveNode

\* Nobody reviews a report before node 15 has saved it, so its upload never
\* replaces the staged artifacts of a report that is being published.
NotReviewed ==
    /\ BeforeSave => /\ review_state = "absent"
                     /\ \A p \in RP!Processes : pc[p] \in {"idle", "done"}
    /\ task = "insert_audit" => at = SaveNode

\* A call that passed its guards has seen the row.
Admitted ==
    \A call \in Requests :
        pc[call] \in {"event", "decide", "update"} => review_state # "absent"

ServiceInv ==
    /\ JP!JobTypeOK /\ JP!JobInv
    /\ RP!ApprovalInv /\ RP!CompleteInv
    /\ NotReviewed /\ Admitted

-----------------------------------------------------------------------------
(* What each part does to the other's state.                               *)

\* A step of the composition is one of the worker and the cancels, one of the
\* reviewers and node 17, the interruption of node 17, or a crash.
LEMMA StepKinds ==
    ASSUME [Next]_vars
    PROVE  \/ JobPart /\ UNCHANGED reviewVars
           \/ ReviewPart /\ UNCHANGED jobVars
           \/ InterruptPublish \/ Crash \/ UNCHANGED vars
<1>1. Requests \subseteq RP!Processes /\ Pipeline \in RP!Processes
  BY DEF RP!Processes
<1>2. CASE JobStep \/ Resume \/ LeavePublish
  BY <1>2, JobSteps DEF JobStep, Resume, LeavePublish
<1>3. CASE EnterPublish
  BY <1>3, ReviewSteps DEF EnterPublish, ReviewPart
<1>4. CASE PipelineStep
  BY <1>1, <1>4, ReviewSteps DEF PipelineStep, ReviewPart
<1>5. CASE Job!WorkerStep /\ UNCHANGED reviewVars
  BY <1>5, JobSteps
<1>6. ASSUME NEW call \in Requests, ReviewBegin(call) \/ ReviewCall(call)
      PROVE  ReviewPart /\ UNCHANGED jobVars
  BY <1>1, <1>6, ReviewSteps DEF ReviewBegin, ReviewCall, ReviewPart
<1> QED BY <1>2, <1>3, <1>4, <1>5, <1>6 DEF Next, WorkerStep

\* The worker and the cancels put nothing under final/ and never say that a
\* report is approved or final; they stage the artifacts before the report is
\* saved, and a cancel's decision is recorded as the cancel's.
JobKeeps ==
    /\ UNCHANGED <<finalPath, admin_events>>
    /\ review_state' \in {review_state, "staging", "cancelled"}
    /\ review_state # "absent" => review_state' # "absent"
    /\ \/ UNCHANGED decisions
       \/ \E call \in Cancels :
             decisions' = Append(decisions, [by |-> call, action |-> "report.cancelled"])
    /\ UNCHANGED staging \/ BeforeSave
    /\ BeforeSave' => BeforeSave /\ UNCHANGED review_state
    /\ task' = "insert_audit" => at' = SaveNode

\* Every step of that part does.
LEMMA JobLeaves ==
    ASSUME JP!JobTypeOK, NotReviewed, JobPart
    PROVE  JobKeeps
<1>1. SaveNode \in Int /\ at \in Int
  BY DEF JP!JobTypeOK
<1> USE <1>1 DEF JobKeeps, BeforeSave, NotReviewed, JP!Execute, JP!Proceed, JP!Raise,
            JP!rowVars, JP!storeVars, JP!jobRow, JP!auditRow, JP!reviewTable, JP!objects,
            JP!finalPath, finalPath, JP!workerVars, JP!delVars, JP!pollVars, JP!workerFrame
<1>2. CASE JP!Submit \/ JP!Schedule
  BY <1>2 DEF JP!Submit, JP!Schedule
<1>3. CASE JP!InitSchema \/ JP!StartRead \/ JP!RunNode \/ JP!RunPublishNode
  BY <1>3 DEF JP!InitSchema, JP!StartRead, JP!RunNode, JP!RunPublishNode
<1>4. CASE JP!StartMark
  BY <1>4 DEF JP!StartMark, JP!EnterNode
<1>5. CASE JP!SaveAudit
  BY <1>5 DEF JP!SaveAudit, JP!InsertAudit
<1>6. CASE JP!EndMark
  BY <1>6 DEF JP!EndMark
<1>7. CASE JP!WorkflowDone \/ JP!CheckAudit \/ JP!FailWithoutAudit \/ JP!Complete \/ JP!Fail
  BY <1>7 DEF JP!WorkflowDone, JP!CheckAudit, JP!FailWithoutAudit, JP!Complete, JP!Fail
<1>8. JP!PendingStatement => \/ UNCHANGED review_state
                             \/ task = "insert_audit" /\ review_state' = "staging"
  BY DEF JP!PendingStatement, JP!InsertAudit
<1>9. CASE JP!Interrupt \/ JP!Timeout
  BY <1>8, <1>9 DEF JP!Interrupt, JP!Timeout
<1>10. ASSUME NEW call \in Cancels, JP!DelReadJob(call) \/ JP!DelStep(call) PROVE JobKeeps
  BY <1>10 DEF JP!DelReadJob, JP!DelStep, JP!DelReadAudit, JP!DelCancelTask, JP!DelFailJob,
               JP!DelDecide, JP!DelUpdate, JP!InsertReviewDecision, JP!UpdateReviewState
<1>11. CASE JP!Recover
  BY <1>11 DEF JP!Recover, JP!RecoverSavedJob, JP!RecoverLostJob
<1> QED BY <1>2, <1>3, <1>4, <1>5, <1>6, <1>7, <1>9, <1>10, <1>11 DEF JobPart, JP!WorkerStep

\* The reviewers and node 17 leave the job's row and the staged artifacts
\* alone and neither make nor delete the report's row; who goes on with a
\* review has found that row, and only the copy loop writes under final/.
ReviewKeeps ==
    /\ UNCHANGED <<job_status, job_node, staging, crashes, kind>>
    /\ (review_state' = "absent") <=> (review_state = "absent")
    /\ \A p \in RP!Processes :
          pc[p] \in {"idle", "done"} /\ pc'[p] \notin {"idle", "done"}
             => review_state # "absent" \/ AtPublishNode
    /\ \A call \in Requests :
          pc'[call] \in {"event", "decide", "update"} =>
             pc[call] \in {"event", "decide", "update"} \/ review_state # "absent"
    /\ UNCHANGED decisions \/ \E call \in Requests : pc[call] = "decide"
    /\ \/ UNCHANGED final
       \/ UNCHANGED decisions /\ \E p \in RP!Processes : pc[p] = "pub_copy"
    /\ final \subseteq final'

\* Every step of that part does.
LEMMA ReviewLeaves ==
    ASSUME RP!ReviewTypeOK, ReviewPart
    PROVE  ReviewKeeps
<1>1. /\ pc \in [RP!Processes -> RP!Steps]
      /\ kind \in [Requests -> RP!Kinds]
      /\ Requests \subseteq RP!Processes /\ Pipeline \in RP!Processes
  BY DEF RP!ReviewTypeOK, RP!Processes
<1> USE <1>1 DEF ReviewKeeps, RP!Execute, RP!Goto, RP!Enter, RP!rowVars, RP!storeVars,
            RP!jobRow, RP!auditRow, RP!reviewTable, RP!objects, RP!finalPath, RP!callVars
<1>2. CASE AtPublishNode /\ RP!PipelinePublishes
  BY <1>2 DEF RP!PipelinePublishes
<1>3. ASSUME NEW call \in Requests, RP!ReadAudit(call) PROVE ReviewKeeps
  BY <1>3 DEF RP!ReadAudit, RP!Admissible
<1>4. ASSUME NEW call \in Requests, RP!RecordAdminEvent(call) PROVE ReviewKeeps
  BY <1>4 DEF RP!RecordAdminEvent, RP!InsertAdminEvent
<1>5. ASSUME NEW call \in Requests, RP!RecordDecision(call) PROVE ReviewKeeps
  BY <1>5 DEF RP!RecordDecision
<1>6. ASSUME NEW call \in Requests, RP!RecordState(call) PROVE ReviewKeeps
  <2>1. RP!StateAfter(call) # "absent"
    BY DEF RP!StateAfter, RP!Kinds, RP!ApproveKinds, RP!OverrideKinds
  <2> QED BY <1>6, <2>1 DEF RP!RecordState, RP!UpdateReviewState, RP!AfterUpdate
<1>7. ASSUME NEW p \in RP!Processes, RP!PublishReadAudit(p) \/ RP!PublishReadDecisions(p)
      PROVE  ReviewKeeps
  BY <1>7 DEF RP!PublishReadAudit, RP!PublishReadDecisions
<1>8. ASSUME NEW p \in RP!Processes, RP!PublishCopy(p) PROVE ReviewKeeps
  BY <1>8 DEF RP!PublishCopy, RP!CopyAll, RP!CopyToFinal
<1>9. ASSUME NEW p \in RP!Processes, RP!PublishFinalize(p) PROVE ReviewKeeps
  BY <1>9 DEF RP!PublishFinalize, RP!UpdateReviewState
<1> QED BY <1>2, <1>3, <1>4, <1>5, <1>6, <1>7, <1>8, <1>9
        DEF ReviewPart, RP!ReviewStep, RP!Publish

-----------------------------------------------------------------------------
(* The inductive invariant, one kind of step at a time.                    *)

\* The decision of a cancel approves nothing.
LEMMA CancelApprovesNothing ==
    ASSUME decisions \in Seq(RP!Decision), JobKeeps, UNCHANGED kind
    PROVE  /\ \A call \in Requests : RP!Recorded(call)' <=> RP!Recorded(call)
           /\ RP!Approved' <=> RP!Approved
           /\ (\A i \in DOMAIN decisions :
                  decisions[i].by \in Requests => decisions[i].action \in RP!ApprovalActions)
                 => (\A i \in DOMAIN decisions' :
                        decisions'[i].by \in Requests
                           => decisions'[i].action \in RP!ApprovalActions)
<1>1. CASE UNCHANGED decisions
  BY <1>1 DEF RP!Recorded, RP!Approved
<1>2. ASSUME NEW call \in Cancels, NEW row, row = [by |-> call, action |-> "report.cancelled"],
             decisions' = Append(decisions, row)
      PROVE  /\ DOMAIN decisions \subseteq DOMAIN decisions'
             /\ \A i \in DOMAIN decisions : decisions'[i] = decisions[i]
             /\ \A i \in DOMAIN decisions' \ DOMAIN decisions : decisions'[i].by \notin Requests
  <2>1. row \in RP!Decision /\ row.by \notin Requests
    BY <1>2 DEF RP!Decision, RP!Actions
  <2> QED BY <1>2, <2>1
<1>3. CASE ~UNCHANGED decisions
  <2>1. /\ DOMAIN decisions \subseteq DOMAIN decisions'
        /\ \A i \in DOMAIN decisions : decisions'[i] = decisions[i]
        /\ \A i \in DOMAIN decisions' \ DOMAIN decisions : decisions'[i].by \notin Requests
    BY <1>2, <1>3 DEF JobKeeps
  <2>2. \A call \in Requests : RP!Recorded(call)' <=> RP!Recorded(call)
    BY <2>1 DEF RP!Recorded
  <2> QED BY <2>1, <2>2 DEF RP!Approved
<1> QED BY <1>1, <1>3

\* The rows and objects have the same types on both sides.
LEMMA SameStoreType == RP!StoreTypeOK <=> JP!StoreTypeOK
BY DEF JP!StoreTypeOK, RP!StoreTypeOK, JP!JobStates, RP!JobStates, JP!InFlight, RP!InFlight,
   JP!Terminal, RP!Terminal, JP!ReviewStates, RP!ReviewStates, JP!DecidedStates,
   RP!DecidedStates, JP!Gates, RP!Gates, JP!Decision, RP!Decision, JP!Actions, RP!Actions,
   JP!ApprovalActions, RP!ApprovalActions

\* The worker and the cancels keep what holds of the reviewers.
LEMMA JobPartKeeps ==
    ASSUME ServiceInv, JobPart, UNCHANGED reviewVars
    PROVE  ServiceInv'
<1>1. JobKeeps
  BY JobLeaves DEF ServiceInv
<1>2. UNCHANGED <<kind, own, raced, pc, seen, pick, final, approval_log, missed>>
  BY <1>1 DEF JobKeeps, reviewVars, finalPath
<1>3. JP!JobTypeOK' /\ JP!JobInv'
  <2>1. JP!JobTypeOK'
    BY JP!StepJobTypes, PartsAreSteps DEF ServiceInv
  <2> QED BY <2>1, JP!StepJobInv, PartsAreSteps DEF ServiceInv
<1>4. /\ decisions \in Seq(RP!Decision)
      /\ RP!ReviewTypeOK /\ RP!ApprovedParts /\ RP!CompleteInv
  BY DEF ServiceInv, RP!ApprovalInv, RP!ReviewTypeOK, RP!StoreTypeOK
<1>5. /\ \A call \in Requests : RP!Recorded(call)' <=> RP!Recorded(call)
      /\ RP!Approved' <=> RP!Approved
  BY <1>1, <1>2, <1>4, CancelApprovesNothing
<1>6. RP!ReviewTypeOK'
  <2>1. RP!StoreTypeOK'
    BY <1>3, SameStoreType, PTL DEF JP!JobTypeOK
  <2> QED BY <1>2, <1>4, <2>1 DEF RP!ReviewTypeOK
<1>7. RP!ApprovedParts'
  BY <1>1, <1>2, <1>4, <1>5 DEF JobKeeps, RP!ApprovedParts, RP!ApprovedRow, RP!DecidedCalls,
     RP!ApprovedPublishes, RP!Publishable
<1>8. RP!CompleteInv'
  <2>1. BeforeSave => /\ review_state = "absent"
                      /\ \A p \in RP!Processes : pc[p] \in {"idle", "done"}
    BY DEF ServiceInv, NotReviewed
  <2>2. /\ review_state' = "final" => review_state = "final"
        /\ review_state = "final" => UNCHANGED staging
        /\ \A p \in RP!Processes : pc[p] = "pub_final" => UNCHANGED staging
    BY <1>1, <2>1 DEF JobKeeps
  <2>3. \A i \in DOMAIN decisions' :
           decisions'[i].by \in Requests => decisions'[i].action \in RP!ApprovalActions
    BY <1>1, <1>2, <1>4, CancelApprovesNothing DEF RP!CompleteInv
  <2> QED BY <1>2, <1>4, <2>2, <2>3 DEF RP!CompleteInv, RP!PublishedAll
<1>9. NotReviewed'
  BY <1>1, <1>2 DEF ServiceInv, NotReviewed, JobKeeps
<1>10. Admitted'
  BY <1>1, <1>2 DEF ServiceInv, Admitted, JobKeeps
<1> QED BY <1>3, <1>6, <1>7, <1>8, <1>9, <1>10 DEF ServiceInv, RP!ApprovalInv

\* The reviewers and node 17 keep what holds of the worker.
LEMMA ReviewPartKeeps ==
    ASSUME ServiceInv, ReviewPart, UNCHANGED jobVars
    PROVE  ServiceInv'
<1>1. RP!Next /\ ReviewKeeps
  <2>1. RP!ReviewTypeOK
    BY DEF ServiceInv, RP!ApprovalInv
  <2> QED BY <2>1, ReviewLeaves, PartsAreSteps
<1>2. UNCHANGED <<server, task, at, fail_as, stop, del, saw_job, poll, told>>
  BY DEF jobVars
<1>3. RP!ApprovalInv' /\ RP!CompleteInv'
  <2>1. RP!ReviewTypeOK'
    BY <1>1, RP!StepReviewType DEF ServiceInv, RP!ApprovalInv
  <2> QED BY <1>1, <2>1, RP!StepApproval, RP!StepComplete DEF ServiceInv
<1>4. JP!JobTypeOK'
  <2>1. JP!StoreTypeOK'
    BY <1>3, SameStoreType, PTL DEF RP!ApprovalInv, RP!ReviewTypeOK
  <2> QED BY <1>2, <2>1 DEF ServiceInv, JP!JobTypeOK
<1>5. JP!JobInv'
  BY <1>1, <1>2 DEF ServiceInv, JP!JobInv, ReviewKeeps
<1>6. NotReviewed'
  <2>1. BeforeSave' <=> BeforeSave
    BY <1>2 DEF BeforeSave
  <2>2. BeforeSave => ~AtPublishNode
    BY DEF BeforeSave, AtPublishNode, ServiceInv, JP!JobTypeOK
  <2> QED BY <1>1, <1>2, <2>1, <2>2 DEF ServiceInv, NotReviewed, ReviewKeeps
<1>7. Admitted'
  BY <1>1 DEF ServiceInv, Admitted, ReviewKeeps
<1> QED BY <1>3, <1>4, <1>5, <1>6, <1>7 DEF ServiceInv

\* A time-out or a cancellation at the await of node 17: if the statement
\* under way is the last one, the copies are in place.
LEMMA InterruptKeeps ==
    ASSUME ServiceInv, InterruptPublish
    PROVE  ServiceInv'
<1>1. /\ RP!ReviewTypeOK /\ RP!ApprovedParts /\ RP!CompleteInv
      /\ JP!JobTypeOK /\ JP!JobInv /\ Admitted
      /\ pc \in [RP!Processes -> RP!Steps] /\ Pipeline \in RP!Processes
  BY DEF ServiceInv, RP!ApprovalInv, RP!ReviewTypeOK, RP!Processes
<1>2. /\ UNCHANGED <<job_status, job_node, decisions, admin_events, staging, final,
                     approval_log, missed, crashes, quality_gate>>
      /\ UNCHANGED <<server, at, del, saw_job, poll, told, kind, own, raced, seen, pick>>
      /\ stop' = FALSE
      /\ task = "node" /\ task' = "fail" /\ fail_as' \in {"cancelled", "timeout"}
      /\ pc' = [pc EXCEPT ![Pipeline] = "done"]
  BY DEF InterruptPublish, AtPublishNode, UpdateReviewState, jobRow, auditRow, reviewTable,
         objects, finalPath
<1>3. \/ UNCHANGED review_state
      \/ /\ pc[Pipeline] = "pub_final"
         /\ review_state # "absent" /\ review_state' = "final"
  BY DEF InterruptPublish, UpdateReviewState, auditRow
<1>4. review_state' \in RP!ReviewStates
  BY <1>1, <1>3 DEF RP!ReviewTypeOK, RP!StoreTypeOK, RP!ReviewStates, RP!DecidedStates
<1>5. RP!ReviewTypeOK'
  BY <1>1, <1>2, <1>4 DEF RP!ReviewTypeOK, RP!StoreTypeOK, RP!Steps
<1>6. JP!JobTypeOK'
  <2>1. JP!StoreTypeOK'
    BY <1>5, SameStoreType, PTL DEF RP!ReviewTypeOK
  <2> QED BY <1>1, <1>2, <2>1 DEF JP!JobTypeOK, JP!TaskStates, JP!Awaits, JP!Terminal
<1>7. JP!JobInv'
  BY <1>1, <1>2, <1>3 DEF JP!JobInv, JP!Ended, JP!Terminal
<1>8. /\ RP!Approved' <=> RP!Approved
      /\ \A call \in Requests : RP!Recorded(call)' <=> RP!Recorded(call)
  BY <1>2 DEF RP!Approved, RP!Recorded
<1>9. RP!ApprovedParts'
  BY <1>1, <1>2, <1>3, <1>8 DEF RP!ApprovedParts, RP!ApprovedRow, RP!DecidedCalls,
     RP!ApprovedPublishes, RP!Publishable
<1>10. RP!CompleteInv'
  BY <1>1, <1>2, <1>3 DEF RP!CompleteInv, RP!PublishedAll
<1>11. NotReviewed' /\ Admitted'
  BY <1>1, <1>2, <1>3 DEF NotReviewed, BeforeSave, Admitted
<1> QED BY <1>5, <1>6, <1>7, <1>9, <1>10, <1>11 DEF ServiceInv, RP!ApprovalInv

\* What a crash does to the state: the calls and the worker are gone, and the
\* copy loop of an approved report may have copied some artifacts.
CrashKeeps ==
    /\ UNCHANGED <<job_status, job_node, review_state, quality_gate, decisions, admin_events,
                   staging, approval_log, missed, at, fail_as, saw_job, told,
                   kind, own, raced, seen, pick>>
    /\ crashes' \in 0..Crashes
    /\ server' = "recover_saved"
    /\ task' = IF task = "none" THEN "none" ELSE "over"
    /\ stop' = FALSE
    /\ del' \in [Cancels -> {"idle", "confirmed", "done"}]
    /\ poll' = "idle"
    /\ pc' \in [RP!Processes -> {"idle", "done"}]
    /\ final \subseteq final' /\ final' \subseteq final \cup staging
    /\ UNCHANGED final \/ RP!Approved

\* Job and review crash together.
LEMMA CrashLeaves ==
    ASSUME ServiceInv, Crash
    PROVE  CrashKeeps
<1>1. /\ UNCHANGED <<job_status, job_node, review_state, quality_gate, decisions,
                     admin_events, staging, approval_log, missed, at, fail_as, saw_job, told,
                     kind, own, raced, seen, pick>>
      /\ server' = "recover_saved" /\ stop' = FALSE /\ poll' = "idle"
      /\ task' = IF task = "none" THEN "none" ELSE "over"
  BY DEF Crash, Job!CrashServer, jobRow, auditRow, reviewTable
<1>2. crashes' \in 0..Crashes
  BY DEF Crash, Job!CrashServer, ServiceInv, JP!JobTypeOK, JP!StoreTypeOK
<1>3. /\ del' \in [Cancels -> {"idle", "confirmed", "done"}]
      /\ pc' \in [RP!Processes -> {"idle", "done"}]
  BY DEF Crash, Job!CrashServer, Review!LoseCalls, Review!Processes, RP!Processes
<1>4. \/ UNCHANGED final
      \/ /\ final \subseteq final' /\ final' \subseteq final \cup staging
         /\ \E p \in RP!Processes : pc[p] = "pub_copy"
  BY DEF Crash, Review!Processes, RP!Processes
<1>5. (\E p \in RP!Processes : pc[p] = "pub_copy") => RP!Approved
  BY DEF ServiceInv, RP!ApprovalInv, RP!ApprovedParts, RP!ApprovedPublishes
<1> QED BY <1>1, <1>2, <1>3, <1>4, <1>5 DEF CrashKeeps

\* A crash keeps the invariant.
LEMMA CrashesKeep ==
    ASSUME ServiceInv, Crash
    PROVE  ServiceInv'
<1>1. CrashKeeps
  BY CrashLeaves
<1>2. /\ RP!ReviewTypeOK /\ RP!ApprovedParts /\ RP!CompleteInv
      /\ JP!JobTypeOK /\ JP!JobInv
  BY DEF ServiceInv, RP!ApprovalInv
<1> USE <1>1 DEF CrashKeeps
<1>3. RP!ReviewTypeOK'
  BY <1>2 DEF RP!ReviewTypeOK, RP!StoreTypeOK, RP!Steps
<1>4. JP!JobTypeOK'
  <2>1. JP!StoreTypeOK'
    BY <1>3, SameStoreType, PTL DEF RP!ReviewTypeOK
  <2> QED BY <1>2, <2>1 DEF JP!JobTypeOK, JP!TaskStates, JP!DelSteps
<1>5. JP!JobInv'
  BY <1>2 DEF JP!JobInv, JP!Terminal
<1>6. /\ RP!Approved' <=> RP!Approved
      /\ \A call \in Requests : RP!Recorded(call)' <=> RP!Recorded(call)
  BY DEF RP!Approved, RP!Recorded
<1>7. RP!ApprovedParts'
  BY <1>2, <1>6 DEF RP!ApprovedParts, RP!ApprovedRow, RP!DecidedCalls,
     RP!ApprovedPublishes, RP!Publishable, RP!Processes
<1>8. RP!CompleteInv'
  BY <1>2 DEF RP!CompleteInv, RP!PublishedAll
<1>9. NotReviewed' /\ Admitted'
  BY DEF ServiceInv, NotReviewed, BeforeSave, Admitted, RP!Processes
<1> QED BY <1>3, <1>4, <1>5, <1>7, <1>8, <1>9 DEF ServiceInv, RP!ApprovalInv

\* A report nobody has asked for satisfies it.
LEMMA InitService == Init => ServiceInv
<1> SUFFICES ASSUME Init PROVE ServiceInv
  OBVIOUS
<1>1. JP!StoreTypeOK
  BY DEF Init, StoreInit, JP!StoreTypeOK, JP!JobStates, JP!ReviewStates
<1>2. JP!JobTypeOK /\ JP!JobInv
  <2>1. at \in 0..(NodeCount - 1)
    BY DEF Init, Job!JobInit
  <2>2. JP!JobTypeOK
    BY <1>1, <2>1 DEF Init, Job!JobInit, JP!JobTypeOK, JP!JobStates, JP!Terminal,
       JP!TaskStates, JP!DelSteps
  <2> QED BY <2>2 DEF Init, StoreInit, Job!JobInit, JP!JobInv, JP!Terminal, JP!Ended
<1>3. RP!ReviewTypeOK
  BY <1>1, SameStoreType DEF Init, Review!ReviewInit, RP!ReviewTypeOK, RP!Steps,
     RP!ReviewStates, RP!Kinds, Review!Kinds, RP!OverrideKinds, Review!OverrideKinds,
     RP!Processes, Review!Processes
<1>4. RP!ApprovedParts /\ RP!CompleteInv /\ NotReviewed /\ Admitted
  BY DEF Init, StoreInit, Job!JobInit, Review!ReviewInit, Review!Processes, RP!Processes,
         RP!ApprovedParts, RP!ApprovedRow, RP!DecidedCalls, RP!ApprovedPublishes,
         RP!CompleteInv, NotReviewed, Admitted
<1> QED BY <1>2, <1>3, <1>4 DEF ServiceInv, RP!ApprovalInv

\* Whoever moves keeps it.
LEMMA ServiceAlways == Spec => []ServiceInv
<1>1. ServiceInv /\ [Next]_vars => ServiceInv'
  <2> SUFFICES ASSUME ServiceInv, [Next]_vars PROVE ServiceInv'
    OBVIOUS
  <2>1. CASE JobPart /\ UNCHANGED reviewVars
    BY <2>1, JobPartKeeps
  <2>2. CASE ReviewPart /\ UNCHANGED jobVars
    BY <2>2, ReviewPartKeeps
  <2>3. CASE InterruptPublish \/ Crash
    BY <2>3, InterruptKeeps, CrashesKeep
  <2>4. CASE UNCHANGED vars
    <3> USE <2>4 DEF vars, jobVars, reviewVars, storeVars, rowVars, objects, finalPath
    <3>1. JP!JobTypeOK' /\ JP!JobInv' /\ NotReviewed' /\ Admitted'
      BY DEF ServiceInv, JP!JobTypeOK, JP!StoreTypeOK, JP!JobInv, NotReviewed, BeforeSave,
             Admitted
    <3>2. RP!ReviewTypeOK' /\ RP!ApprovedParts' /\ RP!CompleteInv'
      BY DEF ServiceInv, RP!ApprovalInv, RP!ReviewTypeOK, RP!StoreTypeOK, RP!ApprovedParts,
             RP!ApprovedRow, RP!DecidedCalls, RP!ApprovedPublishes, RP!Approved, RP!Recorded,
             RP!Publishable, RP!CompleteInv, RP!PublishedAll
    <3> QED BY <3>1, <3>2 DEF ServiceInv, RP!ApprovalInv
  <2> QED BY <2>1, <2>2, <2>3, <2>4, StepKinds
<1> QED BY <1>1, InitService, PTL DEF Spec

-----------------------------------------------------------------------------
(* The theorems.                                                           *)

\* _run_report_job, the review endpoints and node_17_publish on one report:
\* the rows, the objects and every await keep their types.
THEOREM ServiceTypeCorrect == Spec => []ServiceTypeOK
<1>1. ServiceInv => ServiceTypeOK
  <2> SUFFICES ASSUME ServiceInv PROVE ServiceTypeOK
    OBVIOUS
  <2>1. Job!JobTypeOK
    BY DEF ServiceInv, JP!JobTypeOK, Job!JobTypeOK, JP!StoreTypeOK, Job!StoreTypeOK,
       JP!JobStates, Job!JobStates, JP!InFlight, Job!InFlight, JP!Terminal, Job!Terminal,
       JP!ReviewStates, Job!ReviewStates, JP!DecidedStates, Job!DecidedStates, JP!Gates,
       Job!Gates, JP!Decision, Job!Decision, JP!Actions, Job!Actions, JP!ApprovalActions,
       Job!ApprovalActions, JP!TaskStates, Job!TaskStates, JP!Awaits, Job!Awaits,
       JP!WorkflowAwaits, Job!WorkflowAwaits, JP!DelSteps, Job!DelSteps
  <2>2. Review!ReviewTypeOK
    BY DEF ServiceInv, RP!ApprovalInv, RP!ReviewTypeOK, Review!ReviewTypeOK, RP!StoreTypeOK,
       Review!StoreTypeOK, RP!JobStates, Review!JobStates, RP!InFlight, Review!InFlight,
       RP!Terminal, Review!Terminal, RP!ReviewStates, Review!ReviewStates, RP!DecidedStates,
       Review!DecidedStates, RP!Gates, Review!Gates, RP!Decision, Review!Decision, RP!Actions,
       Review!Actions, RP!ApprovalActions, Review!ApprovalActions, RP!Kinds, Review!Kinds,
       RP!OverrideKinds, Review!OverrideKinds, RP!Processes, Review!Processes, RP!Steps,
       Review!Steps, RP!PublishSteps, Review!PublishSteps
  <2> QED BY <2>1, <2>2 DEF ServiceTypeOK
<1> QED BY <1>1, ServiceAlways, PTL

\* node_17_publish, also inside the worker and interrupted there: however
\* reviewers, cancels, time-outs and crashes meet, a row says final only with
\* the staged artifacts and the approval log under final/.
THEOREM FinalStaysComplete == Spec => []FinalIsComplete
<1>1. ServiceInv => FinalIsComplete
  BY DEF ServiceInv, RP!CompleteInv, RP!PublishedAll, FinalIsComplete, Review!FinalIsComplete
<1> QED BY <1>1, ServiceAlways, PTL

\* An approval is what ReviewPublishProofs takes for one.
LEMMA SameApproved == RP!Approved <=> Review!Approved
BY DEF RP!Approved, Review!Approved, RP!Recorded, Review!Recorded, RP!ApproveKinds,
       Review!ApproveKinds

\* Only the artifacts of an approved report come under final/.
LEMMA FinalGrows ==
    ASSUME Job!Phase' = Job!Phase, (review_state' = "absent") <=> (review_state = "absent"),
           Review!Approved' <=> Review!Approved, final \subseteq final',
           final' \subseteq Artifacts, UNCHANGED final \/ Review!Approved
    PROVE  [Lifecycle!Next]_(Lifecycle!vars)
<1>1. (review_state' # "absent") = (review_state # "absent")
  OBVIOUS
<1>2. Review!Approved' = Review!Approved
  BY DEF Review!Approved
<1>3. CASE UNCHANGED final
  BY <1>1, <1>2, <1>3 DEF Lifecycle!vars
<1>4. CASE Review!Approved
  BY <1>1, <1>2, <1>4 DEF Lifecycle!Next, Lifecycle!Publish
<1> QED BY <1>3, <1>4

\* A step of the worker or of a cancel accepts, ends or saves the report.
LEMMA RowsGoOn ==
    ASSUME JP!JobTypeOK, JP!RowStep, Review!Approved' <=> Review!Approved, UNCHANGED final
    PROVE  [Lifecycle!Next]_(Lifecycle!vars)
<1>1. Review!Approved' = Review!Approved
  BY DEF Review!Approved
<1>2. job_status \in JP!JobStates
  BY DEF JP!JobTypeOK, JP!StoreTypeOK
<1> USE DEF Job!Phase, Job!InFlight, JP!InFlight, JP!Ended, JP!Terminal, JP!JobStates
<1>3. CASE UNCHANGED review_state /\ Job!Phase' = Job!Phase
  BY <1>1, <1>3 DEF Lifecycle!vars
<1>4. CASE UNCHANGED review_state /\ JP!JobRowStep /\ Job!Phase' # Job!Phase
  <2>1. CASE job_status = "absent" /\ job_status' = "queued"
    BY <1>1, <1>4, <2>1 DEF Lifecycle!Accept, Lifecycle!Next
  <2>2. CASE job_status # "absent" /\ job_status' \in JP!Ended
    <3>1. Job!Phase # "absent" /\ Job!Phase' = "stopped"
      BY <1>2, <2>2
    <3> QED BY <1>1, <1>4, <3>1 DEF Lifecycle!End, Lifecycle!Next
  <2>3. CASE job_status # "absent" /\ job_status' = "completed" /\ review_state # "absent"
    <3>1. Job!Phase # "absent" /\ Job!Phase' = "completed"
      BY <1>2, <2>3
    <3> QED BY <1>1, <1>4, <2>3, <3>1 DEF Lifecycle!End, Lifecycle!Next
  <2> QED BY <1>4, <2>1, <2>2, <2>3 DEF JP!JobRowStep
<1>5. CASE UNCHANGED job_status /\ JP!AuditRowStep
  <2>1. Job!Phase' = Job!Phase
    BY <1>5
  <2>2. CASE (review_state' # "absent") <=> (review_state # "absent")
    <3>1. (review_state' # "absent") = (review_state # "absent")
      BY <2>2
    <3> QED BY <1>1, <2>1, <3>1 DEF Lifecycle!vars
  <2>3. CASE job_status # "absent" /\ review_state = "absent" /\ review_state' # "absent"
    <3>1. Job!Phase # "absent"
      BY <1>2, <2>3
    <3> QED BY <1>1, <2>1, <2>3, <3>1 DEF Lifecycle!Save, Lifecycle!Next
  <2> QED BY <1>5, <2>2, <2>3 DEF JP!AuditRowStep
<1> QED BY <1>3, <1>4, <1>5 DEF JP!RowStep

\* ReportService implements ReportLifecycle: worker, reviewers, cancels, node
\* 17 and crashes together approve only what was saved, publish only what was
\* approved, take back nothing that was published and end a request for good.
THEOREM ServiceImplementsLifecycle == Spec => ServiceLifecycle
<1>1. Init => Lifecycle!Init
  <2> SUFFICES ASSUME Init PROVE Lifecycle!Init
    OBVIOUS
  <2>1. Job!Phase = "absent" /\ (review_state # "absent") = FALSE
    BY DEF Init, StoreInit, Job!Phase, Job!InFlight
  <2>2. Review!Approved = FALSE
    BY DEF Init, StoreInit, Review!Approved, Review!Recorded
  <2> QED BY <2>1, <2>2 DEF Init, StoreInit, Lifecycle!Init
<1>2. ServiceInv /\ ServiceInv' /\ [Next]_vars => [Lifecycle!Next]_(Lifecycle!vars)
  <2> SUFFICES ASSUME ServiceInv, ServiceInv', [Next]_vars
               PROVE  [Lifecycle!Next]_(Lifecycle!vars)
    OBVIOUS
  <2>1. /\ JP!JobTypeOK /\ JP!JobInv /\ RP!ReviewTypeOK
        /\ final' \subseteq Artifacts
        /\ \A p \in RP!Processes : pc[p] = "pub_copy" => RP!Approved
    BY DEF ServiceInv, RP!ApprovalInv, RP!ReviewTypeOK, RP!StoreTypeOK, RP!ApprovedParts,
           RP!ApprovedPublishes
  <2>2. UNCHANGED job_status => Job!Phase' = Job!Phase
    BY DEF Job!Phase
  <2>3. UNCHANGED <<decisions, kind>> => (Review!Approved' <=> Review!Approved)
    BY DEF Review!Approved, Review!Recorded
  <2>4. CASE JobPart /\ UNCHANGED reviewVars
    <3>1. JobKeeps /\ JP!RowStep
      BY <2>1, <2>4, JobLeaves, JP!StepRows, PartsAreSteps DEF ServiceInv
    <3>2. RP!Approved' <=> RP!Approved
      BY <2>1, <2>4, <3>1, CancelApprovesNothing
         DEF RP!ReviewTypeOK, RP!StoreTypeOK, reviewVars
    <3>3. Review!Approved' <=> Review!Approved
      BY <3>2, SameApproved, PTL
    <3> QED BY <2>1, <3>1, <3>3, RowsGoOn DEF JobKeeps, finalPath
  <2>5. CASE ReviewPart /\ UNCHANGED jobVars
    <3>1. ReviewKeeps
      BY <2>1, <2>5, ReviewLeaves
    <3>2. CASE UNCHANGED decisions
      BY <2>1, <2>2, <2>3, <3>1, <3>2, FinalGrows, SameApproved DEF ReviewKeeps
    <3>3. CASE ~UNCHANGED decisions
      <4>1. review_state # "absent" /\ UNCHANGED final
        BY <3>1, <3>3 DEF ReviewKeeps, ServiceInv, Admitted
      <4>2. Review!Approved => Review!Approved'
        <5>1. RP!Approved => RP!Approved'
          BY <2>1, <2>5, RP!ApprovalStays, PartsAreSteps
        <5> QED BY <5>1, SameApproved, PTL
      <4>3. CASE Review!Approved' <=> Review!Approved
        BY <2>1, <2>2, <3>1, <4>1, <4>3, FinalGrows DEF ReviewKeeps
      <4>4. CASE Review!Approved' /\ ~Review!Approved
        <5>1. Review!Approved' = TRUE
          BY <4>4
        <5> QED BY <2>2, <3>1, <4>1, <5>1 DEF ReviewKeeps, Lifecycle!Approve, Lifecycle!Next
      <4> QED BY <4>2, <4>3, <4>4
    <3> QED BY <3>2, <3>3
  <2>6. CASE InterruptPublish
    <3>1. /\ UNCHANGED <<job_status, decisions, kind, final>>
          /\ (review_state' = "absent") <=> (review_state = "absent")
      BY <2>6 DEF InterruptPublish, UpdateReviewState, jobRow, auditRow, reviewTable, objects,
                  finalPath
    <3> QED BY <2>1, <2>2, <2>3, <3>1, FinalGrows
  <2>7. CASE Crash
    <3>1. CrashKeeps
      BY <2>7, CrashLeaves
    <3> QED BY <2>1, <2>2, <2>3, <3>1, FinalGrows, SameApproved DEF CrashKeeps
  <2>8. CASE UNCHANGED vars
    BY <2>1, <2>2, <2>3, <2>8, FinalGrows
       DEF vars, reviewVars, storeVars, rowVars, objects, finalPath
  <2> QED BY <2>4, <2>5, <2>6, <2>7, <2>8, StepKinds
<1> QED BY <1>1, <1>2, ServiceAlways, PTL DEF Spec, ServiceLifecycle, Lifecycle!Spec

-----------------------------------------------------------------------------
(* In-flight rows are owned.                                               *)

Cancelling == \E call \in Cancels : del[call] = "fail_job"

\* Nothing but the recovery runs while the server comes back.
Quiet ==
    server # "up" =>
        /\ task \in {"none", "over"}
        /\ \A call \in Cancels : del[call] \in {"idle", "confirmed", "done"}
        /\ \A p \in RP!Processes : pc[p] \in {"idle", "done"}

\* The inductive form of InFlightIsOwned, for statements that do not raise:
\* the first statement of the recovery leaves to the second only jobs without
\* a report, and a worker is stopped for a cancel that is yet to store its
\* status, or when the job has ended anyway.
OwnedParts ==
    /\ Quiet
    /\ server = "recover_lost" /\ job_status \in InFlight => review_state = "absent"
    /\ stop => job_status # "absent" /\ (Cancelling \/ job_status \in Terminal)
    /\ server = "up" /\ job_status \in InFlight =>
          task \in JP!Awaits \cup {"inserting"} \/ Cancelling

OwnedInv == ~DbFaults => OwnedParts

\* The worker, the cancels and the recovery.
LEMMA JobPartOwned ==
    ASSUME ServiceInv, OwnedParts, ~DbFaults, JobPart, UNCHANGED reviewVars
    PROVE  OwnedParts'
<1>1. /\ JP!RowStep /\ UNCHANGED pc
      /\ del \in [Cancels -> JP!DelSteps]
      /\ task \in JP!TaskStates
      /\ fail_as \in JP!Ended
      /\ task \notin {"none", "over"} => job_status # "absent" /\ server = "up"
      /\ task = "none" => job_status = "absent"
  BY JP!StepRows, PartsAreSteps
     DEF ServiceInv, JP!JobTypeOK, JP!JobInv, OwnedParts, Quiet, reviewVars
<1>2. /\ job_status \in Terminal => job_status' \in Terminal
      /\ job_status # "absent" => job_status' # "absent"
      /\ JP!Ended \subseteq Terminal
  BY <1>1, JP!RowsStay DEF JP!Terminal, Terminal, JP!Ended
<1> USE <1>1, <1>2 DEF OwnedParts, Quiet, Cancelling, InFlight, Terminal, JP!Awaits,
        JP!WorkflowAwaits, JP!Execute, JP!Proceed, JP!Raise, JP!rowVars, JP!storeVars,
        JP!jobRow, JP!auditRow, JP!workerVars, JP!delVars, JP!workerFrame
<1>3. CASE JP!Submit \/ JP!Schedule
  BY <1>3 DEF JP!Submit, JP!Schedule, JP!InsertReportJob
<1>4. CASE JP!InitSchema \/ JP!StartRead \/ JP!RunNode \/ JP!RunPublishNode \/ JP!WorkflowDone
           \/ JP!CheckAudit
  BY <1>4 DEF JP!InitSchema, JP!StartRead, JP!RunNode, JP!RunPublishNode, JP!WorkflowDone,
              JP!CheckAudit
<1>5. CASE JP!StartMark \/ JP!EndMark \/ JP!SaveAudit
  BY <1>5 DEF JP!StartMark, JP!EnterNode, JP!EndMark, JP!SaveAudit
<1>6. CASE JP!FailWithoutAudit \/ JP!Complete \/ JP!Fail
  BY <1>6 DEF JP!FailWithoutAudit, JP!Complete, JP!Fail, JP!FailReportJob, JP!CompleteReportJob
<1>7. CASE JP!Timeout
  BY <1>7 DEF JP!Timeout
<1>8. CASE JP!Interrupt
  BY <1>8 DEF JP!Interrupt
<1>9. ASSUME NEW call \in Cancels, JP!DelReadJob(call) \/ JP!DelStep(call) PROVE OwnedParts'
  BY <1>9 DEF JP!DelReadJob, JP!DelStep, JP!DelReadAudit, JP!DelCancelTask, JP!DelFailJob,
              JP!DelDecide, JP!DelUpdate, JP!DelGoto, JP!FailReportJob, JP!UpdateReviewState
<1>10. CASE JP!Recover
  BY <1>10 DEF JP!Recover, JP!RecoverSavedJob, JP!RecoverLostJob, JP!RecoverSaved,
               JP!RecoverLost, JP!InFlight
<1> QED BY <1>3, <1>4, <1>5, <1>6, <1>7, <1>8, <1>9, <1>10 DEF JobPart, JP!WorkerStep

\* recover_report_jobs_after_restart, cancel_report and _run_report_job: as
\* long as no statement raises, every in-flight row that requests can see has
\* a live worker or a cancel that ends it, through any crashes and cancels.
THEOREM InFlightRowsAreOwned == Spec => [](~DbFaults => InFlightIsOwned)
<1>1. Init => OwnedInv
  BY DEF Init, StoreInit, Job!JobInit, OwnedInv, OwnedParts, Quiet, InFlight
<1>2. ServiceInv /\ OwnedInv /\ [Next]_vars => OwnedInv'
  <2> SUFFICES ASSUME ServiceInv, OwnedParts, ~DbFaults, [Next]_vars PROVE OwnedParts'
    BY DEF OwnedInv
  <2>1. CASE JobPart /\ UNCHANGED reviewVars
    BY <2>1, JobPartOwned
  <2>2. CASE ReviewPart /\ UNCHANGED jobVars
    <3>1. ReviewKeeps
      BY <2>2, ReviewLeaves DEF ServiceInv, RP!ApprovalInv
    <3>2. Quiet'
      <4> SUFFICES ASSUME server # "up"
                   PROVE  \A p \in RP!Processes : pc'[p] \in {"idle", "done"}
        BY <2>2 DEF OwnedParts, Quiet, jobVars
      <4>1. \A p \in RP!Processes : pc[p] \in {"idle", "done"}
        BY DEF OwnedParts, Quiet
      <4>2. Requests \subseteq RP!Processes /\ ~AtPublishNode
        BY DEF OwnedParts, Quiet, AtPublishNode, RP!Processes
      <4> QED BY <2>2, <4>1, <4>2 DEF ReviewPart, RP!ReviewStep, RP!RecordAdminEvent,
                 RP!RecordDecision, RP!RecordState, RP!Publish, RP!PublishReadAudit,
                 RP!PublishReadDecisions, RP!PublishCopy, RP!PublishFinalize
    <3> QED BY <2>2, <3>1, <3>2 DEF OwnedParts, Cancelling, jobVars, ReviewKeeps
  <2>3. CASE InterruptPublish
    <3>1. server = "up"
      BY <2>3 DEF InterruptPublish, AtPublishNode, OwnedParts, Quiet
    <3>2. UNCHANGED server /\ task' = "fail" /\ stop' = FALSE
      BY <2>3 DEF InterruptPublish
    <3> QED BY <3>1, <3>2 DEF OwnedParts, Quiet, JP!Awaits
  <2>4. CASE Crash
    BY <2>4, CrashLeaves DEF CrashKeeps, OwnedParts, Quiet
  <2>5. CASE UNCHANGED vars
    BY <2>5 DEF vars, jobVars, reviewVars, storeVars, rowVars, OwnedParts, Quiet, Cancelling
  <2> QED BY <2>1, <2>2, <2>3, <2>4, <2>5, StepKinds
<1>3. OwnedInv => (~DbFaults => InFlightIsOwned)
  BY DEF OwnedInv, OwnedParts, Cancelling, InFlightIsOwned, Job!InFlightIsOwned, Job!InFlight,
         InFlight, Job!Awaits, JP!Awaits, Job!WorkflowAwaits, JP!WorkflowAwaits
<1> QED BY <1>1, <1>2, <1>3, ServiceAlways, PTL DEF Spec
=============================================================================
