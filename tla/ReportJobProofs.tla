---------------------------- MODULE ReportJobProofs ----------------------------
(***************************************************************************)
(* Theorems about ReportJob, for any number of workflow nodes, cancel      *)
(* calls and crashes and for every setting of the faults.                  *)
(***************************************************************************)
EXTENDS ReportJob, TLAPS

USE StoreAssumption, JobAssumption

-----------------------------------------------------------------------------
(* Types.                                                                  *)

\* The statements of PostgresStore keep the types of the row they write.
LEMMA RowStatements ==
    ASSUME StoreTypeOK
    PROVE  /\ InsertReportJob \/ RecoverSaved \/ RecoverLost \/ CompleteReportJob
                 => job_status' \in JobStates /\ job_node' \in 0..NodeCount
           /\ \A node \in 0..NodeCount :
                 MarkReportJobRunning(node) \/ MarkReportJobStageComplete(node)
                    => job_status' \in JobStates /\ job_node' \in 0..NodeCount
           /\ \A status \in Terminal :
                 FailReportJob(status) => job_status' \in JobStates /\ job_node' \in 0..NodeCount
           /\ UNCHANGED jobRow => job_status' \in JobStates /\ job_node' \in 0..NodeCount
           /\ \A gate \in Gates :
                 InsertAudit(gate) => review_state' \in ReviewStates /\ quality_gate' \in Gates
           /\ \A state \in ReviewStates :
                 UpdateReviewState(state)
                    => review_state' \in ReviewStates /\ quality_gate' \in Gates \cup {"none"}
           /\ UNCHANGED auditRow
                 => review_state' \in ReviewStates /\ quality_gate' \in Gates \cup {"none"}
BY DEF StoreTypeOK, InsertReportJob, RecoverSaved, RecoverLost, CompleteReportJob,
       MarkReportJobRunning, MarkReportJobStageComplete, FailReportJob, InsertAudit,
       UpdateReviewState, jobRow, auditRow, JobStates, InFlight, Terminal, ReviewStates
\* What the statement under way may still do when the worker is interrupted.
LEMMA PendingTypes ==
    ASSUME JobTypeOK, PendingStatement
    PROVE  /\ job_status' \in JobStates /\ job_node' \in 0..NodeCount
           /\ review_state' \in ReviewStates /\ quality_gate' \in Gates \cup {"none"}
<1>1. /\ StoreTypeOK
      /\ at + 1 \in 0..NodeCount
      /\ fail_as \in Terminal /\ "failed" \in Terminal
  BY DEF JobTypeOK, Terminal
<1> QED BY <1>1, RowStatements DEF PendingStatement, jobRow, auditRow

\* The steps of the worker keep the types.
LEMMA WorkerTypes ==
    ASSUME JobTypeOK, WorkerStep \/ RunPublishNode \/ Timeout
    PROVE  JobTypeOK'
<1>1. /\ StoreTypeOK
      /\ at + 1 \in 0..NodeCount
      /\ at \in 0..(NodeCount - 1)
      /\ at # NodeCount - 1 => at + 1 \in 0..(NodeCount - 1)
      /\ fail_as \in Terminal
      /\ {"failed", "timeout", "cancelled"} \subseteq Terminal
  BY DEF JobTypeOK, Terminal
<1> USE <1>1 DEF JobTypeOK, StoreTypeOK, Execute, Proceed, Raise, rowVars, auditRow,
                 reviewTable, objects, finalPath, workerFrame, delVars, pollVars,
                 TaskStates, Awaits, WorkflowAwaits
<1>2. CASE InitSchema
  BY <1>2 DEF InitSchema
<1>3. CASE StartRead
  BY <1>3 DEF StartRead
<1>4. CASE StartMark
  <2>1. job_status' \in JobStates /\ job_node' \in 0..NodeCount
    BY <1>4, RowStatements DEF StartMark
  <2>2. staging' \subseteq Artifacts /\ task' \in TaskStates /\ fail_as' \in Terminal
    BY <1>4 DEF StartMark, EnterNode
  <2> QED BY <1>4, <2>1, <2>2 DEF StartMark
<1>5. CASE RunNode
  BY <1>5 DEF RunNode
<1>6. CASE SaveAudit
  <2>1. review_state' \in ReviewStates /\ quality_gate' \in Gates \cup {"none"}
    BY <1>6, RowStatements DEF SaveAudit
  <2> QED BY <1>6, <2>1 DEF SaveAudit, jobRow
<1>7. CASE EndMark
  <2>1. job_status' \in JobStates /\ job_node' \in 0..NodeCount
    BY <1>7, RowStatements DEF EndMark
  <2> QED BY <1>7, <2>1 DEF EndMark
<1>8. CASE WorkflowDone
  BY <1>8 DEF WorkflowDone, storeVars
<1>9. CASE CheckAudit
  BY <1>9 DEF CheckAudit
<1>10. CASE FailWithoutAudit
  <2>1. job_status' \in JobStates /\ job_node' \in 0..NodeCount
    BY <1>10, RowStatements DEF FailWithoutAudit
  <2> QED BY <1>10, <2>1 DEF FailWithoutAudit
<1>11. CASE Complete
  <2>1. job_status' \in JobStates /\ job_node' \in 0..NodeCount
    BY <1>11, RowStatements DEF Complete
  <2> QED BY <1>11, <2>1 DEF Complete
<1>12. CASE Fail
  <2>1. job_status' \in JobStates /\ job_node' \in 0..NodeCount
    BY <1>12, RowStatements DEF Fail
  <2> QED BY <1>12, <2>1 DEF Fail
<1>13. CASE Interrupt
  BY <1>13, PendingTypes DEF Interrupt
<1>14. CASE RunPublishNode
  BY <1>14 DEF RunPublishNode
<1>15. CASE Timeout
  BY <1>15, PendingTypes DEF Timeout
<1> QED BY <1>2, <1>3, <1>4, <1>5, <1>6, <1>7, <1>8, <1>9, <1>10, <1>11, <1>12, <1>13,
           <1>14, <1>15 DEF WorkerStep

\* So do the steps of a cancel call.
LEMMA CancelTypes ==
    ASSUME JobTypeOK, NEW call \in Cancels, DelReadJob(call) \/ DelStep(call)
    PROVE  JobTypeOK'
<1>1. StoreTypeOK
  BY DEF JobTypeOK
<1> USE <1>1 DEF JobTypeOK, StoreTypeOK, Execute, DelGoto, rowVars, storeVars, jobRow, auditRow,
                 reviewTable, objects, finalPath, workerVars, delVars, pollVars, DelSteps
<1>2. CASE DelReadJob(call)
  BY <1>2 DEF DelReadJob
<1>3. CASE DelReadAudit(call)
  BY <1>3 DEF DelReadAudit
<1>4. CASE DelCancelTask(call)
  BY <1>4 DEF DelCancelTask
<1>5. CASE DelFailJob(call)
  <2>1. job_status' \in JobStates /\ job_node' \in 0..NodeCount
    BY <1>5, RowStatements DEF DelFailJob, Terminal
  <2> QED BY <1>5, <2>1 DEF DelFailJob
<1>6. CASE DelDecide(call)
  <2>1. [by |-> call, action |-> "report.cancelled"] \in Decision
    BY DEF Decision, Actions
  <2>2. decisions' \in Seq(Decision) /\ UNCHANGED admin_events
    BY <1>6, <2>1 DEF DelDecide, InsertReviewDecision
  <2> QED BY <1>6, <2>2 DEF DelDecide
<1>7. CASE DelUpdate(call)
  <2>1. review_state' \in ReviewStates /\ quality_gate' \in Gates \cup {"none"}
    BY <1>7, RowStatements DEF DelUpdate, ReviewStates, DecidedStates
  <2> QED BY <1>7, <2>1 DEF DelUpdate
<1> QED BY <1>2, <1>3, <1>4, <1>5, <1>6, <1>7 DEF DelStep

\* Every step of every process keeps the types.
LEMMA StepJobTypes == JobTypeOK /\ [Next]_vars => JobTypeOK'
<1> SUFFICES ASSUME JobTypeOK, [Next]_vars PROVE JobTypeOK'
  OBVIOUS
<1>1. StoreTypeOK
  BY DEF JobTypeOK
<1> USE <1>1 DEF JobTypeOK, StoreTypeOK, Execute, rowVars, storeVars, auditRow, reviewTable,
                 objects, finalPath, workerVars, delVars, pollVars, TaskStates, Awaits
<1>2. CASE Submit
  <2>1. job_status' \in JobStates /\ job_node' \in 0..NodeCount
    BY <1>2, RowStatements DEF Submit
  <2> QED BY <1>2, <2>1 DEF Submit
<1>3. CASE Schedule
  BY <1>3 DEF Schedule
<1>4. CASE PollReadJob \/ PollReadAudit
  BY <1>4 DEF PollReadJob, PollReadAudit
<1>5. CASE Crash
  <2>1. crashes' \in 0..Crashes
    BY <1>5 DEF Crash, CrashServer
  <2>2. del' \in [Cancels -> DelSteps]
    BY <1>5 DEF Crash, CrashServer, DelSteps
  <2> QED BY <1>5, <2>1, <2>2 DEF Crash, CrashServer
<1>6. CASE Recover
  <2>1. job_status' \in JobStates /\ job_node' \in 0..NodeCount
    BY <1>6, RowStatements DEF Recover, RecoverSavedJob, RecoverLostJob
  <2> QED BY <1>6, <2>1 DEF Recover, RecoverSavedJob, RecoverLostJob
<1>7. CASE UNCHANGED vars
  BY <1>7 DEF vars, jobVars
<1> QED BY <1>2, <1>3, <1>4, <1>5, <1>6, <1>7, WorkerTypes, CancelTypes DEF Next

\* stage_report, _run_report_job, cancel_report, get_report_status and the
\* recovery keep every row, object and await in its type.
THEOREM JobTypeCorrect == Spec => []JobTypeOK
<1>1. Init => JobTypeOK
  <2> SUFFICES ASSUME Init PROVE JobTypeOK
    OBVIOUS
  <2>1. StoreTypeOK
    BY DEF Init, StoreInit, StoreTypeOK, JobStates, ReviewStates
  <2>2. at \in 0..(NodeCount - 1)
    BY DEF Init, JobInit
  <2> QED BY <2>1, <2>2 DEF Init, JobInit, JobTypeOK, JobStates, Terminal, TaskStates, DelSteps
<1> QED BY <1>1, StepJobTypes, PTL DEF Spec

-----------------------------------------------------------------------------
(* What a step does to the rows.                                           *)

Ended == Terminal \ {"completed"}

\* The inductive invariant.  The worker: it does not wait without a row, it
\* does not complete without a report, and it does not store completed as a
\* failure.  The client: what it was told, or is about to be told, is true.
JobInv ==
    /\ job_status = "absent" => task \in {"none", "over"}
    /\ task = "none" => job_status = "absent"
    /\ task = "complete" => review_state # "absent"
    /\ fail_as \in Ended
    /\ job_status = "completed" => review_state # "absent"
    /\ task \in {"none", "inserting"} => told = "nothing"
    /\ told = "nothing" => poll = "idle"
    /\ poll \in Terminal => job_status \in Terminal
    /\ told = "terminal" => job_status \in Terminal /\ poll \in Terminal \cup {"idle"}

\* A step writes one row at most; and it writes report_jobs like this ...
JobRowStep ==
    \/ UNCHANGED job_status
    \/ job_status = "absent" /\ job_status' = "queued" /\ task = "none"
    \/ job_status \in InFlight /\ job_status' = "running"
    \/ job_status # "absent" /\ job_status' \in Ended
    \/ job_status # "absent" /\ job_status' = "completed" /\ review_state # "absent"

\* ... and audit_log like this.
AuditRowStep ==
    \/ UNCHANGED review_state
    \/ job_status # "absent" /\ review_state' = "staging"
    \/ review_state # "absent" /\ review_state' # "absent"

RowStep ==
    \/ UNCHANGED review_state /\ JobRowStep
    \/ UNCHANGED job_status /\ AuditRowStep

\* The statement under way when the worker is interrupted.
LEMMA PendingRowStep ==
    ASSUME JobTypeOK, JobInv, PendingStatement PROVE RowStep
BY DEF JobInv, PendingStatement, RowStep, JobRowStep, AuditRowStep, MarkReportJobRunning,
       MarkReportJobStageComplete, InsertAudit, FailReportJob, CompleteReportJob, Ended,
       Terminal, jobRow, auditRow

\* Every step of every process.
LEMMA StepRows == JobTypeOK /\ JobInv /\ [Next]_vars => RowStep
<1> SUFFICES ASSUME JobTypeOK, JobInv, [Next]_vars PROVE RowStep
  OBVIOUS
<1>1. /\ JobRowStep /\ UNCHANGED review_state => RowStep
      /\ AuditRowStep /\ UNCHANGED job_status => RowStep
  BY DEF RowStep
<1> USE <1>1 DEF Execute, rowVars, storeVars, jobRow, auditRow, JobRowStep, AuditRowStep
<1>2. CASE Submit
  BY <1>2 DEF JobInv, Submit, InsertReportJob
<1>3. CASE Schedule \/ PollReadJob \/ PollReadAudit \/ Crash \/ RunPublishNode
  BY <1>3 DEF Schedule, PollReadJob, PollReadAudit, Crash, RunPublishNode
<1>4. CASE InitSchema \/ StartRead \/ RunNode \/ WorkflowDone \/ CheckAudit
  BY <1>4 DEF InitSchema, StartRead, RunNode, WorkflowDone, CheckAudit
<1>5. CASE StartMark \/ EndMark
  BY <1>5 DEF StartMark, EndMark, MarkReportJobRunning, MarkReportJobStageComplete
<1>6. CASE SaveAudit
  BY <1>6 DEF JobInv, SaveAudit, InsertAudit
<1>7. CASE FailWithoutAudit \/ Complete \/ Fail
  BY <1>7 DEF JobInv, FailWithoutAudit, Complete, Fail, FailReportJob, CompleteReportJob,
              Ended, Terminal
<1>8. CASE Interrupt \/ Timeout
  BY <1>8, PendingRowStep DEF Interrupt, Timeout
<1>9. ASSUME NEW call \in Cancels, DelReadJob(call) \/ DelStep(call) PROVE RowStep
  BY <1>9 DEF DelReadJob, DelStep, DelReadAudit, DelCancelTask, DelFailJob, DelDecide,
              DelUpdate, FailReportJob, UpdateReviewState, Ended, Terminal
<1>10. CASE Recover
  BY <1>10 DEF Recover, RecoverSavedJob, RecoverLostJob, RecoverSaved, RecoverLost, InFlight,
               Ended, Terminal
<1>11. CASE UNCHANGED vars
  BY <1>11 DEF vars
<1> QED BY <1>2, <1>3, <1>4, <1>5, <1>6, <1>7, <1>8, <1>9, <1>10, <1>11 DEF Next, WorkerStep

\* Hence terminal rows stay terminal, rows stay and reports stay.
LEMMA RowsStay ==
    ASSUME RowStep
    PROVE  /\ job_status \in Terminal => job_status' \in Terminal
           /\ job_status # "absent" => job_status' # "absent"
           /\ review_state # "absent" => review_state' # "absent"
BY DEF RowStep, JobRowStep, AuditRowStep, Terminal, InFlight, Ended

-----------------------------------------------------------------------------
(* The inductive invariant.                                                *)

\* The rows alone: what a step leaves behind in them.
LEMMA StepCompleted ==
    ASSUME JobInv, RowStep
    PROVE  /\ job_status' = "completed" => review_state' # "absent"
           /\ poll' = poll /\ poll \in Terminal => job_status' \in Terminal
           /\ told' = told /\ told = "terminal" => job_status' \in Terminal
BY RowsStay DEF JobInv, RowStep, JobRowStep, AuditRowStep, Terminal, InFlight, Ended

\* Every step keeps it.
LEMMA StepJobInv == JobTypeOK /\ JobInv /\ JobTypeOK' /\ [Next]_vars => JobInv'
<1> SUFFICES ASSUME JobTypeOK, JobInv, JobTypeOK', [Next]_vars PROVE JobInv'
  OBVIOUS
<1>1. RowStep
  BY StepRows
<1>2. /\ job_status' = "completed" => review_state' # "absent"
      /\ poll' = poll /\ poll \in Terminal => job_status' \in Terminal
      /\ told' = told /\ told = "terminal" => job_status' \in Terminal
      /\ job_status # "absent" => job_status' # "absent"
      /\ review_state # "absent" => review_state' # "absent"
      /\ job_status \in Terminal => job_status' \in Terminal
  BY <1>1, StepCompleted, RowsStay
<1> DEFINE Worker == /\ job_status' = "absent" => task' \in {"none", "over"}
                     /\ task' = "none" => job_status' = "absent"
                     /\ task' = "complete" => review_state' # "absent"
                     /\ fail_as' \in Ended
                     /\ task' \in {"none", "inserting"} => told' = "nothing"
           Client == /\ told' = "nothing" => poll' = "idle"
                     /\ poll' \in Terminal => job_status' \in Terminal
                     /\ told' = "terminal"
                           => job_status' \in Terminal /\ poll' \in Terminal \cup {"idle"}
<1>3. Worker /\ Client => JobInv'
  BY <1>2 DEF JobInv
<1>4. UNCHANGED pollVars => Client
  BY <1>2 DEF JobInv, pollVars
<1>5. task \notin {"none", "over"} => job_status' # "absent"
  BY <1>2 DEF JobInv
<1> HIDE DEF Client
<1>6. ASSUME task \notin {"none", "over"}, task' \notin {"none", "inserting", "complete"},
             fail_as' \in Ended
      PROVE  Worker
  BY <1>5, <1>6
<1> USE DEF Proceed, Raise, workerFrame
<1>7. CASE Submit
  <2>1. Worker
    BY <1>2, <1>7 DEF Submit, Execute, InsertReportJob, pollVars, JobInv
  <2> QED BY <1>3, <1>4, <1>7, <2>1 DEF Submit
<1>8. CASE Schedule
  <2>1. Worker
    BY <1>6, <1>8 DEF Schedule, JobInv
  <2>2. Client
    BY <1>2, <1>8 DEF Schedule, JobInv, Client, Terminal
  <2> QED BY <1>3, <2>1, <2>2
<1>9. CASE CheckAudit
  <2>1. Worker
    BY <1>2, <1>9 DEF CheckAudit, JobInv, Ended, Terminal, rowVars, auditRow, pollVars
  <2> QED BY <1>3, <1>4, <1>9, <2>1 DEF CheckAudit
<1>10. ASSUME \/ InitSchema \/ StartRead \/ StartMark \/ RunNode \/ SaveAudit \/ EndMark
              \/ WorkflowDone \/ FailWithoutAudit \/ Complete \/ Fail \/ Interrupt
              \/ RunPublishNode \/ Timeout
       PROVE  JobInv'
  <2>1. /\ task \notin {"none", "over"} /\ task' \notin {"none", "inserting", "complete"}
        /\ fail_as' \in Ended
    BY <1>10 DEF InitSchema, StartRead, StartMark, EnterNode, RunNode, SaveAudit, EndMark,
                 WorkflowDone, FailWithoutAudit, Complete, Fail, Interrupt, RunPublishNode,
                 Timeout, Execute, Awaits, WorkflowAwaits, JobInv, Ended, Terminal
  <2>2. UNCHANGED pollVars
    BY <1>10 DEF InitSchema, StartRead, StartMark, RunNode, SaveAudit, EndMark,
                 WorkflowDone, FailWithoutAudit, Complete, Fail, Interrupt, RunPublishNode,
                 Timeout
  <2> QED BY <1>3, <1>4, <1>6, <2>1, <2>2
<1>11. ASSUME NEW call \in Cancels, DelReadJob(call) \/ DelStep(call) PROVE JobInv'
  <2>1. UNCHANGED <<task, fail_as, pollVars>> /\ (job_status = "absent" => UNCHANGED job_status)
    BY <1>11 DEF DelReadJob, DelStep, DelReadAudit, DelCancelTask, DelFailJob, DelDecide,
                 DelUpdate, Execute, FailReportJob, workerVars, storeVars, rowVars, jobRow
  <2>2. Worker
    BY <1>2, <2>1 DEF JobInv, pollVars
  <2> QED BY <1>3, <1>4, <2>1, <2>2
<1>12. CASE PollReadJob
  <2>1. Worker
    BY <1>12 DEF PollReadJob, JobInv, storeVars, rowVars, workerVars
  <2>2. Client
    BY <1>12 DEF PollReadJob, JobInv, Client, storeVars, rowVars
  <2> QED BY <1>3, <2>1, <2>2
<1>13. CASE PollReadAudit
  <2>1. Worker
    BY <1>13 DEF PollReadAudit, JobInv, storeVars, rowVars, workerVars
  <2>2. Client
    BY <1>13 DEF PollReadAudit, JobInv, Client, storeVars, rowVars, Terminal
  <2> QED BY <1>3, <2>1, <2>2
<1>14. CASE Crash
  <2>1. Worker
    BY <1>14 DEF Crash, CrashServer, JobInv, rowVars
  <2>2. Client
    BY <1>14 DEF Crash, CrashServer, JobInv, Client, rowVars, Terminal
  <2> QED BY <1>3, <2>1, <2>2
<1>15. CASE Recover
  <2>1. UNCHANGED <<task, fail_as, pollVars>> /\ (job_status = "absent" => UNCHANGED job_status)
    BY <1>15 DEF Recover, RecoverSavedJob, RecoverLostJob, RecoverSaved, RecoverLost, Execute,
                 InFlight, workerVars, jobRow
  <2>2. Worker
    BY <1>2, <2>1 DEF JobInv, pollVars
  <2> QED BY <1>3, <1>4, <2>1, <2>2
<1>16. CASE UNCHANGED vars
  BY <1>16 DEF JobInv, vars, storeVars, rowVars, auditRow, jobVars, workerVars, pollVars
<1> QED BY <1>7, <1>8, <1>9, <1>10, <1>11, <1>12, <1>13, <1>14, <1>15, <1>16
        DEF Next, WorkerStep

\* It holds in every state.
LEMMA JobInvAlways == Spec => [](JobTypeOK /\ JobInv)
<1>1. Init => JobInv
  BY DEF Init, StoreInit, JobInit, JobInv, Ended, Terminal
<1> QED BY <1>1, StepJobInv, JobTypeCorrect, PTL DEF Spec

\* _run_report_job and recover_report_jobs_after_restart: whatever node,
\* statement, time-out, cancel or crash intervenes, a completed job has the
\* audit row of a report behind it.
THEOREM CompletedJobsHaveReport == Spec => []CompletedHasReport
<1>1. JobInv => CompletedHasReport
  BY DEF JobInv, CompletedHasReport
<1> QED BY <1>1, JobInvAlways, PTL

\* get_report_status: a client that was told a terminal state is never told
\* progress again.
THEOREM TerminalAnswersStay == Spec => ToldTerminalStays
<1> DEFINE Stays == told = "terminal" => told' = "terminal"
<1>1. JobInv /\ [Next]_vars => Stays
  <2> SUFFICES ASSUME JobInv, [Next]_vars, told = "terminal" PROVE told' = "terminal"
    OBVIOUS
  <2>1. task \notin {"none", "inserting"} /\ poll \in Terminal \cup {"idle"}
    BY DEF JobInv
  <2> USE <2>1 DEF workerFrame, pollVars
  <2>2. CASE Submit \/ Schedule
    BY <2>2 DEF Submit, Schedule
  <2>3. CASE WorkerStep \/ RunPublishNode \/ Timeout
    BY <2>3 DEF WorkerStep, InitSchema, StartRead, StartMark, RunNode, SaveAudit, EndMark,
                WorkflowDone, CheckAudit, FailWithoutAudit, Complete, Fail, Interrupt,
                RunPublishNode, Timeout
  <2>4. ASSUME NEW call \in Cancels, DelReadJob(call) \/ DelStep(call)
        PROVE  told' = "terminal"
    BY <2>4 DEF DelReadJob, DelStep, DelReadAudit, DelCancelTask, DelFailJob, DelDecide, DelUpdate
  <2>5. CASE PollReadJob \/ PollReadAudit
    BY <2>5 DEF PollReadJob, PollReadAudit
  <2>6. CASE Crash \/ Recover
    BY <2>6 DEF Crash, Recover, RecoverSavedJob, RecoverLostJob
  <2>7. CASE UNCHANGED vars
    BY <2>7 DEF vars, jobVars
  <2> QED BY <2>2, <2>3, <2>4, <2>5, <2>6, <2>7 DEF Next
<1>2. Spec => [][Stays]_vars
  BY <1>1, JobInvAlways, PTL DEF Spec
<1> QED BY <1>2 DEF ToldTerminalStays

-----------------------------------------------------------------------------
(* The refinement.                                                         *)

\* ReportJob implements ReportLifecycle: a request is accepted once, ends
\* once and for all, completed only with a saved report, and a saved report
\* stays saved.
THEOREM JobImplementsLifecycle == Spec => JobLifecycle
<1>1. Init => Lifecycle!Init
  <2> SUFFICES ASSUME Init PROVE Lifecycle!Init
    OBVIOUS
  <2>1. Phase = "absent"
    BY DEF Init, StoreInit, Phase, InFlight
  <2>2. (review_state # "absent") = FALSE
    BY DEF Init, StoreInit
  <2> QED BY <2>1, <2>2 DEF Lifecycle!Init
<1>2. JobTypeOK /\ JobInv /\ [Next]_vars => [Lifecycle!Next]_(Lifecycle!vars)
  <2> SUFFICES ASSUME JobTypeOK, JobInv, [Next]_vars
               PROVE  [Lifecycle!Next]_(Lifecycle!vars)
    OBVIOUS
  <2>1. RowStep
    BY StepRows
  <2>2. job_status \in JobStates
    BY DEF JobTypeOK, StoreTypeOK
  <2> USE DEF Phase, InFlight, Ended, Terminal, JobStates
  <2>3. CASE UNCHANGED review_state /\ Phase' = Phase
    BY <2>3 DEF Lifecycle!vars
  <2>4. CASE UNCHANGED review_state /\ JobRowStep /\ Phase' # Phase
    <3>1. CASE job_status = "absent" /\ job_status' = "queued"
      <4>1. Lifecycle!Accept
        BY <2>4, <3>1 DEF Lifecycle!Accept
      <4> QED BY <4>1 DEF Lifecycle!Next
    <3>2. CASE job_status # "absent" /\ job_status' \in Ended
      <4>1. Phase # "absent" /\ Phase' = "stopped"
        BY <2>2, <3>2
      <4>2. Lifecycle!End
        BY <2>4, <4>1 DEF Lifecycle!End
      <4> QED BY <4>2 DEF Lifecycle!Next
    <3>3. CASE job_status # "absent" /\ job_status' = "completed" /\ review_state # "absent"
      <4>1. Phase # "absent" /\ Phase' = "completed"
        BY <2>2, <3>3
      <4>2. Lifecycle!End
        BY <2>4, <3>3, <4>1 DEF Lifecycle!End
      <4> QED BY <4>2 DEF Lifecycle!Next
    <3> QED BY <2>4, <3>1, <3>2, <3>3 DEF JobRowStep
  <2>5. CASE UNCHANGED job_status /\ AuditRowStep
    <3>1. Phase' = Phase
      BY <2>5
    <3>2. CASE (review_state' # "absent") <=> (review_state # "absent")
      BY <3>1, <3>2 DEF Lifecycle!vars
    <3>3. CASE job_status # "absent" /\ review_state = "absent" /\ review_state' # "absent"
      <4>1. Phase # "absent"
        BY <2>2, <3>3
      <4>2. Lifecycle!Save
        BY <3>1, <3>3, <4>1 DEF Lifecycle!Save
      <4> QED BY <4>2 DEF Lifecycle!Next
    <3> QED BY <2>5, <3>2, <3>3 DEF AuditRowStep
  <2> QED BY <2>1, <2>3, <2>4, <2>5 DEF RowStep
<1> QED BY <1>1, <1>2, JobInvAlways, PTL DEF Spec, JobLifecycle, Lifecycle!Spec
=============================================================================
