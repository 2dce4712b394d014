------------------------------ MODULE ReportJob ------------------------------
(***************************************************************************)
(* An asynchronous report job: the endpoint that accepts it, the asyncio   *)
(* task that runs the workflow and keeps the report_jobs row, the status   *)
(* poll, the DELETE endpoint that cancels it, and the recovery of in-      *)
(* flight rows when the server starts again.                               *)
(*                                                                         *)
(* task names the await at which the worker is suspended; its action is    *)
(* the awaited statement with the code up to the next await.  task.cancel() *)
(* and the 15-minute asyncio.wait_for interrupt the worker at that await,  *)
(* when the statement may or may not have reached the database.            *)
(***************************************************************************)
EXTENDS ReportStore

CONSTANT SaveNode  \* index of node_15_save_audit (15 of 0..17 in the code)

ASSUME JobAssumption == SaveNode \in 0..(NodeCount - 2)

VARIABLES
    server,  \* "up", or the recovery statement the startup hook is at
    task,    \* the await the worker task is suspended at
    at,      \* the workflow node it is in
    fail_as, \* the status its exception handler is about to store
    stop,    \* task.cancel() was called and has not been delivered
    del,     \* del[c]: the await DELETE call c is suspended at
    saw_job, \* saw_job[c]: the job status c read
    poll,    \* the job status the status poll has read, or "idle"
    told     \* what the requester's client was last told

workerVars == <<task, at, fail_as, stop>>
delVars    == <<del, saw_job>>
pollVars   == <<poll, told>>
jobVars    == <<server, workerVars, delVars, pollVars>>
vars       == <<storeVars, jobVars>>

WorkflowAwaits == {"start_read", "start_mark", "node", "insert_audit", "end_mark"}
Awaits == {"init", "wf_done", "get_audit", "no_audit", "complete", "fail"} \cup WorkflowAwaits
TaskStates == {"none", "inserting", "over"} \cup Awaits
DelSteps   == {"idle", "read_audit", "cancel_task", "fail_job", "decide", "update",
               "confirmed", "done"}

JobTypeOK ==
    /\ StoreTypeOK
    /\ server \in {"up", "recover_saved", "recover_lost"}
    /\ task \in TaskStates
    /\ at \in 0..(NodeCount - 1)
    /\ fail_as \in Terminal
    /\ stop \in BOOLEAN
    /\ del \in [Cancels -> DelSteps]
    /\ saw_job \in [Cancels -> JobStates]
    /\ poll \in JobStates \cup {"idle"}
    /\ told \in {"nothing", "progress", "terminal"}

-----------------------------------------------------------------------------
(* POST /reports/staging: insert the row, then start the task.             *)

Submit ==
    /\ server = "up"
    /\ task = "none"
    /\ Execute(InsertReportJob, UNCHANGED jobRow, task' = "inserting", task' = "over")
    /\ UNCHANGED <<auditRow, reviewTable, objects, crashes, server, at, fail_as, stop,
                   delVars, pollVars>>

Schedule ==
    /\ task = "inserting"
    /\ task' = "init"
    /\ told' = "progress"
    /\ UNCHANGED <<storeVars, server, at, fail_as, stop, delVars, poll>>

-----------------------------------------------------------------------------
(* _run_report_job.                                                        *)

Raise(status) ==
    /\ task' = "fail"
    /\ fail_as' = status

Proceed(await) ==
    /\ task' = await
    /\ UNCHANGED fail_as

workerFrame == <<crashes, server, stop, delVars, pollVars>>

\* init_schema is outside the try block: if it raises, the task is gone and
\* the row keeps the state it has.
InitSchema ==
    /\ task = "init" /\ ~stop
    /\ Proceed("start_read") \/ (DbFaults /\ Proceed("over"))
    /\ UNCHANGED <<rowVars, at, workerFrame>>

\* The "start" event re-reads the row; a cancelled row stops the workflow.
StartRead ==
    /\ task = "start_read" /\ ~stop
    /\ \/ job_status = "cancelled" /\ Raise("cancelled")
       \/ job_status # "cancelled" /\ Proceed("start_mark")
       \/ DbFaults /\ Raise("failed")
    /\ UNCHANGED <<rowVars, at, workerFrame>>

\* Node 15 uploads its artifacts before its first await.
EnterNode ==
    IF at = SaveNode
    THEN /\ \E lost \in MaybeLost \cup {Optional} : staging' = Artifacts \ lost
         /\ Proceed("insert_audit")
    ELSE Proceed("node") /\ UNCHANGED staging

StartMark ==
    /\ task = "start_mark" /\ ~stop
    /\ Execute(MarkReportJobRunning(at + 1), UNCHANGED jobRow,
               EnterNode, Raise("failed") /\ UNCHANGED staging)
    /\ UNCHANGED <<auditRow, reviewTable, finalPath, at, workerFrame>>

\* Retrieval, drafting and the gate may raise; nodes 15 to 17 catch all.
RunNode ==
    /\ task = "node" /\ ~stop
    /\ at # NodeCount - 1
    /\ Proceed("end_mark") \/ (at < SaveNode /\ Raise("failed"))
    /\ UNCHANGED <<rowVars, at, workerFrame>>

\* node_17_publish as this module sees it; ReportService gives it its steps.
RunPublishNode ==
    /\ task = "node" /\ ~stop
    /\ at = NodeCount - 1
    /\ Proceed("end_mark")
    /\ UNCHANGED <<rowVars, at, workerFrame>>

\* Node 15 records a raised insert as degraded and goes on.
SaveAudit ==
    /\ task = "insert_audit" /\ ~stop
    /\ \E gate \in Gates :
          Execute(InsertAudit(gate), UNCHANGED auditRow, Proceed("end_mark"), Proceed("end_mark"))
    /\ UNCHANGED <<jobRow, reviewTable, objects, at, workerFrame>>

EndMark ==
    /\ task = "end_mark" /\ ~stop
    /\ Execute(MarkReportJobStageComplete(at + 1), UNCHANGED jobRow,
               IF at = NodeCount - 1 THEN Proceed("wf_done") /\ UNCHANGED at
                                     ELSE Proceed("start_read") /\ at' = at + 1,
               Raise("failed") /\ UNCHANGED at)
    /\ UNCHANGED <<auditRow, reviewTable, objects, workerFrame>>

\* The workflow has returned and wait_for is about to: a cancellation that
\* arrives now is swallowed by wait_for (Python 3.11).
WorkflowDone ==
    /\ task = "wf_done"
    /\ Proceed("get_audit")
    /\ stop' = FALSE
    /\ UNCHANGED <<storeVars, server, at, delVars, pollVars>>

BuggyCheckAudit ==  \* completes the job without looking for the audit row
    /\ task = "get_audit" /\ ~stop
    /\ Proceed("complete")
    /\ UNCHANGED <<rowVars, at, workerFrame>>

CheckAudit ==
    /\ task = "get_audit" /\ ~stop
    /\ \/ review_state = "absent" /\ Proceed("no_audit")
       \/ review_state # "absent" /\ Proceed("complete")
       \/ DbFaults /\ Raise("failed")
    /\ UNCHANGED <<rowVars, at, workerFrame>>

\* This failure is stored inside the try block, unlike Fail.
FailWithoutAudit ==
    /\ task = "no_audit" /\ ~stop
    /\ Execute(FailReportJob("failed"), UNCHANGED jobRow, Proceed("over"), Raise("failed"))
    /\ UNCHANGED <<auditRow, reviewTable, objects, at, workerFrame>>

Complete ==
    /\ task = "complete" /\ ~stop
    /\ Execute(CompleteReportJob, UNCHANGED jobRow, Proceed("over"), Raise("failed"))
    /\ UNCHANGED <<auditRow, reviewTable, objects, at, workerFrame>>

Fail ==
    /\ task = "fail" /\ ~stop
    /\ Execute(FailReportJob(fail_as), UNCHANGED jobRow, Proceed("over"), Proceed("over"))
    /\ UNCHANGED <<auditRow, reviewTable, objects, at, workerFrame>>

-----------------------------------------------------------------------------
(* Interruption of the worker.                                             *)

\* The statement the worker awaits, applied or not when it is interrupted.
PendingStatement ==
    \/ task = "start_mark" /\ MarkReportJobRunning(at + 1) /\ UNCHANGED auditRow
    \/ task = "end_mark" /\ MarkReportJobStageComplete(at + 1) /\ UNCHANGED auditRow
    \/ task = "insert_audit" /\ (\E gate \in Gates : InsertAudit(gate)) /\ UNCHANGED jobRow
    \/ task = "no_audit" /\ FailReportJob("failed") /\ UNCHANGED auditRow
    \/ task = "complete" /\ CompleteReportJob /\ UNCHANGED auditRow
    \/ task = "fail" /\ FailReportJob(fail_as) /\ UNCHANGED auditRow
    \/ UNCHANGED <<jobRow, auditRow>>

\* The 15-minute budget covers the workflow only.
Timeout ==
    /\ task \in WorkflowAwaits /\ ~stop
    /\ PendingStatement
    /\ Raise("timeout")
    /\ UNCHANGED <<reviewTable, objects, at, workerFrame>>

\* CancelledError is raised at the await.  Outside the try block, and inside
\* the handler itself, nothing is stored.
Interrupt ==
    /\ stop /\ task \in Awaits \ {"wf_done"}
    /\ PendingStatement
    /\ IF task \in {"init", "fail"} THEN Proceed("over") ELSE Raise("cancelled")
    /\ stop' = FALSE
    /\ UNCHANGED <<reviewTable, objects, crashes, server, at, delVars, pollVars>>

-----------------------------------------------------------------------------
(* DELETE /reports/{id}.                                                   *)

DelGoto(call, step) == del' = [del EXCEPT ![call] = step]

DelReadJob(call) ==
    /\ del[call] = "idle"
    /\ server = "up" /\ told # "nothing"
    /\ saw_job' = [saw_job EXCEPT ![call] = job_status]
    /\ DelGoto(call, "read_audit")
    /\ UNCHANGED <<storeVars, server, workerVars, pollVars>>

\* Before node 15 the job is cancelled, afterwards the report.
DelReadAudit(call) ==
    /\ del[call] = "read_audit"
    /\ DelGoto(call,
         CASE review_state = "absent" /\ saw_job[call] \in Terminal      -> "done"
           [] review_state = "absent" /\ saw_job[call] \notin Terminal   -> "cancel_task"
           [] review_state # "absent"
              /\ DerivedState \in {"final", "rejected", "cancelled"}      -> "done"
           [] OTHER                                                      -> "decide")
    /\ UNCHANGED <<storeVars, server, workerVars, saw_job, pollVars>>

\* The call resumes with what it read; the task is found in the registry as
\* long as it is not over.
DelCancelTask(call) ==
    /\ del[call] = "cancel_task"
    /\ stop' = (task \in Awaits)
    /\ DelGoto(call, "fail_job")
    /\ UNCHANGED <<storeVars, server, task, at, fail_as, saw_job, pollVars>>

DelFailJob(call) ==
    /\ del[call] = "fail_job"
    /\ Execute(FailReportJob("cancelled"), UNCHANGED jobRow,
               DelGoto(call, "confirmed"), DelGoto(call, "done"))
    /\ UNCHANGED <<auditRow, reviewTable, objects, crashes, server, workerVars, saw_job, pollVars>>

DelDecide(call) ==
    /\ del[call] = "decide"
    /\ Execute(InsertReviewDecision(call, "report.cancelled"), UNCHANGED reviewTable,
               DelGoto(call, "update"), DelGoto(call, "done"))
    /\ UNCHANGED <<jobRow, auditRow, objects, crashes, server, workerVars, saw_job, pollVars>>

DelUpdate(call) ==
    /\ del[call] = "update"
    /\ Execute(UpdateReviewState("cancelled"), UNCHANGED auditRow,
               DelGoto(call, "done"), DelGoto(call, "done"))
    /\ UNCHANGED <<jobRow, reviewTable, objects, crashes, server, workerVars, saw_job, pollVars>>

DelStep(call) ==
    \/ DelReadAudit(call)
    \/ DelCancelTask(call)
    \/ DelFailJob(call)
    \/ DelDecide(call)
    \/ DelUpdate(call)

-----------------------------------------------------------------------------
(* GET /reports/{id}/status: two reads, the job first.                     *)

PollReadJob ==
    /\ poll = "idle"
    /\ server = "up" /\ told # "nothing"
    /\ poll' = job_status
    /\ UNCHANGED <<storeVars, server, workerVars, delVars, told>>

\* The job answers until it is completed and the audit row is there; the
\* audit row's answer is always terminal.
PollReadAudit ==
    /\ poll # "idle"
    /\ told' = IF poll \in Terminal THEN "terminal" ELSE "progress"
    /\ poll' = "idle"
    /\ UNCHANGED <<storeVars, server, workerVars, delVars>>

-----------------------------------------------------------------------------
(* The server process dies; the startup hook repairs the row before the    *)
(* first request.  A hook that raises leaves the row as it is.             *)

CrashServer ==
    /\ crashes < Crashes
    /\ crashes' = crashes + 1
    /\ server' = "recover_saved"
    /\ task' = IF task = "none" THEN "none" ELSE "over"
    /\ stop' = FALSE
    /\ del' = [c \in Cancels |-> IF del[c] \in {"idle", "confirmed"} THEN del[c] ELSE "done"]
    /\ poll' = "idle"

Crash ==
    /\ CrashServer
    /\ UNCHANGED <<rowVars, at, fail_as, saw_job, told>>

BuggyRecoverNothing ==  \* the startup hook is not registered
    /\ server = "recover_saved"
    /\ server' = "up"
    /\ UNCHANGED <<storeVars, workerVars, delVars, pollVars>>

RecoverSavedJob ==
    /\ server = "recover_saved"
    /\ Execute(RecoverSaved, UNCHANGED jobRow, server' = "recover_lost", server' = "up")
    /\ UNCHANGED <<auditRow, reviewTable, objects, crashes, workerVars, delVars, pollVars>>

RecoverLostJob ==
    /\ server = "recover_lost"
    /\ Execute(RecoverLost, UNCHANGED jobRow, server' = "up", server' = "up")
    /\ UNCHANGED <<auditRow, reviewTable, objects, crashes, workerVars, delVars, pollVars>>

-----------------------------------------------------------------------------
JobInit ==
    /\ server = "up"
    /\ task = "none"
    /\ at = 0
    /\ fail_as = "failed"
    /\ stop = FALSE
    /\ del = [c \in Cancels |-> "idle"]
    /\ saw_job = [c \in Cancels |-> "absent"]
    /\ poll = "idle"
    /\ told = "nothing"

Init == StoreInit /\ JobInit

WorkerStep ==
    \/ InitSchema \/ StartRead \/ StartMark \/ RunNode \/ SaveAudit \/ EndMark
    \/ WorkflowDone \/ CheckAudit \/ FailWithoutAudit \/ Complete \/ Fail
    \/ Interrupt

Recover == RecoverSavedJob \/ RecoverLostJob

Next ==
    \/ Submit
    \/ Schedule
    \/ WorkerStep
    \/ RunPublishNode
    \/ Timeout
    \/ \E call \in Cancels : DelReadJob(call) \/ DelStep(call)
    \/ PollReadJob
    \/ PollReadAudit
    \/ Crash
    \/ Recover

Spec == Init /\ [][Next]_vars

-----------------------------------------------------------------------------
(* Properties.                                                             *)

\* complete_report_job and the recovery: a completed job always has the audit
\* row behind it, so the status endpoint can hand over to the review state.
\* Node 15 swallows a failed insert, so the worker must look again.
CompletedHasReport == job_status = "completed" => review_state # "absent"

\* The registry _REPORT_JOB_TASKS and the rows agree: while requests are
\* served, an in-flight row is some live worker's, or a cancel that is about
\* to end it has it.  (Only when no statement raises.)
InFlightIsOwned ==
    server = "up" /\ job_status \in InFlight =>
        \/ task \in Awaits \cup {"inserting"}
        \/ \E call \in Cancels : del[call] = "fail_job"

\* GET /reports/{id}/status: once the client has been told is_terminal, no
\* later answer takes it back - whatever statement of the worker was still
\* under way, and across a restart.
ToldTerminalStays == [][told = "terminal" => told' = "terminal"]_vars

\* Every accepted job ends: through time-outs, cancels, exceptions of the
\* nodes and crashes.  (Only when no statement raises.)
EveryJobEnds == job_status \in InFlight ~> job_status \in Terminal

\* The job's row and report keep what ReportLifecycle promises.
Phase ==
    CASE job_status = "absent"      -> "absent"
      [] job_status \in InFlight    -> "in_progress"
      [] job_status = "completed"   -> "completed"
      [] OTHER                      -> "stopped"

Lifecycle == INSTANCE ReportLifecycle
    WITH phase <- Phase, saved <- review_state # "absent",
         approved <- FALSE, published <- {}

JobLifecycle == Lifecycle!Spec

-----------------------------------------------------------------------------
(* What the repository says and the code does not do.                      *)

\* docs/design/UI_CONTRACT_v1.md:1308: "On confirm, the workflow is
\* terminated."  A job whose cancellation was confirmed to the requester, and
\* whose worker has ended, did not complete.
ConfirmedCancelSticks ==
    task = "over" /\ (\E call \in Cancels : del[call] = "confirmed")
        => job_status # "completed"
=============================================================================
