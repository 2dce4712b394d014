---------------------------- MODULE ReportService ----------------------------
(***************************************************************************)
(* The whole life of one report: ReportJob and ReviewPublish on the same   *)
(* rows and objects.  The modules meet in three places: node 15 of the     *)
(* worker inserts the row the reviewers work on; node 17 of the worker is  *)
(* the pipeline process of ReviewPublish, and is interrupted with it; and  *)
(* the reviewers and the DELETE endpoint write the same review_state.      *)
(***************************************************************************)
EXTENDS ReportStore

CONSTANTS Pipeline, SaveNode

VARIABLES
    server, task, at, fail_as, stop, del, saw_job, poll, told,  \* ReportJob
    kind, own, raced, pc, seen, pick                            \* ReviewPublish

Job    == INSTANCE ReportJob
Review == INSTANCE ReviewPublish

ASSUME ServiceAssumption == Job!JobAssumption /\ Review!ReviewAssumption

jobVars    == <<server, task, at, fail_as, stop, del, saw_job, poll, told>>
reviewVars == <<kind, own, raced, pc, seen, pick>>
vars       == <<storeVars, jobVars, reviewVars>>

ServiceTypeOK == Job!JobTypeOK /\ Review!ReviewTypeOK

-----------------------------------------------------------------------------
(* Node 17 inside the worker.                                              *)

AtPublishNode   == task = "node" /\ at = NodeCount - 1
PipelineRunning == pc[Pipeline] \in Review!PublishSteps

EnterPublish ==
    /\ AtPublishNode /\ ~stop
    /\ Review!PipelinePublishes
    /\ UNCHANGED jobVars

PipelineStep ==
    /\ AtPublishNode /\ ~stop
    /\ Review!Publish(Pipeline)
    /\ UNCHANGED jobVars

LeavePublish ==
    /\ pc[Pipeline] = "done"
    /\ Job!RunPublishNode
    /\ UNCHANGED reviewVars

BuggyInterruptPublish ==  \* the state is stored in a finally clause
    /\ AtPublishNode /\ PipelineRunning
    /\ task' = "fail"
    /\ fail_as' = IF stop THEN "cancelled" ELSE "timeout"
    /\ stop' = FALSE
    /\ pc' = [pc EXCEPT ![Pipeline] = "done"]
    /\ \/ pc[Pipeline] \in {"pub_copy", "pub_final"} /\ UpdateReviewState("final")
       \/ UNCHANGED auditRow
    /\ UNCHANGED <<jobRow, reviewTable, objects, crashes, server, at, del, saw_job,
                   poll, told, kind, own, raced, seen, pick>>

\* A cancellation or the time-out hits node 17 at its await: the last
\* statement may still be applied, the copy loop is not entered.
InterruptPublish ==
    /\ AtPublishNode /\ PipelineRunning
    /\ task' = "fail"
    /\ fail_as' = IF stop THEN "cancelled" ELSE "timeout"
    /\ stop' = FALSE
    /\ pc' = [pc EXCEPT ![Pipeline] = "done"]
    /\ \/ pc[Pipeline] = "pub_final" /\ UpdateReviewState("final")
       \/ UNCHANGED auditRow
    /\ UNCHANGED <<jobRow, reviewTable, objects, crashes, server, at, del, saw_job,
                   poll, told, kind, own, raced, seen, pick>>

-----------------------------------------------------------------------------
\* The status poll only reads; ReportJob checks what it answers.
JobStep ==
    /\ \/ Job!Submit
       \/ ~PipelineRunning /\ Job!Timeout
       \/ \E call \in Cancels : Job!DelReadJob(call)
    /\ UNCHANGED reviewVars

WorkerStep ==
    \/ ~PipelineRunning /\ Job!WorkerStep /\ UNCHANGED reviewVars
    \/ EnterPublish \/ PipelineStep \/ LeavePublish

\* What the server goes on with once it has begun.
Resume ==
    /\ \/ Job!Schedule
       \/ \E call \in Cancels : Job!DelStep(call)
       \/ Job!Recover
    /\ UNCHANGED reviewVars

\* The id of a report becomes known with the answer to its submission.
ReviewBegin(call) ==
    /\ server = "up" /\ told # "nothing"
    /\ Review!ReadAudit(call)
    /\ UNCHANGED jobVars

ReviewCall(call) ==
    /\ Review!ReviewStep(call) \/ Review!Publish(call)
    /\ UNCHANGED jobVars

\* The server dies, possibly inside the copy loop of some publish.
Crash ==
    /\ Job!CrashServer
    /\ Review!LoseCalls
    /\ \/ UNCHANGED final
       \/ /\ \E p \in Review!Processes : pc[p] = "pub_copy"
          /\ \E copied \in SUBSET staging : final' = final \cup copied
    /\ UNCHANGED <<jobRow, auditRow, reviewTable, staging, approval_log,
                   missed, at, fail_as, saw_job, told, kind, own, raced, seen, pick>>

Init == StoreInit /\ Job!JobInit /\ Review!ReviewInit

Next ==
    \/ JobStep
    \/ WorkerStep
    \/ InterruptPublish
    \/ Resume
    \/ \E call \in Requests : ReviewBegin(call) \/ ReviewCall(call)
    \/ Crash

Spec == Init /\ [][Next]_vars

\* The event loop resumes whatever is suspended, delivers a cancellation, and
\* the container restarts; nobody has to call, and no timer has to fire.
FairSpec ==
    /\ Spec
    /\ WF_vars(WorkerStep \/ (stop /\ InterruptPublish))
    /\ WF_vars(Job!Schedule /\ UNCHANGED reviewVars)
    /\ WF_vars(Job!Recover /\ UNCHANGED reviewVars)
    /\ \A call \in Cancels : WF_vars(Job!DelStep(call) /\ UNCHANGED reviewVars)
    /\ \A call \in Requests : WF_vars(ReviewCall(call))

-----------------------------------------------------------------------------
(* Properties.                                                             *)

\* Worker, reviewers, cancels and crashes together still give the life of a
\* report that ReportLifecycle promises: no report is approved before it is
\* saved or published before it is approved, and no ended job starts again.
Lifecycle == INSTANCE ReportLifecycle
    WITH phase <- Job!Phase, saved <- review_state # "absent",
         approved <- Review!Approved, published <- final

ServiceLifecycle == Lifecycle!Spec

\* A row that says final has all staged artifacts and the approval log under
\* final/ but for those whose object-store call failed, also when node 17 of
\* the worker was interrupted while a reviewer published.
FinalIsComplete == Review!FinalIsComplete

\* Whatever reviewers, cancels and node 17 do in between, every accepted job
\* ends.  (Only when no statement raises.)
EveryJobEnds == Job!EveryJobEnds

\* While requests are served, an in-flight row is a live worker's, or a cancel
\* is about to end it.  (Only when no statement raises.)
InFlightIsOwned == Job!InFlightIsOwned

\* An approval does not stay an approval: unless the process dies, the report is
\* published or another verdict replaces it.  (Only when no statement raises.)
ApprovalPublishes ==
    review_state = "approved" ~> review_state # "approved" \/ crashes > 0

-----------------------------------------------------------------------------
(* What the repository says and the code does not do.                      *)

\* apps/edr/app.py:1248: "reports in terminal states (final, rejected,
\* cancelled) cannot be cancelled".  Cancelled is terminal: it stays so.
CancelledIsTerminal ==
    [][review_state = "cancelled" => review_state' = "cancelled"]_vars
=============================================================================
