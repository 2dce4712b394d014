---------------------------- MODULE ReviewPublish ----------------------------
(***************************************************************************)
(* Human review and publication of one report: the review endpoints of     *)
(* apps/edr/app.py (approve, reject, request-revision and the two admin    *)
(* overrides) and node_17_publish, which the approving endpoints run and   *)
(* which the report pipeline runs once more as its last node.              *)
(*                                                                         *)
(* A process is one HTTP call or the pipeline.  Its pc names the awaited   *)
(* statement it is suspended at; an action is that statement together with *)
(* the synchronous code up to the next await, which is where asyncio lets  *)
(* other coroutines in.  Object-store calls are synchronous: the whole     *)
(* copy loop of node 17 is one action, cut short only by a crash.          *)
(***************************************************************************)
EXTENDS ReportStore

CONSTANT Pipeline  \* the pipeline's own run of node 17

ASSUME ReviewAssumption == Pipeline \notin Requests

VARIABLES
    kind,  \* kind[c]: the endpoint call c is made to
    own,   \* own[c]: the caller is the requester of the report
    raced, \* history: two processes have been in progress at once
    pc,    \* the statement each process is suspended at
    seen,  \* seen[p]: review_state as p read it in node 17
    pick   \* pick[p]: the approver p found in review_decisions

callVars   == <<kind, own, raced>>
reviewVars == <<callVars, pc, seen, pick>>
vars       == <<storeVars, reviewVars>>

Processes     == Requests \cup {Pipeline}
ApproveKinds  == {"approve", "override_approve"}
OverrideKinds == {"override_approve", "override_reject"}
Kinds         == {"approve", "reject", "request_revision"} \cup OverrideKinds
PublishSteps  == {"pub_audit", "pub_decisions", "pub_copy", "pub_final"}
Steps         == {"idle", "event", "decide", "update", "done"} \cup PublishSteps

InProgress == {p \in Processes : pc[p] \notin {"idle", "done"}}

ReviewTypeOK ==
    /\ StoreTypeOK
    /\ kind \in [Requests -> Kinds]
    /\ own \in [Requests -> BOOLEAN]
    /\ raced \in BOOLEAN
    /\ pc \in [Processes -> Steps]
    /\ seen \in [Processes -> ReviewStates]
    /\ pick \in [Processes -> Requests \cup Cancels \cup {Nobody}]

-----------------------------------------------------------------------------
(* What the endpoints decide.                                              *)

\* review_decisions.action.  _check_reviewer_rbac returns "approve" for every
\* role it lets through, and reject and request-revision record it unchanged.
ActionOf(call) == IF kind[call] \in OverrideKinds THEN "admin_override" ELSE "approve"

BuggyStateAfter(call) == kind[call]  \* stores the endpoint's name

StateAfter(call) ==
    CASE kind[call] \in ApproveKinds                  -> "approved"
      [] kind[call] \in {"reject", "override_reject"} -> "rejected"
      [] kind[call] = "request_revision"              -> "revision_requested"

BuggyAdmissible(call) ==  \* reject and request-revision forget the 409
    CASE kind[call] = "approve"                         -> review_state \notin {"final", "rejected"}
      [] kind[call] \in {"reject", "request_revision"} -> TRUE
      [] kind[call] \in OverrideKinds -> ~own[call] /\ DerivedState \in {"staging", "needs_review"}

\* The guards between get_audit and the first write: 404, 403 and 409.
Admissible(call) ==
    /\ review_state # "absent"
    /\ CASE kind[call] = "approve"                        -> review_state \notin {"final", "rejected"}
         [] kind[call] \in {"reject", "request_revision"} -> review_state # "final"
         [] kind[call] \in OverrideKinds -> ~own[call] /\ DerivedState \in {"staging", "needs_review"}

BuggyFirstStep(call) == "decide"  \* the override acts before it is audited

FirstStep(call) == IF kind[call] \in OverrideKinds THEN "event" ELSE "decide"

BuggyAfterUpdate(call) == "done"  \* the approval is stored, nobody publishes

AfterUpdate(call) == IF kind[call] \in ApproveKinds THEN "pub_audit" ELSE "done"

BuggyPublishable(state) == state \notin {"absent", "rejected", "revision_requested"}

\* node 17 goes on for these review states and stops at every other.
Publishable(state) == state \in {"approved", "final"}

-----------------------------------------------------------------------------
(* A review call.                                                          *)

Goto(p, step) == pc' = [pc EXCEPT ![p] = step]

\* A process begins; it may find others in progress.
Enter == raced' = (raced \/ InProgress # {})

ReadAudit(call) ==
    /\ pc[call] = "idle"
    /\ Enter
    /\ Goto(call, IF Admissible(call) THEN FirstStep(call) ELSE "done")
    /\ UNCHANGED <<storeVars, kind, own, seen, pick>>

RecordAdminEvent(call) ==
    /\ pc[call] = "event"
    /\ Execute(InsertAdminEvent(call), UNCHANGED reviewTable,
               Goto(call, "decide"), Goto(call, "done"))
    /\ UNCHANGED <<jobRow, auditRow, objects, crashes, callVars, seen, pick>>

RecordDecision(call) ==
    /\ pc[call] = "decide"
    /\ Execute(InsertReviewDecision(call, ActionOf(call)), UNCHANGED reviewTable,
               Goto(call, "update"), Goto(call, "done"))
    /\ UNCHANGED <<jobRow, auditRow, objects, crashes, callVars, seen, pick>>

RecordState(call) ==
    /\ pc[call] = "update"
    /\ Execute(UpdateReviewState(StateAfter(call)), UNCHANGED auditRow,
               Goto(call, AfterUpdate(call)), Goto(call, "done"))
    /\ UNCHANGED <<jobRow, reviewTable, objects, crashes, callVars, seen, pick>>

-----------------------------------------------------------------------------
(* node_17_publish.run, by an approving call or by the pipeline.           *)

\* A statement that raises here leaves the report blocked_until_approval.
PublishReadAudit(p) ==
    /\ pc[p] = "pub_audit"
    /\ \/ seen' = [seen EXCEPT ![p] = review_state] /\ Goto(p, "pub_decisions")
       \/ DbFaults /\ Goto(p, "done") /\ UNCHANGED seen
    /\ UNCHANGED <<storeVars, callVars, pick>>

PublishReadDecisions(p) ==
    /\ pc[p] = "pub_decisions"
    /\ \/ pick' = [pick EXCEPT ![p] = LatestApproval(decisions)]
          /\ Goto(p, IF Publishable(seen[p]) THEN "pub_copy" ELSE "done")
       \/ DbFaults /\ Goto(p, "done") /\ UNCHANGED pick
    /\ UNCHANGED <<storeVars, callVars, seen>>

BuggyCopyAll(lost) ==  \* a publish that finds final/ populated copies nothing
    final' = IF final = {} THEN staging \ lost ELSE final

CopyAll(lost) == CopyToFinal(lost)

\* The log is put without an existence check, so a later publish replaces it.
WriteApprovalLog(p) == approval_log' = IF pick[p] = Nobody THEN approval_log ELSE pick[p]

PublishCopy(p) ==
    /\ pc[p] = "pub_copy"
    /\ \E lost \in MaybeLost :
          /\ CopyAll(lost)
          /\ \/ WriteApprovalLog(p) /\ missed' = missed \cup lost
             \/ /\ MinioFaults /\ UNCHANGED approval_log
                /\ missed' = missed \cup lost \cup {"approval_log"}
    /\ Goto(p, "pub_final")
    /\ UNCHANGED <<jobRow, auditRow, reviewTable, staging, crashes, callVars, seen, pick>>

\* The report is reported as published whatever happened to the copies and
\* to this statement.
PublishFinalize(p) ==
    /\ pc[p] = "pub_final"
    /\ Execute(UpdateReviewState("final"), UNCHANGED auditRow,
               Goto(p, "done"), Goto(p, "done"))
    /\ UNCHANGED <<jobRow, reviewTable, objects, crashes, callVars, seen, pick>>

Publish(p) ==
    \/ PublishReadAudit(p)
    \/ PublishReadDecisions(p)
    \/ PublishCopy(p)
    \/ PublishFinalize(p)

-----------------------------------------------------------------------------
(* The process dies: every call in progress is lost where it is suspended, *)
(* or inside the copy loop with some artifacts copied and no log written.  *)

LoseCalls == pc' = [p \in Processes |-> IF pc[p] = "idle" THEN "idle" ELSE "done"]

Die ==
    /\ crashes < Crashes
    /\ crashes' = crashes + 1

CrashBetweenStatements ==
    /\ InProgress # {}
    /\ Die
    /\ LoseCalls
    /\ UNCHANGED <<rowVars, callVars, seen, pick>>

CrashInCopy(p) ==
    /\ pc[p] = "pub_copy"
    /\ Die
    /\ \E copied \in SUBSET staging : final' = final \cup copied
    /\ LoseCalls
    /\ UNCHANGED <<jobRow, auditRow, reviewTable, staging, approval_log, missed,
                   callVars, seen, pick>>

-----------------------------------------------------------------------------
ReviewStep(call) ==
    \/ RecordAdminEvent(call)
    \/ RecordDecision(call)
    \/ RecordState(call)

\* The pipeline reaches its last node; once.
PipelinePublishes ==
    /\ pc[Pipeline] = "idle"
    /\ Enter
    /\ Goto(Pipeline, "pub_audit")
    /\ UNCHANGED <<storeVars, kind, own, seen, pick>>

ReviewInit ==
    /\ kind \in [Requests -> Kinds]
    /\ own \in [Requests -> BOOLEAN]
    /\ raced = FALSE
    /\ pc = [p \in Processes |-> "idle"]
    /\ seen = [p \in Processes |-> "absent"]
    /\ pick = [p \in Processes |-> Nobody]

\* Reviewed on its own, a report starts as node 15 leaves it: the audit row
\* inserted, and the artifacts whose upload did not fail under staging/.
Init ==
    /\ job_status = "running"
    /\ job_node = NodeCount
    /\ review_state = "staging"
    /\ quality_gate \in Gates
    /\ decisions = << >>
    /\ admin_events = {}
    /\ staging \in {Artifacts \ lost : lost \in MaybeLost \cup {Optional}}
    /\ final = {}
    /\ approval_log = Nobody
    /\ missed = {}
    /\ crashes = 0
    /\ ReviewInit

Next ==
    \/ \E call \in Requests : ReadAudit(call) \/ ReviewStep(call)
    \/ \E p \in Processes : Publish(p)
    \/ PipelinePublishes
    \/ CrashBetweenStatements
    \/ \E p \in Processes : CrashInCopy(p)

Spec == Init /\ [][Next]_vars

-----------------------------------------------------------------------------
(* Properties.                                                             *)

Recorded(call) == \E i \in DOMAIN decisions : decisions[i].by = call

Approved == \E call \in Requests : kind[call] \in ApproveKinds /\ Recorded(call)

\* node_17_publish: "Only runs when a valid approval record exists in
\* PostgreSQL".  Nothing is under final/, no approval log is written and no
\* row says approved or final unless an approving call has recorded its
\* decision - through crashes, raised statements and concurrent verdicts.
PublishedOnlyWithApproval ==
    (final # {} \/ approval_log # Nobody \/ review_state \in {"approved", "final"})
        => Approved

\* Admin overrides (N-1, A-10, R-13): a recorded override was audited by an
\* admin event first, was not made by the report's own requester, and never
\* concerns a report whose quality gate failed.
OverrideAudited ==
    \A call \in Requests :
        Recorded(call) /\ kind[call] \in OverrideKinds =>
            call \in admin_events /\ ~own[call] /\ quality_gate # "failed"

\* A row that says final means that all staged artifacts and the approval log
\* are under final/, but for those whose own object-store call failed: a
\* publish that died half way and was repeated, or two publishes at once,
\* leave no other gap.
FinalIsComplete ==
    review_state = "final" =>
        /\ staging \subseteq final \cup missed
        /\ approval_log # Nobody \/ "approval_log" \in missed

\* As long as no two processes have overlapped, the 409 checks are enough: a
\* finalized report keeps its state, and the objects and the approval log that
\* were put under final/, also when a raised statement or a crash left a
\* publish half done and another call took over.
FinalLocked ==
    [][review_state = "final" /\ ~raced' =>
          /\ review_state' = "final"
          /\ missed = {} => UNCHANGED <<final, approval_log>>]_vars

-----------------------------------------------------------------------------
(* What the repository says and the code does not do.                      *)

\* apps/edr/app.py:1436: "The automated quality gate still gates publish."
GateGatesPublish == quality_gate = "failed" => final = {}

\* docs/workflows/EDR-AGENTIC-RAG-v2.1.md:1623: "approval publishes to
\* `/final`; rejection never publishes to `/final`".
RejectionNeverPublishes == review_state = "rejected" => final = {}
=============================================================================
