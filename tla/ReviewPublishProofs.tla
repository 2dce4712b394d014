------------------------- MODULE ReviewPublishProofs -------------------------
(***************************************************************************)
(* Theorems about ReviewPublish, for every set of calls and artifacts and  *)
(* for every setting of faults and crashes.                                *)
(***************************************************************************)
EXTENDS ReviewPublish, WellFoundedInduction, TLAPS

USE StoreAssumption, ReviewAssumption

-----------------------------------------------------------------------------
(* Review decisions only accumulate.                                       *)

\* get_review_decisions: appending a decision keeps the recorded ones and
\* records its author.
LEMMA InsertKeepsRecorded ==
    ASSUME decisions \in Seq(Decision), NEW call \in Requests \cup Cancels,
           NEW act \in Actions, InsertReviewDecision(call, act)
    PROVE  /\ decisions' \in Seq(Decision)
           /\ Recorded(call)'
           /\ \A other \in Requests : Recorded(other) => Recorded(other)'
<1> DEFINE row == [by |-> call, action |-> act]
<1>1. row \in Decision
  BY DEF Decision
<1>2. decisions' = Append(decisions, row)
  BY DEF InsertReviewDecision
<1>3. decisions' \in Seq(Decision)
  BY <1>1, <1>2
<1>4. /\ Len(decisions) \in Nat
      /\ Len(decisions') = Len(decisions) + 1
      /\ DOMAIN decisions = 1..Len(decisions)
      /\ DOMAIN decisions' = 1..(Len(decisions) + 1)
      /\ \A i \in 1..Len(decisions) : decisions'[i] = decisions[i]
      /\ decisions'[Len(decisions) + 1] = row
  BY <1>1, <1>2
<1>5. Recorded(call)'
  BY <1>4 DEF Recorded
<1>6. ASSUME NEW other \in Requests, Recorded(other)
      PROVE  Recorded(other)'
  BY <1>4, <1>6 DEF Recorded
<1> QED BY <1>3, <1>5, <1>6

\* node_17_publish: the approver it names is an author of a decision, and it
\* names one as soon as there is an approval.
LEMMA LatestApprovalIsAuthor ==
    ASSUME decisions \in Seq(Decision)
    PROVE  /\ LatestApproval(decisions) \in Requests \cup Cancels \cup {Nobody}
           /\ ApprovalIndexes(decisions) # {} => LatestApproval(decisions) # Nobody
<1> DEFINE A == ApprovalIndexes(decisions)
           n == Len(decisions)
           T == {n - i : i \in A}
           last == CHOOSE i \in A : \A j \in A : j <= i
<1>1. n \in Nat /\ A \subseteq 1..n
  BY DEF ApprovalIndexes
<1>2. CASE A = {}
  BY <1>2 DEF LatestApproval
<1>3. CASE A # {}
  <2>1. T \subseteq Nat /\ T # {}
    BY <1>1, <1>3
  <2>2. PICK m \in T : \A k \in T : ~ (<<k, m>> \in OpToRel(<, Nat))
    <3>1. IsWellFoundedOn(OpToRel(<, Nat), Nat)
      BY NatLessThanWellFounded
    <3> HIDE DEF T
    <3> QED BY <2>1, <3>1, WFMin
  <2>3. \A k \in T : ~ (k < m)
    BY <2>1, <2>2 DEF OpToRel
  <2>4. \E i \in A : \A j \in A : j <= i
    <3>1. PICK i \in A : m = n - i
      OBVIOUS
    <3>2. ASSUME NEW j \in A PROVE j <= i
      <4>1. n - j \in T
        OBVIOUS
      <4>2. ~ (n - j < n - i)
        BY <2>3, <3>1, <4>1
      <4>3. n \in Nat /\ i \in Nat /\ j \in Nat
        BY <1>1
      <4> HIDE DEF n
      <4> QED BY <4>2, <4>3
    <3> QED BY <3>2
  <2>5. last \in A
    BY <2>4
  <2>6. decisions[last].by \in Requests \cup Cancels
    <3>1. last \in 1..n
      BY <1>1, <2>5
    <3> HIDE DEF last
    <3>2. decisions[last] \in Decision
      BY <3>1
    <3> QED BY <3>2 DEF Decision
  <2> QED BY <1>3, <2>6 DEF LatestApproval
<1> QED BY <1>2, <1>3

-----------------------------------------------------------------------------
(* Types.                                                                  *)

\* Every step of a call, of a publish or of a crash keeps the types.
LEMMA StepReviewType == ReviewTypeOK /\ [Next]_vars => ReviewTypeOK'
<1> SUFFICES ASSUME ReviewTypeOK, [Next]_vars PROVE ReviewTypeOK'
  OBVIOUS
<1> USE DEF ReviewTypeOK, StoreTypeOK, Execute, Goto, jobRow, auditRow, reviewTable,
            objects, finalPath, rowVars, storeVars, callVars
<1>1. ASSUME NEW call \in Requests, ReadAudit(call) PROVE ReviewTypeOK'
  BY <1>1 DEF ReadAudit, Enter, FirstStep, Steps, Processes
<1>2. ASSUME NEW call \in Requests, RecordAdminEvent(call) PROVE ReviewTypeOK'
  BY <1>2 DEF RecordAdminEvent, InsertAdminEvent, Steps, Processes
<1>3. ASSUME NEW call \in Requests, RecordDecision(call) PROVE ReviewTypeOK'
  <2>1. ActionOf(call) \in Actions
    BY DEF ActionOf, Actions, ApprovalActions
  <2>2. decisions' \in Seq(Decision) /\ UNCHANGED admin_events
    BY <1>3, <2>1, InsertKeepsRecorded DEF RecordDecision, InsertReviewDecision
  <2>3. pc' \in [Processes -> Steps]
    BY <1>3 DEF RecordDecision, Steps, Processes
  <2> QED BY <1>3, <2>2, <2>3 DEF RecordDecision
<1>4. ASSUME NEW call \in Requests, RecordState(call) PROVE ReviewTypeOK'
  <2>1. StateAfter(call) \in ReviewStates
    BY DEF StateAfter, Kinds, ApproveKinds, OverrideKinds, ReviewStates, DecidedStates
  <2>2. review_state' \in ReviewStates /\ UNCHANGED quality_gate
    BY <1>4, <2>1 DEF RecordState, UpdateReviewState, ReviewStates
  <2>3. pc' \in [Processes -> Steps]
    BY <1>4 DEF RecordState, AfterUpdate, Steps, PublishSteps, Processes
  <2> QED BY <1>4, <2>2, <2>3 DEF RecordState
<1>5. ASSUME NEW p \in Processes, PublishReadAudit(p) PROVE ReviewTypeOK'
  BY <1>5 DEF PublishReadAudit, Steps, PublishSteps
<1>6. ASSUME NEW p \in Processes, PublishReadDecisions(p) PROVE ReviewTypeOK'
  BY <1>6, LatestApprovalIsAuthor DEF PublishReadDecisions, Steps, PublishSteps
<1>7. ASSUME NEW p \in Processes, PublishCopy(p) PROVE ReviewTypeOK'
  BY <1>7 DEF PublishCopy, CopyAll, CopyToFinal, WriteApprovalLog, MaybeLost, Steps, PublishSteps
<1>8. ASSUME NEW p \in Processes, PublishFinalize(p) PROVE ReviewTypeOK'
  BY <1>8 DEF PublishFinalize, UpdateReviewState, ReviewStates, DecidedStates, Steps
<1>9. CASE PipelinePublishes
  BY <1>9 DEF PipelinePublishes, Enter, Steps, PublishSteps, Processes
<1>10. CASE CrashBetweenStatements
  BY <1>10 DEF CrashBetweenStatements, Die, LoseCalls, Steps
<1>11. ASSUME NEW p \in Processes, CrashInCopy(p) PROVE ReviewTypeOK'
  BY <1>11 DEF CrashInCopy, Die, LoseCalls, Steps
<1>12. CASE UNCHANGED vars
  BY <1>12 DEF vars, reviewVars
<1> QED BY <1>1, <1>2, <1>3, <1>4, <1>5, <1>6, <1>7, <1>8, <1>9, <1>10, <1>11, <1>12
        DEF Next, ReviewStep, Publish

\* What holds of the tables and objects of a report in review.
THEOREM ReviewTypeCorrect == Spec => []ReviewTypeOK
<1>1. Init => ReviewTypeOK
  <2> SUFFICES ASSUME Init PROVE ReviewTypeOK
    OBVIOUS
  <2> USE DEF Init, ReviewInit
  <2>1. StoreTypeOK
    BY DEF StoreTypeOK, JobStates, InFlight, Terminal, ReviewStates, DecidedStates,
           Gates, MaybeLost
  <2>2. ReviewTypeOK
    BY <2>1 DEF ReviewTypeOK, Steps, ReviewStates
  <2> QED BY <2>2
<1> QED BY <1>1, StepReviewType, PTL DEF Spec

-----------------------------------------------------------------------------
(* Publication only with an approval.                                      *)

\* The inductive form of PublishedOnlyWithApproval: the approval is already
\* there whenever some process may still act on it - a call about to store
\* its verdict has recorded its decision, and a publish that has read
\* approved or final keeps going on an approval that is never withdrawn.
ApprovedRow ==
    /\ review_state \in {"approved", "final"} => Approved
    /\ final # {} \/ approval_log # Nobody => Approved

DecidedCalls == \A call \in Requests : pc[call] = "update" => Recorded(call)

ApprovedPublishes ==
    \A p \in Processes :
        /\ pc[p] \in {"pub_decisions", "pub_copy"} /\ Publishable(seen[p]) => Approved
        /\ pc[p] = "pub_copy" => Publishable(seen[p])
        /\ pc[p] = "pub_final" => Approved

ApprovedParts == ApprovedRow /\ DecidedCalls /\ ApprovedPublishes

ApprovalInv == ReviewTypeOK /\ ApprovedParts

\* Decisions are never deleted, so an approval stays on record.
LEMMA ApprovalStays ==
    ASSUME ReviewTypeOK, [Next]_vars
    PROVE  /\ Approved => Approved'
           /\ \A call \in Requests : Recorded(call) => Recorded(call)'
<1> USE DEF Approved
<1>1. CASE UNCHANGED <<decisions, kind>>
  BY <1>1 DEF Recorded
<1>2. ASSUME NEW call \in Requests, InsertReviewDecision(call, ActionOf(call)), UNCHANGED kind
      PROVE  /\ Approved => Approved'
             /\ \A other \in Requests : Recorded(other) => Recorded(other)'
  <2>1. ActionOf(call) \in Actions
    BY DEF ActionOf, Actions, ApprovalActions
  <2>2. decisions \in Seq(Decision)
    BY DEF ReviewTypeOK, StoreTypeOK
  <2>3. \A other \in Requests : Recorded(other) => Recorded(other)'
    BY <1>2, <2>1, <2>2, InsertKeepsRecorded
  <2> QED BY <1>2, <2>3
<1>3. \/ UNCHANGED <<decisions, kind>>
      \/ \E call \in Requests : InsertReviewDecision(call, ActionOf(call)) /\ UNCHANGED kind
  <2> USE DEF Execute, jobRow, auditRow, reviewTable, objects, finalPath, rowVars, storeVars, callVars
  <2>1. ASSUME NEW call \in Requests, ReadAudit(call) \/ ReviewStep(call) PROVE <1>3
    BY <2>1 DEF ReadAudit, Enter, ReviewStep, RecordAdminEvent, InsertAdminEvent,
                RecordDecision, RecordState
  <2>2. ASSUME NEW p \in Processes, Publish(p) PROVE <1>3
    BY <2>2 DEF Publish, PublishReadAudit, PublishReadDecisions, PublishCopy, PublishFinalize
  <2>3. CASE PipelinePublishes \/ CrashBetweenStatements \/ (\E p \in Processes : CrashInCopy(p))
    BY <2>3 DEF PipelinePublishes, Enter, CrashBetweenStatements, CrashInCopy
  <2>4. CASE UNCHANGED vars
    BY <2>4 DEF vars, reviewVars
  <2> QED BY <2>1, <2>2, <2>3, <2>4 DEF Next
<1> QED BY <1>1, <1>2, <1>3

\* A report that node 15 has just left satisfies the inductive invariant.
LEMMA InitApproval == Init => ApprovalInv
<1> SUFFICES ASSUME Init PROVE ApprovalInv
  OBVIOUS
<1>1. ReviewTypeOK
  <2>1. StoreTypeOK
    BY DEF Init, StoreTypeOK, JobStates, InFlight, Terminal, ReviewStates,
           DecidedStates, Gates, MaybeLost
  <2> QED BY <2>1 DEF Init, ReviewInit, ReviewTypeOK, Steps, ReviewStates
<1> QED BY <1>1 DEF Init, ReviewInit, Processes, ApprovalInv, ApprovedParts, ApprovedRow,
                   DecidedCalls, ApprovedPublishes

\* Every step of a call, of a publish or of a crash keeps it.
LEMMA StepApproval == ApprovalInv /\ ReviewTypeOK' /\ [Next]_vars => ApprovalInv'
<1> SUFFICES ASSUME ApprovalInv, ReviewTypeOK', [Next]_vars PROVE ApprovalInv'
  OBVIOUS
<1>1. ReviewTypeOK
  BY DEF ApprovalInv
<1>2. /\ Approved => Approved'
      /\ \A call \in Requests : Recorded(call) => Recorded(call)'
  BY <1>1, ApprovalStays
<1>4. pc \in [Processes -> Steps] /\ seen \in [Processes -> ReviewStates]
  BY <1>1 DEF ReviewTypeOK
<1> USE <1>2, <1>4 DEF Goto, Execute, jobRow, auditRow, reviewTable, objects, finalPath, rowVars,
                            storeVars, callVars, ApprovalInv, ApprovedParts, ApprovedRow,
                            DecidedCalls, ApprovedPublishes
<1>5. ASSUME NEW call \in Requests, ReadAudit(call) PROVE ApprovedParts'
  BY <1>5 DEF ReadAudit, Enter, FirstStep, Processes, Recorded, Approved, Publishable
<1>6. ASSUME NEW call \in Requests, RecordAdminEvent(call)
      PROVE  ApprovedParts'
  BY <1>6 DEF RecordAdminEvent, InsertAdminEvent, Processes, Publishable
<1>7. ASSUME NEW call \in Requests, RecordDecision(call)
      PROVE  ApprovedParts'
  <2>1. ActionOf(call) \in Actions
    BY DEF ActionOf, Actions, ApprovalActions
  <2>2. pc'[call] = "update" => Recorded(call)'
    BY <1>1, <1>7, <2>1, InsertKeepsRecorded
       DEF RecordDecision, ReviewTypeOK, StoreTypeOK, Processes
  <2> QED BY <1>7, <2>2 DEF RecordDecision, Processes, Publishable
<1>8. ASSUME NEW call \in Requests, RecordState(call)
      PROVE  ApprovedParts'
  <2>1. Recorded(call) /\ UNCHANGED <<decisions, kind>>
    BY <1>8 DEF RecordState
  <2>2. review_state' \in {"approved", "final"} => Approved
    <3>1. CASE kind[call] \in ApproveKinds
      BY <2>1, <3>1 DEF Approved
    <3>2. CASE kind[call] \notin ApproveKinds
      <4>1. StateAfter(call) \in {"rejected", "revision_requested"}
        BY <1>1, <3>2 DEF StateAfter, ReviewTypeOK, Kinds, ApproveKinds, OverrideKinds
      <4> QED BY <1>8, <4>1 DEF RecordState, UpdateReviewState
    <3> QED BY <3>1, <3>2
  <2> QED BY <1>8, <2>2 DEF RecordState, AfterUpdate, Processes, Publishable
<1>9. ASSUME NEW p \in Processes, PublishReadAudit(p)
      PROVE  ApprovedParts'
  BY <1>9 DEF PublishReadAudit, Processes, Publishable
<1>10. ASSUME NEW p \in Processes, PublishReadDecisions(p)
       PROVE  ApprovedParts'
  BY <1>10 DEF PublishReadDecisions, Processes, Publishable
<1>11. ASSUME NEW p \in Processes, PublishCopy(p)
       PROVE  ApprovedParts'
  BY <1>11 DEF PublishCopy, Processes, Publishable
<1>12. ASSUME NEW p \in Processes, PublishFinalize(p)
       PROVE  ApprovedParts'
  BY <1>12 DEF PublishFinalize, UpdateReviewState, Processes, Publishable
<1>13. CASE PipelinePublishes
  BY <1>13 DEF PipelinePublishes, Enter, Processes, Publishable
<1>14. CASE CrashBetweenStatements
  BY <1>14 DEF CrashBetweenStatements, LoseCalls, Processes, Publishable
<1>15. ASSUME NEW p \in Processes, CrashInCopy(p)
       PROVE  ApprovedParts'
  BY <1>15 DEF CrashInCopy, LoseCalls, Processes, Publishable
<1>16. CASE UNCHANGED vars
  BY <1>16 DEF vars, reviewVars, Publishable
<1> QED BY <1>5, <1>6, <1>7, <1>8, <1>9, <1>10, <1>11, <1>12, <1>13, <1>14, <1>15, <1>16
        DEF Next, ReviewStep, Publish

\* node_17_publish, app.py's approve and override-approve: for every number
\* of concurrent calls, with any statement or object-store call failing and
\* any number of crashes, nothing is published without a recorded approval.
THEOREM PublicationNeedsApproval == Spec => []PublishedOnlyWithApproval
<1>1. ApprovalInv => PublishedOnlyWithApproval
  BY DEF ApprovalInv, ApprovedParts, ApprovedRow, PublishedOnlyWithApproval
<1> QED BY <1>1, InitApproval, StepApproval, ReviewTypeCorrect, PTL DEF Spec

-----------------------------------------------------------------------------
(* A final report is complete.                                             *)

PublishedAll ==
    /\ staging \subseteq final \cup missed
    /\ approval_log # Nobody \/ "approval_log" \in missed

\* The inductive form of FinalIsComplete: a publish that enters the copy loop
\* knows an approver, because approved was read before the decisions were
\* and what a reviewer records is an approval; and once it has left the loop,
\* everything is in place or was missed.
CompleteInv ==
    /\ \A i \in DOMAIN decisions :
          decisions[i].by \in Requests => decisions[i].action \in ApprovalActions
    /\ \A p \in Processes :
          /\ pc[p] = "pub_copy" => pick[p] # Nobody
          /\ pc[p] = "pub_final" => PublishedAll
    /\ review_state = "final" => PublishedAll

\* Every step of a call, of a publish or of a crash keeps it.
LEMMA StepComplete ==
    ApprovalInv /\ CompleteInv /\ ReviewTypeOK' /\ [Next]_vars => CompleteInv'
<1> SUFFICES ASSUME ApprovalInv, CompleteInv, ReviewTypeOK', [Next]_vars
             PROVE  CompleteInv'
  OBVIOUS
<1>1. ReviewTypeOK
  BY DEF ApprovalInv
<1>2. /\ pc \in [Processes -> Steps]
      /\ pick \in [Processes -> Requests \cup Cancels \cup {Nobody}]
      /\ decisions \in Seq(Decision)
  BY <1>1 DEF ReviewTypeOK, StoreTypeOK
<1> USE <1>2 DEF CompleteInv, PublishedAll, Goto, Execute, jobRow, auditRow, reviewTable,
                 objects, finalPath, rowVars, storeVars, callVars
<1>3. ASSUME NEW call \in Requests, ReadAudit(call) PROVE CompleteInv'
  BY <1>3 DEF ReadAudit, Enter, FirstStep, Processes
<1>4. ASSUME NEW call \in Requests, RecordAdminEvent(call) PROVE CompleteInv'
  BY <1>4 DEF RecordAdminEvent, InsertAdminEvent, Processes
<1>5. ASSUME NEW call \in Requests, RecordDecision(call) PROVE CompleteInv'
  <2>1. ActionOf(call) \in ApprovalActions
    BY DEF ActionOf, ApprovalActions
  <2>2. \A i \in DOMAIN decisions' :
             decisions'[i].by \in Requests => decisions'[i].action \in ApprovalActions
    <3> DEFINE row == [by |-> call, action |-> ActionOf(call)]
    <3>1. row \in Decision /\ row.action = ActionOf(call)
      BY <2>1 DEF Decision, Actions
    <3>2. decisions' \in {decisions, Append(decisions, row)}
      BY <1>5 DEF RecordDecision, InsertReviewDecision
    <3> HIDE DEF row
    <3> QED BY <2>1, <3>1, <3>2
  <2> QED BY <1>5, <2>2 DEF RecordDecision, Processes
<1>6. ASSUME NEW call \in Requests, RecordState(call) PROVE CompleteInv'
  <2>1. StateAfter(call) # "final"
    BY <1>1 DEF StateAfter, ReviewTypeOK, Kinds, ApproveKinds, OverrideKinds
  <2> QED BY <1>6, <2>1 DEF RecordState, UpdateReviewState, AfterUpdate, Processes
<1>7. ASSUME NEW p \in Processes, PublishReadAudit(p) PROVE CompleteInv'
  BY <1>7 DEF PublishReadAudit
<1>8. ASSUME NEW p \in Processes, PublishReadDecisions(p) PROVE CompleteInv'
  <2>1. pc'[p] = "pub_copy" => pick'[p] # Nobody
    <3> SUFFICES ASSUME pc'[p] = "pub_copy" PROVE pick'[p] # Nobody
      OBVIOUS
    <3>1. pick'[p] = LatestApproval(decisions) /\ Publishable(seen[p])
      BY <1>8 DEF PublishReadDecisions
    <3>2. Approved
      BY <1>8, <3>1 DEF PublishReadDecisions, ApprovalInv, ApprovedParts, ApprovedPublishes
    <3>3. ApprovalIndexes(decisions) # {}
      BY <3>2 DEF Approved, Recorded, ApprovalIndexes
    <3> QED BY <3>1, <3>3, LatestApprovalIsAuthor
  <2> QED BY <1>8, <2>1 DEF PublishReadDecisions
<1>9. ASSUME NEW p \in Processes, PublishCopy(p) PROVE CompleteInv'
  <2>1. PICK lost \in MaybeLost :
           /\ CopyAll(lost)
           /\ \/ WriteApprovalLog(p) /\ missed' = missed \cup lost
              \/ /\ MinioFaults /\ UNCHANGED approval_log
                 /\ missed' = missed \cup lost \cup {"approval_log"}
    BY <1>9 DEF PublishCopy
  <2>2. staging' \subseteq final' \cup missed'
    BY <1>9, <2>1 DEF PublishCopy, CopyAll, CopyToFinal
  <2>3. approval_log' # Nobody \/ "approval_log" \in missed'
    BY <1>9, <2>1 DEF PublishCopy, WriteApprovalLog
  <2>4. PublishedAll'
    BY <2>2, <2>3
  <2> QED BY <1>9, <2>4 DEF PublishCopy
<1>10. ASSUME NEW p \in Processes, PublishFinalize(p) PROVE CompleteInv'
  BY <1>10 DEF PublishFinalize, UpdateReviewState
<1>11. CASE PipelinePublishes
  BY <1>11 DEF PipelinePublishes, Enter, Processes
<1>12. CASE CrashBetweenStatements
  BY <1>12 DEF CrashBetweenStatements, LoseCalls
<1>13. ASSUME NEW p \in Processes, CrashInCopy(p) PROVE CompleteInv'
  BY <1>13 DEF CrashInCopy, LoseCalls
<1>14. CASE UNCHANGED vars
  BY <1>14 DEF vars, reviewVars
<1> QED BY <1>3, <1>4, <1>5, <1>6, <1>7, <1>8, <1>9, <1>10, <1>11, <1>12, <1>13, <1>14
        DEF Next, ReviewStep, Publish

\* It holds in every state, with the inductive form of the approval rule.
LEMMA CompleteAlways == Spec => [](ReviewTypeOK /\ ApprovalInv /\ CompleteInv)
<1>1. Init => ApprovalInv
  BY InitApproval
<1>2. Init => CompleteInv
  BY DEF Init, ReviewInit, CompleteInv, Processes
<1> QED BY <1>1, <1>2, StepComplete, StepApproval, ReviewTypeCorrect, PTL DEF Spec

\* node_17_publish: review_state says final only with every staged artifact
\* and the approval log under final/, but for those whose own object-store
\* call failed - whatever statements fail, however publishes overlap, and
\* wherever the server dies.
THEOREM FinalReportsAreComplete == Spec => []FinalIsComplete
<1>1. CompleteInv => FinalIsComplete
  BY DEF CompleteInv, PublishedAll, FinalIsComplete
<1> QED BY <1>1, CompleteAlways, PTL

-----------------------------------------------------------------------------
(* Overrides are audited.                                                  *)

\* insert_review_decision records nobody but its caller.
LEMMA InsertRecordsOnlyCaller ==
    ASSUME decisions \in Seq(Decision), NEW call \in Requests, NEW act \in Actions,
           InsertReviewDecision(call, act)
    PROVE  \A other \in Requests : Recorded(other)' => Recorded(other) \/ other = call
<1> DEFINE row == [by |-> call, action |-> act]
<1>1. row \in Decision /\ row.by = call
  BY DEF Decision
<1>2. decisions' = Append(decisions, row)
  BY DEF InsertReviewDecision
<1>3. /\ Len(decisions) \in Nat
      /\ DOMAIN decisions = 1..Len(decisions)
      /\ DOMAIN decisions' = 1..(Len(decisions) + 1)
      /\ \A i \in 1..Len(decisions) : decisions'[i] = decisions[i]
      /\ decisions'[Len(decisions) + 1] = row
  BY <1>1, <1>2
<1> HIDE DEF row
<1> QED BY <1>1, <1>3 DEF Recorded

\* The inductive form of OverrideAudited: an override call that is past its
\* guards is not the requester's and not about a failed gate, and one that is
\* past its admin event is audited.
OverrideInv ==
    \A call \in Requests : kind[call] \in OverrideKinds =>
        /\ pc[call] \in {"event", "decide", "update"} \/ Recorded(call)
              => ~own[call] /\ quality_gate # "failed"
        /\ pc[call] \in {"decide", "update"} \/ Recorded(call) => call \in admin_events

\* admin_override_approve, admin_override_reject: for every number of calls
\* and whatever statement raises, a recorded override was audited first, by
\* somebody else than the requester and on a report whose gate did not fail.
THEOREM OverridesAreAudited == Spec => []OverrideAudited
<1>1. Init => OverrideInv
  BY DEF Init, ReviewInit, OverrideInv, Recorded, Processes
<1>2. ReviewTypeOK /\ OverrideInv /\ [Next]_vars => OverrideInv'
  <2> SUFFICES ASSUME ReviewTypeOK, OverrideInv, [Next]_vars
               PROVE  OverrideInv'
    OBVIOUS
  <2>1. /\ pc \in [Processes -> Steps]
        /\ kind \in [Requests -> Kinds]
        /\ decisions \in Seq(Decision)
    BY DEF ReviewTypeOK, StoreTypeOK
  <2> USE <2>1 DEF OverrideInv, Goto, Execute, jobRow, auditRow, reviewTable, objects,
                   finalPath, rowVars, storeVars, callVars
  <2>2. ASSUME NEW call \in Requests, ReadAudit(call) PROVE OverrideInv'
    <3>1. kind[call] \in OverrideKinds /\ Admissible(call)
             => ~own[call] /\ quality_gate # "failed"
      BY DEF Admissible, DerivedState, DecidedStates, OverrideKinds
    <3>2. kind[call] \in OverrideKinds => FirstStep(call) = "event"
      BY DEF FirstStep
    <3> QED BY <2>2, <3>1, <3>2 DEF ReadAudit, Processes, Recorded
  <2>3. ASSUME NEW call \in Requests, RecordAdminEvent(call) PROVE OverrideInv'
    BY <2>3 DEF RecordAdminEvent, InsertAdminEvent, Processes, Recorded
  <2>4. ASSUME NEW call \in Requests, RecordDecision(call) PROVE OverrideInv'
    <3>1. ActionOf(call) \in Actions
      BY DEF ActionOf, Actions, ApprovalActions
    <3>2. \A other \in Requests : Recorded(other)' => Recorded(other) \/ other = call
      BY <2>4, <3>1, InsertRecordsOnlyCaller DEF RecordDecision, Recorded
    <3>3. UNCHANGED <<admin_events, kind, own, quality_gate>>
      BY <2>4 DEF RecordDecision, InsertReviewDecision
    <3> QED BY <2>4, <3>2, <3>3 DEF RecordDecision, Processes
  <2>5. ASSUME NEW call \in Requests, RecordState(call) PROVE OverrideInv'
    BY <2>5 DEF RecordState, UpdateReviewState, AfterUpdate, Processes, Recorded
  <2>6. ASSUME NEW p \in Processes, Publish(p) PROVE OverrideInv'
    BY <2>6 DEF Publish, PublishReadAudit, PublishReadDecisions, PublishCopy,
                PublishFinalize, UpdateReviewState, Processes, Recorded
  <2>7. CASE PipelinePublishes
    BY <2>7 DEF PipelinePublishes, Processes, Recorded
  <2>8. CASE CrashBetweenStatements \/ (\E p \in Processes : CrashInCopy(p))
    BY <2>8 DEF CrashBetweenStatements, CrashInCopy, LoseCalls, Processes, Recorded
  <2>9. CASE UNCHANGED vars
    BY <2>9 DEF vars, reviewVars, Recorded
  <2> QED BY <2>2, <2>3, <2>4, <2>5, <2>6, <2>7, <2>8, <2>9 DEF Next, ReviewStep
<1>3. OverrideInv => OverrideAudited
  BY DEF OverrideInv, OverrideAudited
<1> QED BY <1>1, <1>2, <1>3, ReviewTypeCorrect, PTL DEF Spec

-----------------------------------------------------------------------------
(* A finalized report is locked while nobody overlaps.                     *)

Busy(p) == pc[p] \notin {"idle", "done"}

LogIsLatest == missed = {} => approval_log = LatestApproval(decisions)

\* The inductive form of FinalLocked: without an overlap, a publish writes
\* the approval that is still the latest, and no call that passed its guards
\* is left when the row says final.
AloneInv ==
    ~raced =>
        /\ \A p, q \in Processes : Busy(p) /\ Busy(q) => p = q
        /\ \A p \in Processes : pc[p] = "pub_copy" => pick[p] = LatestApproval(decisions)
        /\ \A p \in Processes : pc[p] = "pub_final" => LogIsLatest
        /\ review_state = "final" =>
              /\ \A call \in Requests : pc[call] \notin {"event", "decide", "update"}
              /\ LogIsLatest

\* The 409 checks: a call on a finalized report ends at its guards.
LEMMA FinalIsRefused ==
    ASSUME NEW call \in Requests, kind[call] \in Kinds, review_state = "final"
    PROVE  ~Admissible(call)
BY DEF Admissible, Kinds, OverrideKinds, DerivedState, DecidedStates

\* Once two processes have overlapped, they have overlapped.
LEMMA RacedStays == [Next]_vars => (raced => raced')
<1> SUFFICES ASSUME [Next]_vars, raced PROVE raced'
  OBVIOUS
<1> USE DEF callVars
<1>1. ASSUME NEW call \in Requests, ReadAudit(call) \/ ReviewStep(call) PROVE raced'
  BY <1>1 DEF ReadAudit, Enter, ReviewStep, RecordAdminEvent, RecordDecision, RecordState
<1>2. ASSUME NEW p \in Processes, Publish(p) PROVE raced'
  BY <1>2 DEF Publish, PublishReadAudit, PublishReadDecisions, PublishCopy, PublishFinalize
<1>3. CASE PipelinePublishes
  BY <1>3 DEF PipelinePublishes, Enter
<1>4. CASE CrashBetweenStatements \/ (\E p \in Processes : CrashInCopy(p))
  BY <1>4 DEF CrashBetweenStatements, CrashInCopy
<1>5. CASE UNCHANGED vars
  BY <1>5 DEF vars, reviewVars
<1> QED BY <1>1, <1>2, <1>3, <1>4, <1>5 DEF Next

\* Every step keeps the inductive form.
LEMMA StepAlone ==
    ReviewTypeOK /\ CompleteInv /\ AloneInv /\ [Next]_vars => AloneInv'
<1> SUFFICES ASSUME ReviewTypeOK, CompleteInv, AloneInv, [Next]_vars, ~raced'
             PROVE  AloneInv'
  BY DEF AloneInv
<1>1. ~raced
  BY RacedStays
<1>2. /\ pc \in [Processes -> Steps]
      /\ pick \in [Processes -> Requests \cup Cancels \cup {Nobody}]
      /\ kind \in [Requests -> Kinds]
  BY DEF ReviewTypeOK
<1> USE <1>1, <1>2 DEF AloneInv, LogIsLatest, Busy, Goto, Execute, jobRow, auditRow,
                       reviewTable, objects, finalPath, rowVars, storeVars, callVars
<1>3. ASSUME NEW call \in Requests, ReadAudit(call) PROVE AloneInv'
  <2>1. InProgress = {}
    BY <1>3 DEF ReadAudit, Enter
  <2>2. /\ \A p \in Processes : ~Busy(p)
        /\ \A p \in Processes : p # call => pc'[p] = pc[p]
    BY <1>3, <2>1 DEF InProgress, ReadAudit, Processes
  <2>3. review_state = "final" => ~Admissible(call)
    BY FinalIsRefused
  <2>4. pc'[call] \in {"event", "decide", "done"}
    BY <1>3 DEF ReadAudit, FirstStep, Processes
  <2>5. review_state = "final" => pc'[call] = "done"
    BY <1>3, <2>3 DEF ReadAudit, Processes
  <2>6. UNCHANGED <<review_state, missed, approval_log, decisions, pick>>
    BY <1>3 DEF ReadAudit
  <2> QED BY <2>2, <2>4, <2>5, <2>6 DEF Processes
<1>4. ASSUME NEW call \in Requests, RecordAdminEvent(call) PROVE AloneInv'
  BY <1>4 DEF RecordAdminEvent, InsertAdminEvent, Processes
<1>5. ASSUME NEW call \in Requests, RecordDecision(call) PROVE AloneInv'
  <2>1. \A p \in Processes : p # call => ~Busy(p)
    BY <1>5 DEF RecordDecision, Processes
  <2>2. review_state' # "final"
    BY <1>5 DEF RecordDecision
  <2>3. pc'[call] \in {"update", "done"} /\ \A p \in Processes : p # call => pc'[p] = pc[p]
    BY <1>5 DEF RecordDecision, Processes
  <2> QED BY <2>1, <2>2, <2>3 DEF Processes
<1>6. ASSUME NEW call \in Requests, RecordState(call) PROVE AloneInv'
  <2>1. StateAfter(call) # "final"
    BY DEF StateAfter, Kinds, ApproveKinds, OverrideKinds
  <2>2. review_state' # "final"
    BY <1>6, <2>1 DEF RecordState, UpdateReviewState
  <2> QED BY <1>6, <2>2 DEF RecordState, AfterUpdate, Processes
<1>7. ASSUME NEW p \in Processes, PublishReadAudit(p) PROVE AloneInv'
  <2>1. UNCHANGED <<review_state, missed, approval_log, decisions, pick>>
    BY <1>7 DEF PublishReadAudit
  <2>2. /\ pc'[p] \in {"pub_decisions", "done"}
        /\ \A q \in Processes : q # p => pc'[q] = pc[q] /\ ~Busy(q)
    BY <1>7 DEF PublishReadAudit
  <2> QED BY <2>1, <2>2 DEF Processes
<1>8. ASSUME NEW p \in Processes, PublishReadDecisions(p) PROVE AloneInv'
  <2>1. UNCHANGED <<review_state, missed, approval_log, decisions>>
    BY <1>8 DEF PublishReadDecisions
  <2>2. /\ pc'[p] \in {"pub_copy", "done"}
        /\ pc'[p] = "pub_copy" => pick'[p] = LatestApproval(decisions)
        /\ \A q \in Processes : q # p => pc'[q] = pc[q] /\ ~Busy(q)
    BY <1>8 DEF PublishReadDecisions, Publishable
  <2> QED BY <2>1, <2>2 DEF Processes
<1>9. ASSUME NEW p \in Processes, PublishCopy(p) PROVE AloneInv'
  <2>1. pick[p] = LatestApproval(decisions) /\ pick[p] # Nobody
    BY <1>9 DEF PublishCopy, CompleteInv
  <2>2. missed' = {} => approval_log' = pick[p]
    BY <1>9, <2>1 DEF PublishCopy, WriteApprovalLog
  <2>3. UNCHANGED <<decisions, review_state>> /\ pc' = [pc EXCEPT ![p] = "pub_final"]
    BY <1>9 DEF PublishCopy
  <2>4. LogIsLatest'
    <3>1. LatestApproval(decisions)' = LatestApproval(decisions)
      BY <2>3 DEF LatestApproval, ApprovalIndexes
    <3> QED BY <2>1, <2>2, <3>1
  <2>5. \A q \in Processes : q # p => ~Busy(q)
    BY <1>9 DEF PublishCopy
  <2> QED BY <2>3, <2>4, <2>5
<1>10. ASSUME NEW p \in Processes, PublishFinalize(p) PROVE AloneInv'
  <2>1. \A q \in Processes : q # p => ~Busy(q)
    BY <1>10 DEF PublishFinalize
  <2>2. LogIsLatest /\ UNCHANGED <<missed, approval_log, decisions, pick>>
    BY <1>10 DEF PublishFinalize
  <2>3. pc' = [pc EXCEPT ![p] = "done"]
    BY <1>10 DEF PublishFinalize
  <2> QED BY <2>1, <2>2, <2>3 DEF Processes
<1>11. CASE PipelinePublishes
  <2>1. \A p \in Processes : ~Busy(p)
    BY <1>11 DEF PipelinePublishes, Enter, InProgress
  <2> QED BY <1>11, <2>1 DEF PipelinePublishes, Processes
<1>12. CASE CrashBetweenStatements
  BY <1>12 DEF CrashBetweenStatements, LoseCalls, Processes
<1>13. ASSUME NEW p \in Processes, CrashInCopy(p) PROVE AloneInv'
  BY <1>13 DEF CrashInCopy, LoseCalls, Processes
<1>14. CASE UNCHANGED vars
  BY <1>14 DEF vars, reviewVars
<1> QED BY <1>3, <1>4, <1>5, <1>6, <1>7, <1>8, <1>9, <1>10, <1>11, <1>12, <1>13, <1>14
        DEF Next, ReviewStep, Publish

\* What FinalLocked says of one step.
LockedStep ==
    review_state = "final" /\ ~raced' =>
        /\ review_state' = "final"
        /\ missed = {} => UNCHANGED <<final, approval_log>>

\* The inductive form makes every step a locked one: whoever may still write
\* review_state has not read final, and a publish that runs again copies what
\* is there and names the approval that is named.
LEMMA StepLocked ==
    ReviewTypeOK /\ CompleteInv /\ AloneInv /\ [Next]_vars => LockedStep
<1> SUFFICES ASSUME ReviewTypeOK, CompleteInv, AloneInv, [Next]_vars,
                    review_state = "final", ~raced'
             PROVE  /\ review_state' = "final"
                    /\ missed = {} => UNCHANGED <<final, approval_log>>
  BY DEF LockedStep
<1>1. ~raced
  BY RacedStays
<1>2. /\ \A call \in Requests : pc[call] \notin {"event", "decide", "update"}
      /\ missed = {} => approval_log = LatestApproval(decisions)
      /\ missed = {} => staging \subseteq final
  BY <1>1 DEF AloneInv, LogIsLatest, CompleteInv, PublishedAll
<1> USE <1>2 DEF Execute, jobRow, auditRow, reviewTable, objects, finalPath, rowVars,
                       storeVars, callVars
<1>3. ASSUME NEW call \in Requests, ReadAudit(call) \/ ReviewStep(call)
      PROVE  UNCHANGED <<review_state, final, approval_log>>
  BY <1>3 DEF ReadAudit, ReviewStep, RecordAdminEvent, RecordDecision, RecordState
<1>4. ASSUME NEW p \in Processes, PublishCopy(p)
      PROVE  /\ UNCHANGED review_state
             /\ missed = {} => UNCHANGED <<final, approval_log>>
  <2>1. pick[p] = LatestApproval(decisions) /\ pick[p] # Nobody
    BY <1>1, <1>4 DEF PublishCopy, AloneInv, CompleteInv
  <2> QED BY <1>4, <2>1 DEF PublishCopy, CopyAll, CopyToFinal, WriteApprovalLog
<1>5. ASSUME NEW p \in Processes,
             PublishReadAudit(p) \/ PublishReadDecisions(p) \/ PublishFinalize(p)
      PROVE  review_state' = "final" /\ UNCHANGED <<final, approval_log>>
  BY <1>5 DEF PublishReadAudit, PublishReadDecisions, PublishFinalize, UpdateReviewState
<1>6. CASE PipelinePublishes \/ CrashBetweenStatements
  BY <1>6 DEF PipelinePublishes, CrashBetweenStatements
<1>7. ASSUME NEW p \in Processes, CrashInCopy(p)
      PROVE  /\ UNCHANGED review_state
             /\ missed = {} => UNCHANGED <<final, approval_log>>
  BY <1>7 DEF CrashInCopy
<1>8. CASE UNCHANGED vars
  BY <1>8 DEF vars
<1> QED BY <1>3, <1>4, <1>5, <1>6, <1>7, <1>8 DEF Next, Publish

\* approve_report, reject_report, request_revision, the overrides and
\* node_17_publish: as long as no two processes overlap, no number of calls,
\* crashes and raising statements changes a finalized report's state, objects
\* or approval log.
THEOREM FinalizedIsLocked == Spec => FinalLocked
<1>1. Init => AloneInv
  BY DEF Init, ReviewInit, AloneInv, Busy
<1>2. ReviewTypeOK /\ CompleteInv /\ AloneInv /\ [Next]_vars => [LockedStep]_vars
  BY StepLocked
<1>3. Spec => [](ReviewTypeOK /\ CompleteInv)
  BY CompleteAlways, PTL
<1>4. Spec => []AloneInv
  BY <1>1, <1>3, StepAlone, PTL DEF Spec
<1>5. Spec => [][LockedStep]_vars
  BY <1>2, <1>3, <1>4, PTL DEF Spec
<1> QED BY <1>5 DEF FinalLocked, LockedStep
=============================================================================
