------------------------ MODULE ExecutionQueueProofs ------------------------
(***************************************************************************)
(* What the runs check of ExecutionQueue on small instances, proved for    *)
(* every set of operations and processes, every mix of modes and every     *)
(* bound.  First the types, then the inductive invariant, then the         *)
(* properties and the refinement that follow from it.                      *)
(***************************************************************************)
EXTENDS ExecutionQueueInvariant, TLAPS

\* What derive_request_status returns is a request status.
LEMMA DerivedStatusIsStatus ==
  \A statuses : DeriveRequestStatus(statuses) \in RequestStatus
  BY DEF DeriveRequestStatus, RequestStatus

\* _finalize stores statuses of the enums and asks about operations.
LEMMA FinalizeTypes ==
  ASSUME TypeOK, NEW reply \in Nat, FinalizeRequest(reply)
  PROVE  OperationTypes' /\ RowTypes' /\ RequestTypes'
  <1> USE DEF TypeOK, FinalizeRequest
  <1>1. status' \in [Ops -> OperationStatus \cup {"ABSENT"}]
    BY DEF StatusAfterLimit, OperationTypes, OperationStatus
  <1>2. decision' \in [Ops -> Decisions]
    BY DEF OperationTypes, Decisions
  <1>3. OperationTypes'
    BY <1>1, <1>2 DEF OperationTypes
  <1>4. RowTypes'
    BY DEF RowTypes, rowVars, apiVars, auditVars
  <1>5. request' \in RequestStatus
    BY DerivedStatusIsStatus DEF RequestAfter
  <1>6. asked' \subseteq Ops /\ round' \in Nat
    BY DEF ClarificationAfter, Waiting, RequestTypes
  <1>7. customerMail' \subseteq {"acknowledgement", "summary"}
    BY DEF RequestTypes
  <1> QED
    BY <1>3, <1>4, <1>5, <1>6, <1>7 DEF RequestTypes, bounds

\* Closing a row stores an outcome of the dispatch.
LEMMA ClosedRowTypes ==
  ASSUME NEW p \in Processes, TypeOK, key[p] \in Keys,
         NEW row \in {"dispatched", "cancelled", "failed"},
         NEW found \in ExecutionStatus \cup {"none"}, CloseRow(p, row, found)
  PROVE  /\ schedule' \in [Keys -> ScheduledExecutionStatus \cup {"none"}]
         /\ outcomes' \in [Processes -> SUBSET Outcomes]
         /\ key' \in [Processes -> Keys \cup {NoKey}]
         /\ result' \in [Processes -> ExecutionStatus \cup Answers
                                      \cup {"none", "refused", "error"}]
         /\ pc' \in [Processes -> Labels]
  BY DEF CloseRow, Goto, TypeOK, RowTypes, ProcessTypes, Outcomes, Labels,
         ScheduledExecutionStatus

\* The empty tables and idle processes have the right types.
LEMMA TypeInit == Init => TypeOK
  BY QueueAssumption DEF Init, TypeOK, OperationTypes, RowTypes, RequestTypes,
     ProcessTypes, MailTypes, Revisions, Keys, OperationStatus, Decisions,
     ExecutionStatus, ScheduledExecutionStatus, RequestStatus, Labels, Outcomes

\* A step keeps the types, given that a process at a label of the execution
\* holds a key.
LEMMA TypeStep ==
  ASSUME TypeOK, HoldsKey, [Next]_vars
  PROVE  TypeOK'
  <1> USE QueueAssumption DEF At, Goto, tables, opVars, rowVars, requestVars, apiVars,
        auditVars, mailVars, queueVars, callVars, procVars, bounds, TypeOK,
        OperationTypes, RowTypes, RequestTypes, ProcessTypes, MailTypes, Labels
  <1>1. ASSUME NEW p \in Processes, ReceiveMail(p) PROVE TypeOK'
    <2>1. CASE BeginNewRequest(p)
      BY <2>1 DEF BeginNewRequest
    <2>2. CASE BeginFollowUp(p)
      <3>1. /\ kind' \in {[kind EXCEPT ![p] = "clarification"],
                         [kind EXCEPT ![p] = "follow_up"]}
            /\ replying' \in {replying, [replying EXCEPT ![p] = round]}
            /\ todo' \in {todo, [todo EXCEPT ![p] = asked]}
        BY <2>2 DEF BeginFollowUp
      <3>2. todo' \in [Processes -> SUBSET Ops]
        BY <3>1
      <3>3. replying' \in [Processes -> Nat]
        BY <3>1
      <3>4. kind' \in [Processes -> {"none", "new", "follow_up", "clarification",
                                     "correction"}]
        BY <3>1
      <3> QED
        BY <2>2, <3>2, <3>3, <3>4 DEF BeginFollowUp
    <2> QED
      BY <1>1, <2>1, <2>2 DEF ReceiveMail
  <1>2. ASSUME NEW p \in Processes, HandleMail(p) PROVE TypeOK'
    <2>1. CASE CancelOnExplicitText(p)
      BY <2>1 DEF CancelOnExplicitText, CancelScheduledForRequest,
         ScheduledExecutionStatus
    <2>2. CASE NoExplicitText(p)
      BY <2>2 DEF NoExplicitText
    <2>3. CASE Analyze(p)
      BY <2>3 DEF Analyze, CancelScheduledForRequest, ScheduledExecutionStatus
    <2>4. CASE AnalyzerFails(p)
      BY <2>4 DEF AnalyzerFails, MailFails, Reset
    <2>5. CASE CreateOperations(p)
      BY <2>5 DEF CreateOperations, OperationStatus, RequestStatus
    <2>6. CASE ApplyProposals(p)
      BY <2>6 DEF ApplyProposals, Correctable, Revisions
    <2>7. CASE NoSeparableOperation(p)
      BY <2>7 DEF NoSeparableOperation, Reset, RequestStatus
    <2>8. CASE LeaveRequestAlone(p)
      BY <2>8 DEF LeaveRequestAlone, Reset
    <2>9. ASSUME NEW o \in Ops, VerifierFails(p, o) PROVE TypeOK'
      <3>1. /\ status' \in {status, [status EXCEPT ![o] = "ESCALATED"]}
            /\ decision' \in {decision, [decision EXCEPT ![o] = "ESCALATE"]}
            /\ todo' = [todo EXCEPT ![p] = @ \ {o}]
        BY <2>9 DEF VerifierFails
      <3>2. /\ status' \in [Ops -> OperationStatus \cup {"ABSENT"}]
            /\ decision' \in [Ops -> Decisions]
            /\ todo' \in [Processes -> SUBSET Ops]
        BY <3>1 DEF OperationStatus, Decisions
      <3> QED
        BY <2>9, <3>1, <3>2 DEF VerifierFails
    <2>10. ASSUME NEW o \in Ops, Decide(p, o) PROVE TypeOK'
      <3>1. PICK d \in Decisions \ {"none"} :
              /\ status' = [status EXCEPT ![o] = DecidedStatus(d, o)]
              /\ decision' = [decision EXCEPT ![o] = d]
              /\ eligible' = [eligible EXCEPT ![o] = (d = "AUTO_EXECUTE")]
              /\ \/ approved' = approved \cup {CurrentKey(o)}
                 \/ approved' = approved
              /\ \/ executeIds' = [executeIds EXCEPT ![p] = @ \cup {o}]
                 \/ executeIds' = executeIds
        BY <2>10 DEF Decide
      <3>2. DecidedStatus(d, o) \in OperationStatus \cup {"ABSENT"}
        BY DEF DecidedStatus, OperationStatus, Decisions
      <3>3. eligible' \in [Ops -> BOOLEAN]
        <4>1. (d = "AUTO_EXECUTE") \in BOOLEAN
          OBVIOUS
        <4> QED
          BY <3>1, <4>1, Zenon
      <3>4. CurrentKey(o) \in Keys
        BY DEF CurrentKey, Keys
      <3>5. OperationTypes'
        BY <2>10, <3>1, <3>2, <3>3 DEF Decide
      <3>6. approved' \subseteq Keys /\ executeIds' \in [Processes -> SUBSET Ops]
        BY <3>1, <3>4
      <3> QED
        BY <2>10, <3>5, <3>6 DEF Decide
    <2>11. ASSUME NEW o \in Ops, DecideForbidden(p, o) PROVE TypeOK'
      BY <2>11 DEF DecideForbidden, MailFails, Reset
    <2>12. ASSUME NEW o \in Ops, Schedule(p, o) PROVE TypeOK'
      BY <2>12 DEF Schedule, ScheduledExecutionStatus
    <2>13. ASSUME NEW o \in Ops, ScheduleRefused(p, o) PROVE TypeOK'
      BY <2>13 DEF ScheduleRefused, MailFails, Reset
    <2>14. ASSUME NEW o \in Ops, ExecuteNow(p, o) PROVE TypeOK'
      <3>1. CurrentKey(o) \in Keys
        BY DEF CurrentKey, Keys
      <3> QED
        BY <2>14, <3>1 DEF ExecuteNow, TestRevision
    <2>15. CASE DecisionsDone(p)
      BY <2>15 DEF DecisionsDone
    <2>16. CASE ReleasesDone(p)
      BY <2>16 DEF ReleasesDone
    <2>17. CASE ExecutionReturned(p)
      BY <2>17 DEF ExecutionReturned, NeedsEscalation, HoldsKey, Holding
    <2>18. CASE ExecutionRaised(p)
      BY <2>18 DEF ExecutionRaised, MailFails, Reset
    <2>19. CASE FinalizeMail(p)
      BY <2>19, FinalizeTypes DEF FinalizeMail, Reset, FinalizeRequest
    <2> QED
      BY <1>2, <2>1, <2>2, <2>3, <2>4, <2>5, <2>6, <2>7, <2>8, <2>9, <2>10,
         <2>11, <2>12, <2>13, <2>14, <2>15, <2>16, <2>17, <2>18, <2>19 DEF
         HandleMail
  <1>3. ASSUME NEW p \in Processes, Execute(p) PROVE TypeOK'
    <2>1. CASE BeginExecution(p)
      BY <2>1 DEF BeginExecution, OpOf, Keys, OperationStatus, ExecutionStatus,
         Holding, HoldsKey
    <2>2. CASE RejectPreflight(p)
      BY <2>2 DEF RejectPreflight, OpOf, Keys, OperationStatus,
         ExecutionStatus, Holding, HoldsKey
    <2>3. CASE DuplicateExecutionKey(p)
      BY <2>3 DEF DuplicateExecutionKey
    <2>4. CASE CallBusinessAPI(p)
      BY <2>4 DEF CallBusinessAPI, Answers, HoldsKey, Holding
    <2>5. CASE RecordAccepted(p)
      BY <2>5 DEF RecordAccepted, OpOf, Keys, OperationStatus, ExecutionStatus,
         HoldsKey, Holding
    <2>6. CASE AcceptedTooLate(p)
      BY <2>6 DEF AcceptedTooLate
    <2>7. CASE RecordFailure(p)
      BY <2>7 DEF RecordFailure, RecordedOutcome, OpOf, Keys, OperationStatus,
         ExecutionStatus, HoldsKey, Holding
    <2> QED
      BY <1>3, <2>1, <2>2, <2>3, <2>4, <2>5, <2>6, <2>7 DEF Execute
  <1>4. ASSUME NEW p \in Processes, Dispatch(p) PROVE TypeOK'
    <2>1. ASSUME NEW k \in Keys, Claim(p, k) PROVE TypeOK'
      BY <2>1 DEF Claim, ScheduledExecutionStatus
    <2>2. ASSUME NEW k \in Keys, ClaimLost(p, k) PROVE TypeOK'
      BY <2>2 DEF ClaimLost
    <2>3. CASE ReconcileClaimed(p)
      BY <2>3 DEF ReconcileClaimed, CloseRow, Outcomes,
         ScheduledExecutionStatus, HoldsKey, Holding
    <2>4. CASE BlockClaimed(p)
      BY <2>4 DEF BlockClaimed, CloseRow, Outcomes, ScheduledExecutionStatus,
         HoldsKey, Holding
    <2>5. CASE PassClaimed(p)
      BY <2>5 DEF PassClaimed
    <2>6. CASE ExecuteScheduled(p)
      <3>1. key[p] \in Keys
        BY <2>6 DEF ExecuteScheduled, HoldsKey, Holding
      <3> QED
        BY <2>6, <3>1 DEF ExecuteScheduled, TestRevision
    <2>7. CASE FinishDispatch(p)
      <3>1. key[p] \in Keys
        BY <2>7 DEF FinishDispatch, HoldsKey, Holding
      <3>2. CASE result[p] \in ExecutionStatus /\ CloseRow(p, "dispatched", result[p])
        BY <2>7, <3>1, <3>2, ClosedRowTypes DEF FinishDispatch
      <3>3. CASE result[p] = "refused" /\ CloseRow(p, "cancelled", "none")
        BY <2>7, <3>1, <3>3, ClosedRowTypes DEF FinishDispatch
      <3>4. CASE result[p] = "error" /\ CloseRow(p, "failed", "none")
        BY <2>7, <3>1, <3>4, ClosedRowTypes DEF FinishDispatch
      <3> QED
        BY <2>7, <3>2, <3>3, <3>4 DEF FinishDispatch
    <2>8. CASE BatchDone(p)
      BY <2>8 DEF BatchDone
    <2>9. CASE SettleOutcome(p)
      <3>1. PICK x \in outcomes[p] :
              /\ outcomes' = [outcomes EXCEPT ![p] = @ \ {x}]
              /\ escalated' \subseteq escalated \cup {x.key}
              /\ \/ UNCHANGED <<status, eligible>>
                 \/ /\ status' = [status EXCEPT ![OpOf(x.key)] = "ESCALATED"]
                    /\ eligible' = [eligible EXCEPT ![OpOf(x.key)] = FALSE]
              /\ pc' \in {pc, [pc EXCEPT ![p] = "finalizing"]}
        BY <2>9 DEF SettleOutcome
      <3>2. x.key \in Keys
        BY DEF Outcomes
      <3>3. outcomes' \in [Processes -> SUBSET Outcomes]
        BY <3>1
      <3>4. OperationTypes'
        <4>1. status' \in [Ops -> OperationStatus \cup {"ABSENT"}]
          BY <3>1, SMTT(20) DEF OperationStatus
        <4>2. eligible' \in [Ops -> BOOLEAN]
          BY <3>1, ZenonT(20)
        <4> QED
          BY <2>9, <4>1, <4>2 DEF SettleOutcome
      <3> QED
        BY <2>9, <3>1, <3>2, <3>3, <3>4 DEF SettleOutcome
    <2>10. CASE SettlementDone(p)
      BY <2>10 DEF SettlementDone, Reset
    <2>11. CASE FinalizeDispatch(p)
      BY <2>11, FinalizeTypes DEF FinalizeDispatch, FinalizeRequest
    <2> QED
      BY <1>4, <2>1, <2>2, <2>3, <2>4, <2>5, <2>6, <2>7, <2>8, <2>9, <2>10,
         <2>11 DEF Dispatch
  <1>5. ASSUME NEW p \in Processes, FinalizeRaises(p) PROVE TypeOK'
    BY <1>5 DEF FinalizeRaises, MailFails, Reset
  <1>6. ASSUME NEW p \in Processes, SelectDue(p) PROVE TypeOK'
    BY <1>6 DEF SelectDue
  <1>7. ASSUME NEW p \in Processes, Crash(p) PROVE TypeOK'
    BY <1>7 DEF Crash, Reset
  <1>8. ASSUME NEW k \in Keys, GraceElapses(k) PROVE TypeOK'
    BY <1>8 DEF GraceElapses
  <1>9. CASE ResolveEscalation
    BY <1>9 DEF ResolveEscalation, OperationStatus, RequestStatus
  <1>10. CASE UNCHANGED vars
    BY <1>10 DEF vars
  <1> QED
    BY <1>1, <1>2, <1>3, <1>4, <1>5, <1>6, <1>7, <1>8, <1>9, <1>10
       DEF Next, Work

-----------------------------------------------------------------------------
(* Most steps concern no execution: the mail is analysed and decided, the   *)
(* queue is read, an outcome is settled.  Quiet(p) is all that the          *)
(* invariant has to know of such a step of p.                               *)

executionState == <<schedule, execution, calls, applied, pc, role, key, result>>

Quiet(p) ==
  /\ UNCHANGED <<execution, calls, applied>>
  /\ \A k \in Keys :
       \/ schedule'[k] = schedule[k]
       \/ schedule[k] = "scheduled" /\ schedule'[k] = "cancelled"
       \/ schedule[k] = "none" /\ execution[k] = "none" /\ schedule'[k] = "scheduled"
  /\ \A q \in Processes \ {p} :
       /\ pc'[q] = pc[q] /\ role'[q] = role[q]
       /\ key'[q] = key[q] /\ result'[q] = result[q]
  /\ key'[p] = NoKey /\ pc'[p] \notin Holding
  /\ pc'[p] \in MailLabels => role'[p] = "mail"
  /\ pc'[p] \in QueueLabels => role'[p] = "queue"

\* The steps that do concern one.
Acts(p) ==
  \/ \E o \in Ops : ExecuteNow(p, o)
  \/ \E k \in Keys : Claim(p, k)
  \/ ReconcileClaimed(p) \/ BlockClaimed(p) \/ PassClaimed(p)
  \/ ExecuteScheduled(p) \/ Execute(p) \/ FinishDispatch(p)

\* No idempotency key is the mark of a process that holds none.
LEMMA NoKeyIsNoKey == NoKey \notin Keys
  BY DEF NoKey, Keys

\* A step of a process is quiet or acts on an execution.
LEMMA ProcessStepKinds ==
  ASSUME TypeOK, HoldsKey, RoleAtLabel, NEW p \in Processes,
         ReceiveMail(p) \/ Work(p) \/ SelectDue(p) \/ Crash(p)
  PROVE  Quiet(p) \/ Acts(p)
  <1> USE QueueAssumption DEF At, Goto, tables, rowVars, apiVars, mailVars, queueVars,
        callVars, TypeOK, RowTypes, ProcessTypes, MailLabels, QueueLabels,
        Labels, HoldsKey, RoleAtLabel, Holding, Quiet
  <1>1. CASE ReceiveMail(p)
    <2>1. CASE BeginNewRequest(p)
      BY <2>1 DEF BeginNewRequest
    <2>2. CASE BeginFollowUp(p)
      BY <2>2 DEF BeginFollowUp
    <2> QED
      BY <1>1, <2>1, <2>2 DEF ReceiveMail
  <1>2. CASE HandleMail(p)
    <2>1. CASE CancelOnExplicitText(p)
      BY <2>1 DEF CancelOnExplicitText, CancelScheduledForRequest
    <2>2. CASE NoExplicitText(p)
      BY <2>2 DEF NoExplicitText
    <2>3. CASE Analyze(p)
      BY <2>3 DEF Analyze, CancelScheduledForRequest
    <2>4. CASE AnalyzerFails(p)
      BY <2>4 DEF AnalyzerFails, MailFails, Reset
    <2>5. CASE CreateOperations(p)
      BY <2>5 DEF CreateOperations
    <2>6. CASE ApplyProposals(p)
      BY <2>6 DEF ApplyProposals
    <2>7. CASE NoSeparableOperation(p)
      BY <2>7 DEF NoSeparableOperation, Reset
    <2>8. CASE LeaveRequestAlone(p)
      BY <2>8 DEF LeaveRequestAlone, Reset
    <2>9. ASSUME NEW o \in Ops, VerifierFails(p, o) PROVE Quiet(p)
      BY <2>9 DEF VerifierFails
    <2>10. ASSUME NEW o \in Ops, Decide(p, o) PROVE Quiet(p)
      BY <2>10 DEF Decide
    <2>11. ASSUME NEW o \in Ops, DecideForbidden(p, o) PROVE Quiet(p)
      BY <2>11 DEF DecideForbidden, MailFails, Reset
    <2>12. ASSUME NEW o \in Ops, Schedule(p, o) PROVE Quiet(p)
      BY <2>12 DEF Schedule, CurrentKey, Keys
    <2>13. ASSUME NEW o \in Ops, ScheduleRefused(p, o) PROVE Quiet(p)
      BY <2>13 DEF ScheduleRefused, MailFails, Reset
    <2>14. CASE DecisionsDone(p)
      BY <2>14 DEF DecisionsDone
    <2>15. CASE ReleasesDone(p)
      BY <2>15 DEF ReleasesDone
    <2>16. CASE ExecutionReturned(p)
      BY <2>16 DEF ExecutionReturned
    <2>17. CASE ExecutionRaised(p)
      BY <2>17 DEF ExecutionRaised, MailFails, Reset
    <2>18. CASE FinalizeMail(p)
      BY <2>18 DEF FinalizeMail, FinalizeRequest, Reset
    <2> QED
      BY <1>2, <2>1, <2>2, <2>3, <2>4, <2>5, <2>6, <2>7, <2>8, <2>9, <2>10,
         <2>11, <2>12, <2>13, <2>14, <2>15, <2>16, <2>17, <2>18 DEF HandleMail,
         Acts
  <1>3. CASE Dispatch(p)
    <2>1. ASSUME NEW k \in Keys, ClaimLost(p, k) PROVE Quiet(p)
      BY <2>1 DEF ClaimLost
    <2>2. CASE BatchDone(p)
      BY <2>2 DEF BatchDone
    <2>3. CASE SettleOutcome(p)
      BY <2>3 DEF SettleOutcome
    <2>4. CASE SettlementDone(p)
      BY <2>4 DEF SettlementDone, Reset
    <2>5. CASE FinalizeDispatch(p)
      BY <2>5 DEF FinalizeDispatch, FinalizeRequest
    <2> QED
      BY <1>3, <2>1, <2>2, <2>3, <2>4, <2>5 DEF Dispatch, Acts
  <1>4. CASE FinalizeRaises(p)
    BY <1>4 DEF FinalizeRaises, MailFails, Reset
  <1>5. CASE SelectDue(p)
    BY <1>5 DEF SelectDue
  <1>6. CASE Crash(p)
    BY <1>6 DEF Crash, Reset
  <1>7. CASE Execute(p)
    BY <1>7 DEF Acts
  <1> QED
    BY <1>1, <1>2, <1>3, <1>4, <1>5, <1>6, <1>7, Zenon DEF Work

\* Every step is quiet, acts on an execution, or changes nothing of it.
LEMMA StepKinds ==
  ASSUME TypeOK, HoldsKey, RoleAtLabel, [Next]_vars
  PROVE  \/ UNCHANGED executionState
         \/ \E p \in Processes : Quiet(p) \/ Acts(p)
  <1> USE DEF tables, rowVars, apiVars, mailVars, queueVars, callVars
  <1>1. ASSUME NEW k \in Keys, GraceElapses(k) PROVE UNCHANGED executionState
    BY <1>1 DEF GraceElapses, executionState, procVars
  <1>2. CASE ResolveEscalation
    BY <1>2 DEF ResolveEscalation, executionState, procVars
  <1>3. CASE UNCHANGED vars
    BY <1>3 DEF vars, tables, rowVars, apiVars, executionState, procVars, callVars
  <1>4. CASE \E p \in Processes : ReceiveMail(p) \/ Work(p) \/ SelectDue(p) \/ Crash(p)
    BY <1>4, ProcessStepKinds
  <1> QED
    BY <1>1, <1>2, <1>3, <1>4, Zenon DEF Next

-----------------------------------------------------------------------------
(* The inductive invariant *)

\* Nothing is held or sent at the start.
LEMMA QueueInit == Init => QueueInvariant
  BY NoKeyIsNoKey DEF Init, QueueInvariant, HoldsKey, RoleAtLabel,
     HeldRowIsClaimed, ExclusiveDispatch, AtTheCall, OneCallerPerKey,
     AtMostOneCall, RecordedCall, ClosedRowHasRecord, Holding, MailLabels,
     QueueLabels, NoKey

\* A step that concerns no execution keeps the invariant.
LEMMA QuietKeepsInvariant ==
  ASSUME TypeOK, TypeOK', QueueInvariant, NEW p \in Processes, Quiet(p)
  PROVE  QueueInvariant'
  <1> USE NoKeyIsNoKey DEF Quiet, QueueInvariant, TypeOK, RowTypes, ProcessTypes
  <1>1. HoldsKey'
    BY DEF HoldsKey
  <1>2. RoleAtLabel'
    BY DEF RoleAtLabel
  <1>3. HeldRowIsClaimed'
    BY DEF HeldRowIsClaimed, HoldsKey, Holding
  <1>4. ExclusiveDispatch'
    BY DEF ExclusiveDispatch, HoldsKey
  <1>5. AtTheCall'
    BY DEF AtTheCall, HoldsKey, Holding
  <1>6. OneCallerPerKey'
    BY DEF OneCallerPerKey, HoldsKey, Holding
  <1>7. AtMostOneCall'
    BY DEF AtMostOneCall
  <1>8. RecordedCall'
    BY DEF RecordedCall
  <1>9. ClosedRowHasRecord'
    BY DEF ClosedRowHasRecord
  <1> QED
    BY <1>1, <1>2, <1>3, <1>4, <1>5, <1>6, <1>7, <1>8, <1>9

\* The tests of execute, for a mail that has no key yet or a dispatcher that
\* holds this one.
LEMMA TestKeepsInvariant ==
  ASSUME TypeOK, TypeOK', QueueInvariant,
         NEW p \in Processes, NEW k \in Keys, TestRevision(p, k),
         UNCHANGED <<schedule, execution, calls, applied, role>>,
         role[p] = "queue" => key[p] = k /\ pc[p] \in Holding,
         pc[p] \notin {"calling", "answered"}
  PROVE  QueueInvariant'
  <1> USE NoKeyIsNoKey DEF TestRevision, Goto, QueueInvariant, TypeOK, RowTypes,
        ProcessTypes
  <1>1. /\ key' = [key EXCEPT ![p] = k]
        /\ \/ pc' = [pc EXCEPT ![p] = "returned"]
           \/ pc' = [pc EXCEPT ![p] = "begin"]
        /\ pc'[p] = "returned" => execution[k] # "none" \/ result'[p] = "refused"
        /\ \A q \in Processes \ {p} : result'[q] = result[q]
    OBVIOUS
  <1>2. HoldsKey'
    BY <1>1 DEF HoldsKey, Holding, MailLabels, QueueLabels, HoldsKey
  <1>3. RoleAtLabel'
    BY <1>1 DEF RoleAtLabel, Holding, MailLabels, QueueLabels, HoldsKey
  <1>4. HeldRowIsClaimed'
    BY <1>1 DEF HeldRowIsClaimed, Holding, MailLabels, QueueLabels, HoldsKey
  <1>5. ExclusiveDispatch'
    BY <1>1 DEF ExclusiveDispatch, Holding, MailLabels, QueueLabels, HoldsKey
  <1>6. AtTheCall'
    BY <1>1 DEF AtTheCall, Holding, MailLabels, QueueLabels, HoldsKey, ExecutionStatus
  <1>7. OneCallerPerKey'
    BY <1>1 DEF OneCallerPerKey, Holding, MailLabels, QueueLabels, HoldsKey
  <1>8. AtMostOneCall'
    BY <1>1 DEF AtMostOneCall, Holding, MailLabels, QueueLabels, HoldsKey
  <1>9. RecordedCall'
    BY <1>1 DEF RecordedCall, Holding, MailLabels, QueueLabels, HoldsKey
  <1>10. ClosedRowHasRecord'
    BY <1>1 DEF ClosedRowHasRecord, Holding, MailLabels, QueueLabels, HoldsKey
  <1> QED
    BY <1>2, <1>3, <1>4, <1>5, <1>6, <1>7, <1>8, <1>9, <1>10

\* A dispatcher closes the row it holds; only a cancelled row may lack a record.
LEMMA CloseKeepsInvariant ==
  ASSUME TypeOK, TypeOK', QueueInvariant,
         NEW p \in Processes, key[p] \in Keys, pc[p] \in Holding, role[p] = "queue",
         NEW row \in {"dispatched", "cancelled", "failed"}, NEW found,
         CloseRow(p, row, found),
         UNCHANGED <<execution, calls, applied, role>>,
         row # "cancelled" => execution[key[p]] # "none"
  PROVE  QueueInvariant'
  <1> USE NoKeyIsNoKey DEF CloseRow, Goto, QueueInvariant, TypeOK, RowTypes,
        ProcessTypes
  <1>1. HoldsKey'
    BY DEF HoldsKey, Holding
  <1>2. RoleAtLabel'
    BY DEF RoleAtLabel, MailLabels, QueueLabels
  <1>3. HeldRowIsClaimed'
    BY DEF HeldRowIsClaimed, ExclusiveDispatch, HoldsKey, Holding
  <1>4. ExclusiveDispatch'
    BY DEF ExclusiveDispatch
  <1>5. AtTheCall'
    BY DEF AtTheCall, HoldsKey, Holding
  <1>6. OneCallerPerKey'
    BY DEF OneCallerPerKey
  <1>7. AtMostOneCall'
    BY DEF AtMostOneCall
  <1>8. RecordedCall'
    BY DEF RecordedCall
  <1>9. ClosedRowHasRecord'
    BY DEF ClosedRowHasRecord
  <1> QED
    BY <1>1, <1>2, <1>3, <1>4, <1>5, <1>6, <1>7, <1>8, <1>9

\* Every step that acts on an execution keeps the invariant.
LEMMA ActKeepsInvariant ==
  ASSUME TypeOK, TypeOK', QueueInvariant, NEW p \in Processes, Acts(p)
  PROVE  QueueInvariant'
  <1> USE NoKeyIsNoKey DEF TypeOK, RowTypes, ProcessTypes, At, Goto, tables, rowVars,
        apiVars, mailVars, queueVars, callVars, QueueInvariant, HoldsKey,
        RoleAtLabel, HeldRowIsClaimed, ExclusiveDispatch, AtTheCall,
        OneCallerPerKey, AtMostOneCall, RecordedCall, ClosedRowHasRecord,
        Holding, MailLabels, QueueLabels
  <1>1. ASSUME NEW o \in Ops, ExecuteNow(p, o) PROVE QueueInvariant'
    <2>1. CurrentKey(o) \in Keys
      BY DEF CurrentKey, Keys, OperationTypes
    <2>2. role[p] = "mail"
      BY <1>1 DEF ExecuteNow
    <2> QED
      BY <1>1, <2>1, <2>2, TestKeepsInvariant DEF ExecuteNow
  <1>2. ASSUME NEW k \in Keys, Claim(p, k) PROVE QueueInvariant'
    BY <1>2 DEF Claim
  <1>3. CASE ReconcileClaimed(p)
    BY <1>3, CloseKeepsInvariant DEF ReconcileClaimed
  <1>4. CASE BlockClaimed(p)
    BY <1>4, CloseKeepsInvariant DEF BlockClaimed
  <1>5. CASE PassClaimed(p)
    BY <1>5 DEF PassClaimed
  <1>6. CASE ExecuteScheduled(p)
    <2>1. key[p] \in Keys
      BY <1>6 DEF ExecuteScheduled
    <2>2. CASE key[p] = CurrentKey(OpOf(key[p]))
      BY <1>6, <2>1, <2>2, TestKeepsInvariant DEF ExecuteScheduled
    <2>3. CASE key[p] # CurrentKey(OpOf(key[p]))
      BY <1>6, <2>1, <2>3 DEF ExecuteScheduled, ExecutionStatus
    <2> QED
      BY <2>2, <2>3
  <1>7. CASE BeginExecution(p)
    BY <1>7 DEF BeginExecution
  <1>8. CASE RejectPreflight(p)
    BY <1>8 DEF RejectPreflight, ExecutionStatus
  <1>9. CASE DuplicateExecutionKey(p)
    BY <1>9 DEF DuplicateExecutionKey
  <1>10. CASE CallBusinessAPI(p)
    BY <1>10 DEF CallBusinessAPI, Answers
  <1>11. CASE RecordAccepted(p)
    BY <1>11 DEF RecordAccepted, ExecutionStatus
  <1>12. CASE AcceptedTooLate(p)
    BY <1>12 DEF AcceptedTooLate
  <1>13. CASE RecordFailure(p)
    BY <1>13 DEF RecordFailure, RecordedOutcome, ExecutionStatus
  <1>14. CASE FinishDispatch(p)
    <2>1. /\ key[p] \in Keys /\ pc[p] \in Holding /\ role[p] = "queue"
          /\ result[p] \in ExecutionStatus \cup {"error"} => execution[key[p]] # "none"
      BY <1>14 DEF FinishDispatch
    <2>2. UNCHANGED <<execution, calls, applied, role>>
      BY <1>14 DEF FinishDispatch
    <2> QED
      BY <1>14, <2>1, <2>2, CloseKeepsInvariant DEF FinishDispatch
  <1> QED
    BY <1>1, <1>2, <1>3, <1>4, <1>5, <1>6, <1>7, <1>8, <1>9, <1>10, <1>11,
       <1>12, <1>13, <1>14 DEF Acts, Execute

\* The invariant is inductive, together with the types.
THEOREM QueueInvariantHolds == Spec => [](TypeOK /\ QueueInvariant)
  <1>1. Init => TypeOK /\ QueueInvariant
    BY TypeInit, QueueInit
  <1>2. TypeOK /\ QueueInvariant /\ [Next]_vars => (TypeOK /\ QueueInvariant)'
    <2> SUFFICES ASSUME TypeOK, QueueInvariant, [Next]_vars
                 PROVE  (TypeOK /\ QueueInvariant)'
      OBVIOUS
    <2>1. TypeOK'
      BY TypeStep DEF QueueInvariant
    <2>2. ASSUME UNCHANGED executionState PROVE QueueInvariant'
      BY <2>2 DEF executionState, QueueInvariant, HoldsKey, RoleAtLabel,
         HeldRowIsClaimed, ExclusiveDispatch, AtTheCall, OneCallerPerKey,
         AtMostOneCall, RecordedCall, ClosedRowHasRecord
    <2>3. ASSUME NEW p \in Processes, Quiet(p) PROVE QueueInvariant'
      BY <2>1, <2>3, QuietKeepsInvariant
    <2>4. ASSUME NEW p \in Processes, Acts(p) PROVE QueueInvariant'
      BY <2>1, <2>4, ActKeepsInvariant
    <2> QED
      BY <2>1, <2>2, <2>3, <2>4, StepKinds DEF QueueInvariant
  <1> QED
    BY <1>1, <1>2, PTL DEF Spec

\* The rows and the locals of the processes keep their types.
THEOREM TypeCorrect == Spec => []TypeOK
  BY QueueInvariantHolds, PTL

\* No revision is sent twice, however many processes execute and crash.
THEOREM OneCallPerRevision == Spec => []AtMostOneCall
  <1>1. QueueInvariant => AtMostOneCall
    BY DEF QueueInvariant
  <1> QED
    BY <1>1, QueueInvariantHolds, PTL

\* Every call has its record, and "succeeded" is never written for nothing.
THEOREM CallsAreRecorded == Spec => []RecordedCall
  <1>1. QueueInvariant => RecordedCall
    BY DEF QueueInvariant
  <1> QED
    BY <1>1, QueueInvariantHolds, PTL

\* A row is held by one dispatcher at a time.
THEOREM OneDispatcherPerRow == Spec => []ExclusiveDispatch
  <1>1. QueueInvariant => ExclusiveDispatch
    BY DEF QueueInvariant
  <1> QED
    BY <1>1, QueueInvariantHolds, PTL

\* A row is closed as dispatched or failed only over an execution record.
THEOREM ClosedRowsAreRecorded == Spec => []ClosedRowHasRecord
  <1>1. QueueInvariant => ClosedRowHasRecord
    BY DEF QueueInvariant
  <1> QED
    BY <1>1, QueueInvariantHolds, PTL
-----------------------------------------------------------------------------
(* With the grace period *)

\* Nothing is recorded at the start.
LEMMA GraceInit == Init => GraceInvariant
  BY DEF Init, GraceInvariant, RecordFollowsClaim, UnclaimedNeverCalled, Holding

\* A step that concerns no execution only cancels or schedules unsent revisions.
LEMMA QuietKeepsGrace ==
  ASSUME TypeOK, QueueInvariant, GraceInvariant, NEW p \in Processes, Quiet(p)
  PROVE  GraceInvariant'
  BY DEF Quiet, TypeOK, RowTypes, ProcessTypes, QueueInvariant, RecordedCall,
     GraceInvariant, RecordFollowsClaim, UnclaimedNeverCalled, Holding

\* Only a dispatcher acts, and it holds a row that is "dispatching".
LEMMA ActKeepsGrace ==
  ASSUME TypeOK, TypeOK', QueueInvariant, QueueInvariant', GraceInvariant,
         NEW p \in Processes, Acts(p)
  PROVE  GraceInvariant'
  <1> SUFFICES ASSUME Immediate = {}
               PROVE  (RecordFollowsClaim /\ UnclaimedNeverCalled)'
    BY DEF GraceInvariant
  <1> USE NoKeyIsNoKey DEF TypeOK, RowTypes, ProcessTypes, At, Goto, tables, rowVars,
        apiVars, mailVars, queueVars, callVars, QueueInvariant, HoldsKey,
        RoleAtLabel, HeldRowIsClaimed, ExclusiveDispatch, AtTheCall,
        RecordedCall, Holding, MailLabels, QueueLabels, GraceInvariant,
        RecordFollowsClaim, UnclaimedNeverCalled
  <1>1. ASSUME NEW o \in Ops, ExecuteNow(p, o) PROVE (RecordFollowsClaim /\ UnclaimedNeverCalled)'
    BY <1>1 DEF ExecuteNow, TestRevision, CurrentKey, Keys
  <1>2. ASSUME NEW k \in Keys, Claim(p, k) PROVE (RecordFollowsClaim /\ UnclaimedNeverCalled)'
    BY <1>2 DEF Claim
  <1>3. CASE ReconcileClaimed(p)
    BY <1>3 DEF ReconcileClaimed, CloseRow
  <1>4. CASE BlockClaimed(p)
    BY <1>4 DEF BlockClaimed, CloseRow
  <1>5. CASE PassClaimed(p)
    BY <1>5 DEF PassClaimed
  <1>6. CASE ExecuteScheduled(p)
    BY <1>6 DEF ExecuteScheduled, TestRevision
  <1>7. CASE BeginExecution(p)
    BY <1>7 DEF BeginExecution
  <1>8. CASE RejectPreflight(p)
    BY <1>8 DEF RejectPreflight, ExecutionStatus
  <1>9. CASE DuplicateExecutionKey(p)
    BY <1>9 DEF DuplicateExecutionKey
  <1>10. CASE CallBusinessAPI(p)
    BY <1>10 DEF CallBusinessAPI, Answers
  <1>11. CASE RecordAccepted(p)
    BY <1>11 DEF RecordAccepted, ExecutionStatus
  <1>12. CASE AcceptedTooLate(p)
    BY <1>12, SMTT(20) DEF AcceptedTooLate
  <1>13. CASE RecordFailure(p)
    BY <1>13, SMTT(20) DEF RecordFailure, RecordedOutcome, ExecutionStatus
  <1>14. CASE FinishDispatch(p)
    BY <1>14, SMTT(20) DEF FinishDispatch, CloseRow, ExecutionStatus
  <1> QED
    BY <1>1, <1>2, <1>3, <1>4, <1>5, <1>6, <1>7, <1>8, <1>9, <1>10, <1>11,
       <1>12, <1>13, <1>14 DEF Acts, Execute

\* The rows a dispatcher holds keep the records they had at their claim.
THEOREM GraceInvariantHolds == Spec => []GraceInvariant
  <1>1. Init => GraceInvariant
    BY GraceInit
  <1>2. (TypeOK /\ QueueInvariant) /\ (TypeOK /\ QueueInvariant)' /\ GraceInvariant
          /\ [Next]_vars => GraceInvariant'
    <2> SUFFICES ASSUME TypeOK, QueueInvariant, TypeOK', QueueInvariant',
                        GraceInvariant, [Next]_vars
                 PROVE  GraceInvariant'
      OBVIOUS
    <2>1. CASE UNCHANGED executionState
      BY <2>1 DEF executionState, GraceInvariant, RecordFollowsClaim,
         UnclaimedNeverCalled
    <2>2. ASSUME NEW p \in Processes, Quiet(p) PROVE GraceInvariant'
      BY <2>2, QuietKeepsGrace
    <2>3. ASSUME NEW p \in Processes, Acts(p) PROVE GraceInvariant'
      BY <2>3, ActKeepsGrace
    <2> QED
      BY <2>1, <2>2, <2>3, StepKinds DEF QueueInvariant
  <1> QED
    BY <1>1, <1>2, QueueInvariantHolds, PTL DEF Spec

\* The claim protocol alone keeps a waiting or cancelled revision unsent.
THEOREM UnclaimedRowsAreNotCalled ==
  ASSUME Immediate = {}
  PROVE  Spec => []UnclaimedNeverCalled
  <1>1. GraceInvariant => UnclaimedNeverCalled
    BY DEF GraceInvariant
  <1> QED
    BY <1>1, GraceInvariantHolds, PTL
-----------------------------------------------------------------------------
(* Failures are escalated: one operation, under the grace period.           *)

\* Revisions only rise, and what is escalated or killed stays so.
Forward ==
  /\ \A o \in Ops : revision[o] <= revision'[o]
  /\ escalated \subseteq escalated'
  /\ crashes <= crashes'

LEMMA StepsGoForward ==
  ASSUME TypeOK, [Next]_vars
  PROVE  Forward
  <1> USE QueueAssumption DEF Forward, TypeOK, OperationTypes, RowTypes, RequestTypes, Revisions,
        MailFails, Reset, CloseRow, TestRevision, FinalizeRequest,
        opVars, bounds, auditVars, tables
  <1>1. ASSUME NEW p \in Processes, ReceiveMail(p) PROVE Forward
    BY <1>1 DEF ReceiveMail, BeginNewRequest, BeginFollowUp
  <1>2. ASSUME NEW p \in Processes, HandleMail(p) PROVE Forward
    <2>1. CASE ApplyProposals(p)
      BY <2>1 DEF ApplyProposals
    <2>2. CASE \/ CancelOnExplicitText(p) \/ NoExplicitText(p)
               \/ Analyze(p) \/ AnalyzerFails(p)
               \/ CreateOperations(p)
               \/ NoSeparableOperation(p) \/ LeaveRequestAlone(p)
      BY <2>2 DEF CancelOnExplicitText, NoExplicitText, Analyze, AnalyzerFails, CreateOperations,
         NoSeparableOperation, LeaveRequestAlone
    <2>3. ASSUME NEW o \in Ops,
                 \/ VerifierFails(p, o) \/ Decide(p, o) \/ DecideForbidden(p, o)
                 \/ Schedule(p, o) \/ ScheduleRefused(p, o) \/ ExecuteNow(p, o)
          PROVE  Forward
      BY <2>3 DEF VerifierFails, Decide, DecideForbidden, Schedule, ScheduleRefused, ExecuteNow
    <2>4. CASE \/ DecisionsDone(p) \/ ReleasesDone(p)
               \/ ExecutionReturned(p) \/ ExecutionRaised(p)
               \/ FinalizeMail(p)
      BY <2>4 DEF DecisionsDone, ReleasesDone, ExecutionReturned, ExecutionRaised, FinalizeMail
    <2> QED
      BY <1>2, <2>1, <2>2, <2>3, <2>4, Zenon DEF HandleMail
  <1>3. ASSUME NEW p \in Processes, Execute(p) PROVE Forward
    BY <1>3 DEF Execute, BeginExecution, RejectPreflight, DuplicateExecutionKey, CallBusinessAPI,
       RecordAccepted, AcceptedTooLate, RecordFailure
  <1>4. ASSUME NEW p \in Processes, Dispatch(p) PROVE Forward
    <2>1. ASSUME NEW k \in Keys, Claim(p, k) \/ ClaimLost(p, k) PROVE Forward
      BY <2>1 DEF Claim, ClaimLost
    <2>2. CASE SettleOutcome(p)
      BY <2>2 DEF SettleOutcome
    <2>3. CASE \/ ReconcileClaimed(p) \/ BlockClaimed(p) \/ PassClaimed(p)
               \/ ExecuteScheduled(p) \/ FinishDispatch(p) \/ BatchDone(p)
               \/ SettlementDone(p) \/ FinalizeDispatch(p)
      BY <2>3 DEF ReconcileClaimed, BlockClaimed, PassClaimed, ExecuteScheduled, FinishDispatch,
         BatchDone, SettlementDone, FinalizeDispatch
    <2> QED
      BY <1>4, <2>1, <2>2, <2>3, Zenon DEF Dispatch
  <1>5. ASSUME NEW p \in Processes, FinalizeRaises(p) \/ SelectDue(p) \/ Crash(p) PROVE Forward
    BY <1>5 DEF FinalizeRaises, SelectDue, Crash
  <1>6. ASSUME NEW k \in Keys, GraceElapses(k) PROVE Forward
    BY <1>6 DEF GraceElapses
  <1>7. CASE ResolveEscalation
    BY <1>7 DEF ResolveEscalation
  <1>8. CASE UNCHANGED vars
    BY <1>8 DEF vars
  <1>9. ASSUME NEW p \in Processes, Work(p) PROVE Forward
    BY <1>2, <1>3, <1>4, <1>5, <1>9, Zenon DEF Work
  <1> QED
    BY <1>1, <1>5, <1>6, <1>7, <1>8, <1>9, Zenon DEF Next

\* What a quiet step of p does to its batch and its outcomes: it takes place between two
\* rows, and no outcome is lost that a person should see.
Settles(p) ==
  /\ \A q \in Processes \ {p} : batch'[q] = batch[q] /\ outcomes'[q] = outcomes[q]
  /\ pc[p] \notin Holding \/ crashes' # 0
  /\ outcomes'[p] \subseteq outcomes[p]
  /\ \/ batch'[p] \subseteq batch[p]
     \/ outcomes'[p] = {} /\ \A k \in batch'[p] : schedule[k] = "scheduled"
  /\ role'[p] # "queue" \/ pc'[p] = "idle" => batch'[p] = {} /\ outcomes'[p] = {}
  /\ pc'[p] = "finalizing" => \A x \in outcomes'[p] : x.row = "cancelled"
  /\ \A x \in outcomes[p] :
       \/ x \in outcomes'[p] \/ crashes' # 0
       \/ x.row = "cancelled" \/ (x.row = "dispatched" /\ x.execution = "succeeded")
       \/ x.key \in escalated'

\* Rows are opened for current revisions.
SchedulesTheCurrent ==
  \A k \in Keys : schedule[k] = "none" /\ schedule'[k] # "none" =>
                    RevisionOf(k) = revision[OpOf(k)]

\* A step that acts on no execution settles what it takes from the outcomes.
LEMMA QuietSettles ==
  ASSUME TypeOK, QueueInvariant, RecordFollowsClaim, OutcomesAreTrue, OneExecutionPerBatch,
         Immediate = {}, NEW p \in Processes,
         ReceiveMail(p) \/ Work(p) \/ SelectDue(p) \/ Crash(p), ~Acts(p)
  PROVE  Settles(p) /\ SchedulesTheCurrent
  <1> USE DEF At, Goto, tables, rowVars, queueVars, TypeOK, RowTypes, ProcessTypes, RequestTypes,
        QueueInvariant, HoldsKey, RoleAtLabel, Holding, MailLabels, QueueLabels,
        OutcomesAreTrue, Settles, SchedulesTheCurrent
  <1>1. CASE ReceiveMail(p)
    BY <1>1 DEF ReceiveMail, BeginNewRequest, BeginFollowUp
  <1>2. CASE HandleMail(p)
    <2>1. CASE CancelOnExplicitText(p)
      BY <2>1 DEF CancelOnExplicitText, CancelScheduledForRequest
    <2>2. CASE NoExplicitText(p)
      BY <2>2 DEF NoExplicitText
    <2>3. CASE Analyze(p)
      BY <2>3 DEF Analyze, CancelScheduledForRequest
    <2>4. CASE AnalyzerFails(p)
      BY <2>4 DEF AnalyzerFails, MailFails, Reset
    <2>5. CASE CreateOperations(p)
      BY <2>5 DEF CreateOperations
    <2>6. CASE ApplyProposals(p)
      BY <2>6 DEF ApplyProposals
    <2>7. CASE NoSeparableOperation(p)
      BY <2>7 DEF NoSeparableOperation, Reset
    <2>8. CASE LeaveRequestAlone(p)
      BY <2>8 DEF LeaveRequestAlone, Reset
    <2>9. ASSUME NEW o \in Ops, VerifierFails(p, o) PROVE Settles(p) /\ SchedulesTheCurrent
      BY <2>9 DEF VerifierFails
    <2>10. ASSUME NEW o \in Ops, Decide(p, o) PROVE Settles(p) /\ SchedulesTheCurrent
      BY <2>10 DEF Decide
    <2>11. ASSUME NEW o \in Ops, DecideForbidden(p, o) PROVE Settles(p) /\ SchedulesTheCurrent
      BY <2>11 DEF DecideForbidden, MailFails, Reset
    <2>12. ASSUME NEW o \in Ops, Schedule(p, o) PROVE Settles(p) /\ SchedulesTheCurrent
      BY <2>12 DEF Schedule, CurrentKey, Keys, RevisionOf, OpOf
    <2>13. ASSUME NEW o \in Ops, ScheduleRefused(p, o) PROVE Settles(p) /\ SchedulesTheCurrent
      BY <2>13 DEF ScheduleRefused, MailFails, Reset
    <2>14. CASE DecisionsDone(p)
      BY <2>14 DEF DecisionsDone
    <2>15. CASE ReleasesDone(p)
      BY <2>15 DEF ReleasesDone
    <2>16. CASE ExecutionReturned(p)
      BY <2>16 DEF ExecutionReturned, RecordFollowsClaim
    <2>17. CASE ExecutionRaised(p)
      BY <2>17 DEF ExecutionRaised, RecordFollowsClaim
    <2>18. CASE FinalizeMail(p)
      BY <2>18 DEF FinalizeMail, FinalizeRequest, Reset
    <2> QED
      BY <1>2, <2>1, <2>2, <2>3, <2>4, <2>5, <2>6, <2>7, <2>8, <2>9, <2>10,
         <2>11, <2>12, <2>13, <2>14, <2>15, <2>16, <2>17, <2>18, Zenon DEF HandleMail, Acts
  <1>3. CASE Dispatch(p)
    <2>1. ASSUME NEW k \in Keys, ClaimLost(p, k) PROVE Settles(p) /\ SchedulesTheCurrent
      BY <2>1 DEF ClaimLost
    <2>2. CASE BatchDone(p)
      BY <2>2 DEF BatchDone
    <2>3. CASE SettleOutcome(p)
      BY <2>3 DEF SettleOutcome, OneExecutionPerBatch, Closed, NeedsEscalation
    <2>4. CASE SettlementDone(p)
      BY <2>4 DEF SettlementDone, Reset
    <2>5. CASE FinalizeDispatch(p)
      BY <2>5 DEF FinalizeDispatch, FinalizeRequest
    <2> QED
      BY <1>3, <2>1, <2>2, <2>3, <2>4, <2>5, Zenon DEF Dispatch, Acts
  <1>4. CASE FinalizeRaises(p)
    BY <1>4 DEF FinalizeRaises, MailFails, Reset, OneExecutionPerBatch, Closed
  <1>5. CASE SelectDue(p)
    BY <1>5 DEF SelectDue
  <1>6. CASE Crash(p)
    BY <1>6 DEF Crash, Reset
  <1> QED
    BY <1>1, <1>2, <1>3, <1>4, <1>5, <1>6, Zenon DEF Work, Acts

\* The keys of one operation are told apart by their revision.
LEMMA KeysOfOneOperation ==
  ASSUME OneOperation, TypeOK
  PROVE  /\ \A k \in Keys : OpOf(k) \in Ops /\ RevisionOf(k) \in Nat /\ revision[OpOf(k)] \in Nat
         /\ \A k \in Keys : k = CurrentKey(OpOf(k)) <=> RevisionOf(k) = revision[OpOf(k)]
         /\ \A k, l \in Keys : OpOf(k) = OpOf(l) /\ (RevisionOf(k) = RevisionOf(l) => k = l)
  BY QueueAssumption DEF OneOperation, TypeOK, OperationTypes, Keys, Revisions, OpOf, RevisionOf, CurrentKey

\* A quiet step keeps the batches and the outcomes as they should be.
LEMMA QuietKeepsEscalation ==
  ASSUME TypeOK, TypeOK', QueueInvariant, RecordFollowsClaim,
         NothingIsAhead, OutcomesAreTrue, OneExecutionPerBatch, FailuresEscalated,
         OneOperation, Forward, SchedulesTheCurrent,
         NEW p \in Processes, Quiet(p), Settles(p)
  PROVE  (NothingIsAhead /\ OutcomesAreTrue /\ OneExecutionPerBatch /\ FailuresEscalated)'
  <1>1. /\ \A k \in Keys : OpOf(k) \in Ops /\ RevisionOf(k) \in Nat
                           /\ revision[OpOf(k)] \in Nat /\ revision'[OpOf(k)] \in Nat
                           /\ revision[OpOf(k)] <= revision'[OpOf(k)]
    BY KeysOfOneOperation, QueueAssumption DEF Forward, TypeOK, OperationTypes, Revisions
  <1>2. \A q \in Processes : batch[q] \subseteq Keys /\ batch'[q] \subseteq Keys
                             /\ outcomes[q] \subseteq Outcomes /\ outcomes'[q] \subseteq Outcomes
    BY DEF TypeOK, ProcessTypes
  <1>3. \A k \in Keys : Stale(k) => Stale(k)'
    BY <1>1 DEF Stale, RevisionOf, OpOf
  <1>4. \A k \in Keys : schedule[k] \in {"dispatching", "dispatched", "failed", "cancelled"}
                        => schedule'[k] = schedule[k]
    BY DEF Quiet
  <1>5. NothingIsAhead'
    <2>1. ASSUME NEW k \in Keys, schedule'[k] # "none" PROVE RevisionOf(k) <= revision'[OpOf(k)]
      BY <1>1, <2>1 DEF NothingIsAhead, SchedulesTheCurrent
    <2>2. ASSUME NEW q \in Processes, NEW k \in batch'[q]
          PROVE  RevisionOf(k) <= revision'[OpOf(k)] /\ k # key'[q]
      <3>1. k \in Keys
        BY <1>2
      <3>2. RevisionOf(k) <= revision[OpOf(k)]
        BY <3>1, <2>2 DEF NothingIsAhead, Settles
      <3>3. k # key'[q]
        <4>1. CASE q = p
          BY <4>1, <3>1, NoKeyIsNoKey DEF Quiet
        <4>2. CASE q # p
          BY <4>2, <2>2 DEF Quiet, Settles, NothingIsAhead
        <4> QED
          BY <4>1, <4>2
      <3> QED
        BY <1>1, <3>1, <3>2, <3>3
    <2> QED
      BY <2>1, <2>2 DEF NothingIsAhead, RevisionOf, OpOf
  <1>6. OutcomesAreTrue'
    <2>1. \A q \in Processes :
            role'[q] # "queue" \/ pc'[q] = "idle" => batch'[q] = {} /\ outcomes'[q] = {}
      BY DEF OutcomesAreTrue, Quiet, Settles
    <2>2. ASSUME NEW q \in Processes, NEW x \in outcomes'[q]
          PROVE  /\ x.row \in {"dispatched", "failed", "cancelled"} /\ schedule'[x.key] = x.row
                 /\ x.row = "dispatched" /\ x.execution = "succeeded"
                      => execution'[x.key] = "succeeded"
      <3>1. x \in outcomes[q] /\ x.key \in Keys
        BY <1>2 DEF Settles, Outcomes
      <3> QED
        BY <1>4, <3>1 DEF OutcomesAreTrue, Quiet
    <2>3. \A q \in Processes :
            pc'[q] = "returned" /\ result'[q] = "succeeded" => execution'[key'[q]] = "succeeded"
      BY DEF OutcomesAreTrue, Quiet, Holding
    <2> QED
      BY <2>1, <2>2, <2>3 DEF OutcomesAreTrue
  <1>7. OneExecutionPerBatch'
    <2> SUFFICES ASSUME NEW q \in Processes
                 PROVE  /\ Executes(q)' => Closed(q)' = {} /\ \A k \in batch'[q] : Stale(k)'
                        /\ Closed(q)' # {} => /\ \A k \in batch'[q] : Stale(k)'
                                              /\ pc'[q] \in Holding => Stale(key[q])'
                        /\ \A x, y \in Closed(q)' : x = y
                        /\ pc'[q] = "finalizing" => Closed(q)' = {}
      BY DEF OneExecutionPerBatch
    <2>1. CASE q = p
      <3>1. ~Executes(q)' /\ pc'[q] \notin Holding
        BY <2>1 DEF Quiet, Executes, Holding
      <3>2. Closed(q)' \subseteq Closed(q)
        BY <2>1 DEF Settles, Closed
      <3>3. pc'[q] = "finalizing" => Closed(q)' = {}
        BY <2>1 DEF Settles, Closed
      <3>4. Closed(q)' # {} => \A k \in batch'[q] : Stale(k)
        BY <2>1, <3>2 DEF Settles, Closed, OneExecutionPerBatch
      <3>5. Closed(q)' # {} => \A k \in batch'[q] : Stale(k)'
        BY <3>4, <1>2, <1>3
      <3> QED
        BY <3>1, <3>2, <3>3, <3>5 DEF OneExecutionPerBatch
    <2>2. CASE q # p
      <3>1. /\ pc'[q] = pc[q] /\ key'[q] = key[q] /\ result'[q] = result[q]
            /\ batch'[q] = batch[q] /\ outcomes'[q] = outcomes[q]
        BY <2>2 DEF Quiet, Settles
      <3>2. (Executes(q)' <=> Executes(q)) /\ Closed(q)' = Closed(q)
        BY <3>1 DEF Executes, Closed
      <3>3. pc[q] \in Holding => key[q] \in Keys
        BY DEF QueueInvariant, HoldsKey, TypeOK, ProcessTypes
      <3>4. pc[q] \in Holding /\ Stale(key[q]) => Stale(key[q])'
        BY <3>1, <3>3, <1>1 DEF Stale, RevisionOf, OpOf
      <3>5. \A k \in batch'[q] : Stale(k) => Stale(k)'
        BY <1>2, <1>3
      <3> QED
        BY <3>1, <3>2, <3>4, <3>5 DEF OneExecutionPerBatch
    <2> QED
      BY <2>1, <2>2
  <1>8. FailuresEscalated'
    <2> SUFFICES ASSUME crashes' = 0, NEW k \in Keys, execution'[k] \in {"failed", "unknown"},
                        k \notin escalated'
                 PROVE  Unsettled(k)'
      BY DEF FailuresEscalated
    <2>1. crashes = 0 /\ k \notin escalated /\ execution[k] \in {"failed", "unknown"}
      BY DEF Forward, Quiet, TypeOK, RequestTypes
    <2>2. PICK q \in Processes : key[q] = k \/ \E x \in outcomes[q] : x.key = k
      BY <2>1, Zenon DEF FailuresEscalated, Unsettled
    <2>3. CASE key[q] = k
      <3>1. pc[q] \in Holding
        BY <2>1, <2>3, NoKeyIsNoKey DEF QueueInvariant, HoldsKey
      <3>2. q # p
        BY <3>1 DEF Settles
      <3> QED
        BY <2>3, <3>2 DEF Quiet, Unsettled
    <2>4. ASSUME NEW x \in outcomes[q], x.key = k PROVE Unsettled(k)'
      <3>1. x.row # "cancelled"
        BY <2>1, <2>4 DEF OutcomesAreTrue, RecordFollowsClaim
      <3>2. ~(x.row = "dispatched" /\ x.execution = "succeeded")
        BY <2>1, <2>4 DEF OutcomesAreTrue
      <3>3. x \in outcomes'[q]
        BY <3>1, <3>2, <2>4 DEF Settles
      <3> QED
        BY <3>3, <2>4 DEF Unsettled
    <2> QED
      BY <2>2, <2>3, <2>4
  <1> QED
    BY <1>5, <1>6, <1>7, <1>8

\* The steps around the call leave the batch, the outcomes and the rows alone.
Proceeds(p) ==
  /\ UNCHANGED <<revision, schedule, batch, outcomes, key, role, escalated, crashes>>
  /\ Executes(p) /\ Executes(p)'
  /\ pc[p] \in Holding /\ pc'[p] \in Holding
  /\ \A q \in Processes \ {p} : pc'[q] = pc[q] /\ result'[q] = result[q]
  /\ \A k \in Keys : execution[k] = "succeeded" => execution'[k] = "succeeded"
  /\ \A k \in Keys : execution'[k] # execution[k] => k = key[p]
  /\ pc'[p] = "returned" /\ result'[p] = "succeeded" => execution'[key[p]] = "succeeded"

LEMMA ExecutionsProceed ==
  ASSUME TypeOK, QueueInvariant, RecordFollowsClaim, NEW p \in Processes, Execute(p)
  PROVE  Proceeds(p)
  <1> USE NoKeyIsNoKey DEF At, Goto, opVars, auditVars, tables, rowVars, queueVars, callVars, bounds,
        TypeOK, RowTypes, ProcessTypes, QueueInvariant, HoldsKey, AtTheCall, RecordFollowsClaim,
        Holding, Executes, Proceeds, ExecutionStatus
  <1>1. CASE BeginExecution(p)
    BY <1>1 DEF BeginExecution
  <1>2. CASE RejectPreflight(p)
    BY <1>2 DEF RejectPreflight
  <1>3. CASE DuplicateExecutionKey(p)
    BY <1>3 DEF DuplicateExecutionKey
  <1>4. CASE CallBusinessAPI(p)
    BY <1>4 DEF CallBusinessAPI
  <1>5. CASE RecordAccepted(p)
    BY <1>5 DEF RecordAccepted
  <1>6. CASE AcceptedTooLate(p)
    BY <1>6 DEF AcceptedTooLate
  <1>7. CASE RecordFailure(p)
    BY <1>7 DEF RecordFailure, RecordedOutcome
  <1> QED
    BY <1>1, <1>2, <1>3, <1>4, <1>5, <1>6, <1>7, Zenon DEF Execute

\* They keep what is known of the batch.
LEMMA ProceedingKeepsEscalation ==
  ASSUME TypeOK, QueueInvariant, NothingIsAhead, OutcomesAreTrue, OneExecutionPerBatch,
         FailuresEscalated, NEW p \in Processes, Proceeds(p)
  PROVE  (NothingIsAhead /\ OutcomesAreTrue /\ OneExecutionPerBatch /\ FailuresEscalated)'
  <1>1. \A q \in Processes : \A x \in outcomes[q] : x.key \in Keys
    BY DEF TypeOK, ProcessTypes, Outcomes
  <1>2. NothingIsAhead'
    BY DEF Proceeds, NothingIsAhead, RevisionOf, OpOf
  <1>3. OutcomesAreTrue'
    <2>1. \A q \in Processes : role[q] # "queue" \/ pc'[q] = "idle" => batch[q] = {} /\ outcomes[q] = {}
      BY DEF Proceeds, OutcomesAreTrue, Holding
    <2>2. \A q \in Processes : \A x \in outcomes[q] :
            /\ x.row \in {"dispatched", "failed", "cancelled"} /\ schedule[x.key] = x.row
            /\ x.row = "dispatched" /\ x.execution = "succeeded" => execution'[x.key] = "succeeded"
      BY <1>1 DEF Proceeds, OutcomesAreTrue
    <2>3. \A q \in Processes :
            pc'[q] = "returned" /\ result'[q] = "succeeded" => execution'[key[q]] = "succeeded"
      BY DEF Proceeds, OutcomesAreTrue, QueueInvariant, HoldsKey, Holding, TypeOK, ProcessTypes
    <2> QED
      BY <2>1, <2>2, <2>3 DEF Proceeds, OutcomesAreTrue
  <1>4. OneExecutionPerBatch'
    <2> SUFFICES ASSUME NEW q \in Processes
                 PROVE  /\ Executes(q)' => Closed(q)' = {} /\ \A k \in batch'[q] : Stale(k)'
                        /\ Closed(q)' # {} => /\ \A k \in batch'[q] : Stale(k)'
                                              /\ pc'[q] \in Holding => Stale(key[q])'
                        /\ \A x, y \in Closed(q)' : x = y
                        /\ pc'[q] = "finalizing" => Closed(q)' = {}
      BY DEF OneExecutionPerBatch
    <2>1. /\ Closed(q)' = Closed(q) /\ batch'[q] = batch[q] /\ key'[q] = key[q]
          /\ \A k : Stale(k)' <=> Stale(k)
      BY DEF Proceeds, Closed, Stale, OpOf, RevisionOf
    <2>2. CASE q = p
      BY <2>1, <2>2 DEF Proceeds, OneExecutionPerBatch
    <2>3. CASE q # p
      BY <2>1, <2>3 DEF Proceeds, Executes, OneExecutionPerBatch
    <2> QED
      BY <2>2, <2>3
  <1>5. FailuresEscalated'
    <2> SUFFICES ASSUME crashes' = 0, NEW k \in Keys, execution'[k] \in {"failed", "unknown"},
                        k \notin escalated'
                 PROVE  Unsettled(k)'
      BY DEF FailuresEscalated
    <2>1. key[p] = k \/ Unsettled(k)
      BY DEF Proceeds, FailuresEscalated
    <2> QED
      BY <2>1 DEF Proceeds, Unsettled
  <1> QED
    BY <1>2, <1>3, <1>4, <1>5

\* Of one operation, what is not the current revision is stale.
LEMMA OthersAreStale ==
  ASSUME OneOperation, TypeOK, NothingIsAhead, NEW p \in Processes, key[p] \in Keys,
         key[p] = CurrentKey(OpOf(key[p]))
  PROVE  (\A k \in batch[p] : Stale(k)) /\ ~Stale(key[p])
  BY KeysOfOneOperation DEF TypeOK, ProcessTypes, NothingIsAhead, Stale

\* A claim takes one row from the batch, a test goes on with the current revision only.
LEMMA ClaimingKeepsEscalation ==
  ASSUME TypeOK, TypeOK', QueueInvariant, RecordFollowsClaim, NothingIsAhead, OutcomesAreTrue,
         OneExecutionPerBatch, FailuresEscalated, OneOperation, NEW p \in Processes,
         (\E k \in Keys : Claim(p, k)) \/ PassClaimed(p) \/ ExecuteScheduled(p)
  PROVE  (NothingIsAhead /\ OutcomesAreTrue /\ OneExecutionPerBatch /\ FailuresEscalated)'
  <1>1. CASE \E k \in Keys : Claim(p, k)
    <2> PICK k \in Keys : Claim(p, k)
      BY <1>1
    <2> USE DEF Claim, At, Goto, opVars, auditVars, bounds, TypeOK, RowTypes, ProcessTypes
    <2>1. NothingIsAhead'
      BY DEF NothingIsAhead, OpOf, RevisionOf, QueueInvariant, HeldRowIsClaimed, HoldsKey, Holding
    <2>2. OutcomesAreTrue'
      BY DEF OutcomesAreTrue, Outcomes
    <2>3. OneExecutionPerBatch'
      BY DEF OneExecutionPerBatch, Closed, Stale, Executes, Holding, OpOf, RevisionOf
    <2>4. FailuresEscalated'
      BY NoKeyIsNoKey DEF FailuresEscalated, Unsettled, QueueInvariant, HoldsKey, Holding
    <2> QED
      BY <2>1, <2>2, <2>3, <2>4
  <1>2. CASE PassClaimed(p)
    <2> USE <1>2 DEF PassClaimed, At, Goto, opVars, auditVars, tables, rowVars, queueVars, callVars,
          bounds, TypeOK, ProcessTypes
    <2>1. NothingIsAhead'
      BY DEF NothingIsAhead, OpOf, RevisionOf
    <2>2. OutcomesAreTrue'
      BY DEF OutcomesAreTrue
    <2>3. OneExecutionPerBatch'
      BY DEF OneExecutionPerBatch, Closed, Stale, Executes, Holding, OpOf, RevisionOf
    <2>4. FailuresEscalated'
      BY DEF FailuresEscalated, Unsettled
    <2> QED
      BY <2>1, <2>2, <2>3, <2>4
  <1>3. CASE ExecuteScheduled(p)
    <2> USE <1>3 DEF ExecuteScheduled, TestRevision, At, Goto, opVars, auditVars, tables, rowVars,
          queueVars, bounds, TypeOK, ProcessTypes
    <2>0. /\ key' = key /\ key[p] \in Keys /\ execution[key[p]] = "none"
          /\ \/ pc'[p] = "returned" /\ result'[p] = "refused"
             \/ pc'[p] = "begin" /\ key[p] = CurrentKey(OpOf(key[p]))
      BY DEF RecordFollowsClaim, QueueInvariant, HoldsKey, Holding
    <2>1. NothingIsAhead'
      BY <2>0 DEF NothingIsAhead, OpOf, RevisionOf
    <2>2. OutcomesAreTrue'
      BY <2>0 DEF OutcomesAreTrue
    <2>3. OneExecutionPerBatch'
      <3> SUFFICES ASSUME NEW q \in Processes
                   PROVE  /\ Executes(q)' => Closed(q)' = {} /\ \A k \in batch'[q] : Stale(k)'
                          /\ Closed(q)' # {} => /\ \A k \in batch'[q] : Stale(k)'
                                                /\ pc'[q] \in Holding => Stale(key[q])'
                          /\ \A x, y \in Closed(q)' : x = y
                          /\ pc'[q] = "finalizing" => Closed(q)' = {}
        BY DEF OneExecutionPerBatch
      <3>1. /\ Closed(q)' = Closed(q) /\ batch'[q] = batch[q] /\ key'[q] = key[q]
            /\ \A k : Stale(k)' <=> Stale(k)
        BY <2>0 DEF Closed, Stale, OpOf, RevisionOf
      <3>2. CASE q # p
        BY <3>1, <3>2 DEF Executes, OneExecutionPerBatch
      <3>3. CASE q = p /\ pc'[p] = "begin"
        <4>1. (\A k \in batch[p] : Stale(k)) /\ ~Stale(key[p])
          BY <2>0, <3>3, OthersAreStale
        <4> QED
          BY <4>1, <3>1, <3>3 DEF OneExecutionPerBatch, Holding
      <3>4. CASE q = p /\ pc'[p] = "returned" /\ result'[p] = "refused"
        BY <3>1, <3>4 DEF OneExecutionPerBatch, Holding, Executes
      <3> QED
        BY <2>0, <3>2, <3>3, <3>4
    <2>4. FailuresEscalated'
      BY <2>0 DEF FailuresEscalated, Unsettled
    <2> QED
      BY <2>1, <2>2, <2>3, <2>4
  <1> QED
    BY <1>1, <1>2, <1>3

\* What closing its row adds to the outcomes of p.
ClosesAs(p, y) ==
  /\ outcomes'[p] = outcomes[p] \cup {y}
  /\ y.key = key[p] /\ schedule'[key[p]] = y.row
  /\ y.row \in {"dispatched", "failed", "cancelled"}
  /\ y.row = "dispatched" /\ y.execution = "succeeded" => execution[key[p]] = "succeeded"
  /\ y.row # "cancelled" => Executes(p)

\* Closing a row turns the key that was executed into an outcome.
LEMMA ClosingKeepsEscalation ==
  ASSUME TypeOK, TypeOK', QueueInvariant, RecordFollowsClaim, NothingIsAhead, OutcomesAreTrue,
         OneExecutionPerBatch, FailuresEscalated, NEW p \in Processes,
         BlockClaimed(p) \/ FinishDispatch(p)
  PROVE  (NothingIsAhead /\ OutcomesAreTrue /\ OneExecutionPerBatch /\ FailuresEscalated)'
  <1>1. /\ UNCHANGED <<revision, execution, batch, role, escalated, crashes>>
        /\ key[p] \in Keys /\ schedule[key[p]] = "dispatching" /\ pc[p] \in Holding
        /\ key'[p] = NoKey /\ pc'[p] = "claiming" /\ result'[p] = "none"
    BY NoKeyIsNoKey DEF BlockClaimed, FinishDispatch, CloseRow, At, Goto, opVars, auditVars, bounds,
       TypeOK, ProcessTypes, RowTypes, QueueInvariant, HoldsKey, RoleAtLabel, QueueLabels,
       HeldRowIsClaimed, Holding
  <1>2. /\ \A k \in Keys : k # key[p] => schedule'[k] = schedule[k]
        /\ \A q \in Processes \ {p} : /\ pc'[q] = pc[q] /\ key'[q] = key[q] /\ result'[q] = result[q]
                                      /\ outcomes'[q] = outcomes[q]
    BY DEF BlockClaimed, FinishDispatch, CloseRow, At, Goto, TypeOK, ProcessTypes, RowTypes
  <1>3. PICK y : ClosesAs(p, y)
    <2>1. CASE BlockClaimed(p)
      <3> DEFINE z == [key |-> key[p], row |-> "cancelled", execution |-> "none"]
      <3>1. outcomes'[p] = outcomes[p] \cup {z} /\ schedule'[key[p]] = "cancelled"
        BY <1>1, <2>1 DEF BlockClaimed, CloseRow, TypeOK, ProcessTypes, RowTypes
      <3>2. z.key = key[p] /\ z.row = "cancelled"
        OBVIOUS
      <3> HIDE DEF z
      <3> QED
        BY <3>1, <3>2 DEF ClosesAs
    <2>2. ASSUME FinishDispatch(p), result[p] \in ExecutionStatus,
                 CloseRow(p, "dispatched", result[p])
          PROVE  \E y : ClosesAs(p, y)
      <3> DEFINE z == [key |-> key[p], row |-> "dispatched", execution |-> result[p]]
      <3>1. outcomes'[p] = outcomes[p] \cup {z} /\ schedule'[key[p]] = "dispatched"
        BY <1>1, <2>2 DEF CloseRow, TypeOK, ProcessTypes, RowTypes
      <3>2. z.key = key[p] /\ z.row = "dispatched" /\ z.execution = result[p]
        OBVIOUS
      <3>3. Executes(p) /\ (result[p] = "succeeded" => execution[key[p]] = "succeeded")
        BY <2>2 DEF FinishDispatch, At, Executes, ExecutionStatus, OutcomesAreTrue
      <3> HIDE DEF z
      <3> QED
        BY <3>1, <3>2, <3>3 DEF ClosesAs
    <2>3. ASSUME FinishDispatch(p), result[p] = "refused", CloseRow(p, "cancelled", "none")
          PROVE  \E y : ClosesAs(p, y)
      <3> DEFINE z == [key |-> key[p], row |-> "cancelled", execution |-> "none"]
      <3>1. outcomes'[p] = outcomes[p] \cup {z} /\ schedule'[key[p]] = "cancelled"
        BY <1>1, <2>3 DEF CloseRow, TypeOK, ProcessTypes, RowTypes
      <3>2. z.key = key[p] /\ z.row = "cancelled"
        OBVIOUS
      <3> HIDE DEF z
      <3> QED
        BY <3>1, <3>2 DEF ClosesAs
    <2>4. ASSUME FinishDispatch(p), result[p] = "error", CloseRow(p, "failed", "none")
          PROVE  \E y : ClosesAs(p, y)
      <3> DEFINE z == [key |-> key[p], row |-> "failed", execution |-> "none"]
      <3>1. outcomes'[p] = outcomes[p] \cup {z} /\ schedule'[key[p]] = "failed"
        BY <1>1, <2>4 DEF CloseRow, TypeOK, ProcessTypes, RowTypes
      <3>2. z.key = key[p] /\ z.row = "failed"
        OBVIOUS
      <3>3. Executes(p)
        BY <2>4 DEF FinishDispatch, At, Executes
      <3> HIDE DEF z
      <3> QED
        BY <3>1, <3>2, <3>3 DEF ClosesAs
    <2>5. CASE FinishDispatch(p)
      BY <2>2, <2>3, <2>4, <2>5, Zenon DEF FinishDispatch
    <2> QED
      BY <2>1, <2>5, Zenon
  <1>4. \A q \in Processes : \A z \in outcomes[q] : z.key \in Keys /\ z.key # key[p]
    BY <1>1 DEF TypeOK, ProcessTypes, Outcomes, OutcomesAreTrue
  <1>5. NothingIsAhead'
    <2>1. \A k \in Keys : schedule'[k] # "none" => RevisionOf(k) <= revision[OpOf(k)]
      BY <1>1, <1>2 DEF NothingIsAhead
    <2>2. \A q \in Processes : \A k \in batch[q] :
            k \in Keys /\ RevisionOf(k) <= revision[OpOf(k)] /\ k # key'[q]
      BY <1>1, <1>2, NoKeyIsNoKey DEF NothingIsAhead, TypeOK, ProcessTypes
    <2> QED
      BY <1>1, <2>1, <2>2 DEF NothingIsAhead, OpOf, RevisionOf
  <1>6. OutcomesAreTrue'
    <2>1. role[p] = "queue"
      BY <1>1 DEF RecordFollowsClaim
    <2>2. \A q \in Processes :
            role'[q] # "queue" \/ pc'[q] = "idle" => batch'[q] = {} /\ outcomes'[q] = {}
      BY <1>1, <1>2, <2>1 DEF OutcomesAreTrue
    <2>3. ASSUME NEW q \in Processes, NEW z \in outcomes'[q]
          PROVE  /\ z.row \in {"dispatched", "failed", "cancelled"} /\ schedule'[z.key] = z.row
                 /\ z.row = "dispatched" /\ z.execution = "succeeded"
                      => execution'[z.key] = "succeeded"
      <3>1. CASE z \in outcomes[q]
        BY <1>1, <1>2, <1>4, <3>1 DEF OutcomesAreTrue
      <3>2. CASE z \notin outcomes[q]
        <4>1. z = y
          BY <1>2, <1>3, <2>3, <3>2 DEF ClosesAs
        <4> QED
          BY <1>1, <1>3, <4>1 DEF ClosesAs
      <3> QED
        BY <3>1, <3>2
    <2>4. \A q \in Processes :
            pc'[q] = "returned" /\ result'[q] = "succeeded" => execution'[key'[q]] = "succeeded"
      BY <1>1, <1>2 DEF OutcomesAreTrue
    <2> QED
      BY <2>2, <2>3, <2>4 DEF OutcomesAreTrue
  <1>7. OneExecutionPerBatch'
    <2> SUFFICES ASSUME NEW q \in Processes
                 PROVE  /\ Executes(q)' => Closed(q)' = {} /\ \A k \in batch'[q] : Stale(k)'
                        /\ Closed(q)' # {} => /\ \A k \in batch'[q] : Stale(k)'
                                              /\ pc'[q] \in Holding => Stale(key[q])'
                        /\ \A z, u \in Closed(q)' : z = u
                        /\ pc'[q] = "finalizing" => Closed(q)' = {}
      BY DEF OneExecutionPerBatch
    <2>1. (\A k : Stale(k)' <=> Stale(k)) /\ batch'[q] = batch[q]
      BY <1>1 DEF Stale, OpOf, RevisionOf
    <2>2. CASE q # p
      <3>1. Closed(q)' = Closed(q) /\ key'[q] = key[q] /\ pc'[q] = pc[q] /\ result'[q] = result[q]
        BY <1>2, <2>2 DEF Closed
      <3> QED
        BY <2>1, <3>1 DEF Executes, OneExecutionPerBatch
    <2>3. CASE q = p
      <3>1. ~Executes(p)' /\ pc'[p] \notin Holding /\ pc'[p] # "finalizing"
        BY <1>1 DEF Executes, Holding
      <3>2. CASE y.row = "cancelled"
        <4>1. Closed(p)' = Closed(p)
          BY <1>3, <3>2 DEF Closed, ClosesAs
        <4> QED
          BY <2>1, <2>3, <3>1, <4>1 DEF OneExecutionPerBatch
      <3>3. CASE y.row # "cancelled"
        <4>1. Closed(p) = {} /\ \A k \in batch[p] : Stale(k)
          BY <1>3, <3>3 DEF ClosesAs, OneExecutionPerBatch
        <4>2. Closed(p)' = {y}
          BY <1>3, <3>3, <4>1 DEF Closed, ClosesAs
        <4> QED
          BY <2>1, <2>3, <3>1, <4>1, <4>2
      <3> QED
        BY <3>2, <3>3
    <2> QED
      BY <2>2, <2>3
  <1>8. FailuresEscalated'
    <2> SUFFICES ASSUME crashes = 0, NEW k \in Keys, execution[k] \in {"failed", "unknown"},
                        k \notin escalated
                 PROVE  Unsettled(k)'
      BY <1>1 DEF FailuresEscalated
    <2>1. PICK q \in Processes : key[q] = k \/ \E z \in outcomes[q] : z.key = k
      BY Zenon DEF FailuresEscalated, Unsettled
    <2>2. CASE q = p
      <3>1. \E z \in outcomes'[p] : z.key = k
        BY <1>3, <2>1, <2>2 DEF ClosesAs
      <3> QED
        BY <3>1 DEF Unsettled
    <2>3. CASE q # p
      <3>1. key'[q] = k \/ \E z \in outcomes'[q] : z.key = k
        BY <1>2, <2>1, <2>3
      <3> QED
        BY <3>1 DEF Unsettled
    <2> QED
      BY <2>2, <2>3
  <1> QED
    BY <1>5, <1>6, <1>7, <1>8

\* A step that acts on an execution keeps what is known of the batches.
LEMMA ActKeepsEscalation ==
  ASSUME TypeOK, TypeOK', QueueInvariant, RecordFollowsClaim, NothingIsAhead, OutcomesAreTrue,
         OneExecutionPerBatch, FailuresEscalated, OneOperation, Immediate = {},
         NEW p \in Processes, Acts(p)
  PROVE  (NothingIsAhead /\ OutcomesAreTrue /\ OneExecutionPerBatch /\ FailuresEscalated)'
  <1>1. ASSUME NEW o \in Ops PROVE ~ExecuteNow(p, o)
    BY DEF ExecuteNow
  <1>2. ~ReconcileClaimed(p)
    BY DEF ReconcileClaimed, At, RecordFollowsClaim
  <1>3. CASE (\E k \in Keys : Claim(p, k)) \/ PassClaimed(p) \/ ExecuteScheduled(p)
    BY <1>3, ClaimingKeepsEscalation
  <1>4. CASE BlockClaimed(p) \/ FinishDispatch(p)
    BY <1>4, ClosingKeepsEscalation
  <1>5. CASE Execute(p)
    BY <1>5, ExecutionsProceed, ProceedingKeepsEscalation
  <1> QED
    BY <1>1, <1>2, <1>3, <1>4, <1>5, Zenon DEF Acts

\* Nothing is scheduled, batched or failed at the start.
LEMMA EscalationInit == Init => EscalationInvariant
  BY DEF Init, EscalationInvariant, NothingIsAhead, OutcomesAreTrue, OneExecutionPerBatch,
     FailuresEscalated, Executes, Closed, Holding

\* Each step keeps the invariant: time, the administrator and stuttering touch nothing of it.
LEMMA EscalationStep ==
  ASSUME TypeOK, TypeOK', QueueInvariant, GraceInvariant, EscalationInvariant, [Next]_vars
  PROVE  EscalationInvariant'
  <1> SUFFICES ASSUME Immediate = {}, OneOperation
               PROVE  (NothingIsAhead /\ OutcomesAreTrue /\ OneExecutionPerBatch
                        /\ FailuresEscalated)'
    BY DEF EscalationInvariant, OneOperation
  <1>1. /\ RecordFollowsClaim /\ NothingIsAhead /\ OutcomesAreTrue /\ OneExecutionPerBatch
        /\ FailuresEscalated
    BY DEF EscalationInvariant, GraceInvariant
  <1>2. ASSUME NEW p \in Processes, ReceiveMail(p) \/ Work(p) \/ SelectDue(p) \/ Crash(p)
        PROVE  (NothingIsAhead /\ OutcomesAreTrue /\ OneExecutionPerBatch /\ FailuresEscalated)'
    <2>1. CASE Acts(p)
      BY <1>1, <2>1, ActKeepsEscalation
    <2>2. CASE ~Acts(p)
      <3>1. Quiet(p)
        BY <1>2, <2>2, ProcessStepKinds DEF QueueInvariant
      <3>2. Settles(p) /\ SchedulesTheCurrent
        BY <1>1, <1>2, <2>2, QuietSettles
      <3> QED
        BY <1>1, <3>1, <3>2, StepsGoForward, QuietKeepsEscalation
    <2> QED
      BY <2>1, <2>2
  <1>3. ASSUME UNCHANGED <<revision, schedule, execution, escalated, crashes, procVars>>
        PROVE  (NothingIsAhead /\ OutcomesAreTrue /\ OneExecutionPerBatch /\ FailuresEscalated)'
    <2>1. UNCHANGED <<batch, outcomes, key, role, pc, result>>
      BY <1>3 DEF procVars, queueVars, callVars
    <2>2. NothingIsAhead' /\ OutcomesAreTrue'
      BY <1>1, <1>3, <2>1 DEF NothingIsAhead, OutcomesAreTrue, OpOf, RevisionOf
    <2>3. OneExecutionPerBatch'
      BY <1>1, <1>3, <2>1 DEF OneExecutionPerBatch, Closed, Executes, Stale, OpOf, RevisionOf
    <2>4. FailuresEscalated'
      BY <1>1, <1>3, <2>1 DEF FailuresEscalated, Unsettled
    <2> QED
      BY <2>2, <2>3, <2>4
  <1>4. ASSUME NEW k \in Keys, GraceElapses(k)
        PROVE  UNCHANGED <<revision, schedule, execution, escalated, crashes, procVars>>
    BY <1>4 DEF GraceElapses, opVars, auditVars, bounds
  <1>5. CASE ResolveEscalation
    BY <1>3, <1>5 DEF ResolveEscalation, rowVars, auditVars, bounds
  <1>6. CASE UNCHANGED vars
    BY <1>3, <1>6 DEF vars, tables, opVars, rowVars, auditVars, bounds
  <1> QED
    BY <1>2, <1>3, <1>4, <1>5, <1>6, Zenon DEF Next

\* A failed or unknown execution reaches a person although a settlement may be abandoned:
\* with one operation no batch has a second outcome to lose.
THEOREM FailuresReachAPerson ==
  ASSUME Immediate = {}, \A a, b \in Ops : a = b
  PROVE  Spec => []FailuresEscalated
  <1>1. (TypeOK /\ QueueInvariant) /\ (TypeOK /\ QueueInvariant)' /\ GraceInvariant
          /\ EscalationInvariant /\ [Next]_vars => EscalationInvariant'
    BY EscalationStep
  <1>2. EscalationInvariant => FailuresEscalated
    BY DEF EscalationInvariant, OneOperation
  <1> QED
    BY <1>1, <1>2, EscalationInit, GraceInvariantHolds, QueueInvariantHolds, PTL DEF Spec
-----------------------------------------------------------------------------
(* Settled rows *)

\* A step that acts on an execution changes only rows that are open.
LEMMA ActSettles ==
  ASSUME TypeOK, QueueInvariant, NEW p \in Processes, Acts(p)
  PROVE  \A k \in Keys : RowSettles(k)
  <1> USE DEF TypeOK, RowTypes, ProcessTypes, tables, rowVars, QueueInvariant, HoldsKey,
        RoleAtLabel, HeldRowIsClaimed, AtTheCall, Holding, QueueLabels,
        ExecutionStatus, RowSettles, At
  <1>1. ASSUME NEW o \in Ops, ExecuteNow(p, o) PROVE \A row \in Keys : RowSettles(row)
    BY <1>1 DEF ExecuteNow
  <1>2. ASSUME NEW k \in Keys, Claim(p, k) PROVE \A row \in Keys : RowSettles(row)
    BY <1>2 DEF Claim
  <1>3. CASE ReconcileClaimed(p)
    BY <1>3 DEF ReconcileClaimed, CloseRow
  <1>4. CASE BlockClaimed(p)
    BY <1>4 DEF BlockClaimed, CloseRow
  <1>5. CASE PassClaimed(p)
    BY <1>5 DEF PassClaimed
  <1>6. CASE ExecuteScheduled(p)
    BY <1>6 DEF ExecuteScheduled
  <1>7. CASE BeginExecution(p)
    BY <1>7 DEF BeginExecution
  <1>8. CASE RejectPreflight(p)
    BY <1>8 DEF RejectPreflight
  <1>9. CASE DuplicateExecutionKey(p)
    BY <1>9 DEF DuplicateExecutionKey
  <1>10. CASE CallBusinessAPI(p)
    BY <1>10 DEF CallBusinessAPI, Answers
  <1>11. CASE RecordAccepted(p)
    BY <1>11, SMTT(20) DEF RecordAccepted
  <1>12. CASE AcceptedTooLate(p)
    BY <1>12, SMTT(20) DEF AcceptedTooLate
  <1>13. CASE RecordFailure(p)
    BY <1>13, SMTT(20) DEF RecordFailure, RecordedOutcome
  <1>14. CASE FinishDispatch(p)
    BY <1>14, SMTT(20) DEF FinishDispatch, CloseRow
  <1> QED
    BY <1>1, <1>2, <1>3, <1>4, <1>5, <1>6, <1>7, <1>8, <1>9, <1>10, <1>11,
       <1>12, <1>13, <1>14 DEF Acts, Execute

\* A recorded outcome and a closed row are final.
THEOREM SettledRowsStay == Spec => RowsSettle
  <1>1. TypeOK /\ QueueInvariant /\ [Next]_vars => [\A k \in Keys : RowSettles(k)]_vars
    <2> SUFFICES ASSUME TypeOK, QueueInvariant, [Next]_vars
                 PROVE  \A k \in Keys : RowSettles(k)
      OBVIOUS
    <2>1. CASE UNCHANGED executionState
      BY <2>1 DEF executionState, RowSettles
    <2>2. ASSUME NEW p \in Processes, Quiet(p) PROVE \A k \in Keys : RowSettles(k)
      BY <2>2 DEF Quiet, RowSettles
    <2>3. ASSUME NEW p \in Processes, Acts(p) PROVE \A k \in Keys : RowSettles(k)
      BY <2>3, ActSettles
    <2> QED
      BY <2>1, <2>2, <2>3, StepKinds DEF QueueInvariant
  <1> QED
    BY <1>1, QueueInvariantHolds, PTL DEF Spec, RowsSettle
-----------------------------------------------------------------------------
(* One worker *)

\* A step of the worker that leaves the operations and their records alone and
\* is not about to execute.
LeavesOperations(p) ==
  /\ UNCHANGED <<status, revision, execution, calls, applied, customerMail, crashes>>
  /\ request # "ABSENT" /\ request' # "ABSENT"
  /\ pc[p] \notin {"calling", "answered"}
  /\ pc'[p] \notin {"begin", "calling", "answered"}
  /\ pc'[p] \in {"prepared", "analyzing", "analyzing_explicit", "analyzed"}
       => kind'[p] # "new"

\* Such a step keeps what the worker relies on.
LEMMA LeavingKeepsSole ==
  ASSUME TypeOK, SoleWorker, SoleInvariant, NEW p \in Processes, LeavesOperations(p)
  PROVE  SoleInvariant'
  <1> USE DEF LeavesOperations, SoleInvariant
  <1>1. \A q \in Processes : q = p
    BY DEF SoleWorker
  <1>2. Undisturbed'
    BY <1>1 DEF Undisturbed
  <1>3. FirstMailOpensRequest'
    BY <1>1 DEF FirstMailOpensRequest
  <1>4. SummaryIsLast'
    BY DEF SummaryIsLast
  <1>5. NoOrphanWithoutCrash'
    BY <1>1 DEF NoOrphanWithoutCrash
  <1>6. ~DryRun => CompletedAsRecorded'
    BY DEF CompletedAsRecorded, CurrentKey
  <1> QED
    BY <1>2, <1>3, <1>4, <1>5, <1>6 DEF SoleWorker

\* A worker that is not idle and not at its first mail has a request.
LEMMA BusyHasRequest ==
  ASSUME SoleWorker, SoleInvariant, NEW p \in Processes,
         pc[p] # "idle", ~(pc[p] = "analyzed" /\ kind[p] = "new")
  PROVE  request # "ABSENT"
  BY DEF SoleInvariant, FirstMailOpensRequest

\* The steps of the worker between the analysis and the release of a mail that
\* only cancel, schedule or give up.
LEMMA MailLeavesOperations ==
  ASSUME TypeOK, SoleWorker, SoleInvariant, NEW p \in Processes,
         \/ BeginFollowUp(p)
         \/ CancelOnExplicitText(p) \/ NoExplicitText(p) \/ Analyze(p) \/ AnalyzerFails(p)
         \/ NoSeparableOperation(p) \/ LeaveRequestAlone(p)
         \/ DecisionsDone(p) \/ ReleasesDone(p) \/ ExecutionReturned(p)
         \/ ExecutionRaised(p) \/ FinalizeRaises(p)
         \/ \E o \in Ops : DecideForbidden(p, o) \/ Schedule(p, o) \/ ScheduleRefused(p, o)
  PROVE  LeavesOperations(p)
  <1> USE DEF TypeOK, RequestTypes, ProcessTypes, MailTypes, At, Goto, Reset, MailFails,
          tables, opVars, requestVars, apiVars, rowVars, bounds, mailVars, LeavesOperations
  <1>1. CASE BeginFollowUp(p)
    BY <1>1 DEF BeginFollowUp
  <1>2. CASE CancelOnExplicitText(p) \/ NoExplicitText(p) \/ Analyze(p) \/ AnalyzerFails(p)
    <2>1. pc[p] \in {"prepared", "analyzing", "analyzing_explicit"}
      BY <1>2 DEF CancelOnExplicitText, NoExplicitText, Analyze, AnalyzerFails
    <2>2. request # "ABSENT" /\ kind[p] # "new"
      BY <2>1, BusyHasRequest DEF SoleInvariant, FirstMailOpensRequest
    <2> QED
      BY <1>2, <2>1, <2>2 DEF CancelOnExplicitText, NoExplicitText, Analyze,
         AnalyzerFails, CancelScheduledForRequest
  <1>3. CASE NoSeparableOperation(p) \/ LeaveRequestAlone(p)
    BY <1>3, BusyHasRequest DEF NoSeparableOperation, LeaveRequestAlone
  <1>4. CASE DecisionsDone(p) \/ ReleasesDone(p) \/ ExecutionReturned(p)
    BY <1>4, BusyHasRequest DEF DecisionsDone, ReleasesDone, ExecutionReturned
  <1>5. CASE ExecutionRaised(p) \/ FinalizeRaises(p)
    BY <1>5, BusyHasRequest DEF ExecutionRaised, FinalizeRaises
  <1>6. ASSUME NEW o \in Ops, DecideForbidden(p, o) \/ Schedule(p, o) \/ ScheduleRefused(p, o)
        PROVE  LeavesOperations(p)
    BY <1>6, BusyHasRequest DEF DecideForbidden, Schedule, ScheduleRefused
  <1> QED
    BY <1>1, <1>2, <1>3, <1>4, <1>5, <1>6

\* So do the steps of the worker that claim and close rows.
LEMMA DispatchLeavesOperations ==
  ASSUME TypeOK, SoleWorker, SoleInvariant, NEW p \in Processes,
         \/ SelectDue(p) \/ \E k \in Keys : Claim(p, k) \/ ClaimLost(p, k)
         \/ ReconcileClaimed(p) \/ BlockClaimed(p) \/ PassClaimed(p)
         \/ FinishDispatch(p) \/ BatchDone(p) \/ SettlementDone(p)
         \/ DuplicateExecutionKey(p)
  PROVE  LeavesOperations(p)
  <1> USE DEF TypeOK, RequestTypes, RowTypes, ProcessTypes, MailTypes, At, Goto, Reset,
          tables, opVars, requestVars, apiVars, rowVars, bounds, CloseRow, LeavesOperations
  <1>1. CASE SelectDue(p)
    BY <1>1 DEF SelectDue, SoleInvariant, FirstMailOpensRequest
  <1>2. ASSUME NEW k \in Keys, Claim(p, k) \/ ClaimLost(p, k) PROVE LeavesOperations(p)
    BY <1>2, BusyHasRequest DEF Claim, ClaimLost
  <1>3. CASE ReconcileClaimed(p) \/ BlockClaimed(p) \/ PassClaimed(p)
    BY <1>3, BusyHasRequest DEF ReconcileClaimed, BlockClaimed, PassClaimed
  <1>4. CASE FinishDispatch(p)
    BY <1>4, BusyHasRequest DEF FinishDispatch
  <1>5. CASE BatchDone(p) \/ SettlementDone(p) \/ DuplicateExecutionKey(p)
    BY <1>5, BusyHasRequest DEF BatchDone, SettlementDone, DuplicateExecutionKey
  <1> QED
    BY <1>1, <1>2, <1>3, <1>4, <1>5

\* The worker tests the revision its operation has, and finds it ready or does
\* not execute.
LEMMA TestKeepsSole ==
  ASSUME TypeOK, SoleWorker, SoleInvariant, NEW p \in Processes,
         (\E o \in Ops : ExecuteNow(p, o)) \/ ExecuteScheduled(p),
         pc[p] = "dispatch" => key[p] \in Keys
  PROVE  SoleInvariant'
  <1> USE DEF TypeOK, RowTypes, ProcessTypes, OperationTypes, At, Goto, tables, opVars,
          requestVars, apiVars, rowVars, bounds
  <1>1. pc[p] \in {"releasing", "dispatch"} /\ request # "ABSENT"
    BY BusyHasRequest DEF ExecuteNow, ExecuteScheduled
  <1>2. UNCHANGED <<status, revision, execution, applied, customerMail, crashes, request>>
    BY DEF ExecuteNow, ExecuteScheduled
  <1>3. /\ pc'[p] \in {"begin", "returned"}
        /\ pc'[p] = "begin" => key'[p] = CurrentKey(OpOf(key'[p])) /\ Ready(OpOf(key'[p]))
    <2>1. ASSUME NEW o \in Ops, ExecuteNow(p, o)
          PROVE  /\ pc'[p] \in {"begin", "returned"}
                 /\ pc'[p] = "begin" => key'[p] = CurrentKey(o) /\ Ready(OpOf(CurrentKey(o)))
      BY <2>1 DEF ExecuteNow, TestRevision, CurrentKey, Keys
    <2>2. \A o : OpOf(CurrentKey(o)) = o
      BY DEF OpOf, CurrentKey
    <2>3. CASE ExecuteScheduled(p)
      BY <2>3 DEF ExecuteScheduled, TestRevision
    <2> QED
      BY <2>1, <2>2, <2>3
  <1>4. \A q \in Processes : q = p
    BY DEF SoleWorker
  <1>5. Undisturbed'
    BY <1>2, <1>3, <1>4 DEF Undisturbed, CurrentKey, Ready
  <1>6. FirstMailOpensRequest'
    BY <1>1, <1>2, <1>3, <1>4 DEF FirstMailOpensRequest
  <1>7. (SummaryIsLast /\ (~DryRun => CompletedAsRecorded))'
    BY <1>2 DEF SoleInvariant, SummaryIsLast, CompletedAsRecorded, CurrentKey
  <1>8. NoOrphanWithoutCrash'
    BY <1>1, <1>2, <1>4 DEF SoleInvariant, NoOrphanWithoutCrash
  <1> QED
    BY <1>5, <1>6, <1>7, <1>8 DEF SoleInvariant

\* Around the call the operation is the worker's: it goes from ready to
\* executing and from there to its outcome.
LEMMA CallKeepsSole ==
  ASSUME TypeOK, HoldsKey, AtTheCall, SoleWorker, SoleInvariant, NEW p \in Processes,
         \/ BeginExecution(p) \/ RejectPreflight(p) \/ CallBusinessAPI(p)
         \/ RecordAccepted(p) \/ AcceptedTooLate(p) \/ RecordFailure(p)
  PROVE  SoleInvariant'
  <1> DEFINE o == OpOf(key[p])
  <1> USE DEF TypeOK, RowTypes, ProcessTypes, OperationTypes, At, Goto, tables, opVars,
          requestVars, apiVars, rowVars, bounds
  <1>1. pc[p] \in {"begin", "calling", "answered"}
    BY DEF BeginExecution, RejectPreflight, CallBusinessAPI, RecordAccepted,
       AcceptedTooLate, RecordFailure
  <1>2. key[p] \in Keys /\ o \in Ops /\ key[p] = CurrentKey(o)
    BY <1>1 DEF HoldsKey, Holding, SoleInvariant, Undisturbed, Keys, OpOf
  <1>3. UNCHANGED <<revision, customerMail, crashes, request, schedule, kind>>
    BY DEF BeginExecution, RejectPreflight, CallBusinessAPI, RecordAccepted,
       AcceptedTooLate, RecordFailure, mailVars
  <1>4. request # "ABSENT" /\ key' = key /\ pc'[p] \in {"calling", "answered", "returned"}
    BY <1>1, BusyHasRequest DEF BeginExecution, RejectPreflight, CallBusinessAPI,
       RecordAccepted, AcceptedTooLate, RecordFailure, callVars
  <1>5. /\ pc[p] = "begin" => status[o] = "READY_FOR_VALIDATION"
        /\ pc[p] \in {"calling", "answered"} => status[o] = "EXECUTING"
    BY DEF SoleInvariant, Undisturbed, Ready
  <1>6. \/ /\ pc'[p] = "calling" /\ status' = [status EXCEPT ![o] = "EXECUTING"]
           /\ execution' = [execution EXCEPT ![key[p]] = "pending"] /\ applied' = applied
        \/ /\ pc'[p] = "answered" /\ status' = status /\ execution' = execution
           /\ applied \subseteq applied' /\ pc[p] = "calling"
        \/ /\ pc'[p] = "returned" /\ status' = [status EXCEPT ![o] = "COMPLETED"]
           /\ execution' = [execution EXCEPT ![key[p]] = "succeeded"] /\ applied' = applied
           /\ key[p] \in applied
        \/ /\ pc'[p] = "returned" /\ status' = [status EXCEPT ![o] = "ESCALATED"]
           /\ execution' \in {[execution EXCEPT ![key[p]] = x] : x \in {"failed", "unknown"}}
           /\ applied' = applied
    <2>1. CASE BeginExecution(p)
      BY <2>1 DEF BeginExecution
    <2>2. CASE RejectPreflight(p)
      BY <2>2 DEF RejectPreflight
    <2>3. CASE CallBusinessAPI(p)
      BY <2>3 DEF CallBusinessAPI
    <2>4. CASE RecordAccepted(p)
      BY <2>4 DEF RecordAccepted, AtTheCall
    <2>5. CASE AcceptedTooLate(p)
      BY <1>5, <2>5 DEF AcceptedTooLate, OperationMayBecome, OperationTransitions
    <2>6. CASE RecordFailure(p)
      BY <2>6 DEF RecordFailure, RecordedOutcome
    <2> QED
      BY <2>1, <2>2, <2>3, <2>4, <2>5, <2>6
  <1> HIDE DEF o
  <1>7. \A q \in Processes : q = p
    BY DEF SoleWorker
  <1>8. Undisturbed'
    BY <1>2, <1>3, <1>4, <1>5, <1>6, <1>7 DEF Undisturbed, CurrentKey, o
  <1>9. FirstMailOpensRequest'
    BY <1>3, <1>4, <1>7 DEF FirstMailOpensRequest
  <1>10. SummaryIsLast'
    <2>1. "summary" \in customerMail => status[o] \in SummaryStatus
      BY <1>2 DEF SoleInvariant, SummaryIsLast
    <2>2. "summary" \notin customerMail
      BY <1>1, <1>5, <2>1 DEF SummaryStatus
    <2> QED
      BY <1>3, <2>2 DEF SummaryIsLast
  <1>11. NoOrphanWithoutCrash'
    <2>1. ASSUME crashes = 0, NEW k \in Keys, execution'[k] = "pending"
          PROVE  k = key[p] /\ pc'[p] \in {"calling", "answered"}
      BY <1>1, <1>2, <1>6, <1>7, <2>1 DEF SoleInvariant, NoOrphanWithoutCrash
    <2> QED
      BY <1>3, <1>4, <2>1 DEF NoOrphanWithoutCrash
  <1>12. ~DryRun => CompletedAsRecorded'
    BY <1>2, <1>3, <1>6 DEF SoleInvariant, CompletedAsRecorded, CurrentKey
  <1> QED
    BY <1>8, <1>9, <1>10, <1>11, <1>12 DEF SoleInvariant

\* A step of the worker that changes operations it does not execute completes
\* none, and leaves none open that was summed up.
ChangesOperations(p) ==
  /\ UNCHANGED <<execution, calls, applied, crashes>>
  /\ request' # "ABSENT"
  /\ pc[p] \notin {"calling", "answered"}
  /\ pc'[p] \in {"verifying", "finalizing", "settling", "idle"}
  /\ \A o \in Ops : /\ status'[o] = "COMPLETED" <=> status[o] = "COMPLETED"
                    /\ status[o] = "COMPLETED" => revision'[o] = revision[o]
  /\ "summary" \in customerMail' => \A o \in Ops : status'[o] \in SummaryStatus

\* Such a step keeps what the worker relies on.
LEMMA ChangingKeepsSole ==
  ASSUME TypeOK, SoleWorker, SoleInvariant, NEW p \in Processes, ChangesOperations(p)
  PROVE  SoleInvariant'
  <1> USE DEF ChangesOperations, SoleInvariant
  <1>1. \A q \in Processes : q = p
    BY DEF SoleWorker
  <1>2. Undisturbed'
    BY <1>1 DEF Undisturbed
  <1>3. FirstMailOpensRequest'
    BY <1>1 DEF FirstMailOpensRequest
  <1>4. SummaryIsLast'
    BY DEF SummaryIsLast
  <1>5. NoOrphanWithoutCrash'
    BY <1>1 DEF NoOrphanWithoutCrash
  <1>6. ~DryRun => CompletedAsRecorded'
    BY DEF CompletedAsRecorded, CurrentKey
  <1> QED
    BY <1>2, <1>3, <1>4, <1>5, <1>6 DEF SoleWorker

\* The status a decision sets keeps a closed operation closed.
LEMMA DecidedStatusCloses ==
  ASSUME NEW o \in Ops, NEW d \in Decisions \ {"none"},
         OperationMayBecome(status[o], DecidedStatus(d, o))
  PROVE  /\ DecidedStatus(d, o) = "COMPLETED" <=> status[o] = "COMPLETED"
         /\ status[o] \in SummaryStatus => DecidedStatus(d, o) \in SummaryStatus
  BY DEF Decisions, DecidedStatus, OperationMayBecome, OperationTransitions, SummaryStatus

\* The limit of the clarification rounds changes what waits for the customer.
LEMMA LimitKeepsOthers ==
  ASSUME NEW o \in Ops, NEW reply
  PROVE  \/ StatusAfterLimit(reply)[o] = status[o]
         \/ status[o] = "NEEDS_INFORMATION" /\ StatusAfterLimit(reply)[o] = "ESCALATED"
  BY DEF StatusAfterLimit, Waiting

\* The analysis, the decisions, the settlement and the finalisation are steps
\* of this kind.
LEMMA MailChangesOperations ==
  ASSUME TypeOK, SoleWorker, SoleInvariant, NEW p \in Processes,
         \/ CreateOperations(p) \/ ApplyProposals(p)
         \/ \E o \in Ops : VerifierFails(p, o) \/ Decide(p, o)
         \/ SettleOutcome(p) \/ FinalizeMail(p) \/ FinalizeDispatch(p)
  PROVE  ChangesOperations(p)
  <1> USE DEF TypeOK, RequestTypes, RowTypes, OperationTypes, ProcessTypes, MailTypes, At, Goto,
          tables, opVars, requestVars, apiVars, rowVars, bounds, ChangesOperations
  <1>0. "summary" \in customerMail => \A o \in Ops : status[o] \in SummaryStatus
    BY DEF SoleInvariant, SummaryIsLast
  <1>1. CASE CreateOperations(p)
    <2>1. customerMail = {} /\ \A o \in Ops : status[o] = "ABSENT"
      BY <1>1 DEF CreateOperations, SoleInvariant, FirstMailOpensRequest
    <2> QED
      BY <1>1, <2>1 DEF CreateOperations
  <1>2. CASE ApplyProposals(p)
    <2>1. /\ UNCHANGED <<execution, calls, applied, crashes, status, customerMail, request>>
          /\ pc[p] = "analyzed" /\ kind[p] # "new" /\ pc'[p] = "verifying"
      BY <1>2 DEF ApplyProposals
    <2>2. ASSUME NEW o \in Ops, status[o] = "COMPLETED" PROVE revision'[o] = revision[o]
      BY <1>2, <2>2 DEF ApplyProposals, Correctable
    <2> QED
      BY <1>0, <2>1, <2>2, BusyHasRequest
  <1>3. ASSUME NEW o \in Ops, VerifierFails(p, o) PROVE ChangesOperations(p)
    BY <1>0, <1>3, BusyHasRequest DEF VerifierFails, SummaryStatus
  <1>4. ASSUME NEW o \in Ops, Decide(p, o) PROVE ChangesOperations(p)
    <2>1. PICK d \in Decisions \ {"none"} :
            /\ OperationMayBecome(status[o], DecidedStatus(d, o))
            /\ status' = [status EXCEPT ![o] = DecidedStatus(d, o)]
      BY <1>4 DEF Decide
    <2>2. /\ UNCHANGED <<revision, execution, calls, applied, crashes, customerMail, request>>
          /\ pc[p] = "verifying" /\ pc' = pc
      BY <1>4 DEF Decide
    <2> QED
      BY <1>0, <2>1, <2>2, DecidedStatusCloses, BusyHasRequest
  <1>5. CASE SettleOutcome(p)
    <2>1. /\ UNCHANGED <<revision, execution, calls, applied, crashes, customerMail, request>>
          /\ pc[p] = "settling" /\ pc'[p] \in {"settling", "finalizing"}
      BY <1>5 DEF SettleOutcome
    <2>2. \A o \in Ops : \/ status'[o] = status[o]
                         \/ status[o] # "COMPLETED" /\ status'[o] = "ESCALATED"
      BY <1>5 DEF SettleOutcome, OpOf
    <2> QED
      BY <1>0, <2>1, <2>2, BusyHasRequest DEF SummaryStatus
  <1>6. ASSUME NEW reply \in Nat, FinalizeRequest(reply), pc[p] = "finalizing",
               pc'[p] \in {"idle", "settling"}
        PROVE  ChangesOperations(p)
    <2>1. UNCHANGED <<revision, execution, calls, applied, crashes>> /\ request' # "ABSENT"
      BY <1>6, DerivedStatusIsStatus DEF FinalizeRequest, RequestAfter, RequestStatus
    <2>2. \A o \in Ops : \/ status'[o] = status[o]
                         \/ status[o] = "NEEDS_INFORMATION" /\ status'[o] = "ESCALATED"
      <3>1. status' = StatusAfterLimit(reply)
        BY <1>6 DEF FinalizeRequest
      <3> HIDE DEF TypeOK
      <3> QED
        BY <3>1, LimitKeepsOthers
    <2>3. "summary" \in customerMail' => \A o \in Ops : status'[o] \in SummaryStatus
      <3>1. CASE "summary" \in customerMail
        BY <1>0, <2>2, <3>1 DEF SummaryStatus
      <3>2. CASE "summary" \notin customerMail
        BY <1>6, <3>2 DEF FinalizeRequest
      <3> QED
        BY <3>1, <3>2
    <2> QED
      BY <1>6, <2>1, <2>2, <2>3
  <1>7. CASE FinalizeMail(p)
    BY <1>6, <1>7 DEF FinalizeMail, Reset
  <1>8. CASE FinalizeDispatch(p)
    BY <1>6, <1>8 DEF FinalizeDispatch
  <1> QED
    BY <1>1, <1>2, <1>3, <1>4, <1>5, <1>7, <1>8

\* A step of anyone keeps what the worker relies on.
LEMMA SoleStep ==
  ASSUME TypeOK, HoldsKey, AtTheCall, SoleWorker, SoleInvariant, [Next]_vars
  PROVE  SoleInvariant'
  <1> USE DEF TypeOK, RowTypes, ProcessTypes, OperationTypes, RequestTypes, MailTypes,
          At, Goto, tables, opVars, requestVars, apiVars, rowVars, bounds
  <1>1. ASSUME NEW p \in Processes, BeginNewRequest(p) PROVE SoleInvariant'
    <2>1. /\ UNCHANGED <<status, revision, execution, applied, customerMail, crashes,
                         request, schedule>>
          /\ request = "ABSENT" /\ pc[p] = "idle" /\ pc'[p] = "analyzed" /\ kind'[p] = "new"
      BY <1>1 DEF BeginNewRequest
    <2>2. \A q \in Processes : q = p
      BY DEF SoleWorker
    <2>3. Undisturbed' /\ FirstMailOpensRequest' /\ NoOrphanWithoutCrash'
      BY <2>1, <2>2 DEF SoleInvariant, Undisturbed, FirstMailOpensRequest,
         NoOrphanWithoutCrash
    <2>4. SummaryIsLast' /\ (~DryRun => CompletedAsRecorded')
      BY <2>1 DEF SoleInvariant, SummaryIsLast, CompletedAsRecorded, CurrentKey
    <2> QED
      BY <2>3, <2>4 DEF SoleInvariant
  <1>2. CASE ResolveEscalation
    <2>1. /\ UNCHANGED <<revision, execution, applied, customerMail, crashes, procVars>>
          /\ request # "ABSENT" /\ request' # "ABSENT"
      BY <1>2 DEF ResolveEscalation
    <2>2. \A o \in Ops :
            status'[o] = status[o] \/ /\ status[o] = "ESCALATED"
                                      /\ status'[o] \in {"COMPLETED", "CANCELLED"}
                                      /\ DryRun \/ status'[o] # "COMPLETED"
      BY <1>2 DEF ResolveEscalation
    <2>3. Undisturbed'
      <3>1. \A q \in Processes : pc[q] \in {"begin", "calling", "answered"} =>
              OpOf(key[q]) \in Ops
        BY DEF HoldsKey, Holding, OpOf, Keys
      <3> QED
        BY <2>1, <2>2, <3>1 DEF SoleInvariant, Undisturbed, CurrentKey, Ready, procVars,
           callVars
    <2>4. FirstMailOpensRequest' /\ NoOrphanWithoutCrash'
      BY <2>1 DEF SoleInvariant, FirstMailOpensRequest, NoOrphanWithoutCrash, procVars,
         callVars, mailVars
    <2>5. SummaryIsLast' /\ (~DryRun => CompletedAsRecorded')
      BY <2>1, <2>2 DEF SoleInvariant, SummaryIsLast, CompletedAsRecorded, CurrentKey,
         SummaryStatus
    <2> QED
      BY <2>3, <2>4, <2>5 DEF SoleInvariant
  <1>3. ASSUME NEW p \in Processes, Crash(p) PROVE SoleInvariant'
    <2>1. /\ UNCHANGED <<tables>> /\ crashes' # 0
          /\ pc'[p] = "idle" /\ \A q \in Processes : q = p
      BY <1>3 DEF Crash, Reset, SoleWorker
    <2>2. Undisturbed' /\ FirstMailOpensRequest' /\ NoOrphanWithoutCrash'
      BY <2>1 DEF SoleInvariant, Undisturbed, FirstMailOpensRequest, NoOrphanWithoutCrash
    <2>3. SummaryIsLast' /\ (~DryRun => CompletedAsRecorded')
      BY <2>1 DEF SoleInvariant, SummaryIsLast, CompletedAsRecorded, CurrentKey
    <2> QED
      BY <2>2, <2>3 DEF SoleInvariant
  <1>4. CASE UNCHANGED vars \/ \E k \in Keys : GraceElapses(k)
    <2>1. UNCHANGED <<opVars, schedule, execution, requestVars, applied, procVars, crashes>>
      BY <1>4 DEF vars, GraceElapses
    <2>2. Undisturbed' /\ FirstMailOpensRequest' /\ NoOrphanWithoutCrash'
      BY <2>1 DEF SoleInvariant, Undisturbed, FirstMailOpensRequest, NoOrphanWithoutCrash,
         CurrentKey, Ready, procVars, callVars, mailVars
    <2>3. SummaryIsLast' /\ (~DryRun => CompletedAsRecorded')
      BY <2>1 DEF SoleInvariant, SummaryIsLast, CompletedAsRecorded, CurrentKey
    <2> QED
      BY <2>2, <2>3 DEF SoleInvariant
  <1> HIDE DEF TypeOK, At, Goto, tables, opVars, requestVars, apiVars, rowVars, bounds
  <1>5. ASSUME NEW p \in Processes, HandleMail(p) \/ BeginFollowUp(p) \/ FinalizeRaises(p)
        PROVE  SoleInvariant'
    <2>1. ASSUME NEW o \in Ops, ExecuteNow(p, o) PROVE SoleInvariant'
      <3>1. pc[p] # "dispatch"
        BY <2>1 DEF ExecuteNow, At
      <3> QED
        BY <2>1, <3>1, TestKeepsSole
    <2>2. ASSUME LeavesOperations(p) \/ ChangesOperations(p) PROVE SoleInvariant'
      BY <2>2, LeavingKeepsSole, ChangingKeepsSole
    <2> QED
      BY <1>5, <2>1, <2>2, MailLeavesOperations, MailChangesOperations DEF HandleMail
  <1>6. ASSUME NEW p \in Processes, Execute(p) \/ Dispatch(p) \/ SelectDue(p)
        PROVE  SoleInvariant'
    <2>1. CASE ExecuteScheduled(p)
      <3>1. key[p] \in Keys
        BY <2>1 DEF ExecuteScheduled, At, HoldsKey, Holding, TypeOK
      <3> QED
        BY <2>1, <3>1, TestKeepsSole
    <2>2. ASSUME LeavesOperations(p) \/ ChangesOperations(p) PROVE SoleInvariant'
      BY <2>2, LeavingKeepsSole, ChangingKeepsSole
    <2>3. CASE Execute(p)
      BY <2>2, <2>3, CallKeepsSole, DispatchLeavesOperations DEF Execute
    <2> QED
      BY <1>6, <2>1, <2>2, <2>3, DispatchLeavesOperations, MailChangesOperations DEF Dispatch
  <1> QED
    BY <1>1, <1>2, <1>3, <1>4, <1>5, <1>6 DEF Next, ReceiveMail, Work

\* Only the call of execute reaches the business API.
LEMMA OnlyCallsCall ==
  ASSUME [Next]_vars, calls' # calls
  PROVE  \E p \in Processes : CallBusinessAPI(p)
  <1> USE DEF tables, apiVars, opVars, requestVars
  <1>1. ASSUME NEW p \in Processes, HandleMail(p) \/ BeginFollowUp(p) \/ BeginNewRequest(p)
        PROVE  calls' = calls
    BY <1>1 DEF HandleMail, BeginFollowUp, BeginNewRequest, CancelOnExplicitText,
       NoExplicitText, Analyze, AnalyzerFails, CreateOperations, ApplyProposals,
       NoSeparableOperation, LeaveRequestAlone, VerifierFails, Decide, DecideForbidden,
       Schedule, ScheduleRefused, ExecuteNow, DecisionsDone, ReleasesDone,
       ExecutionReturned, ExecutionRaised, FinalizeMail, FinalizeRequest, MailFails
  <1>2. ASSUME NEW p \in Processes, Dispatch(p) \/ SelectDue(p) \/ FinalizeRaises(p) \/ Crash(p)
        PROVE  calls' = calls
    BY <1>2 DEF Dispatch, Claim, ClaimLost, ReconcileClaimed, BlockClaimed, PassClaimed,
       ExecuteScheduled, FinishDispatch, BatchDone, SettleOutcome, SettlementDone,
       FinalizeDispatch, FinalizeRequest, SelectDue, FinalizeRaises, MailFails, Crash
  <1>3. ASSUME NEW p \in Processes, Execute(p) PROVE calls' = calls \/ CallBusinessAPI(p)
    BY <1>3 DEF Execute, BeginExecution, RejectPreflight, DuplicateExecutionKey,
       RecordAccepted, AcceptedTooLate, RecordFailure
  <1>4. CASE UNCHANGED vars \/ ResolveEscalation \/ \E k \in Keys : GraceElapses(k)
    BY <1>4 DEF vars, ResolveEscalation, GraceElapses
  <1> QED
    BY <1>1, <1>2, <1>3, <1>4 DEF Next, ReceiveMail, Work

\* No step of the only worker, nor of the administrator, reopens what is complete.
LEMMA CompletionStep ==
  ASSUME TypeOK, HoldsKey, SoleWorker, SoleInvariant, [Next]_vars,
         NEW o \in Ops, status[o] = "COMPLETED"
  PROVE  status'[o] = "COMPLETED"
  <1>1. ASSUME NEW p \in Processes, LeavesOperations(p) \/ ChangesOperations(p)
        PROVE  status'[o] = "COMPLETED"
    BY <1>1 DEF LeavesOperations, ChangesOperations
  <1>2. ASSUME NEW p \in Processes, HandleMail(p) \/ BeginFollowUp(p) \/ FinalizeRaises(p)
        PROVE  status'[o] = "COMPLETED"
    <2>1. ASSUME NEW x \in Ops, ExecuteNow(p, x) PROVE status'[o] = "COMPLETED"
      BY <2>1 DEF ExecuteNow, tables, opVars
    <2> QED
      BY <1>1, <1>2, <2>1, MailLeavesOperations, MailChangesOperations DEF HandleMail
  <1>3. ASSUME NEW p \in Processes, Dispatch(p) \/ SelectDue(p)
        PROVE  status'[o] = "COMPLETED"
    <2>1. CASE ExecuteScheduled(p)
      BY <2>1 DEF ExecuteScheduled, tables, opVars
    <2> QED
      BY <1>1, <1>3, <2>1, DispatchLeavesOperations, MailChangesOperations DEF Dispatch
  <1>4. ASSUME NEW p \in Processes, Execute(p) PROVE status'[o] = "COMPLETED"
    <2>1. CASE BeginExecution(p) \/ RejectPreflight(p) \/ RecordFailure(p)
      <3>1. pc[p] \in {"begin", "answered"}
        BY <2>1 DEF BeginExecution, RejectPreflight, RecordFailure, At
      <3>2. status[OpOf(key[p])] \in {"READY_FOR_VALIDATION", "EXECUTING"}
        BY <3>1 DEF SoleInvariant, Undisturbed, Ready
      <3>3. o # OpOf(key[p])
        BY <3>2
      <3> QED
        BY <2>1, <3>3 DEF BeginExecution, RejectPreflight, RecordFailure, TypeOK, OperationTypes
    <2>2. CASE RecordAccepted(p)
      BY <2>2 DEF RecordAccepted, TypeOK, OperationTypes
    <2>3. CASE CallBusinessAPI(p) \/ AcceptedTooLate(p) \/ DuplicateExecutionKey(p)
      BY <2>3 DEF CallBusinessAPI, AcceptedTooLate, DuplicateExecutionKey, tables, opVars
    <2> QED
      BY <1>4, <2>1, <2>2, <2>3 DEF Execute
  <1>5. CASE \E p \in Processes : BeginNewRequest(p) \/ Crash(p)
    BY <1>5 DEF BeginNewRequest, Crash, tables, opVars
  <1>6. CASE UNCHANGED vars \/ ResolveEscalation \/ \E k \in Keys : GraceElapses(k)
    BY <1>6 DEF vars, ResolveEscalation, GraceElapses, tables, opVars
  <1> QED
    BY <1>2, <1>3, <1>4, <1>5, <1>6 DEF Next, ReceiveMail, Work

\* Nothing is there at the start.
LEMMA SoleInit == Init => SoleInvariant
  BY DEF Init, SoleInvariant, Undisturbed, FirstMailOpensRequest, SummaryIsLast,
     NoOrphanWithoutCrash, CompletedAsRecorded, Keys

\* One worker finds its operations as it left them, with any administrator and
\* any kills beside it.
THEOREM SoleInvariantHolds == Spec => []SoleInvariant
  <1>1. Init => SoleInvariant
    BY SoleInit
  <1>2. TypeOK /\ QueueInvariant /\ SoleInvariant /\ [Next]_vars => SoleInvariant'
    BY SoleStep DEF QueueInvariant, SoleInvariant, SoleWorker
  <1> QED
    BY <1>1, <1>2, QueueInvariantHolds, PTL DEF Spec

\* With one worker that nobody kills, a pending record belongs to a call that is
\* under way: execute commits what became of the call, be it an answer or an exception,
\* before it returns.
THEOREM PendingIsUnderWay ==
  ASSUME SoleWorker
  PROVE  Spec => []NoOrphanWithoutCrash
  <1>1. SoleInvariant => NoOrphanWithoutCrash
    BY DEF SoleInvariant
  <1> QED
    BY <1>1, SoleInvariantHolds, PTL

\* With one worker the terminal summary is the last word: the call of execute
\* is made for an operation that is "EXECUTING", and such a one was not summed up.
THEOREM NothingIsSentAfterSummary ==
  ASSUME SoleWorker
  PROVE  Spec => NoCallAfterSummary
  <1>1. TypeOK /\ QueueInvariant /\ SoleInvariant /\ [Next]_vars
          => [\A k \in Keys : calls'[k] # calls[k] => "summary" \notin customerMail]_vars
    <2> SUFFICES ASSUME TypeOK, QueueInvariant, SoleInvariant, [Next]_vars,
                        NEW k \in Keys, calls'[k] # calls[k]
                 PROVE  "summary" \notin customerMail
      OBVIOUS
    <2>1. PICK p \in Processes : CallBusinessAPI(p)
      BY OnlyCallsCall
    <2>2. key[p] \in Keys /\ status[OpOf(key[p])] = "EXECUTING"
      BY <2>1 DEF CallBusinessAPI, At, QueueInvariant, HoldsKey, Holding, TypeOK, ProcessTypes,
         SoleInvariant, Undisturbed
    <2> QED
      BY <2>2 DEF SoleInvariant, SummaryIsLast, SummaryStatus, OpOf, Keys
  <1> QED
    BY <1>1, SoleInvariantHolds, QueueInvariantHolds, PTL DEF Spec, NoCallAfterSummary

\* With one worker a completed operation stays completed: whoever would change
\* it tests its status first (set_operation_status) or holds an operation that is
\* ready or executing.
THEOREM CompletedStays ==
  ASSUME SoleWorker
  PROVE  Spec => CompletedIsFinal
  <1>1. TypeOK /\ QueueInvariant /\ SoleInvariant /\ [Next]_vars
          => [\A o \in Ops : status[o] = "COMPLETED" => status'[o] = "COMPLETED"]_vars
    BY CompletionStep DEF QueueInvariant
  <1> QED
    BY <1>1, SoleInvariantHolds, QueueInvariantHolds, PTL DEF Spec, CompletedIsFinal

\* With one worker, and without the approvals of a dry run, "COMPLETED" is read
\* only of the revision that the business API applied.
THEOREM CompletionsAreApplied ==
  ASSUME SoleWorker, ~DryRun
  PROVE  Spec => []CompletedAsRecorded
  <1>1. SoleInvariant => CompletedAsRecorded
    BY DEF SoleInvariant
  <1> QED
    BY <1>1, SoleInvariantHolds, PTL
-----------------------------------------------------------------------------
(* The ledger *)

\* A step that acts on an execution is a step of the ledger or leaves it alone.
LEMMA ActIsLedgerStep ==
  ASSUME TypeOK, QueueInvariant, NEW p \in Processes, Acts(p)
  PROVE  [Ledger!Next]_(Ledger!vars)
  <1> USE DEF QueueInvariant
  <1>1. ASSUME pc[p] \in Holding PROVE key[p] \in Keys
    BY <1>1 DEF HoldsKey, TypeOK, ProcessTypes
  <1>2. ASSUME UNCHANGED <<execution, calls, applied>> PROVE UNCHANGED Ledger!vars
    BY <1>2 DEF Ledger!vars
  <1>3. ASSUME NEW o \in Ops, ExecuteNow(p, o) PROVE UNCHANGED Ledger!vars
    BY <1>2, <1>3 DEF ExecuteNow, tables, rowVars, apiVars
  <1>4. ASSUME NEW k \in Keys, Claim(p, k) PROVE UNCHANGED Ledger!vars
    BY <1>2, <1>4 DEF Claim, apiVars
  <1>5. CASE ReconcileClaimed(p)
    BY <1>2, <1>5 DEF ReconcileClaimed, apiVars
  <1>6. CASE BlockClaimed(p)
    BY <1>2, <1>6 DEF BlockClaimed, apiVars
  <1>7. CASE PassClaimed(p)
    BY <1>2, <1>7 DEF PassClaimed, tables, rowVars, apiVars
  <1>8. CASE ExecuteScheduled(p)
    BY <1>2, <1>8 DEF ExecuteScheduled, tables, rowVars, apiVars
  <1>9. CASE BeginExecution(p)
    <2>1. key[p] \in Keys
      BY <1>1, <1>9 DEF BeginExecution, At, Holding
    <2>2. Ledger!Open(key[p])
      BY <1>9 DEF BeginExecution, apiVars, Ledger!Open
    <2> QED
      BY <2>1, <2>2 DEF Ledger!Next
  <1>10. CASE RejectPreflight(p)
    <2>1. key[p] \in Keys
      BY <1>1, <1>10 DEF RejectPreflight, At, Holding
    <2>2. Ledger!Refuse(key[p])
      BY <1>10 DEF RejectPreflight, apiVars, Ledger!Refuse
    <2> QED
      BY <2>1, <2>2 DEF Ledger!Next
  <1>11. CASE DuplicateExecutionKey(p)
    BY <1>2, <1>11 DEF DuplicateExecutionKey, tables, rowVars, apiVars
  <1>12. CASE CallBusinessAPI(p)
    <2>1. key[p] \in Keys /\ execution[key[p]] = "pending" /\ calls[key[p]] = 0
      BY <1>1, <1>12 DEF CallBusinessAPI, At, Holding, AtTheCall
    <2>2. calls' = [calls EXCEPT ![key[p]] = 1]
      BY <1>12, <2>1 DEF CallBusinessAPI
    <2>3. applied' \in {applied, applied \cup {key[p]}} /\ UNCHANGED execution
      BY <1>12 DEF CallBusinessAPI, rowVars
    <2>4. Ledger!Send(key[p])
      BY <2>1, <2>2, <2>3 DEF Ledger!Send
    <2> QED
      BY <2>1, <2>4 DEF Ledger!Next
  <1>13. ASSUME At(p, "answered")
         PROVE  key[p] \in Keys /\ execution[key[p]] = "pending" /\ calls[key[p]] = 1
    BY <1>1, <1>13 DEF At, Holding, AtTheCall
  <1>14. CASE RecordAccepted(p)
    <2>1. At(p, "answered") /\ key[p] \in applied
      BY <1>14 DEF RecordAccepted, At, AtTheCall
    <2>2. Ledger!Close(key[p], "succeeded")
      BY <1>13, <1>14, <2>1 DEF RecordAccepted, apiVars, Ledger!Close
    <2> QED
      BY <1>13, <2>1, <2>2 DEF Ledger!Next
  <1>15. CASE AcceptedTooLate(p)
    BY <1>2, <1>15 DEF AcceptedTooLate, tables, rowVars, apiVars
  <1>16. CASE RecordFailure(p)
    <2>1. At(p, "answered")
      BY <1>16 DEF RecordFailure
    <2>2. PICK outcome \in {"failed", "unknown"} :
            execution' = [execution EXCEPT ![key[p]] = outcome]
      BY <1>16 DEF RecordFailure, RecordedOutcome
    <2>3. Ledger!Close(key[p], outcome)
      BY <1>13, <1>16, <2>1, <2>2 DEF RecordFailure, apiVars, Ledger!Close
    <2> QED
      BY <1>13, <2>1, <2>3 DEF Ledger!Next
  <1>17. CASE FinishDispatch(p)
    BY <1>2, <1>17 DEF FinishDispatch, apiVars
  <1> QED
    BY <1>3, <1>4, <1>5, <1>6, <1>7, <1>8, <1>9, <1>10, <1>11, <1>12, <1>14,
       <1>15, <1>16, <1>17 DEF Acts, Execute

\* The queue implements the ledger of recorded, at most once sent mutations.
THEOREM QueueImplementsLedger == Spec => ImplementsLedger
  <1>1. Init => Ledger!Init
    BY DEF Init, Ledger!Init
  <1>2. TypeOK /\ QueueInvariant /\ [Next]_vars => [Ledger!Next]_(Ledger!vars)
    <2> SUFFICES ASSUME TypeOK, QueueInvariant, [Next]_vars
                 PROVE  [Ledger!Next]_(Ledger!vars)
      OBVIOUS
    <2>1. CASE UNCHANGED executionState
      BY <2>1 DEF executionState, Ledger!vars
    <2>2. ASSUME NEW p \in Processes, Quiet(p) PROVE UNCHANGED Ledger!vars
      BY <2>2 DEF Quiet, Ledger!vars
    <2>3. ASSUME NEW p \in Processes, Acts(p) PROVE [Ledger!Next]_(Ledger!vars)
      BY <2>3, ActIsLedgerStep
    <2> QED
      BY <2>1, <2>2, <2>3, StepKinds DEF QueueInvariant
  <1> QED
    BY <1>1, <1>2, QueueInvariantHolds, PTL DEF Spec, ImplementsLedger, Ledger!Spec
=============================================================================
