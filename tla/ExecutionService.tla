-------------------------- MODULE ExecutionService --------------------------
(***************************************************************************)
(* workflow/execution_service.py: the durable queue of operation revisions *)
(* (schedule, cancel, dispatch_due) and execute, which records a revision, *)
(* calls the business API and records the outcome.                         *)
(*                                                                         *)
(* A step is one database transaction (session_scope) or one call to the   *)
(* outside.  The first transaction of execute reads a row and writes it    *)
(* without a lock or a version check, so it is two steps: its test of the  *)
(* row and its commit.                                                     *)
(***************************************************************************)
EXTENDS QueueState
-----------------------------------------------------------------------------
(* Slips.  None of these is part of the model: each is one of the operators *)
(* below with a mistake in it, to see that a property notices.              *)

\* The cancellation forgets its test of the row's status ...
CancelEveryRow ==
  /\ schedule' = [k \in Keys |-> IF schedule[k] = "none" THEN "none" ELSE "cancelled"]
  /\ UNCHANGED <<due, execution>>

\* ... or takes the rows that are being dispatched as well.
CancelClaimedRows ==
  /\ schedule' = [k \in Keys |-> IF schedule[k] \in {"scheduled", "dispatching"}
                                 THEN "cancelled" ELSE schedule[k]]
  /\ UNCHANGED <<due, execution>>

\* The API is called before the execution record is written.
TestRevisionThenCall(p, k) ==
  /\ key' = [key EXCEPT ![p] = k]
  /\ \/ /\ execution[k] # "none"
        /\ result' = [result EXCEPT ![p] = execution[k]]
        /\ Goto(p, "returned")
     \/ /\ execution[k] = "none"
        /\ UNCHANGED result
        /\ Goto(p, "calling")

\* The idempotency key of executions is not unique.
BeginExecutionAgain(p) ==
  /\ At(p, "begin")
  /\ execution' = [execution EXCEPT ![key[p]] = "pending"]
  /\ status' = [status EXCEPT ![OpOf(key[p])] = "EXECUTING"]
  /\ Goto(p, "calling")
  /\ UNCHANGED <<revision, eligible, decision, schedule, due, requestVars,
                 apiVars, auditVars, role, mailVars, queueVars, callVars,
                 bounds>>

\* A lost answer leaves the record as it was ...
LostStaysPending(answer) == IF answer = "lost" THEN "pending" ELSE "failed"

\* ... or the answer is stored in place of an execution status.
AnswerAsOutcome(answer) == answer

\* The candidates are joined with operations that can still execute.
SelectExecutable(p) ==
  /\ At(p, "idle") /\ p \in Dispatchers
  /\ LET candidates == {k \in due : schedule[k] = "scheduled" /\ Schedulable(OpOf(k))} IN
       /\ candidates # {}
       /\ batch' = [batch EXCEPT ![p] = candidates]
  /\ role' = [role EXCEPT ![p] = "queue"]
  /\ Goto(p, "claiming")
  /\ UNCHANGED <<tables, mailVars, callVars, outcomes, bounds>>

\* The claim is a plain write.
ClaimUnchecked(p, k) ==
  /\ At(p, "claiming") /\ k \in batch[p]
  /\ schedule' = [schedule EXCEPT ![k] = "dispatching"]
  /\ key' = [key EXCEPT ![p] = k]
  /\ batch' = [batch EXCEPT ![p] = @ \ {k}]
  /\ Goto(p, "claimed")
  /\ UNCHANGED <<opVars, due, execution, requestVars, apiVars, auditVars, role,
                 mailVars, result, outcomes, bounds>>
-----------------------------------------------------------------------------
(* The queue is cancelled *)

\* cancel_scheduled_for_request: only rows still waiting are cancelled.
CancelScheduledForRequest ==
  /\ schedule' = [k \in Keys |-> IF schedule[k] = "scheduled" THEN "cancelled"
                                 ELSE schedule[k]]
  /\ UNCHANGED <<due, execution>>
-----------------------------------------------------------------------------
(* _execute_or_schedule *)

\* schedule: a row of the same revision is returned whatever its status.
Schedule(p, o) ==
  /\ At(p, "releasing") /\ o \in executeIds[p] /\ p \notin Immediate
  /\ LET k == CurrentKey(o) IN
       \/ /\ schedule[k] # "none"
          /\ UNCHANGED schedule
       \/ /\ schedule[k] = "none" /\ execution[k] = "none" /\ Schedulable(o)
          /\ schedule' = [schedule EXCEPT ![k] = "scheduled"]
  /\ executeIds' = [executeIds EXCEPT ![p] = @ \ {o}]
  /\ UNCHANGED <<opVars, due, execution, requestVars, apiVars, auditVars, pc,
                 role, kind, replying, todo, queueVars, callVars, bounds>>

ScheduleRefused(p, o) ==
  /\ At(p, "releasing") /\ o \in executeIds[p] /\ p \notin Immediate
  /\ schedule[CurrentKey(o)] = "none"
  /\ execution[CurrentKey(o)] # "none" \/ ~Schedulable(o)
  /\ MailFails(p)
-----------------------------------------------------------------------------
(* execute *)

\* The reads and tests of its first transaction, for an idempotency key.
TestRevision(p, k) ==
  /\ key' = [key EXCEPT ![p] = k]
  /\ \/ /\ execution[k] # "none"
        /\ result' = [result EXCEPT ![p] = execution[k]]
        /\ Goto(p, "returned")
     \/ /\ execution[k] = "none" /\ ~Ready(OpOf(k))
        /\ result' = [result EXCEPT ![p] = "refused"]
        /\ Goto(p, "returned")
     \/ /\ execution[k] = "none" /\ Ready(OpOf(k))
        /\ UNCHANGED result
        /\ Goto(p, "begin")

\* Grace 0: the mail executes whatever revision the row has by now.
ExecuteNow(p, o) ==
  /\ At(p, "releasing") /\ o \in executeIds[p] /\ p \in Immediate
  /\ TestRevision(p, CurrentKey(o))
  /\ executeIds' = [executeIds EXCEPT ![p] = @ \ {o}]
  /\ UNCHANGED <<tables, role, kind, replying, todo, queueVars, bounds>>

\* A dispatcher passes the scheduled revision as expected_revision.
ExecuteScheduled(p) ==
  /\ At(p, "dispatch")
  /\ LET k == key[p] IN
       \/ /\ k = CurrentKey(OpOf(k))
          /\ TestRevision(p, k)
       \/ /\ k # CurrentKey(OpOf(k))
          /\ result' = [result EXCEPT ![p] = "refused"]
          /\ Goto(p, "returned")
          /\ UNCHANGED key
  /\ UNCHANGED <<tables, role, mailVars, queueVars, bounds>>

\* The commit of that transaction.  It writes the status column whatever the
\* row holds by now; the unique key is what stops a second execution row.
BeginExecution(p) ==
  /\ At(p, "begin")
  /\ execution[key[p]] = "none"
  /\ execution' = [execution EXCEPT ![key[p]] = "pending"]
  /\ status' = [status EXCEPT ![OpOf(key[p])] = "EXECUTING"]
  /\ Goto(p, "calling")
  /\ UNCHANGED <<revision, eligible, decision, schedule, due, requestVars,
                 apiVars, auditVars, role, mailVars, queueVars, callVars,
                 bounds>>

RejectPreflight(p) ==
  /\ At(p, "begin")
  /\ execution[key[p]] = "none"
  /\ execution' = [execution EXCEPT ![key[p]] = "failed"]
  /\ status' = [status EXCEPT ![OpOf(key[p])] = "ESCALATED"]
  /\ eligible' = [eligible EXCEPT ![OpOf(key[p])] = FALSE]
  /\ result' = [result EXCEPT ![p] = "failed"]
  /\ Goto(p, "returned")
  /\ UNCHANGED <<revision, decision, schedule, due, requestVars, apiVars,
                 auditVars, role, mailVars, queueVars, key, bounds>>

DuplicateExecutionKey(p) ==
  /\ At(p, "begin")
  /\ execution[key[p]] # "none"
  /\ result' = [result EXCEPT ![p] = "error"]
  /\ Goto(p, "returned")
  /\ UNCHANGED <<tables, role, mailVars, queueVars, key, bounds>>

\* The API accepts; or answers something else (an HTTP error, an unusable
\* body) or nothing, and then the mutation may have taken effect all the same.
CallBusinessAPI(p) ==
  /\ At(p, "calling")
  /\ calls' = [calls EXCEPT ![key[p]] = @ + 1]
  /\ \E answer \in {"accepted", "rejected", "lost"} :
       /\ result' = [result EXCEPT ![p] = answer]
       /\ \/ applied' = applied \cup {key[p]}
          \/ answer # "accepted" /\ UNCHANGED applied
  /\ Goto(p, "answered")
  /\ UNCHANGED <<opVars, rowVars, requestVars, auditVars, role, mailVars,
                 queueVars, key, bounds>>

RecordAccepted(p) ==
  /\ At(p, "answered") /\ result[p] = "accepted"
  /\ OperationMayBecome(status[OpOf(key[p])], "COMPLETED")
  /\ execution' = [execution EXCEPT ![key[p]] = "succeeded"]
  /\ status' = [status EXCEPT ![OpOf(key[p])] = "COMPLETED"]
  /\ eligible' = [eligible EXCEPT ![OpOf(key[p])] = FALSE]
  /\ result' = [result EXCEPT ![p] = "succeeded"]
  /\ Goto(p, "returned")
  /\ UNCHANGED <<revision, decision, schedule, due, requestVars, apiVars,
                 auditVars, role, mailVars, queueVars, key, bounds>>

\* The operation left EXECUTING during the call: the assertion raises and
\* the execution record stays pending.
AcceptedTooLate(p) ==
  /\ At(p, "answered") /\ result[p] = "accepted"
  /\ ~OperationMayBecome(status[OpOf(key[p])], "COMPLETED")
  /\ result' = [result EXCEPT ![p] = "error"]
  /\ Goto(p, "returned")
  /\ UNCHANGED <<tables, role, mailVars, queueVars, key, bounds>>

\* A transport error or an unforeseen exception leaves the outcome open.
RecordedOutcome(answer) == IF answer = "lost" THEN "unknown" ELSE "failed"

RecordFailure(p) ==
  /\ At(p, "answered") /\ result[p] \in {"rejected", "lost"}
  /\ execution' = [execution EXCEPT ![key[p]] = RecordedOutcome(result[p])]
  /\ result' = [result EXCEPT ![p] = RecordedOutcome(result[p])]
  /\ status' = [status EXCEPT ![OpOf(key[p])] = "ESCALATED"]
  /\ eligible' = [eligible EXCEPT ![OpOf(key[p])] = FALSE]
  /\ Goto(p, "returned")
  /\ UNCHANGED <<revision, decision, schedule, due, requestVars, apiVars,
                 auditVars, role, mailVars, queueVars, key, bounds>>
-----------------------------------------------------------------------------
(* dispatch_due_scheduled_executions *)

\* not_before passes.
GraceElapses(k) ==
  /\ schedule[k] = "scheduled" /\ k \notin due
  /\ due' = due \cup {k}
  /\ UNCHANGED <<opVars, schedule, execution, requestVars, apiVars, auditVars,
                 procVars, bounds>>

\* The candidates are read in one transaction and claimed in later ones.
SelectDue(p) ==
  /\ At(p, "idle") /\ p \in Dispatchers
  /\ LET candidates == {k \in due : schedule[k] = "scheduled"} IN
       /\ candidates # {}
       /\ batch' = [batch EXCEPT ![p] = candidates]
  /\ role' = [role EXCEPT ![p] = "queue"]
  /\ Goto(p, "claiming")
  /\ UNCHANGED <<tables, mailVars, callVars, outcomes, bounds>>

\* _claim: the compare-and-set from scheduled to dispatching.
Claim(p, k) ==
  /\ At(p, "claiming") /\ k \in batch[p]
  /\ schedule[k] = "scheduled" /\ k \in due
  /\ schedule' = [schedule EXCEPT ![k] = "dispatching"]
  /\ key' = [key EXCEPT ![p] = k]
  /\ batch' = [batch EXCEPT ![p] = @ \ {k}]
  /\ Goto(p, "claimed")
  /\ UNCHANGED <<opVars, due, execution, requestVars, apiVars, auditVars, role,
                 mailVars, result, outcomes, bounds>>

ClaimLost(p, k) ==
  /\ At(p, "claiming") /\ k \in batch[p]
  /\ schedule[k] # "scheduled"
  /\ batch' = [batch EXCEPT ![p] = @ \ {k}]
  /\ UNCHANGED <<tables, pc, role, mailVars, callVars, outcomes, bounds>>

\* Close the claimed row and remember the outcome for the settlement.
CloseRow(p, row, found) ==
  /\ schedule' = [schedule EXCEPT ![key[p]] = row]
  /\ outcomes' = [outcomes EXCEPT ![p] =
                    @ \cup {[key |-> key[p], row |-> row, execution |-> found]}]
  /\ key' = [key EXCEPT ![p] = NoKey]
  /\ result' = [result EXCEPT ![p] = "none"]
  /\ Goto(p, "claiming")

\* The first transaction of _dispatch_claimed, by its three outcomes.
ReconcileClaimed(p) ==
  /\ At(p, "claimed")
  /\ execution[key[p]] # "none"
  /\ CloseRow(p, "dispatched", execution[key[p]])
  /\ UNCHANGED <<opVars, due, execution, requestVars, apiVars, auditVars, role,
                 mailVars, batch, bounds>>

Blocked(k) == k # CurrentKey(OpOf(k)) \/ ~Schedulable(OpOf(k))

BlockClaimed(p) ==
  /\ At(p, "claimed")
  /\ execution[key[p]] = "none" /\ Blocked(key[p])
  /\ CloseRow(p, "cancelled", "none")
  /\ UNCHANGED <<opVars, due, execution, requestVars, apiVars, auditVars, role,
                 mailVars, batch, bounds>>

PassClaimed(p) ==
  /\ At(p, "claimed")
  /\ execution[key[p]] = "none" /\ ~Blocked(key[p])
  /\ Goto(p, "dispatch")
  /\ UNCHANGED <<tables, role, mailVars, queueVars, callVars, bounds>>

\* Slip: the refusal of execute is taken for an error ...
FinishDispatchCrude(p) ==
  /\ At(p, "returned") /\ role[p] = "queue"
  /\ \/ result[p] \in ExecutionStatus /\ CloseRow(p, "dispatched", result[p])
     \/ result[p] \in {"refused", "error"} /\ CloseRow(p, "failed", "none")
  /\ UNCHANGED <<opVars, due, execution, requestVars, apiVars, auditVars, role,
                 mailVars, batch, bounds>>

\* ... or an exception of execute is not caught.
FinishDispatchNarrow(p) ==
  /\ At(p, "returned") /\ role[p] = "queue"
  /\ \/ result[p] \in ExecutionStatus /\ CloseRow(p, "dispatched", result[p])
     \/ result[p] = "refused" /\ CloseRow(p, "cancelled", "none")
  /\ UNCHANGED <<opVars, due, execution, requestVars, apiVars, auditVars, role,
                 mailVars, batch, bounds>>

\* Its last transaction: execute returned, refused or raised.
FinishDispatch(p) ==
  /\ At(p, "returned") /\ role[p] = "queue"
  /\ \/ result[p] \in ExecutionStatus /\ CloseRow(p, "dispatched", result[p])
     \/ result[p] = "refused" /\ CloseRow(p, "cancelled", "none")
     \/ result[p] = "error" /\ CloseRow(p, "failed", "none")
  /\ UNCHANGED <<opVars, due, execution, requestVars, apiVars, auditVars, role,
                 mailVars, batch, bounds>>

BatchDone(p) ==
  /\ At(p, "claiming") /\ batch[p] = {}
  /\ Goto(p, "settling")
  /\ UNCHANGED <<tables, role, mailVars, queueVars, callVars, bounds>>
=============================================================================
