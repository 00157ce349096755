---------------------------- MODULE MailWorkflow ----------------------------
(***************************************************************************)
(* workflow/inbound_processor.py where it works on the rows of the queue:  *)
(* a mail is correlated with the request, cancels what waits, changes      *)
(* operations, has them decided and released; the outcome of a dispatch is *)
(* settled; the request is finalised.                                      *)
(***************************************************************************)
EXTENDS ExecutionService
-----------------------------------------------------------------------------
(* Slips.  None of these is part of the model: each is one of the operators *)
(* below with a mistake in it, to see that a property notices.              *)

\* A closed operation is changed like an open one.
CorrectableWhenClosed(o) == revision[o] < MaxRevision

\* The failure of the verifier reopens a completed operation.
VerifierFailsAlways(p, o) ==
  /\ At(p, "verifying") /\ o \in todo[p]
  /\ status' = [status EXCEPT ![o] = "ESCALATED"]
  /\ decision' = [decision EXCEPT ![o] = "ESCALATE"]
  /\ todo' = [todo EXCEPT ![p] = @ \ {o}]
  /\ UNCHANGED <<revision, eligible, rowVars, requestVars, apiVars, auditVars,
                 pc, role, kind, replying, executeIds, queueVars, callVars,
                 bounds>>

\* Only a plain failure is escalated.
EscalatesFailedOnly(outcome) == outcome = "failed"
-----------------------------------------------------------------------------
(* A mail is correlated with the request and analysed *)

\* The first mail of the request; another process that sees it too would
\* open a request of its own.
BeginNewRequest(p) ==
  /\ At(p, "idle") /\ p \in Handlers
  /\ request = "ABSENT" /\ \A q \in Processes : kind[q] # "new"
  /\ mails < MaxMails /\ MayHappen
  /\ mails' = mails + 1
  /\ kind' = [kind EXCEPT ![p] = "new"]
  /\ role' = [role EXCEPT ![p] = "mail"]
  /\ Goto(p, "analyzed")
  /\ UNCHANGED <<tables, replying, todo, executeIds, queueVars, callVars,
                 crashes>>

\* _prepare finds the request, and its open clarification when the mail
\* answers that question; the clarification names its target operations.
BeginFollowUp(p) ==
  /\ At(p, "idle") /\ p \in Handlers
  /\ request # "ABSENT"
  /\ mails < MaxMails /\ MayHappen
  /\ mails' = mails + 1
  /\ \/ /\ asked # {}
        /\ kind' = [kind EXCEPT ![p] = "clarification"]
        /\ replying' = [replying EXCEPT ![p] = round]
        /\ todo' = [todo EXCEPT ![p] = asked]
     \/ /\ kind' = [kind EXCEPT ![p] = "follow_up"]
        /\ UNCHANGED <<replying, todo>>
  /\ role' = [role EXCEPT ![p] = "mail"]
  /\ Goto(p, "prepared")
  /\ UNCHANGED <<tables, executeIds, queueVars, callVars, crashes>>

\* The text asks for a correction or cancellation in so many words: the
\* waiting rows are cancelled before the model is asked anything.
CancelOnExplicitText(p) ==
  /\ At(p, "prepared")
  /\ CancelScheduledForRequest
  /\ Goto(p, "analyzing_explicit")
  /\ UNCHANGED <<opVars, requestVars, apiVars, auditVars, role, mailVars,
                 queueVars, callVars, bounds>>

NoExplicitText(p) ==
  /\ At(p, "prepared")
  /\ Goto(p, "analyzing")
  /\ UNCHANGED <<tables, role, mailVars, queueVars, callVars, bounds>>

\* The analyzer returned.  Explicit words or a correction or cancellation
\* verdict cancel the rows that are waiting now.
Analyze(p) ==
  /\ pc[p] \in {"analyzing", "analyzing_explicit"}
  /\ \E messageKind \in {"correction", "cancellation", "other"} :
       /\ IF pc[p] = "analyzing_explicit" \/ messageKind # "other"
          THEN CancelScheduledForRequest
          ELSE UNCHANGED rowVars
       /\ kind' = [kind EXCEPT ![p] = IF @ = "follow_up" /\ messageKind = "correction"
                                      THEN "correction" ELSE @]
  /\ Goto(p, "analyzed")
  /\ UNCHANGED <<opVars, requestVars, apiVars, auditVars, role, replying, todo,
                 executeIds, queueVars, callVars, bounds>>

AnalyzerFails(p) ==
  /\ pc[p] \in {"analyzing", "analyzing_explicit"}
  /\ MailFails(p)
-----------------------------------------------------------------------------
(* _materialize_analysis: one transaction, by kind of mail *)

CreateOperations(p) ==
  /\ At(p, "analyzed") /\ kind[p] = "new"
  /\ status' = [o \in Ops |-> "NEW"]
  /\ request' = "ANALYZING"
  /\ todo' = [todo EXCEPT ![p] = Ops]
  /\ Goto(p, "verifying")
  /\ UNCHANGED <<revision, eligible, decision, rowVars, asked, round,
                 customerMail, apiVars, auditVars, role, kind, replying,
                 executeIds, queueVars, callVars, bounds>>

\* A proposal changes only an operation that is not closed.
Correctable(o) ==
  /\ status[o] \notin {"COMPLETED", "CANCELLED"}
  /\ revision[o] < MaxRevision /\ MayHappen

\* apply_proposal_fields of the matched operations: a value that differs
\* bumps the revision and changes nothing else the queue looks at.  A reply
\* to a clarification may match nothing and open a request of its own.
ApplyProposals(p) ==
  /\ At(p, "analyzed") /\ kind[p] \in {"clarification", "correction"}
  /\ \E matched \in SUBSET (IF kind[p] = "clarification" THEN todo[p] ELSE Ops) :
       /\ matched # {} \/ kind[p] = "clarification"
       /\ \E changed \in SUBSET {o \in matched : Correctable(o)} :
            revision' = [o \in Ops |-> IF o \in changed THEN revision[o] + 1
                                       ELSE revision[o]]
       /\ todo' = [todo EXCEPT ![p] = matched]
  /\ Goto(p, "verifying")
  /\ UNCHANGED <<status, eligible, decision, rowVars, requestVars, apiVars,
                 auditVars, role, kind, replying, executeIds, queueVars,
                 callVars, bounds>>

\* No proposal matches: the request is handed over and the mail is done,
\* without the finalisation of the other paths.
NoSeparableOperation(p) ==
  /\ At(p, "analyzed") /\ kind[p] \in {"clarification", "correction"}
  /\ request' = "ESCALATED"
  /\ Reset(p)
  /\ UNCHANGED <<opVars, rowVars, asked, round, customerMail, apiVars,
                 auditVars, bounds>>

\* An irrelevant mail is ignored; any other proposal of a follow-up opens a
\* request of its own.
LeaveRequestAlone(p) ==
  /\ At(p, "analyzed") /\ kind[p] = "follow_up"
  /\ Reset(p)
  /\ UNCHANGED <<tables, bounds>>
-----------------------------------------------------------------------------
(* _verify_and_decide: one operation at a time *)

VerifierFails(p, o) ==
  /\ At(p, "verifying") /\ o \in todo[p]
  /\ IF status[o] = "COMPLETED" THEN UNCHANGED <<status, decision>>
     ELSE /\ status' = [status EXCEPT ![o] = "ESCALATED"]
          /\ decision' = [decision EXCEPT ![o] = "ESCALATE"]
  /\ todo' = [todo EXCEPT ![p] = @ \ {o}]
  /\ UNCHANGED <<revision, eligible, rowVars, requestVars, apiVars, auditVars,
                 pc, role, kind, replying, executeIds, queueVars, callVars,
                 bounds>>

\* The decisions the engine can reach: executing needs an open operation
\* whose revision has no execution record, and a correction of a stored
\* operation is never executed nor asked about.
Reachable(d, p, o) ==
  CASE d = "AUTO_EXECUTE" ->
         /\ execution[CurrentKey(o)] = "none"
         /\ status[o] \notin {"COMPLETED", "CANCELLED"}
         /\ kind[p] # "correction"
    [] d = "ASK_FOR_INFORMATION" ->
         status[o] # "COMPLETED" /\ kind[p] # "correction"
    [] d = "ESCALATE" -> TRUE
    [] d = "IGNORE" -> kind[p] = "clarification"

\* The status a decision sets; the status is kept when it is already there.
DecidedStatus(d, o) ==
  CASE d = "AUTO_EXECUTE" -> "READY_FOR_VALIDATION"
    [] d = "ASK_FOR_INFORMATION" -> "NEEDS_INFORMATION"
    [] d = "ESCALATE" -> IF status[o] = "COMPLETED" THEN "COMPLETED" ELSE "ESCALATED"
    [] d = "IGNORE" -> status[o]

Decide(p, o) ==
  /\ At(p, "verifying") /\ o \in todo[p]
  /\ \E d \in Decisions \ {"none"} :
       /\ Reachable(d, p, o)
       /\ OperationMayBecome(status[o], DecidedStatus(d, o))
       /\ status' = [status EXCEPT ![o] = DecidedStatus(d, o)]
       /\ decision' = [decision EXCEPT ![o] = d]
       /\ eligible' = [eligible EXCEPT ![o] = (d = "AUTO_EXECUTE")]
       /\ IF d = "AUTO_EXECUTE"
          THEN /\ approved' = approved \cup {CurrentKey(o)}
               /\ executeIds' = [executeIds EXCEPT ![p] = @ \cup {o}]
          ELSE UNCHANGED <<approved, executeIds>>
  /\ todo' = [todo EXCEPT ![p] = @ \ {o}]
  /\ UNCHANGED <<revision, rowVars, requestVars, apiVars, escalated, pc, role,
                 kind, replying, queueVars, callVars, bounds>>

\* set_operation_status raises, the transaction is rolled back, and the
\* operations decided before this one are left as they were decided.
DecideForbidden(p, o) ==
  /\ At(p, "verifying") /\ o \in todo[p]
  /\ \E d \in Decisions \ {"none"} :
       Reachable(d, p, o) /\ ~OperationMayBecome(status[o], DecidedStatus(d, o))
  /\ MailFails(p)

DecisionsDone(p) ==
  /\ At(p, "verifying") /\ todo[p] = {}
  /\ Goto(p, "releasing")
  /\ UNCHANGED <<tables, role, mailVars, queueVars, callVars, bounds>>
-----------------------------------------------------------------------------
(* The outcome of an immediate execution *)

ReleasesDone(p) ==
  /\ At(p, "releasing") /\ executeIds[p] = {}
  /\ Goto(p, "finalizing")
  /\ UNCHANGED <<tables, role, mailVars, queueVars, callVars, bounds>>

\* An execution that did not succeed is escalated.
NeedsEscalation(outcome) == outcome # "succeeded"

\* Back in the mail.
ExecutionReturned(p) ==
  /\ At(p, "returned") /\ role[p] = "mail"
  /\ result[p] \in ExecutionStatus
  /\ escalated' = IF NeedsEscalation(result[p]) THEN escalated \cup {key[p]}
                  ELSE escalated
  /\ key' = [key EXCEPT ![p] = NoKey]
  /\ result' = [result EXCEPT ![p] = "none"]
  /\ Goto(p, "releasing")
  /\ UNCHANGED <<opVars, rowVars, requestVars, apiVars, approved, role,
                 mailVars, queueVars, bounds>>

ExecutionRaised(p) ==
  /\ At(p, "returned") /\ role[p] = "mail"
  /\ result[p] \in {"refused", "error"}
  /\ MailFails(p)
-----------------------------------------------------------------------------
(* Settlement and finalisation *)

\* A failed or unknown execution is escalated; so is a row that could not be
\* dispatched, with its operation.  A cancelled row is left as it is.
SettleOutcome(p) ==
  /\ At(p, "settling")
  /\ \E x \in outcomes[p] :
       /\ outcomes' = [outcomes EXCEPT ![p] = @ \ {x}]
       /\ \/ /\ x.row = "dispatched"
             /\ escalated' = IF NeedsEscalation(x.execution)
                             THEN escalated \cup {x.key} ELSE escalated
             /\ Goto(p, "finalizing")
             /\ UNCHANGED <<status, eligible>>
          \/ /\ x.row = "failed"
             /\ escalated' = escalated \cup {x.key}
             /\ IF status[OpOf(x.key)] = "COMPLETED" THEN UNCHANGED <<status, eligible>>
                ELSE /\ status' = [status EXCEPT ![OpOf(x.key)] = "ESCALATED"]
                     /\ eligible' = [eligible EXCEPT ![OpOf(x.key)] = FALSE]
             /\ Goto(p, "finalizing")
          \/ /\ x.row = "cancelled"
             /\ UNCHANGED <<status, eligible, escalated, pc>>
  /\ UNCHANGED <<revision, decision, rowVars, requestVars, apiVars, approved,
                 role, mailVars, callVars, batch, bounds>>

SettlementDone(p) ==
  /\ At(p, "settling") /\ outcomes[p] = {}
  /\ Reset(p)
  /\ UNCHANGED <<tables, bounds>>

Waiting == {o \in Ops : status[o] = "NEEDS_INFORMATION"}

\* The reply is still incomplete in the last configured round.
LimitReached(reply) ==
  reply # 0 /\ Waiting # {} /\ asked # {} /\ round >= MaxClarificationRounds

StatusAfterLimit(reply) ==
  [o \in Ops |-> IF LimitReached(reply) /\ o \in Waiting THEN "ESCALATED"
                 ELSE status[o]]

\* Slip: one completed operation completes the request.
RequestAfterAny(reply) ==
  LET statuses == {StatusAfterLimit(reply)[o] : o \in Ops} IN
  IF "COMPLETED" \in statuses THEN "COMPLETED" ELSE DeriveRequestStatus(statuses)

RequestAfter(reply) ==
  DeriveRequestStatus({StatusAfterLimit(reply)[o] : o \in Ops})

ClarificationAfter(reply) ==
  /\ asked' = IF LimitReached(reply) \/ (Waiting = {} /\ reply # 0)
              THEN IF reply = round THEN {} ELSE asked
              ELSE IF asked = {} THEN Waiting ELSE asked
  /\ round' = IF ~LimitReached(reply) /\ Waiting # {} /\ asked = {}
              THEN round + 1 ELSE round

\* Slip: a validated operation counts as finished.
SummaryStatusLoose ==
  {"COMPLETED", "ESCALATED", "FAILED", "CANCELLED", "READY_FOR_VALIDATION"}

SummaryStatus == {"COMPLETED", "ESCALATED", "FAILED", "CANCELLED"}

\* _finalize, when refresh_request_status does not raise.
FinalizeRequest(reply) ==
  /\ RequestMayBecome(request, RequestAfter(reply))
  /\ status' = StatusAfterLimit(reply)
  /\ decision' = [o \in Ops |-> IF LimitReached(reply) /\ o \in Waiting
                                THEN "ESCALATE" ELSE decision[o]]
  /\ request' = RequestAfter(reply)
  /\ ClarificationAfter(reply)
  /\ customerMail' = customerMail
       \cup (IF \E k \in Keys : schedule[k] = "scheduled"
             THEN {"acknowledgement"} ELSE {})
       \cup (IF \A o \in Ops : StatusAfterLimit(reply)[o] \in SummaryStatus
             THEN {"summary"} ELSE {})
  /\ UNCHANGED <<revision, eligible, rowVars, apiVars, auditVars, bounds>>

FinalizeMail(p) ==
  /\ At(p, "finalizing") /\ role[p] = "mail"
  /\ FinalizeRequest(replying[p])
  /\ Reset(p)

FinalizeDispatch(p) ==
  /\ At(p, "finalizing") /\ role[p] = "queue"
  /\ FinalizeRequest(0)
  /\ Goto(p, "settling")
  /\ UNCHANGED <<role, mailVars, queueVars, callVars>>

\* The request cannot take the derived status: the mail fails, or the
\* dispatch loop is abandoned with the outcomes it had not settled.
FinalizeRaises(p) ==
  /\ At(p, "finalizing")
  /\ ~RequestMayBecome(request, RequestAfter(replying[p]))
  /\ MailFails(p)
=============================================================================
