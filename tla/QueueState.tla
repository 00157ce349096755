----------------------------- MODULE QueueState -----------------------------
(***************************************************************************)
(* The state of one business request between the decision to execute its   *)
(* operations and the call of the business API: its rows in the database   *)
(* (db/models.py), what the business API did, and the locals of the        *)
(* processes that work on it.                                              *)
(*                                                                         *)
(* A process is one operating-system process of the deployment.  A worker  *)
(* (worker_run) handles mail and dispatches the queue in one sequential    *)
(* loop, so it is in Handlers and in Dispatchers; the retry commands       *)
(* (retry_failures, quarantine_retry) only handle mail.                    *)
(***************************************************************************)
EXTENDS DomainRules, FiniteSets, Integers

CONSTANTS
  Ops,            \* the operations of the request
  Handlers,       \* processes that handle stored mail
  Dispatchers,    \* processes that run dispatch_due
  Immediate,      \* handlers configured with execution_grace_seconds = 0
  DryRun,         \* settings.dry_run: the endpoint may approve escalations
  MaxClarificationRounds, \* settings.max_clarification_rounds
  MaxRevision,    \* bound: revisions an operation reaches
  MaxMails,       \* bound: mails handled
  MaxCrashes,     \* bound: processes killed
  MaxEvents       \* bound: mails, corrections and kills together

ASSUME QueueAssumption ==
  /\ IsFiniteSet(Ops) /\ Ops # {}
  /\ Immediate \subseteq Handlers
  /\ DryRun \in BOOLEAN
  /\ MaxClarificationRounds \in Nat \ {0}
  /\ MaxRevision \in Nat \ {0}
  /\ MaxMails \in Nat
  /\ MaxCrashes \in Nat
  /\ MaxEvents \in Nat

Processes == Handlers \cup Dispatchers
Revisions == 1 .. MaxRevision
Keys == Ops \X Revisions      \* the idempotency keys "operation_id:revision"
NoKey == <<>>

Decisions == {"none", "AUTO_EXECUTE", "ASK_FOR_INFORMATION", "ESCALATE", "IGNORE"}
ScheduledExecutionStatus ==
  {"scheduled", "dispatching", "dispatched", "cancelled", "failed"}
ExecutionStatus == {"pending", "succeeded", "failed", "unknown"}

VARIABLES
  \* the operation rows
  status,     \* "ABSENT" before the first mail is analysed
  revision,   \* current_revision
  eligible,   \* execution_eligible
  decision,   \* final_decision
  \* the rows keyed by an operation revision
  schedule,   \* scheduled_executions.status, or "none"
  due,        \* scheduled rows whose not_before has passed
  execution,  \* executions.status, or "none"
  \* the request row, its open clarification and its customer mails
  request,    \* requests.status, or "ABSENT"
  asked,      \* operations the open clarification asks about
  round,      \* clarifications created so far
  customerMail,
  \* the business API
  calls,      \* invocations per key
  applied,    \* keys whose mutation took effect
  \* audit rows, read by the properties
  approved,   \* keys with an AUTO_EXECUTE validation decision
  escalated,  \* keys with an execution or dispatch escalation
  \* the processes
  pc, role,
  kind,       \* what the mail was analysed to be
  replying,   \* number of the clarification the mail answers, or 0
  todo,       \* operations still to be verified
  executeIds, \* operations decided AUTO_EXECUTE by this mail
  batch,      \* candidate rows read by dispatch_due
  key,        \* operation revision being executed
  result,     \* what the call or execute returned
  outcomes,   \* dispatch outcomes still to be settled
  \* bounds
  mails, crashes

opVars == <<status, revision, eligible, decision>>
rowVars == <<schedule, due, execution>>
requestVars == <<request, asked, round, customerMail>>
apiVars == <<calls, applied>>
auditVars == <<approved, escalated>>
mailVars == <<kind, replying, todo, executeIds>>
queueVars == <<batch, outcomes>>
callVars == <<key, result>>
tables == <<opVars, rowVars, requestVars, apiVars, auditVars>>
procVars == <<pc, role, mailVars, queueVars, callVars>>
bounds == <<mails, crashes>>
vars == <<tables, procVars, bounds>>

Init ==
  /\ status = [o \in Ops |-> "ABSENT"]
  /\ revision = [o \in Ops |-> 1]
  /\ eligible = [o \in Ops |-> FALSE]
  /\ decision = [o \in Ops |-> "none"]
  /\ schedule = [k \in Keys |-> "none"]
  /\ due = {}
  /\ execution = [k \in Keys |-> "none"]
  /\ request = "ABSENT"
  /\ asked = {}
  /\ round = 0
  /\ customerMail = {}
  /\ calls = [k \in Keys |-> 0]
  /\ applied = {}
  /\ approved = {}
  /\ escalated = {}
  /\ pc = [p \in Processes |-> "idle"]
  /\ role = [p \in Processes |-> "none"]
  /\ kind = [p \in Processes |-> "none"]
  /\ replying = [p \in Processes |-> 0]
  /\ todo = [p \in Processes |-> {}]
  /\ executeIds = [p \in Processes |-> {}]
  /\ batch = [p \in Processes |-> {}]
  /\ key = [p \in Processes |-> NoKey]
  /\ result = [p \in Processes |-> "none"]
  /\ outcomes = [p \in Processes |-> {}]
  /\ mails = 0
  /\ crashes = 0
-----------------------------------------------------------------------------
(* Helpers *)

OpOf(k) == k[1]
RevisionOf(k) == k[2]
CurrentKey(o) == <<o, revision[o]>>     \* ExecutionService.idempotency_key

\* The bound on what happens from outside.
MayHappen ==
  LET corrected == {k \in Keys : RevisionOf(k) < revision[OpOf(k)]}
  IN mails + crashes + Cardinality(corrected) < MaxEvents

At(p, label) == pc[p] = label
Goto(p, label) == pc' = [pc EXCEPT ![p] = label]

\* The process forgets its locals and waits for the next mail or poll.
Reset(p) ==
  /\ pc' = [pc EXCEPT ![p] = "idle"]
  /\ role' = [role EXCEPT ![p] = "none"]
  /\ kind' = [kind EXCEPT ![p] = "none"]
  /\ replying' = [replying EXCEPT ![p] = 0]
  /\ todo' = [todo EXCEPT ![p] = {}]
  /\ executeIds' = [executeIds EXCEPT ![p] = {}]
  /\ batch' = [batch EXCEPT ![p] = {}]
  /\ key' = [key EXCEPT ![p] = NoKey]
  /\ result' = [result EXCEPT ![p] = "none"]
  /\ outcomes' = [outcomes EXCEPT ![p] = {}]

\* Processing raised: _mark_failed touches the email row only.
MailFails(p) ==
  /\ Reset(p)
  /\ UNCHANGED <<tables, bounds>>

Ready(o) == status[o] = "READY_FOR_VALIDATION"

\* The test of _assert_schedulable, repeated by _dispatch_blocker.
Schedulable(o) ==
  /\ Ready(o)
  /\ eligible[o]
  /\ decision[o] = "AUTO_EXECUTE"
=============================================================================
