# Verification of the SNOC automation agent

The agent reads support mail, lets language models propose operations (VPN access, OTP number change,
account unblock, password reset), decides by policy what may be executed automatically, and executes it
through a business API after a correction grace period. Everything it knows is in a relational database;
several operating-system processes work on it (the worker loop, retry commands, an HTTP API), and each
talks to a mailbox, a model, a business API or an SMTP server that can fail between any two transactions.

This directory holds TLA+ modules of that behaviour, TLC configurations that check them on small
instances, and TLAPS proofs of the safety properties for every instance. Paths below are relative to
`src/snoc_agent/` unless they start with another directory.

## The system

| Part | State | Operations | What makes it hard |
|---|---|---|---|
| execution queue, `workflow/execution_service.py` | `scheduled_executions`, `executions`, operation status | `schedule`, `cancel_scheduled_for_request`, `dispatch_due`, `_claim`, `execute` | two workers and a correction meet at one row; the call to the API is outside every transaction; crash before, during and after it |
| mail workflow, `workflow/inbound_processor.py` and the services it calls | operations, requests, clarifications, validation decisions, escalations | prepare, analyse, materialise, decide, release, finalise; settle dispatch outcomes | statuses derived again and again over a state machine that forbids some results |
| domain rules, `domain/state_machine.py` | none | transition tables, `derive_request_status` | |
| mail pipeline, `cli/commands.py`, `workflow/orchestrator.py`, `workflow/inbound_processor.py` | mailbox flags, `email_messages`, advisory lock | poll, store raw, parse, deduplicate, ..., acknowledge; retry a failed mail | copies of one message; exceptions at every stage; a lease that can be lost; retries of what was half done |
| LangGraph engine, `graph/` | `workflow_runs`, `workflow_events` | five agents that run the same stages with retries of their own | each agent gives up differently |
| outbox, `workflow/outbox_service.py` | `outbox_messages`, clarification status | queue, select, send, record | the SMTP call happens before its record is committed; answers are lost; two senders |
| escalation endpoint, `api/app.py` | request and operation status | `resolve_escalation` | changes rows under a running worker |
| authorization and safety, `workflow/authorizer.py`, `workflow/request_safety.py`, `ai/intent_safety.py` | none | what a text and its sender allow | many findings, some of which lift others |
| decision engine, `workflow/decision_engine.py` | none | `decide` | a large table of confidence rules over two models that may answer anything |
| correlation, `mail/correlation.py` | none (reads conversations, messages, questions) | `correlate_email` | headers, markers, subjects and senders may point to different customers; what was stored decides what the next mail means |
| business API client, `business_api/http_client.py` | none | `_post` with retries | a retry whose first attempt took effect |
| mailbox, `mail/imap_client.py` | IMAP flags | fetch, mark as seen | uids are reused when the mailbox is rebuilt between two sessions |
| contexts, `ai/context_builder.py`, `mail/mime.py` | none | cut a mail and its thread to what a model is given | what was cut must not be acted on |
| model backends, `ai/openai_compatible_backend.py`, `ai/cost.py` | a budget tracker in memory | a structured call with retries, weaker modes, a repair | each attempt costs; a cost may be unknown |
| matrix evaluation, `evaluation/` | `evaluation_runs`, `evaluation_inferences`, `inference_cache_entries`, `model_runs` | ask every analyzer and verifier about every example, resume, recommend a pair | killed at any step and resumed; a cache with a key per output mode |
| dashboard, authentication, frontend, scripts | sessions | read-only views, test drivers | |

Interaction: the worker loop (`worker_run`) polls the mailbox, hands each mail to the engine, then
dispatches due rows of the execution queue and sends the outbox, in one thread. The mail workflow writes
the rows of the queue and of the outbox in its transactions; the queue calls the business API and returns
outcomes that the mail workflow settles. The retry commands and the API's endpoints write the same tables
from other processes. There is no in-memory state that survives a loop turn; a crash loses locals only.
The evaluation is a process of its own over the same decision engine and backends, with tables of its own.

## The modules

### One request: `DomainRules`, `QueueState`, `ExecutionService`, `MailWorkflow`, `ExecutionQueue`

One specification in layers, each EXTENDS the one before. `QueueState` declares the rows of one business
request and the locals of the processes; `ExecutionService` has the actions of `execution_service.py`;
`MailWorkflow` those of a mail (new request, follow-up, correction, reply to a clarification) and of the
settlement of outcomes; `ExecutionQueue` adds the administrator, crashes and time, composes `Next` and
states the properties. `MutationLedger` is the abstract promise to the business API: a revision is
recorded before it is sent, sent at most once, and closed once. `ExecutionQueueInvariant` has the inductive
invariant, `ExecutionQueueProofs` the theorems, `MCExecutionQueue` the symmetry set.

How state corresponds: `status`, `revision`, `eligible`, `decision` are the columns of an operation;
`schedule[<<o, r>>]` and `execution[<<o, r>>]` are the rows with idempotency key `o:r` (`"none"` without a
row); `due` says that `not_before` passed; `request`, `asked`, `round`, `customerMail` are the request, its
open clarification and the mails queued for it; `pc`, `role` and the rest are the locals of a process. A
step is one `session_scope` or one call to the outside, since a transaction that commits at its end shows
nothing before. The exception is the first transaction of `execute`: it reads a row, tests it and writes it
without a lock or a version (READ COMMITTED), so it is two steps, `TestRevision` and `BeginExecution`.
`calls` and `applied` stand for the business API: what was sent, and what took effect whether or not the
answer arrived.

Several workers are part of the model although an advisory lock keeps `worker_run` alone: the lock does
nothing on SQLite, its session can be lost while the worker is in the middle of a batch, and the retry
commands take no lock.

Abstractions: one mail raises a revision by one; the outcomes of a batch are settled in any order;
`REVIEW_CORRECTION` is the same as `ESCALATE`, as it has the same effect; `MARK_DUPLICATE` is left out
because no rule produces it; a reply may match no question; proposals that match no operation open another
request in the code, which is `Threads`' subject. The decision is any decision `DecisionEngine.decide`
can return for an operation in that state (`Reachable`); that it returns no other is checked and proved of
`Judgement`, as `DecisionsAreReachable`.

### One mailbox: `MailPipeline`

A mail from the mailbox to its acknowledgement: the lease and the polling loop, the stages of
`process_raw` and `_process_stored`, the agents of the graph with their retries (constant `Engine` selects
the engine), exceptions at every stage, crashes, moments the database is out of reach, a failed
`mark_seen`, and a command that retries failed and quarantined mails. `email[c]` is
`email_messages.processing_status` of a copy; `duplicates`, `parsed` and `conversations` are what else its
row says; `requests[c]` counts the requests its attempts created and `mutated` the releases to the queue
underneath. `StoreRaw` is one step because the unique key of the physical locator protects it;
`_apply_parsed` is two (`LookForCopy`, `ApplyParsed`) because nothing protects its look-up.
`MailPipelineInvariant` has the inductive invariants and `MCMailPipeline` the copies.

`MailLifecycle` is what this promises: the row of a mail is opened once and closed, what it closed as stays unless a
person retries a failure, only an open row gets a request (one, and one more for each retry), and only its newest
request is released. `Life` reads it off the statuses. The legacy engine implements it. The graph does not: its nlu
agent opens a request again when it is retried, and its audit can fail a mail that was processed.

What a stage does to requests and operations is `MailWorkflow`'s subject; here it is a count. There is
one retry command at a time, and twins share subject and sender. A commit whose answer is lost is not
modelled.

### One outbox: `Outbox`

Queueing, `send_once` with its ordered and limited selection, the SMTP call and the commit of either
result, the customer's answer to a clarification, several senders, lost answers and interruptions.
`delivered[m]` counts arrivals at the customer. `call[s]` holds what a sender read before its SMTP call and
will write after it: its `retry_count` plus one, and a status only if that changes, as the session flushes
it. `Answers` includes a permanent rejection, which `SendResult` allows and `RealSMTPTransport` never
produces (every `SMTPException` is an `OSError` and is caught first), except as a refused recipient. A missing
outbound mail cannot occur and is left out. `OutboxInvariant` has the inductive invariant.

### One mail's judgement: `DecisionRules`, `Judgement`

`DecisionRules` has the pure functions between a text and a decision: sender authorization, numeric
candidates, the checks of `apply_intent_safety` and of the analyzer, the classifier in front of it, the
request-wide safety assessment, provenance and evidence, the hard invariants, confidence rules and thresholds
of `HybridDecisionEngine.decide`. A text is what the patterns find in it: actions named by its clauses, numbers
by line, and features (forwarded, conditional, an example, ...). A model's answer is any record of its schema.

`Judgement` is the path of one mail with one operation through them, as `_process_stored` wires them: `arrived`,
`prepared`, `analysed`, `verified`, `done`. A scenario is a first request, the answer to a question, or a
follow-up; all else is clean until a step adds *doubts*: what the sender, the text, the stored operation, the
analyzer's or the verifier's answer is like otherwise. `Verdicts` is the decision as a function of the doubts,
so that a property can compare a mail with the same mail without one of them.

### Which request a mail is about: `Threads`

Conversations, requests, questions and messages of several customers, with `correlate_email` over them and
everything that `_prepare`, `_materialize_analysis` and `_finalize` store for later mails to point to. A mail
may reply to any stored message and show any reference, of anybody. `handling[w]` is what a worker keeps
between its transactions (`_Prepared`, and the requests it decided about); other workers act in between. Rows
are numbered in the order of their creation and 0 is no row. A request has one operation here, reduced to what
decides whether it is open or waits; `writers` are the customers on whose word it was written, a ghost. Retries
of a failed mail are `MailPipeline`'s subject. `next(iter(set))` in the code is a choice of any member.

### A business call: `BusinessCall`, `BusinessClient`

`BusinessCall` is the promise to `execute`: a key takes effect at most once, and a call is called a success only
if it has. `BusinessClient` is `HttpBusinessAPI._post` with its attempts, timeouts, transport errors, redirects
and status codes, the validation of the commands, the mock, and the recording in `execute`, against a server
that honours the idempotency key or does not (then one attempt is made), and that may apply a request whose
answer was given up. A client may crash between its attempts; a key may be asked for again.

### A mailbox: `Mailbox`

The mailbox under `poll_once`: messages are delivered, expunged, or renumbered under a new UIDVALIDITY between
the session that fetches and the one that marks. A row is found by its physical locator (mailbox, UIDVALIDITY,
uid) or by its bytes. What processing does is `MailPipeline`'s subject; here a message is stored, or not.

### A context: `ContextBounds`

`extract_content`'s limits on the parts of a mail, then `finalize_context`: the sections are shortened or
emptied in the order of the code, each reduction with its warning, until the JSON fits its cap, at last by the
minimal envelope. Lengths are in units; lists are kept or dropped by whole entries.

### Model calls and evaluation: `ModelBackend`, `EvaluationMetrics`, `MatrixEvaluation`

`ModelBackend` has one structured call as operators: what an attempt, an error of each category, a downgrade of
the output mode, a repair and an answer without a cost do to the call and to the budget tracker.
`EvaluationMetrics` has the prediction of one row, its flags, the summary of a pair and the recommendation.
`MatrixEvaluation` is the process: it looks each question up among the recorded inferences and the cache, asks,
commits, and may be killed or interrupted at any step and started again, from its tables only. An answer costs
one unit or is of unknown cost. `MCEvaluation` lists the evaluations that are explored.

### `MCServices`

`BusinessClient`, `Threads`, `ContextBounds`, `Mailbox` and an `Outbox` with a single sender share no state.
`MCServices` runs one of them per behaviour, its `subject`, and leaves the others in an initial state, so that
one run checks all five.

## What is checked

A run is `tlc -config <run>.cfg <module>.tla`.

| Run (module) | Question | States |
|---|---|---|
| `queue_single` (MCExecutionQueue) | One worker, two operations of one request, two revisions, two mails, one crash: does what customer and operator read agree with what was executed? | 283 k |
| `queue_workers` | Two workers, one with a grace period and one without, dry run, three events among mails, corrections and crashes: is a revision sent once, is every step a step of `MutationLedger`, does every waiting row leave the queue, and is every claimed row closed? | 400 k |
| `queue_grace` | Two workers that both observe the grace period, four mails, a crash, five events: does every failed execution reach a person although a settlement may be abandoned, and is a cancelled revision never sent? | 3.55 M |
| `mail_copies` (MCMailPipeline) | Three copies of one message (two with equal bytes), two pollers, an exception, a crash: is what is acknowledged stored, does one copy open a request, is every mail acknowledged in the end? | 103 k |
| `mail_retries` | Two copies, a poller and a retry command, two exceptions, a crash, an outage: what do retries repeat, and is every step a step of `MailLifecycle`? | 838 k |
| `mail_graph` | The agents' retries, five exceptions, two retries of the mail: is an uncertain mail released once? | 270 k |
| `outbox_senders` (OutboxInvariant) | Two senders on one outbox, batches of one, lost answers, a crash: do the rows tell the truth, and is every message closed? | 70 k |
| `judgement` (Judgement) | Three scenarios, four policies, up to three doubts of 66: which operation is executed, with which values, and does a doubt ever help? | 608 k |
| `evaluation` (MCEvaluation) | Two analyzers, two examples, every cache mode and budget policy, failures of every kind, kills and two resumptions: what is paid again, what is reported and recommended? | 1.49 M |
| `services` (MCServices) | Three attempts and two calls of one key; three mails of two customers with two references between two workers; contexts of every length around four caps; two letters, two uids and two rebuilds; one sender with three messages, batches of two, three attempts and two interruptions: does each service keep its promise? | 5.54 M |
| `v_escalated`, `v_stranded` | claims of the repository that fail (below) | |

Bounds. Two operations are the least with which a request has a mixed status and a batch can be abandoned
halfway; the operations are interchangeable, so `queue_single` uses symmetry. Two revisions are the least
with which an old and a new one meet. Two mails cover a request and its correction; three are the least with
which two replies release one revision at once, so `queue_workers` has three, and bounds mails, corrections and
crashes together (`MaxEvents`) because its liveness properties cost more than its states. `queue_grace` has the four
mails with which `FailuresEscalated` fails as soon as one of its workers executes at once. Two
processes cover every pairwise race; the proofs cover any number. One crash is enough for a crash at any
point, two to crash again while recovering (the sender in `services`). In the pipeline, five exceptions exhaust the
longest retry of an agent and fail once more. `SendRetries` of the outbox is the program's own limit, smaller
than its default of 3 only where two senders run. Three doubts reach every pair of exceptions together with
what they might excuse, though one exception takes four; the proofs cover any number. In `Threads` three mails are a request, another one or a
reply, and a mail that meets both; more than two references add no kind of conflict. `ContextBounds` has caps
from the minimal envelope to one that most contexts fit. An evaluation with two resumptions is resumed from what a
resumption wrote. Runs say `CHECK_DEADLOCK FALSE` because the system
rightly stops when no mail is left and the bounds are used.

Fairness. `ExecutionQueue`: weak fairness of each process's own next step, of polling the queue, and of the
passing of the grace period. `worker_run` is a loop that survives the exceptions of polling and of
dispatching, and does nothing but the next step. `MailPipeline`: weak fairness of polling and handling per process,
including its start, because `compose.yaml` restarts the worker (`restart: unless-stopped`). `Outbox`: weak
fairness of each sender's step. Mail, crashes, exceptions, the administrator, retry commands and replies
are never fair. The other modules state no fairness and have no liveness property: a business call and an
evaluation may rightly be given up.

Properties worth their run. Queue: `AtMostOneCall`, `ExclusiveDispatch`,
`UnclaimedNeverCalled` (a cancelled revision is never sent), `ClosedRowHasRecord`, `RowsSettle`,
`CompletedAsRecorded`, `NoOrphanWithoutCrash`, `NoCallAfterSummary`, `CompletedIsFinal`, `FailuresEscalated`,
`ScheduledLeaves`, `ClaimedSettles`, and the refinement `ImplementsLedger`. Pipeline: `SeenIsStored`,
`OneCopyHandled`, `PreparedMailIsAnswered`, `RequestsPaidByRetries`, `UncertainReleasedOnce`,
`MailIsAcknowledged`, and the refinement `ImplementsLifecycle`. Outbox: `SaysDelivered`, `WaitingHasRetry`,
`DeliveriesExplained`, `FailedDidNotArrive`, `QueuedIsClosed`. Judgement: `NothingInvented` (no executed value that neither the message
nor the stored operation has), `NoDoubtHelps` (what is executed with a doubt is executed without it, with the
exceptions of `docs/weakness_policy_decisions.md` named), `DecisionsAreReachable`. Threads: `OwnersWrite`,
`AnswersFindTheirRequest`, `WaitingIsAsked`. Services: `CallKeepsItsPromise` (a refinement), `ContextFailsClosed`,
`SeenIsKept`. Evaluation: `PaidOnce`, `SpendIsRemembered`, `NeverPastTheStop`, `RefreshLeavesOneAnswer`,
`ReportMatchesRecords`, `RecommendedIsSafe`. `NoOrphanWithoutCrash` and `NoCallAfterSummary` hold with one worker
and fail with two, see below; `FailuresEscalated` fails with two operations, or with a process that executes at
once beside the queue.

Type invariants and inductive invariants are proved, and were found with TLC first; they are no properties of a
run any more, as the theorems say more of them.

An operator whose comment says *Slip of X*, or that stands under the heading *Slips*, is a mistaken form of an
operator after it. It is in no `Next`; it is there to see that a property fails when it takes the place of the
right one.

## Divergences

Claims of the repository that the code does not keep, each a run that TLC refutes:

- `v_stranded`: an exception while a mail is parsed or applied, before `_process_stored`, leaves its row
  `stored`; the next poll meets a known locator, answers `duplicate` and acknowledges the mail. No command
  retries a stored row. `workflow/orchestrator.py:17-22` says an acknowledged status means a stored outcome or
  a mail the retry command can take.
- `v_escalated`: two outcomes of a batch; while the first is settled the administrator has cancelled the
  request, the derived status is forbidden, and the exception drops the second outcome, a failed execution
  that is then neither escalated nor retried.

Others are behaviours of the same models; the properties that state them are defined in their module, and no
configuration is kept for them. To see one, give its property to TLC with the constants of the run that is
named:

| Property | Run | What the code does |
|---|---|---|
| `RefusedIsNotReleased` | `mail_graph`, no retry command | the policy agent fails, and the unconditional edge to the fulfilment agent (`graph/build.py:32`) releases the operations all the same; `docs/langgraph_migration_status.md:17-18` says that node fails closed |
| `OnlyApprovedCalled` | `queue_workers` without crash | `schedule` takes the current revision; one that another process stored after the decision is sent without a decision of its own |
| `CallsCurrentRevision` | `queue_workers` without crash | a correction that commits between the tests of `execute` and its call does not stop the old revision |
| `NoOrphanWithoutCrash` | `queue_workers` without crash | a verifier failure in another process marks the operation `ESCALATED` during the call; the success cannot be stored, the record stays pending and the row is closed as failed |
| `NoCallAfterSummary` | `queue_workers` without crash | the same failure lets the terminal summary be queued while a dispatcher still sends |
| `FailuresEscalated` | `queue_grace` with `Immediate = {v}`, no crash | a process without grace period has recorded an old revision whose row still waits: the dispatcher reconciles it in the batch in which its own execution failed, and loses one of the two outcomes as in `v_escalated` |
| `ReleasedIsQueued` | `queue_workers` | `schedule` returns the cancelled row of the same revision; nothing is queued |
| `PreparedMailIsAnswered` | `mail_graph` with one poller | the fulfilment and security agents answer `failed` without writing it; the row stays `processing` and is acknowledged |
| `RequestsPaidByRetries` | `mail_graph` with one poller | the nlu agent's retry materialises the mail again: a second request |
| `ReleasedOnce` | `mail_retries`, one copy | a mail that is not found by its subject is released again when it is retried |
| `OneDelivery` | `services`, one message | the process is killed between the SMTP call and its commit; the message is sent again with the same Message-ID (`docs/langchain_five_agent_migration_plan.md:344` excludes it) |
| `ForwardedIsReviewed` | `judgement` | an instruction of its own in the text lifts the forwarded-content gate (`workflow/request_safety.py:270-274`) with the setting off, or without the analyzer saying so; `docs/weakness_policy_decisions.md:156` asks for both |
| `WaitingIsAsked` | `services` with `MaxRounds = 2` | a reply that stays incomplete and brings a request of its own: `_finalize` closes the question in the other request's turn (`workflow/inbound_processor.py:1902`), and nobody is asked any more |

Seen while translating, without a property:

- `HttpBusinessAPI._post`: a last answer of 408, 502, 503 or 504 is recorded as failed, although an attempt before it may
  have taken effect; and a command that fails validation is recorded as unknown although nothing was sent.
- `_prepare` adds the warnings of the MIME limits (`workflow/inbound_processor.py:951-954`) after the context was
  finalised, so it may exceed the cap that `ai/context_builder.py:128` promises.
- An operation that `apply_intent_safety` removed from a reply comes back as the deterministic reading of the one
  number in it (`workflow/inbound_processor.py:1256-1270`).
- A model that calls a mail irrelevant and not a new request is believed however unsure it is
  (`ai/fallback_analyzer.py:52-121`), with all else it says. In a forwarded answer that it sees as a direct instruction, and with the
  exceptions on, that executes the number in it; had it not called the answer irrelevant, its analysis would have been
  set aside for being unsure, the direct instruction with it. `Excuses` names this.
- The subject override needs any negation, and also stops the subject/body conflict of the analyzer
  (`docs/weakness_policy_decisions.md:47-51`). Two PDVs on separate lines with one phone are not ambiguous. The
  classifier's branch answers one operation only.
- A mail in conflict is filed in somebody's conversation though it writes nothing there, and a reply to a message
  without a conversation is strong about nothing: its visible reference is not looked at.
- A later mail with the text of an earlier one is taken for its copy.
- Matrix evaluation: a call with several answers of which one has no cost is recorded without a cost, and a
  resumption forgets what the others cost (the docstring of `_restored_budget`, `evaluation/matrix_runner.py:268`,
  says that a crash cannot reset the guard); the strict guard does not count an unknown cost of an answer without a message; a
  clarification reply is asked again after a resumption, because the analyzer wrote its candidates into the context
  it was given (`ai/fallback_analyzer.py:199-209`, against `evaluation/matrix_runner.py:343`); the
  `openai_compatible` endpoints get no budget tracker (`cli/runtime.py:111-116`); `pipeline_predictor.py:256` compares
  decisions with a lower-case name, so that no validation passes.

## What is proved

`tlapm` proves, for every value of the constants under the named assumptions of the modules
(`QueueAssumption`, `PipelineAssumption`, `OutboxAssumption`, `ValuesAssumption`, `MaxUidAssumption`,
`CapsAssumption`, `LimitsAssumption`, `PlansAssumption`, `VerifiersAssumption`, `RetriesAssumption`,
`MailAssumption`) and those a theorem states itself:

`ExecutionQueueProofs` — `TypeCorrect`, `OneCallPerRevision`, `CallsAreRecorded`, `OneDispatcherPerRow`,
`ClosedRowsAreRecorded`, `SettledRowsStay`, `UnclaimedRowsAreNotCalled` (no process executes at once), and
`QueueImplementsLedger`; `FailuresReachAPerson` (no process executes at once, one operation). The properties speak of rows and are not inductive: what protects a row is what a
process that holds its key knows. `QueueInvariant` says that where a process stands tells what its row and its
record say, that one process at most is at the call of a key, and that a dispatcher's row is `dispatching`.
The proof classifies the steps (`StepKinds`): those that touch no key, those that test a row, those that
close one, and those that act on a record. The refinement follows from the invariant, each step being one
ledger step or a stutter. `UnclaimedNeverCalled` needs the stronger `RecordFollowsClaim` (`GraceInvariantHolds`), which
holds only if nobody bypasses the queue. From it also `FailuresReachAPerson`, for one operation: rows are scheduled for
current revisions, so a batch has at most one row that is not stale, and with it at most one outcome that is not a
cancellation (`OneExecutionPerBatch`); when a settlement raises, that one has been settled (`EscalationInvariant`).

With one worker, which may be killed at any step and stands beside an administrator, also `PendingIsUnderWay`,
`NothingIsSentAfterSummary`, `CompletedStays` and `CompletionsAreApplied`, from `SoleInvariant`: the worker finds
its operation as it left it, so a revision that is being sent is the present one of an operation under way, a
request whose summary was queued has only settled operations, and what is completed has its recorded success. Two
workers break the first link, since each decides on what it read before the other committed.

`MailPipelineProofs` — with either engine, `PipelineTypes` and `AcknowledgedIsStored`. Under the legacy
engine, `NoPreparedMailIsLeft`, `RequestsArePaid`, `UncertainMailIsReleasedOnce`, `SettledMailsStay` and
`PipelineImplementsLifecycle` from `LegacyInvariant`: a held row is open, and one process holds it; a row in
processing has its process; an attempt that has not materialised has not used its retry; and only the attempt that
opened the conversation may release. `SettledMailStays` is proved and no property of a run: it is what the life
says of a settled mail, down to its status. `PipelineImplementsLifecycle`, the refinement of `MailLifecycle`, needs two parts more: a row, a batch
or a process has only mails that arrived (`ArrivalInvariant`), and the request at hand is the newest of its mail
(`NewestInvariant`), since nobody else opens one for a mail that is held. Without retry commands,
`OneCopyIsHandled` from `PollerInvariant`: who is not stopped has the lease, so no two originals of one message
exist.

`OutboxProofs` — for any number of senders, `OutboxTypes`, `RowsSayDelivered` and
`WaitingMessagesHaveRetries` from `CallInvariant`, what a sender between its call and its commit knows. With one sender,
`DeliveriesAreExplained` and `FailedMessagesDidNotArrive` from `AloneInvariant`: a selected message still waits,
and each delivery that is not recorded or about to be is paid by a lost answer or an interruption.

`JudgementProofs` — for any values, settings and number of doubts, `ExecutionNeedsAgreement` (what the decision
table requires before it executes, whatever the models answer), from which `NoValueIsInvented` and
`DecisionsStayReachable` follow by `JudgementInv`: an outcome is a verdict on the doubts the mail has by then.
`DoubtsNeverHelp` proves `NoDoubtHelps`, where TLC reaches three doubts, for mails with any set of them. It compares two
verdicts. `Executes` is what an execution takes, condition by condition (`DecisionExecutes`, `ReasonsOneByOne`); each
condition is preserved when a doubt goes (`VerifierStays`, `MailStays`, `SafetyStays`, `ContextStays`,
`ProposalStays`), so the work is executed still if the analysis brings the same of it (`ExecutionStays`). That it does
is shown by the way the operation came about: of a request or follow-up by the classifier (`ClassifiedStays`) or the
model (`ModelledStays`), of an answer by its number alone (`CompletedWorkStays`) or by a proposal (`OwnWorkStays`), with the classifier's, the
model's or no analysis. `DoubtsInv` says that what was decided is the verdict on one of the mail's works. The
proof found an exception that needs four doubts: see the irrelevant answer below "Seen while translating".

`ServiceProofs` — of the business client, `ClientKeepsPromise`, the refinement of `BusinessCall`, from `ClientInv`: without a
guarantee one request is sent per call, with it one request takes effect, and what a reply says was true when it
was sent. This is what `CallBusinessAPI` of the queue assumes of its environment. Of the mailbox, `SeenMailIsKept`, for
any number of letters, uids and rebuilds, from `MailboxInv`: what has a locator of the present UIDVALIDITY is what
that locator names, and a message on its way to `mark_seen` has a row. Of the contexts, `ContextsFailClosed`, for any
limits and caps, from `ContextInv`: once anything is left out, nothing is executed automatically, through all
reductions; and the minimal envelope always fits, since what is added to it as far as it fits never makes it too long.

`Sums` — lemmas about the sum of a function over a finite set: it exists, does not depend on an order, grows by what
an element adds. The library's induction theorems cannot be instantiated here, so each is proved by the least number
or the smallest set that would be an exception. The contexts' lengths and the evaluation's spending rest on them.

`ThreadsProofs` — `OnlyOwnersWrite`, for any number of customers, mails, references and workers. Messages, requests
and questions agree on the conversation they belong to (`Consistent`), a correlation that is not a conflict stays
within one conversation of the sender, and rows are added but never change their conversation (`Grows`), so that
what a worker found in `_prepare` is still so when it writes, whatever others did in between.
`RepliesFindTheirRequest` follows from them and from what is stored with each answer: it was placed with the
request its message is about, and rows keep what they are about. `NobodyWaitsInSilence` assumes `MaxRounds <= 1`,
the default (`config.py:145`): its `WaitingInvariant` says that each waiting request has been heard, or is in the
hands of a worker that has decided about it and holds its question. One round is what makes it so: a reply that
stays incomplete then gives up, with an alarm, or finds no open question. With two it is false (Divergences).

`EvaluationProofs` — for any evaluations, models, examples and retries, `AnswersArePaidOnce`, `RefreshIsComplete`,
`ReportsRestOnRecords` and `NoWrongPairIsRecommended` from `EvaluationInvariant`: a complete inference row and a
cache entry point to a run that answers their question, and so does all that rests on them: the results of the row
in progress, the verdicts it remembers, the predictions, the report. Within a row each question is asked once, so
that nobody overwrites what a result rests on, and a resumption finds what its predecessor committed.
`SpendIsNeverForgotten` and `TheStopHolds` follow from `BudgetInvariant`: every run is filed once, with the row that
asked for it; a row that was taken from the cache asked for none; and what the runs cost, with what an interrupted
call has not stored yet, is in the tracker, which never passes the stop. `TheStopHolds` is about analyzers of one
call on a tracked endpoint; that the classifier in front of one changes nothing is left to TLC.

Only model-checked: the liveness properties (the prover has no fairness).

## What is not modelled

The texts: parsing, segmentation, patterns, prompts, templates, headers. The arithmetic inside the classifier and
the risk scorer. The audit rows of the graph. `polling_checkpoint` and `last_uidvalidity`, which are written and
never read. The warning `html_sanitization_failed`, which does not count as a limit. The simulated inbox of the API, which
stores mails as processed and is meant for development; whitelist and agent switches of the dashboard, which no
worker reads. Authentication, dashboards, frontend and scripts, which do not touch the workflow's state. The
calibration, the datasets and the layout of evaluation reports. Migrations and configuration. `PROJECT.json`
lists each part with its status.

## Plan

Written: the core (one request), its ledger, the pipeline, the outbox, the judgement of a mail, the correlation
of mails, the business client, the mailbox, the contexts, the matrix evaluation. Next:

1. Several retry commands at once in `MailPipeline`, with `retry_stored`'s read and write as two steps.
2. Several operations per request in `Threads`, and the late commit of the outbox that opens an answered
   clarification again.
3. The weaker life of a mail that the graph engine implements.
