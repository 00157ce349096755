---------------------------- MODULE MailPipeline ----------------------------
(***************************************************************************)
(* A mail from the mailbox to its acknowledgement: the polling loop with   *)
(* its singleton lease (cli/commands.py, workflow/orchestrator.py), the    *)
(* stages of InboundProcessor.process_raw, the same stages run by the five *)
(* agents of the LangGraph engine with their retries, and the commands     *)
(* that retry a failed or quarantined mail.                                *)
(*                                                                         *)
(* A copy is one message of the mailbox, named by its IMAP locator; it has *)
(* at most one email row.  The mails of this module ask for something of   *)
(* their own: handling one creates a request, and the queue underneath     *)
(* (ExecutionQueue) sees one release per request that was decided.         *)
(*                                                                         *)
(* A step is one transaction or one call to the mailbox or the analyzer,   *)
(* except that _apply_parsed, which looks for another copy and then        *)
(* commits without a lock or a unique key, is two.                         *)
(***************************************************************************)
EXTENDS Integers

CONSTANTS
  Copies,      \* messages of the mailbox
  Twins,       \* pairs of copies of one logical message
  SameBytes,   \* those pairs whose raw bytes are equal too
  Certain,     \* copies without a subject, or that reply to a known message
  Pollers,     \* worker_run and mail_poll processes
  Retriers,    \* a retry_failures or quarantine_retry command, if any
  NoOne, NoCopy, \* neither a process nor a copy
  Engine,      \* settings.workflow_engine
  MaxFaults,   \* bound: exceptions raised
  MaxCrashes,  \* bound: processes killed
  MaxOutages,  \* bound: moments the database is out of reach
  MaxRetries   \* bound: retries of one mail

ASSUME PipelineAssumption ==
  /\ SameBytes \subseteq Twins /\ Twins \subseteq Copies \X Copies
  /\ \A c, d \in Copies : <<c, d>> \in Twins => <<d, c>> \in Twins
  /\ Certain \subseteq Copies
  /\ Pollers \cap Retriers = {} /\ \A p, q \in Retriers : p = q
  /\ NoOne \notin Pollers \cup Retriers /\ NoCopy \notin Copies
  /\ Engine \in {"legacy", "langgraph"}
  /\ {MaxFaults, MaxCrashes, MaxOutages, MaxRetries} \subseteq Nat

Processes == Pollers \cup Retriers

ProcessingStatus ==
  {"stored", "processing", "processed", "failed", "duplicate", "ignored", "quarantined"}

Ingress == {"storing", "parsing", "applying"}
Stages == Ingress \cup {"preparing", "analyzing", "deciding", "checking",
                        "releasing", "finalizing"}
Labels == {"stopped", "waiting", "polling", "failing", "answering"} \cup Stages

VARIABLES
  inbox,         \* "coming", "unread" or "seen"
  email,         \* email_messages.processing_status, or "none"
  duplicates,    \* rows with a duplicate_of_id
  parsed,        \* rows whose logical identity is stored
  conversations, \* copies an attempt opened a conversation for
  requests,      \* requests created for a copy
  mutated,       \* <<copy, n>>: the operations of its n-th request were released
  retries,       \* retries a copy was given
  lease,         \* holder of the advisory lock
  pc, batch,
  job,           \* the locals of the mail at hand
  faults, crashes, outages

rows == <<email, duplicates, parsed, conversations>>
effects == <<requests, mutated>>
bounds == <<faults, crashes, outages>>
vars == <<inbox, rows, effects, retries, lease, pc, batch, job, bounds>>

NoJob ==
  [at |-> NoCopy,     \* the copy
   tries |-> 0,       \* attempts of the agent that failed
   id |-> FALSE,      \* context.email_id is known
   found |-> FALSE,   \* another copy was found
   weak |-> FALSE,    \* the correlation is weak
   request |-> 0,     \* number of the request created for it
   execute |-> FALSE, \* execute_operation_ids is not empty
   refused |-> FALSE, \* the policy agent gave up
   result |-> "none"]

Init ==
  /\ inbox = [c \in Copies |-> "coming"]
  /\ email = [c \in Copies |-> "none"]
  /\ duplicates = {} /\ parsed = {} /\ conversations = {}
  /\ requests = [c \in Copies |-> 0]
  /\ mutated = {}
  /\ retries = [c \in Copies |-> 0]
  /\ lease = NoOne
  /\ pc = [p \in Processes |-> "stopped"]
  /\ batch = [p \in Processes |-> {}]
  /\ job = [p \in Processes |-> NoJob]
  /\ faults = 0 /\ crashes = 0 /\ outages = 0
-----------------------------------------------------------------------------
(* Helpers *)

At(p, label) == pc[p] = label
Goto(p, label) == pc' = [pc EXCEPT ![p] = label]
Graph(p) == Engine = "langgraph" /\ p \in Pollers \* retry_stored runs the legacy path

SetStatus(p, status) == email' = [email EXCEPT ![job[p].at] = status]

\* The next agent starts with attempts of its own.
Continue(p, label) ==
  /\ job' = [job EXCEPT ![p].tries = 0]
  /\ Goto(p, label)

Answer(p, status) ==
  /\ job' = [job EXCEPT ![p].result = status, ![p].tries = 0]
  /\ Goto(p, "answering")

\* The row gets its final status and the stages return it.
Settle(p, status) == SetStatus(p, status) /\ Answer(p, status)

Busy(c) == \E p \in Processes : job[p].at = c
-----------------------------------------------------------------------------
(* Slips.  None of these is part of the model: each is one of the operators *)
(* below with a mistake in it, to see that a property notices.              *)

\* The lease is not asked for.
StartUnleased(p) ==
  /\ At(p, "stopped") /\ p \in Pollers
  /\ lease' = p
  /\ Goto(p, "waiting")
  /\ UNCHANGED <<inbox, rows, effects, retries, batch, job, bounds>>

\* Duplicates are left for a person to acknowledge.
AcknowledgedWithoutDuplicates == {"processed", "ignored", "quarantined", "failed"}

\* The retry correlates a mail as if it was the first attempt.
CorrelatedFresh(c) == FALSE

\* An exception after the preparation is not turned into a failure.
CaughtLoosely(label) == FALSE

\* A known locator is handled on from where an earlier attempt stopped.
KnownLocatorResumes(p) ==
  /\ At(p, "storing") /\ email[job[p].at] # "none"
  /\ job' = [job EXCEPT ![p].id = TRUE]
  /\ Goto(p, "parsing")
  /\ UNCHANGED <<inbox, rows, effects, retries, lease, batch, bounds>>

\* The locals of the last mail are kept.
NextMailKeepsJob(p) ==
  /\ job' = job
  /\ Goto(p, IF p \in Pollers THEN "polling" ELSE "stopped")

\* The operations of a retry are put under the request of the first attempt.
MaterializeUnderFirst(p) ==
  /\ At(p, "analyzing")
  /\ requests' = [requests EXCEPT ![job[p].at] = @ + 1]
  /\ job' = [job EXCEPT ![p].request = 1]
  /\ Goto(p, "deciding")
  /\ UNCHANGED <<inbox, rows, mutated, retries, lease, batch, bounds>>

\* The worker acknowledges what it fetched before it handles it.
TakeAndAcknowledge(p, c) ==
  /\ At(p, "polling") /\ c \in batch[p]
  /\ batch' = [batch EXCEPT ![p] = @ \ {c}]
  /\ inbox' = [inbox EXCEPT ![c] = "seen"]
  /\ job' = [job EXCEPT ![p] = [NoJob EXCEPT !.at = c]]
  /\ Goto(p, "storing")
  /\ UNCHANGED <<rows, effects, retries, lease, bounds>>
-----------------------------------------------------------------------------
(* The polling loop *)

\* Where a process goes on when it is done with a mail.
NextMail(p) ==
  /\ job' = [job EXCEPT ![p] = NoJob]
  /\ Goto(p, IF p \in Pollers THEN "polling" ELSE "stopped")

Deliver(c) ==
  /\ inbox[c] = "coming"
  /\ inbox' = [inbox EXCEPT ![c] = "unread"]
  /\ UNCHANGED <<rows, effects, retries, lease, pc, batch, job, bounds>>

\* _imap_worker_lease: pg_try_advisory_lock, or the worker exits.
Start(p) ==
  /\ At(p, "stopped") /\ p \in Pollers
  /\ lease = NoOne
  /\ lease' = p
  /\ Goto(p, "waiting")
  /\ UNCHANGED <<inbox, rows, effects, retries, batch, job, bounds>>

\* keepalive fails once the session that held the lock is gone.
KeepaliveFails(p) ==
  /\ At(p, "waiting") /\ lease # p
  /\ Goto(p, "stopped")
  /\ UNCHANGED <<inbox, rows, effects, retries, lease, batch, job, bounds>>

\* fetch_candidates reads every unread message before the first is handled.
FetchCandidates(p) ==
  /\ At(p, "waiting") /\ lease = p
  /\ \E c \in Copies : inbox[c] = "unread"
  /\ batch' = [batch EXCEPT ![p] = {c \in Copies : inbox[c] = "unread"}]
  /\ Goto(p, "polling")
  /\ UNCHANGED <<inbox, rows, effects, retries, lease, job, bounds>>

Take(p, c) ==
  /\ At(p, "polling") /\ c \in batch[p]
  /\ batch' = [batch EXCEPT ![p] = @ \ {c}]
  /\ job' = [job EXCEPT ![p] = [NoJob EXCEPT !.at = c]]
  /\ Goto(p, "storing")
  /\ UNCHANGED <<inbox, rows, effects, retries, lease, bounds>>

PollDone(p) ==
  /\ At(p, "polling") /\ batch[p] = {}
  /\ Goto(p, "waiting")
  /\ UNCHANGED <<inbox, rows, effects, retries, lease, batch, job, bounds>>

AcknowledgedStatuses == {"processed", "duplicate", "ignored", "quarantined", "failed"}

Acknowledge(p) ==
  /\ At(p, "answering")
  /\ inbox' = IF p \in Pollers /\ job[p].result \in AcknowledgedStatuses
              THEN [inbox EXCEPT ![job[p].at] = "seen"] ELSE inbox
  /\ NextMail(p)
  /\ UNCHANGED <<rows, effects, retries, lease, batch, bounds>>

\* The mail stays unread and is fetched again.
MarkSeenFails(p) ==
  /\ At(p, "answering") /\ p \in Pollers
  /\ faults < MaxFaults
  /\ faults' = faults + 1
  /\ NextMail(p)
  /\ UNCHANGED <<inbox, rows, effects, retries, lease, batch, crashes, outages>>
-----------------------------------------------------------------------------
(* retry_stored *)

Retried == {"failed", "quarantined"}

\* One transaction reads the row and stores it again; the raw bytes are the
\* ones retained.
RetryStored(p, c) ==
  /\ At(p, "stopped") /\ p \in Retriers
  /\ email[c] \in Retried /\ retries[c] < MaxRetries
  /\ retries' = [retries EXCEPT ![c] = @ + 1]
  /\ email' = [email EXCEPT ![c] = "stored"]
  /\ job' = [job EXCEPT ![p] = [NoJob EXCEPT !.at = c, !.id = TRUE]]
  /\ Goto(p, "parsing")
  /\ UNCHANGED <<inbox, duplicates, parsed, conversations, effects, lease, batch, bounds>>
-----------------------------------------------------------------------------
(* Ingress *)

\* _store_raw_minimal: a locator that is known ends the handling, whatever
\* became of its row.
KnownLocator(p) ==
  /\ At(p, "storing") /\ email[job[p].at] # "none"
  /\ job' = [job EXCEPT ![p].result = "duplicate", ![p].id = TRUE, ![p].tries = 0]
  /\ Goto(p, "answering")
  /\ UNCHANGED <<inbox, rows, effects, retries, lease, batch, bounds>>

StoreRaw(p) ==
  /\ At(p, "storing") /\ email[job[p].at] = "none"
  /\ LET c == job[p].at
         same == \E d \in Copies \ {c} : /\ <<c, d>> \in SameBytes
                                         /\ email[d] # "none" /\ d \notin duplicates
     IN  /\ SetStatus(p, IF same THEN "duplicate" ELSE "stored")
         /\ duplicates' = IF same THEN duplicates \cup {c} ELSE duplicates
         /\ job' = [job EXCEPT ![p].id = TRUE,
                               ![p].tries = IF same THEN 0 ELSE @,
                               ![p].result = IF same THEN "duplicate" ELSE "none"]
         /\ Goto(p, IF same THEN "answering" ELSE "parsing")
  /\ UNCHANGED <<inbox, parsed, conversations, effects, retries, lease, batch, bounds>>

Quarantine(p) ==
  /\ At(p, "parsing")
  /\ Settle(p, "quarantined")
  /\ UNCHANGED <<inbox, duplicates, parsed, conversations, effects, retries,
                 lease, batch, bounds>>

\* The other copies _apply_parsed may find: by message id, or by subject,
\* sender and text.
CopyOf(c) == {d \in Copies \ {c} : <<c, d>> \in Twins}

LookForCopy(p) ==
  /\ At(p, "parsing")
  /\ job' = [job EXCEPT ![p].found =
               CopyOf(job[p].at) \cap (parsed \ duplicates) # {}]
  /\ Goto(p, "applying")
  /\ UNCHANGED <<inbox, rows, effects, retries, lease, batch, bounds>>

ApplyParsed(p) ==
  /\ At(p, "applying")
  /\ parsed' = parsed \cup {job[p].at}
  /\ IF job[p].found
     THEN /\ duplicates' = duplicates \cup {job[p].at}
          /\ Settle(p, "duplicate")
     ELSE /\ SetStatus(p, "stored")
          /\ Continue(p, "preparing")
          /\ UNCHANGED duplicates
  /\ UNCHANGED <<inbox, conversations, effects, retries, lease, batch, bounds>>
-----------------------------------------------------------------------------
(* Security, analysis, policy, fulfilment *)

\* A second attempt, or another copy, finds the conversation of the first by
\* its subject.
CorrelatedWithItself(c) ==
  /\ c \notin Certain
  /\ conversations \cap ({c} \cup CopyOf(c)) # {}

\* _prepare: automated mail, a sender that may not ask, conflicting signals;
\* or the mail is correlated and processed.
Prepare(p) ==
  /\ At(p, "preparing")
  /\ LET c == job[p].at IN
     \/ /\ Settle(p, "ignored")
        /\ UNCHANGED conversations
     \/ /\ Settle(p, "processed")
        /\ conversations' \in {conversations, conversations \cup {c}}
     \/ /\ SetStatus(p, "processing")
        /\ job' = [job EXCEPT ![p].weak = CorrelatedWithItself(c), ![p].tries = 0]
        /\ conversations' = conversations \cup {c}
        /\ Goto(p, "analyzing")
  /\ UNCHANGED <<inbox, duplicates, parsed, effects, retries, lease, batch, bounds>>

\* The analyzer finds nothing to do, or no operation it can separate.
AnalysisEndsEarly(p) ==
  /\ At(p, "analyzing")
  /\ \/ /\ Settle(p, "ignored")
        /\ UNCHANGED requests
     \/ /\ Settle(p, "processed")
        /\ requests' = [requests EXCEPT ![job[p].at] = @ + 1]
  /\ UNCHANGED <<inbox, duplicates, parsed, conversations, mutated, retries,
                 lease, batch, bounds>>

\* _materialize_analysis commits a request and its operations.
MaterializeAnalysis(p) ==
  /\ At(p, "analyzing")
  /\ requests' = [requests EXCEPT ![job[p].at] = @ + 1]
  /\ job' = [job EXCEPT ![p].request = requests[job[p].at] + 1]
  /\ Goto(p, "deciding")
  /\ UNCHANGED <<inbox, rows, mutated, retries, lease, batch, bounds>>

\* A weakly correlated mail is not executed; any other may be.
VerifyAndDecide(p) ==
  /\ At(p, "deciding")
  /\ \E execute \in BOOLEAN :
       /\ execute => ~job[p].weak
       /\ job' = [job EXCEPT ![p].execute = execute, ![p].tries = 0]
  /\ Goto(p, IF Graph(p) THEN "checking" ELSE "releasing")
  /\ UNCHANGED <<inbox, rows, effects, retries, lease, batch, bounds>>

\* assert_policy_outputs agrees.
PolicyAgrees(p) ==
  /\ At(p, "checking")
  /\ Continue(p, "releasing")
  /\ UNCHANGED <<inbox, rows, effects, retries, lease, batch, bounds>>

\* The operations are executed or scheduled, once by their idempotency key.
Release(p) ==
  /\ At(p, "releasing")
  /\ mutated' = IF job[p].execute THEN mutated \cup {<<job[p].at, job[p].request>>}
                ELSE mutated
  /\ Goto(p, "finalizing")
  /\ UNCHANGED <<inbox, rows, requests, retries, lease, batch, job, bounds>>

Finalize(p) ==
  /\ At(p, "finalizing")
  /\ Settle(p, "processed")
  /\ UNCHANGED <<inbox, duplicates, parsed, conversations, effects, retries,
                 lease, batch, bounds>>
-----------------------------------------------------------------------------
(* Failures *)

Agent(label) ==
  CASE label \in Ingress -> "ingress"
    [] label = "preparing" -> "security"
    [] label \in {"analyzing", "deciding"} -> "nlu"
    [] label = "checking" -> "policy"
    [] label \in {"releasing", "finalizing"} -> "fulfilment"

FirstStage ==
  [ingress |-> "storing", security |-> "preparing", nlu |-> "analyzing",
   policy |-> "checking", fulfilment |-> "releasing"]

\* max_retries of the agents.
Tries == [ingress |-> 3, security |-> 3, nlu |-> 3, policy |-> 1, fulfilment |-> 2]

\* _process_stored turns an exception into a failure; process_raw and
\* retry_stored do not, before they come to it.
Caught(label) == label \notin Ingress

Fault == faults < MaxFaults /\ faults' = faults + 1 /\ UNCHANGED <<crashes, outages>>

StageRaises(p) ==
  /\ pc[p] \in Stages /\ ~Graph(p)
  /\ Fault
  /\ IF Caught(pc[p]) THEN Goto(p, "failing") /\ UNCHANGED job ELSE NextMail(p)
  /\ UNCHANGED <<inbox, rows, effects, retries, lease, batch>>

\* _execute_with_retry: the agent is run again from its first stage, with what
\* its last attempt committed left in place.
AgentTriesAgain(p) ==
  /\ pc[p] \in Stages /\ Graph(p)
  /\ job[p].tries < Tries[Agent(pc[p])]
  /\ Fault
  /\ job' = [job EXCEPT ![p].tries = @ + 1]
  /\ Goto(p, FirstStage[Agent(pc[p])])
  /\ UNCHANGED <<inbox, rows, effects, retries, lease, batch>>

\* The agent gives up, the analysis also on an InferenceError that is not
\* retryable.  Each agent ends in its own way: ingress and nlu mark the mail
\* failed, security and fulfilment only answer so, and the edge from the
\* policy to the fulfilment agent is unconditional.
AgentGivesUp(p) ==
  /\ pc[p] \in Stages /\ Graph(p)
  /\ LET agent == Agent(pc[p]) IN
     /\ agent = "nlu" \/ job[p].tries = Tries[agent]
     /\ CASE agent = "ingress" /\ ~job[p].id -> NextMail(p)
          [] agent = "nlu" \/ (agent = "ingress" /\ job[p].id) ->
               Goto(p, "failing") /\ UNCHANGED job
          [] agent \in {"security", "fulfilment"} -> Answer(p, "failed")
          [] agent = "policy" ->
               /\ job' = [job EXCEPT ![p].refused = TRUE, ![p].tries = 0]
               /\ Goto(p, "releasing")
  /\ Fault
  /\ UNCHANGED <<inbox, rows, effects, retries, lease, batch>>

\* The audit of a node raises before the node, or after it: the graph ends.
AuditRaises(p) ==
  /\ Graph(p) /\ job[p].tries = 0
  /\ pc[p] \in {FirstStage[agent] : agent \in DOMAIN FirstStage} \cup {"answering"}
  /\ Fault
  /\ IF job[p].id THEN Goto(p, "failing") /\ UNCHANGED job ELSE NextMail(p)
  /\ UNCHANGED <<inbox, rows, effects, retries, lease, batch>>

MarkFailed(p) ==
  /\ At(p, "failing")
  /\ Settle(p, "failed")
  /\ UNCHANGED <<inbox, duplicates, parsed, conversations, effects, retries,
                 lease, batch, bounds>>

\* Where the database is what failed, the failure is not recorded either.
MarkFailedRaises(p) ==
  /\ At(p, "failing")
  /\ outages < MaxOutages /\ outages' = outages + 1
  /\ NextMail(p)
  /\ UNCHANGED <<inbox, rows, effects, retries, lease, batch, faults, crashes>>

Crash(p) ==
  /\ ~At(p, "stopped")
  /\ crashes < MaxCrashes /\ crashes' = crashes + 1
  /\ Goto(p, "stopped")
  /\ batch' = [batch EXCEPT ![p] = {}]
  /\ job' = [job EXCEPT ![p] = NoJob]
  /\ lease' = IF lease = p THEN NoOne ELSE lease
  /\ UNCHANGED <<inbox, rows, effects, retries, faults, outages>>

\* The session that holds the lock ends; its worker notices at its next turn.
LoseSession ==
  /\ lease # NoOne
  /\ outages < MaxOutages /\ outages' = outages + 1
  /\ lease' = NoOne
  /\ UNCHANGED <<inbox, rows, effects, retries, pc, batch, job, faults, crashes>>
-----------------------------------------------------------------------------
(* The next-state relation *)

Poll(p) ==
  \/ Start(p) \/ KeepaliveFails(p) \/ FetchCandidates(p)
  \/ \E c \in Copies : Take(p, c)
  \/ PollDone(p)

Handle(p) ==
  \/ KnownLocator(p) \/ StoreRaw(p) \/ Quarantine(p) \/ LookForCopy(p) \/ ApplyParsed(p)
  \/ Prepare(p)
  \/ AnalysisEndsEarly(p) \/ MaterializeAnalysis(p) \/ VerifyAndDecide(p)
  \/ PolicyAgrees(p)
  \/ Release(p) \/ Finalize(p)
  \/ MarkFailed(p)
  \/ Acknowledge(p)

Fail(p) ==
  \/ StageRaises(p) \/ AgentTriesAgain(p) \/ AgentGivesUp(p) \/ AuditRaises(p)
  \/ MarkFailedRaises(p) \/ MarkSeenFails(p) \/ Crash(p)

Next ==
  \/ \E c \in Copies : Deliver(c)
  \/ \E p \in Processes :
       \/ Poll(p) \/ Handle(p) \/ Fail(p)
       \/ \E c \in Copies : RetryStored(p, c)
  \/ LoseSession

Spec == Init /\ [][Next]_vars

\* A worker goes on with its loop and the container restarts it; nobody has to
\* send mail or to retry one.
FairSpec == Spec /\ \A p \in Processes : WF_vars(Poll(p) \/ Handle(p))
-----------------------------------------------------------------------------
(* Properties *)

Jobs ==
  [at : Copies \cup {NoCopy}, tries : Nat, id : BOOLEAN, found : BOOLEAN,
   weak : BOOLEAN, request : Nat, execute : BOOLEAN, refused : BOOLEAN,
   result : ProcessingStatus \cup {"none"}]

RowTypes ==
  /\ inbox \in [Copies -> {"coming", "unread", "seen"}]
  /\ email \in [Copies -> ProcessingStatus \cup {"none"}]
  /\ duplicates \subseteq Copies /\ parsed \subseteq Copies /\ conversations \subseteq Copies
  /\ requests \in [Copies -> Nat]
  /\ mutated \subseteq Copies \X Nat
  /\ retries \in [Copies -> Nat]
  /\ faults \in Nat /\ crashes \in Nat /\ outages \in Nat

LeaseTypes ==
  lease \in Pollers \cup {NoOne} /\ batch \in [Processes -> SUBSET Copies]

HandlingTypes ==
  /\ pc \in [Processes -> Labels]
  /\ job \in [Processes -> Jobs]
  /\ \A p \in Processes :
       job[p].at # NoCopy <=> pc[p] \in Stages \cup {"failing", "answering"}

\* Every variable has its type, and a process has a mail at hand exactly
\* between taking it and being done with it.
TypeOK == RowTypes /\ LeaseTypes /\ HandlingTypes

\* A message is acknowledged only when its raw bytes are in the database: what
\* poll_once marks as seen can be handled again from there, whatever failed.
SeenIsStored == \A c \in Copies : inbox[c] = "seen" => email[c] # "none"

\* Once _prepare committed a mail as processing, an exception leaves no trace
\* of that: unless the process is killed or the database out of reach, nobody
\* is done with the mail before it has an outcome (_process_stored's except).
PreparedMailIsAnswered ==
  \A c \in Copies :
    crashes = 0 /\ outages = 0 /\ email[c] = "processing" => Busy(c)

\* The outcome of a mail is final: neither a poll that meets its locator again
\* nor a retry command handles it once more (_store_raw_minimal, retry_stored).
SettledMailStays ==
  [][\A c \in Copies :
       email[c] \in {"processed", "ignored", "duplicate"} => email'[c] = email[c]]_vars

\* A mail opens one request, and one more for each retry a person asked for:
\* polls that meet it again, crashes and lost leases open none.
RequestsPaidByRetries == \A c \in Copies : requests[c] <= 1 + retries[c]

\* Of the copies of one message one opens a request at most, as long as the
\* lease keeps the pollers apart, whatever was interrupted by a crash between
\* storing, applying and materializing one of them (_apply_parsed).
OneCopyHandled ==
  outages = 0 => \A c \in Copies : requests[c] > 0 => \A d \in CopyOf(c) : requests[d] = 0

ReleasedAtMostOnce(c) == \A r, s \in mutated : r[1] = c /\ s[1] = c => r = s

\* A new mail that is retried finds its own first attempt by subject, and that
\* weak correlation bars it from automatic execution: its operations are
\* released once (correlate_email, decision_engine).
UncertainReleasedOnce == \A c \in Copies \ Certain : ReleasedAtMostOnce(c)

\* Every message that arrives is acknowledged in the end, whichever exceptions,
\* crashes and failed acknowledgements there are (poll_once, mail_poll).
MailIsAcknowledged == \A c \in Copies : inbox[c] = "unread" ~> inbox[c] = "seen"
-----------------------------------------------------------------------------
(* Claims of the repository that the code does not keep *)

\* orchestrator.py: a status that is acknowledged means that the message and
\* its outcome are stored, or that a retry command can take it up.
AcknowledgedHasOutcome ==
  \A c \in Copies :
    inbox[c] = "seen" /\ ~Busy(c) => email[c] \notin {"stored", "processing"}

\* README, "Idempotency": the operations of one mail are released once.
ReleasedOnce == \A c \in Copies : ReleasedAtMostOnce(c)

\* langgraph_migration_status.md: the policy node fails closed.
RefusedIsNotReleased ==
  \A p \in Processes : job[p].refused => <<job[p].at, job[p].request>> \notin mutated
=============================================================================
