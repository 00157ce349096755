------------------------------- MODULE Outbox -------------------------------
(***************************************************************************)
(* The outbox of the replies (workflow/outbox_service.py): a message is    *)
(* queued in the transaction that decided on it, and send_once hands it to *)
(* the SMTP transport later.  The call to the transport is made inside the *)
(* transaction that records its result, and nothing marks the row while it *)
(* is under way (OutboxStatus.SENDING is never written).                   *)
(*                                                                         *)
(* Messages are numbered as they are queued.  Some carry a clarification,  *)
(* which the customer may answer once the message arrived.                 *)
(***************************************************************************)
EXTENDS Integers, FiniteSets

CONSTANTS
  N,           \* messages
  Questions,   \* messages with a related clarification
  Senders,     \* worker_run and outbox_send processes
  NoMessage,
  Limit,       \* rows of one send_once
  SendRetries,  \* OutboxService.max_retries
  MaxCrashes,  \* bound: transactions that are not committed
  MaxLost      \* bound: lost answers of one message

Messages == 1 .. N

ASSUME OutboxAssumption ==
  /\ N \in Nat /\ Questions \subseteq Messages /\ NoMessage \notin Messages
  /\ {Limit, SendRetries} \subseteq Nat \ {0} /\ {MaxCrashes, MaxLost} \subseteq Nat

VARIABLES
  outbox,        \* outbox_messages.status, or "none"
  retry_count,
  clarification, \* status of the related clarification
  delivered,     \* times the message reached its recipient
  lost,          \* of these, deliveries whose answer did not reach the sender
  ids,           \* what a sender selected and has not come to
  call,          \* the message, the retry_count read with it, and the answer
  crashes

rows == <<outbox, retry_count, clarification>>
mail == <<delivered, lost>>
outboxVars == <<rows, mail, ids, call, crashes>>

NoCall == [message |-> NoMessage, read |-> 0, answer |-> "none"]

OutboxInit ==
  /\ outbox = [m \in Messages |-> "none"]
  /\ retry_count = [m \in Messages |-> 0]
  /\ clarification = [m \in Messages |-> "none"]
  /\ delivered = [m \in Messages |-> 0] /\ lost = [m \in Messages |-> 0]
  /\ ids = [s \in Senders |-> {}] /\ call = [s \in Senders |-> NoCall]
  /\ crashes = 0
-----------------------------------------------------------------------------
Pending == {m \in Messages : outbox[m] = "pending"}
Free(s) == ids[s] = {} /\ call[s] = NoCall
First(s, m) == m \in ids[s] /\ \A n \in ids[s] : m <= n

\* The row of the message that is being sent.
RowOf(s) == call[s].message

(* Slips.  None of these is part of the model: each is one of the operators *)
(* below with a mistake in it, to see that a property notices.              *)

\* One retry more.
ExhaustedLate(n) == n > SendRetries

\* A failure is tried again without being counted.
CountedNever(n) == n

\* A failure the transport calls transient is taken for an acceptance.
RecordSentLoosely(s) ==
  /\ call[s].answer \in {"accepted", "transient"}
  /\ outbox' = [outbox EXCEPT ![RowOf(s)] = "sent"]
  /\ call' = [call EXCEPT ![s] = NoCall]
  /\ UNCHANGED <<retry_count, clarification, mail, ids, crashes>>

\* The row keeps its status when the message was accepted.
RecordSentUnmarked(s) ==
  /\ call[s].answer = "accepted"
  /\ call' = [call EXCEPT ![s] = NoCall]
  /\ UNCHANGED <<rows, mail, ids, crashes>>

\* The status of the clarification is written to the row of the outbox.
RecordSentMixed(s) ==
  /\ call[s].answer = "accepted"
  /\ outbox' = [outbox EXCEPT ![RowOf(s)] = "open"]
  /\ call' = [call EXCEPT ![s] = NoCall]
  /\ UNCHANGED <<retry_count, clarification, mail, ids, crashes>>
-----------------------------------------------------------------------------
(* create_outbound_message, ensure_clarification *)

Queue(m) ==
  /\ outbox[m] = "none" /\ \A n \in 1 .. m - 1 : outbox[n] # "none"
  /\ outbox' = [outbox EXCEPT ![m] = "pending"]
  /\ clarification' = [clarification EXCEPT
                         ![m] = IF m \in Questions THEN "pending_send" ELSE "none"]
  /\ UNCHANGED <<retry_count, mail, ids, call, crashes>>

\* The mail that answers a clarification is processed: complete, or one reply
\* too many (by_outbound_rfc_id, _finalize).
Reply(m) ==
  /\ clarification[m] \in {"pending_send", "open"} /\ delivered[m] > 0
  /\ \E closed \in {"resolved", "expired"} :
       clarification' = [clarification EXCEPT ![m] = closed]
  /\ UNCHANGED <<outbox, retry_count, mail, ids, call, crashes>>
-----------------------------------------------------------------------------
(* send_once *)

\* The oldest rows that are pending.
Oldest(batch) ==
  /\ batch \subseteq Pending
  /\ \A m \in batch, n \in Pending \ batch : m < n
  /\ Cardinality(batch) <= Limit
  /\ batch # Pending => Cardinality(batch) = Limit

Select(s) ==
  /\ Free(s) /\ Pending # {}
  /\ \E batch \in SUBSET Pending :
       Oldest(batch) /\ ids' = [ids EXCEPT ![s] = batch]
  /\ UNCHANGED <<rows, mail, call, crashes>>

Waits(m) == outbox[m] = "pending"

Skip(s) ==
  /\ call[s] = NoCall
  /\ \E m \in Messages :
       /\ First(s, m) /\ ~Waits(m)
       /\ ids' = [ids EXCEPT ![s] = @ \ {m}]
  /\ UNCHANGED <<rows, mail, call, crashes>>

\* What the transport may do: an accepted message arrives; one whose answer is
\* lost, a transient failure to the sender, may arrive; a rejected one does not.
LostAnswers == {[answer |-> "transient", arrived |-> 1]}
Answers ==
  LostAnswers \cup {[answer |-> "accepted", arrived |-> 1],
                   [answer |-> "transient", arrived |-> 0],
                   [answer |-> "rejected", arrived |-> 0]}

Send(s) ==
  /\ call[s] = NoCall
  /\ \E m \in Messages, a \in Answers :
       /\ First(s, m) /\ Waits(m)
       /\ a \in LostAnswers => lost[m] < MaxLost
       /\ ids' = [ids EXCEPT ![s] = @ \ {m}]
       /\ delivered' = [delivered EXCEPT ![m] = @ + a.arrived]
       /\ lost' = [lost EXCEPT ![m] = IF a \in LostAnswers THEN @ + 1 ELSE @]
       /\ call' = [call EXCEPT ![s] = [message |-> m, read |-> retry_count[m],
                                       answer |-> a.answer]]
  /\ UNCHANGED <<rows, crashes>>

\* The commit of an accepted message opens its clarification.
RecordSent(s) ==
  /\ call[s].answer = "accepted"
  /\ outbox' = [outbox EXCEPT ![RowOf(s)] = "sent"]
  /\ clarification' = [clarification EXCEPT
                         ![RowOf(s)] = IF RowOf(s) \in Questions THEN "open" ELSE @]
  /\ call' = [call EXCEPT ![s] = NoCall]
  /\ UNCHANGED <<retry_count, mail, ids, crashes>>

Exhausted(n) == n >= SendRetries
Counted(n) == n + 1

\* The commit of a failure writes what changed in the session: the count that
\* was read before the call plus one, and the status only when it is given up.
RecordFailure(s) ==
  /\ call[s].answer \in {"transient", "rejected"}
  /\ LET n == Counted(call[s].read) IN
     /\ retry_count' = [retry_count EXCEPT ![RowOf(s)] = n]
     /\ outbox' = [outbox EXCEPT
                     ![RowOf(s)] = IF call[s].answer = "rejected" \/ Exhausted(n)
                                      THEN "failed" ELSE @]
  /\ call' = [call EXCEPT ![s] = NoCall]
  /\ UNCHANGED <<clarification, mail, ids, crashes>>

\* The process is killed, or the commit raises and ends it.
Crash(s) ==
  /\ ~Free(s)
  /\ crashes < MaxCrashes /\ crashes' = crashes + 1
  /\ ids' = [ids EXCEPT ![s] = {}] /\ call' = [call EXCEPT ![s] = NoCall]
  /\ UNCHANGED <<rows, mail>>

Work(s) == Select(s) \/ Skip(s) \/ Send(s) \/ RecordSent(s) \/ RecordFailure(s)

OutboxNext ==
  \/ \E m \in Messages : Queue(m) \/ Reply(m)
  \/ \E s \in Senders : Work(s) \/ Crash(s)

OutboxSpec == OutboxInit /\ [][OutboxNext]_outboxVars

\* A worker goes on with its loop; nobody has to answer a mail.
FairSpec == OutboxSpec /\ \A s \in Senders : WF_outboxVars(Work(s))
-----------------------------------------------------------------------------
(* Properties *)

Calls == [message : Messages, read : Nat, answer : {"accepted", "transient", "rejected"}]

\* Every variable has its type.
TypeOK ==
  /\ outbox \in [Messages -> {"none", "pending", "sent", "failed"}]
  /\ retry_count \in [Messages -> Nat]
  /\ clarification \in
       [Messages -> {"none", "pending_send", "open", "resolved", "expired"}]
  /\ delivered \in [Messages -> Nat] /\ lost \in [Messages -> Nat]
  /\ ids \in [Senders -> SUBSET Messages]
  /\ call \in [Senders -> Calls \cup {NoCall}]
  /\ crashes \in Nat

\* What the rows say reached the customer did reach him: a sent message, an
\* open clarification and an answered one were delivered, whatever other sender
\* recorded its own result meanwhile (send_once).
SaysDelivered ==
  \A m \in Messages :
    outbox[m] = "sent" \/ clarification[m] \in {"open", "resolved", "expired"} =>
      delivered[m] > 0

\* A message that waits has a retry left, whichever counts two senders wrote
\* over each other's.
WaitingHasRetry == \A m \in Messages : outbox[m] = "pending" => retry_count[m] < SendRetries

SenderAlone == \A s, t \in Senders : s = t

\* With one sender, a message arrives once, and once more for each lost answer
\* and each interrupted transaction.
DeliveriesExplained ==
  SenderAlone => \A m \in Messages : delivered[m] <= 1 + lost[m] + crashes

\* With one sender that is not interrupted, a message that was given up did not
\* arrive, unless an answer was lost.
FailedDidNotArrive ==
  SenderAlone /\ crashes = 0 =>
    \A m \in Messages : outbox[m] = "failed" /\ lost[m] = 0 => delivered[m] = 0

\* Every queued message is sent or given up in the end, also behind others that
\* fail (the order and the limit of OutboxRepository.pending).
QueuedIsClosed == \A m \in Messages : outbox[m] = "pending" ~> outbox[m] \in {"sent", "failed"}
-----------------------------------------------------------------------------
(* Claims of the repository that the code does not keep *)

\* langchain_five_agent_migration_plan.md: an outbound logical message is not
\* duplicated by a replay or by the termination of a process.
OneDelivery == \A m \in Messages : lost[m] = 0 => delivered[m] <= 1
=============================================================================
