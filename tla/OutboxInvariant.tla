--------------------------- MODULE OutboxInvariant ---------------------------
(***************************************************************************)
(* The inductive invariant of Outbox: what a sender that is between its    *)
(* call and its commit knows of the row it will write.                     *)
(***************************************************************************)
EXTENDS Outbox

Calling(s, m) == call[s].message = m
Accepted(s) == call[s].answer = "accepted"

\* Any number of senders: who was answered positively has delivered, and nobody
\* counts on from more retries than there are.
CallInvariant ==
  /\ \A s \in Senders :
       call[s] # NoCall =>
         /\ Accepted(s) => delivered[call[s].message] > 0
         /\ call[s].read < SendRetries
         /\ outbox[call[s].message] # "none"
  /\ \A m \in Messages : outbox[m] = "none" => retry_count[m] = 0
  /\ SaysDelivered /\ WaitingHasRetry

\* One sender: a message in transit has its row still waiting, and one that is
\* waiting and not in transit arrived only by accident.
AloneInvariant ==
  /\ \A s \in Senders, m \in Messages :
       /\ Calling(s, m) \/ m \in ids[s] => outbox[m] = "pending"
       /\ Calling(s, m) => m \notin ids[s]
  /\ \A m \in Messages :
       delivered[m] <= lost[m] + crashes
                       + IF \/ outbox[m] = "sent"
                            \/ \E s \in Senders : Calling(s, m) /\ Accepted(s)
                         THEN 1 ELSE 0

OutboxInv == TypeOK /\ CallInvariant /\ (SenderAlone => AloneInvariant)
=============================================================================
