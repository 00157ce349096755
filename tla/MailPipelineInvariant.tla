------------------------ MODULE MailPipelineInvariant ------------------------
(***************************************************************************)
(* The inductive invariant of MailPipeline: who holds a mail, what its row *)
(* says meanwhile, and what the attempts before left behind.  Two parts of *)
(* it need an assumption: the agents of the graph share rows in ways that  *)
(* the legacy engine does not, and a retry command beside a poller needs   *)
(* no lease.                                                               *)
(***************************************************************************)
EXTENDS MailPipeline

\* A process holds the mail whose row it changes from here on.
Held == (Stages \ {"storing"}) \cup {"failing"}
Prepared == {"analyzing", "deciding", "checking", "releasing", "finalizing"}
Unmaterialized == {"parsing", "applying", "preparing", "analyzing"}
Unreleased == Prepared \ {"finalizing"}
Decided == Prepared \ {"analyzing"}

\* A process knows the id of a row only if there is one.
StoredInvariant ==
  /\ SeenIsStored
  /\ \A p \in Processes :
       /\ pc[p] \in Held \cup {"answering"} => job[p].id
       /\ job[p].id => job[p].at \in Copies /\ email[job[p].at] # "none"

\* A held row is open, and it is held once.
HolderInvariant ==
  /\ \A p \in Processes : pc[p] \in Held => email[job[p].at] \in {"stored", "processing"}
  /\ \A p, q \in Processes :
       p # q /\ pc[p] \in Held /\ pc[q] \in Held => job[p].at # job[q].at

\* A row that is being processed has somebody who will settle it.
AnswerInvariant ==
  crashes = 0 /\ outages = 0 =>
    \A c \in Copies : email[c] = "processing" =>
      \E p \in Processes : job[p].at = c /\ pc[p] \in Prepared \cup {"failing"}

\* An attempt that has not materialized its request has not used its retry.
RequestInvariant ==
  /\ \A c \in Copies : email[c] = "none" => requests[c] = 0
  /\ RequestsPaidByRetries
  /\ \A p \in Processes :
       pc[p] \in Unmaterialized => requests[job[p].at] <= retries[job[p].at]

\* The attempt that may release a mail is the one that opened its conversation.
ReleaseInvariant ==
  /\ \A r \in mutated : r[1] \in conversations
  /\ \A p \in Processes :
       /\ pc[p] \in Prepared => job[p].at \in conversations
       /\ pc[p] \in {"checking", "releasing"} /\ job[p].execute => ~job[p].weak
       /\ pc[p] \in Unreleased /\ ~job[p].weak /\ job[p].at \notin Certain =>
            \A r \in mutated : r[1] # job[p].at
  /\ UncertainReleasedOnce

\* A row is stored of a mail that arrived, and the poller has such mails only.
ArrivalInvariant ==
  /\ \A c \in Copies : email[c] # "none" => inbox[c] # "coming"
  /\ \A p \in Processes :
       /\ \A c \in batch[p] : inbox[c] # "coming"
       /\ job[p].at \in Copies => inbox[job[p].at] # "coming"

\* The request at hand is the newest one of its mail.
NewestInvariant ==
  \A p \in Processes :
    pc[p] \in Decided => job[p].request = requests[job[p].at] /\ job[p].request > 0

LegacyInvariant ==
  /\ TypeOK /\ StoredInvariant /\ HolderInvariant
  /\ AnswerInvariant /\ RequestInvariant /\ ReleaseInvariant

\* What a status says of the life of a mail.
LifeOf ==
  [none |-> "none",
   stored |-> "open", processing |-> "open",
   failed |-> "failed", quarantined |-> "failed",
   processed |-> "settled", ignored |-> "settled", duplicate |-> "settled"]

Life == [c \in Copies |-> LifeOf[email[c]]]

Lifecycle == INSTANCE MailLifecycle WITH row <- Life, released <- mutated

\* Whatever is interrupted, by exceptions, crashes and lost leases, and while a
\* retry command works beside the pollers: a step of the pipeline stores, opens,
\* releases, closes, retries or acknowledges a mail as its life allows, or leaves
\* it alone.  No request is opened or released of a mail that is settled, and
\* none but the newest (InboundProcessor, poll_once, retry_stored).
ImplementsLifecycle == Lifecycle!Spec
-----------------------------------------------------------------------------
Original == parsed \ duplicates

\* Who is not stopped has the lease.
LeaseInvariant == \A p \in Processes : pc[p] # "stopped" => lease = p

\* One copy of a message at most is an original, and only originals get further.
CopyRows ==
  \A c \in Copies :
    /\ c \in Original => CopyOf(c) \cap Original = {}
    /\ requests[c] > 0 => c \in Original
    /\ email[c] = "none" => c \notin parsed \cup duplicates

CopyPlace(p) ==
  /\ pc[p] \in {"parsing", "applying"} => job[p].at \notin parsed \cup duplicates
  /\ pc[p] = "applying" /\ ~job[p].found => CopyOf(job[p].at) \cap Original = {}
  /\ pc[p] \in {"preparing"} \cup Prepared => job[p].at \in Original

CopyInvariant == CopyRows /\ \A p \in Processes : CopyPlace(p)

PollerInvariant ==
  TypeOK /\ StoredInvariant /\ (outages = 0 => LeaseInvariant /\ CopyInvariant)
-----------------------------------------------------------------------------
(* As the runs check it *)

\* The parts above hold under the assumptions of the theorems they are for.
PipelineInvariant ==
  /\ ArrivalInvariant
  /\ Engine = "legacy" => LegacyInvariant /\ NewestInvariant
  /\ Retriers = {} => PollerInvariant
=============================================================================
