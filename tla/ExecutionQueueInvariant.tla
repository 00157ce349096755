----------------------- MODULE ExecutionQueueInvariant -----------------------
(***************************************************************************)
(* The inductive invariant of the execution queue.  The safety properties  *)
(* of ExecutionQueue speak of rows; what keeps them true is what a process *)
(* that holds a row knows about it at each of its labels.                  *)
(***************************************************************************)
EXTENDS ExecutionQueue

\* Where a process holds the key of a revision it executes.
Holding == {"claimed", "dispatch", "begin", "calling", "answered", "returned"}
MailLabels == {"prepared", "analyzing", "analyzing_explicit", "analyzed",
               "verifying", "releasing"}
QueueLabels == {"claiming", "claimed", "dispatch", "settling"}

HoldsKey == \A p \in Processes : key[p] # NoKey <=> pc[p] \in Holding

RoleAtLabel ==
  \A p \in Processes : /\ pc[p] \in MailLabels => role[p] = "mail"
                       /\ pc[p] \in QueueLabels => role[p] = "queue"

\* The row of a dispatcher is "dispatching" until it closes it.
HeldRowIsClaimed ==
  \A p \in Processes :
    role[p] = "queue" /\ pc[p] \in Holding => schedule[key[p]] = "dispatching"

\* What a process knows of the record around the call.
AtTheCall ==
  \A p \in Processes :
    /\ pc[p] = "calling" => execution[key[p]] = "pending" /\ calls[key[p]] = 0
    /\ pc[p] = "answered" => execution[key[p]] = "pending" /\ calls[key[p]] = 1
    /\ pc[p] = "answered" => result[p] \in Answers
    /\ pc[p] = "answered" /\ result[p] = "accepted" => key[p] \in applied
    /\ pc[p] = "returned" /\ result[p] \in ExecutionStatus \cup {"error"}
         => execution[key[p]] # "none"

OneCallerPerKey ==
  \A p, q \in Processes :
    p # q /\ pc[p] \in {"calling", "answered"} /\ pc[q] \in {"calling", "answered"}
      => key[p] # key[q]

\* Inductive: every process is where its row, its record and its role say it is,
\* and from that one call per key, one dispatcher per row and no closed row
\* without a record follow.
QueueInvariant ==
  /\ HoldsKey /\ RoleAtLabel
  /\ HeldRowIsClaimed /\ ExclusiveDispatch
  /\ AtTheCall /\ OneCallerPerKey
  /\ AtMostOneCall /\ RecordedCall
  /\ ClosedRowHasRecord

\* With the grace period on, only a dispatcher executes, so what it found at
\* its claim stays true until its own commit.
RecordFollowsClaim ==
  /\ \A p \in Processes : pc[p] \in Holding => role[p] = "queue"
  /\ \A k \in Keys : execution[k] # "none" =>
       schedule[k] \in {"dispatching", "dispatched", "failed"}
  /\ \A p \in Processes :
       pc[p] \in {"claimed", "dispatch", "begin"} \/ (pc[p] = "returned" /\ result[p] = "refused")
         => execution[key[p]] = "none"

\* Inductive when no process executes at once: the claim protocol alone
\* protects a waiting or cancelled revision from being sent.
GraceInvariant ==
  Immediate = {} => RecordFollowsClaim /\ UnclaimedNeverCalled
\* One worker process, which handles the mail and dispatches the queue in turn.
\* The administrator still works beside it, and it can be killed.
SoleWorker == \A p, q \in Processes : p = q

\* Nobody changes the operation between the test of its revision and the end of
\* the call.
Undisturbed ==
  \A p \in Processes :
    /\ pc[p] \in {"begin", "calling", "answered"} => key[p] = CurrentKey(OpOf(key[p]))
    /\ pc[p] = "begin" => Ready(OpOf(key[p]))
    /\ pc[p] \in {"calling", "answered"} => status[OpOf(key[p])] = "EXECUTING"

\* The first mail is analysed before there is anything to work on.
FirstMailOpensRequest ==
  /\ request = "ABSENT" =>
       /\ customerMail = {}
       /\ \A o \in Ops : status[o] = "ABSENT"
       /\ \A k \in Keys : schedule[k] = "none"
       /\ \A p \in Processes : pc[p] # "idle" => pc[p] = "analyzed" /\ kind[p] = "new"
  /\ \A p \in Processes :
       /\ pc[p] = "analyzed" /\ kind[p] = "new" => request = "ABSENT"
       /\ pc[p] \in {"prepared", "analyzing", "analyzing_explicit"} => kind[p] # "new"

\* Once it was summed up, no operation of the request becomes open again.
SummaryIsLast ==
  "summary" \in customerMail => \A o \in Ops : status[o] \in SummaryStatus

\* Inductive when one process does all the work: it finds the operation as it
\* left it, so a completion is stored for the revision that was applied, and no
\* pending record outlives its call.
SoleInvariant ==
  SoleWorker => /\ Undisturbed /\ FirstMailOpensRequest /\ SummaryIsLast
                /\ NoOrphanWithoutCrash
                /\ ~DryRun => CompletedAsRecorded

-----------------------------------------------------------------------------
OneOperation == \A a, b \in Ops : a = b

\* A revision that was corrected is never executed any more.
Stale(k) == RevisionOf(k) < revision[OpOf(k)]

\* What a process sends, sent, or had recorded as the outcome of its present row.
Executes(p) ==
  \/ pc[p] \in {"begin", "calling", "answered"}
  \/ pc[p] = "returned" /\ result[p] # "refused"

Closed(p) == {x \in outcomes[p] : x.row # "cancelled"}

\* Revisions are scheduled when they are current; the batch holds rows that are not closed
\* by this process yet.
NothingIsAhead ==
  /\ \A k \in Keys : schedule[k] # "none" => RevisionOf(k) <= revision[OpOf(k)]
  /\ \A p \in Processes : \A k \in batch[p] : RevisionOf(k) <= revision[OpOf(k)] /\ k # key[p]

\* The outcomes a dispatcher remembers are what became of its rows.
OutcomesAreTrue ==
  /\ \A p \in Processes :
       role[p] # "queue" \/ pc[p] = "idle" => batch[p] = {} /\ outcomes[p] = {}
  /\ \A p \in Processes : \A x \in outcomes[p] :
       /\ x.row \in {"dispatched", "failed", "cancelled"} /\ schedule[x.key] = x.row
       /\ x.row = "dispatched" /\ x.execution = "succeeded" => execution[x.key] = "succeeded"
  /\ \A p \in Processes :
       pc[p] = "returned" /\ result[p] = "succeeded" => execution[key[p]] = "succeeded"

\* A batch executes one revision of its only operation, and the others are stale.
OneExecutionPerBatch ==
  \A p \in Processes :
    /\ Executes(p) => Closed(p) = {} /\ \A k \in batch[p] : Stale(k)
    /\ Closed(p) # {} => /\ \A k \in batch[p] : Stale(k)
                         /\ pc[p] \in Holding => Stale(key[p])
    /\ \A x, y \in Closed(p) : x = y
    /\ pc[p] = "finalizing" => Closed(p) = {}

\* Inductive for one operation under the grace period: when a settlement is abandoned, the
\* only outcome that asks for a person has been settled.
EscalationInvariant ==
  Immediate = {} /\ OneOperation =>
    NothingIsAhead /\ OutcomesAreTrue /\ OneExecutionPerBatch /\ FailuresEscalated
=============================================================================
