--------------------------- MODULE ExecutionQueue ---------------------------
(***************************************************************************)
(* The execution queue: mail handlers, dispatchers and the administrator   *)
(* at work on one request, processes being killed and time passing; and    *)
(* what the queue promises.                                                *)
(***************************************************************************)
EXTENDS MailWorkflow
-----------------------------------------------------------------------------
(* The surroundings *)

\* POST /api/escalations/{request}/resolve; approval only under dry run.
ResolveEscalation ==
  /\ request # "ABSENT"
  /\ \E verdict \in IF DryRun THEN {"COMPLETED", "CANCELLED"} ELSE {"CANCELLED"} :
       /\ status' = [o \in Ops |-> IF status[o] = "ESCALATED" THEN verdict
                                   ELSE status[o]]
       /\ request' = verdict
  /\ UNCHANGED <<revision, eligible, decision, rowVars, asked, round,
                 customerMail, apiVars, auditVars, procVars, bounds>>

\* A process is killed; its rows stay as the last commit left them.
Crash(p) ==
  /\ ~At(p, "idle")
  /\ crashes < MaxCrashes /\ MayHappen
  /\ crashes' = crashes + 1
  /\ Reset(p)
  /\ UNCHANGED <<tables, mails>>
-----------------------------------------------------------------------------
ReceiveMail(p) == BeginNewRequest(p) \/ BeginFollowUp(p)

HandleMail(p) ==
  \/ CancelOnExplicitText(p) \/ NoExplicitText(p)
  \/ Analyze(p) \/ AnalyzerFails(p)
  \/ CreateOperations(p) \/ ApplyProposals(p)
  \/ NoSeparableOperation(p) \/ LeaveRequestAlone(p)
  \/ \E o \in Ops : \/ VerifierFails(p, o) \/ Decide(p, o) \/ DecideForbidden(p, o)
                    \/ Schedule(p, o) \/ ScheduleRefused(p, o) \/ ExecuteNow(p, o)
  \/ DecisionsDone(p) \/ ReleasesDone(p)
  \/ ExecutionReturned(p) \/ ExecutionRaised(p)
  \/ FinalizeMail(p)

Execute(p) ==
  \/ BeginExecution(p) \/ RejectPreflight(p) \/ DuplicateExecutionKey(p)
  \/ CallBusinessAPI(p)
  \/ RecordAccepted(p) \/ AcceptedTooLate(p) \/ RecordFailure(p)

Dispatch(p) ==
  \/ \E k \in Keys : Claim(p, k) \/ ClaimLost(p, k)
  \/ ReconcileClaimed(p) \/ BlockClaimed(p) \/ PassClaimed(p)
  \/ ExecuteScheduled(p) \/ FinishDispatch(p) \/ BatchDone(p)
  \/ SettleOutcome(p) \/ SettlementDone(p) \/ FinalizeDispatch(p)

\* What a process does next once it is not idle.
Work(p) == HandleMail(p) \/ Execute(p) \/ Dispatch(p) \/ FinalizeRaises(p)

Next ==
  \/ \E p \in Processes : ReceiveMail(p) \/ Work(p) \/ SelectDue(p) \/ Crash(p)
  \/ \E k \in Keys : GraceElapses(k)
  \/ ResolveEscalation

Spec == Init /\ [][Next]_vars

\* Scheduling that the program provides: a live worker keeps going, keeps
\* polling the queue, and time passes.  Mail, crashes and the administrator
\* are not fair.
Fairness ==
  /\ \A p \in Processes : WF_vars(Work(p)) /\ WF_vars(SelectDue(p))
  /\ \A k \in Keys : WF_vars(GraceElapses(k))

FairSpec == Spec /\ Fairness
-----------------------------------------------------------------------------
(* Properties *)

Labels == {"idle", "prepared", "analyzing", "analyzing_explicit", "analyzed",
           "verifying", "releasing", "finalizing", "claiming", "claimed",
           "dispatch", "settling", "begin", "calling", "answered", "returned"}
Answers == {"accepted", "rejected", "lost"}
Outcomes == [key : Keys, row : ScheduledExecutionStatus,
             execution : ExecutionStatus \cup {"none"}]

OperationTypes ==
  /\ status \in [Ops -> OperationStatus \cup {"ABSENT"}]
  /\ revision \in [Ops -> Revisions]
  /\ eligible \in [Ops -> BOOLEAN]
  /\ decision \in [Ops -> Decisions]

RowTypes ==
  /\ schedule \in [Keys -> ScheduledExecutionStatus \cup {"none"}]
  /\ due \subseteq Keys
  /\ execution \in [Keys -> ExecutionStatus \cup {"none"}]
  /\ calls \in [Keys -> Nat]
  /\ applied \subseteq Keys
  /\ approved \subseteq Keys
  /\ escalated \subseteq Keys

RequestTypes ==
  /\ request \in RequestStatus \cup {"ABSENT"}
  /\ asked \subseteq Ops
  /\ round \in Nat
  /\ customerMail \subseteq {"acknowledgement", "summary"}
  /\ mails \in Nat
  /\ crashes \in Nat

ProcessTypes ==
  /\ pc \in [Processes -> Labels]
  /\ role \in [Processes -> {"none", "mail", "queue"}]
  /\ key \in [Processes -> Keys \cup {NoKey}]
  /\ result \in [Processes -> ExecutionStatus \cup Answers
                              \cup {"none", "refused", "error"}]
  /\ batch \in [Processes -> SUBSET Keys]
  /\ outcomes \in [Processes -> SUBSET Outcomes]

MailTypes ==
  /\ kind \in [Processes -> {"none", "new", "follow_up", "clarification", "correction"}]
  /\ replying \in [Processes -> Nat]
  /\ todo \in [Processes -> SUBSET Ops]
  /\ executeIds \in [Processes -> SUBSET Ops]

\* Type invariant: the rows hold statuses of their enums, the locals of a
\* process hold operations and keys of this request, and what execute stores
\* as the outcome of a call is an execution status.
TypeOK == OperationTypes /\ RowTypes /\ RequestTypes /\ ProcessTypes /\ MailTypes

\* No revision of an operation is sent to the business API twice, whoever
\* executes it: the same worker after a crash, another worker, or a process
\* with grace 0 beside a dispatcher (the unique key of executions).
AtMostOneCall == \A k \in Keys : calls[k] <= 1

\* The API is called only for a revision that has its execution record, so a
\* crash at any point leaves the record behind; and a record says "succeeded"
\* only if the mutation took effect.
RecordedCall ==
  \A k \in Keys : /\ calls[k] > 0 => execution[k] # "none"
                  /\ execution[k] = "succeeded" => k \in applied

\* A row that is waiting or was cancelled belongs to a revision that was never
\* sent, however the correction interleaved with the claim and the dispatch.
UnclaimedNeverCalled ==
  \A k \in Keys : schedule[k] \in {"scheduled", "cancelled"} => calls[k] = 0

\* Two dispatchers never hold the same row (the compare-and-set of _claim).
ExclusiveDispatch ==
  \A p, q \in Processes :
    p # q /\ role[p] = "queue" /\ role[q] = "queue" /\ key[p] # NoKey => key[p] # key[q]

\* A row that was dispatched or failed leaves an execution record for the
\* operator; a row closed without one is always "cancelled".
ClosedRowHasRecord ==
  \A k \in Keys : schedule[k] \in {"dispatched", "failed"} => execution[k] # "none"

\* The customer and the operator read "COMPLETED" only for the revision that
\* the business API really applied, not for one corrected meanwhile.
CompletedAsRecorded ==
  \A o \in Ops : status[o] = "COMPLETED" => CurrentKey(o) \in applied

\* A request reported as completed has no operation left to do.
RequestCompletedMeansDone ==
  request = "COMPLETED" => \A o \in Ops : status[o] = "COMPLETED"

\* Only a crash strands a pending execution record: otherwise some process is
\* at the call or about to store its answer.
NoOrphanWithoutCrash ==
  crashes = 0 =>
    \A k \in Keys : execution[k] = "pending" =>
      \E p \in Processes : key[p] = k /\ pc[p] \in {"calling", "answered"}

\* The terminal summary is the last word: nothing is sent to the business API
\* once the customer was told how the request ended.
NoCallAfterSummary ==
  [][\A k \in Keys : calls'[k] # calls[k] => "summary" \notin customerMail]_vars

\* An execution record is never deleted nor, once it has an outcome, changed;
\* a closed schedule row stays closed.
RowSettles(k) ==
  /\ execution[k] \in ExecutionStatus \ {"pending"} => execution'[k] = execution[k]
  /\ execution[k] = "pending" => execution'[k] # "none"
  /\ schedule[k] \in {"dispatched", "cancelled", "failed"} => schedule'[k] = schedule[k]

\* No step of any process reopens what is settled, for every row at once.
RowsSettle == [][\A k \in Keys : RowSettles(k)]_vars

\* A completed operation is never reopened, whatever mail, verifier failure or
\* late dispatch follows.
CompletedIsFinal ==
  [][\A o \in Ops : status[o] = "COMPLETED" => status'[o] = "COMPLETED"]_vars

\* Some process still has to settle the outcome of this key.
Unsettled(k) ==
  \E p \in Processes : key[p] = k \/ \E x \in outcomes[p] : x.key = k

\* A failed or unknown execution is escalated to a person, unless its process
\* was killed: an abandoned settlement has nothing to lose.  True as long as one
\* batch has one outcome, which is so for one operation executed by the queue only.
FailuresEscalated ==
  crashes = 0 =>
    \A k \in Keys : execution[k] \in {"failed", "unknown"} =>
                      k \in escalated \/ Unsettled(k)

\* A revision is sent to the API only if the policy approved that revision.
OnlyApprovedCalled == \A k \in Keys : calls[k] > 0 => k \in approved

\* The revision that is sent is the one the operation has at that moment: a
\* correction that was stored before the call is not overtaken by it.
CallsCurrentRevision ==
  [][\A k \in Keys : calls'[k] # calls[k] => RevisionOf(k) = revision[OpOf(k)]]_vars

\* What the policy releases under a grace period ends up in the queue: the
\* call of schedule does not return a row that was cancelled before.
ReleasedIsQueued ==
  [][\A p \in Processes, o \in Ops :
       /\ o \in executeIds[p] /\ o \notin executeIds'[p]
       /\ pc[p] = "releasing" /\ pc'[p] = "releasing"
       => schedule'[CurrentKey(o)] # "cancelled"]_vars

\* A waiting row does not wait for ever: it is claimed or cancelled, also when
\* its worker is killed between the selection and the claim.
ScheduledLeaves ==
  \A k \in Keys : schedule[k] = "scheduled" ~> schedule[k] # "scheduled"

\* A claimed row is closed, whatever execute returned or raised, as long as
\* nobody kills the worker (the program has no lease to reclaim it).
ClaimedSettles ==
  \A k \in Keys :
    schedule[k] = "dispatching" ~> schedule[k] # "dispatching" \/ crashes > 0
-----------------------------------------------------------------------------
\* The ledger that the executions table keeps of the business API.
Ledger == INSTANCE MutationLedger
            WITH record <- execution, calls <- calls, applied <- applied

\* The queue implements the ledger: every step of every process opens, sends
\* or closes a record as the ledger allows, or leaves it alone.
ImplementsLedger == Ledger!Spec
=============================================================================
