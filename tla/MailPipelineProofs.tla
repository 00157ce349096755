------------------------ MODULE MailPipelineProofs ------------------------
(***************************************************************************)
(* What the runs check of MailPipeline on small instances, proved for any  *)
(* number of messages, pollers and retries: the types, the inductive       *)
(* invariant of the legacy engine, that of the pollers alone, and the      *)
(* properties that follow.                                                 *)
(***************************************************************************)
EXTENDS MailPipelineInvariant, TLAPS

\* The locals of a process that has no mail have their types.
LEMMA NoJobType == NoJob \in Jobs /\ NoJob.at = NoCopy
  BY DEF NoJob, Jobs

\* A process that takes up a mail has it at hand.
LEMMA FreshJobType ==
  ASSUME NEW c \in Copies
  PROVE  /\ [NoJob EXCEPT !.at = c] \in Jobs /\ [NoJob EXCEPT !.at = c].at = c
         /\ [NoJob EXCEPT !.at = c, !.id = TRUE] \in Jobs
         /\ [NoJob EXCEPT !.at = c, !.id = TRUE].at = c
  BY DEF NoJob, Jobs

SameMail(j, k) == k \in Jobs /\ k.at = j.at

\* What the stages write into the locals keeps their types and the mail.
LEMMA UpdateTypes ==
  ASSUME NEW j \in Jobs, NEW b \in BOOLEAN, NEW n \in Nat,
         NEW s \in ProcessingStatus \cup {"none"}
  PROVE  /\ SameMail(j, j)
         /\ SameMail(j, [j EXCEPT !.found = b])
         /\ SameMail(j, [j EXCEPT !.request = n])
         /\ SameMail(j, [j EXCEPT !.tries = n])
         /\ SameMail(j, [j EXCEPT !.weak = b, !.tries = n])
         /\ SameMail(j, [j EXCEPT !.execute = b, !.tries = n])
         /\ SameMail(j, [j EXCEPT !.refused = b, !.tries = n])
         /\ SameMail(j, [j EXCEPT !.result = s, !.tries = n])
         /\ SameMail(j, [j EXCEPT !.id = b, !.tries = n, !.result = s])
         /\ SameMail(j, [j EXCEPT !.result = s, !.id = b, !.tries = n])
  BY DEF Jobs, SameMail

\* A process whose locals and label change together keeps their types.
LEMMA MoveTypes ==
  ASSUME HandlingTypes, NEW p \in Processes, NEW label \in Labels, NEW j \in Jobs,
         job' = [job EXCEPT ![p] = j], Goto(p, label),
         j.at # NoCopy <=> label \in Stages \cup {"failing", "answering"}
  PROVE  HandlingTypes'
  BY DEF HandlingTypes, Goto

\* A process that goes on with its mail keeps their types.
LEMMA StayTypes ==
  ASSUME HandlingTypes, NEW p \in Processes, job[p].at # NoCopy,
         NEW label \in Stages \cup {"failing", "answering"},
         NEW j, SameMail(job[p], j),
         job' = [job EXCEPT ![p] = j], Goto(p, label)
  PROVE  HandlingTypes'
  BY MoveTypes DEF SameMail, Labels

\* An answer keeps the mail at hand.
LEMMA AnswerTypes ==
  ASSUME HandlingTypes, NEW p \in Processes, NEW s \in ProcessingStatus, Answer(p, s),
         job[p].at # NoCopy
  PROVE  HandlingTypes'
  <1>1. SameMail(job[p], [job[p] EXCEPT !.result = s, !.tries = 0])
    BY UpdateTypes DEF HandlingTypes
  <1>2. job' = [job EXCEPT ![p] = [job[p] EXCEPT !.result = s, !.tries = 0]]
    BY DEF Answer, HandlingTypes
  <1> QED
    BY <1>1, <1>2, StayTypes DEF Answer

\* So does moving to another stage.
LEMMA ContinueTypes ==
  ASSUME HandlingTypes, NEW p \in Processes, NEW label \in Stages, Continue(p, label),
         job[p].at # NoCopy
  PROVE  HandlingTypes'
  <1>1. SameMail(job[p], [job[p] EXCEPT !.tries = 0])
    BY UpdateTypes DEF HandlingTypes
  <1>2. job' = [job EXCEPT ![p] = [job[p] EXCEPT !.tries = 0]]
    BY DEF Continue, HandlingTypes
  <1> QED
    BY <1>1, <1>2, StayTypes DEF Continue

\* A process that is done with a mail has none.
LEMMA NextMailTypes ==
  ASSUME HandlingTypes, NEW p \in Processes, NextMail(p)
  PROVE  HandlingTypes'
  BY NoJobType DEF HandlingTypes, NextMail, Goto, Labels, Stages, Ingress

\* What a process handles is a message of the mailbox.
LEMMA HandledCopy ==
  ASSUME HandlingTypes, NEW p \in Processes, Handle(p)
  PROVE  job[p].at \in Copies
  BY DEF Handle, KnownLocator, StoreRaw, Quarantine, LookForCopy, ApplyParsed,
     Prepare, AnalysisEndsEarly, MaterializeAnalysis, VerifyAndDecide, PolicyAgrees,
     Release, Finalize, MarkFailed, Acknowledge, At, HandlingTypes, Jobs, Stages, Ingress

\* An empty mailbox, an empty database and idle processes have the right types.
LEMMA TypeInit == Init => TypeOK
  BY NoJobType, PipelineAssumption
     DEF Init, TypeOK, RowTypes, LeaseTypes, HandlingTypes, Labels, ProcessingStatus,
         Processes, Stages, Ingress

\* A step keeps the types.
LEMMA TypeStep ==
  ASSUME TypeOK, [Next]_vars
  PROVE  TypeOK'
  <1> USE PipelineAssumption
      DEF TypeOK, RowTypes, LeaseTypes, At, Processes, rows, effects, bounds
  <1>1. ASSUME NEW c \in Copies, Deliver(c) PROVE TypeOK'
    BY <1>1 DEF Deliver, HandlingTypes
  <1>2. ASSUME NEW p \in Processes, Poll(p) PROVE TypeOK'
    <2>1. ASSUME NEW c \in Copies, Take(p, c) PROVE TypeOK'
      <3>1. job' = [job EXCEPT ![p] = [NoJob EXCEPT !.at = c]] /\ Goto(p, "storing")
        BY <2>1 DEF Take
      <3>2. [NoJob EXCEPT !.at = c] \in Jobs /\ [NoJob EXCEPT !.at = c].at = c
        BY FreshJobType
      <3>3. HandlingTypes'
        BY <3>1, <3>2, MoveTypes DEF Labels, Stages, Ingress
      <3> QED
        BY <2>1, <3>3 DEF Take
    <2>2. CASE Start(p) \/ KeepaliveFails(p) \/ PollDone(p) \/ FetchCandidates(p)
      <3>1. HandlingTypes'
        BY <2>2 DEF Start, KeepaliveFails, PollDone, FetchCandidates, HandlingTypes, Goto,
           Labels, Stages, Ingress
      <3> QED
        BY <2>2, <3>1 DEF Start, KeepaliveFails, PollDone, FetchCandidates
    <2> QED
      BY <1>2, <2>1, <2>2 DEF Poll
  <1>3. ASSUME NEW p \in Processes, Handle(p) PROVE TypeOK'
    <2>1. job[p].at \in Copies
      BY <1>3, HandledCopy
    <2>2. ASSUME NEW s \in ProcessingStatus, Settle(p, s)
          PROVE  HandlingTypes' /\ email' \in [Copies -> ProcessingStatus \cup {"none"}]
      BY <2>1, <2>2, AnswerTypes DEF Settle, SetStatus
    <2>3. CASE KnownLocator(p)
      <3>1. SameMail(job[p], [job[p] EXCEPT !.result = "duplicate", !.id = TRUE, !.tries = 0])
        BY UpdateTypes DEF HandlingTypes, ProcessingStatus
      <3>2. job' = [job EXCEPT ![p] = [job[p] EXCEPT !.result = "duplicate", !.id = TRUE,
                                                     !.tries = 0]]
        BY <2>3 DEF KnownLocator, HandlingTypes
      <3> QED
        BY <2>1, <2>3, <3>1, <3>2, StayTypes DEF KnownLocator
    <2>4. CASE StoreRaw(p)
      <3>1. PICK tries \in {0, job[p].tries}, s \in {"duplicate", "none"} :
              job' = [job EXCEPT ![p] = [job[p] EXCEPT !.id = TRUE, !.tries = tries,
                                                       !.result = s]]
        BY <2>4 DEF StoreRaw, HandlingTypes
      <3>2. tries \in Nat /\ s \in ProcessingStatus \cup {"none"}
        BY DEF HandlingTypes, Jobs, ProcessingStatus
      <3>3. SameMail(job[p], [job[p] EXCEPT !.id = TRUE, !.tries = tries, !.result = s])
        BY <3>2, UpdateTypes DEF HandlingTypes
      <3>4. HandlingTypes'
        BY <2>1, <2>4, <3>1, <3>3, StayTypes DEF StoreRaw, Stages, Ingress
      <3> QED
        BY <2>1, <2>4, <3>4 DEF StoreRaw, SetStatus, ProcessingStatus
    <2>5. CASE Quarantine(p) \/ Finalize(p) \/ MarkFailed(p) \/ AnalysisEndsEarly(p)
      BY <2>1, <2>2, <2>5 DEF Quarantine, Finalize, MarkFailed, AnalysisEndsEarly,
         ProcessingStatus
    <2>6. CASE LookForCopy(p)
      <3>1. PICK found \in BOOLEAN :
              job' = [job EXCEPT ![p] = [job[p] EXCEPT !.found = found]]
        BY <2>6 DEF LookForCopy, HandlingTypes
      <3>2. SameMail(job[p], [job[p] EXCEPT !.found = found])
        BY UpdateTypes DEF HandlingTypes
      <3> QED
        BY <2>1, <2>6, <3>1, <3>2, StayTypes DEF LookForCopy, Stages, Ingress
    <2>7. CASE ApplyParsed(p) \/ PolicyAgrees(p)
      BY <2>1, <2>2, <2>7, ContinueTypes DEF ApplyParsed, PolicyAgrees, SetStatus,
         ProcessingStatus, Stages, Ingress
    <2>8. CASE Prepare(p)
      <3>1. CASE \E s \in {"ignored", "processed"} : Settle(p, s)
        BY <2>1, <2>2, <2>8, <3>1 DEF Prepare, ProcessingStatus
      <3>2. CASE /\ job' = [job EXCEPT ![p].weak = CorrelatedWithItself(job[p].at),
                                       ![p].tries = 0]
                 /\ SetStatus(p, "processing")
                 /\ Goto(p, "analyzing")
        <4>1. PICK weak \in BOOLEAN :
                job' = [job EXCEPT ![p] = [job[p] EXCEPT !.weak = weak, !.tries = 0]]
          BY <3>2 DEF HandlingTypes, CorrelatedWithItself
        <4>2. SameMail(job[p], [job[p] EXCEPT !.weak = weak, !.tries = 0])
          BY UpdateTypes DEF HandlingTypes
        <4>3. HandlingTypes'
          BY <2>1, <3>2, <4>1, <4>2, StayTypes DEF Stages
        <4> QED
          BY <2>1, <2>8, <3>2, <4>3 DEF Prepare, SetStatus, ProcessingStatus
      <3> QED
        BY <2>8, <3>1, <3>2 DEF Prepare
    <2>9. CASE MaterializeAnalysis(p)
      <3>0. job[p] \in Jobs /\ requests[job[p].at] + 1 \in Nat
        BY <2>1 DEF HandlingTypes
      <3>1. SameMail(job[p], [job[p] EXCEPT !.request = requests[job[p].at] + 1])
        BY <3>0, UpdateTypes
      <3>2. job' = [job EXCEPT ![p] = [job[p] EXCEPT !.request = requests[job[p].at] + 1]]
        BY <2>9 DEF MaterializeAnalysis, HandlingTypes
      <3>3. HandlingTypes'
        BY <2>1, <2>9, <3>1, <3>2, StayTypes DEF MaterializeAnalysis, Stages
      <3> QED
        BY <2>1, <2>9, <3>3 DEF MaterializeAnalysis
    <2>10. CASE VerifyAndDecide(p)
      <3>1. PICK execute \in BOOLEAN :
              job' = [job EXCEPT ![p] = [job[p] EXCEPT !.execute = execute, !.tries = 0]]
        BY <2>10 DEF VerifyAndDecide, HandlingTypes
      <3>2. SameMail(job[p], [job[p] EXCEPT !.execute = execute, !.tries = 0])
        BY UpdateTypes DEF HandlingTypes
      <3> QED
        BY <2>1, <2>10, <3>1, <3>2, StayTypes DEF VerifyAndDecide, Stages
    <2>11. CASE Release(p)
      <3>1. job[p].request \in Nat
        BY DEF HandlingTypes, Jobs
      <3>2. HandlingTypes'
        BY <2>1, <2>11 DEF Release, HandlingTypes, Goto, Labels, Stages
      <3> QED
        BY <2>1, <2>11, <3>1, <3>2 DEF Release
    <2>12. CASE Acknowledge(p)
      BY <2>1, <2>12, NextMailTypes DEF Acknowledge
    <2> QED
      BY <1>3, <2>3, <2>4, <2>5, <2>6, <2>7, <2>8, <2>9, <2>10, <2>11, <2>12 DEF Handle
  <1>4. ASSUME NEW p \in Processes, Fail(p) PROVE TypeOK'
    <2>1. CASE MarkFailedRaises(p) \/ MarkSeenFails(p)
      BY <2>1, NextMailTypes DEF MarkFailedRaises, MarkSeenFails
    <2>2. CASE Crash(p)
      BY <2>2, NoJobType DEF Crash, HandlingTypes, Goto, Labels, Stages, Ingress
    <2>3. ASSUME pc[p] \in Stages \cup {"failing", "answering"}, job' = job, Goto(p, "failing")
          PROVE  HandlingTypes'
      BY <2>3 DEF HandlingTypes, Goto, Labels
    <2>4. CASE StageRaises(p)
      BY <2>3, <2>4, NextMailTypes DEF StageRaises, Fault
    <2>5. CASE AuditRaises(p)
      BY <2>3, <2>5, NextMailTypes DEF AuditRaises, Fault, FirstStage, Stages, Ingress
    <2>6. ASSUME pc[p] \in Stages
          PROVE  /\ job[p].at # NoCopy /\ job[p] \in Jobs
                 /\ Agent(pc[p]) \in {"ingress", "security", "nlu", "policy", "fulfilment"}
                 /\ FirstStage[Agent(pc[p])] \in Stages
      BY <2>6 DEF HandlingTypes, FirstStage, Agent, Stages, Ingress
    <2>7. CASE AgentTriesAgain(p)
      <3>1. job[p].tries + 1 \in Nat
        BY <2>6, <2>7 DEF AgentTriesAgain, Jobs
      <3>2. SameMail(job[p], [job[p] EXCEPT !.tries = job[p].tries + 1])
        BY <2>6, <2>7, <3>1, UpdateTypes DEF AgentTriesAgain
      <3>3. job' = [job EXCEPT ![p] = [job[p] EXCEPT !.tries = job[p].tries + 1]]
        BY <2>7 DEF AgentTriesAgain, HandlingTypes
      <3>4. HandlingTypes'
        BY <2>6, <2>7, <3>2, <3>3, StayTypes DEF AgentTriesAgain
      <3> QED
        BY <2>7, <3>4 DEF AgentTriesAgain, Fault
    <2>8. CASE AgentGivesUp(p)
      <3>1. CASE Answer(p, "failed")
        BY <2>6, <2>8, <3>1, AnswerTypes DEF AgentGivesUp, Fault, ProcessingStatus
      <3>2. CASE Goto(p, "failing") /\ UNCHANGED job
        BY <2>3, <2>8, <3>2 DEF AgentGivesUp, Fault
      <3>3. CASE NextMail(p)
        BY <2>8, <3>3, NextMailTypes DEF AgentGivesUp, Fault
      <3>4. CASE /\ job' = [job EXCEPT ![p].refused = TRUE, ![p].tries = 0]
                 /\ Goto(p, "releasing")
        <4>1. SameMail(job[p], [job[p] EXCEPT !.refused = TRUE, !.tries = 0])
          BY <2>6, <2>8, UpdateTypes DEF AgentGivesUp
        <4>2. job' = [job EXCEPT ![p] = [job[p] EXCEPT !.refused = TRUE, !.tries = 0]]
          BY <3>4 DEF HandlingTypes
        <4>3. HandlingTypes'
          BY <2>6, <2>8, <3>4, <4>1, <4>2, StayTypes DEF AgentGivesUp, Stages
        <4> QED
          BY <2>8, <4>3 DEF AgentGivesUp, Fault
      <3> QED
        BY <2>6, <2>8, <3>1, <3>2, <3>3, <3>4 DEF AgentGivesUp
    <2> QED
      BY <1>4, <2>1, <2>2, <2>4, <2>5, <2>7, <2>8 DEF Fail
  <1>5. ASSUME NEW p \in Processes, NEW c \in Copies, RetryStored(p, c) PROVE TypeOK'
    <2>1. HandlingTypes'
      <3>1. /\ job' = [job EXCEPT ![p] = [NoJob EXCEPT !.at = c, !.id = TRUE]]
            /\ Goto(p, "parsing")
        BY <1>5 DEF RetryStored
      <3>2. /\ [NoJob EXCEPT !.at = c, !.id = TRUE] \in Jobs
            /\ [NoJob EXCEPT !.at = c, !.id = TRUE].at = c
        BY FreshJobType
      <3> QED
        BY <3>1, <3>2, MoveTypes DEF Labels, Stages, Ingress
    <2> QED
      BY <1>5, <2>1 DEF RetryStored, ProcessingStatus
  <1>6. CASE LoseSession
    BY <1>6 DEF LoseSession, HandlingTypes
  <1>7. CASE UNCHANGED vars
    BY <1>7 DEF vars, HandlingTypes
  <1> QED
    BY <1>1, <1>2, <1>3, <1>4, <1>5, <1>6, <1>7 DEF Next

-----------------------------------------------------------------------------
\* What an answer leaves of the locals.
LEMMA AnswerEffect ==
  ASSUME HandlingTypes, NEW p \in Processes, NEW s \in ProcessingStatus, Answer(p, s),
         NEW q \in Processes
  PROVE  /\ pc'[q] = IF q = p THEN "answering" ELSE pc[q]
         /\ job'[q].at = job[q].at /\ job'[q].id = job[q].id
         /\ q # p => job'[q] = job[q]
  BY DEF HandlingTypes, Jobs, Answer, Goto

\* Moving on leaves all but the attempts.
LEMMA ContinueEffect ==
  ASSUME HandlingTypes, NEW p \in Processes, NEW label \in Stages, Continue(p, label),
         NEW q \in Processes
  PROVE  /\ pc'[q] = IF q = p THEN label ELSE pc[q]
         /\ job'[q].at = job[q].at /\ job'[q].id = job[q].id
         /\ job'[q].weak = job[q].weak /\ job'[q].execute = job[q].execute
         /\ q # p => job'[q] = job[q]
  BY DEF HandlingTypes, Jobs, Continue, Goto

\* Being done with a mail leaves nothing of them.
LEMMA NextMailEffect ==
  ASSUME HandlingTypes, NEW p \in Processes, NextMail(p), NEW q \in Processes
  PROVE  /\ pc'[q] = IF q = p THEN IF p \in Pollers THEN "polling" ELSE "stopped" ELSE pc[q]
         /\ job'[q] = IF q = p THEN NoJob ELSE job[q]
  BY DEF HandlingTypes, NextMail, Goto

\* The stages that end the handling answer with what they stored.
LEMMA Settling ==
  ASSUME NEW p \in Processes,
         Quarantine(p) \/ Finalize(p) \/ MarkFailed(p) \/ AnalysisEndsEarly(p)
  PROVE  \E s \in ProcessingStatus \ {"stored", "processing"} : Settle(p, s)
  BY DEF Quarantine, Finalize, MarkFailed, AnalysisEndsEarly, ProcessingStatus

\* How an agent ends that gives up.
LEMMA GivingUp ==
  ASSUME NEW p \in Processes, AgentGivesUp(p)
  PROVE  /\ pc[p] \in Stages
         /\ \/ NextMail(p)
            \/ Goto(p, "failing") /\ job' = job /\ (pc[p] # "storing" \/ job[p].id)
            \/ Answer(p, "failed") /\ pc[p] \notin Ingress
            \/ /\ job' = [job EXCEPT ![p].refused = TRUE, ![p].tries = 0]
               /\ Goto(p, "releasing") /\ pc[p] = "checking"
  <1>1. pc[p] \in Stages
    BY DEF AgentGivesUp
  <1>2. CASE pc[p] \in Ingress
    <2>1. Agent(pc[p]) = "ingress"
      BY <1>2 DEF Agent, Ingress
    <2> QED
      BY <2>1 DEF AgentGivesUp
  <1>3. CASE pc[p] = "preparing"
    BY <1>3 DEF AgentGivesUp, Agent, Ingress
  <1>4. CASE pc[p] \in {"analyzing", "deciding"}
    BY <1>4 DEF AgentGivesUp, Agent, Ingress
  <1>5. CASE pc[p] = "checking"
    BY <1>5 DEF AgentGivesUp, Agent, Ingress
  <1>6. CASE pc[p] \in {"releasing", "finalizing"}
    BY <1>6 DEF AgentGivesUp, Agent, Ingress
  <1> QED
    BY <1>1, <1>2, <1>3, <1>4, <1>5, <1>6 DEF Stages

\* A row that exists stays, and is changed by the process at hand only.
LEMMA RowsStay ==
  ASSUME TypeOK, [Next]_vars, NEW c \in Copies
  PROVE  email[c] # "none" => email'[c] # "none"
  <1> USE DEF TypeOK, RowTypes, rows, SetStatus, Settle
  <1>1. ASSUME NEW p \in Processes, Poll(p) PROVE email' = email
    BY <1>1 DEF Poll, Start, KeepaliveFails, FetchCandidates, Take, PollDone
  <1>2. ASSUME NEW p \in Processes, Handle(p)
        PROVE  email' = email \/ \E s \in ProcessingStatus : SetStatus(p, s)
    BY <1>2 DEF Handle, KnownLocator, StoreRaw, Quarantine, LookForCopy, ApplyParsed,
       Prepare, AnalysisEndsEarly, MaterializeAnalysis, VerifyAndDecide, PolicyAgrees,
       Release, Finalize, MarkFailed, Acknowledge, ProcessingStatus
  <1>3. ASSUME NEW p \in Processes, Fail(p) PROVE email' = email
    BY <1>3 DEF Fail, StageRaises, AgentTriesAgain, AgentGivesUp, AuditRaises,
       MarkFailedRaises, MarkSeenFails, Crash
  <1> QED
    BY <1>1, <1>2, <1>3 DEF Next, Deliver, RetryStored, LoseSession, vars, ProcessingStatus

\* Handling a mail leaves the others, and stays with the mail until it is
\* acknowledged.
LEMMA HandleKeepsMail ==
  ASSUME TypeOK, NEW p \in Processes, Handle(p), ~Acknowledge(p)
  PROVE  /\ job[p].at \in Copies
         /\ job'[p].at = job[p].at
         /\ job[p].id => job'[p].id
         /\ \A q \in Processes : q # p => job'[q] = job[q] /\ pc'[q] = pc[q]
         /\ \A c \in Copies : c # job[p].at => email'[c] = email[c]
  <1> USE DEF TypeOK
  <1>1. job[p].at \in Copies
    BY HandledCopy
  <1>2. job'[p].at = job[p].at /\ (job[p].id => job'[p].id)
    <2>1. CASE \E s \in ProcessingStatus : Settle(p, s)
      BY <2>1, AnswerEffect DEF Settle
    <2>2. CASE \E label \in Stages : Continue(p, label)
      BY <2>2, ContinueEffect
    <2>3. CASE LookForCopy(p)
      BY <2>3 DEF LookForCopy, HandlingTypes, Jobs
    <2>4. CASE MaterializeAnalysis(p)
      BY <2>4 DEF MaterializeAnalysis, HandlingTypes, Jobs
    <2>5. CASE VerifyAndDecide(p)
      BY <2>5 DEF VerifyAndDecide, HandlingTypes, Jobs
    <2>6. CASE job' = [job EXCEPT ![p].weak = CorrelatedWithItself(job[p].at), ![p].tries = 0]
      BY <2>6 DEF HandlingTypes, Jobs
    <2>7. CASE KnownLocator(p)
      BY <2>7 DEF KnownLocator, HandlingTypes, Jobs
    <2>8. CASE StoreRaw(p)
      <3>1. PICK tries \in {0, job[p].tries}, s \in {"duplicate", "none"} :
              job' = [job EXCEPT ![p] = [job[p] EXCEPT !.id = TRUE, !.tries = tries,
                                                       !.result = s]]
        BY <2>8 DEF StoreRaw, HandlingTypes
      <3> QED
        BY <3>1 DEF HandlingTypes, Jobs
    <2> QED
      BY <2>1, <2>2, <2>3, <2>4, <2>5, <2>6, <2>7, <2>8, Settling
      DEF Handle, ApplyParsed, Prepare, PolicyAgrees, Release, ProcessingStatus, Stages
  <1>3. \A q \in Processes : q # p => job'[q] = job[q] /\ pc'[q] = pc[q]
    BY DEF Handle, KnownLocator, StoreRaw, Quarantine, LookForCopy, ApplyParsed,
       Prepare, AnalysisEndsEarly, MaterializeAnalysis, VerifyAndDecide, PolicyAgrees,
       Release, Finalize, MarkFailed, HandlingTypes, Settle, Answer, Continue, Goto
  <1>4. \A c \in Copies : c # job[p].at => email'[c] = email[c]
    BY DEF Handle, KnownLocator, StoreRaw, Quarantine, LookForCopy, ApplyParsed,
       Prepare, AnalysisEndsEarly, MaterializeAnalysis, VerifyAndDecide, PolicyAgrees,
       Release, Finalize, MarkFailed, rows, RowTypes, Settle, SetStatus
  <1> QED
    BY <1>1, <1>2, <1>3, <1>4

\* A process past the storing holds its mail and knows its row.
LEMMA HandleKnowsRow ==
  ASSUME TypeOK, NEW p \in Processes, Handle(p), ~Acknowledge(p)
  PROVE  \/ pc[p] \in Held
         \/ KnownLocator(p) /\ job'[p].id /\ email' = email /\ email[job[p].at] # "none"
         \/ StoreRaw(p) /\ job'[p].id /\ email'[job[p].at] # "none"
  <1> USE DEF TypeOK, At
  <1>1. CASE KnownLocator(p)
    BY <1>1 DEF KnownLocator, HandlingTypes, Jobs, rows
  <1>2. CASE StoreRaw(p)
    <2>1. PICK tries \in {0, job[p].tries}, s \in {"duplicate", "none"} :
            job' = [job EXCEPT ![p] = [job[p] EXCEPT !.id = TRUE, !.tries = tries,
                                                     !.result = s]]
      BY <1>2 DEF StoreRaw, HandlingTypes
    <2>2. job'[p].id
      BY <2>1 DEF HandlingTypes, Jobs
    <2>3. email'[job[p].at] # "none"
      BY <1>2, HandledCopy DEF StoreRaw, SetStatus, RowTypes
    <2> QED
      BY <1>2, <2>2, <2>3
  <1>3. CASE ~KnownLocator(p) /\ ~StoreRaw(p)
    BY <1>3 DEF Handle, Quarantine, LookForCopy, ApplyParsed, Prepare, AnalysisEndsEarly,
       MaterializeAnalysis, VerifyAndDecide, PolicyAgrees, Release, Finalize, MarkFailed,
       Held, Stages, Ingress
  <1> QED
    BY <1>1, <1>2, <1>3

\* An empty database has nothing stored to lose.
LEMMA StoredInit == Init => StoredInvariant
  BY DEF Init, StoredInvariant, SeenIsStored, NoJob, Held, Stages, Ingress

\* A step acknowledges only what is stored, and knows only ids of rows.
LEMMA StoredStep ==
  ASSUME TypeOK, StoredInvariant, [Next]_vars
  PROVE  StoredInvariant'
  <1> USE DEF TypeOK, At, Processes
  <1> DEFINE Knows(p) == /\ pc[p] \in Held \cup {"answering"} => job[p].id
                         /\ job[p].id => job[p].at \in Copies /\ email[job[p].at] # "none"
  <1>1. \A c \in Copies : email[c] # "none" => email'[c] # "none"
    BY RowsStay
  <1>2. StoredInvariant' <=> SeenIsStored' /\ \A p \in Processes : Knows(p)'
    BY DEF StoredInvariant
  <1>3. \A p \in Processes : Knows(p)
    BY DEF StoredInvariant
  <1>4. ASSUME NEW p \in Processes, Handle(p) PROVE StoredInvariant'
    <2>1. job[p].at \in Copies
      BY <1>4, HandledCopy
    <2>2. CASE ~Acknowledge(p)
      <3>1. inbox' = inbox
        BY <1>4, <2>2 DEF Handle, KnownLocator, StoreRaw, Quarantine, LookForCopy, ApplyParsed,
           Prepare, AnalysisEndsEarly, MaterializeAnalysis, VerifyAndDecide, PolicyAgrees,
           Release, Finalize, MarkFailed
      <3>2. Knows(p)'
        BY <1>1, <1>3, <1>4, <2>2, HandleKeepsMail, HandleKnowsRow
      <3>3. \A q \in Processes : Knows(q)'
        BY <1>1, <1>3, <1>4, <2>2, <3>2, HandleKeepsMail
      <3> QED
        BY <1>1, <1>2, <3>1, <3>3 DEF StoredInvariant, SeenIsStored
    <2>3. CASE Acknowledge(p)
      <3>1. email' = email /\ NextMail(p) /\ email[job[p].at] # "none"
        BY <1>3, <2>3 DEF Acknowledge, rows
      <3>2. \A q \in Processes : Knows(q)'
        BY <1>3, <3>1, NextMailEffect DEF NoJob, Held, Stages, Ingress
      <3>3. SeenIsStored'
        BY <2>1, <2>3, <3>1 DEF Acknowledge, StoredInvariant, SeenIsStored, RowTypes
      <3> QED
        BY <1>2, <3>2, <3>3
    <2> QED
      BY <2>2, <2>3
  <1>5. ASSUME NEW p \in Processes, Poll(p) PROVE StoredInvariant'
    <2>1. email' = email /\ inbox' = inbox
      BY <1>5 DEF Poll, Start, KeepaliveFails, FetchCandidates, Take, PollDone, rows
    <2>2. \A q \in Processes : Knows(q)'
      BY <1>3, <1>5, <2>1 DEF Poll, Start, KeepaliveFails, FetchCandidates, Take, PollDone,
         HandlingTypes, NoJob, Goto, Held, Stages, Ingress
    <2> QED
      BY <1>2, <2>1, <2>2 DEF StoredInvariant, SeenIsStored
  <1>6. ASSUME NEW p \in Processes, Fail(p) PROVE StoredInvariant'
    <2>1. email' = email /\ inbox' = inbox
      BY <1>6 DEF Fail, StageRaises, AgentTriesAgain, AgentGivesUp, AuditRaises,
         MarkFailedRaises, MarkSeenFails, Crash, rows
    <2>2. \A q \in Processes : Knows(q)'
      <3>1. CASE NextMail(p)
        BY <1>3, <2>1, <3>1, NextMailEffect DEF NoJob, Held, Stages, Ingress
      <3>2. CASE Crash(p)
        BY <1>3, <2>1, <3>2 DEF Crash, HandlingTypes, NoJob, Goto, Held, Stages, Ingress
      <3>3. CASE StageRaises(p) /\ ~NextMail(p)
        BY <1>3, <2>1, <3>3 DEF StageRaises, Caught, HandlingTypes, Goto, Held, Ingress
      <3>4. CASE AuditRaises(p) /\ ~NextMail(p)
        BY <1>3, <2>1, <3>4 DEF AuditRaises, HandlingTypes, Goto, Held
      <3>5. CASE AgentTriesAgain(p)
        <4>1. /\ pc'[p] \in Held \cup {"answering"} => pc[p] \in Held
              /\ pc'[p] # "answering"
          BY <3>5 DEF AgentTriesAgain, HandlingTypes, Goto, Held, Agent, FirstStage,
             Stages, Ingress
        <4>2. job'[p].at = job[p].at /\ job'[p].id = job[p].id
          BY <3>5 DEF AgentTriesAgain, HandlingTypes, Jobs
        <4>3. \A q \in Processes : q # p => job'[q] = job[q] /\ pc'[q] = pc[q]
          BY <3>5 DEF AgentTriesAgain, HandlingTypes, Goto
        <4> QED
          BY <1>3, <2>1, <4>1, <4>2, <4>3
      <3>6. CASE AgentGivesUp(p) /\ ~NextMail(p)
        <4>1. pc[p] \in Held \/ job[p].id
          BY <3>6, GivingUp DEF Held, Stages, Ingress
        <4>2. job[p].id
          BY <1>3, <4>1
        <4>3. job'[p].at = job[p].at /\ job'[p].id = job[p].id
          <5>1. CASE Answer(p, "failed")
            BY <5>1, AnswerEffect DEF ProcessingStatus
          <5>2. CASE job' = [job EXCEPT ![p].refused = TRUE, ![p].tries = 0]
            BY <5>2 DEF HandlingTypes, Jobs
          <5> QED
            BY <3>6, <5>1, <5>2, GivingUp
        <4>4. \A q \in Processes : q # p => job'[q] = job[q] /\ pc'[q] = pc[q]
          BY <3>6, GivingUp DEF Answer, HandlingTypes, Goto
        <4> QED
          BY <1>3, <2>1, <4>2, <4>3, <4>4
      <3> QED
        BY <1>6, <3>1, <3>2, <3>3, <3>4, <3>5, <3>6 DEF Fail, MarkFailedRaises, MarkSeenFails
    <2> QED
      BY <1>2, <2>1, <2>2 DEF StoredInvariant, SeenIsStored
  <1>7. ASSUME NEW p \in Processes, NEW c \in Copies, RetryStored(p, c) PROVE StoredInvariant'
    BY <1>2, <1>3, <1>7 DEF RetryStored, HandlingTypes, RowTypes, NoJob, Goto,
       StoredInvariant, SeenIsStored
  <1>8. ASSUME NEW c \in Copies, Deliver(c) PROVE StoredInvariant'
    BY <1>2, <1>3, <1>8 DEF Deliver, RowTypes, rows, StoredInvariant, SeenIsStored
  <1>9. CASE LoseSession \/ UNCHANGED vars
    BY <1>2, <1>3, <1>9 DEF LoseSession, vars, rows, StoredInvariant, SeenIsStored
  <1> QED
    BY <1>4, <1>5, <1>6, <1>7, <1>8, <1>9 DEF Next

\* Type correctness of the pipeline, for any mailbox and either engine.
THEOREM PipelineTypes == Spec => []TypeOK
  <1> QED
    BY TypeInit, TypeStep, PTL DEF Spec

\* No message is acknowledged whose raw bytes are not in the database, whatever
\* raises, crashes or loses its lease, with either engine.
THEOREM AcknowledgedIsStored == Spec => []SeenIsStored
  <1>1. StoredInvariant => SeenIsStored
    BY DEF StoredInvariant
  <1> QED
    BY <1>1, StoredInit, StoredStep, PipelineTypes, PTL DEF Spec
-----------------------------------------------------------------------------
(* The legacy engine *)

\* A failure of the legacy engine keeps the rows, and the mail of a process
\* that goes on to record it.
LEMMA LegacyFail ==
  ASSUME Engine = "legacy", TypeOK, NEW p \in Processes, Fail(p)
  PROVE  /\ UNCHANGED <<inbox, rows, effects, retries>>
         /\ \A q \in Processes : q # p => job'[q] = job[q] /\ pc'[q] = pc[q]
         /\ \/ pc'[p] \in {"polling", "stopped"} /\ job'[p] = NoJob
            \/ /\ pc[p] \in Stages \ Ingress /\ pc'[p] = "failing" /\ job'[p] = job[p]
               /\ UNCHANGED <<crashes, outages>>
         /\ crashes' = 0 /\ outages' = 0 => crashes = 0 /\ outages = 0
  <1> USE DEF TypeOK, Graph
  <1>1. CASE StageRaises(p)
    BY <1>1, NextMailEffect DEF StageRaises, Caught, Fault, HandlingTypes, Goto, Stages
  <1>2. CASE MarkFailedRaises(p) \/ MarkSeenFails(p)
    BY <1>2, NextMailEffect DEF MarkFailedRaises, MarkSeenFails, RowTypes
  <1>3. CASE Crash(p)
    BY <1>3 DEF Crash, HandlingTypes, Goto, RowTypes
  <1> QED
    BY <1>1, <1>2, <1>3 DEF Fail, AgentTriesAgain, AgentGivesUp, AuditRaises

\* What one turn of the polling loop may change: the process takes a mail up.
LEMMA PollEffect ==
  ASSUME TypeOK, NEW p \in Processes, Poll(p)
  PROVE  /\ UNCHANGED <<inbox, rows, effects, retries, bounds>>
         /\ \A q \in Processes : q # p => job'[q] = job[q] /\ pc'[q] = pc[q]
         /\ pc[p] \in {"stopped", "waiting", "polling"}
         /\ pc'[p] \in {"stopped", "waiting", "polling", "storing"}
  BY DEF Poll, Start, KeepaliveFails, FetchCandidates, Take, PollDone, TypeOK,
     HandlingTypes, Goto, At

\* A process that goes on holding a mail leaves its row open.
LEMMA HeldRowStaysOpen ==
  ASSUME TypeOK, NEW p \in Processes, Handle(p), ~Acknowledge(p), pc'[p] \in Held,
         pc[p] \in Held => email[job[p].at] \in {"stored", "processing"}
  PROVE  email'[job[p].at] \in {"stored", "processing"}
  <1> USE HandledCopy DEF TypeOK, RowTypes, Held, Stages, Ingress
  <1>1. CASE \E s \in ProcessingStatus : Settle(p, s)
    BY <1>1 DEF Settle, Answer, Goto, HandlingTypes
  <1>2. CASE KnownLocator(p)
    BY <1>2 DEF KnownLocator, Goto, HandlingTypes
  <1>3. CASE StoreRaw(p)
    BY <1>3 DEF StoreRaw, SetStatus, Goto, HandlingTypes
  <1>4. CASE ApplyParsed(p) \/ Prepare(p)
    BY <1>1, <1>4 DEF ApplyParsed, Prepare, SetStatus, ProcessingStatus
  <1>5. CASE LookForCopy(p) \/ MaterializeAnalysis(p) \/ VerifyAndDecide(p)
             \/ PolicyAgrees(p) \/ Release(p)
    BY <1>5 DEF LookForCopy, MaterializeAnalysis, VerifyAndDecide, PolicyAgrees, Release,
       rows, At
  <1> QED
    BY <1>1, <1>2, <1>3, <1>4, <1>5, Settling DEF Handle

\* A step leaves every held row open, and held once.
LEMMA HolderStep ==
  ASSUME Engine = "legacy", TypeOK, StoredInvariant, HolderInvariant, [Next]_vars
  PROVE  HolderInvariant'
  <1> USE DEF HolderInvariant
  <1>1. ASSUME NEW p \in Processes, Handle(p), ~Acknowledge(p) PROVE HolderInvariant'
    <2>1. pc'[p] \in Held => email'[job[p].at] \in {"stored", "processing"}
      BY <1>1, HeldRowStaysOpen
    <2>2. \A q \in Processes : q # p /\ pc[q] \in Held /\ job[q].at = job[p].at =>
            KnownLocator(p) /\ email' = email
      BY <1>1, HandleKnowsRow DEF StoreRaw, At
    <2>3. KnownLocator(p) => pc'[p] \notin Held
      BY DEF KnownLocator, Goto, TypeOK, HandlingTypes, Held, Stages, Ingress
    <2>4. \A q \in Processes : pc[q] \in Held => job[q].at \in Copies
      BY DEF TypeOK, HandlingTypes, Jobs, Held
    <2> QED
      BY <1>1, <2>1, <2>2, <2>3, <2>4, HandleKeepsMail
  <1>2. ASSUME NEW p \in Processes, Acknowledge(p) PROVE HolderInvariant'
    BY <1>2, NextMailEffect DEF Acknowledge, TypeOK, rows, Held, Stages, Ingress
  <1>3. ASSUME NEW p \in Processes, Fail(p) PROVE HolderInvariant'
    BY <1>3, LegacyFail DEF Held, Stages, Ingress, rows
  <1>4. ASSUME NEW p \in Processes, Poll(p) PROVE HolderInvariant'
    BY <1>4, PollEffect DEF Held, Stages, Ingress, rows
  <1>5. ASSUME NEW p \in Processes, NEW c \in Copies, RetryStored(p, c) PROVE HolderInvariant'
    <2>1. \A q \in Processes : pc[q] \in Held => job[q].at # c
      BY <1>5 DEF RetryStored, Retried
    <2>2. \A q \in Processes : IF q = p THEN job'[q].at = c
                              ELSE job'[q] = job[q] /\ pc'[q] = pc[q]
      BY <1>5 DEF RetryStored, TypeOK, HandlingTypes, Goto, NoJob
    <2>3. email' = [email EXCEPT ![c] = "stored"]
      BY <1>5 DEF RetryStored
    <2> QED
      BY <2>1, <2>2, <2>3 DEF TypeOK, RowTypes
  <1>6. CASE LoseSession \/ UNCHANGED vars \/ \E c \in Copies : Deliver(c)
    BY <1>6 DEF LoseSession, vars, Deliver, rows
  <1> QED
    BY <1>1, <1>2, <1>3, <1>4, <1>5, <1>6 DEF Next, Handle

\* A row that is being processed keeps somebody who will settle it, as long as
\* nobody is killed and the database answers.
LEMMA AnswerStep ==
  ASSUME Engine = "legacy", TypeOK, HolderInvariant, AnswerInvariant, [Next]_vars
  PROVE  AnswerInvariant'
  <1> DEFINE Settles(p, c) == job[p].at = c /\ pc[p] \in Prepared \cup {"failing"}
  <1> SUFFICES ASSUME crashes' = 0, outages' = 0, NEW c \in Copies, email'[c] = "processing"
               PROVE  \E p \in Processes : Settles(p, c)'
    BY DEF AnswerInvariant
  <1>1. ASSUME NEW p \in Processes, Handle(p), ~Acknowledge(p)
        PROVE  \E q \in Processes : Settles(q, c)'
    <2>1. UNCHANGED <<crashes, outages>>
      BY <1>1 DEF Handle, KnownLocator, StoreRaw, Quarantine, LookForCopy, ApplyParsed,
         Prepare, AnalysisEndsEarly, MaterializeAnalysis, VerifyAndDecide, PolicyAgrees,
         Release, Finalize, MarkFailed, bounds
    <2>2. CASE c = job[p].at
      <3>1. CASE email' = email
        <4>1. PICK q \in Processes : Settles(q, c)
          BY <2>1, <3>1 DEF AnswerInvariant
        <4>2. CASE q # p
          BY <1>1, <4>1, <4>2, HandleKeepsMail
        <4>3. CASE q = p /\ pc'[p] \in Prepared
          BY <1>1, <2>2, <4>1, <4>3, HandleKeepsMail
        <4>4. CASE pc[p] \in Prepared \cup {"failing"} /\ pc'[p] \notin Prepared
          <5>1. \E s \in ProcessingStatus \ {"stored", "processing"} : Settle(p, s)
            BY <1>1, <4>4, Settling DEF Handle, KnownLocator, StoreRaw, LookForCopy,
               ApplyParsed, Prepare, MaterializeAnalysis, VerifyAndDecide, PolicyAgrees,
               Release, At, Goto, Continue, Prepared, TypeOK, HandlingTypes, Graph
          <5> QED
            BY <2>2, <5>1 DEF Settle, SetStatus, TypeOK, RowTypes
        <4> QED
          BY <4>1, <4>2, <4>3, <4>4
      <3>2. CASE email' # email
        <4>1. pc'[p] = "analyzing"
          <5>1. ASSUME NEW s, s # "processing" PROVE ~SetStatus(p, s)
            BY <2>2, <5>1 DEF SetStatus, TypeOK, RowTypes
          <5>2. \A s \in ProcessingStatus \ {"processing"} : ~Settle(p, s)
            BY <5>1 DEF Settle
          <5>3. ~(Quarantine(p) \/ Finalize(p) \/ MarkFailed(p) \/ AnalysisEndsEarly(p))
            BY <5>2, Settling
          <5>4. ~StoreRaw(p) /\ ~ApplyParsed(p)
            BY <5>1 DEF StoreRaw, ApplyParsed, Settle
          <5>5. ~(KnownLocator(p) \/ LookForCopy(p) \/ MaterializeAnalysis(p)
                    \/ VerifyAndDecide(p) \/ PolicyAgrees(p) \/ Release(p))
            BY <3>2 DEF KnownLocator, LookForCopy, MaterializeAnalysis, VerifyAndDecide,
               PolicyAgrees, Release, rows
          <5>6. Prepare(p)
            BY <1>1, <5>3, <5>4, <5>5 DEF Handle
          <5> QED
            BY <5>2, <5>6 DEF Prepare, ProcessingStatus, Goto, TypeOK, HandlingTypes
        <4> QED
          BY <1>1, <2>2, <4>1, HandleKeepsMail DEF Prepared
      <3> QED
        BY <3>1, <3>2
    <2>3. CASE c # job[p].at
      <3>1. PICK q \in Processes : Settles(q, c)
        BY <1>1, <2>1, <2>3, HandleKeepsMail DEF AnswerInvariant
      <3> QED
        BY <1>1, <2>3, <3>1, HandleKeepsMail
    <2> QED
      BY <2>2, <2>3
  <1>2. ASSUME NEW p \in Processes, Acknowledge(p)
        PROVE  \E q \in Processes : Settles(q, c)'
    <2>1. PICK q \in Processes : Settles(q, c)
      BY <1>2 DEF Acknowledge, rows, bounds, AnswerInvariant
    <2>2. q # p
      BY <1>2, <2>1 DEF Acknowledge, At, Prepared
    <2> QED
      BY <1>2, <2>1, <2>2, NextMailEffect DEF Acknowledge, TypeOK
  <1>3. ASSUME NEW p \in Processes, Fail(p) PROVE \E q \in Processes : Settles(q, c)'
    <2>1. PICK q \in Processes : Settles(q, c)
      BY <1>3, LegacyFail DEF rows, AnswerInvariant
    <2>2. CASE pc'[p] = "failing"
      BY <1>3, <2>1, <2>2, LegacyFail
    <2>3. CASE pc'[p] # "failing"
      <3>1. crashes = crashes' /\ outages = outages'
        BY <1>3, LegacyFail
      <3>2. ~Crash(p) /\ ~MarkFailedRaises(p)
        BY <1>3, LegacyFail DEF Crash, MarkFailedRaises, TypeOK, RowTypes
      <3>3. q # p
        BY <1>3, <2>1, <2>3, <3>2 DEF Fail, StageRaises, AgentTriesAgain, AgentGivesUp,
           AuditRaises, MarkSeenFails, Graph, At, Caught, Prepared, Ingress, Goto, TypeOK,
           HandlingTypes
      <3> QED
        BY <1>3, <2>1, <3>3, LegacyFail
    <2> QED
      BY <2>2, <2>3
  <1>4. ASSUME NEW p \in Processes, Poll(p) PROVE \E q \in Processes : Settles(q, c)'
    <2>1. PICK q \in Processes : Settles(q, c)
      BY <1>4, PollEffect DEF rows, bounds, AnswerInvariant
    <2> QED
      BY <1>4, <2>1, PollEffect DEF Prepared
  <1>5. ASSUME NEW p \in Processes, NEW d \in Copies, RetryStored(p, d)
        PROVE  \E q \in Processes : Settles(q, c)'
    <2>1. PICK q \in Processes : Settles(q, c)
      BY <1>5 DEF RetryStored, bounds, AnswerInvariant, TypeOK, RowTypes
    <2>2. q # p
      BY <1>5, <2>1 DEF RetryStored, At, Prepared
    <2> QED
      BY <1>5, <2>1, <2>2 DEF RetryStored, Goto, TypeOK, HandlingTypes
  <1>6. CASE LoseSession
    BY <1>6 DEF LoseSession, TypeOK, RowTypes
  <1>7. CASE UNCHANGED vars \/ \E d \in Copies : Deliver(d)
    BY <1>7 DEF vars, Deliver, rows, bounds, AnswerInvariant
  <1> QED
    BY <1>1, <1>2, <1>3, <1>4, <1>5, <1>6, <1>7 DEF Next, Handle

\* Only the analysis adds to the requests, and the storing brings a mail there.
LEMMA HandleRequests ==
  ASSUME TypeOK, NEW p \in Processes, Handle(p)
  PROVE  /\ retries' = retries
         /\ \/ /\ requests' = requests
               /\ pc'[p] \in Unmaterialized =>
                    pc[p] \in Unmaterialized \/ (StoreRaw(p) /\ email[job[p].at] = "none")
            \/ /\ pc[p] = "analyzing" /\ pc'[p] \notin Unmaterialized
               /\ requests' = [requests EXCEPT ![job[p].at] = @ + 1]
  <1> USE DEF TypeOK, HandlingTypes, At, Goto, effects, Unmaterialized
  <1>1. CASE KnownLocator(p) \/ StoreRaw(p) \/ LookForCopy(p) \/ ApplyParsed(p) \/ Prepare(p)
    BY <1>1 DEF KnownLocator, StoreRaw, LookForCopy, ApplyParsed, Prepare, Settle, Answer,
       Continue
  <1>2. CASE AnalysisEndsEarly(p) \/ MaterializeAnalysis(p)
    BY <1>2 DEF AnalysisEndsEarly, MaterializeAnalysis, Settle, Answer
  <1>3. CASE Quarantine(p) \/ VerifyAndDecide(p) \/ PolicyAgrees(p) \/ Release(p)
             \/ Finalize(p) \/ MarkFailed(p)
    BY <1>3 DEF Quarantine, VerifyAndDecide, PolicyAgrees, Release, Finalize, MarkFailed,
       Settle, Answer, Continue
  <1>4. CASE Acknowledge(p)
    BY <1>4 DEF Acknowledge, NextMail
  <1> QED
    BY <1>1, <1>2, <1>3, <1>4 DEF Handle

\* A step opens a request only for a mail whose retries, and first attempt, are
\* not used up.
LEMMA RequestStep ==
  ASSUME Engine = "legacy", TypeOK, HolderInvariant, RequestInvariant, [Next]_vars
  PROVE  RequestInvariant'
  <1> USE DEF TypeOK, RowTypes, RequestInvariant, RequestsPaidByRetries
  <1> DEFINE Unpaid(p) == pc[p] \in Unmaterialized => requests[job[p].at] <= retries[job[p].at]
  <1>1. ASSUME requests' = requests, retries' = retries, \A p \in Processes : Unpaid(p)'
        PROVE  RequestInvariant'
    BY <1>1, RowsStay
  <1>2. ASSUME NEW p \in Processes, Handle(p), ~Acknowledge(p) PROVE RequestInvariant'
    <2>1. CASE requests' = requests
      BY <1>1, <1>2, <2>1, HandleRequests, HandleKeepsMail DEF Unmaterialized
    <2>2. CASE requests' # requests
      <3> DEFINE c == job[p].at
      <3>1. /\ pc[p] = "analyzing" /\ pc'[p] \notin Unmaterialized /\ retries' = retries
            /\ requests' = [requests EXCEPT ![c] = @ + 1] /\ c \in Copies
        BY <1>2, <2>2, HandleRequests, HandledCopy
      <3>2. requests[c] <= retries[c] /\ email[c] \in {"stored", "processing"}
        BY <3>1 DEF HolderInvariant, Held, Stages, Unmaterialized
      <3>3. \A q \in Processes : q # p /\ pc[q] \in Unmaterialized => job[q].at # c
        BY <3>1 DEF HolderInvariant, Held, Stages, Ingress, Unmaterialized
      <3>4. \A q \in Processes : Unpaid(q)'
        BY <1>2, <3>1, <3>3, HandleKeepsMail
      <3>5. \A d \in Copies : email'[d] = "none" => requests'[d] = 0
        BY <3>1, <3>2, RowsStay
      <3> QED
        BY <3>1, <3>2, <3>4, <3>5
    <2> QED
      BY <2>1, <2>2
  <1>3. ASSUME NEW p \in Processes, Acknowledge(p) PROVE RequestInvariant'
    BY <1>1, <1>3, NextMailEffect DEF Acknowledge, effects, Unmaterialized
  <1>4. ASSUME NEW p \in Processes, Fail(p) PROVE RequestInvariant'
    BY <1>1, <1>4, LegacyFail DEF effects, Unmaterialized
  <1>5. ASSUME NEW p \in Processes, Poll(p) PROVE RequestInvariant'
    BY <1>1, <1>5, PollEffect DEF effects, Unmaterialized
  <1>6. ASSUME NEW p \in Processes, NEW c \in Copies, RetryStored(p, c) PROVE RequestInvariant'
    <2>1. /\ requests' = requests /\ retries' = [retries EXCEPT ![c] = @ + 1]
          /\ \A q \in Processes : IF q = p THEN job'[q].at = c
                                 ELSE job'[q] = job[q] /\ pc'[q] = pc[q]
      BY <1>6 DEF RetryStored, HandlingTypes, Goto, NoJob, effects
    <2>2. \A q \in Processes : Unpaid(q)'
      BY <2>1 DEF HandlingTypes, Jobs, Unmaterialized
    <2> QED
      BY <2>1, <2>2, RowsStay
  <1>7. CASE LoseSession \/ UNCHANGED vars \/ \E c \in Copies : Deliver(c)
    BY <1>1, <1>7 DEF LoseSession, vars, Deliver, rows, effects
  <1> QED
    BY <1>2, <1>3, <1>4, <1>5, <1>6, <1>7 DEF Next, Handle

\* What a stage needs to know of the releases before it.
MayRelease(p) ==
  /\ pc[p] \in Prepared => job[p].at \in conversations
  /\ pc[p] \in {"checking", "releasing"} /\ job[p].execute => ~job[p].weak
  /\ pc[p] \in Unreleased /\ ~job[p].weak /\ job[p].at \notin Certain =>
       \A r \in mutated : r[1] # job[p].at

\* Conversations are never taken back, and a stage but the release keeps what
\* was released.
LEMMA HandleReleases ==
  ASSUME TypeOK, NEW p \in Processes, Handle(p)
  PROVE  /\ conversations \subseteq conversations'
         /\ mutated' # mutated => Release(p)
  BY DEF TypeOK, RowTypes, rows, effects, Handle, KnownLocator, StoreRaw, Quarantine,
     LookForCopy, ApplyParsed, Prepare, AnalysisEndsEarly, MaterializeAnalysis,
     VerifyAndDecide, PolicyAgrees, Release, Finalize, MarkFailed, Acknowledge

\* A stage leaves its process with what the next ones need to know.
LEMMA HandleMayRelease ==
  ASSUME TypeOK, NEW p \in Processes, Handle(p), ~Acknowledge(p), MayRelease(p),
         \A r \in mutated : r[1] \in conversations
  PROVE  MayRelease(p)'
  <1> USE HandledCopy
      DEF TypeOK, HandlingTypes, At, Goto, MayRelease, Prepared, Unreleased
  <1>1. CASE \E s \in ProcessingStatus : Settle(p, s)
    BY <1>1 DEF Settle, Answer
  <1>2. CASE KnownLocator(p) \/ StoreRaw(p) \/ LookForCopy(p)
    BY <1>2 DEF KnownLocator, StoreRaw, LookForCopy
  <1>3. CASE ApplyParsed(p)
    BY <1>1, <1>3 DEF ApplyParsed, Continue, ProcessingStatus
  <1>4. CASE Prepare(p)
    <2>1. CASE job' = [job EXCEPT ![p].weak = CorrelatedWithItself(job[p].at), ![p].tries = 0]
      <3>1. job'[p].weak = CorrelatedWithItself(job[p].at) /\ job'[p].at = job[p].at
        BY <2>1 DEF Jobs
      <3>2. job[p].at \notin Certain /\ ~job'[p].weak => job[p].at \notin conversations
        BY <3>1 DEF CorrelatedWithItself
      <3>3. CASE Goto(p, "analyzing") /\ conversations' = conversations \cup {job[p].at}
        BY <1>4, <3>1, <3>2, <3>3 DEF Prepare, effects
      <3> QED
        BY <1>1, <1>4, <2>1, <3>3 DEF Prepare, ProcessingStatus
    <2> QED
      BY <1>1, <1>4, <2>1 DEF Prepare, ProcessingStatus
  <1>5. CASE MaterializeAnalysis(p)
    <2>1. job'[p].at = job[p].at /\ job'[p].weak = job[p].weak /\ pc'[p] = "deciding"
      BY <1>5 DEF MaterializeAnalysis, Jobs
    <2> QED
      BY <1>5, <2>1 DEF MaterializeAnalysis, rows
  <1>6. CASE VerifyAndDecide(p)
    <2>1. /\ job'[p].at = job[p].at /\ job'[p].weak = job[p].weak
          /\ job'[p].execute => ~job[p].weak
      BY <1>6 DEF VerifyAndDecide, Jobs
    <2> QED
      BY <1>6, <2>1 DEF VerifyAndDecide, rows, effects
  <1>7. CASE PolicyAgrees(p)
    <2>1. pc'[p] = "releasing" /\ job'[p].at = job[p].at
          /\ job'[p].weak = job[p].weak /\ job'[p].execute = job[p].execute
      BY <1>7, ContinueEffect DEF PolicyAgrees, Stages
    <2> QED
      BY <1>7, <2>1 DEF PolicyAgrees, rows, effects
  <1>8. CASE Release(p)
    BY <1>8 DEF Release, rows
  <1> QED
    BY <1>1, <1>2, <1>3, <1>4, <1>5, <1>6, <1>7, <1>8, Settling DEF Handle

\* A step releases a mail that is certain of nothing only for the attempt that
\* opened its conversation.
LEMMA ReleaseStep ==
  ASSUME Engine = "legacy", TypeOK, HolderInvariant, ReleaseInvariant, [Next]_vars
  PROVE  ReleaseInvariant'
  <1> USE DEF TypeOK, RowTypes
  <1>0. /\ \A r \in mutated : r[1] \in conversations
        /\ \A p \in Processes : MayRelease(p)
        /\ UncertainReleasedOnce
    BY DEF ReleaseInvariant, MayRelease
  <1>1. ReleaseInvariant' <=> /\ (\A r \in mutated : r[1] \in conversations)'
                              /\ \A p \in Processes : MayRelease(p)'
                              /\ UncertainReleasedOnce'
    BY DEF ReleaseInvariant, MayRelease
  <1>2. ASSUME mutated' = mutated, conversations' = conversations,
               \A p \in Processes : MayRelease(p)'
        PROVE  ReleaseInvariant'
    BY <1>0, <1>1, <1>2 DEF UncertainReleasedOnce, ReleasedAtMostOnce
  <1>3. ASSUME NEW p \in Processes, Handle(p), ~Acknowledge(p) PROVE ReleaseInvariant'
    <2>1. MayRelease(p)'
      BY <1>0, <1>3, HandleMayRelease
    <2>2. CASE mutated' = mutated
      <3>1. \A q \in Processes : MayRelease(q)'
        BY <1>0, <1>3, <2>1, <2>2, HandleKeepsMail, HandleReleases DEF MayRelease
      <3> QED
        BY <1>0, <1>1, <1>3, <2>2, <3>1, HandleReleases
        DEF UncertainReleasedOnce, ReleasedAtMostOnce
    <2>3. CASE mutated' # mutated
      <3> DEFINE c == job[p].at
      <3>1. /\ Release(p) /\ pc[p] = "releasing" /\ job[p].execute
            /\ mutated' = mutated \cup {<<c, job[p].request>>}
            /\ conversations' = conversations /\ c \in Copies
        BY <1>3, <2>3, HandleReleases, HandledCopy DEF Release, At, rows
      <3>2. c \in conversations /\ ~job[p].weak
        BY <1>0, <3>1 DEF MayRelease, Prepared
      <3>3. c \notin Certain => \A r \in mutated : r[1] # c
        BY <1>0, <3>1, <3>2 DEF MayRelease, Prepared, Unreleased
      <3>4. \A q \in Processes : q # p /\ pc[q] \in Prepared => job[q].at # c
        BY <3>1 DEF HolderInvariant, Held, Stages, Prepared
      <3>5. \A q \in Processes : q # p => MayRelease(q)'
        BY <1>0, <1>3, <3>1, <3>4, HandleKeepsMail DEF MayRelease, Unreleased
      <3>6. UncertainReleasedOnce'
        BY <1>0, <3>1, <3>3 DEF UncertainReleasedOnce, ReleasedAtMostOnce
      <3> QED
        BY <1>0, <1>1, <2>1, <3>1, <3>2, <3>5, <3>6
    <2> QED
      BY <2>2, <2>3
  <1>4. ASSUME NEW p \in Processes, Acknowledge(p) PROVE ReleaseInvariant'
    BY <1>0, <1>2, <1>4, NextMailEffect
    DEF Acknowledge, rows, effects, MayRelease, Prepared, Unreleased
  <1>5. ASSUME NEW p \in Processes, Fail(p) PROVE ReleaseInvariant'
    BY <1>0, <1>2, <1>5, LegacyFail DEF rows, effects, MayRelease, Prepared, Unreleased
  <1>6. ASSUME NEW p \in Processes, Poll(p) PROVE ReleaseInvariant'
    BY <1>0, <1>2, <1>6, PollEffect DEF rows, effects, MayRelease, Prepared, Unreleased
  <1>7. ASSUME NEW p \in Processes, NEW c \in Copies, RetryStored(p, c) PROVE ReleaseInvariant'
    BY <1>0, <1>2, <1>7
    DEF RetryStored, HandlingTypes, Goto, effects, MayRelease, Prepared, Unreleased
  <1>8. CASE LoseSession \/ UNCHANGED vars \/ \E c \in Copies : Deliver(c)
    BY <1>0, <1>2, <1>8 DEF LoseSession, vars, Deliver, rows, effects, MayRelease
  <1> QED
    BY <1>3, <1>4, <1>5, <1>6, <1>7, <1>8 DEF Next, Handle

\* With no mail there is nothing to hold, to answer, to pay or to release.
LEMMA LegacyInit == Init => LegacyInvariant
  <1> SUFFICES ASSUME Init PROVE LegacyInvariant
    OBVIOUS
  <1>1. TypeOK /\ StoredInvariant
    BY TypeInit, StoredInit
  <1>2. HolderInvariant /\ AnswerInvariant
    BY DEF Init, HolderInvariant, AnswerInvariant, Held, Stages, Ingress
  <1>3. RequestInvariant
    BY DEF Init, RequestInvariant, RequestsPaidByRetries, Unmaterialized
  <1>4. ReleaseInvariant
    BY DEF Init, ReleaseInvariant, UncertainReleasedOnce, ReleasedAtMostOnce, Prepared,
       Unreleased
  <1> QED
    BY <1>1, <1>2, <1>3, <1>4 DEF LegacyInvariant

\* Under the legacy engine the parts of the invariant hold together: a held row
\* is open and held once, a prepared mail has somebody to settle it, and every
\* request and release belongs to an attempt.
THEOREM LegacyInvariantHolds ==
  ASSUME Engine = "legacy"
  PROVE  Spec => []LegacyInvariant
  <1>1. LegacyInvariant /\ [Next]_vars => LegacyInvariant'
    BY TypeStep, StoredStep, HolderStep, AnswerStep, RequestStep, ReleaseStep
    DEF LegacyInvariant
  <1> QED
    BY <1>1, LegacyInit, PTL DEF Spec

\* An exception after the preparation does not leave a mail without outcome,
\* unless a process is killed or the database is out of reach.
THEOREM NoPreparedMailIsLeft ==
  ASSUME Engine = "legacy"
  PROVE  Spec => []PreparedMailIsAnswered
  <1>1. LegacyInvariant => PreparedMailIsAnswered
    BY DEF LegacyInvariant, AnswerInvariant, PreparedMailIsAnswered, Busy
  <1> QED
    BY <1>1, LegacyInvariantHolds, PTL

\* However often a mail is polled, it opens as many requests as it was retried,
\* and one more.
THEOREM RequestsArePaid ==
  ASSUME Engine = "legacy"
  PROVE  Spec => []RequestsPaidByRetries
  <1>1. LegacyInvariant => RequestsPaidByRetries
    BY DEF LegacyInvariant, RequestInvariant
  <1> QED
    BY <1>1, LegacyInvariantHolds, PTL

\* A mail whose conversation is found by its subject is released once, however
\* often it is retried.
THEOREM UncertainMailIsReleasedOnce ==
  ASSUME Engine = "legacy"
  PROVE  Spec => []UncertainReleasedOnce
  <1>1. LegacyInvariant => UncertainReleasedOnce
    BY DEF LegacyInvariant, ReleaseInvariant
  <1> QED
    BY <1>1, LegacyInvariantHolds, PTL

\* No step changes the row of a mail that is processed, ignored or a duplicate.
THEOREM SettledMailsStay ==
  ASSUME Engine = "legacy"
  PROVE  Spec => SettledMailStays
  <1> DEFINE Final == {"processed", "ignored", "duplicate"}
             Stays == \A c \in Copies : email[c] \in Final => email'[c] = email[c]
  <1>1. LegacyInvariant /\ [Next]_vars => [Stays]_vars
    <2> SUFFICES ASSUME LegacyInvariant, [Next]_vars, NEW c \in Copies, email[c] \in Final
                 PROVE  email'[c] = email[c]
      OBVIOUS
    <2> USE DEF LegacyInvariant, TypeOK
    <2>1. ASSUME NEW p \in Processes, Handle(p), ~Acknowledge(p) PROVE email'[c] = email[c]
      <3>1. pc[p] \in Held => job[p].at # c
        BY DEF HolderInvariant
      <3>2. StoreRaw(p) => job[p].at # c
        BY DEF StoreRaw
      <3> QED
        BY <2>1, <3>1, <3>2, HandleKeepsMail, HandleKnowsRow
    <2>2. ASSUME NEW p \in Processes, Acknowledge(p) \/ Poll(p) \/ Fail(p) PROVE email' = email
      BY <2>2, PollEffect, LegacyFail DEF Acknowledge, rows
    <2>3. ASSUME NEW p \in Processes, NEW d \in Copies, RetryStored(p, d)
          PROVE  email'[c] = email[c]
      BY <2>3 DEF RetryStored, Retried, RowTypes
    <2>4. CASE LoseSession \/ UNCHANGED vars \/ \E d \in Copies : Deliver(d)
      BY <2>4 DEF LoseSession, vars, Deliver, rows
    <2> QED
      BY <2>1, <2>2, <2>3, <2>4 DEF Next, Handle
  <1> QED
    BY <1>1, LegacyInvariantHolds, PTL DEF Spec, SettledMailStays

-----------------------------------------------------------------------------
(* The life of a mail *)

\* An empty database has no row of a mail that did not arrive.
LEMMA ArrivalInit == Init => ArrivalInvariant
  BY PipelineAssumption DEF Init, ArrivalInvariant, NoJob

\* A step stores mails that arrived, and no mail departs.
LEMMA ArrivalStep ==
  ASSUME TypeOK, ArrivalInvariant, [Next]_vars
  PROVE  ArrivalInvariant'
  <1> USE DEF TypeOK, ArrivalInvariant
  <1>1. ASSUME NEW p \in Processes, Handle(p), ~Acknowledge(p) PROVE ArrivalInvariant'
    <2>1. inbox' = inbox /\ batch' = batch
      BY <1>1 DEF Handle, KnownLocator, StoreRaw, Quarantine, LookForCopy, ApplyParsed,
         Prepare, AnalysisEndsEarly, MaterializeAnalysis, VerifyAndDecide, PolicyAgrees,
         Release, Finalize, MarkFailed
    <2>2. \A q \in Processes : job'[q].at = job[q].at
      BY <1>1, HandleKeepsMail
    <2>3. \A c \in Copies : email'[c] # "none" => inbox[c] # "coming"
      BY <1>1, HandleKeepsMail
    <2> QED
      BY <2>1, <2>2, <2>3
  <1>2. ASSUME NEW p \in Processes, Acknowledge(p) PROVE ArrivalInvariant'
    <2>1. email' = email /\ batch' = batch
      BY <1>2 DEF Acknowledge, rows
    <2>2. \A c \in Copies : inbox[c] # "coming" => inbox'[c] # "coming"
      BY <1>2 DEF Acknowledge, RowTypes
    <2>3. \A q \in Processes : job'[q].at \in Copies => job'[q].at = job[q].at
      BY <1>2, NextMailEffect, PipelineAssumption DEF Acknowledge, NoJob
    <2> QED
      BY <2>1, <2>2, <2>3 DEF LeaseTypes
  <1>3. ASSUME NEW p \in Processes, Poll(p) PROVE ArrivalInvariant'
    <2>1. inbox' = inbox /\ email' = email
      BY <1>3, PollEffect DEF rows
    <2>2. \A q \in Processes : \A c \in batch'[q] : inbox[c] # "coming"
      BY <1>3 DEF Poll, Start, KeepaliveFails, FetchCandidates, Take, PollDone, LeaseTypes
    <2>3. \A q \in Processes : job'[q].at \in Copies => inbox[job'[q].at] # "coming"
      BY <1>3 DEF Poll, Start, KeepaliveFails, FetchCandidates, Take, PollDone,
         HandlingTypes, NoJob
    <2> QED
      BY <2>1, <2>2, <2>3
  <1>4. ASSUME NEW p \in Processes, Fail(p) PROVE ArrivalInvariant'
    <2>1. UNCHANGED <<inbox, email>>
      BY <1>4 DEF Fail, StageRaises, AgentTriesAgain, AgentGivesUp, AuditRaises,
         MarkFailedRaises, MarkSeenFails, Crash, rows
    <2>2. \A q \in Processes : batch'[q] \subseteq batch[q]
      BY <1>4 DEF Fail, StageRaises, AgentTriesAgain, AgentGivesUp, AuditRaises,
         MarkFailedRaises, MarkSeenFails, Crash, LeaseTypes
    <2>3. \A q \in Processes : job'[q].at \in Copies => job'[q].at = job[q].at
      <3> USE NoJobType, PipelineAssumption
      <3>1. CASE StageRaises(p) \/ AuditRaises(p) \/ MarkFailedRaises(p) \/ MarkSeenFails(p)
        BY <3>1, NextMailEffect DEF StageRaises, AuditRaises, MarkFailedRaises, MarkSeenFails
      <3>2. CASE AgentTriesAgain(p)
        BY <3>2 DEF AgentTriesAgain, HandlingTypes, Jobs
      <3>3. CASE AgentGivesUp(p)
        <4>1. NextMail(p) \/ job' = job \/ Answer(p, "failed")
              \/ job' = [job EXCEPT ![p].refused = TRUE, ![p].tries = 0]
          BY <3>3, GivingUp
        <4>2. CASE NextMail(p)
          BY <4>2, NextMailEffect
        <4>3. CASE Answer(p, "failed")
          BY <4>3, AnswerEffect DEF ProcessingStatus
        <4>4. CASE job' = [job EXCEPT ![p].refused = TRUE, ![p].tries = 0]
          BY <4>4 DEF HandlingTypes, Jobs
        <4> QED
          BY <4>1, <4>2, <4>3, <4>4
      <3>4. CASE Crash(p)
        BY <3>4 DEF Crash, HandlingTypes
      <3> QED
        BY <1>4, <3>1, <3>2, <3>3, <3>4 DEF Fail
    <2> QED
      BY <2>1, <2>2, <2>3
  <1>5. ASSUME NEW p \in Processes, NEW c \in Copies, RetryStored(p, c)
        PROVE  ArrivalInvariant'
    <2>1. inbox' = inbox /\ batch' = batch /\ inbox[c] # "coming"
      BY <1>5 DEF RetryStored, Retried
    <2>2. \A d \in Copies : email'[d] # "none" => inbox[d] # "coming"
      BY <1>5, <2>1 DEF RetryStored, RowTypes
    <2>3. \A q \in Processes : job'[q].at = job[q].at \/ job'[q].at = c
      BY <1>5 DEF RetryStored, HandlingTypes, NoJob
    <2> QED
      BY <2>1, <2>2, <2>3
  <1>6. ASSUME NEW c \in Copies, Deliver(c) PROVE ArrivalInvariant'
    <2>1. UNCHANGED <<email, batch, job>> /\ \A d \in Copies : inbox'[d] # "coming"
                                                      \/ inbox'[d] = inbox[d]
      BY <1>6 DEF Deliver, rows, RowTypes
    <2> QED
      BY <2>1 DEF LeaseTypes
  <1>7. CASE LoseSession \/ UNCHANGED vars
    BY <1>7 DEF LoseSession, vars, rows
  <1> QED
    BY <1>1, <1>2, <1>3, <1>4, <1>5, <1>6, <1>7 DEF Next

\* Where a process that has a request at hand got it.
LEMMA HandleNewest ==
  ASSUME TypeOK, NEW p \in Processes, Handle(p), ~Acknowledge(p), pc'[p] \in Decided
  PROVE  \/ /\ pc[p] \in Decided
            /\ job'[p].request = job[p].request /\ requests' = requests
         \/ /\ pc[p] = "analyzing"
            /\ job'[p].request = requests[job[p].at] + 1
            /\ requests' = [requests EXCEPT ![job[p].at] = @ + 1]
  <1> USE DEF TypeOK, HandlingTypes, At, Goto, Decided, Prepared, effects
  <1>1. CASE \E s \in ProcessingStatus : Settle(p, s)
    BY <1>1 DEF Settle, Answer
  <1>2. CASE KnownLocator(p) \/ StoreRaw(p) \/ LookForCopy(p)
    BY <1>2 DEF KnownLocator, StoreRaw, LookForCopy
  <1>3. CASE ApplyParsed(p)
    BY <1>1, <1>3 DEF ApplyParsed, Continue, ProcessingStatus
  <1>4. CASE Prepare(p)
    BY <1>1, <1>4 DEF Prepare, ProcessingStatus
  <1>5. CASE MaterializeAnalysis(p)
    BY <1>5 DEF MaterializeAnalysis, Jobs
  <1>6. CASE VerifyAndDecide(p)
    BY <1>6 DEF VerifyAndDecide, Jobs
  <1>7. CASE PolicyAgrees(p)
    BY <1>7 DEF PolicyAgrees, Continue, Jobs
  <1>8. CASE Release(p)
    BY <1>8 DEF Release
  <1> QED
    BY <1>1, <1>2, <1>3, <1>4, <1>5, <1>6, <1>7, <1>8, Settling DEF Handle

\* Nobody else opens a request of a mail that is held.
LEMMA NewestStep ==
  ASSUME Engine = "legacy", TypeOK, HolderInvariant, NewestInvariant, [Next]_vars
  PROVE  NewestInvariant'
  <1> USE DEF NewestInvariant
  <1>0. Decided \subseteq Held /\ Decided \cap {"stopped", "waiting", "polling", "storing",
                                             "failing", "answering", "parsing"} = {}
    BY DEF Decided, Prepared, Held, Stages, Ingress
  <1>1. ASSUME NEW p \in Processes, Handle(p), ~Acknowledge(p) PROVE NewestInvariant'
    <2> SUFFICES ASSUME NEW q \in Processes, pc'[q] \in Decided
                 PROVE  job'[q].request = requests'[job'[q].at] /\ job'[q].request > 0
      OBVIOUS
    <2>1. job'[p].at = job[p].at /\ job[p].at \in Copies /\ requests[job[p].at] \in Nat
      BY <1>1, HandleKeepsMail DEF TypeOK, RowTypes
    <2>2. CASE q = p
      BY <1>1, <2>1, <2>2, HandleNewest DEF TypeOK, RowTypes
    <2>3. CASE q # p
      <3>1. job'[q] = job[q] /\ pc[q] \in Decided /\ job[q].at \in Copies
        BY <1>1, <2>3, HandleKeepsMail, <1>0 DEF TypeOK, HandlingTypes, Jobs, Held
      <3>2. requests'[job[q].at] = requests[job[q].at]
        <4>1. CASE requests' = requests
          BY <4>1
        <4>2. CASE requests' # requests
          <5>1. pc[p] = "analyzing" /\ requests' = [requests EXCEPT ![job[p].at] = @ + 1]
            BY <1>1, <4>2, HandleRequests
          <5>2. job[q].at # job[p].at
            BY <1>0, <2>3, <3>1, <5>1 DEF HolderInvariant, Held, Stages, Ingress
          <5> QED
            BY <3>1, <5>1, <5>2 DEF TypeOK, RowTypes
        <4> QED
          BY <4>1, <4>2
      <3> QED
        BY <3>1, <3>2
    <2> QED
      BY <2>2, <2>3
  <1>2. ASSUME NEW p \in Processes, Acknowledge(p) PROVE NewestInvariant'
    BY <1>0, <1>2, NextMailEffect DEF Acknowledge, TypeOK, effects
  <1>3. ASSUME NEW p \in Processes, Fail(p) PROVE NewestInvariant'
    BY <1>0, <1>3, LegacyFail DEF effects
  <1>4. ASSUME NEW p \in Processes, Poll(p) PROVE NewestInvariant'
    BY <1>0, <1>4, PollEffect DEF effects
  <1>5. ASSUME NEW p \in Processes, NEW c \in Copies, RetryStored(p, c) PROVE NewestInvariant'
    BY <1>0, <1>5 DEF RetryStored, TypeOK, HandlingTypes, Goto, effects
  <1>6. CASE LoseSession \/ UNCHANGED vars \/ \E c \in Copies : Deliver(c)
    BY <1>6 DEF LoseSession, vars, Deliver, effects
  <1> QED
    BY <1>1, <1>2, <1>3, <1>4, <1>5, <1>6 DEF Next, Handle

\* A status says one thing of the life of a mail.
LEMMA LifeOfStatus ==
  ASSUME TypeOK, NEW c \in Copies
  PROVE  /\ Life[c] = "none" <=> email[c] = "none"
         /\ Life[c] = "open" <=> email[c] \in {"stored", "processing"}
         /\ Life[c] = "failed" <=> email[c] \in Retried
  BY DEF TypeOK, RowTypes, Life, LifeOf, ProcessingStatus, Retried

\* What a new status is for the life of its mail.
LEMMA LifeChanges ==
  ASSUME TypeOK, NEW c \in Copies, NEW s \in ProcessingStatus,
         email' = [email EXCEPT ![c] = s]
  PROVE  /\ Life' = [Life EXCEPT ![c] = LifeOf[s]]
         /\ LifeOf[s] = Life[c] => Life' = Life
  <1>1. Life' = [Life EXCEPT ![c] = LifeOf[s]]
    BY DEF TypeOK, RowTypes, Life
  <1>2. Life = [d \in Copies |-> Life[d]]
    BY DEF Life
  <1> QED
    BY <1>1, <1>2

Alike == UNCHANGED <<inbox, requests, mutated, retries>>

\* The end of an attempt closes the mail it held.
LEMMA EndCloses ==
  ASSUME TypeOK, HolderInvariant, NEW p \in Processes, pc[p] \in Held, job[p].at \in Copies,
         NEW s \in ProcessingStatus \ {"stored", "processing"}, SetStatus(p, s), Alike
  PROVE  Lifecycle!Close(job[p].at)
  <1>1. Life[job[p].at] = "open"
    BY LifeOfStatus DEF HolderInvariant
  <1>2. LifeOf[s] \in {"failed", "settled"}
    BY DEF LifeOf, ProcessingStatus
  <1>3. Life' = [Life EXCEPT ![job[p].at] = LifeOf[s]]
    BY LifeChanges DEF SetStatus
  <1> QED
    BY <1>1, <1>2, <1>3 DEF Lifecycle!Close, Alike

\* A status of a mail under way leaves it open.
LEMMA OpenStays ==
  ASSUME TypeOK, HolderInvariant, NEW p \in Processes, pc[p] \in Held, job[p].at \in Copies,
         NEW s \in {"stored", "processing"}, SetStatus(p, s)
  PROVE  Life' = Life
  <1>1. LifeOf[s] = "open" /\ s \in ProcessingStatus
    BY DEF LifeOf, ProcessingStatus
  <1>2. Life[job[p].at] = "open"
    BY LifeOfStatus DEF HolderInvariant
  <1> QED
    BY <1>1, <1>2, LifeChanges DEF SetStatus

\* A stage takes one step of the life of its mail, or none.
LEMMA HandleLives ==
  ASSUME TypeOK, StoredInvariant, HolderInvariant, RequestInvariant, ArrivalInvariant,
         NewestInvariant, NEW p \in Processes, Handle(p)
  PROVE  UNCHANGED Lifecycle!vars \/ Lifecycle!Next
  <1> DEFINE c == job[p].at
  <1>1. c \in Copies /\ inbox[c] # "coming" /\ requests[c] \in Nat
    BY HandledCopy DEF ArrivalInvariant, TypeOK, RowTypes
  <1> SUFFICES UNCHANGED Lifecycle!vars
               \/ Lifecycle!Store(c) \/ Lifecycle!Request(c) \/ Lifecycle!Release(c)
               \/ Lifecycle!Close(c) \/ Lifecycle!Acknowledge(c)
    BY <1>1 DEF Lifecycle!Next
  <1>2. ASSUME email' = email PROVE Life' = Life
    BY <1>2 DEF Life
  <1>3. CASE KnownLocator(p) \/ LookForCopy(p) \/ VerifyAndDecide(p) \/ PolicyAgrees(p)
    BY <1>2, <1>3 DEF KnownLocator, LookForCopy, VerifyAndDecide, PolicyAgrees, rows, effects,
       Lifecycle!vars
  <1>4. CASE StoreRaw(p)
    <2>1. PICK s \in {"stored", "duplicate"} : email' = [email EXCEPT ![c] = s]
      BY <1>4 DEF StoreRaw, SetStatus
    <2>2. LifeOf[s] \in {"open", "settled"} /\ s \in ProcessingStatus
      BY DEF LifeOf, ProcessingStatus
    <2>3. Life' = [Life EXCEPT ![c] = LifeOf[s]]
      BY <1>1, <2>1, <2>2, LifeChanges
    <2>4. Life[c] = "none"
      BY <1>1, <1>4, LifeOfStatus DEF StoreRaw
    <2>5. Alike
      BY <1>4 DEF StoreRaw, effects, Alike
    <2> QED
      BY <1>1, <2>2, <2>3, <2>4, <2>5 DEF Lifecycle!Store, Alike
  <1>5. CASE Quarantine(p) \/ Finalize(p) \/ MarkFailed(p)
    <2>1. PICK s \in ProcessingStatus \ {"stored", "processing"} : SetStatus(p, s)
      BY <1>5, Settling DEF Settle
    <2>2. Alike /\ pc[p] \in Held
      BY <1>5 DEF Quarantine, Finalize, MarkFailed, effects, Alike, At, Held, Stages, Ingress
    <2> QED
      BY <1>1, <2>1, <2>2, EndCloses
  <1>6. CASE ApplyParsed(p)
    <2>1. Alike /\ pc[p] \in Held
      BY <1>6 DEF ApplyParsed, effects, Alike, At, Held, Stages, Ingress
    <2>2. CASE SetStatus(p, "duplicate")
      BY <1>1, <2>1, <2>2, EndCloses DEF ProcessingStatus
    <2>3. CASE SetStatus(p, "stored")
      BY <1>1, <2>1, <2>3, OpenStays DEF Alike, Lifecycle!vars
    <2> QED
      BY <1>6, <2>2, <2>3 DEF ApplyParsed, Settle
  <1>7. CASE Prepare(p)
    <2>1. Alike /\ pc[p] \in Held
      BY <1>7 DEF Prepare, effects, Alike, At, Held, Stages, Ingress
    <2>2. CASE SetStatus(p, "ignored") \/ SetStatus(p, "processed")
      BY <1>1, <2>1, <2>2, EndCloses DEF ProcessingStatus
    <2>3. CASE SetStatus(p, "processing")
      BY <1>1, <2>1, <2>3, OpenStays DEF Alike, Lifecycle!vars
    <2> QED
      BY <1>7, <2>2, <2>3 DEF Prepare, Settle
  <1>8. CASE AnalysisEndsEarly(p) \/ MaterializeAnalysis(p)
    <2>1. pc[p] = "analyzing" /\ UNCHANGED <<inbox, mutated, retries>>
      BY <1>8 DEF AnalysisEndsEarly, MaterializeAnalysis, At
    <2>2. pc[p] \in Held /\ pc[p] \in Unmaterialized
      BY <2>1 DEF Held, Stages, Ingress, Unmaterialized
    <2>3. Life[c] = "open" /\ requests[c] <= retries[c]
      BY <1>1, <2>2, LifeOfStatus DEF HolderInvariant, RequestInvariant
    <2>4. CASE SetStatus(p, "ignored") /\ requests' = requests
      BY <1>1, <2>1, <2>2, <2>4, EndCloses DEF ProcessingStatus, Alike
    <2>5. CASE SetStatus(p, "processed") /\ requests' = [requests EXCEPT ![c] = @ + 1]
      <3>1. Life' = [Life EXCEPT ![c] = "settled"]
        BY <1>1, <2>5, LifeChanges DEF SetStatus, ProcessingStatus, LifeOf
      <3> QED
        BY <2>1, <2>3, <2>5, <3>1 DEF Lifecycle!Request
    <2>6. CASE email' = email /\ requests' = [requests EXCEPT ![c] = @ + 1]
      <3>1. Life' = [Life EXCEPT ![c] = "open"]
        BY <1>1, <1>2, <2>3, <2>6 DEF Life
      <3> QED
        BY <2>1, <2>3, <2>6, <3>1 DEF Lifecycle!Request
    <2> QED
      BY <1>8, <2>4, <2>5, <2>6 DEF AnalysisEndsEarly, MaterializeAnalysis, Settle, rows
  <1>9. CASE Release(p)
    <2>1. pc[p] = "releasing" /\ UNCHANGED <<inbox, email, requests, retries>>
      BY <1>9 DEF Release, At, rows
    <2>2. CASE mutated' = mutated
      BY <1>2, <2>1, <2>2 DEF Lifecycle!vars
    <2>3. CASE mutated' # mutated
      <3>1. mutated' = mutated \cup {<<c, job[p].request>>}
        BY <1>9, <2>3 DEF Release
      <3>2. job[p].request = requests[c] /\ requests[c] > 0
        BY <2>1 DEF NewestInvariant, Decided, Prepared
      <3>3. Life[c] = "open"
        BY <1>1, <2>1, LifeOfStatus DEF HolderInvariant, Held, Stages, Ingress
      <3> QED
        BY <1>2, <2>1, <3>1, <3>2, <3>3 DEF Lifecycle!Release
    <2> QED
      BY <2>2, <2>3
  <1>10. CASE Acknowledge(p)
    <2>1. UNCHANGED <<email, requests, mutated, retries>> /\ Life' = Life
      BY <1>2, <1>10 DEF Acknowledge, rows, effects
    <2>2. Life[c] # "none"
      BY <1>1, <1>10, LifeOfStatus DEF Acknowledge, At, StoredInvariant
    <2>3. CASE inbox' = inbox
      BY <2>1, <2>3 DEF Lifecycle!vars
    <2>4. CASE inbox' # inbox
      <3>1. inbox' = [inbox EXCEPT ![c] = "seen"] /\ inbox[c] = "unread"
        BY <1>1, <1>10, <2>4 DEF Acknowledge, TypeOK, RowTypes
      <3> QED
        BY <2>1, <2>2, <3>1 DEF Lifecycle!Acknowledge
    <2> QED
      BY <2>3, <2>4
  <1> QED
    BY <1>3, <1>4, <1>5, <1>6, <1>7, <1>8, <1>9, <1>10 DEF Handle

\* Under the legacy engine the pipeline implements the life of a mail: whatever
\* raises, crashes or loses its lease, and while a retry command works beside
\* the pollers, each of its steps is a step of that life or leaves it alone.
THEOREM PipelineImplementsLifecycle ==
  ASSUME Engine = "legacy"
  PROVE  Spec => ImplementsLifecycle
  <1>1. Init => Lifecycle!Init
    BY DEF Init, Lifecycle!Init, Life, LifeOf
  <1>2. Init => ArrivalInvariant /\ NewestInvariant
    BY ArrivalInit DEF Init, NewestInvariant, Decided, Prepared
  <1>3. /\ LegacyInvariant /\ ArrivalInvariant /\ NewestInvariant /\ [Next]_vars
        => (ArrivalInvariant /\ NewestInvariant)'
    BY ArrivalStep, NewestStep DEF LegacyInvariant
  <1>4. /\ LegacyInvariant /\ ArrivalInvariant /\ NewestInvariant /\ [Next]_vars
        => [Lifecycle!Next]_(Lifecycle!vars)
    <2> SUFFICES ASSUME LegacyInvariant, ArrivalInvariant, NewestInvariant, [Next]_vars
                 PROVE  [Lifecycle!Next]_(Lifecycle!vars)
      OBVIOUS
    <2> USE DEF LegacyInvariant
    <2>1. ASSUME NEW p \in Processes, Handle(p) PROVE [Lifecycle!Next]_(Lifecycle!vars)
      BY <2>1, HandleLives
    <2>2. ASSUME UNCHANGED <<inbox, email, requests, mutated, retries>>
          PROVE  UNCHANGED Lifecycle!vars
      BY <2>2 DEF Life, Lifecycle!vars
    <2>3. ASSUME NEW p \in Processes, Poll(p) \/ Fail(p) PROVE UNCHANGED Lifecycle!vars
      BY <2>2, <2>3, PollEffect, LegacyFail DEF rows, effects
    <2>4. ASSUME NEW p \in Processes, NEW c \in Copies, RetryStored(p, c)
          PROVE  Lifecycle!Retry(c)
      <3>1. Life' = [Life EXCEPT ![c] = "open"]
        BY <2>4, LifeChanges DEF RetryStored, ProcessingStatus, LifeOf
      <3> QED
        BY <2>4, <3>1, LifeOfStatus DEF RetryStored, effects, Lifecycle!Retry
    <2>5. ASSUME NEW c \in Copies, Deliver(c) PROVE Lifecycle!Arrive(c)
      BY <2>5 DEF Deliver, rows, effects, Life, Lifecycle!Arrive
    <2>6. CASE LoseSession \/ UNCHANGED vars
      BY <2>2, <2>6 DEF LoseSession, vars, rows, effects
    <2> QED
      BY <2>1, <2>3, <2>4, <2>5, <2>6 DEF Next, Lifecycle!Next
  <1> QED
    BY <1>1, <1>2, <1>3, <1>4, LegacyInvariantHolds, PTL
    DEF Spec, ImplementsLifecycle, Lifecycle!Spec

-----------------------------------------------------------------------------
(* The pollers and their lease *)

\* An outage is not forgotten.
LEMMA OutagesStay ==
  ASSUME TypeOK, [Next]_vars, outages' = 0
  PROVE  outages = 0
  <1> USE DEF TypeOK, RowTypes, bounds
  <1>1. ASSUME NEW p \in Processes, Poll(p) PROVE outages' = outages
    BY <1>1 DEF Poll, Start, KeepaliveFails, FetchCandidates, Take, PollDone
  <1>2. ASSUME NEW p \in Processes, Handle(p) PROVE outages' = outages
    BY <1>2 DEF Handle, KnownLocator, StoreRaw, Quarantine, LookForCopy, ApplyParsed,
       Prepare, AnalysisEndsEarly, MaterializeAnalysis, VerifyAndDecide, PolicyAgrees,
       Release, Finalize, MarkFailed, Acknowledge
  <1>3. ASSUME NEW p \in Processes, Fail(p) PROVE outages' \in {outages, outages + 1}
    BY <1>3 DEF Fail, StageRaises, AgentTriesAgain, AgentGivesUp, AuditRaises,
       MarkFailedRaises, MarkSeenFails, Crash, Fault
  <1>4. CASE LoseSession \/ UNCHANGED vars \/ \E c \in Copies : Deliver(c)
    BY <1>4 DEF LoseSession, vars, Deliver
  <1>5. ASSUME NEW p \in Processes, NEW c \in Copies, RetryStored(p, c)
        PROVE  outages' = outages
    BY <1>5 DEF RetryStored
  <1> QED
    BY <1>1, <1>2, <1>3, <1>4, <1>5 DEF Next

\* The lease keeps everybody else out, as long as no session is lost.
LEMMA LeaseStep ==
  ASSUME Retriers = {}, TypeOK, LeaseInvariant, [Next]_vars, outages' = 0
  PROVE  LeaseInvariant'
  <1> USE PipelineAssumption DEF TypeOK, LeaseInvariant, LeaseTypes, HandlingTypes, Processes
  <1>1. ASSUME NEW p \in Processes, Poll(p) PROVE LeaseInvariant'
    BY <1>1 DEF Poll, Start, KeepaliveFails, FetchCandidates, Take, PollDone, At, Goto
  <1>2. ASSUME NEW p \in Processes, Handle(p) PROVE LeaseInvariant'
    <2>1. lease' = lease
      BY <1>2 DEF Handle, KnownLocator, StoreRaw, Quarantine, LookForCopy, ApplyParsed,
         Prepare, AnalysisEndsEarly, MaterializeAnalysis, VerifyAndDecide, PolicyAgrees,
         Release, Finalize, MarkFailed, Acknowledge
    <2>2. pc[p] # "stopped"
      BY <1>2, HandleKnowsRow DEF Acknowledge, KnownLocator, StoreRaw, At, Held, Stages, Ingress
    <2>3. ASSUME NEW q \in Processes, q # p PROVE pc'[q] = pc[q]
      <3>1. CASE Acknowledge(p)
        BY <2>3, <3>1 DEF Acknowledge, NextMail, Goto
      <3> QED
        BY <1>2, <2>3, <3>1, HandleKeepsMail
    <2> QED
      BY <2>1, <2>2, <2>3
  <1>3. ASSUME NEW p \in Processes, Fail(p) PROVE LeaseInvariant'
    <2>1. CASE StageRaises(p) \/ AgentTriesAgain(p) \/ AgentGivesUp(p) \/ AuditRaises(p)
               \/ MarkSeenFails(p)
      <3>1. lease' = lease
        BY <2>1 DEF StageRaises, AgentTriesAgain, AgentGivesUp, AuditRaises, MarkSeenFails
      <3>2. pc[p] # "stopped"
        <4>1. CASE AuditRaises(p)
          BY <4>1 DEF AuditRaises, FirstStage
        <4> QED
          BY <2>1, <4>1 DEF StageRaises, AgentTriesAgain, AgentGivesUp, MarkSeenFails, At,
             Stages, Ingress
      <3>3. ASSUME NEW q \in Processes, q # p PROVE pc'[q] = pc[q]
        <4>1. \/ NextMail(p) \/ Answer(p, "failed")
              \/ \E label \in {"failing", "releasing", FirstStage[Agent(pc[p])]} : Goto(p, label)
          BY <2>1, GivingUp DEF StageRaises, AgentTriesAgain, AuditRaises, MarkSeenFails
        <4> QED
          BY <3>3, <4>1 DEF NextMail, Answer, Goto
      <3> QED
        BY <3>1, <3>2, <3>3
    <2>2. CASE MarkFailedRaises(p)
      BY <2>2 DEF MarkFailedRaises, RowTypes
    <2>3. CASE Crash(p)
      BY <2>3 DEF Crash, At, Goto
    <2> QED
      BY <1>3, <2>1, <2>2, <2>3 DEF Fail
  <1>4. CASE LoseSession
    BY <1>4 DEF LoseSession, RowTypes
  <1>5. CASE UNCHANGED vars \/ \E c \in Copies : Deliver(c)
    BY <1>5 DEF vars, Deliver
  <1>6. ASSUME NEW p \in Processes, NEW c \in Copies, RetryStored(p, c) PROVE FALSE
    BY <1>6 DEF RetryStored
  <1> QED
    BY <1>1, <1>2, <1>3, <1>4, <1>5, <1>6 DEF Next

\* Handling a mail leaves one original of each message, and goes on with it.
LEMMA HandleCopies ==
  ASSUME TypeOK, NEW p \in Processes, Handle(p), ~Acknowledge(p), CopyRows, CopyPlace(p)
  PROVE  CopyRows' /\ CopyPlace(p)'
  <1> USE DEF TypeOK, RowTypes, HandlingTypes, At, Goto, rows, effects
  <1> DEFINE c == job[p].at
  <1>1. c \in Copies /\ job'[p].at = c
    BY HandleKeepsMail
  <1>2. \A d \in Copies : email[d] # "none" => email'[d] # "none"
    <2>1. [Next]_vars
      BY DEF Next
    <2> QED
      BY <2>1, RowsStay
  <1>3. ASSUME Original' = Original, requests' = requests, parsed' = parsed,
               duplicates' = duplicates
        PROVE  CopyRows'
    BY <1>2, <1>3 DEF CopyRows
  <1>4. ASSUME pc'[p] \notin {"parsing", "applying", "preparing"} \cup Prepared
        PROVE  CopyPlace(p)'
    BY <1>4 DEF CopyPlace
  <1>5. CASE KnownLocator(p) \/ Quarantine(p) \/ Finalize(p) \/ MarkFailed(p)
    BY <1>3, <1>4, <1>5 DEF KnownLocator, Quarantine, Finalize, MarkFailed, Settle, Answer,
       Original, Prepared
  <1>6. CASE StoreRaw(p)
    <2>1. c \notin parsed \cup duplicates /\ requests' = requests /\ parsed' = parsed
      BY <1>1, <1>6 DEF StoreRaw, CopyRows
    <2>2. Original' = Original /\ duplicates' \in {duplicates, duplicates \cup {c}}
      BY <1>6, <2>1 DEF StoreRaw, Original
    <2>3. CopyRows'
      BY <1>1, <1>2, <1>6, <2>1, <2>2 DEF CopyRows, StoreRaw, SetStatus
    <2>4. \/ pc'[p] = "parsing" /\ duplicates' = duplicates
          \/ pc'[p] = "answering"
      BY <1>6 DEF StoreRaw
    <2> QED
      BY <1>1, <2>1, <2>3, <2>4 DEF CopyPlace, Prepared
  <1>7. CASE LookForCopy(p)
    <2>1. job'[p].found = (CopyOf(c) \cap Original # {}) /\ pc'[p] = "applying"
      BY <1>7 DEF LookForCopy, Original, Jobs
    <2> QED
      BY <1>1, <1>3, <1>7, <2>1 DEF LookForCopy, CopyPlace, Original, Prepared
  <1>8. CASE ApplyParsed(p)
    <2>1. c \notin parsed \cup duplicates /\ requests' = requests /\ pc[p] = "applying"
      BY <1>8 DEF ApplyParsed, CopyPlace
    <2>2. \A d \in Copies : email'[d] = "none" => email[d] = "none" /\ d # c
      BY <1>1, <1>2, <1>8 DEF ApplyParsed, Settle, SetStatus
    <2>3. CASE job[p].found
      <3>1. /\ Original' = Original /\ parsed' = parsed \cup {c}
            /\ duplicates' = duplicates \cup {c} /\ pc'[p] = "answering"
        BY <1>8, <2>1, <2>3 DEF ApplyParsed, Original, Settle, Answer
      <3> QED
        BY <1>4, <2>1, <2>2, <3>1 DEF CopyRows, Prepared
    <2>4. CASE ~job[p].found
      <3>1. /\ Original' = Original \cup {c} /\ parsed' = parsed \cup {c}
            /\ duplicates' = duplicates /\ pc'[p] = "preparing"
        BY <1>8, <2>1, <2>4 DEF ApplyParsed, Original, Continue
      <3>2. CopyOf(c) \cap Original = {}
        BY <2>1, <2>4 DEF CopyPlace
      <3>3. \A d \in Copies : d \in Original' => CopyOf(d) \cap Original' = {}
        <4>1. ASSUME NEW d \in Copies, d \in Original, CopyOf(d) \cap Original = {}, d # c
              PROVE  CopyOf(d) \cap Original' = {}
          BY <3>1, <3>2, <4>1, PipelineAssumption DEF CopyOf
        <4>2. c \notin CopyOf(c) /\ CopyOf(c) \cap Original' = {}
          BY <3>1, <3>2 DEF CopyOf
        <4> QED
          BY <1>1, <3>1, <4>1, <4>2 DEF CopyRows
      <3> QED
        BY <1>1, <2>1, <2>2, <3>1, <3>3 DEF CopyRows, CopyPlace, Prepared
    <2> QED
      BY <2>3, <2>4
  <1>9. CASE Prepare(p)
    <2>1. /\ parsed' = parsed /\ duplicates' = duplicates /\ requests' = requests
          /\ pc[p] = "preparing" /\ pc'[p] \in {"answering", "analyzing"}
      BY <1>9 DEF Prepare, Settle, Answer
    <2> QED
      BY <1>1, <1>3, <2>1 DEF Original, CopyPlace, Prepared
  <1>10. CASE AnalysisEndsEarly(p) \/ MaterializeAnalysis(p)
    <2>1. /\ parsed' = parsed /\ duplicates' = duplicates
          /\ requests' \in {requests, [requests EXCEPT ![c] = @ + 1]}
          /\ pc[p] = "analyzing" /\ pc'[p] \in {"answering", "deciding"}
      BY <1>10 DEF AnalysisEndsEarly, MaterializeAnalysis, Settle, Answer
    <2>2. c \in Original
      BY <2>1 DEF CopyPlace, Prepared
    <2> QED
      BY <1>1, <1>2, <2>1, <2>2 DEF Original, CopyRows, CopyPlace, Prepared
  <1>11. CASE VerifyAndDecide(p) \/ PolicyAgrees(p) \/ Release(p)
    <2>1. /\ parsed' = parsed /\ duplicates' = duplicates /\ requests' = requests
          /\ pc[p] \in Prepared /\ pc'[p] \in {"checking", "releasing", "finalizing"}
      BY <1>11 DEF VerifyAndDecide, PolicyAgrees, Release, Continue, Prepared
    <2> QED
      BY <1>1, <1>3, <2>1 DEF Original, CopyPlace, Prepared
  <1> QED
    BY <1>5, <1>6, <1>7, <1>8, <1>9, <1>10, <1>11 DEF Handle

\* What raises or gives up leaves the rows, and the process has no mail, has
\* nothing more to do with it, or goes on from an earlier stage of its agent.
LEMMA FailCopies ==
  ASSUME TypeOK, NEW p \in Processes, Fail(p), CopyPlace(p)
  PROVE  UNCHANGED <<rows, effects>> /\ CopyPlace(p)'
  <1> USE DEF TypeOK, HandlingTypes, At, Goto, rows, effects
  <1>1. UNCHANGED <<rows, effects>>
    BY DEF Fail, StageRaises, AgentTriesAgain, AgentGivesUp, AuditRaises, MarkFailedRaises,
       MarkSeenFails, Crash
  <1>2. ASSUME pc'[p] \notin {"parsing", "applying", "preparing"} \cup Prepared
        PROVE  CopyPlace(p)'
    BY <1>2 DEF CopyPlace
  <1>3. ASSUME job'[p].at = job[p].at, pc[p] \in {"preparing"} \cup Prepared,
               pc'[p] \in {"preparing"} \cup Prepared
        PROVE  CopyPlace(p)'
    BY <1>1, <1>3 DEF CopyPlace, Original, Prepared
  <1>4. CASE AgentTriesAgain(p)
    <2>1. job'[p].at = job[p].at
      BY <1>4 DEF AgentTriesAgain, Jobs
    <2>2. \/ pc'[p] = "storing"
          \/ /\ pc[p] \in {"preparing"} \cup Prepared
             /\ pc'[p] \in {"preparing"} \cup Prepared
      BY <1>4 DEF AgentTriesAgain, Agent, FirstStage, Stages, Ingress, Prepared
    <2> QED
      BY <1>1, <1>2, <1>3, <2>1, <2>2 DEF Prepared
  <1>5. CASE AgentGivesUp(p)
    <2>1. CASE /\ job' = [job EXCEPT ![p].refused = TRUE, ![p].tries = 0]
               /\ Goto(p, "releasing") /\ pc[p] = "checking"
      <3>1. job'[p].at = job[p].at /\ pc'[p] = "releasing"
        BY <2>1 DEF Jobs
      <3> QED
        BY <1>1, <1>3, <2>1, <3>1 DEF Prepared
    <2>2. CASE NextMail(p) \/ Goto(p, "failing") \/ Answer(p, "failed")
      <3>1. pc'[p] \in {"polling", "stopped", "failing", "answering"}
        BY <2>2 DEF NextMail, Answer
      <3>2. pc'[p] \notin {"parsing", "applying", "preparing"} \cup Prepared
        <4> HIDE DEF TypeOK, HandlingTypes, At, Goto, rows, effects
        <4> QED
          BY <3>1 DEF Prepared
      <3> QED
        BY <1>1, <1>2, <3>2
    <2>3. \/ NextMail(p) \/ Goto(p, "failing") \/ Answer(p, "failed")
          \/ /\ job' = [job EXCEPT ![p].refused = TRUE, ![p].tries = 0]
             /\ Goto(p, "releasing") /\ pc[p] = "checking"
      <3> HIDE DEF Goto, TypeOK, HandlingTypes, At, rows, effects
      <3> QED
        BY <1>5, GivingUp
    <2> QED
      BY <2>1, <2>2, <2>3
  <1>6. CASE StageRaises(p) \/ AuditRaises(p) \/ MarkFailedRaises(p) \/ MarkSeenFails(p)
             \/ Crash(p)
    BY <1>1, <1>2, <1>6 DEF StageRaises, AuditRaises, MarkFailedRaises, MarkSeenFails, Crash,
       NextMail, Prepared
  <1> QED
    BY <1>1, <1>4, <1>5, <1>6 DEF Fail

\* A step of the only process that is not stopped leaves one original of each
\* message.
LEMMA CopyStep ==
  ASSUME Retriers = {}, TypeOK, LeaseInvariant, CopyInvariant, [Next]_vars, outages' = 0
  PROVE  CopyInvariant'
  <1> USE DEF CopyInvariant
  <1>1. ASSUME NEW p \in Processes, pc[p] # "stopped", NEW q \in Processes, q # p
        PROVE  pc[q] = "stopped"
    BY <1>1 DEF LeaseInvariant
  <1>2. ASSUME NEW p \in Processes, Handle(p), ~Acknowledge(p) PROVE CopyInvariant'
    <2>1. pc[p] # "stopped"
      BY <1>2, HandleKnowsRow DEF KnownLocator, StoreRaw, At, Held, Stages, Ingress
    <2>2. \A q \in Processes : q # p => CopyPlace(q)'
      BY <1>1, <1>2, <2>1, HandleKeepsMail DEF CopyPlace, Prepared
    <2> QED
      BY <1>2, <2>2, HandleCopies
  <1>3. ASSUME NEW p \in Processes, Acknowledge(p) PROVE CopyInvariant'
    <2>1. UNCHANGED <<rows, effects>> /\ NextMail(p)
      BY <1>3 DEF Acknowledge
    <2> QED
      BY <2>1, NextMailEffect
      DEF TypeOK, rows, effects, CopyRows, CopyPlace, Original, Prepared
  <1>4. ASSUME NEW p \in Processes, Fail(p) PROVE CopyInvariant'
    <2>1. pc[p] # "stopped"
      <3>1. CASE AuditRaises(p)
        BY <3>1 DEF AuditRaises, FirstStage
      <3> QED
        BY <1>4, <3>1 DEF Fail, StageRaises, AgentTriesAgain, AgentGivesUp,
           MarkFailedRaises, MarkSeenFails, Crash, At, Stages, Ingress
    <2>2. ASSUME NEW q \in Processes, q # p PROVE pc'[q] = "stopped"
      <3>1. \/ NextMail(p) \/ Answer(p, "failed") \/ Crash(p)
            \/ \E label \in {"failing", "releasing", FirstStage[Agent(pc[p])]} : Goto(p, label)
        BY <1>4, GivingUp DEF Fail, StageRaises, AgentTriesAgain, AuditRaises,
           MarkFailedRaises, MarkSeenFails
      <3>2. pc'[q] = pc[q]
        BY <2>2, <3>1 DEF NextMail, Answer, Crash, Goto, TypeOK, HandlingTypes
      <3> QED
        BY <1>1, <2>1, <2>2, <3>2
    <2>3. CopyPlace(p)' /\ UNCHANGED <<rows, effects>>
      BY <1>4, FailCopies
    <2>4. CopyRows'
      BY <2>3 DEF rows, effects, CopyRows, Original
    <2> QED
      BY <2>2, <2>3, <2>4 DEF CopyPlace, Prepared
  <1>5. ASSUME NEW p \in Processes, Poll(p) PROVE CopyInvariant'
    BY <1>5, PollEffect DEF rows, effects, CopyRows, CopyPlace, Original, Prepared
  <1>6. CASE LoseSession \/ UNCHANGED vars \/ \E c \in Copies : Deliver(c)
    BY <1>6 DEF LoseSession, vars, Deliver, rows, effects, CopyRows, CopyPlace, Original
  <1>7. ASSUME NEW p \in Processes, NEW c \in Copies, RetryStored(p, c) PROVE FALSE
    BY <1>7 DEF RetryStored
  <1> QED
    BY <1>2, <1>3, <1>4, <1>5, <1>6, <1>7 DEF Next, Handle

\* Where only pollers run, one of them is active, and one copy of each message
\* at most gets past the look-up, as long as no lease session is lost.
THEOREM PollerInvariantHolds ==
  ASSUME Retriers = {}
  PROVE  Spec => []PollerInvariant
  <1>1. Init => PollerInvariant
    BY TypeInit, StoredInit
    DEF Init, PollerInvariant, LeaseInvariant, CopyInvariant, CopyRows, CopyPlace, Original,
        Prepared
  <1>2. PollerInvariant /\ [Next]_vars => PollerInvariant'
    <2> SUFFICES ASSUME PollerInvariant, [Next]_vars PROVE PollerInvariant'
      OBVIOUS
    <2>1. TypeOK' /\ StoredInvariant'
      BY TypeStep, StoredStep DEF PollerInvariant
    <2>2. CASE outages' = 0
      <3>1. outages = 0
        BY <2>2, OutagesStay DEF PollerInvariant
      <3> QED
        BY <2>1, <2>2, <3>1, LeaseStep, CopyStep DEF PollerInvariant
    <2> QED
      BY <2>1, <2>2 DEF PollerInvariant
  <1> QED
    BY <1>1, <1>2, PTL DEF Spec

\* Two copies of one message do not both open a request, whatever crash
\* interrupts the handling of the first.
THEOREM OneCopyIsHandled ==
  ASSUME Retriers = {}
  PROVE  Spec => []OneCopyHandled
  <1>1. PollerInvariant => OneCopyHandled
    BY DEF PollerInvariant, TypeOK, RowTypes, CopyInvariant, CopyRows, OneCopyHandled, CopyOf
  <1> QED
    BY <1>1, PollerInvariantHolds, PTL
=============================================================================
