---------------------------- MODULE OutboxProofs ----------------------------
(***************************************************************************)
(* The invariant of Outbox for any number of messages, senders and         *)
(* retries, and what follows from it about what the rows claim and how     *)
(* often a message arrives.                                                *)
(***************************************************************************)
EXTENDS OutboxInvariant, TLAPS

\* No call is told apart from every call.
LEMMA NoCallType == NoCall \notin Calls /\ NoCall.message = NoMessage /\ NoCall.answer = "none"
  BY DEF NoCall, Calls

\* A sender that is between its call and its commit has a message.
LEMMA CallType ==
  ASSUME TypeOK, NEW s \in Senders
  PROVE  /\ call[s] # NoCall => call[s] \in Calls
         /\ call[s].answer # "none" => call[s] \in Calls
         /\ call[s].message \in Messages => call[s] \in Calls
  BY NoCallType, OutboxAssumption DEF TypeOK

\* An empty outbox has the right types.
LEMMA TypeInit == OutboxInit => TypeOK
  BY OutboxAssumption DEF OutboxInit, TypeOK

\* A step keeps the types.
LEMMA TypeStep ==
  ASSUME TypeOK, [OutboxNext]_outboxVars
  PROVE  TypeOK'
  <1> USE OutboxAssumption DEF TypeOK, rows, mail
  <1>1. ASSUME NEW m \in Messages, Queue(m) \/ Reply(m) PROVE TypeOK'
    BY <1>1 DEF Queue, Reply
  <1>2. ASSUME NEW s \in Senders, Select(s) \/ Skip(s) \/ Crash(s) PROVE TypeOK'
    BY <1>2 DEF Select, Skip, Crash, Pending
  <1>3. ASSUME NEW s \in Senders, Send(s) PROVE TypeOK'
    <2>1. PICK m \in Messages, a \in Answers :
            /\ ids' = [ids EXCEPT ![s] = @ \ {m}]
            /\ delivered' = [delivered EXCEPT ![m] = @ + a.arrived]
            /\ lost' = [lost EXCEPT ![m] = IF a \in LostAnswers THEN @ + 1 ELSE @]
            /\ call' = [call EXCEPT ![s] = [message |-> m, read |-> retry_count[m],
                                            answer |-> a.answer]]
      BY <1>3 DEF Send
    <2>2. a.arrived \in {0, 1} /\ a.answer \in {"accepted", "transient", "rejected"}
      BY DEF Answers, LostAnswers
    <2>3. [message |-> m, read |-> retry_count[m], answer |-> a.answer] \in Calls
      BY <2>2 DEF Calls
    <2> QED
      BY <1>3, <2>1, <2>2, <2>3 DEF Send
  <1>4. ASSUME NEW s \in Senders, RecordSent(s) PROVE TypeOK'
    BY <1>4 DEF RecordSent
  <1>5. ASSUME NEW s \in Senders, RecordFailure(s) PROVE TypeOK'
    <2>1. call[s].read \in Nat
      BY <1>5, CallType DEF RecordFailure, Calls
    <2>2. retry_count' \in [Messages -> Nat]
      <3>1. retry_count' = [retry_count EXCEPT ![RowOf(s)] = call[s].read + 1]
        BY <1>5 DEF RecordFailure, Counted
      <3>2. call[s].read + 1 \in Nat
        BY <2>1
      <3> QED
        BY <3>1, <3>2
    <2>3. outbox' \in [Messages -> {"none", "pending", "sent", "failed"}]
      BY <1>5 DEF RecordFailure
    <2>4. call' \in [Senders -> Calls \cup {NoCall}]
      BY <1>5 DEF RecordFailure
    <2> QED
      BY <1>5, <2>2, <2>3, <2>4 DEF RecordFailure
  <1>6. CASE UNCHANGED outboxVars
    BY <1>6 DEF outboxVars
  <1> QED
    BY <1>1, <1>2, <1>3, <1>4, <1>5, <1>6 DEF OutboxNext, Work
-----------------------------------------------------------------------------
\* A step of any sender leaves what the rows say true, and no count too high.
LEMMA CallStep ==
  ASSUME TypeOK, CallInvariant, [OutboxNext]_outboxVars
  PROVE  CallInvariant'
  <1> USE OutboxAssumption, NoCallType
      DEF TypeOK, CallInvariant, SaysDelivered, WaitingHasRetry, Accepted, rows, mail
  <1>1. ASSUME NEW m \in Messages, Queue(m) \/ Reply(m) PROVE CallInvariant'
    <2>1. CASE Reply(m)
      BY <1>1, <2>1 DEF Reply
    <2>2. CASE Queue(m)
      BY <1>1, <2>2 DEF Queue
    <2> QED
      BY <1>1, <2>1, <2>2
  <1>2. ASSUME NEW s \in Senders, Select(s) \/ Skip(s) \/ Crash(s) PROVE CallInvariant'
    BY <1>2 DEF Select, Skip, Crash
  <1>3. ASSUME NEW s \in Senders, Send(s) PROVE CallInvariant'
    <2>1. PICK m \in Messages, a \in Answers :
            /\ outbox[m] = "pending"
            /\ delivered' = [delivered EXCEPT ![m] = @ + a.arrived]
            /\ call' = [call EXCEPT ![s] = [message |-> m, read |-> retry_count[m],
                                            answer |-> a.answer]]
      BY <1>3 DEF Send, Waits
    <2>2. a.arrived \in {0, 1} /\ (a.answer = "accepted" => a.arrived = 1)
      BY DEF Answers, LostAnswers
    <2>3. \A n \in Messages : delivered[n] > 0 => delivered'[n] > 0
      BY <2>1, <2>2
    <2>4. ASSUME NEW r \in Senders, call'[r] # NoCall
          PROVE  /\ Accepted(r)' => delivered'[call'[r].message] > 0
                 /\ call'[r].read < SendRetries
                 /\ outbox'[call'[r].message] # "none"
      <3>1. CASE r = s
        BY <1>3, <2>1, <2>2, <3>1 DEF Send
      <3>2. CASE r # s
        BY <1>3, <2>1, <2>3, <2>4, <3>2, CallType DEF Calls, Send
      <3> QED
        BY <3>1, <3>2
    <2> QED
      BY <1>3, <2>3, <2>4 DEF Send
  <1>4. ASSUME NEW s \in Senders, RecordSent(s) PROVE CallInvariant'
    <2>1. call[s].message \in Messages /\ call[s] # NoCall
      BY <1>4, CallType DEF RecordSent, Calls
    <2>2. delivered[call[s].message] > 0
      BY <1>4, <2>1 DEF RecordSent
    <2> QED
      BY <1>4, <2>1, <2>2 DEF RecordSent, RowOf
  <1>5. ASSUME NEW s \in Senders, RecordFailure(s) PROVE CallInvariant'
    <2>1. call[s].message \in Messages /\ call[s] # NoCall /\ call[s].read \in Nat
      BY <1>5, CallType DEF RecordFailure, Calls
    <2> QED
      BY <1>5, <2>1 DEF RecordFailure, RowOf, Exhausted, Counted
  <1>6. CASE UNCHANGED outboxVars
    BY <1>6 DEF outboxVars
  <1> QED
    BY <1>1, <1>2, <1>3, <1>4, <1>5, <1>6 DEF OutboxNext, Work

\* Nothing is claimed of an empty outbox.
LEMMA CallInit == OutboxInit => CallInvariant
  BY OutboxAssumption DEF OutboxInit, CallInvariant, SaysDelivered, WaitingHasRetry

\* Type correctness of the outbox.
THEOREM OutboxTypes == OutboxSpec => []TypeOK
  <1> QED
    BY TypeInit, TypeStep, PTL DEF OutboxSpec

\* For any number of senders, what the rows say was delivered was delivered.
THEOREM RowsSayDelivered == OutboxSpec => []SaysDelivered
  <1>1. CallInvariant => SaysDelivered
    BY DEF CallInvariant
  <1> QED
    BY <1>1, CallInit, CallStep, OutboxTypes, PTL DEF OutboxSpec

\* For any number of senders, a message that waits has a retry left.
THEOREM WaitingMessagesHaveRetries == OutboxSpec => []WaitingHasRetry
  <1>1. CallInvariant => WaitingHasRetry
    BY DEF CallInvariant
  <1> QED
    BY <1>1, CallInit, CallStep, OutboxTypes, PTL DEF OutboxSpec
-----------------------------------------------------------------------------
(* One sender *)

\* A step of the only sender sends what waits, and explains each delivery.
LEMMA AloneStep ==
  ASSUME SenderAlone, TypeOK, AloneInvariant, [OutboxNext]_outboxVars
  PROVE  AloneInvariant'
  <1> USE OutboxAssumption, NoCallType
      DEF TypeOK, AloneInvariant, SenderAlone, Calling, Accepted, rows, mail
  <1>1. ASSUME NEW m \in Messages, Queue(m) \/ Reply(m) PROVE AloneInvariant'
    BY <1>1 DEF Queue, Reply
  <1>2. ASSUME NEW s \in Senders, Select(s) \/ Skip(s) PROVE AloneInvariant'
    BY <1>2 DEF Select, Skip, Free, Pending
  <1>3. ASSUME NEW s \in Senders, Crash(s) PROVE AloneInvariant'
    <2>1. /\ crashes' = crashes + 1 /\ ids'[s] = {} /\ call'[s] = NoCall
          /\ UNCHANGED <<outbox, delivered, lost>>
      BY <1>3 DEF Crash
    <2>2. \A r \in Senders : r = s
      OBVIOUS
    <2> QED
      BY <2>1, <2>2
  <1>4. ASSUME NEW s \in Senders, Send(s) PROVE AloneInvariant'
    <2>1. PICK m \in Messages, a \in Answers :
            /\ outbox[m] = "pending" /\ call[s] = NoCall
            /\ ids' = [ids EXCEPT ![s] = @ \ {m}]
            /\ delivered' = [delivered EXCEPT ![m] = @ + a.arrived]
            /\ lost' = [lost EXCEPT ![m] = IF a \in LostAnswers THEN @ + 1 ELSE @]
            /\ call' = [call EXCEPT ![s] = [message |-> m, read |-> retry_count[m],
                                            answer |-> a.answer]]
            /\ outbox' = outbox /\ crashes' = crashes
      BY <1>4 DEF Send, Waits
    <2>2. /\ a.arrived = IF a \in LostAnswers \/ a.answer = "accepted" THEN 1 ELSE 0
          /\ ~(a \in LostAnswers /\ a.answer = "accepted")
      BY DEF Answers, LostAnswers
    <2>3. \A r \in Senders : r = s
      OBVIOUS
    <2>4. \A n \in Messages : n # m => /\ ~Calling(s, n)' /\ ~Calling(s, n)
                                     /\ delivered'[n] = delivered[n] /\ lost'[n] = lost[n]
      BY <2>1
    <2>5. Calling(s, m)' /\ ~Calling(s, m) /\ (Accepted(s)' <=> a.answer = "accepted")
      BY <2>1
    <2>6. delivered[m] <= lost[m] + crashes
      BY <2>1, <2>3, <2>5
    <2>7. delivered'[m] = delivered[m] + a.arrived
          /\ lost'[m] = lost[m] + IF a \in LostAnswers THEN 1 ELSE 0
      BY <2>1
    <2>8. delivered'[m] <= lost'[m] + crashes' + IF a.answer = "accepted" THEN 1 ELSE 0
      <3>1. CASE a \in LostAnswers
        BY <2>1, <2>2, <2>6, <2>7, <3>1
      <3>2. CASE a \notin LostAnswers
        BY <2>1, <2>2, <2>6, <2>7, <3>2
      <3> QED
        BY <3>1, <3>2
    <2> QED
      BY <2>1, <2>3, <2>4, <2>5, <2>8
  <1>5. ASSUME NEW s \in Senders, RecordSent(s) PROVE AloneInvariant'
    <2>1. call[s].message \in Messages
      BY <1>5, CallType DEF RecordSent, Calls
    <2>2. \A r \in Senders : r = s
      OBVIOUS
    <2> QED
      BY <1>5, <2>1, <2>2 DEF RecordSent, RowOf
  <1>6. ASSUME NEW s \in Senders, RecordFailure(s) PROVE AloneInvariant'
    <2>1. call[s].message \in Messages /\ ~Accepted(s)
      BY <1>6, CallType DEF RecordFailure, Calls
    <2>2. \A r \in Senders : r = s
      OBVIOUS
    <2>3. \A m \in Messages : m # call[s].message => outbox'[m] = outbox[m]
      BY <1>6 DEF RecordFailure, RowOf
    <2>4. outbox[call[s].message] = "pending" /\ call[s].message \notin ids[s]
      BY <2>1
    <2>5. outbox'[call[s].message] \in {"pending", "failed"}
      BY <1>6, <2>1, <2>4 DEF RecordFailure, RowOf
    <2>6. ids' = ids /\ call'[s] = NoCall /\ UNCHANGED <<delivered, lost, crashes>>
      BY <1>6 DEF RecordFailure
    <2> QED
      BY <2>1, <2>2, <2>3, <2>4, <2>5, <2>6
  <1>7. CASE UNCHANGED outboxVars
    BY <1>7 DEF outboxVars
  <1> QED
    BY <1>1, <1>2, <1>3, <1>4, <1>5, <1>6, <1>7 DEF OutboxNext, Work

\* The invariant of the outbox, with its part for one sender.
THEOREM OutboxInvHolds == OutboxSpec => []OutboxInv
  <1>1. OutboxInit => OutboxInv
    BY TypeInit, CallInit, OutboxAssumption, NoCallType
    DEF OutboxInit, OutboxInv, AloneInvariant, Calling
  <1>2. OutboxInv /\ [OutboxNext]_outboxVars => OutboxInv'
    BY TypeStep, CallStep, AloneStep DEF OutboxInv, SenderAlone
  <1> QED
    BY <1>1, <1>2, PTL DEF OutboxSpec

\* With one sender every delivery beyond the first has a lost answer or an
\* interrupted transaction behind it.
THEOREM DeliveriesAreExplained == OutboxSpec => []DeliveriesExplained
  <1>1. OutboxInv => DeliveriesExplained
    BY DEF OutboxInv, TypeOK, AloneInvariant, DeliveriesExplained
  <1> QED
    BY <1>1, OutboxInvHolds, PTL

\* With one sender that is not interrupted, only a lost answer lets a message
\* arrive that was given up.
THEOREM FailedMessagesDidNotArrive == OutboxSpec => []FailedDidNotArrive
  <1>1. OutboxInv => FailedDidNotArrive
    BY DEF OutboxInv, TypeOK, AloneInvariant, FailedDidNotArrive
  <1> QED
    BY <1>1, OutboxInvHolds, PTL
=============================================================================
