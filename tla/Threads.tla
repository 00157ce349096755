------------------------------ MODULE Threads ------------------------------
(***************************************************************************)
(* Which request a mail is about: correlate_email over the stored messages *)
(* (headers, visible references, subject and sender), and what _prepare,   *)
(* _materialize_analysis and _finalize store for the next mail to be       *)
(* correlated with: conversations, requests, questions and the outbound    *)
(* messages about them.                                                    *)
(*                                                                         *)
(* Mails may point anywhere: to any stored message or reference, of anyone.*)
(* Two workers may be in the middle of a mail each.  What is analysed and  *)
(* decided is left open as far as Judgement allows it.  A request has one  *)
(* operation, which waits for information, is scheduled or needs nothing   *)
(* more.                                                                   *)
(***************************************************************************)
EXTENDS Integers, Sequences, FiniteSets

CONSTANTS
  Customers, Subjects, Workers,
  MaxMails,          \* bound on inbound mails
  MaxSignals,        \* bound on what one mail points to
  MaxRounds          \* settings.max_clarification_rounds

VARIABLES
  messages,          \* stored messages: inbound mails, and outbound ones
  conversations,     \* their owner (primary_sender) and normalized subject
  requests,          \* with the customers whose mails wrote their operations
  questions,         \* clarifications: request, outbound message, open
  handling           \* the mail in a worker's hands: _Prepared and its work

threadVars == <<messages, conversations, requests, questions, handling>>

\* A number into one of the sequences; 0 is no row.
Rows(s) == 1..Len(s)

Idle == [stage |-> "idle", mail |-> 0, conversation |-> 0, request |-> 0,
         question |-> 0, strength |-> "new", ids |-> <<>>]

ThreadInit ==
  /\ messages = <<>> /\ conversations = <<>> /\ requests = <<>> /\ questions = <<>>
  /\ handling = [w \in Workers |-> Idle]
-----------------------------------------------------------------------------
(* Correlation *)

\* OPEN_REQUEST_STATUSES, open_for_conversation
OpenRequests(c) == {r \in Rows(requests) : requests[r].conversation = c /\ requests[r].open}

\* by_outbound_rfc_id: the open clarification whose question message i is.
QuestionAsked(i) == {q \in Rows(questions) : questions[q].message = i /\ questions[q].open}

Sole(S) == IF Cardinality(S) = 1 THEN S ELSE {}

\* Slip of RequestFor: the one open request of the conversation comes first.
OpenRequestFirst(i) ==
  IF Cardinality(OpenRequests(messages[i].conversation)) = 1 /\ messages[i].conversation # 0
    THEN OpenRequests(messages[i].conversation)
    ELSE IF messages[i].about # 0 THEN {messages[i].about} ELSE {}

\* _request_for_message, at most one.
RequestFor(i) ==
  LET m == messages[i]
      initiated == {r \in Rows(requests) : requests[r].by = i}
      inConversation == {r \in Rows(requests) : requests[r].conversation = m.conversation}
  IN IF QuestionAsked(i) # {} THEN {questions[q].request : q \in QuestionAsked(i)}
     ELSE IF m.about # 0 THEN {m.about}
     ELSE IF initiated # {} THEN initiated
     ELSE IF m.conversation = 0 THEN {}
     ELSE IF Sole(OpenRequests(m.conversation)) # {} THEN OpenRequests(m.conversation)
     ELSE Sole(inConversation)

\* Slip of SenderMismatch: a header is proof enough.
MarkerMismatch(header, markers, sender) ==
  \E r \in markers : conversations[requests[r].conversation].owner # sender

\* header_sender_mismatch, marker_sender_mismatch
SenderMismatch(header, markers, sender) ==
  \/ \E r \in markers : conversations[requests[r].conversation].owner # sender
  \/ \E i \in header : /\ messages[i].conversation # 0
                       /\ conversations[messages[i].conversation].owner # sender

Correlation(c, r, q, strength) ==
  [conversation |-> c, request |-> r, question |-> q, strength |-> strength]

\* next(iter(S), 0): any of them, or none.
AnyOf(S) == IF S = {} THEN {0} ELSE S

\* header_conversations
ConversationsOf(header) == {messages[i].conversation : i \in header} \ {0}
RequestsFor(header) == UNION {RequestFor(i) : i \in header}

\* conflicts: the header and the references in the text point to different things, or
\* to somebody else's.
Conflicting(header, markers, sender) ==
  LET convs == ConversationsOf(header)
      reqs == RequestsFor(header)
      markerConvs == {requests[r].conversation : r \in markers}
  IN \/ Cardinality(convs) > 1 \/ Cardinality(reqs) > 1 \/ Cardinality(markers) > 1
     \/ reqs # {} /\ markers # {} /\ reqs # markers
     \/ convs # {} /\ markerConvs # {} /\ convs # markerConvs
     \/ SenderMismatch(header, markers, sender)

\* Only the subject is left.  Several conversations with it, or several open requests in
\* the only one, are a conflict too.
SubjectCorrelations(sender, subject) ==
  LET candidates == {c \in Rows(conversations) : conversations[c].owner = sender
                                                /\ conversations[c].subject = subject}
  IN IF candidates = {} THEN {Correlation(0, 0, 0, "new")}
     ELSE IF Cardinality(candidates) > 1 THEN {Correlation(0, 0, 0, "conflict")}
     ELSE UNION {IF Cardinality(OpenRequests(c)) > 1 THEN {Correlation(c, 0, 0, "conflict")}
                 ELSE {Correlation(c, r, 0, "weak") : r \in AnyOf(OpenRequests(c))} :
                   c \in candidates}

\* correlate_email: the results it may return for a mail of a sender that replies to
\* message direct (if any), references refs and shows the references of markers.
Correlations(sender, subject, direct, refs, markers) ==
  LET header == IF direct # {} THEN direct ELSE refs
      convs == ConversationsOf(header)
      asked == UNION {QuestionAsked(i) : i \in header}
  IN IF Conflicting(header, markers, sender)
       THEN {Correlation(c, 0, 0, "conflict") :
               c \in AnyOf(IF convs # {} THEN convs
                           ELSE {requests[r].conversation : r \in markers})}
     ELSE IF header # {}
       THEN [conversation : AnyOf(convs), request : AnyOf(RequestsFor(header)),
             question : AnyOf(asked), strength : {"strong"}]
     ELSE IF markers # {}
       THEN {Correlation(requests[r].conversation, r, 0, "strong") : r \in markers}
     ELSE SubjectCorrelations(sender, subject)
-----------------------------------------------------------------------------
(* Storing *)

\* An inbound mail with what it pointed to and what it was taken for.
Inbound(sender, conversation, direct, marked, taken, question, strength) ==
  [direction |-> "in", sender |-> sender, conversation |-> conversation, about |-> 0,
   direct |-> direct, marked |-> marked, taken |-> taken, question |-> question,
   strength |-> strength]

\* create_outbound_message, and the mail of create_escalation: in the conversation of
\* the request or mail it is about.
Outbound(conversation, about) ==
  [Inbound("agent", conversation, {}, FALSE, 0, 0, "none") EXCEPT !.direction = "out",
                                                                 !.about = about]

Mails == Cardinality({i \in Rows(messages) : messages[i].direction = "in"})

\* A mail that is ignored, or escalated because its sender is not listed, has no
\* conversation; neither has the escalation.
Unhandled ==
  /\ Mails < MaxMails
  /\ \E escalated \in BOOLEAN :
       messages' = messages \o <<Inbound("somebody", 0, {}, FALSE, 0, 0, "none")>>
                   \o (IF escalated THEN <<Outbound(0, 0)>> ELSE <<>>)
  /\ UNCHANGED <<conversations, requests, questions, handling>>

\* _prepare: the mail is correlated and gets its conversation, a new one if there
\* is none; a conflict is escalated and goes no further.
PrepareMail(w) ==
  /\ handling[w].stage = "idle" /\ Mails < MaxMails
  /\ \E sender \in Customers, subject \in Subjects,
        direct \in {D \in SUBSET Rows(messages) : Cardinality(D) <= 1},
        refs \in {R \in SUBSET Rows(messages) : Cardinality(R) <= MaxSignals},
        markers \in {M \in SUBSET Rows(requests) : Cardinality(M) <= MaxSignals} :
       /\ Cardinality(direct) + Cardinality(refs) + Cardinality(markers) <= MaxSignals
       /\ \E found \in Correlations(sender, subject, direct, refs, markers) :
            LET c == IF found.conversation = 0 THEN Len(conversations) + 1
                     ELSE found.conversation
                mail == Inbound(sender, c, direct, markers # {}, found.request,
                                found.question, found.strength)
            IN /\ conversations' =
                    IF found.conversation # 0 THEN conversations
                    ELSE Append(conversations, [owner |-> sender, subject |-> subject])
               /\ IF found.strength = "conflict"
                    THEN /\ messages' = messages \o <<mail, Outbound(c, 0)>>
                         /\ handling' = handling
                    ELSE /\ messages' = Append(messages, mail)
                         /\ handling' = [handling EXCEPT ![w] =
                              [stage |-> "prepared", mail |-> Len(messages'),
                               conversation |-> c, request |-> found.request,
                               question |-> found.question, strength |-> found.strength,
                               ids |-> <<>>]]
  /\ UNCHANGED <<requests, questions>>
-----------------------------------------------------------------------------
(* What the mail changes *)

Sender(w) == messages[handling[w].mail].sender

\* _create_request, for the mail's conversation.
NewRequest(w, operation, escalated) ==
  [conversation |-> handling[w].conversation, by |-> handling[w].mail,
   open |-> ~escalated, operation |-> operation, writers |-> {Sender(w)}, notices |-> {},
   alarmed |-> escalated]

\* What may be decided: it is escalated, asked back or scheduled (or carried out).  A
\* weakly correlated mail is only ever escalated.
Decidable(w) ==
  IF handling[w].strength = "weak" THEN {"closed"} ELSE {"closed", "waiting", "scheduled"}

\* A decision to escalate writes a mail about the request.
Escalate(w, r, needed) ==
  messages' = IF needed THEN Append(messages, Outbound(handling[w].conversation, r))
              ELSE messages

To(w, stage, ids) ==
  handling' = [handling EXCEPT ![w] = IF stage = "idle" THEN Idle
                                      ELSE [@ EXCEPT !.stage = stage, !.ids = ids]]

\* An irrelevant mail that answers no question is ignored.
Ignore(w) ==
  /\ handling[w].stage = "prepared" /\ handling[w].question = 0
  /\ To(w, "idle", <<>>)
  /\ UNCHANGED <<messages, conversations, requests, questions>>

\* The reply to a question, also to one that was answered since _prepare: it writes
\* the stored operation, or leaves it as it is.
Answered(w, r, operation, written) ==
  [requests EXCEPT ![r].writers = @ \cup (IF written THEN {Sender(w)} ELSE {}),
                   ![r].operation = operation]

AnswerQuestion(w) ==
  LET r == questions[handling[w].question].request
  IN /\ handling[w].stage = "prepared" /\ handling[w].question # 0
     /\ \E operation \in Decidable(w) \cup {requests[r].operation} :
          /\ requests' = Answered(w, r, operation, TRUE)
          /\ Escalate(w, r, operation = "closed")
     /\ To(w, "decided", <<r>>)
     /\ UNCHANGED <<conversations, questions>>

\* Further proposals of the reply open a request of their own.
AnswerAndMore(w) ==
  LET r == questions[handling[w].question].request
  IN /\ handling[w].stage = "prepared" /\ handling[w].question # 0
     /\ \E matched \in BOOLEAN, operation, new \in Decidable(w) :
          /\ matched \/ operation = requests[r].operation
          /\ requests' = Append(Answered(w, r, operation, matched), NewRequest(w, new, FALSE))
          /\ Escalate(w, IF new = "closed" THEN Len(requests') ELSE r,
                      new = "closed" \/ (matched /\ operation = "closed"))
     /\ To(w, "decided", <<r, Len(requests')>>)
     /\ UNCHANGED <<conversations, questions>>

\* A correction of the request that the mail is about is reviewed.
Correct(w) ==
  LET r == handling[w].request
  IN /\ handling[w].stage = "prepared" /\ handling[w].question = 0 /\ r # 0
     /\ requests' = Answered(w, r, "closed", TRUE)
     /\ Escalate(w, r, TRUE) /\ To(w, "decided", <<r>>)
     /\ UNCHANGED <<conversations, questions>>

\* Anything else is a request of its own, in the same conversation.
OpenRequest(w) ==
  /\ handling[w].stage = "prepared" /\ handling[w].question = 0
  /\ \E operation \in Decidable(w) :
       /\ requests' = Append(requests, NewRequest(w, operation, FALSE))
       /\ Escalate(w, Len(requests'), operation = "closed")
  /\ To(w, "decided", <<Len(requests')>>)
  /\ UNCHANGED <<conversations, questions>>

\* Without an operation to decide about, the request is escalated at once: the
\* question's, the corrected one, or one made for it.
NothingSeparable(w) ==
  LET r == IF handling[w].question # 0 THEN questions[handling[w].question].request
           ELSE handling[w].request
  IN /\ handling[w].stage = "prepared"
     /\ \/ /\ r # 0
           /\ requests' = [requests EXCEPT ![r].open = FALSE, ![r].alarmed = TRUE]
           /\ messages' = Append(messages, Outbound(handling[w].conversation, r))
        \/ /\ handling[w].question = 0
           /\ requests' = Append(requests, NewRequest(w, "closed", TRUE))
           /\ messages' = Append(messages, Outbound(handling[w].conversation, Len(requests')))
     /\ To(w, "idle", <<>>)
     /\ UNCHANGED <<conversations, questions>>

\* Any exception: _mark_failed escalates the mail, with the request it was
\* correlated with.
FailMail(w) ==
  /\ handling[w].stage # "idle"
  /\ messages' = Append(messages, Outbound(handling[w].conversation, handling[w].request))
  /\ requests' = [r \in Rows(requests) |->
                    IF r = handling[w].request \/ \E n \in Rows(handling[w].ids) :
                                                    handling[w].ids[n] = r
                      THEN [requests[r] EXCEPT !.alarmed = TRUE] ELSE requests[r]]
  /\ To(w, "idle", <<>>)
  /\ UNCHANGED <<conversations, questions>>
-----------------------------------------------------------------------------
(* _finalize, one request after the other, of a store [messages, requests, questions] *)

\* Slip of OpenQuestions: those of the whole conversation.
ConversationQuestions(s, r) ==
  {q \in Rows(s.questions) :
     /\ s.requests[s.questions[q].request].conversation = s.requests[r].conversation
     /\ s.questions[q].open}

\* ClarificationRepository.open_for_request
OpenQuestions(s, r) ==
  {q \in Rows(s.questions) : s.questions[q].request = r /\ s.questions[q].open}

\* The reply is incomplete and the rounds are used up.
RoundsUsed(s, r, q) ==
  q # 0 /\ \E x \in OpenQuestions(s, r) : s.questions[x].round >= MaxRounds

Close(s, q) == IF q = 0 THEN s ELSE [s EXCEPT !.questions[q].open = FALSE]

GiveUp(s, r, q) ==
  [Close(s, q) EXCEPT !.requests[r].operation = "closed", !.requests[r].alarmed = TRUE,
                      !.messages = Append(@, Outbound(s.requests[r].conversation, r))]

\* ensure_clarification: an open question stands as it is.
AskBack(s, r) ==
  IF OpenQuestions(s, r) # {} THEN s
  ELSE [s EXCEPT
          !.messages = Append(@, Outbound(s.requests[r].conversation, r)),
          !.questions = Append(@, [request |-> r, message |-> Len(s.messages) + 1, open |-> TRUE,
                                   round |-> 1 + Cardinality({x \in Rows(@) : @[x].request = r})])]

\* ensure_pending_execution_acknowledgement, ensure_terminal_summary: once each.
Notify(s, r, notice) ==
  IF notice = "none" \/ notice \in s.requests[r].notices THEN s
  ELSE [s EXCEPT !.messages = Append(@, Outbound(s.requests[r].conversation, r)),
                 !.requests[r].notices = @ \cup {notice}]

\* One turn of the loop.
FinalizeOne(s, r, q) ==
  LET waiting == s.requests[r].operation = "waiting"
      asked == IF ~waiting THEN s
               ELSE IF RoundsUsed(s, r, q) THEN GiveUp(s, r, q) ELSE AskBack(s, r)
      operation == asked.requests[r].operation
      refreshed == [asked EXCEPT !.requests[r].open = operation # "closed"]
      resolved == IF waiting THEN refreshed ELSE Close(refreshed, q)
  IN Notify(resolved, r, CASE operation = "waiting" -> "none"
                           [] operation = "scheduled" -> "acknowledged"
                           [] OTHER -> "summarised")

FinalizeMail(w) ==
  /\ handling[w].stage = "decided"
  /\ LET h == handling[w]
         s0 == [messages |-> messages, requests |-> requests, questions |-> questions]
         s1 == FinalizeOne(s0, h.ids[1], h.question)
         s2 == IF Len(h.ids) = 1 THEN s1 ELSE FinalizeOne(s1, h.ids[2], h.question)
     IN messages' = s2.messages /\ requests' = s2.requests /\ questions' = s2.questions
  /\ To(w, "idle", <<>>)
  /\ UNCHANGED conversations

\* The dispatcher has carried out the operations that were scheduled.
Settle(r) ==
  /\ requests[r].operation = "scheduled" /\ "acknowledged" \in requests[r].notices
  /\ LET s == Notify([messages |-> messages, requests |-> requests, questions |-> questions],
                     r, "summarised")
     IN /\ messages' = s.messages /\ requests' = [s.requests EXCEPT ![r].open = FALSE,
                                                                  ![r].operation = "closed"]
  /\ UNCHANGED <<conversations, questions, handling>>

ThreadNext ==
  \/ Unhandled
  \/ \E r \in Rows(requests) : Settle(r)
  \/ \E w \in Workers :
       \/ PrepareMail(w) \/ Ignore(w) \/ AnswerQuestion(w) \/ AnswerAndMore(w) \/ Correct(w)
       \/ OpenRequest(w) \/ NothingSeparable(w) \/ FailMail(w) \/ FinalizeMail(w)

ThreadSpec == ThreadInit /\ [][ThreadNext]_threadVars
-----------------------------------------------------------------------------
(* Properties *)

\* The operations of a request are written only on the word of the customer who owns
\* its conversation, whatever message or reference a mail points to: headers, visible
\* references and subjects of somebody else lead to a review.
OwnersWrite ==
  \A r \in Rows(requests) : requests[r].writers = {conversations[requests[r].conversation].owner}

\* A mail that replies to a message about a request, and shows no other reference, is
\* taken for that request or reviewed, however many requests its conversation has by
\* then and whatever else its References header lists.
AnswersFindTheirRequest ==
  \A i \in Rows(messages) : \A d \in messages[i].direct :
    /\ ~messages[i].marked /\ messages[i].strength # "conflict" /\ messages[d].about # 0
    => /\ messages[i].strength = "strong" /\ messages[i].taken = messages[d].about
       /\ messages[i].conversation = requests[messages[d].about].conversation

\* A request does not wait in silence: when nobody works on it, somebody was asked by a
\* question that is still open, so that the answer is recognised, or a person was
\* alerted.
WaitingIsAsked ==
  \A r \in Rows(requests) :
    /\ requests[r].operation = "waiting"
    /\ \A w \in Workers : r \notin {handling[w].ids[n] : n \in Rows(handling[w].ids)}
    => requests[r].alarmed
       \/ \E q \in Rows(questions) : questions[q].request = r /\ questions[q].open
=============================================================================
