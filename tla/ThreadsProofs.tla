--------------------------- MODULE ThreadsProofs ---------------------------
(***************************************************************************)
(* The operations of a request are written only on the word of its owner,  *)
(* for any number of customers, mails, references and workers.             *)
(*                                                                         *)
(* Messages, requests and questions agree on the conversation they belong  *)
(* to, and a correlation that is not a conflict stays within one           *)
(* conversation of the sender.  Rows are added and their conversations     *)
(* never change, so what a worker found in _prepare is still so when it    *)
(* writes.                                                                 *)
(***************************************************************************)
EXTENDS Threads, SequenceTheorems, FiniteSetTheorems, TLAPS

Message ==
  [direction : {"in", "out"}, sender : Customers \cup {"somebody", "agent"},
   conversation : Nat, about : Nat, direct : SUBSET Nat, marked : BOOLEAN, taken : Nat,
   question : Nat, strength : {"none", "new", "weak", "strong", "conflict"}]

ConversationRow == [owner : Customers, subject : Subjects]

Request ==
  [conversation : Nat, by : Nat, open : BOOLEAN, operation : {"closed", "waiting", "scheduled"},
   writers : SUBSET Customers, notices : SUBSET {"acknowledged", "summarised"},
   alarmed : BOOLEAN]

Question == [request : Nat, message : Nat, open : BOOLEAN, round : Nat]

\* The rows a mail changes, as _finalize passes them on.
StoreType == [messages : Seq(Message), requests : Seq(Request), questions : Seq(Question)]

Store == [messages |-> messages, requests |-> requests, questions |-> questions]

\* A mail that only replies to a message about a request was taken for it, or reviewed.
Answers(m, rows) ==
  \A d \in m.direct :
    /\ d \in Rows(rows)
    /\ ~m.marked /\ m.strength # "conflict" /\ rows[d].about # 0
       => /\ m.strength = "strong" /\ m.taken = rows[d].about
          /\ m.conversation = rows[d].conversation

\* A message may be of conversation c and about request r.
Placed(m, s, C) ==
  /\ m.conversation \in 0..Len(C) /\ Answers(m, s.messages)
  /\ m.about # 0 => /\ m.about \in Rows(s.requests)
                    /\ s.requests[m.about].conversation = m.conversation

Owned(x, s, C) ==
  /\ x.conversation \in Rows(C) /\ x.writers = {C[x.conversation].owner}
  /\ x.by \in Rows(s.messages) /\ s.messages[x.by].conversation = x.conversation

About(x, s) ==
  /\ x.request \in Rows(s.requests) /\ x.message \in Rows(s.messages)
  /\ s.messages[x.message].conversation = s.requests[x.request].conversation
  /\ s.messages[x.message].about = x.request

Consistent(s, C) ==
  /\ \A i \in Rows(s.messages) : Placed(s.messages[i], s, C)
  /\ \A r \in Rows(s.requests) : Owned(s.requests[r], s, C)
  /\ \A q \in Rows(s.questions) : About(s.questions[q], s)

\* Rows stay where they are.
Grows(s, t) ==
  /\ Len(s.messages) <= Len(t.messages)
  /\ \A i \in Rows(s.messages) : t.messages[i] = s.messages[i]
  /\ Len(s.requests) <= Len(t.requests)
  /\ \A r \in Rows(s.requests) : /\ t.requests[r].conversation = s.requests[r].conversation
                                 /\ t.requests[r].by = s.requests[r].by
  /\ Len(s.questions) <= Len(t.questions)
  /\ \A q \in Rows(s.questions) : t.questions[q].request = s.questions[q].request

Kept(s, t, C) == t \in StoreType /\ Consistent(t, C) /\ Grows(s, t)

\* What a worker holds of a mail belongs to one conversation, of the mail's sender.
Held(h, s, C) ==
  h.stage # "idle" =>
    /\ h.mail \in Rows(s.messages) /\ h.conversation \in Rows(C)
    /\ s.messages[h.mail].conversation = h.conversation
    /\ C[h.conversation].owner = s.messages[h.mail].sender
    /\ h.request # 0 => /\ h.request \in Rows(s.requests)
                        /\ s.requests[h.request].conversation = h.conversation
    /\ h.question # 0 =>
         /\ h.question \in Rows(s.questions)
         /\ s.requests[s.questions[h.question].request].conversation = h.conversation
    /\ \A n \in Rows(h.ids) : h.ids[n] \in Rows(s.requests)
    /\ h.stage = "decided" => Len(h.ids) \in 1..2

Handling ==
  [stage : {"idle", "prepared", "decided"}, mail : Nat, conversation : Nat, request : Nat,
   question : Nat, strength : {"new", "weak", "strong"}, ids : Seq(Nat)]

ThreadsInvariant ==
  /\ conversations \in Seq(ConversationRow) /\ Store \in StoreType
  /\ handling \in [Workers -> Handling]
  /\ Consistent(Store, conversations)
  /\ \A w \in Workers : Held(handling[w], Store, conversations)
-----------------------------------------------------------------------------
(* What may be done to the rows *)

\* Nothing need be done.
LEMMA KeptReflexive ==
  ASSUME NEW C, NEW s \in StoreType, Consistent(s, C)
  PROVE  Kept(s, s, C)
  BY DEF Kept, Grows, StoreType

\* One change may follow another.
LEMMA KeptTransitive ==
  ASSUME NEW C, NEW s \in StoreType, NEW t, NEW u, Kept(s, t, C), Kept(t, u, C)
  PROVE  Kept(s, u, C)
  BY DEF Kept, Grows, StoreType, Rows

\* What a mail answers stays where it is.
LEMMA StillAnswers ==
  ASSUME NEW m, NEW rows, NEW more, Answers(m, rows),
         \A i \in Rows(rows) : i \in Rows(more) /\ more[i] = rows[i]
  PROVE  Answers(m, more)
  BY DEF Answers

\* A message about a request is of the request's conversation.
LEMMA AddMessage ==
  ASSUME NEW C \in Seq(ConversationRow), NEW s \in StoreType, Consistent(s, C),
         NEW m \in Message, Placed(m, s, C)
  PROVE  Kept(s, [s EXCEPT !.messages = Append(@, m)], C)
<1> DEFINE t == [s EXCEPT !.messages = Append(@, m)]
<1>1. /\ Append(s.messages, m) \in Seq(Message)
      /\ Len(Append(s.messages, m)) = Len(s.messages) + 1
      /\ \A i \in Rows(s.messages) : Append(s.messages, m)[i] = s.messages[i]
      /\ Append(s.messages, m)[Len(s.messages) + 1] = m
  BY AppendProperties DEF StoreType, Rows
<1>2. t \in StoreType /\ t.requests = s.requests /\ t.questions = s.questions
      /\ t.messages = Append(s.messages, m)
  BY <1>1 DEF StoreType
<1>3. /\ Rows(t.messages) = Rows(s.messages) \cup {Len(s.messages) + 1}
      /\ \A i \in Rows(s.messages) : t.messages[i] = s.messages[i]
      /\ t.messages[Len(s.messages) + 1] = m
      /\ Len(s.messages) <= Len(t.messages)
  BY <1>1, <1>2 DEF StoreType, Rows
<1> HIDE DEF t
<1>4. \A n \in Rows(t.messages) : Placed(t.messages[n], t, C)
  <2> SUFFICES ASSUME NEW n \in Rows(t.messages) PROVE Placed(t.messages[n], t, C)
    OBVIOUS
  <2>1. Placed(t.messages[n], s, C)
    BY <1>3 DEF Consistent
  <2>2. Answers(t.messages[n], t.messages)
    BY <1>3, <2>1, StillAnswers DEF Placed
  <2> QED
    BY <1>2, <2>1, <2>2 DEF Placed
<1>5. \A n \in Rows(t.requests) : Owned(t.requests[n], t, C)
  <2> SUFFICES ASSUME NEW n \in Rows(t.requests) PROVE Owned(t.requests[n], t, C)
    OBVIOUS
  <2>1. \/ n \in Rows(s.requests) /\ t.requests[n] = s.requests[n]
        \/ Owned(t.requests[n], s, C)
    BY <1>2, <1>3
  <2>2. Owned(t.requests[n], s, C)
    BY <2>1 DEF Consistent
  <2>3. t.requests[n].by \in Rows(t.messages)
        /\ t.messages[t.requests[n].by] = s.messages[t.requests[n].by]
    BY <1>2, <1>3, <2>2 DEF Owned
  <2> QED
    BY <2>2, <2>3 DEF Owned
<1>6. \A n \in Rows(t.questions) : About(t.questions[n], t)
  <2> SUFFICES ASSUME NEW n \in Rows(t.questions) PROVE About(t.questions[n], t)
    OBVIOUS
  <2>1. \/ n \in Rows(s.questions) /\ t.questions[n] = s.questions[n]
        \/ About(t.questions[n], s)
    BY <1>2, <1>3
  <2>2. About(t.questions[n], s)
    BY <2>1 DEF Consistent
  <2>3. /\ \A r \in Rows(s.requests) : r \in Rows(t.requests) /\ t.requests[r] = s.requests[r]
        /\ \A i \in Rows(s.messages) : i \in Rows(t.messages) /\ t.messages[i] = s.messages[i]
    BY <1>2, <1>3
  <2> QED
    BY <2>2, <2>3 DEF About
<1>7. Grows(s, t)
  <2>1. Len(s.messages) \in Nat /\ Len(s.requests) \in Nat /\ Len(s.questions) \in Nat
    BY DEF StoreType
  <2>2. Len(s.messages) <= Len(t.messages) /\ Len(s.requests) <= Len(t.requests)
        /\ Len(s.questions) <= Len(t.questions)
    BY <1>2, <1>3, <2>1
  <2>3. \A i \in Rows(s.messages) : t.messages[i] = s.messages[i]
    BY <1>2, <1>3
  <2>4. \A i \in Rows(s.requests) : t.requests[i] = s.requests[i]
    BY <1>2, <1>3
  <2>5. \A i \in Rows(s.questions) : t.questions[i] = s.questions[i]
    BY <1>2, <1>3
  <2> QED
    BY <2>2, <2>3, <2>4, <2>5 DEF Grows
<1>8. Kept(s, t, C)
  BY <1>2, <1>4, <1>5, <1>6, <1>7 DEF Kept, Consistent
<1> QED
  BY <1>8 DEF t

\* A request belongs to the conversation of the mail that opened it.
LEMMA AddRequest ==
  ASSUME NEW C \in Seq(ConversationRow), NEW s \in StoreType, Consistent(s, C),
         NEW x \in Request, Owned(x, s, C)
  PROVE  Kept(s, [s EXCEPT !.requests = Append(@, x)], C)
<1> DEFINE t == [s EXCEPT !.requests = Append(@, x)]
<1>1. /\ Append(s.requests, x) \in Seq(Request)
      /\ Len(Append(s.requests, x)) = Len(s.requests) + 1
      /\ \A i \in Rows(s.requests) : Append(s.requests, x)[i] = s.requests[i]
      /\ Append(s.requests, x)[Len(s.requests) + 1] = x
  BY AppendProperties DEF StoreType, Rows
<1>2. t \in StoreType /\ t.messages = s.messages /\ t.questions = s.questions
      /\ t.requests = Append(s.requests, x)
  BY <1>1 DEF StoreType
<1>3. /\ Rows(t.requests) = Rows(s.requests) \cup {Len(s.requests) + 1}
      /\ \A i \in Rows(s.requests) : t.requests[i] = s.requests[i]
      /\ t.requests[Len(s.requests) + 1] = x
      /\ Len(s.requests) <= Len(t.requests)
  BY <1>1, <1>2 DEF StoreType, Rows
<1> HIDE DEF t
<1>4. \A n \in Rows(t.messages) : Placed(t.messages[n], t, C)
  BY <1>2, <1>3 DEF Consistent, Placed
<1>5. \A n \in Rows(t.requests) : Owned(t.requests[n], t, C)
  <2> SUFFICES ASSUME NEW n \in Rows(t.requests) PROVE Owned(t.requests[n], t, C)
    OBVIOUS
  <2>1. \/ n \in Rows(s.requests) /\ t.requests[n] = s.requests[n]
        \/ Owned(t.requests[n], s, C)
    BY <1>2, <1>3
  <2>2. Owned(t.requests[n], s, C)
    BY <2>1 DEF Consistent
  <2>3. t.requests[n].by \in Rows(t.messages)
        /\ t.messages[t.requests[n].by] = s.messages[t.requests[n].by]
    BY <1>2, <1>3, <2>2 DEF Owned
  <2> QED
    BY <2>2, <2>3 DEF Owned
<1>6. \A n \in Rows(t.questions) : About(t.questions[n], t)
  <2> SUFFICES ASSUME NEW n \in Rows(t.questions) PROVE About(t.questions[n], t)
    OBVIOUS
  <2>1. \/ n \in Rows(s.questions) /\ t.questions[n] = s.questions[n]
        \/ About(t.questions[n], s)
    BY <1>2, <1>3
  <2>2. About(t.questions[n], s)
    BY <2>1 DEF Consistent
  <2>3. /\ \A r \in Rows(s.requests) : r \in Rows(t.requests) /\ t.requests[r] = s.requests[r]
        /\ \A i \in Rows(s.messages) : i \in Rows(t.messages) /\ t.messages[i] = s.messages[i]
    BY <1>2, <1>3
  <2> QED
    BY <2>2, <2>3 DEF About
<1>7. Grows(s, t)
  <2>1. Len(s.messages) \in Nat /\ Len(s.requests) \in Nat /\ Len(s.questions) \in Nat
    BY DEF StoreType
  <2>2. Len(s.messages) <= Len(t.messages) /\ Len(s.requests) <= Len(t.requests)
        /\ Len(s.questions) <= Len(t.questions)
    BY <1>2, <1>3, <2>1
  <2>3. \A i \in Rows(s.messages) : t.messages[i] = s.messages[i]
    BY <1>2, <1>3
  <2>4. \A i \in Rows(s.requests) : t.requests[i] = s.requests[i]
    BY <1>2, <1>3
  <2>5. \A i \in Rows(s.questions) : t.questions[i] = s.questions[i]
    BY <1>2, <1>3
  <2> QED
    BY <2>2, <2>3, <2>4, <2>5 DEF Grows
<1>8. Kept(s, t, C)
  BY <1>2, <1>4, <1>5, <1>6, <1>7 DEF Kept, Consistent
<1> QED
  BY <1>8 DEF t

\* A question about a request is asked in its conversation.
LEMMA AddQuestion ==
  ASSUME NEW C \in Seq(ConversationRow), NEW s \in StoreType, Consistent(s, C),
         NEW x \in Question, About(x, s)
  PROVE  Kept(s, [s EXCEPT !.questions = Append(@, x)], C)
<1> DEFINE t == [s EXCEPT !.questions = Append(@, x)]
<1>1. /\ Append(s.questions, x) \in Seq(Question)
      /\ Len(Append(s.questions, x)) = Len(s.questions) + 1
      /\ \A i \in Rows(s.questions) : Append(s.questions, x)[i] = s.questions[i]
      /\ Append(s.questions, x)[Len(s.questions) + 1] = x
  BY AppendProperties DEF StoreType, Rows
<1>2. t \in StoreType /\ t.messages = s.messages /\ t.requests = s.requests
      /\ t.questions = Append(s.questions, x)
  BY <1>1 DEF StoreType
<1>3. /\ Rows(t.questions) = Rows(s.questions) \cup {Len(s.questions) + 1}
      /\ \A i \in Rows(s.questions) : t.questions[i] = s.questions[i]
      /\ t.questions[Len(s.questions) + 1] = x
      /\ Len(s.questions) <= Len(t.questions)
  BY <1>1, <1>2 DEF StoreType, Rows
<1> HIDE DEF t
<1>4. \A n \in Rows(t.messages) : Placed(t.messages[n], t, C)
  BY <1>2, <1>3 DEF Consistent, Placed
<1>5. \A n \in Rows(t.requests) : Owned(t.requests[n], t, C)
  <2> SUFFICES ASSUME NEW n \in Rows(t.requests) PROVE Owned(t.requests[n], t, C)
    OBVIOUS
  <2>1. \/ n \in Rows(s.requests) /\ t.requests[n] = s.requests[n]
        \/ Owned(t.requests[n], s, C)
    BY <1>2, <1>3
  <2>2. Owned(t.requests[n], s, C)
    BY <2>1 DEF Consistent
  <2>3. t.requests[n].by \in Rows(t.messages)
        /\ t.messages[t.requests[n].by] = s.messages[t.requests[n].by]
    BY <1>2, <1>3, <2>2 DEF Owned
  <2> QED
    BY <2>2, <2>3 DEF Owned
<1>6. \A n \in Rows(t.questions) : About(t.questions[n], t)
  <2> SUFFICES ASSUME NEW n \in Rows(t.questions) PROVE About(t.questions[n], t)
    OBVIOUS
  <2>1. \/ n \in Rows(s.questions) /\ t.questions[n] = s.questions[n]
        \/ About(t.questions[n], s)
    BY <1>2, <1>3
  <2>2. About(t.questions[n], s)
    BY <2>1 DEF Consistent
  <2>3. /\ \A r \in Rows(s.requests) : r \in Rows(t.requests) /\ t.requests[r] = s.requests[r]
        /\ \A i \in Rows(s.messages) : i \in Rows(t.messages) /\ t.messages[i] = s.messages[i]
    BY <1>2, <1>3
  <2> QED
    BY <2>2, <2>3 DEF About
<1>7. Grows(s, t)
  <2>1. Len(s.messages) \in Nat /\ Len(s.requests) \in Nat /\ Len(s.questions) \in Nat
    BY DEF StoreType
  <2>2. Len(s.messages) <= Len(t.messages) /\ Len(s.requests) <= Len(t.requests)
        /\ Len(s.questions) <= Len(t.questions)
    BY <1>2, <1>3, <2>1
  <2>3. \A i \in Rows(s.messages) : t.messages[i] = s.messages[i]
    BY <1>2, <1>3
  <2>4. \A i \in Rows(s.requests) : t.requests[i] = s.requests[i]
    BY <1>2, <1>3
  <2>5. \A i \in Rows(s.questions) : t.questions[i] = s.questions[i]
    BY <1>2, <1>3
  <2> QED
    BY <2>2, <2>3, <2>4, <2>5 DEF Grows
<1>8. Kept(s, t, C)
  BY <1>2, <1>4, <1>5, <1>6, <1>7 DEF Kept, Consistent
<1> QED
  BY <1>8 DEF t

\* Requests keep their conversations, their mails and their writers.
LEMMA ChangeRequests ==
  ASSUME NEW C \in Seq(ConversationRow), NEW s \in StoreType, Consistent(s, C),
         NEW rows \in Seq(Request), Len(rows) = Len(s.requests),
         \A i \in Rows(rows) : /\ rows[i].conversation = s.requests[i].conversation
                              /\ rows[i].by = s.requests[i].by
                              /\ rows[i].writers = s.requests[i].writers
  PROVE  Kept(s, [s EXCEPT !.requests = rows], C)
<1> DEFINE t == [s EXCEPT !.requests = rows]
<1>1. t \in StoreType /\ t.messages = s.messages /\ t.questions = s.questions /\ t.requests = rows
  BY DEF StoreType
<1>2. Rows(t.requests) = Rows(s.requests) /\ Len(t.requests) = Len(s.requests)
  BY <1>1 DEF Rows
<1> HIDE DEF t
<1>4. \A i \in Rows(t.messages) : Placed(t.messages[i], t, C)
  BY <1>1, <1>2 DEF Consistent, Placed
<1>5. \A i \in Rows(t.requests) : Owned(t.requests[i], t, C)
  BY <1>1, <1>2 DEF Consistent, Owned
<1>6. \A i \in Rows(t.questions) : About(t.questions[i], t)
  BY <1>1, <1>2 DEF Consistent, About
<1>7. Grows(s, t)
  <2>1. Len(s.messages) \in Nat /\ Len(s.requests) \in Nat /\ Len(s.questions) \in Nat
    BY DEF StoreType
  <2> QED
    BY <1>1, <1>2, <2>1 DEF Grows
<1>8. Kept(s, t, C)
  BY <1>1, <1>4, <1>5, <1>6, <1>7 DEF Kept, Consistent
<1> QED
  BY <1>8 DEF t

\* One request among them.
LEMMA ChangeRequest ==
  ASSUME NEW C \in Seq(ConversationRow), NEW s \in StoreType, Consistent(s, C),
         NEW r \in Rows(s.requests), NEW x \in Request,
         x.conversation = s.requests[r].conversation, x.by = s.requests[r].by,
         x.writers = s.requests[r].writers
  PROVE  Kept(s, [s EXCEPT !.requests = [@ EXCEPT ![r] = x]], C)
<1> DEFINE rows == [s.requests EXCEPT ![r] = x]
<1>1. /\ rows \in Seq(Request) /\ Len(rows) = Len(s.requests)
      /\ \A i \in Rows(s.requests) : rows[i] = IF i = r THEN x ELSE s.requests[i]
  BY ExceptSeq DEF StoreType, Rows
<1>2. \A i \in Rows(rows) : /\ rows[i].conversation = s.requests[i].conversation
                           /\ rows[i].by = s.requests[i].by
                           /\ rows[i].writers = s.requests[i].writers
  BY <1>1 DEF Rows
<1> HIDE DEF rows
<1>3. Kept(s, [s EXCEPT !.requests = rows], C)
  BY <1>1, <1>2, ChangeRequests
<1> QED
  BY <1>3 DEF rows

\* A question keeps its request and its message.
LEMMA ChangeQuestion ==
  ASSUME NEW C \in Seq(ConversationRow), NEW s \in StoreType, Consistent(s, C),
         NEW q \in Rows(s.questions), NEW x \in Question,
         x.request = s.questions[q].request, x.message = s.questions[q].message
  PROVE  Kept(s, [s EXCEPT !.questions = [@ EXCEPT ![q] = x]], C)
<1> DEFINE t == [s EXCEPT !.questions = [@ EXCEPT ![q] = x]]
           rows == [s.questions EXCEPT ![q] = x]
<1>1. /\ rows \in Seq(Question) /\ Len(rows) = Len(s.questions)
      /\ \A i \in Rows(s.questions) : rows[i] = IF i = q THEN x ELSE s.questions[i]
  BY ExceptSeq DEF StoreType, Rows
<1>2. t \in StoreType /\ t.messages = s.messages /\ t.requests = s.requests /\ t.questions = rows
  BY <1>1 DEF StoreType
<1>3. /\ Rows(t.questions) = Rows(s.questions) /\ Len(t.questions) = Len(s.questions)
      /\ \A i \in Rows(s.questions) : t.questions[i] = IF i = q THEN x ELSE s.questions[i]
  BY <1>1, <1>2 DEF Rows
<1> HIDE DEF t, rows
<1>4. \A i \in Rows(t.messages) : Placed(t.messages[i], t, C)
  BY <1>2, <1>3 DEF Consistent, Placed
<1>5. \A i \in Rows(t.requests) : Owned(t.requests[i], t, C)
  BY <1>2, <1>3 DEF Consistent, Owned
<1>6. \A i \in Rows(t.questions) : About(t.questions[i], t)
  BY <1>2, <1>3 DEF Consistent, About
<1>7. Grows(s, t)
  <2>1. Len(s.messages) \in Nat /\ Len(s.requests) \in Nat /\ Len(s.questions) \in Nat
    BY DEF StoreType
  <2> QED
    BY <1>2, <1>3, <2>1 DEF Grows
<1>8. Kept(s, t, C)
  BY <1>2, <1>4, <1>5, <1>6, <1>7 DEF Kept, Consistent
<1> QED
  BY <1>8 DEF t
-----------------------------------------------------------------------------
(* What a mail is taken for *)

\* The invariant, row by row.
LEMMA StoreRows ==
  ASSUME ThreadsInvariant
  PROVE  /\ messages \in Seq(Message) /\ requests \in Seq(Request) /\ questions \in Seq(Question)
         /\ Store.messages = messages /\ Store.requests = requests /\ Store.questions = questions
         /\ Len(messages) \in Nat /\ Len(requests) \in Nat /\ Len(questions) \in Nat
         /\ Len(conversations) \in Nat
         /\ \A i \in Rows(messages) : /\ messages[i] \in Message
                                     /\ Placed(messages[i], Store, conversations)
         /\ \A r \in Rows(requests) : /\ requests[r] \in Request
                                     /\ Owned(requests[r], Store, conversations)
         /\ \A q \in Rows(questions) : questions[q] \in Question /\ About(questions[q], Store)
         /\ \A c \in Rows(conversations) : conversations[c] \in ConversationRow
<1>1. messages \in Seq(Message) /\ requests \in Seq(Request) /\ questions \in Seq(Question)
      /\ conversations \in Seq(ConversationRow)
      /\ Store.messages = messages /\ Store.requests = requests /\ Store.questions = questions
  BY DEF ThreadsInvariant, Store, StoreType
<1>2. /\ Len(messages) \in Nat /\ Len(requests) \in Nat /\ Len(questions) \in Nat
      /\ Len(conversations) \in Nat
  BY <1>1
<1>3. /\ \A i \in Rows(messages) : messages[i] \in Message
      /\ \A r \in Rows(requests) : requests[r] \in Request
      /\ \A q \in Rows(questions) : questions[q] \in Question
      /\ \A c \in Rows(conversations) : conversations[c] \in ConversationRow
  BY <1>1, ElementOfSeq DEF Rows
<1> QED
  BY <1>1, <1>2, <1>3 DEF ThreadsInvariant, Consistent

\* A request found for a message is of the message's conversation.
LEMMA RequestForMessage ==
  ASSUME ThreadsInvariant, NEW i \in Rows(messages), NEW r \in RequestFor(i)
  PROVE  /\ r \in Rows(requests) /\ requests[r].conversation = messages[i].conversation
         /\ messages[i].conversation \in Rows(conversations)
<1>1. CASE QuestionAsked(i) # {}
  <2>1. PICK q \in QuestionAsked(i) : r = questions[q].request
    BY <1>1 DEF RequestFor
  <2>2. About(questions[q], Store) /\ questions[q].message = i
    BY <2>1, StoreRows DEF QuestionAsked
  <2>3. r \in Rows(requests) /\ requests[r].conversation = messages[i].conversation
    BY <2>1, <2>2, StoreRows DEF About
  <2> QED
    BY <2>3, StoreRows DEF Owned
<1>2. CASE QuestionAsked(i) = {} /\ messages[i].about # 0
  <2>1. r = messages[i].about
    BY <1>2 DEF RequestFor
  <2>2. r \in Rows(requests) /\ requests[r].conversation = messages[i].conversation
    BY <2>1, <1>2, StoreRows DEF Placed
  <2> QED
    BY <2>2, StoreRows DEF Owned
<1>3. CASE QuestionAsked(i) = {} /\ messages[i].about = 0
  <2>1. \/ r \in {x \in Rows(requests) : requests[x].by = i}
        \/ r \in {x \in Rows(requests) : requests[x].conversation = messages[i].conversation}
    BY <1>3 DEF RequestFor, Sole, OpenRequests
  <2>2. r \in Rows(requests) /\ requests[r].conversation = messages[i].conversation
    BY <2>1, StoreRows DEF Owned
  <2> QED
    BY <2>2, StoreRows DEF Owned
<1> QED
  BY <1>1, <1>2, <1>3

\* So is the request of the question that a message asked.
LEMMA QuestionOfMessage ==
  ASSUME ThreadsInvariant, NEW i \in Rows(messages), NEW q \in QuestionAsked(i)
  PROVE  /\ q \in Rows(questions) /\ questions[q].request \in Rows(requests)
         /\ requests[questions[q].request].conversation = messages[i].conversation
         /\ messages[i].conversation \in Rows(conversations)
<1>1. q \in Rows(questions) /\ questions[q].message = i /\ About(questions[q], Store)
  BY StoreRows DEF QuestionAsked
<1>2. questions[q].request \in Rows(requests)
      /\ requests[questions[q].request].conversation = messages[i].conversation
  BY <1>1, StoreRows DEF About
<1> QED
  BY <1>1, <1>2, StoreRows DEF Owned

\* Of a set of rows that has no two elements, all are the same.
LEMMA OneElement ==
  ASSUME NEW n \in Nat, NEW S \in SUBSET (0..n), ~(Cardinality(S) > 1),
         NEW x \in S, NEW y \in S
  PROVE  x = y
<1> SUFFICES ASSUME x # y PROVE FALSE
  OBVIOUS
<1>1. IsFiniteSet(0..n)
  BY FS_Interval
<1>2. IsFiniteSet(S) /\ Cardinality(S) \in Nat
  BY <1>1, FS_Subset, FS_CardinalityType
<1>3. IsFiniteSet({x}) /\ Cardinality({x}) = 1
  BY FS_Singleton
<1>4. Cardinality({x} \cup {y}) = 2
  <2>1. Cardinality({x} \cup {y}) = IF y \in {x} THEN Cardinality({x}) ELSE Cardinality({x}) + 1
    BY <1>3, FS_AddElement
  <2> QED
    BY <2>1, <1>3
<1>5. {x} \cup {y} \in SUBSET S
  OBVIOUS
<1>6. Cardinality({x} \cup {y}) <= Cardinality(S)
  BY <1>2, <1>5, FS_Subset
<1> QED
  BY <1>2, <1>4, <1>6

\* A mail that is not a conflict is taken for a conversation of its sender, and the
\* request and the question found for it are of that conversation.
Fits(found, sender) ==
  /\ found.strength \in {"new", "weak", "strong"}
  /\ found.conversation = 0 => found.request = 0 /\ found.question = 0
  /\ found.conversation # 0 => conversations[found.conversation].owner = sender
  /\ found.request # 0 => /\ found.request \in Rows(requests)
                         /\ requests[found.request].conversation = found.conversation
  /\ found.question # 0 =>
       /\ found.question \in Rows(questions)
       /\ questions[found.question].request \in Rows(requests)
       /\ requests[questions[found.question].request].conversation = found.conversation

\* What the headers lead to fits the sender.
LEMMA FoundByHeader ==
  ASSUME ThreadsInvariant, NEW sender, NEW header \in SUBSET Rows(messages), NEW markers,
         ~Conflicting(header, markers, sender),
         NEW c \in AnyOf(ConversationsOf(header)), NEW r \in AnyOf(RequestsFor(header)),
         NEW q \in AnyOf(UNION {QuestionAsked(i) : i \in header})
  PROVE  /\ c \in 0..Len(conversations) /\ r \in Nat /\ q \in Nat
         /\ Fits(Correlation(c, r, q, "strong"), sender)
<1>1. /\ \A i \in header : messages[i].conversation \in 0..Len(conversations)
      /\ Len(conversations) \in Nat /\ Len(requests) \in Nat /\ Len(questions) \in Nat
  BY StoreRows DEF Placed
<1>2. ConversationsOf(header) \in SUBSET (0..Len(conversations))
  BY <1>1 DEF ConversationsOf
<1>3. ASSUME NEW i \in header, messages[i].conversation # 0
      PROVE  c = messages[i].conversation /\ c # 0
  <2>1. messages[i].conversation \in ConversationsOf(header) /\ 0 \notin ConversationsOf(header)
    BY <1>3 DEF ConversationsOf
  <2>2. c \in ConversationsOf(header)
    BY <2>1 DEF AnyOf
  <2>3. ~(Cardinality(ConversationsOf(header)) > 1)
    BY DEF Conflicting
  <2>4. c = messages[i].conversation
    BY <1>1, <1>2, <2>1, <2>2, <2>3, OneElement
  <2> QED
    BY <2>1, <2>4
<1>4. c \in 0..Len(conversations)
  BY <1>1, <1>2 DEF AnyOf
<1>5. c # 0 => conversations[c].owner = sender
  <2> HAVE c # 0
  <2>1. PICK i \in header : messages[i].conversation = c
    BY DEF AnyOf, ConversationsOf
  <2> QED
    BY <2>1 DEF Conflicting, SenderMismatch
<1>6. r # 0 => r \in Rows(requests) /\ requests[r].conversation = c /\ c # 0
  <2> HAVE r # 0
  <2>1. PICK i \in header : r \in RequestFor(i)
    BY DEF AnyOf, RequestsFor
  <2>2. r \in Rows(requests) /\ requests[r].conversation = messages[i].conversation
        /\ messages[i].conversation \in Rows(conversations)
    BY <2>1, RequestForMessage
  <2> QED
    BY <2>2, <1>1, <1>3 DEF Rows
<1>7. q # 0 => /\ q \in Rows(questions) /\ questions[q].request \in Rows(requests)
               /\ requests[questions[q].request].conversation = c /\ c # 0
  <2> HAVE q # 0
  <2>1. PICK i \in header : q \in QuestionAsked(i)
    BY DEF AnyOf
  <2>2. /\ q \in Rows(questions) /\ questions[q].request \in Rows(requests)
        /\ requests[questions[q].request].conversation = messages[i].conversation
        /\ messages[i].conversation \in Rows(conversations)
    BY <2>1, QuestionOfMessage
  <2> QED
    BY <2>2, <1>1, <1>3 DEF Rows
<1> QED
  BY <1>1, <1>4, <1>5, <1>6, <1>7 DEF Fits, Correlation, Rows

\* found, taken for a mail of sender, may be stored.
Storable(found, sender) ==
  /\ found.conversation \in 0..Len(conversations)
  /\ found.request \in Nat /\ found.question \in Nat
  /\ \/ found.strength = "conflict" /\ found.request = 0 /\ found.question = 0
     \/ Fits(found, sender)

\* What the subject leads to may be stored.
LEMMA FoundBySubject ==
  ASSUME ThreadsInvariant, NEW sender, NEW subject,
         NEW found \in SubjectCorrelations(sender, subject)
  PROVE  Storable(found, sender)
<1> USE DEF Storable
<1>1. Len(conversations) \in Nat /\ Len(requests) \in Nat
  BY StoreRows
<1> DEFINE candidates == {c \in Rows(conversations) : conversations[c].owner = sender
                                                     /\ conversations[c].subject = subject}
<1>2. CASE candidates = {} \/ Cardinality(candidates) > 1
  <2>1. found = Correlation(0, 0, 0, "new") \/ found = Correlation(0, 0, 0, "conflict")
    BY <1>2 DEF SubjectCorrelations
  <2> QED
    BY <1>1, <2>1 DEF Correlation, Fits
<1>3. CASE candidates # {} /\ ~(Cardinality(candidates) > 1)
  <2>1. PICK c \in candidates :
             found \in IF Cardinality(OpenRequests(c)) > 1 THEN {Correlation(c, 0, 0, "conflict")}
                      ELSE {Correlation(c, r, 0, "weak") : r \in AnyOf(OpenRequests(c))}
    BY <1>3 DEF SubjectCorrelations
  <2>2. \/ found = Correlation(c, 0, 0, "conflict")
        \/ \E r \in AnyOf(OpenRequests(c)) : found = Correlation(c, r, 0, "weak")
    BY <2>1
  <2>3. c \in Rows(conversations) /\ conversations[c].owner = sender
    OBVIOUS
  <2>4. \A r \in AnyOf(OpenRequests(c)) :
          r = 0 \/ (r \in Rows(requests) /\ requests[r].conversation = c)
    BY DEF AnyOf, OpenRequests
  <2> HIDE DEF candidates
  <2>5. CASE found = Correlation(c, 0, 0, "conflict")
    BY <1>1, <2>3, <2>5 DEF Correlation, Rows
  <2>6. CASE \E r \in AnyOf(OpenRequests(c)) : found = Correlation(c, r, 0, "weak")
    BY <1>1, <2>3, <2>4, <2>6 DEF Correlation, Rows, Fits
  <2> QED
    BY <2>2, <2>5, <2>6
<1> QED
  BY <1>2, <1>3

\* What correlate_email returns may be stored.
LEMMA FoundCorrelation ==
  ASSUME ThreadsInvariant, NEW sender, NEW subject,
         NEW direct \in SUBSET Rows(messages), NEW refs \in SUBSET Rows(messages),
         NEW markers \in SUBSET Rows(requests),
         NEW found \in Correlations(sender, subject, direct, refs, markers)
  PROVE  Storable(found, sender)
<1> DEFINE header == IF direct # {} THEN direct ELSE refs
           convs == ConversationsOf(header)
           asked == UNION {QuestionAsked(i) : i \in header}
           markerConvs == {requests[r].conversation : r \in markers}
<1>1. /\ \A i \in header : messages[i].conversation \in 0..Len(conversations)
      /\ \A r \in Rows(requests) : requests[r].conversation \in Rows(conversations)
      /\ Len(conversations) \in Nat /\ Len(requests) \in Nat
  BY StoreRows DEF Placed, Owned
<1>2. convs \in SUBSET (0..Len(conversations)) /\ markerConvs \in SUBSET (0..Len(conversations))
  BY <1>1 DEF Rows, ConversationsOf
<1>3. header \in SUBSET Rows(messages)
  OBVIOUS
<1>4. found \in
        IF Conflicting(header, markers, sender)
          THEN {Correlation(c, 0, 0, "conflict") :
                  c \in AnyOf(IF convs # {} THEN convs ELSE markerConvs)}
        ELSE IF header # {}
          THEN [conversation : AnyOf(convs), request : AnyOf(RequestsFor(header)),
                question : AnyOf(asked), strength : {"strong"}]
        ELSE IF markers # {}
          THEN {Correlation(requests[r].conversation, r, 0, "strong") : r \in markers}
        ELSE SubjectCorrelations(sender, subject)
  BY DEF Correlations
<1> HIDE DEF header, markerConvs
<1>5. CASE Conflicting(header, markers, sender)
  <2>1. AnyOf(IF convs # {} THEN convs ELSE markerConvs) \in SUBSET (0..Len(conversations))
    BY <1>1, <1>2 DEF AnyOf
  <2> HIDE DEF convs
  <2>2. PICK c \in AnyOf(IF convs # {} THEN convs ELSE markerConvs) :
             found = Correlation(c, 0, 0, "conflict")
    BY <1>4, <1>5
  <2> QED
    BY <2>1, <2>2 DEF Correlation, Storable
<1>6. CASE ~Conflicting(header, markers, sender) /\ header # {}
  <2>1. PICK c \in AnyOf(convs), r \in AnyOf(RequestsFor(header)), q \in AnyOf(asked) :
             found = Correlation(c, r, q, "strong")
    <3> HIDE DEF convs, asked
    <3> QED
      BY <1>4, <1>6 DEF Correlation
  <2>2. /\ c \in 0..Len(conversations) /\ r \in Nat /\ q \in Nat
        /\ Fits(Correlation(c, r, q, "strong"), sender)
    BY <1>3, <1>6, FoundByHeader
  <2> QED
    BY <2>1, <2>2 DEF Correlation, Storable
<1>7. CASE ~Conflicting(header, markers, sender) /\ header = {} /\ markers # {}
  <2> HIDE DEF convs, asked
  <2>1. PICK r \in markers : found = Correlation(requests[r].conversation, r, 0, "strong")
    BY <1>4, <1>7
  <2>2. conversations[requests[r].conversation].owner = sender
    BY <1>7 DEF Conflicting, SenderMismatch
  <2> QED
    BY <1>1, <2>1, <2>2 DEF Correlation, Fits, Rows, Storable
<1>8. CASE ~Conflicting(header, markers, sender) /\ header = {} /\ markers = {}
  <2> HIDE DEF convs, asked
  <2> QED
    BY <1>4, <1>8, FoundBySubject
<1> QED
  BY <1>5, <1>6, <1>7, <1>8
\* A message about a request leads to it: a question is asked by a message about its
\* request.
LEMMA RequestForIt ==
  ASSUME ThreadsInvariant, NEW d \in Rows(messages), messages[d].about # 0
  PROVE  /\ RequestFor(d) = {messages[d].about}
         /\ messages[d].conversation \in Rows(conversations)
<1>1. \A q \in QuestionAsked(d) : questions[q].request = messages[d].about
  BY StoreRows DEF QuestionAsked, About
<1>2. RequestFor(d) = {messages[d].about}
  BY <1>1 DEF RequestFor
<1> QED
  BY <1>2, RequestForMessage

\* A mail that only replies to such a message is taken for that request, if it is not
\* reviewed.
LEMMA ReplyFindsRequest ==
  ASSUME ThreadsInvariant, NEW sender, NEW subject,
         NEW direct \in SUBSET Rows(messages), Cardinality(direct) <= 1, NEW refs,
         NEW d \in direct, messages[d].about # 0,
         NEW found \in Correlations(sender, subject, direct, refs, {}),
         found.strength # "conflict"
  PROVE  /\ found.strength = "strong" /\ found.request = messages[d].about
         /\ found.conversation = messages[d].conversation /\ found.conversation # 0
<1> DEFINE c == messages[d].conversation
           asked == UNION {QuestionAsked(i) : i \in direct}
<1>1. direct = {d}
  <2>1. Len(messages) \in Nat /\ direct \in SUBSET (0..Len(messages))
    BY StoreRows DEF Rows
  <2>2. ~(Cardinality(direct) > 1)
    <3>1. IsFiniteSet(0..Len(messages))
      BY <2>1, FS_Interval
    <3>2. IsFiniteSet(direct)
      BY <2>1, <3>1, FS_Subset
    <3> QED
      BY <3>2, FS_CardinalityType
  <2>3. \A x \in direct : x = d
    BY <2>1, <2>2, OneElement
  <2> QED
    BY <2>3
<1>2. RequestFor(d) = {messages[d].about} /\ c \in Rows(conversations) /\ c # 0
  BY RequestForIt DEF Rows
<1>3. ConversationsOf(direct) = {c} /\ RequestsFor(direct) = {messages[d].about}
  BY <1>1, <1>2 DEF ConversationsOf, RequestsFor
<1>4. ~Conflicting(direct, {}, sender)
  <2> SUFFICES ASSUME Conflicting(direct, {}, sender) PROVE FALSE
    OBVIOUS
  <2>1. \E x \in AnyOf(ConversationsOf(direct)) : found = Correlation(x, 0, 0, "conflict")
    BY <1>3 DEF Correlations
  <2> QED
    BY <2>1 DEF Correlation
<1>5. found \in [conversation : AnyOf(ConversationsOf(direct)),
                 request : AnyOf(RequestsFor(direct)), question : AnyOf(asked),
                 strength : {"strong"}]
  BY <1>1, <1>4 DEF Correlations
<1> HIDE DEF c, asked
<1>6. found.conversation = c /\ found.request = messages[d].about /\ found.strength = "strong"
  BY <1>3, <1>5 DEF AnyOf
<1> QED
  BY <1>2, <1>6 DEF c
-----------------------------------------------------------------------------
(* What _finalize stores *)

\* What is kept of a store, as facts about the later one.
LEMMA KeptType ==
  ASSUME NEW C, NEW s, NEW t, Kept(s, t, C)
  PROVE  /\ t \in StoreType /\ Consistent(t, C)
         /\ \A r \in Rows(s.requests) : s \in StoreType =>
              /\ r \in Rows(t.requests)
              /\ t.requests[r].conversation = s.requests[r].conversation
         /\ \A q \in Rows(s.questions) : s \in StoreType => q \in Rows(t.questions)
<1>1. t \in StoreType /\ Consistent(t, C) /\ Grows(s, t)
  BY DEF Kept
<1>2. s \in StoreType => /\ Len(s.requests) \in Nat /\ Len(t.requests) \in Nat
                         /\ Len(s.questions) \in Nat /\ Len(t.questions) \in Nat
  BY <1>1 DEF StoreType
<1> QED
  BY <1>1, <1>2 DEF Grows, Rows

\* The rows of a store have their types.
LEMMA RowTypes ==
  ASSUME NEW s \in StoreType
  PROVE  /\ \A r \in Rows(s.requests) : s.requests[r] \in Request
         /\ \A q \in Rows(s.questions) : s.questions[q] \in Question
         /\ Len(s.messages) \in Nat /\ Len(s.requests) \in Nat /\ Len(s.questions) \in Nat
<1>1. s.requests \in Seq(Request) /\ s.questions \in Seq(Question) /\ s.messages \in Seq(Message)
  BY DEF StoreType
<1> QED
  BY <1>1, ElementOfSeq DEF Rows

\* A mail of the agent about a request, or about none, may be added.
LEMMA Written ==
  ASSUME NEW C \in Seq(ConversationRow), NEW s \in StoreType, Consistent(s, C),
         NEW c \in 0..Len(C), NEW r \in Nat,
         r # 0 => r \in Rows(s.requests) /\ s.requests[r].conversation = c
  PROVE  Kept(s, [s EXCEPT !.messages = Append(@, Outbound(c, r))], C)
<1>1. Outbound(c, r) \in Message
  <2>1. c \in Nat
    OBVIOUS
  <2> QED
    BY <2>1 DEF Outbound, Inbound, Message
<1>2. Placed(Outbound(c, r), s, C)
  BY DEF Outbound, Inbound, Placed, Answers
<1> QED
  BY <1>1, <1>2, AddMessage

\* ... and about a request, in its own conversation.
LEMMA WrittenAbout ==
  ASSUME NEW C \in Seq(ConversationRow), NEW s \in StoreType, Consistent(s, C),
         NEW r \in Rows(s.requests)
  PROVE  Kept(s, [s EXCEPT !.messages = Append(@, Outbound(s.requests[r].conversation, r))], C)
<1>1. s.requests[r].conversation \in 0..Len(C) /\ r \in Nat
  <2>1. s.requests[r].conversation \in 1..Len(C)
    BY DEF Consistent, Owned, Rows
  <2> QED
    BY <2>1 DEF Rows
<1> QED
  BY <1>1, Written

\* Closing a question keeps the store.
LEMMA CloseKept ==
  ASSUME NEW C \in Seq(ConversationRow), NEW s \in StoreType, Consistent(s, C),
         NEW q, q # 0 => q \in Rows(s.questions)
  PROVE  Kept(s, Close(s, q), C)
<1>1. CASE q = 0
  BY <1>1, KeptReflexive DEF Close
<1>2. CASE q # 0
  <2> DEFINE x == [s.questions[q] EXCEPT !.open = FALSE]
  <2>1. q \in Rows(s.questions) /\ s.questions[q] \in Question
    BY <1>2, RowTypes
  <2>2. x \in Question /\ x.request = s.questions[q].request /\ x.message = s.questions[q].message
    BY <2>1 DEF Question
  <2>3. Close(s, q) = [s EXCEPT !.questions = [@ EXCEPT ![q] = x]]
    BY <1>2 DEF Close
  <2> HIDE DEF x
  <2> QED
    BY <2>1, <2>2, <2>3, ChangeQuestion
<1> QED
  BY <1>1, <1>2

\* Two fields of a request and the messages change at once.
LEMMA CloseTwice ==
  ASSUME NEW t \in StoreType, NEW r \in DOMAIN t.requests, NEW m
  PROVE  [t EXCEPT !.requests[r].operation = "closed", !.requests[r].alarmed = TRUE,
                   !.messages = Append(@, m)]
         = [[t EXCEPT !.requests = [@ EXCEPT ![r] = [t.requests[r] EXCEPT !.operation = "closed",
                                                                          !.alarmed = TRUE]]]
              EXCEPT !.messages = Append(@, m)]
<1> DEFINE f == t.requests
           a == Append(t.messages, m)
           y == [f[r] EXCEPT !.operation = "closed", !.alarmed = TRUE]
<1>1. f = [i \in DOMAIN f |-> f[i]]
  BY DEF StoreType
<1>2. [f EXCEPT ![r].operation = "closed", ![r].alarmed = TRUE] = [f EXCEPT ![r] = y]
  <2> HIDE DEF f
  <2> QED
    BY <1>1
<1>3. [t EXCEPT !.requests[r].operation = "closed", !.requests[r].alarmed = TRUE,
                !.messages = Append(@, m)]
      = [t EXCEPT !.requests = [f EXCEPT ![r].operation = "closed", ![r].alarmed = TRUE],
                  !.messages = a]
  BY DEF StoreType
<1> HIDE DEF f, a, y
<1> QED
  BY <1>2, <1>3 DEF StoreType, f, a, y

\* So does giving up on a request whose rounds are used up.
LEMMA GiveUpKept ==
  ASSUME NEW C \in Seq(ConversationRow), NEW s \in StoreType, Consistent(s, C),
         NEW r \in Rows(s.requests), NEW q, q # 0 => q \in Rows(s.questions)
  PROVE  Kept(s, GiveUp(s, r, q), C)
<1> DEFINE t == Close(s, q)
           x == [t.requests[r] EXCEPT !.operation = "closed", !.alarmed = TRUE]
           u == [t EXCEPT !.requests = [@ EXCEPT ![r] = x]]
           v == [u EXCEPT !.messages = Append(@, Outbound(u.requests[r].conversation, r))]
<1>1. Kept(s, t, C)
  BY CloseKept
<1>2. t.requests = s.requests /\ t \in StoreType /\ Consistent(t, C)
  BY <1>1 DEF Close, Kept, StoreType
<1>3. x \in Request /\ x.conversation = t.requests[r].conversation /\ x.by = t.requests[r].by
      /\ x.writers = t.requests[r].writers
  <2>1. t.requests[r] \in Request
    BY <1>2, RowTypes
  <2> HIDE DEF t
  <2> QED
    BY <2>1 DEF Request
<1>4. Kept(t, u, C)
  <2> HIDE DEF t, x
  <2> QED
    BY <1>2, <1>3, ChangeRequest
<1>5. u \in StoreType /\ Consistent(u, C) /\ r \in Rows(u.requests)
      /\ u.requests[r].conversation = s.requests[r].conversation
  <2> HIDE DEF u, t
  <2> QED
    BY <1>2, <1>4, KeptType
<1>6. Kept(u, v, C)
  <2> HIDE DEF u
  <2> QED
    BY <1>5, WrittenAbout
<1>7. GiveUp(s, r, q) = v
  <2>1. v = [u EXCEPT !.messages = Append(@, Outbound(s.requests[r].conversation, r))]
    <3> HIDE DEF u
    <3> QED
      BY <1>5 DEF v
  <2>2. GiveUp(s, r, q) = [t EXCEPT !.requests[r].operation = "closed",
                                    !.requests[r].alarmed = TRUE,
                                    !.messages = Append(@, Outbound(s.requests[r].conversation, r))]
    BY DEF GiveUp
  <2>3. r \in DOMAIN t.requests
    <3>1. s.requests \in Seq(Request)
      BY DEF StoreType
    <3>2. r \in DOMAIN s.requests
      BY <3>1 DEF Rows
    <3>3. t.requests = s.requests
      BY <1>2
    <3> HIDE DEF t
    <3> QED
      BY <3>2, <3>3
  <2> DEFINE m == Outbound(s.requests[r].conversation, r)
  <2>4. [t EXCEPT !.requests[r].operation = "closed", !.requests[r].alarmed = TRUE,
                  !.messages = Append(@, m)]
        = [[t EXCEPT !.requests = [@ EXCEPT ![r] = x]] EXCEPT !.messages = Append(@, m)]
    <3> HIDE DEF t, m
    <3> QED
      BY <1>2, <2>3, CloseTwice
  <2> HIDE DEF t, x, m
  <2> QED
    BY <2>1, <2>2, <2>4
<1>8. Kept(s, u, C)
  <2> HIDE DEF t, u
  <2> QED
    BY <1>1, <1>4, KeptTransitive
<1> QED
  <2> HIDE DEF u, v
  <2> QED
    BY <1>6, <1>7, <1>8, KeptTransitive

\* So does asking back.
LEMMA AskBackKept ==
  ASSUME NEW C \in Seq(ConversationRow), NEW s \in StoreType, Consistent(s, C),
         NEW r \in Rows(s.requests)
  PROVE  Kept(s, AskBack(s, r), C)
<1>1. CASE OpenQuestions(s, r) # {}
  BY <1>1, KeptReflexive DEF AskBack
<1>2. CASE OpenQuestions(s, r) = {}
  <2> DEFINE t == [s EXCEPT !.messages = Append(@, Outbound(s.requests[r].conversation, r))]
             x == [request |-> r, message |-> Len(s.messages) + 1, open |-> TRUE,
                   round |-> 1 + Cardinality({y \in Rows(s.questions) :
                                                s.questions[y].request = r})]
             u == [t EXCEPT !.questions = Append(@, x)]
  <2>1. Kept(s, t, C)
    BY WrittenAbout
  <2>2. /\ t \in StoreType /\ Consistent(t, C) /\ r \in Rows(t.requests)
        /\ t.requests = s.requests
        /\ t.messages = Append(s.messages, Outbound(s.requests[r].conversation, r))
    <3>1. t.requests = s.requests
          /\ t.messages = Append(s.messages, Outbound(s.requests[r].conversation, r))
      BY DEF StoreType
    <3> HIDE DEF t
    <3> QED
      BY <2>1, <3>1, KeptType
  <2>3. x \in Question
    <3>1. IsFiniteSet(1..Len(s.questions))
      <4>1. Len(s.questions) \in Int
        BY RowTypes
      <4> QED
        BY <4>1, FS_Interval
    <3>2. Cardinality({y \in Rows(s.questions) : s.questions[y].request = r}) \in Nat
      BY <3>1, FS_Subset, FS_CardinalityType DEF Rows
    <3> QED
      BY <3>2, RowTypes DEF Question, Rows
  <2>4. About(x, t)
    <3>1. t.messages \in Seq(Message) /\ s.messages \in Seq(Message)
      BY <2>2 DEF StoreType
    <3>2. /\ Outbound(s.requests[r].conversation, r).conversation = s.requests[r].conversation
          /\ Outbound(s.requests[r].conversation, r).about = r
      BY DEF Outbound, Inbound
    <3>3. /\ Len(t.messages) = Len(s.messages) + 1 /\ Len(s.messages) \in Nat
          /\ t.messages[Len(s.messages) + 1] = Outbound(s.requests[r].conversation, r)
      BY <2>2, <3>1
    <3> HIDE DEF t
    <3> QED
      BY <2>2, <3>2, <3>3 DEF About, Rows
  <2>5. Kept(t, u, C)
    <3> HIDE DEF t, x
    <3> QED
      BY <2>2, <2>3, <2>4, AddQuestion
  <2>6. AskBack(s, r) = u
    BY <1>2 DEF AskBack, StoreType
  <2> HIDE DEF t, u
  <2> QED
    BY <2>1, <2>5, <2>6, KeptTransitive
<1> QED
  BY <1>1, <1>2

\* So does telling the customer about a request.
LEMMA NotifyKept ==
  ASSUME NEW C \in Seq(ConversationRow), NEW s \in StoreType, Consistent(s, C),
         NEW r \in Rows(s.requests), NEW notice \in {"none", "acknowledged", "summarised"}
  PROVE  Kept(s, Notify(s, r, notice), C)
<1>1. CASE notice = "none" \/ notice \in s.requests[r].notices
  BY <1>1, KeptReflexive DEF Notify
<1>2. CASE ~(notice = "none" \/ notice \in s.requests[r].notices)
  <2> DEFINE x == [s.requests[r] EXCEPT !.notices = @ \cup {notice}]
             t == [s EXCEPT !.requests = [@ EXCEPT ![r] = x]]
             u == [t EXCEPT !.messages = Append(@, Outbound(t.requests[r].conversation, r))]
  <2>1. x \in Request /\ x.conversation = s.requests[r].conversation
        /\ x.by = s.requests[r].by /\ x.writers = s.requests[r].writers
    BY <1>2, RowTypes DEF Request
  <2>2. Kept(s, t, C)
    <3> HIDE DEF x
    <3> QED
      BY <2>1, ChangeRequest
  <2>3. t \in StoreType /\ Consistent(t, C) /\ r \in Rows(t.requests)
        /\ t.requests[r].conversation = s.requests[r].conversation
    <3> HIDE DEF t
    <3> QED
      BY <2>2, KeptType
  <2>4. Kept(t, u, C)
    <3> HIDE DEF t
    <3> QED
      BY <2>3, WrittenAbout
  <2>5. Notify(s, r, notice) = u
    <3>1. u = [t EXCEPT !.messages = Append(@, Outbound(s.requests[r].conversation, r))]
      BY <2>3
    <3> HIDE DEF u
    <3> QED
      BY <1>2, <3>1 DEF Notify, StoreType
  <2> HIDE DEF t, u
  <2> QED
    BY <2>2, <2>4, <2>5, KeptTransitive
<1> QED
  BY <1>1, <1>2

\* So does one turn of the loop of _finalize.
LEMMA FinalizeKept ==
  ASSUME NEW C \in Seq(ConversationRow), NEW s \in StoreType, Consistent(s, C),
         NEW r \in Rows(s.requests), NEW q, q # 0 => q \in Rows(s.questions)
  PROVE  Kept(s, FinalizeOne(s, r, q), C)
<1> DEFINE waiting == s.requests[r].operation = "waiting"
           asked == IF ~waiting THEN s
                    ELSE IF RoundsUsed(s, r, q) THEN GiveUp(s, r, q) ELSE AskBack(s, r)
           operation == asked.requests[r].operation
           x == [asked.requests[r] EXCEPT !.open = operation # "closed"]
           refreshed == [asked EXCEPT !.requests = [@ EXCEPT ![r] = x]]
           resolved == IF waiting THEN refreshed ELSE Close(refreshed, q)
           notice == CASE operation = "waiting" -> "none"
                       [] operation = "scheduled" -> "acknowledged"
                       [] OTHER -> "summarised"
<1>1. Kept(s, asked, C)
  BY KeptReflexive, GiveUpKept, AskBackKept
<1> HIDE DEF asked
<1>2. asked \in StoreType /\ Consistent(asked, C) /\ r \in Rows(asked.requests)
      /\ (q # 0 => q \in Rows(asked.questions))
  BY <1>1, KeptType
<1>3. x \in Request /\ x.conversation = asked.requests[r].conversation
      /\ x.by = asked.requests[r].by /\ x.writers = asked.requests[r].writers
  <2> DEFINE open == operation # "closed"
  <2>1. asked.requests[r] \in Request
    BY <1>2, RowTypes
  <2>2. open \in BOOLEAN
    OBVIOUS
  <2> HIDE DEF open
  <2>3. [asked.requests[r] EXCEPT !.open = open] \in Request
    BY <2>1, <2>2 DEF Request
  <2>4. x = [asked.requests[r] EXCEPT !.open = open]
    BY DEF open
  <2> QED
    BY <2>1, <2>3, <2>4 DEF Request
<1>4. Kept(asked, refreshed, C)
  <2> HIDE DEF x
  <2> QED
    BY <1>2, <1>3, ChangeRequest
<1>5. Kept(s, refreshed, C)
  <2> HIDE DEF refreshed
  <2> QED
    BY <1>1, <1>4, KeptTransitive
<1>6. refreshed \in StoreType /\ Consistent(refreshed, C) /\ r \in Rows(refreshed.requests)
      /\ (q # 0 => q \in Rows(refreshed.questions))
  <2> HIDE DEF refreshed
  <2> QED
    BY <1>5, KeptType
<1>7. Kept(refreshed, resolved, C)
  <2> HIDE DEF refreshed
  <2> QED
    BY <1>6, KeptReflexive, CloseKept
<1>8. Kept(s, resolved, C)
  <2> HIDE DEF refreshed, resolved
  <2> QED
    BY <1>5, <1>7, KeptTransitive
<1>9. resolved \in StoreType /\ Consistent(resolved, C) /\ r \in Rows(resolved.requests)
  <2> HIDE DEF resolved
  <2> QED
    BY <1>8, KeptType
<1>10. notice \in {"none", "acknowledged", "summarised"}
  OBVIOUS
<1>11. Kept(resolved, Notify(resolved, r, notice), C)
  <2> HIDE DEF resolved, notice
  <2> QED
    BY <1>9, <1>10, NotifyKept
<1>12. FinalizeOne(s, r, q) = Notify(resolved, r, notice)
  BY DEF FinalizeOne, asked
<1> HIDE DEF resolved, notice
<1> QED
  BY <1>8, <1>11, <1>12, KeptTransitive
-----------------------------------------------------------------------------
(* The steps *)

\* What a worker found stays so while others store.
LEMMA HeldKept ==
  ASSUME NEW C, NEW s \in StoreType, NEW t, Consistent(s, C), Kept(s, t, C),
         NEW h, Held(h, s, C)
  PROVE  Held(h, t, C)
<1>1. Grows(s, t)
  BY DEF Kept
<1>2. /\ Len(s.messages) \in Nat /\ Len(s.requests) \in Nat /\ Len(s.questions) \in Nat
      /\ Len(t.messages) \in Nat /\ Len(t.requests) \in Nat /\ Len(t.questions) \in Nat
  BY DEF Kept, StoreType
<1>3. /\ \A i \in Rows(s.messages) : i \in Rows(t.messages)
      /\ \A r \in Rows(s.requests) : r \in Rows(t.requests)
      /\ \A q \in Rows(s.questions) : q \in Rows(t.questions)
  BY <1>1, <1>2 DEF Grows, Rows
<1>4. \A q \in Rows(s.questions) : s.questions[q].request \in Rows(s.requests)
  BY DEF Consistent, About
<1> QED
  BY <1>1, <1>3, <1>4 DEF Grows, Held

\* A step that keeps what is stored, and leaves worker w with h.
LEMMA Worked ==
  ASSUME ThreadsInvariant, conversations' \in Seq(ConversationRow),
         Consistent(Store, conversations'),
         \A v \in Workers : Held(handling[v], Store, conversations'),
         Kept(Store, Store', conversations'),
         NEW w \in Workers, NEW h \in Handling, handling' = [handling EXCEPT ![w] = h],
         Held(h, Store', conversations')
  PROVE  ThreadsInvariant'
<1>1. Store \in StoreType /\ handling \in [Workers -> Handling]
  BY DEF ThreadsInvariant
<1>2. Store' \in StoreType /\ Consistent(Store', conversations')
  BY DEF Kept
<1>3. handling' \in [Workers -> Handling]
  BY <1>1
<1>4. ASSUME NEW v \in Workers PROVE Held(handling'[v], Store', conversations')
  <2>1. CASE v = w
    BY <1>1, <2>1
  <2>2. CASE v # w
    <3>1. handling'[v] = handling[v]
      BY <1>1, <2>2
    <3>2. Held(handling[v], Store', conversations')
      BY <1>1, HeldKept
    <3> QED
      BY <3>1, <3>2
  <2> QED
    BY <2>1, <2>2
<1>5. StoreType' = StoreType /\ Handling' = Handling /\ ConversationRow' = ConversationRow
  BY DEF StoreType, Handling, ConversationRow, Message, Request, Question
<1>6. /\ Consistent(Store, conversations)' <=> Consistent(Store', conversations')
      /\ \A v \in Workers : Held(handling[v], Store, conversations)'
                            <=> Held(handling'[v], Store', conversations')
  BY DEF Consistent, Held, Placed, Answers, Owned, About, Rows
<1> QED
  BY <1>2, <1>3, <1>4, <1>6 DEF ThreadsInvariant

\* ... when no conversation is new, and the worker is done with its mail.
LEMMA IdleStep ==
  ASSUME ThreadsInvariant, UNCHANGED conversations, Kept(Store, Store', conversations),
         NEW w \in Workers, To(w, "idle", <<>>)
  PROVE  ThreadsInvariant'
<1>1. Idle \in Handling /\ Held(Idle, Store', conversations)
  BY DEF Idle, Handling, Held
<1>2. handling' = [handling EXCEPT ![w] = Idle]
  BY DEF To
<1> QED
  BY <1>1, <1>2, Worked DEF ThreadsInvariant

\* ... or has decided about requests.
LEMMA DecidedStep ==
  ASSUME ThreadsInvariant, UNCHANGED conversations, Kept(Store, Store', conversations),
         NEW w \in Workers, handling[w].stage = "prepared",
         NEW ids \in Seq(Nat), Len(ids) \in 1..2, \A n \in Rows(ids) : ids[n] \in Rows(requests'),
         To(w, "decided", ids)
  PROVE  ThreadsInvariant'
<1> DEFINE h == [handling[w] EXCEPT !.stage = "decided", !.ids = ids]
<1>1. handling[w] \in Handling /\ Held(handling[w], Store, conversations)
      /\ Store \in StoreType /\ Consistent(Store, conversations)
  BY DEF ThreadsInvariant
<1>2. h \in Handling
  BY <1>1 DEF Handling
<1>3. Held(handling[w], Store', conversations)
  BY <1>1, HeldKept
<1>4. Store'.requests = requests'
  BY DEF Store
<1>5. /\ h.mail = handling[w].mail /\ h.conversation = handling[w].conversation
      /\ h.request = handling[w].request /\ h.question = handling[w].question
      /\ h.ids = ids /\ h.stage = "decided"
  BY <1>1 DEF Handling
<1>6. handling' = [handling EXCEPT ![w] = h]
  BY DEF To
<1> HIDE DEF h
<1>7. Held(h, Store', conversations)
  BY <1>3, <1>4, <1>5 DEF Held
<1> QED
  BY <1>2, <1>6, <1>7, Worked DEF ThreadsInvariant

\* What a worker that is not idle knows of its mail.
LEMMA InHand ==
  ASSUME ThreadsInvariant, NEW w \in Workers, handling[w].stage # "idle"
  PROVE  /\ handling[w] \in Handling /\ handling[w].conversation \in Rows(conversations)
         /\ handling[w].conversation \in 0..Len(conversations)
         /\ handling[w].mail \in Rows(messages)
         /\ messages[handling[w].mail].conversation = handling[w].conversation
         /\ Sender(w) = conversations[handling[w].conversation].owner /\ Sender(w) \in Customers
         /\ handling[w].request # 0 =>
              /\ handling[w].request \in Rows(requests)
              /\ requests[handling[w].request].conversation = handling[w].conversation
         /\ handling[w].question # 0 =>
              /\ handling[w].question \in Rows(questions)
              /\ questions[handling[w].question].request \in Rows(requests)
              /\ requests[questions[handling[w].question].request].conversation
                   = handling[w].conversation
<1>1. handling[w] \in Handling /\ Held(handling[w], Store, conversations)
  BY DEF ThreadsInvariant
<1>2. /\ handling[w].conversation \in Rows(conversations)
      /\ handling[w].mail \in Rows(messages)
      /\ messages[handling[w].mail].conversation = handling[w].conversation
      /\ Sender(w) = conversations[handling[w].conversation].owner
      /\ handling[w].request # 0 =>
           /\ handling[w].request \in Rows(requests)
           /\ requests[handling[w].request].conversation = handling[w].conversation
      /\ handling[w].question # 0 =>
           /\ handling[w].question \in Rows(questions)
           /\ requests[questions[handling[w].question].request].conversation
                = handling[w].conversation
  BY <1>1, StoreRows DEF Held, Sender
<1>3. \A q \in Rows(questions) : questions[q].request \in Rows(requests)
  BY StoreRows DEF About
<1>4. Sender(w) \in Customers
  BY <1>2, StoreRows DEF ConversationRow
<1>5. handling[w].conversation \in 0..Len(conversations)
  BY <1>2 DEF Rows
<1> QED
  BY <1>1, <1>2, <1>3, <1>4, <1>5

\* Requests are rewritten, and at most one mail about one of them is added.
LEMMA Stored ==
  ASSUME ThreadsInvariant, Kept(Store, [Store EXCEPT !.requests = requests'], conversations),
         questions' = questions, NEW c \in 0..Len(conversations), NEW r \in Nat,
         r # 0 => r \in Rows(requests') /\ requests'[r].conversation = c,
         messages' = messages \/ messages' = Append(messages, Outbound(c, r))
  PROVE  Kept(Store, Store', conversations)
<1> DEFINE s == [Store EXCEPT !.requests = requests']
<1>1. s.requests = requests' /\ s.messages = messages /\ s.questions = questions
  BY DEF Store
<1>2. Store \in StoreType /\ s \in StoreType /\ Consistent(s, conversations)
      /\ conversations \in Seq(ConversationRow)
  BY DEF ThreadsInvariant, Kept
<1>3. Kept(s, [s EXCEPT !.messages = Append(@, Outbound(c, r))], conversations)
  <2> HIDE DEF s
  <2> QED
    BY <1>1, <1>2, Written
<1>4. Store' = s \/ Store' = [s EXCEPT !.messages = Append(@, Outbound(c, r))]
  <2>1. CASE messages' = messages
    BY <2>1 DEF Store
  <2>2. CASE messages' = Append(messages, Outbound(c, r))
    <3> DEFINE m == Append(messages, Outbound(c, r))
    <3>1. [s EXCEPT !.messages = Append(@, Outbound(c, r))]
            = [messages |-> m, requests |-> requests', questions |-> questions]
      <4>1. s = [messages |-> messages, requests |-> requests', questions |-> questions]
        BY DEF Store
      <4>2. s.messages = messages
        BY DEF Store
      <4> HIDE DEF s
      <4>3. Append(s.messages, Outbound(c, r)) = m
        BY <4>2
      <4> HIDE DEF m
      <4> QED
        BY <4>1, <4>3
    <3>2. Store' = [messages |-> m, requests |-> requests', questions |-> questions]
      BY <2>2 DEF Store
    <3> QED
      BY <3>1, <3>2
  <2> QED
    BY <2>1, <2>2
<1> HIDE DEF s
<1>5. Kept(Store, s, conversations)
  BY DEF s
<1> QED
  BY <1>2, <1>3, <1>4, <1>5, KeptTransitive

\* A request of the mail's conversation may be written on the word of the mail's sender.
LEMMA AnsweredKept ==
  ASSUME ThreadsInvariant, NEW w \in Workers, handling[w].stage # "idle",
         NEW r \in Rows(requests), requests[r].conversation = handling[w].conversation,
         NEW operation \in {"closed", "waiting", "scheduled"}, NEW written \in BOOLEAN
  PROVE  /\ Kept(Store, [Store EXCEPT !.requests = Answered(w, r, operation, written)],
                 conversations)
         /\ r \in Rows(Answered(w, r, operation, written))
         /\ Answered(w, r, operation, written)[r].conversation = handling[w].conversation
<1> DEFINE x == [requests[r] EXCEPT !.writers = @ \cup (IF written THEN {Sender(w)} ELSE {}),
                                    !.operation = operation]
           rows == [requests EXCEPT ![r] = x]
<1>1. requests[r] \in Request /\ Owned(requests[r], Store, conversations)
      /\ requests \in Seq(Request)
  BY StoreRows
<1>2. Sender(w) = conversations[requests[r].conversation].owner /\ Sender(w) \in Customers
  BY InHand
<1>3. x \in Request
  BY <1>1, <1>2 DEF Request
<1>4. x.conversation = requests[r].conversation /\ x.by = requests[r].by
      /\ x.writers = requests[r].writers
  BY <1>1, <1>2 DEF Request, Owned
<1>5. Answered(w, r, operation, written) = rows
  BY <1>1 DEF Answered
<1> HIDE DEF x
<1>6. Kept(Store, [Store EXCEPT !.requests = [@ EXCEPT ![r] = x]], conversations)
  BY <1>3, <1>4, ChangeRequest, StoreRows DEF ThreadsInvariant
<1>7. rows \in Seq(Request) /\ Len(rows) = Len(requests) /\ rows[r] = x
  BY <1>1, <1>3, ExceptSeq DEF Rows
<1>8. [Store EXCEPT !.requests = [@ EXCEPT ![r] = x]] = [Store EXCEPT !.requests = rows]
  BY DEF Store
<1> QED
  BY <1>4, <1>5, <1>6, <1>7, <1>8 DEF Rows

\* A request may be opened for the mail.
LEMMA OpenedKept ==
  ASSUME ThreadsInvariant, NEW w \in Workers, handling[w].stage # "idle", NEW rows,
         Kept(Store, [Store EXCEPT !.requests = rows], conversations),
         NEW operation \in {"closed", "waiting", "scheduled"}, NEW escalated \in BOOLEAN
  PROVE  /\ Kept(Store, [Store EXCEPT !.requests =
                           Append(rows, NewRequest(w, operation, escalated))], conversations)
         /\ Len(Append(rows, NewRequest(w, operation, escalated))) = Len(rows) + 1
         /\ Len(rows) + 1 \in Nat
         /\ \A r \in Rows(rows) : r \in Rows(Append(rows, NewRequest(w, operation, escalated)))
         /\ Len(rows) + 1 \in Rows(Append(rows, NewRequest(w, operation, escalated)))
         /\ Append(rows, NewRequest(w, operation, escalated))[Len(rows) + 1].conversation
              = handling[w].conversation
<1> DEFINE s == [Store EXCEPT !.requests = rows]
           x == NewRequest(w, operation, escalated)
<1>1. s.requests = rows /\ s.messages = messages /\ s.questions = questions
  BY DEF Store
<1>2. Store \in StoreType /\ s \in StoreType /\ Consistent(s, conversations)
      /\ conversations \in Seq(ConversationRow)
  BY DEF ThreadsInvariant, Kept
<1>3. rows \in Seq(Request)
  BY <1>1, <1>2 DEF StoreType
<1>4. x \in Request /\ x.conversation = handling[w].conversation
  <2>1. handling[w].conversation \in Nat /\ handling[w].mail \in Nat /\ Sender(w) \in Customers
    BY InHand DEF Handling
  <2> QED
    BY <2>1 DEF NewRequest, Request
<1>5. Owned(x, s, conversations)
  BY <1>1, InHand DEF NewRequest, Owned
<1>6. /\ Append(rows, x) \in Seq(Request) /\ Len(Append(rows, x)) = Len(rows) + 1
      /\ Append(rows, x)[Len(rows) + 1] = x /\ Len(rows) \in Nat
  BY <1>3, <1>4
<1>7. [s EXCEPT !.requests = Append(@, x)] = [Store EXCEPT !.requests = Append(rows, x)]
  BY <1>1
<1>8. Kept(Store, s, conversations)
  OBVIOUS
<1> HIDE DEF s, x
<1>9. Kept(s, [s EXCEPT !.requests = Append(@, x)], conversations)
  BY <1>2, <1>4, <1>5, AddRequest
<1>10. Kept(Store, [Store EXCEPT !.requests = Append(rows, x)], conversations)
  BY <1>2, <1>7, <1>8, <1>9, KeptTransitive
<1> QED
  BY <1>4, <1>6, <1>10 DEF x, Rows

\* A step may leave the rows as they are.
LEMMA NothingChanged ==
  ASSUME ThreadsInvariant
  PROVE  /\ Kept(Store, Store, conversations)
         /\ Kept(Store, [Store EXCEPT !.requests = requests], conversations)
<1>1. Kept(Store, Store, conversations)
  BY KeptReflexive DEF ThreadsInvariant
<1>2. Store = [Store EXCEPT !.requests = requests]
  BY DEF Store
<1> QED
  BY <1>1, <1>2

\* The reply to a question keeps the invariant.
LEMMA AnswerQuestionKept ==
  ASSUME ThreadsInvariant, NEW w \in Workers, AnswerQuestion(w)
  PROVE  ThreadsInvariant'
<1> DEFINE r == questions[handling[w].question].request
           c == handling[w].conversation
<1>1. handling[w].stage = "prepared" /\ handling[w].question # 0
      /\ UNCHANGED <<conversations, questions>> /\ To(w, "decided", <<r>>)
  BY DEF AnswerQuestion
<1>2. PICK operation \in Decidable(w) \cup {requests[r].operation} :
        requests' = Answered(w, r, operation, TRUE) /\ Escalate(w, r, operation = "closed")
  BY DEF AnswerQuestion
<1>3. r \in Rows(requests) /\ r \in Nat /\ requests[r].conversation = c
      /\ c \in 0..Len(conversations)
  <2>1. handling[w].stage # "idle"
    BY <1>1
  <2>2. r \in Rows(requests) /\ requests[r].conversation = c /\ c \in 0..Len(conversations)
    BY <1>1, <2>1, InHand
  <2> QED
    BY <2>2 DEF Rows
<1>4. operation \in {"closed", "waiting", "scheduled"}
  BY <1>3, StoreRows DEF Decidable, Request
<1> HIDE DEF r
<1>5. /\ Kept(Store, [Store EXCEPT !.requests = requests'], conversations)
      /\ r \in Rows(requests') /\ requests'[r].conversation = c
  BY <1>1, <1>2, <1>3, <1>4, AnsweredKept
<1>6. messages' = messages \/ messages' = Append(messages, Outbound(c, r))
  BY <1>2 DEF Escalate
<1> HIDE DEF c
<1>7. Kept(Store, Store', conversations)
  BY <1>1, <1>3, <1>5, <1>6, Stored
<1>8. <<r>> \in Seq(Nat) /\ Len(<<r>>) \in 1..2 /\ \A n \in Rows(<<r>>) : <<r>>[n] = r
  BY <1>3 DEF Rows
<1> QED
  BY <1>1, <1>5, <1>7, <1>8, DecidedStep

\* So does a correction.
LEMMA CorrectKept ==
  ASSUME ThreadsInvariant, NEW w \in Workers, Correct(w)
  PROVE  ThreadsInvariant'
<1> DEFINE r == handling[w].request
           c == handling[w].conversation
<1>1. handling[w].stage = "prepared" /\ r # 0 /\ requests' = Answered(w, r, "closed", TRUE)
      /\ Escalate(w, r, TRUE) /\ UNCHANGED <<conversations, questions>>
      /\ To(w, "decided", <<r>>)
  BY DEF Correct
<1>2. r \in Rows(requests) /\ r \in Nat /\ requests[r].conversation = c
      /\ c \in 0..Len(conversations)
  <2>1. handling[w].stage # "idle"
    BY <1>1
  <2>2. r \in Rows(requests) /\ requests[r].conversation = c /\ c \in 0..Len(conversations)
    BY <1>1, <2>1, InHand
  <2> QED
    BY <2>2 DEF Rows
<1> HIDE DEF r
<1>3. /\ Kept(Store, [Store EXCEPT !.requests = requests'], conversations)
      /\ r \in Rows(requests') /\ requests'[r].conversation = c
  BY <1>1, <1>2, AnsweredKept
<1>4. messages' = messages \/ messages' = Append(messages, Outbound(c, r))
  BY <1>1 DEF Escalate
<1> HIDE DEF c
<1>5. Kept(Store, Store', conversations)
  BY <1>1, <1>2, <1>3, <1>4, Stored
<1>6. <<r>> \in Seq(Nat) /\ Len(<<r>>) \in 1..2 /\ \A n \in Rows(<<r>>) : <<r>>[n] = r
  BY <1>2 DEF Rows
<1> QED
  BY <1>1, <1>3, <1>5, <1>6, DecidedStep

\* So does a request of its own.
LEMMA OpenRequestKept ==
  ASSUME ThreadsInvariant, NEW w \in Workers, OpenRequest(w)
  PROVE  ThreadsInvariant'
<1> DEFINE r == Len(requests')
           c == handling[w].conversation
<1>1. handling[w].stage = "prepared" /\ UNCHANGED <<conversations, questions>>
      /\ To(w, "decided", <<r>>)
  BY DEF OpenRequest
<1>2. PICK operation \in Decidable(w) :
        /\ requests' = Append(requests, NewRequest(w, operation, FALSE))
        /\ Escalate(w, r, operation = "closed")
  BY DEF OpenRequest
<1>3. operation \in {"closed", "waiting", "scheduled"}
  BY DEF Decidable
<1>4. /\ Kept(Store, [Store EXCEPT !.requests = requests'], conversations)
      /\ r \in Nat /\ r \in Rows(requests') /\ requests'[r].conversation = c
  <2>1. FALSE \in BOOLEAN /\ handling[w].stage # "idle"
    BY <1>1
  <2> DEFINE new == Append(requests, NewRequest(w, operation, FALSE))
  <2>2. /\ Kept(Store, [Store EXCEPT !.requests = new], conversations)
        /\ Len(new) = Len(requests) + 1 /\ Len(requests) + 1 \in Nat
        /\ Len(requests) + 1 \in Rows(new) /\ new[Len(requests) + 1].conversation = c
    BY <1>3, <2>1, NothingChanged, OpenedKept, Zenon
  <2> QED
    BY <1>2, <2>2
<1>5. messages' = messages \/ messages' = Append(messages, Outbound(c, r))
  BY <1>2 DEF Escalate
<1>6. c \in 0..Len(conversations)
  BY <1>1, InHand
<1> HIDE DEF c, r
<1>7. Kept(Store, Store', conversations)
  BY <1>1, <1>4, <1>5, <1>6, Stored
<1>8. <<r>> \in Seq(Nat) /\ Len(<<r>>) \in 1..2 /\ \A n \in Rows(<<r>>) : <<r>>[n] = r
  BY <1>4 DEF Rows
<1> QED
  BY <1>1, <1>4, <1>7, <1>8, DecidedStep

\* So does a reply with further proposals.
LEMMA AnswerAndMoreKept ==
  ASSUME ThreadsInvariant, NEW w \in Workers, AnswerAndMore(w)
  PROVE  ThreadsInvariant'
<1> DEFINE r == questions[handling[w].question].request
           n == Len(requests')
           c == handling[w].conversation
<1>1. handling[w].stage = "prepared" /\ handling[w].question # 0
      /\ UNCHANGED <<conversations, questions>> /\ To(w, "decided", <<r, n>>)
  BY DEF AnswerAndMore
<1>2. PICK matched \in BOOLEAN, operation \in Decidable(w) \cup {requests[r].operation},
           new \in Decidable(w), a \in {r, n} :
        /\ requests' = Append(Answered(w, r, operation, matched), NewRequest(w, new, FALSE))
        /\ messages' = messages \/ messages' = Append(messages, Outbound(c, a))
  BY DEF AnswerAndMore, Escalate
<1>3. r \in Rows(requests) /\ r \in Nat /\ requests[r].conversation = c
      /\ c \in 0..Len(conversations)
  <2>1. handling[w].stage # "idle"
    BY <1>1
  <2>2. r \in Rows(requests) /\ requests[r].conversation = c /\ c \in 0..Len(conversations)
    BY <1>1, <2>1, InHand
  <2> QED
    BY <2>2 DEF Rows
<1>4. operation \in {"closed", "waiting", "scheduled"} /\ new \in {"closed", "waiting", "scheduled"}
  BY <1>3, StoreRows DEF Decidable, Request
<1> HIDE DEF r
<1> DEFINE rows == Answered(w, r, operation, matched)
<1>5. /\ Kept(Store, [Store EXCEPT !.requests = rows], conversations)
      /\ r \in Rows(rows) /\ rows[r].conversation = c
  BY <1>1, <1>3, <1>4, AnsweredKept
<1> HIDE DEF rows
<1>6. /\ Kept(Store, [Store EXCEPT !.requests = requests'], conversations)
      /\ n \in Nat /\ n \in Rows(requests') /\ r \in Rows(requests')
      /\ requests'[n].conversation = c
  <2>1. requests' = Append(rows, NewRequest(w, new, FALSE))
    BY <1>2 DEF rows
  <2>2. FALSE \in BOOLEAN /\ handling[w].stage # "idle"
    BY <1>1
  <2> DEFINE more == Append(rows, NewRequest(w, new, FALSE))
  <2>3. /\ Kept(Store, [Store EXCEPT !.requests = more], conversations)
        /\ Len(more) = Len(rows) + 1 /\ Len(rows) + 1 \in Nat
        /\ r \in Rows(more) /\ Len(rows) + 1 \in Rows(more)
        /\ more[Len(rows) + 1].conversation = c
    BY <1>4, <1>5, <2>2, OpenedKept, Zenon
  <2> QED
    BY <2>1, <2>3
<1>7. requests'[r].conversation = c
  <2> DEFINE s == [Store EXCEPT !.requests = requests']
  <2>1. Store \in StoreType /\ Store.requests = requests /\ s.requests = requests'
    BY DEF ThreadsInvariant, Store
  <2>2. Kept(Store, s, conversations)
    BY <1>6
  <2> HIDE DEF s
  <2> QED
    BY <1>3, <2>1, <2>2, KeptType
<1> HIDE DEF c, n
<1>8. Kept(Store, Store', conversations)
  BY <1>1, <1>2, <1>3, <1>6, <1>7, Stored
<1>9. <<r, n>> \in Seq(Nat) /\ Len(<<r, n>>) \in 1..2
      /\ \A i \in Rows(<<r, n>>) : <<r, n>>[i] \in {r, n}
  BY <1>3, <1>6 DEF Rows
<1> QED
  BY <1>1, <1>6, <1>8, <1>9, DecidedStep

\* No worker is involved.
LEMMA StillInHand ==
  ASSUME ThreadsInvariant, conversations' \in Seq(ConversationRow),
         Consistent(Store, conversations'),
         \A v \in Workers : Held(handling[v], Store, conversations'),
         Kept(Store, Store', conversations'), handling' = handling
  PROVE  ThreadsInvariant'
<1>1. Store \in StoreType /\ Store' \in StoreType /\ Consistent(Store', conversations')
  BY DEF ThreadsInvariant, Kept
<1>2. \A v \in Workers : Held(handling[v], Store', conversations')
  BY <1>1, HeldKept
<1>3. StoreType' = StoreType /\ Handling' = Handling /\ ConversationRow' = ConversationRow
  BY DEF StoreType, Handling, ConversationRow, Message, Request, Question
<1>4. /\ Consistent(Store, conversations)' <=> Consistent(Store', conversations')
      /\ \A v \in Workers : Held(handling[v], Store, conversations)'
                            <=> Held(handling'[v], Store', conversations')
  BY DEF Consistent, Held, Placed, Answers, Owned, About, Rows
<1> QED
  BY <1>1, <1>2, <1>3, <1>4 DEF ThreadsInvariant

\* ... and no conversation is new.
LEMMA Undisturbed ==
  ASSUME ThreadsInvariant, UNCHANGED <<conversations, handling>>,
         Kept(Store, Store', conversations)
  PROVE  ThreadsInvariant'
  BY StillInHand DEF ThreadsInvariant

\* A mail without an operation to decide about keeps the invariant.
LEMMA NothingSeparableKept ==
  ASSUME ThreadsInvariant, NEW w \in Workers, NothingSeparable(w)
  PROVE  ThreadsInvariant'
<1> DEFINE c == handling[w].conversation
           r == IF handling[w].question # 0 THEN questions[handling[w].question].request
                ELSE handling[w].request
<1>1. handling[w].stage # "idle" /\ UNCHANGED <<conversations, questions>> /\ To(w, "idle", <<>>)
  BY DEF NothingSeparable
<1>2. c \in 0..Len(conversations) /\ conversations \in Seq(ConversationRow)
  BY <1>1, InHand DEF ThreadsInvariant
<1>3. CASE /\ r # 0
           /\ requests' = [requests EXCEPT ![r].open = FALSE, ![r].alarmed = TRUE]
           /\ messages' = Append(messages, Outbound(c, r))
  <2>1. r \in Rows(requests) /\ r \in Nat /\ requests[r].conversation = c
    <3>1. CASE handling[w].question # 0
      <4>1. r = questions[handling[w].question].request
        BY <3>1
      <4>2. r \in Rows(requests) /\ requests[r].conversation = c
        BY <1>1, <3>1, <4>1, InHand
      <4> QED
        BY <4>2 DEF Rows
    <3>2. CASE handling[w].question = 0
      <4>1. r = handling[w].request
        BY <3>2
      <4>2. r \in Rows(requests) /\ requests[r].conversation = c
        BY <1>1, <1>3, <4>1, InHand
      <4> QED
        BY <4>2 DEF Rows
    <3> QED
      BY <3>1, <3>2
  <2> HIDE DEF r
  <2> DEFINE x == [requests[r] EXCEPT !.open = FALSE, !.alarmed = TRUE]
  <2>2. x \in Request /\ x.conversation = requests[r].conversation /\ x.by = requests[r].by
        /\ x.writers = requests[r].writers
    BY <2>1, StoreRows DEF Request
  <2>3. requests' = [requests EXCEPT ![r] = x] /\ requests \in Seq(Request)
    BY <1>3, <2>1, StoreRows
  <2> HIDE DEF x
  <2>4. Len(requests') = Len(requests) /\ requests'[r] = x
    BY <2>1, <2>2, <2>3, ExceptSeq DEF Rows
  <2>5. Kept(Store, [Store EXCEPT !.requests = [@ EXCEPT ![r] = x]], conversations)
    BY <2>1, <2>2, StoreRows, ChangeRequest DEF ThreadsInvariant
  <2>6. Kept(Store, [Store EXCEPT !.requests = requests'], conversations)
    BY <2>3, <2>5 DEF Store
  <2>7. Kept(Store, Store', conversations)
    <3> HIDE DEF c
    <3> QED
      BY <1>1, <1>2, <1>3, <2>1, <2>2, <2>4, <2>6, Stored DEF Rows
  <2> QED
    BY <1>1, <2>7, IdleStep
<1>4. CASE /\ requests' = Append(requests, NewRequest(w, "closed", TRUE))
           /\ messages' = Append(messages, Outbound(c, Len(requests')))
  <2> DEFINE new == Append(requests, NewRequest(w, "closed", TRUE))
  <2>1. TRUE \in BOOLEAN /\ "closed" \in {"closed", "waiting", "scheduled"}
    OBVIOUS
  <2>2. /\ Kept(Store, [Store EXCEPT !.requests = new], conversations)
        /\ Len(new) = Len(requests) + 1 /\ Len(requests) + 1 \in Nat
        /\ Len(requests) + 1 \in Rows(new) /\ new[Len(requests) + 1].conversation = c
    BY <1>1, <2>1, NothingChanged, OpenedKept, Zenon
  <2>3. /\ Kept(Store, [Store EXCEPT !.requests = requests'], conversations)
        /\ Len(requests') \in Nat /\ Len(requests') \in Rows(requests')
        /\ requests'[Len(requests')].conversation = c
    BY <1>4, <2>2
  <2> HIDE DEF c
  <2>4. Kept(Store, Store', conversations)
    BY <1>1, <1>2, <1>4, <2>3, Stored
  <2> QED
    BY <1>1, <2>4, IdleStep
<1> QED
  BY <1>3, <1>4 DEF NothingSeparable

\* So does a mail that fails.
LEMMA FailMailKept ==
  ASSUME ThreadsInvariant, NEW w \in Workers, FailMail(w)
  PROVE  ThreadsInvariant'
<1> DEFINE c == handling[w].conversation
           r == handling[w].request
<1>1. handling[w].stage # "idle" /\ UNCHANGED <<conversations, questions>> /\ To(w, "idle", <<>>)
      /\ messages' = Append(messages, Outbound(c, r))
  BY DEF FailMail
<1>2. c \in 0..Len(conversations) /\ conversations \in Seq(ConversationRow) /\ r \in Nat
      /\ (r # 0 => r \in Rows(requests) /\ requests[r].conversation = c)
  BY <1>1, InHand DEF ThreadsInvariant, Handling
<1>3. /\ DOMAIN requests' = 1..Len(requests) /\ requests' = [i \in Rows(requests) |-> requests'[i]]
      /\ \A i \in Rows(requests) :
           requests'[i] = requests[i] \/ requests'[i] = [requests[i] EXCEPT !.alarmed = TRUE]
  BY DEF FailMail, Rows
<1>4. \A i \in Rows(requests) : /\ requests'[i] \in Request
                                /\ requests'[i].conversation = requests[i].conversation
                                /\ requests'[i].by = requests[i].by
                                /\ requests'[i].writers = requests[i].writers
  <2> SUFFICES ASSUME NEW i \in Rows(requests)
               PROVE  /\ requests'[i] \in Request
                      /\ requests'[i].conversation = requests[i].conversation
                      /\ requests'[i].by = requests[i].by
                      /\ requests'[i].writers = requests[i].writers
    OBVIOUS
  <2>1. requests[i] \in Request
    BY StoreRows
  <2>2. CASE requests'[i] = requests[i]
    BY <2>1, <2>2
  <2>3. CASE requests'[i] = [requests[i] EXCEPT !.alarmed = TRUE]
    BY <2>1, <2>3 DEF Request
  <2> QED
    BY <1>3, <2>2, <2>3
<1>5. requests' \in Seq(Request) /\ Len(requests') = Len(requests) /\ Len(requests) \in Nat
  <2>1. Len(requests) \in Nat /\ requests' \in [1..Len(requests) -> Request]
    BY <1>3, <1>4, StoreRows DEF Rows
  <2> QED
    BY <2>1, SeqDef
<1>6. Kept(Store, [Store EXCEPT !.requests = requests'], conversations)
  BY <1>2, <1>4, <1>5, StoreRows, ChangeRequests DEF Rows, ThreadsInvariant
<1>7. Kept(Store, Store', conversations)
  <2>1. r # 0 => r \in Rows(requests') /\ requests'[r].conversation = c
    BY <1>2, <1>4, <1>5 DEF Rows
  <2> HIDE DEF c, r
  <2> QED
    BY <1>1, <1>2, <1>6, <2>1, Stored
<1> QED
  BY <1>1, <1>7, IdleStep

\* So does _finalize.
LEMMA FinalizeMailKept ==
  ASSUME ThreadsInvariant, NEW w \in Workers, FinalizeMail(w)
  PROVE  ThreadsInvariant'
<1> DEFINE h == handling[w]
           s1 == FinalizeOne(Store, h.ids[1], h.question)
           s2 == IF Len(h.ids) = 1 THEN s1 ELSE FinalizeOne(s1, h.ids[2], h.question)
<1>1. /\ h.stage = "decided" /\ UNCHANGED conversations /\ To(w, "idle", <<>>)
      /\ messages' = s2.messages /\ requests' = s2.requests /\ questions' = s2.questions
  BY DEF FinalizeMail, Store
<1>2. Store \in StoreType /\ Consistent(Store, conversations)
      /\ conversations \in Seq(ConversationRow) /\ Held(h, Store, conversations)
  BY DEF ThreadsInvariant
<1>3. /\ Len(h.ids) \in 1..2 /\ \A n \in Rows(h.ids) : h.ids[n] \in Rows(Store.requests)
      /\ h.question # 0 => h.question \in Rows(Store.questions)
  BY <1>1, <1>2 DEF Held
<1>4. h.ids[1] \in Rows(Store.requests) /\ (Len(h.ids) # 1 => h.ids[2] \in Rows(Store.requests))
  BY <1>3 DEF Rows
<1> HIDE DEF h
<1>5. Kept(Store, s1, conversations)
  BY <1>2, <1>3, <1>4, FinalizeKept
<1>6. Kept(Store, s2, conversations)
  <2>1. CASE Len(h.ids) = 1
    BY <1>5, <2>1
  <2>2. CASE Len(h.ids) # 1
    <3> HIDE DEF s1
    <3>1. s1 \in StoreType /\ Consistent(s1, conversations)
          /\ \A r \in Rows(Store.requests) : r \in Rows(s1.requests)
          /\ \A q \in Rows(Store.questions) : q \in Rows(s1.questions)
      BY <1>2, <1>5, KeptType
    <3>2. h.ids[2] \in Rows(s1.requests)
          /\ (h.question # 0 => h.question \in Rows(s1.questions))
      BY <1>3, <1>4, <2>2, <3>1
    <3>3. Kept(s1, FinalizeOne(s1, h.ids[2], h.question), conversations)
      BY <1>2, <3>1, <3>2, FinalizeKept
    <3> QED
      BY <1>2, <1>5, <2>2, <3>3, KeptTransitive
  <2> QED
    BY <2>1, <2>2
<1> HIDE DEF s2
<1>7. Store' = s2
  BY <1>1, <1>6 DEF Store, Kept, StoreType
<1> QED
  BY <1>1, <1>6, <1>7, IdleStep

\* So does the summary of operations that were carried out.
LEMMA SettleKept ==
  ASSUME ThreadsInvariant, NEW r \in Rows(requests), Settle(r)
  PROVE  ThreadsInvariant'
<1> DEFINE s == Notify(Store, r, "summarised")
           x == [s.requests[r] EXCEPT !.open = FALSE, !.operation = "closed"]
<1>1. /\ UNCHANGED <<conversations, questions, handling>> /\ messages' = s.messages
      /\ requests' = [s.requests EXCEPT ![r].open = FALSE, ![r].operation = "closed"]
  BY DEF Settle, Store
<1>2. Store \in StoreType /\ Consistent(Store, conversations)
      /\ conversations \in Seq(ConversationRow) /\ r \in Rows(Store.requests)
  BY StoreRows DEF ThreadsInvariant
<1>3. s.questions = questions
  BY DEF Notify, Store
<1>4. Kept(Store, s, conversations)
  BY <1>2, NotifyKept
<1> HIDE DEF s
<1>5. s \in StoreType /\ Consistent(s, conversations) /\ r \in Rows(s.requests)
  BY <1>2, <1>4, KeptType
<1>6. x \in Request /\ x.conversation = s.requests[r].conversation /\ x.by = s.requests[r].by
      /\ x.writers = s.requests[r].writers
  BY <1>5, RowTypes DEF Request
<1>7. requests' = [s.requests EXCEPT ![r] = x]
  BY <1>1, <1>5 DEF StoreType
<1> HIDE DEF x
<1>8. Kept(s, [s EXCEPT !.requests = [@ EXCEPT ![r] = x]], conversations)
  BY <1>2, <1>5, <1>6, ChangeRequest
<1>9. Store' = [s EXCEPT !.requests = [@ EXCEPT ![r] = x]]
  <2>1. Store' = [messages |-> s.messages, requests |-> [s.requests EXCEPT ![r] = x],
                  questions |-> s.questions]
    BY <1>1, <1>3, <1>7 DEF Store
  <2>2. s = [messages |-> s.messages, requests |-> s.requests, questions |-> s.questions]
    BY <1>5 DEF StoreType
  <2> DEFINE rows == [s.requests EXCEPT ![r] = x]
  <2>3. [s EXCEPT !.requests = rows]
          = [messages |-> s.messages, requests |-> rows, questions |-> s.questions]
    <3> HIDE DEF rows
    <3> QED
      BY <2>2
  <2> QED
    BY <2>1, <2>3
<1>10. Kept(Store, Store', conversations)
  BY <1>2, <1>4, <1>8, <1>9, KeptTransitive
<1> QED
  BY <1>1, <1>10, Undisturbed

\* So does a mail that is ignored.
LEMMA IgnoreKept ==
  ASSUME ThreadsInvariant, NEW w \in Workers, Ignore(w)
  PROVE  ThreadsInvariant'
<1>1. UNCHANGED <<messages, conversations, requests, questions>> /\ To(w, "idle", <<>>)
  BY DEF Ignore
<1>2. Store' = Store
  BY <1>1 DEF Store
<1> QED
  BY <1>1, <1>2, NothingChanged, IdleStep

\* Concatenation with one or two elements.
LEMMA TwoAppended ==
  ASSUME NEW S, NEW s \in Seq(S), NEW a \in S, NEW b \in S
  PROVE  /\ s \o <<a, b>> = Append(Append(s, a), b) /\ s \o <<a>> = Append(s, a)
         /\ s \o <<a>> \o <<b>> = Append(Append(s, a), b) /\ s \o <<a>> \o <<>> = Append(s, a)
  OBVIOUS

\* One mail and perhaps an escalation are stored, in conversations that may be more.
LEMMA MailStored ==
  ASSUME NEW C \in Seq(ConversationRow), Store \in StoreType, Consistent(Store, C),
         NEW m \in Message, m.about = 0, m.conversation \in 0..Len(C), Answers(m, messages),
         NEW c \in 0..Len(C), UNCHANGED <<requests, questions>>,
         \/ messages' = Append(messages, m)
         \/ messages' = Append(Append(messages, m), Outbound(c, 0))
  PROVE  Kept(Store, Store', C)
<1> DEFINE s == [Store EXCEPT !.messages = Append(@, m)]
           t == [s EXCEPT !.messages = Append(@, Outbound(c, 0))]
<1>1. Kept(Store, s, C)
  BY AddMessage DEF Placed, Store
<1>2. Store.messages = messages /\ Store' = [Store EXCEPT !.messages = messages']
  BY DEF Store
<1>3. s.messages = Append(messages, m) /\ s \in StoreType /\ Consistent(s, C)
  BY <1>1, <1>2 DEF Kept, StoreType
<1>4. Kept(s, t, C)
  <2> HIDE DEF s
  <2>1. 0 \in Nat /\ (0 # 0 => 0 \in Rows(s.requests) /\ s.requests[0].conversation = c)
    OBVIOUS
  <2> QED
    BY <1>3, <2>1, Written, Zenon
<1>5. CASE messages' = Append(messages, m)
  BY <1>1, <1>2, <1>5
<1>6. CASE messages' = Append(Append(messages, m), Outbound(c, 0))
  <2>1. t = [s EXCEPT !.messages = messages']
    BY <1>3, <1>6
  <2>2. [s EXCEPT !.messages = messages'] = [Store EXCEPT !.messages = messages']
    OBVIOUS
  <2> HIDE DEF s, t
  <2> QED
    BY <1>1, <1>2, <1>4, <2>1, <2>2, KeptTransitive
<1> QED
  BY <1>5, <1>6

\* A mail that is not correlated keeps the invariant.
LEMMA UnhandledKept ==
  ASSUME ThreadsInvariant, Unhandled
  PROVE  ThreadsInvariant'
<1> DEFINE m == Inbound("somebody", 0, {}, FALSE, 0, 0, "none")
<1>1. m \in Message /\ m.about = 0 /\ m.conversation = 0 /\ Answers(m, messages)
  BY DEF Inbound, Message, Answers
<1>2. Outbound(0, 0) \in Message /\ messages \in Seq(Message)
  BY StoreRows DEF Outbound, Inbound, Message
<1>3. PICK escalated \in BOOLEAN :
        messages' = messages \o <<m>> \o (IF escalated THEN <<Outbound(0, 0)>> ELSE <<>>)
  BY DEF Unhandled
<1> HIDE DEF m
<1>4. \/ messages' = Append(messages, m) \/ messages' = Append(Append(messages, m), Outbound(0, 0))
  <2>1. CASE escalated
    BY <1>1, <1>2, <1>3, <2>1, TwoAppended
  <2>2. CASE ~escalated
    BY <1>1, <1>2, <1>3, <2>2, TwoAppended
  <2> QED
    BY <2>1, <2>2
<1>5. 0 \in 0..Len(conversations)
  BY StoreRows
<1>6. UNCHANGED <<conversations, requests, questions, handling>>
  BY DEF Unhandled
<1>7. Kept(Store, Store', conversations)
  BY <1>1, <1>4, <1>5, <1>6, MailStored DEF ThreadsInvariant
<1> QED
  BY <1>6, <1>7, Undisturbed

\* What is stored and in hand stays so when a conversation is added.
LEMMA Widened ==
  ASSUME ThreadsInvariant, NEW C \in Seq(ConversationRow), Len(conversations) <= Len(C),
         \A i \in Rows(conversations) : C[i] = conversations[i]
  PROVE  Consistent(Store, C) /\ \A w \in Workers : Held(handling[w], Store, C)
<1>1. Len(conversations) \in Nat /\ Len(C) \in Nat
  BY StoreRows
<1>2. \A i \in Rows(conversations) : i \in Rows(C)
  BY <1>1 DEF Rows
<1>3. \A i \in 0..Len(conversations) : i \in 0..Len(C)
  BY <1>1
<1>4. Consistent(Store, conversations) /\ \A w \in Workers : Held(handling[w], Store, conversations)
  BY DEF ThreadsInvariant
<1>5. Consistent(Store, C)
  <2>1. \A i \in Rows(Store.messages) : Placed(Store.messages[i], Store, C)
    BY <1>3, <1>4 DEF Consistent, Placed
  <2>2. \A r \in Rows(Store.requests) : Owned(Store.requests[r], Store, C)
    BY <1>2, <1>4 DEF Consistent, Owned
  <2> QED
    BY <1>4, <2>1, <2>2 DEF Consistent
<1>6. \A w \in Workers : Held(handling[w], Store, C)
  BY <1>2, <1>4 DEF Held
<1> QED
  BY <1>5, <1>6

\* So does _prepare, which stores a mail for what it was taken for.
LEMMA PrepareMailKept ==
  ASSUME ThreadsInvariant, NEW w \in Workers, PrepareMail(w)
  PROVE  ThreadsInvariant'
<1>0. PICK sender \in Customers, subject \in Subjects, direct \in SUBSET Rows(messages),
           refs \in SUBSET Rows(messages), markers \in SUBSET Rows(requests) :
      Cardinality(direct) <= 1 /\ \E found \in Correlations(sender, subject, direct, refs, markers) :
        LET c == IF found.conversation = 0 THEN Len(conversations) + 1 ELSE found.conversation
            mail == Inbound(sender, c, direct, markers # {}, found.request, found.question,
                            found.strength)
        IN /\ conversations' = IF found.conversation # 0 THEN conversations
                               ELSE Append(conversations, [owner |-> sender, subject |-> subject])
           /\ IF found.strength = "conflict"
                THEN /\ messages' = messages \o <<mail, Outbound(c, 0)>>
                     /\ handling' = handling
                ELSE /\ messages' = Append(messages, mail)
                     /\ handling' = [handling EXCEPT ![w] =
                          [stage |-> "prepared", mail |-> Len(messages'), conversation |-> c,
                           request |-> found.request, question |-> found.question,
                           strength |-> found.strength, ids |-> <<>>]]
  BY DEF PrepareMail
<1>1. PICK found \in Correlations(sender, subject, direct, refs, markers) :
        LET c == IF found.conversation = 0 THEN Len(conversations) + 1 ELSE found.conversation
            mail == Inbound(sender, c, direct, markers # {}, found.request, found.question,
                            found.strength)
        IN /\ conversations' = IF found.conversation # 0 THEN conversations
                               ELSE Append(conversations, [owner |-> sender, subject |-> subject])
           /\ IF found.strength = "conflict"
                THEN /\ messages' = messages \o <<mail, Outbound(c, 0)>>
                     /\ handling' = handling
                ELSE /\ messages' = Append(messages, mail)
                     /\ handling' = [handling EXCEPT ![w] =
                          [stage |-> "prepared", mail |-> Len(messages'), conversation |-> c,
                           request |-> found.request, question |-> found.question,
                           strength |-> found.strength, ids |-> <<>>]]
  BY <1>0
<1> DEFINE c == IF found.conversation = 0 THEN Len(conversations) + 1 ELSE found.conversation
           mail == Inbound(sender, c, direct, markers # {}, found.request, found.question,
                           found.strength)
           h == [stage |-> "prepared", mail |-> Len(messages) + 1, conversation |-> c,
                 request |-> found.request, question |-> found.question,
                 strength |-> found.strength, ids |-> <<>>]
<1>2. Storable(found, sender) /\ UNCHANGED <<requests, questions>>
  BY FoundCorrelation DEF PrepareMail
<1>3. conversations \in Seq(ConversationRow) /\ Len(conversations) \in Nat
      /\ messages \in Seq(Message) /\ Len(messages) \in Nat
      /\ Store \in StoreType /\ Store.messages = messages /\ Store.requests = requests
      /\ Store.questions = questions
  BY StoreRows DEF ThreadsInvariant
<1>4. /\ conversations' \in Seq(ConversationRow) /\ Len(conversations') \in Nat
      /\ Len(conversations) <= Len(conversations')
      /\ \A i \in Rows(conversations) : conversations'[i] = conversations[i]
      /\ c \in 1..Len(conversations')
      /\ found.conversation = 0 => conversations'[c].owner = sender
  <2>1. [owner |-> sender, subject |-> subject] \in ConversationRow
    BY DEF ConversationRow
  <2>2. CASE found.conversation = 0
    <3>1. conversations' = Append(conversations, [owner |-> sender, subject |-> subject])
      BY <1>1, <2>2
    <3>2. c = Len(conversations) + 1
      BY <2>2
    <3> HIDE DEF c
    <3> QED
      BY <1>3, <2>1, <2>2, <3>1, <3>2, AppendProperties DEF Rows
  <2>3. CASE found.conversation # 0
    <3>1. conversations' = conversations /\ c = found.conversation
      BY <1>1, <2>3
    <3>2. found.conversation \in 0..Len(conversations)
      BY <1>2 DEF Storable
    <3> HIDE DEF c
    <3> QED
      BY <1>3, <2>3, <3>1, <3>2
  <2> QED
    BY <2>2, <2>3
<1>5. /\ Consistent(Store, conversations')
      /\ \A v \in Workers : Held(handling[v], Store, conversations')
  BY <1>4, Widened
<1>6. mail \in Message /\ mail.about = 0 /\ mail.conversation = c /\ mail.sender = sender
  <2>1. c \in Nat /\ direct \in SUBSET Nat /\ (markers # {}) \in BOOLEAN
    BY <1>3, <1>4 DEF Rows
  <2>2. found.request \in Nat /\ found.question \in Nat
        /\ found.strength \in {"new", "weak", "strong", "conflict"}
    BY <1>2 DEF Storable, Fits
  <2> HIDE DEF c
  <2> DEFINE marked == markers # {}
  <2>3. marked \in BOOLEAN
    BY <2>1
  <2> HIDE DEF marked
  <2>4. Inbound(sender, c, direct, marked, found.request, found.question, found.strength)
          \in Message
    BY <2>1, <2>2, <2>3 DEF Inbound, Message
  <2> QED
    BY <2>4 DEF marked, Inbound
<1>7. c \in 0..Len(conversations') /\ Answers(mail, messages)
  <2>1. ASSUME NEW d \in direct, markers = {}, found.strength # "conflict",
               messages[d].about # 0
        PROVE  /\ found.strength = "strong" /\ found.request = messages[d].about
               /\ found.conversation = messages[d].conversation /\ found.conversation # 0
    BY <1>0, <2>1, ReplyFindsRequest
  <2>2. /\ mail.direct = direct /\ mail.marked = (markers # {})
        /\ mail.taken = found.request /\ mail.strength = found.strength /\ mail.conversation = c
    BY DEF Inbound
  <2> HIDE DEF mail
  <2>3. Answers(mail, messages)
    BY <2>1, <2>2 DEF Answers
  <2> QED
    BY <1>4, <2>3
<1>8. CASE found.strength = "conflict"
  <2>1. messages' = messages \o <<mail, Outbound(c, 0)>> /\ handling' = handling
    BY <1>1, <1>8
  <2>2. Outbound(c, 0) \in Message
    <3>1. c \in Nat
      BY <1>4
    <3> HIDE DEF c
    <3> QED
      BY <3>1 DEF Outbound, Inbound, Message
  <2> HIDE DEF c, mail
  <2>3. messages' = Append(Append(messages, mail), Outbound(c, 0))
    BY <1>3, <1>6, <2>1, <2>2, TwoAppended
  <2>4. Kept(Store, Store', conversations')
    BY <1>2, <1>3, <1>4, <1>5, <1>6, <1>7, <2>3, MailStored
  <2> QED
    BY <1>4, <1>5, <2>1, <2>4, StillInHand
<1>9. CASE found.strength # "conflict"
  <2>1. messages' = Append(messages, mail) /\ Fits(found, sender)
    BY <1>1, <1>2, <1>9 DEF Storable
  <2>2. Len(messages') = Len(messages) + 1 /\ messages'[Len(messages) + 1] = mail
    <3> HIDE DEF mail
    <3> QED
      BY <1>3, <1>6, <2>1, AppendProperties
  <2>3. handling' = [handling EXCEPT ![w] = h]
    BY <1>1, <1>9, <2>2
  <2>4. h \in Handling
    <3>1. c \in Nat /\ found.request \in Nat /\ found.question \in Nat
          /\ found.strength \in {"new", "weak", "strong"} /\ <<>> \in Seq(Nat)
      BY <1>2, <1>4, <2>1 DEF Storable, Fits
    <3> HIDE DEF c
    <3> QED
      BY <1>3, <3>1 DEF Handling
  <2>5. conversations'[c].owner = sender
    BY <1>1, <1>2, <1>4, <2>1 DEF Fits
  <2>6. /\ found.request # 0 => found.request \in Rows(requests)
                                /\ requests[found.request].conversation = c
        /\ found.question # 0 =>
             /\ found.question \in Rows(questions)
             /\ requests[questions[found.question].request].conversation = c
    BY <2>1 DEF Fits
  <2> HIDE DEF c, mail
  <2>7. Kept(Store, Store', conversations')
    BY <1>2, <1>3, <1>4, <1>5, <1>6, <1>7, <2>1, MailStored
  <2>8. Held(h, Store', conversations')
    <3>1. Store'.messages = messages' /\ Store'.requests = requests /\ Store'.questions = questions
      BY <1>2 DEF Store
    <3>2. /\ h.mail \in Rows(messages') /\ h.conversation = c
          /\ h.conversation \in Rows(conversations')
          /\ messages'[h.mail].conversation = c
          /\ conversations'[c].owner = messages'[h.mail].sender
      BY <1>3, <1>4, <1>6, <2>2, <2>5 DEF Rows
    <3>3. h.ids = <<>> /\ h.request = found.request /\ h.question = found.question
          /\ h.stage = "prepared" /\ Rows(<<>>) = {}
      BY DEF Rows
    <3> HIDE DEF h
    <3> QED
      BY <2>6, <3>1, <3>2, <3>3 DEF Held
  <2> HIDE DEF h
  <2> QED
    BY <1>4, <1>5, <2>3, <2>4, <2>7, <2>8, Worked
<1> QED
  BY <1>8, <1>9
-----------------------------------------------------------------------------
(* The invariant *)

\* Nothing is stored at first.
LEMMA ThreadInitOK == ThreadInit => ThreadsInvariant
<1> SUFFICES ASSUME ThreadInit PROVE ThreadsInvariant
  OBVIOUS
<1>1. /\ messages = <<>> /\ conversations = <<>> /\ requests = <<>> /\ questions = <<>>
      /\ handling = [w \in Workers |-> Idle]
  BY DEF ThreadInit
<1>2. Store \in StoreType /\ conversations \in Seq(ConversationRow)
  BY <1>1 DEF Store, StoreType
<1>3. Consistent(Store, conversations)
  BY <1>1 DEF Consistent, Store, Rows
<1>4. Idle \in Handling /\ Held(Idle, Store, conversations)
  BY DEF Idle, Handling, Held
<1> QED
  BY <1>1, <1>2, <1>3, <1>4 DEF ThreadsInvariant

\* Every step keeps the invariant.
LEMMA ThreadStep ==
  ThreadsInvariant /\ [ThreadNext]_threadVars => ThreadsInvariant'
<1> SUFFICES ASSUME ThreadsInvariant, [ThreadNext]_threadVars PROVE ThreadsInvariant'
  OBVIOUS
<1>1. CASE Unhandled
  BY <1>1, UnhandledKept
<1>2. CASE \E r \in Rows(requests) : Settle(r)
  BY <1>2, SettleKept
<1>3. ASSUME NEW w \in Workers, PrepareMail(w) PROVE ThreadsInvariant'
  BY <1>3, PrepareMailKept
<1>4. ASSUME NEW w \in Workers, Ignore(w) PROVE ThreadsInvariant'
  BY <1>4, IgnoreKept
<1>5. ASSUME NEW w \in Workers, AnswerQuestion(w) PROVE ThreadsInvariant'
  BY <1>5, AnswerQuestionKept
<1>6. ASSUME NEW w \in Workers, AnswerAndMore(w) PROVE ThreadsInvariant'
  BY <1>6, AnswerAndMoreKept
<1>7. ASSUME NEW w \in Workers, Correct(w) PROVE ThreadsInvariant'
  BY <1>7, CorrectKept
<1>8. ASSUME NEW w \in Workers, OpenRequest(w) PROVE ThreadsInvariant'
  BY <1>8, OpenRequestKept
<1>9. ASSUME NEW w \in Workers, NothingSeparable(w) PROVE ThreadsInvariant'
  BY <1>9, NothingSeparableKept
<1>10. ASSUME NEW w \in Workers, FailMail(w) PROVE ThreadsInvariant'
  BY <1>10, FailMailKept
<1>11. ASSUME NEW w \in Workers, FinalizeMail(w) PROVE ThreadsInvariant'
  BY <1>11, FinalizeMailKept
<1>12. CASE UNCHANGED threadVars
  <2>1. Store' = Store /\ UNCHANGED <<conversations, handling>>
    BY <1>12 DEF threadVars, Store
  <2> QED
    BY <2>1, NothingChanged, Undisturbed
<1> QED
  BY <1>1, <1>2, <1>3, <1>4, <1>5, <1>6, <1>7, <1>8, <1>9, <1>10, <1>11, <1>12 DEF ThreadNext

\* Rows, once stored, agree on the conversation they belong to.
THEOREM ThreadsInvariantHolds == ThreadSpec => []ThreadsInvariant
  BY ThreadInitOK, ThreadStep, PTL DEF ThreadSpec

\* The operations of a request are written only on the word of the customer who owns its
\* conversation, whatever messages and references the mails of others point to, and
\* whatever other workers store between _prepare and the writing.
THEOREM OnlyOwnersWrite == ThreadSpec => []OwnersWrite
<1>1. ThreadsInvariant => OwnersWrite
  BY StoreRows DEF OwnersWrite, Owned
<1> QED
  BY <1>1, ThreadsInvariantHolds, PTL

\* A mail that replies to a message about a request, and shows no other reference, is
\* taken for that request or reviewed: it is not left to the number of requests that
\* the conversation has, to which of them are open by now, or to the mail's subject.
THEOREM RepliesFindTheirRequest == ThreadSpec => []AnswersFindTheirRequest
<1>1. ThreadsInvariant => AnswersFindTheirRequest
  <2> SUFFICES ASSUME ThreadsInvariant, NEW i \in Rows(messages), NEW d \in messages[i].direct,
                      ~messages[i].marked, messages[i].strength # "conflict",
                      messages[d].about # 0
               PROVE  /\ messages[i].strength = "strong" /\ messages[i].taken = messages[d].about
                      /\ messages[i].conversation = requests[messages[d].about].conversation
    BY DEF AnswersFindTheirRequest
  <2>1. Answers(messages[i], messages)
    BY StoreRows DEF Placed
  <2>2. /\ d \in Rows(messages) /\ messages[i].strength = "strong"
        /\ messages[i].taken = messages[d].about
        /\ messages[i].conversation = messages[d].conversation
    BY <2>1 DEF Answers
  <2>3. requests[messages[d].about].conversation = messages[d].conversation
    BY <2>2, StoreRows DEF Placed
  <2> QED
    BY <2>2, <2>3
<1> QED
  BY <1>1, ThreadsInvariantHolds, PTL
-----------------------------------------------------------------------------
(* Nobody waits in silence *)

\* A request that waits has a question that is open, other than q, or an alarm.
HeardBesides(s, r, q) ==
  s.requests[r].operation = "waiting" =>
    \/ s.requests[r].alarmed
    \/ \E x \in Rows(s.questions) : x # q /\ s.questions[x].request = r /\ s.questions[x].open

Asked(s) == \A x \in Rows(s.questions) : s.questions[x].round >= 1

InHandsOf(h, r) == \E n \in Rows(h.ids) : h.ids[n] = r

\* A worker that has decided holds the request of the question it answers, and then perhaps
\* another.
Holds(h, s) ==
  /\ h.stage # "decided" => h.ids = <<>>
  /\ Len(h.ids) = 2 => h.ids[1] # h.ids[2]
  /\ h.stage = "decided" /\ h.question # 0 => h.ids[1] = s.questions[h.question].request

WaitingInvariant ==
  /\ Asked(Store)
  /\ \A w \in Workers : Holds(handling[w], Store)
  /\ \A r \in Rows(requests) : HeardBesides(Store, r, 0)
                               \/ \E w \in Workers : InHandsOf(handling[w], r)

\* What _finalize does to a store for request r, of a mail that answers question q.
Turned(s, t, r, q) ==
  /\ Len(t.requests) = Len(s.requests)
  /\ \A i \in Rows(s.requests) : i # r => t.requests[i] = s.requests[i]
  /\ Len(s.questions) <= Len(t.questions)
  /\ \A x \in Rows(s.questions) : /\ t.questions[x].request = s.questions[x].request
                                  /\ x # q => t.questions[x] = s.questions[x]
  /\ Asked(t)

\* No turn, and one turn after the other.
LEMMA TurnedReflexive ==
  ASSUME NEW s \in StoreType, Asked(s), NEW r, NEW q
  PROVE  Turned(s, s, r, q)
  BY RowTypes DEF Turned

LEMMA TurnedTransitive ==
  ASSUME NEW s \in StoreType, NEW t \in StoreType, NEW u \in StoreType, NEW r, NEW q,
         Turned(s, t, r, q), Turned(t, u, r, q)
  PROVE  Turned(s, u, r, q)
<1>1. /\ Len(s.requests) \in Nat /\ Len(t.requests) \in Nat /\ Len(u.requests) \in Nat
      /\ Len(s.questions) \in Nat /\ Len(t.questions) \in Nat /\ Len(u.questions) \in Nat
  BY RowTypes
<1> QED
  BY <1>1 DEF Turned, Rows

\* The other requests are heard as before.
LEMMA OthersHeard ==
  ASSUME NEW s \in StoreType, NEW t \in StoreType, NEW r, NEW q, Turned(s, t, r, q),
         NEW i \in Rows(s.requests), i # r, HeardBesides(s, i, q)
  PROVE  HeardBesides(t, i, q)
<1>1. t.requests[i] = s.requests[i]
  BY DEF Turned
<1>2. \A x \in Rows(s.questions) : x \in Rows(t.questions) /\ (x # q => t.questions[x] = s.questions[x])
  <2>1. Len(s.questions) \in Nat /\ Len(t.questions) \in Nat
    BY RowTypes
  <2> QED
    BY <2>1 DEF Turned, Rows
<1> QED
  BY <1>1, <1>2 DEF HeardBesides

\* A question is closed.
LEMMA CloseTurns ==
  ASSUME NEW s \in StoreType, Asked(s), NEW r, NEW q, q # 0 => q \in Rows(s.questions)
  PROVE  Turned(s, Close(s, q), r, q) /\ Close(s, q).requests = s.requests /\ Close(s, q) \in StoreType
<1>1. CASE q = 0
  BY <1>1, RowTypes DEF Close, Turned
<1>2. CASE q # 0
  <2> DEFINE y == [s.questions[q] EXCEPT !.open = FALSE]
             rows == [s.questions EXCEPT ![q] = y]
  <2>1. q \in Rows(s.questions) /\ s.questions[q] \in Question /\ s.questions \in Seq(Question)
    BY <1>2, RowTypes DEF StoreType
  <2>2. y \in Question /\ y.round = s.questions[q].round /\ y.request = s.questions[q].request
    BY <2>1 DEF Question
  <2>3. Close(s, q) = [s EXCEPT !.questions = rows]
    BY <1>2 DEF Close
  <2> HIDE DEF y
  <2>4. /\ Len(rows) = Len(s.questions) /\ rows[q] = y /\ rows \in Seq(Question)
        /\ \A x \in Rows(s.questions) : x # q => rows[x] = s.questions[x]
    BY <2>1, <2>2, ExceptSeq DEF Rows
  <2>5. Close(s, q).questions = rows /\ Close(s, q).requests = s.requests
    BY <2>3 DEF StoreType
  <2> HIDE DEF rows
  <2>6. Close(s, q) \in StoreType
    BY <2>3, <2>4 DEF StoreType
  <2>7. Asked(Close(s, q))
    BY <2>1, <2>2, <2>4, <2>5 DEF Asked, Rows
  <2> QED
    BY <2>2, <2>4, <2>5, <2>6, <2>7, RowTypes DEF Turned
<1> QED
  BY <1>1, <1>2

\* Only request r is rewritten.
LEMMA RewriteTurns ==
  ASSUME NEW s \in StoreType, NEW t \in StoreType, Asked(s), NEW r \in Rows(s.requests), NEW q,
         NEW x, t.requests = [s.requests EXCEPT ![r] = x], t.questions = s.questions
  PROVE  Turned(s, t, r, q) /\ t.requests[r] = x
<1>1. s.requests \in Seq(Request) /\ t.requests \in Seq(Request) /\ Len(s.requests) \in Nat
      /\ Len(s.questions) \in Nat
  BY RowTypes DEF StoreType
<1>2. DOMAIN t.requests = DOMAIN s.requests
  OBVIOUS
<1>3. Len(t.requests) = Len(s.requests)
  BY <1>1, <1>2
<1>4. \A i \in Rows(s.requests) : t.requests[i] = IF i = r THEN x ELSE s.requests[i]
  BY <1>1 DEF Rows
<1> QED
  BY <1>1, <1>3, <1>4 DEF Turned, Asked

\* The request is given up.
LEMMA GiveUpTurns ==
  ASSUME NEW s \in StoreType, Asked(s), NEW r \in Rows(s.requests), NEW q,
         q # 0 => q \in Rows(s.questions), GiveUp(s, r, q) \in StoreType
  PROVE  Turned(s, GiveUp(s, r, q), r, q) /\ GiveUp(s, r, q).requests[r].operation = "closed"
<1> DEFINE t == Close(s, q)
           u == GiveUp(s, r, q)
           x == [s.requests[r] EXCEPT !.operation = "closed", !.alarmed = TRUE]
<1>1. Turned(s, t, r, q) /\ t.requests = s.requests /\ t \in StoreType
  BY CloseTurns
<1>2. Asked(t)
  BY <1>1 DEF Turned
<1>3. u.questions = t.questions
  BY DEF GiveUp, StoreType
<1>4. u.requests = [s.requests EXCEPT ![r] = x]
  <2> DEFINE m == Outbound(s.requests[r].conversation, r)
  <2>1. s.requests \in Seq(Request)
    BY DEF StoreType
  <2>2. r \in DOMAIN t.requests
    BY <1>1, <2>1 DEF Rows
  <2>3. u = [t EXCEPT !.requests[r].operation = "closed", !.requests[r].alarmed = TRUE,
                      !.messages = Append(@, m)]
    BY DEF GiveUp
  <2> DEFINE y == [t.requests[r] EXCEPT !.operation = "closed", !.alarmed = TRUE]
  <2>4. [t EXCEPT !.requests[r].operation = "closed", !.requests[r].alarmed = TRUE,
                  !.messages = Append(@, m)]
        = [[t EXCEPT !.requests = [@ EXCEPT ![r] = y]] EXCEPT !.messages = Append(@, m)]
    <3> HIDE DEF t, m
    <3> QED
      BY <1>1, <2>2, CloseTwice
  <2>5. y = x
    BY <1>1
  <2> HIDE DEF y, t, u, m
  <2>6. u.requests = [t.requests EXCEPT ![r] = y]
    BY <1>1, <2>3, <2>4 DEF StoreType
  <2> QED
    BY <1>1, <2>5, <2>6
<1>5. x.operation = "closed"
  <2>1. s.requests[r] \in Request
    BY RowTypes
  <2> QED
    BY <2>1 DEF Request
<1> HIDE DEF t, u, x
<1>6. t \in StoreType /\ u \in StoreType /\ r \in Rows(t.requests)
  BY <1>1 DEF t, u
<1>7. Turned(t, u, r, q) /\ u.requests[r] = x
  BY <1>1, <1>2, <1>3, <1>4, <1>6, RewriteTurns
<1> QED
  BY <1>1, <1>5, <1>6, <1>7, TurnedTransitive DEF u

\* The customer is asked, unless an open question stands.
LEMMA AskBackTurns ==
  ASSUME NEW s \in StoreType, Asked(s), NEW r \in Rows(s.requests),
         NEW q, q # 0 => q \in Rows(s.questions), q = 0 \/ OpenQuestions(s, r) = {}
  PROVE  Turned(s, AskBack(s, r), r, q) /\ HeardBesides(AskBack(s, r), r, q)
<1>1. Len(s.requests) \in Nat /\ Len(s.questions) \in Nat /\ s.questions \in Seq(Question)
  BY RowTypes DEF StoreType
<1>2. CASE OpenQuestions(s, r) # {}
  <2>1. AskBack(s, r) = s /\ q = 0
    BY <1>2 DEF AskBack
  <2>2. PICK x \in Rows(s.questions) : s.questions[x].request = r /\ s.questions[x].open
    BY <1>2 DEF OpenQuestions
  <2>3. x # 0
    BY DEF Rows
  <2> QED
    BY <1>1, <2>1, <2>2, <2>3 DEF Turned, HeardBesides
<1>3. CASE OpenQuestions(s, r) = {}
  <2> DEFINE n == Len(s.questions) + 1
             asked == {y \in Rows(s.questions) : s.questions[y].request = r}
             x == [request |-> r, message |-> Len(s.messages) + 1, open |-> TRUE,
                   round |-> 1 + Cardinality(asked)]
             t == AskBack(s, r)
  <2>1. Cardinality(asked) \in Nat
    <3>1. IsFiniteSet(1..Len(s.questions))
      <4>1. Len(s.questions) \in Int
        BY <1>1
      <4> QED
        BY <4>1, FS_Interval
    <3> QED
      BY <3>1, FS_Subset, FS_CardinalityType DEF Rows
  <2>2. x \in Question /\ x.round >= 1 /\ x.request = r /\ x.open
    <3> HIDE DEF asked
    <3> QED
      BY <2>1, RowTypes DEF Question, Rows
  <2>3. t.requests = s.requests /\ t.questions = Append(s.questions, x)
    BY <1>3 DEF AskBack, StoreType
  <2> HIDE DEF x, t
  <2>4. /\ Len(t.questions) = n /\ n \in Rows(t.questions) /\ t.questions[n] = x
        /\ \A i \in Rows(s.questions) : t.questions[i] = s.questions[i]
        /\ Rows(t.questions) = Rows(s.questions) \cup {n}
    BY <1>1, <2>2, <2>3 DEF Rows
  <2>5. n # q
    BY <1>1 DEF Rows
  <2>6. Asked(t)
    BY <2>2, <2>4 DEF Asked
  <2> HIDE DEF n
  <2>7. HeardBesides(t, r, q)
    BY <2>2, <2>4, <2>5 DEF HeardBesides
  <2>8. Len(s.questions) <= Len(t.questions)
    BY <1>1, <2>4 DEF n
  <2> QED
    BY <2>3, <2>4, <2>6, <2>7, <2>8 DEF Turned, t
<1> QED
  BY <1>2, <1>3

\* The customer is told.
LEMMA NotifyTurns ==
  ASSUME NEW s \in StoreType, Asked(s), NEW r \in Rows(s.requests), NEW q, NEW notice,
         Notify(s, r, notice) \in StoreType
  PROVE  /\ Turned(s, Notify(s, r, notice), r, q)
         /\ Notify(s, r, notice).questions = s.questions
         /\ Notify(s, r, notice).requests[r].operation = s.requests[r].operation
         /\ Notify(s, r, notice).requests[r].alarmed = s.requests[r].alarmed
<1>1. CASE notice = "none" \/ notice \in s.requests[r].notices
  BY <1>1, RowTypes DEF Notify, Turned
<1>2. CASE ~(notice = "none" \/ notice \in s.requests[r].notices)
  <2> DEFINE t == Notify(s, r, notice)
             x == [s.requests[r] EXCEPT !.notices = @ \cup {notice}]
  <2>1. t.requests = [s.requests EXCEPT ![r] = x] /\ t.questions = s.questions
    BY <1>2 DEF Notify, StoreType
  <2>2. x.operation = s.requests[r].operation /\ x.alarmed = s.requests[r].alarmed
    <3>1. s.requests[r] \in Request
      BY RowTypes
    <3> QED
      BY <3>1 DEF Request
  <2> HIDE DEF x
  <2>3. Turned(s, t, r, q) /\ t.requests[r] = x
    BY <2>1, RewriteTurns
  <2> QED
    BY <2>1, <2>2, <2>3
<1> QED
  BY <1>1, <1>2

\* After its turn a request is heard, without the question that was answered.  This is
\* where one round counts: a reply that stays incomplete gives up on the request, or finds
\* no open question.
LEMMA FinalizeTurns ==
  ASSUME MaxRounds <= 1, MaxRounds \in Nat, NEW C \in Seq(ConversationRow),
         NEW s \in StoreType, Consistent(s, C), Asked(s),
         NEW r \in Rows(s.requests), NEW q, q # 0 => q \in Rows(s.questions)
  PROVE  /\ Turned(s, FinalizeOne(s, r, q), r, q) /\ HeardBesides(FinalizeOne(s, r, q), r, q)
         /\ FinalizeOne(s, r, q) \in StoreType /\ Consistent(FinalizeOne(s, r, q), C)
<1> DEFINE waiting == s.requests[r].operation = "waiting"
           asked == IF ~waiting THEN s
                    ELSE IF RoundsUsed(s, r, q) THEN GiveUp(s, r, q) ELSE AskBack(s, r)
           operation == asked.requests[r].operation
           x == [asked.requests[r] EXCEPT !.open = operation # "closed"]
           refreshed == [asked EXCEPT !.requests = [@ EXCEPT ![r] = x]]
           resolved == IF waiting THEN refreshed ELSE Close(refreshed, q)
           notice == CASE operation = "waiting" -> "none"
                       [] operation = "scheduled" -> "acknowledged"
                       [] OTHER -> "summarised"
           t == FinalizeOne(s, r, q)
<1>1. t \in StoreType /\ Consistent(t, C)
  BY FinalizeKept DEF Kept
<1>2. t = Notify(resolved, r, notice)
  BY DEF FinalizeOne
<1>3. /\ asked \in StoreType /\ Turned(s, asked, r, q) /\ HeardBesides(asked, r, q)
      /\ waiting \/ asked.requests[r].operation # "waiting"
  <2>1. CASE ~waiting
    BY <2>1, RowTypes DEF Turned, HeardBesides
  <2>2. CASE waiting /\ RoundsUsed(s, r, q)
    <3>1. GiveUp(s, r, q) \in StoreType
      BY GiveUpKept DEF Kept
    <3>2. Turned(s, GiveUp(s, r, q), r, q) /\ GiveUp(s, r, q).requests[r].operation = "closed"
      BY <3>1, GiveUpTurns
    <3>3. asked = GiveUp(s, r, q)
      BY <2>2
    <3> HIDE DEF asked
    <3> QED
      BY <2>2, <3>1, <3>2, <3>3 DEF HeardBesides
  <2>3. CASE waiting /\ ~RoundsUsed(s, r, q)
    <3>1. q = 0 \/ OpenQuestions(s, r) = {}
      <4> SUFFICES ASSUME q # 0, NEW y \in OpenQuestions(s, r) PROVE FALSE
        OBVIOUS
      <4>1. y \in Rows(s.questions)
        BY DEF OpenQuestions
      <4>2. s.questions[y].round \in Nat /\ s.questions[y].round >= 1
        BY <4>1, RowTypes DEF Asked, Question
      <4>3. s.questions[y].round >= MaxRounds
        BY <4>2
      <4> QED
        BY <2>3, <4>3 DEF RoundsUsed
    <3>2. AskBack(s, r) \in StoreType
      BY AskBackKept DEF Kept
    <3>3. Turned(s, AskBack(s, r), r, q) /\ HeardBesides(AskBack(s, r), r, q)
      BY <3>1, AskBackTurns
    <3>4. asked = AskBack(s, r)
      BY <2>3
    <3> HIDE DEF asked
    <3> QED
      BY <2>3, <3>2, <3>3, <3>4
  <2> QED
    BY <2>1, <2>2, <2>3
<1> HIDE DEF asked
<1>4. Asked(asked) /\ r \in Rows(asked.requests) /\ (q # 0 => q \in Rows(asked.questions))
  <2>1. Len(s.questions) \in Nat /\ Len(asked.questions) \in Nat
    BY <1>3, RowTypes
  <2> QED
    BY <1>3, <2>1 DEF Turned, Rows
<1>5. /\ x \in Request /\ x.operation = operation
      /\ x.alarmed = asked.requests[r].alarmed
  <2> DEFINE open == operation # "closed"
  <2>1. asked.requests[r] \in Request
    BY <1>3, <1>4, RowTypes
  <2>2. open \in BOOLEAN
    OBVIOUS
  <2> HIDE DEF open
  <2>3. LET y == [asked.requests[r] EXCEPT !.open = open]
        IN y \in Request /\ y.operation = asked.requests[r].operation
           /\ y.alarmed = asked.requests[r].alarmed
    BY <2>1, <2>2 DEF Request
  <2> QED
    BY <2>3 DEF open
<1> HIDE DEF x
<1>6. /\ refreshed.requests = [asked.requests EXCEPT ![r] = x]
      /\ refreshed.questions = asked.questions /\ refreshed \in StoreType
  <2>1. [asked.requests EXCEPT ![r] = x] \in Seq(Request)
    <3>1. asked.requests \in Seq(Request)
      BY <1>3 DEF StoreType
    <3> QED
      BY <1>4, <1>5, <3>1, ExceptSeq DEF Rows
  <2> QED
    BY <1>3, <2>1 DEF StoreType
<1> HIDE DEF refreshed
<1>7. Turned(asked, refreshed, r, q) /\ refreshed.requests[r] = x
  <2>1. asked.requests \in Seq(Request) /\ refreshed.requests \in Seq(Request)
        /\ Len(asked.questions) \in Nat
    BY <1>3, <1>6, RowTypes DEF StoreType
  <2> DEFINE rows == refreshed.requests
  <2>2. /\ Len(rows) = Len(asked.requests) /\ rows[r] = x
        /\ \A i \in Rows(asked.requests) : i # r => rows[i] = asked.requests[i]
    BY <1>4, <1>5, <1>6, <2>1, ExceptSeq DEF Rows
  <2> HIDE DEF rows
  <2>3. Turned(asked, refreshed, r, q)
    BY <1>4, <1>6, <2>1, <2>2 DEF Turned, Asked, rows
  <2> QED
    BY <2>2, <2>3 DEF rows
<1>8. Turned(s, refreshed, r, q)
  BY <1>3, <1>6, <1>7, TurnedTransitive
<1>9. HeardBesides(refreshed, r, q) /\ (waiting \/ x.operation # "waiting")
  BY <1>3, <1>5, <1>6, <1>7 DEF HeardBesides
<1>10. Asked(refreshed) /\ r \in Rows(refreshed.requests)
       /\ (q # 0 => q \in Rows(refreshed.questions))
  BY <1>4, <1>6, <1>7 DEF Turned, Rows
<1>11. /\ resolved \in StoreType /\ Turned(refreshed, resolved, r, q)
       /\ resolved.requests = refreshed.requests /\ HeardBesides(resolved, r, q)
  <2>1. CASE waiting
    <3>1. resolved = refreshed
      BY <2>1
    <3> HIDE DEF resolved
    <3> QED
      BY <1>6, <1>9, <1>10, <3>1, TurnedReflexive
  <2>2. CASE ~waiting
    <3>1. /\ Turned(refreshed, Close(refreshed, q), r, q)
          /\ Close(refreshed, q).requests = refreshed.requests
          /\ Close(refreshed, q) \in StoreType
      BY <1>6, <1>10, CloseTurns
    <3>2. resolved = Close(refreshed, q)
      BY <2>2
    <3> HIDE DEF resolved
    <3> QED
      BY <1>7, <1>9, <2>2, <3>1, <3>2 DEF HeardBesides
  <2> QED
    BY <2>1, <2>2
<1> HIDE DEF resolved, notice
<1>12. Turned(s, resolved, r, q) /\ Asked(resolved) /\ r \in Rows(resolved.requests)
  <2>1. Turned(s, resolved, r, q)
    BY <1>6, <1>8, <1>11, TurnedTransitive
  <2> QED
    BY <1>10, <1>11, <2>1 DEF Turned
<1> HIDE DEF t
<1>13. /\ Turned(resolved, t, r, q) /\ t.questions = resolved.questions
       /\ t.requests[r].operation = resolved.requests[r].operation
       /\ t.requests[r].alarmed = resolved.requests[r].alarmed
  BY <1>1, <1>2, <1>11, <1>12, NotifyTurns
<1>14. HeardBesides(t, r, q)
  BY <1>11, <1>13 DEF HeardBesides
<1>15. Turned(s, t, r, q)
  BY <1>1, <1>11, <1>12, <1>13, TurnedTransitive
<1> QED
  BY <1>1, <1>14, <1>15 DEF t

\* A step of worker w that asks and closes no question: each request is as it was and was
\* not let go, is finished, raised an alarm, or is in the worker's hands.
LEMMA WorkerStep ==
  ASSUME ThreadsInvariant, WaitingInvariant, NEW w \in Workers, NEW h,
         handling' = [handling EXCEPT ![w] = h], Holds(h, Store), UNCHANGED questions,
         \A r \in Rows(requests') :
           \/ /\ r \in Rows(requests) /\ ~InHandsOf(handling[w], r)
              /\ requests'[r].operation = requests[r].operation
              /\ requests'[r].alarmed = requests[r].alarmed
           \/ requests'[r].operation # "waiting" \/ requests'[r].alarmed \/ InHandsOf(h, r)
  PROVE  WaitingInvariant'
<1>1. handling \in [Workers -> Handling]
  BY DEF ThreadsInvariant
<1>2. /\ Store.questions = questions /\ Store'.questions = questions
      /\ Store.requests = requests /\ Store'.requests = requests'
  BY DEF Store
<1>3. Asked(Store)'
  BY <1>2 DEF WaitingInvariant, Asked, Rows
<1>4. ASSUME NEW v \in Workers PROVE Holds(handling[v], Store)'
  <2>1. Holds(handling[v], Store) \/ (v = w /\ Holds(h, Store))
    BY DEF WaitingInvariant
  <2>2. CASE v = w
    BY <1>1, <1>2, <2>2 DEF Holds
  <2>3. CASE v # w
    BY <1>1, <1>2, <2>1, <2>3 DEF Holds
  <2> QED
    BY <2>2, <2>3
<1>5. ASSUME NEW r \in Rows(requests')
      PROVE  HeardBesides(Store', r, 0) \/ \E v \in Workers : InHandsOf(handling'[v], r)
  <2>1. CASE requests'[r].operation # "waiting" \/ requests'[r].alarmed
    BY <1>2, <2>1 DEF HeardBesides
  <2>2. CASE InHandsOf(h, r)
    <3>1. handling'[w] = h
      BY <1>1
    <3> QED
      BY <2>2, <3>1
  <2>3. CASE /\ r \in Rows(requests) /\ ~InHandsOf(handling[w], r)
             /\ requests'[r].operation = requests[r].operation
             /\ requests'[r].alarmed = requests[r].alarmed
    <3>1. CASE HeardBesides(Store, r, 0)
      BY <1>2, <2>3, <3>1 DEF HeardBesides
    <3>2. ASSUME NEW v \in Workers, InHandsOf(handling[v], r)
          PROVE  InHandsOf(handling'[v], r)
      <4>1. v # w
        BY <2>3, <3>2
      <4> QED
        BY <1>1, <3>2, <4>1
    <3> QED
      BY <2>3, <3>1, <3>2 DEF WaitingInvariant
  <2> QED
    BY <2>1, <2>2, <2>3
<1>6. \A r \in Rows(requests') :
        (HeardBesides(Store, r, 0) \/ \E v \in Workers : InHandsOf(handling[v], r))'
  BY <1>5 DEF HeardBesides, InHandsOf, Rows
<1> QED
  BY <1>3, <1>4, <1>6 DEF WaitingInvariant, Rows

\* What is in the hands of a worker that has not decided yet.
LEMMA NothingInHand ==
  ASSUME WaitingInvariant, NEW w \in Workers, handling[w].stage # "decided"
  PROVE  \A r : ~InHandsOf(handling[w], r)
<1>1. handling[w].ids = <<>>
  BY DEF WaitingInvariant, Holds
<1> QED
  BY <1>1 DEF InHandsOf, Rows

LEMMA IdleHolds == Holds(Idle, Store)
  BY DEF Holds, Idle

\* A worker that decides about requests.
LEMMA DecidedHolds ==
  ASSUME ThreadsInvariant, NEW w \in Workers, NEW ids, To(w, "decided", ids),
         Len(ids) # 2 \/ ids[1] # ids[2],
         handling[w].question # 0 => ids[1] = questions[handling[w].question].request
  PROVE  \E h : /\ handling' = [handling EXCEPT ![w] = h] /\ Holds(h, Store)
                /\ \A n \in Rows(ids) : InHandsOf(h, ids[n])
<1> DEFINE h == [handling[w] EXCEPT !.stage = "decided", !.ids = ids]
<1>1. handling' = [handling EXCEPT ![w] = h]
  BY DEF To
<1>2. handling[w] \in Handling
  BY DEF ThreadsInvariant
<1>3. h.stage = "decided" /\ h.ids = ids /\ h.question = handling[w].question
  BY <1>2 DEF Handling
<1>4. Store.questions = questions
  BY DEF Store
<1> HIDE DEF h
<1>5. Holds(h, Store) /\ \A n \in Rows(ids) : InHandsOf(h, ids[n])
  BY <1>3, <1>4 DEF Holds, InHandsOf
<1> QED
  BY <1>1, <1>5

\* A request is answered: the others stay.
LEMMA AnsweredRows ==
  ASSUME requests \in Seq(Request), NEW w, NEW r \in Rows(requests), NEW operation,
         NEW written \in BOOLEAN
  PROVE  /\ Len(Answered(w, r, operation, written)) = Len(requests)
         /\ Answered(w, r, operation, written)[r].operation = operation
         /\ \A i \in Rows(requests) :
              i # r => Answered(w, r, operation, written)[i] = requests[i]
<1> DEFINE x == [requests[r] EXCEPT !.writers = @ \cup (IF written THEN {Sender(w)} ELSE {}),
                                    !.operation = operation]
           rows == [requests EXCEPT ![r] = x]
<1>1. Answered(w, r, operation, written) = rows
  BY DEF Answered
<1>2. requests[r] \in Request
  BY ElementOfSeq DEF Rows
<1>3. x.operation = operation
  BY <1>2 DEF Request
<1> HIDE DEF x
<1>4. DOMAIN rows = DOMAIN requests /\ Len(rows) = Len(requests)
  OBVIOUS
<1>5. rows[r] = x /\ \A i \in Rows(requests) : i # r => rows[i] = requests[i]
  BY DEF Rows
<1> QED
  BY <1>1, <1>3, <1>4, <1>5

\* A row more.
LEMMA OneMore ==
  ASSUME NEW f \in Seq(Request), NEW x \in Request
  PROVE  /\ Len(Append(f, x)) = Len(f) + 1 /\ Append(f, x)[Len(f) + 1] = x
         /\ \A i \in Rows(f) : Append(f, x)[i] = f[i]
         /\ \A i \in Rows(Append(f, x)) : i \in Rows(f) \/ i = Len(f) + 1
  BY DEF Rows

\* A mail is ignored.
LEMMA IgnoreWaits ==
  ASSUME ThreadsInvariant, WaitingInvariant, NEW w \in Workers, Ignore(w)
  PROVE  WaitingInvariant'
<1>1. handling[w].stage = "prepared" /\ UNCHANGED <<requests, questions>>
      /\ handling' = [handling EXCEPT ![w] = Idle]
  BY DEF Ignore, To
<1>2. \A r : ~InHandsOf(handling[w], r)
  BY <1>1, NothingInHand
<1> QED
  BY <1>1, <1>2, IdleHolds, WorkerStep

\* A mail comes into a worker's hands.
LEMMA PrepareWaits ==
  ASSUME ThreadsInvariant, WaitingInvariant, NEW w \in Workers, PrepareMail(w)
  PROVE  WaitingInvariant'
<1>1. handling[w].stage = "idle" /\ UNCHANGED <<requests, questions>>
  BY DEF PrepareMail
<1>2. \A r : ~InHandsOf(handling[w], r)
  BY <1>1, NothingInHand
<1>3. PICK found, m, c, r, q :
        \/ handling' = handling
        \/ handling' = [handling EXCEPT ![w] =
                          [stage |-> "prepared", mail |-> m, conversation |-> c, request |-> r,
                           question |-> q, strength |-> found, ids |-> <<>>]]
  <2>1. \E found :
          LET c == IF found.conversation = 0 THEN Len(conversations) + 1
                   ELSE found.conversation
          IN IF found.strength = "conflict" THEN handling' = handling
             ELSE handling' = [handling EXCEPT ![w] =
                                 [stage |-> "prepared", mail |-> Len(messages'),
                                  conversation |-> c, request |-> found.request,
                                  question |-> found.question, strength |-> found.strength,
                                  ids |-> <<>>]]
    BY DEF PrepareMail
  <2> QED
    BY <2>1
<1>4. \E h : handling' = [handling EXCEPT ![w] = h] /\ Holds(h, Store)
  <2>1. CASE handling' = handling
    <3>1. handling' = [handling EXCEPT ![w] = handling[w]]
      BY <2>1 DEF ThreadsInvariant
    <3>2. Holds(handling[w], Store)
      BY DEF WaitingInvariant
    <3> QED
      BY <3>1, <3>2
  <2>2. CASE handling' # handling
    <3> DEFINE h == [stage |-> "prepared", mail |-> m, conversation |-> c, request |-> r,
                     question |-> q, strength |-> found, ids |-> <<>>]
    <3>1. Holds(h, Store)
      BY DEF Holds
    <3> QED
      BY <1>3, <2>2, <3>1
  <2> QED
    BY <2>1, <2>2
<1> QED
  BY <1>1, <1>2, <1>4, WorkerStep

\* The reply to a question puts its request into the worker's hands.
LEMMA AnswerQuestionWaits ==
  ASSUME ThreadsInvariant, WaitingInvariant, NEW w \in Workers, AnswerQuestion(w)
  PROVE  WaitingInvariant'
<1> DEFINE r == questions[handling[w].question].request
<1>1. handling[w].stage = "prepared" /\ handling[w].question # 0 /\ UNCHANGED questions
      /\ To(w, "decided", <<r>>)
  BY DEF AnswerQuestion
<1>2. PICK operation \in Decidable(w) \cup {requests[r].operation}, written \in BOOLEAN :
        requests' = Answered(w, r, operation, written)
  BY DEF AnswerQuestion
<1>3. r \in Rows(requests) /\ requests \in Seq(Request)
  BY <1>1, InHand, StoreRows
<1> HIDE DEF r
<1>4. Len(requests') = Len(requests) /\ \A i \in Rows(requests) : i # r => requests'[i] = requests[i]
  <2> DEFINE rows == Answered(w, r, operation, written)
  <2>1. Len(rows) = Len(requests) /\ \A i \in Rows(requests) : i # r => rows[i] = requests[i]
    BY <1>3, AnsweredRows
  <2> HIDE DEF rows
  <2> QED
    BY <1>2, <2>1 DEF rows
<1>5. \A i : ~InHandsOf(handling[w], i)
  BY <1>1, NothingInHand
<1>6. PICK h : /\ handling' = [handling EXCEPT ![w] = h] /\ Holds(h, Store)
               /\ \A n \in Rows(<<r>>) : InHandsOf(h, <<r>>[n])
  <2>1. Len(<<r>>) # 2 /\ <<r>>[1] = questions[handling[w].question].request
    BY DEF r
  <2> QED
    BY <1>1, <2>1, DecidedHolds
<1>7. InHandsOf(h, r)
  BY <1>6 DEF Rows
<1> QED
  BY <1>1, <1>4, <1>5, <1>6, <1>7, WorkerStep DEF Rows

\* So does a reply with further proposals, with the request it opens.
LEMMA AnswerAndMoreWaits ==
  ASSUME ThreadsInvariant, WaitingInvariant, NEW w \in Workers, AnswerAndMore(w)
  PROVE  WaitingInvariant'
<1> DEFINE r == questions[handling[w].question].request
           n == Len(requests')
           c == handling[w].conversation
<1>1. handling[w].stage = "prepared" /\ handling[w].question # 0 /\ UNCHANGED questions
      /\ To(w, "decided", <<r, n>>)
  BY DEF AnswerAndMore
<1>2. PICK matched \in BOOLEAN, operation \in Decidable(w) \cup {requests[r].operation},
           new \in Decidable(w) :
        requests' = Append(Answered(w, r, operation, matched), NewRequest(w, new, FALSE))
  BY DEF AnswerAndMore
<1>3. r \in Rows(requests) /\ requests \in Seq(Request) /\ requests[r].conversation = c
  BY <1>1, InHand, StoreRows
<1>4. operation \in {"closed", "waiting", "scheduled"} /\ new \in {"closed", "waiting", "scheduled"}
  BY <1>3, StoreRows DEF Decidable, Request
<1> HIDE DEF r, c
<1> DEFINE rows == Answered(w, r, operation, matched)
           x == NewRequest(w, new, FALSE)
<1>5. Len(rows) = Len(requests) /\ \A i \in Rows(requests) : i # r => rows[i] = requests[i]
  BY <1>3, AnsweredRows
<1>6. rows \in Seq(Request) /\ x \in Request
  <2>1. Kept(Store, [Store EXCEPT !.requests = rows], conversations)
    BY <1>1, <1>3, <1>4, AnsweredKept DEF c
  <2>2. handling[w].conversation \in Nat /\ handling[w].mail \in Nat /\ Sender(w) \in Customers
    BY <1>1, InHand DEF Handling
  <2> HIDE DEF rows
  <2>3. [Store EXCEPT !.requests = rows].requests = rows
    BY DEF Store
  <2>4. rows \in Seq(Request)
    BY <2>1, <2>3 DEF Kept, StoreType
  <2> QED
    BY <1>4, <2>2, <2>4 DEF NewRequest, Request
<1> HIDE DEF rows, x
<1>7. requests' = Append(rows, x)
  BY <1>2 DEF rows, x
<1>8. /\ n = Len(requests) + 1 /\ Len(requests) \in Nat
      /\ \A i \in Rows(requests') : i \in Rows(requests) \/ i = n
      /\ \A i \in Rows(requests) : i # r => requests'[i] = requests[i]
  BY <1>3, <1>5, <1>6, <1>7, OneMore DEF Rows
<1>9. \A i : ~InHandsOf(handling[w], i)
  BY <1>1, NothingInHand
<1>10. r # n
  BY <1>3, <1>8 DEF Rows
<1> HIDE DEF n
<1>11. PICK h : /\ handling' = [handling EXCEPT ![w] = h] /\ Holds(h, Store)
                /\ \A i \in Rows(<<r, n>>) : InHandsOf(h, <<r, n>>[i])
  <2>1. <<r, n>>[1] # <<r, n>>[2] /\ <<r, n>>[1] = questions[handling[w].question].request
    BY <1>10 DEF r
  <2> QED
    BY <1>1, <2>1, DecidedHolds
<1>12. InHandsOf(h, r) /\ InHandsOf(h, n)
  <2>1. 1 \in Rows(<<r, n>>) /\ 2 \in Rows(<<r, n>>)
    BY DEF Rows
  <2>2. InHandsOf(h, <<r, n>>[1]) /\ InHandsOf(h, <<r, n>>[2])
    BY <1>11, <2>1
  <2> QED
    BY <2>2
<1> QED
  BY <1>1, <1>8, <1>9, <1>11, <1>12, WorkerStep

\* A correction finishes its request.
LEMMA CorrectWaits ==
  ASSUME ThreadsInvariant, WaitingInvariant, NEW w \in Workers, Correct(w)
  PROVE  WaitingInvariant'
<1> DEFINE r == handling[w].request
<1>1. /\ handling[w].stage = "prepared" /\ handling[w].question = 0 /\ r # 0
      /\ UNCHANGED questions /\ To(w, "decided", <<r>>)
      /\ \E written \in BOOLEAN : requests' = Answered(w, r, "closed", written)
  BY DEF Correct
<1>2. r \in Rows(requests) /\ requests \in Seq(Request)
  BY <1>1, InHand, StoreRows
<1> HIDE DEF r
<1>3. /\ Len(requests') = Len(requests) /\ requests'[r].operation = "closed"
      /\ \A i \in Rows(requests) : i # r => requests'[i] = requests[i]
  BY <1>1, <1>2, AnsweredRows
<1>4. \A i : ~InHandsOf(handling[w], i)
  BY <1>1, NothingInHand
<1>5. PICK h : handling' = [handling EXCEPT ![w] = h] /\ Holds(h, Store)
  <2>1. Len(<<r>>) # 2
    OBVIOUS
  <2> QED
    BY <1>1, <2>1, DecidedHolds
<1> QED
  BY <1>1, <1>3, <1>4, <1>5, WorkerStep DEF Rows

\* A request of its own is in the worker's hands.
LEMMA OpenRequestWaits ==
  ASSUME ThreadsInvariant, WaitingInvariant, NEW w \in Workers, OpenRequest(w)
  PROVE  WaitingInvariant'
<1> DEFINE r == Len(requests')
<1>1. /\ handling[w].stage = "prepared" /\ handling[w].question = 0 /\ UNCHANGED questions
      /\ To(w, "decided", <<r>>)
  BY DEF OpenRequest
<1>2. PICK operation \in Decidable(w) : requests' = Append(requests, NewRequest(w, operation, FALSE))
  BY DEF OpenRequest
<1>3. requests \in Seq(Request) /\ NewRequest(w, operation, FALSE) \in Request
  <2>1. handling[w].conversation \in Nat /\ handling[w].mail \in Nat /\ Sender(w) \in Customers
    BY <1>1, InHand DEF Handling
  <2>2. operation \in {"closed", "waiting", "scheduled"}
    BY DEF Decidable
  <2> QED
    BY <2>1, <2>2, StoreRows DEF NewRequest, Request
<1> DEFINE x == NewRequest(w, operation, FALSE)
<1> HIDE DEF x
<1>4. /\ \A i \in Rows(requests') : i \in Rows(requests) \/ i = r
      /\ \A i \in Rows(requests) : requests'[i] = requests[i]
  <2>1. requests' = Append(requests, x) /\ x \in Request
    BY <1>2, <1>3 DEF x
  <2> QED
    BY <1>3, <2>1, OneMore
<1>5. \A i : ~InHandsOf(handling[w], i)
  BY <1>1, NothingInHand
<1> HIDE DEF r
<1>6. PICK h : /\ handling' = [handling EXCEPT ![w] = h] /\ Holds(h, Store)
               /\ \A n \in Rows(<<r>>) : InHandsOf(h, <<r>>[n])
  <2>1. Len(<<r>>) # 2
    OBVIOUS
  <2> QED
    BY <1>1, <2>1, DecidedHolds
<1>7. InHandsOf(h, r)
  BY <1>6 DEF Rows
<1> QED
  BY <1>1, <1>4, <1>5, <1>6, <1>7, WorkerStep

\* An escalation raises an alarm.
LEMMA NothingSeparableWaits ==
  ASSUME ThreadsInvariant, WaitingInvariant, NEW w \in Workers, NothingSeparable(w)
  PROVE  WaitingInvariant'
<1> DEFINE r == IF handling[w].question # 0 THEN questions[handling[w].question].request
                ELSE handling[w].request
           new == NewRequest(w, "closed", TRUE)
<1>1. /\ handling[w].stage = "prepared" /\ UNCHANGED questions
      /\ handling' = [handling EXCEPT ![w] = Idle]
  BY DEF NothingSeparable, To
<1>2. \/ requests' = [requests EXCEPT ![r].open = FALSE, ![r].alarmed = TRUE]
      \/ requests' = Append(requests, new)
  BY DEF NothingSeparable
<1>3. requests \in Seq(Request)
  BY StoreRows
<1>4. ASSUME NEW i \in Rows(requests')
      PROVE  \/ i \in Rows(requests) /\ requests'[i] = requests[i]
             \/ requests'[i].operation # "waiting" \/ requests'[i].alarmed
  <2> HIDE DEF r
  <2>1. CASE requests' = [requests EXCEPT ![r].open = FALSE, ![r].alarmed = TRUE]
    <3>1. DOMAIN requests' = DOMAIN requests
      BY <2>1
    <3>2. i \in Rows(requests) /\ i \in DOMAIN requests
      BY <1>3, <3>1 DEF Rows
    <3>3. requests[i] \in Request
      BY <1>3, <3>2, ElementOfSeq DEF Rows
    <3>4. CASE i # r
      BY <1>3, <2>1, <3>2, <3>4
    <3>5. CASE i = r
      <4>1. requests'[i].alarmed = TRUE
        BY <1>3, <2>1, <3>2, <3>3, <3>5 DEF Request
      <4> QED
        BY <4>1
    <3> QED
      BY <3>4, <3>5
  <2>2. CASE requests' = Append(requests, new)
    <3>1. new \in Request /\ new.alarmed
      <4>1. handling[w].conversation \in Nat /\ handling[w].mail \in Nat /\ Sender(w) \in Customers
        BY <1>1, InHand DEF Handling
      <4> QED
        BY <4>1 DEF NewRequest, Request
    <3> HIDE DEF new
    <3>2. /\ i \in Rows(requests) \/ i = Len(requests) + 1
          /\ requests'[Len(requests) + 1] = new
          /\ \A j \in Rows(requests) : requests'[j] = requests[j]
      BY <1>3, <2>2, <3>1, OneMore
    <3> QED
      BY <3>1, <3>2
  <2> QED
    BY <1>2, <2>1, <2>2
<1>5. \A i : ~InHandsOf(handling[w], i)
  BY <1>1, NothingInHand
<1> QED
  BY <1>1, <1>4, <1>5, IdleHolds, WorkerStep

\* A mail that fails raises one for all that its worker held.
LEMMA FailMailWaits ==
  ASSUME ThreadsInvariant, WaitingInvariant, NEW w \in Workers, FailMail(w)
  PROVE  WaitingInvariant'
<1>1. UNCHANGED questions /\ handling' = [handling EXCEPT ![w] = Idle]
  BY DEF FailMail, To
<1>2. requests' = [r \in Rows(requests) |->
                     IF r = handling[w].request \/ InHandsOf(handling[w], r)
                       THEN [requests[r] EXCEPT !.alarmed = TRUE] ELSE requests[r]]
  BY DEF FailMail, InHandsOf
<1>3. requests \in Seq(Request) /\ Len(requests) \in Nat
      /\ \A i \in Rows(requests) : requests[i] \in Request
  BY StoreRows
<1>4. Rows(requests') = Rows(requests)
  <2>1. DOMAIN requests' = 1..Len(requests) /\ requests' = [i \in 1..Len(requests) |-> requests'[i]]
    BY <1>2 DEF Rows
  <2>2. requests' \in [1..Len(requests) -> {requests'[i] : i \in 1..Len(requests)}]
    BY <2>1
  <2>3. requests' \in Seq({requests'[i] : i \in 1..Len(requests)})
    BY <1>3, <2>2, SeqDef
  <2>4. Len(requests') = Len(requests)
    BY <1>3, <2>1, <2>3
  <2> QED
    BY <2>4 DEF Rows
<1>5. ASSUME NEW i \in Rows(requests')
      PROVE  \/ ~InHandsOf(handling[w], i) /\ i \in Rows(requests) /\ requests'[i] = requests[i]
             \/ requests'[i].alarmed
  <2>1. i \in Rows(requests) /\ requests[i] \in Request
    BY <1>3, <1>4
  <2>2. CASE i = handling[w].request \/ InHandsOf(handling[w], i)
    <3>1. requests'[i] = [requests[i] EXCEPT !.alarmed = TRUE]
      BY <1>2, <2>1, <2>2
    <3>2. [requests[i] EXCEPT !.alarmed = TRUE].alarmed = TRUE
      BY <2>1 DEF Request
    <3> QED
      BY <3>1, <3>2
  <2>3. CASE ~(i = handling[w].request \/ InHandsOf(handling[w], i))
    BY <1>2, <2>1, <2>3
  <2> QED
    BY <2>2, <2>3
<1> QED
  BY <1>1, <1>5, IdleHolds, WorkerStep

\* When a mail is finished, all its requests are heard, and the question it answers is no
\* other request's.
LEMMA FinalizeMailWaits ==
  ASSUME ThreadsInvariant, WaitingInvariant, MaxRounds \in Nat, MaxRounds <= 1,
         NEW w \in Workers, FinalizeMail(w)
  PROVE  WaitingInvariant'
<1> DEFINE h == handling[w]
           q == h.question
           s1 == FinalizeOne(Store, h.ids[1], q)
           s2 == IF Len(h.ids) = 1 THEN s1 ELSE FinalizeOne(s1, h.ids[2], q)
<1>1. /\ h.stage = "decided" /\ handling' = [handling EXCEPT ![w] = Idle]
      /\ messages' = s2.messages /\ requests' = s2.requests /\ questions' = s2.questions
  BY DEF FinalizeMail, Store, To
<1>2. Store \in StoreType /\ Consistent(Store, conversations)
      /\ conversations \in Seq(ConversationRow) /\ Held(h, Store, conversations)
      /\ handling \in [Workers -> Handling] /\ h \in Handling
  BY DEF ThreadsInvariant
<1>3. /\ Len(h.ids) \in 1..2 /\ \A n \in Rows(h.ids) : h.ids[n] \in Rows(Store.requests)
      /\ q # 0 => q \in Rows(Store.questions)
  BY <1>1, <1>2 DEF Held
<1>4. /\ Asked(Store) /\ (Len(h.ids) = 2 => h.ids[1] # h.ids[2])
      /\ q # 0 => h.ids[1] = Store.questions[q].request
  BY <1>1 DEF WaitingInvariant, Holds
<1> HIDE DEF h, q
<1>5. h.ids[1] \in Rows(Store.requests) /\ (Len(h.ids) # 1 => h.ids[2] \in Rows(Store.requests))
  BY <1>3 DEF Rows
<1>6. /\ Turned(Store, s1, h.ids[1], q) /\ HeardBesides(s1, h.ids[1], q)
      /\ s1 \in StoreType /\ Consistent(s1, conversations)
  BY <1>2, <1>3, <1>4, <1>5, FinalizeTurns
<1>7. ASSUME NEW r \in Rows(Store.requests), HeardBesides(Store, r, 0)
      PROVE  HeardBesides(s1, r, q)
  <2>1. CASE r = h.ids[1]
    BY <1>6, <2>1
  <2>2. CASE r # h.ids[1]
    <3>1. HeardBesides(Store, r, q)
      BY <1>4, <1>7, <2>2 DEF HeardBesides
    <3> HIDE DEF s1
    <3> QED
      BY <1>2, <1>6, <2>2, <3>1, OthersHeard
  <2> QED
    BY <2>1, <2>2
<1> HIDE DEF s1
<1>8. Asked(s1) /\ Len(s1.requests) = Len(Store.requests)
      /\ (q # 0 => q \in Rows(s1.questions))
  <2>1. Len(Store.questions) \in Nat /\ Len(s1.questions) \in Nat
    BY <1>2, <1>6, RowTypes
  <2> QED
    BY <1>3, <1>6, <2>1 DEF Turned, Rows
<1>9. /\ s2 \in StoreType /\ Asked(s2) /\ Len(s2.requests) = Len(Store.requests)
      /\ Len(Store.questions) <= Len(s2.questions)
      /\ \A x \in Rows(Store.questions) : s2.questions[x].request = Store.questions[x].request
      /\ \A r \in Rows(Store.requests) :
           HeardBesides(Store, r, 0) \/ InHandsOf(h, r) => HeardBesides(s2, r, q)
  <2>1. CASE Len(h.ids) = 1
    <3>1. \A r \in Rows(Store.requests) : InHandsOf(h, r) => r = h.ids[1]
      BY <2>1 DEF InHandsOf, Rows
    <3> QED
      BY <1>6, <1>7, <1>8, <2>1, <3>1 DEF Turned
  <2>2. CASE Len(h.ids) # 1
    <3>1. Len(h.ids) = 2 /\ h.ids[2] \in Rows(s1.requests) /\ h.ids[1] # h.ids[2]
      BY <1>3, <1>4, <1>5, <1>8, <2>2 DEF Rows
    <3> DEFINE u == FinalizeOne(s1, h.ids[2], q)
    <3>2. /\ Turned(s1, u, h.ids[2], q) /\ HeardBesides(u, h.ids[2], q) /\ u \in StoreType
      BY <1>2, <1>6, <1>8, <3>1, FinalizeTurns
    <3>3. s2 = u
      BY <2>2
    <3> HIDE DEF u, s2
    <3>4. \A r \in Rows(s1.requests) : HeardBesides(s1, r, q) => HeardBesides(u, r, q)
      BY <1>6, <3>2, OthersHeard
    <3>5. \A r \in Rows(Store.requests) : InHandsOf(h, r) => r = h.ids[1] \/ r = h.ids[2]
      BY <3>1 DEF InHandsOf, Rows
    <3>6. Rows(s1.requests) = Rows(Store.requests)
      BY <1>8 DEF Rows
    <3>7. \A r \in Rows(Store.requests) :
            HeardBesides(Store, r, 0) \/ InHandsOf(h, r) => HeardBesides(u, r, q)
      BY <1>6, <1>7, <3>2, <3>4, <3>5, <3>6
    <3>8. Asked(u) /\ Len(u.requests) = Len(Store.requests)
      BY <1>8, <3>2 DEF Turned
    <3>9. /\ Len(Store.questions) <= Len(u.questions)
          /\ \A x \in Rows(Store.questions) : u.questions[x].request = Store.questions[x].request
      <4>1. Len(Store.questions) \in Nat /\ Len(s1.questions) \in Nat /\ Len(u.questions) \in Nat
        BY <1>2, <1>6, <3>2, RowTypes
      <4> QED
        BY <1>6, <3>2, <4>1 DEF Turned, Rows
    <3> QED
      BY <3>2, <3>3, <3>7, <3>8, <3>9
  <2> QED
    BY <2>1, <2>2
<1> HIDE DEF s2
<1>10. Store' = s2
  BY <1>1, <1>9 DEF Store, StoreType
<1>11. Asked(Store)'
  BY <1>9, <1>10 DEF Asked, Rows
<1>12. ASSUME NEW v \in Workers PROVE Holds(handling[v], Store)'
  <2>1. CASE v = w
    <3>1. handling'[v] = Idle
      BY <1>1, <1>2, <2>1
    <3> QED
      BY <3>1 DEF Holds, Idle
  <2>2. CASE v # w
    <3>1. handling'[v] = handling[v] /\ Holds(handling[v], Store)
          /\ Held(handling[v], Store, conversations)
      BY <1>1, <1>2, <2>2 DEF WaitingInvariant, ThreadsInvariant
    <3>2. handling[v].stage = "decided" /\ handling[v].question # 0
            => handling[v].question \in Rows(Store.questions)
      BY <3>1 DEF Held
    <3> QED
      BY <1>9, <1>10, <3>1, <3>2 DEF Holds
  <2> QED
    BY <2>1, <2>2
<1>13. ASSUME NEW r \in Rows(requests')
       PROVE  HeardBesides(Store', r, 0) \/ \E v \in Workers : InHandsOf(handling'[v], r)
  <2>1. r \in Rows(Store.requests) /\ Store.requests = requests
    BY <1>9, <1>10 DEF Rows, Store
  <2>2. CASE HeardBesides(Store, r, 0) \/ InHandsOf(h, r)
    <3>1. HeardBesides(s2, r, q)
      BY <1>9, <2>1, <2>2
    <3>2. \A x \in Rows(s2.questions) : x # 0
      BY DEF Rows
    <3> QED
      BY <1>10, <3>1, <3>2 DEF HeardBesides
  <2>3. ASSUME NEW v \in Workers, InHandsOf(handling[v], r), v # w
        PROVE  InHandsOf(handling'[v], r)
    BY <1>1, <1>2, <2>3
  <2> QED
    BY <2>1, <2>2, <2>3 DEF WaitingInvariant, h
<1>14. \A r \in Rows(requests') :
         (HeardBesides(Store, r, 0) \/ \E v \in Workers : InHandsOf(handling[v], r))'
  BY <1>13 DEF HeardBesides, InHandsOf, Rows
<1> QED
  BY <1>11, <1>12, <1>14 DEF WaitingInvariant, Rows

\* Operations that were carried out are finished.
LEMMA SettleWaits ==
  ASSUME ThreadsInvariant, WaitingInvariant, NEW r \in Rows(requests), Settle(r)
  PROVE  WaitingInvariant'
<1> DEFINE s == Notify(Store, r, "summarised")
           x == [s.requests[r] EXCEPT !.open = FALSE, !.operation = "closed"]
<1>1. /\ UNCHANGED <<questions, handling>>
      /\ requests' = [s.requests EXCEPT ![r].open = FALSE, ![r].operation = "closed"]
  BY DEF Settle, Store
<1>2. Store \in StoreType /\ Consistent(Store, conversations)
      /\ conversations \in Seq(ConversationRow) /\ r \in Rows(Store.requests)
      /\ Asked(Store) /\ Store.requests = requests /\ Store.questions = questions
  BY DEF ThreadsInvariant, WaitingInvariant, Store
<1>3. s \in StoreType
  BY <1>2, NotifyKept DEF Kept
<1>4. Turned(Store, s, r, 0)
  BY <1>2, <1>3, NotifyTurns
<1> HIDE DEF s
<1>5. s.requests \in Seq(Request) /\ s.requests[r] \in Request /\ r \in DOMAIN s.requests
  <2>1. s.requests \in Seq(Request) /\ r \in Rows(s.requests)
    BY <1>2, <1>3, <1>4 DEF StoreType, Turned, Rows
  <2> QED
    BY <1>3, <2>1, RowTypes DEF Rows
<1>6. requests' = [s.requests EXCEPT ![r] = x] /\ x.operation = "closed"
  BY <1>1, <1>5 DEF Request
<1> HIDE DEF x
<1>7. /\ Len(requests') = Len(requests) /\ requests'[r].operation = "closed"
      /\ \A i \in Rows(requests) : i # r => requests'[i] = requests[i]
  <2>1. DOMAIN requests' = DOMAIN s.requests /\ Len(requests') = Len(s.requests)
    BY <1>6
  <2> QED
    BY <1>2, <1>4, <1>5, <1>6, <2>1 DEF Turned, Rows
<1>8. Store'.questions = questions /\ Store'.requests = requests'
  BY <1>1 DEF Store
<1>9. \A i \in Rows(requests') : HeardBesides(Store, i, 0) => HeardBesides(Store', i, 0)
  BY <1>2, <1>7, <1>8 DEF HeardBesides, Rows
<1>10. \A i \in Rows(requests') :
         (HeardBesides(Store, i, 0) \/ \E v \in Workers : InHandsOf(handling[v], i))'
  BY <1>1, <1>7, <1>9 DEF WaitingInvariant, HeardBesides, InHandsOf, Rows
<1>11. Asked(Store)' /\ \A v \in Workers : Holds(handling[v], Store)'
  BY <1>1, <1>2, <1>8 DEF WaitingInvariant, Asked, Holds, Rows
<1> QED
  BY <1>10, <1>11 DEF WaitingInvariant, Rows

\* Every step keeps the invariant.
LEMMA WaitingStep ==
  ASSUME ThreadsInvariant, WaitingInvariant, MaxRounds \in Nat, MaxRounds <= 1,
         [ThreadNext]_threadVars
  PROVE  WaitingInvariant'
<1>1. CASE UNCHANGED <<requests, questions, handling>>
  <2>1. Store'.questions = Store.questions /\ Store'.requests = Store.requests
    BY <1>1 DEF Store
  <2> QED
    BY <1>1, <2>1 DEF WaitingInvariant, Asked, Holds, HeardBesides, InHandsOf, Rows
<1>2. CASE \E r \in Rows(requests) : Settle(r)
  BY <1>2, SettleWaits
<1>3. ASSUME NEW w \in Workers, PrepareMail(w) PROVE WaitingInvariant'
  BY <1>3, PrepareWaits
<1>4. ASSUME NEW w \in Workers, Ignore(w) PROVE WaitingInvariant'
  BY <1>4, IgnoreWaits
<1>5. ASSUME NEW w \in Workers, AnswerQuestion(w) PROVE WaitingInvariant'
  BY <1>5, AnswerQuestionWaits
<1>6. ASSUME NEW w \in Workers, AnswerAndMore(w) PROVE WaitingInvariant'
  BY <1>6, AnswerAndMoreWaits
<1>7. ASSUME NEW w \in Workers, Correct(w) PROVE WaitingInvariant'
  BY <1>7, CorrectWaits
<1>8. ASSUME NEW w \in Workers, OpenRequest(w) PROVE WaitingInvariant'
  BY <1>8, OpenRequestWaits
<1>9. ASSUME NEW w \in Workers, NothingSeparable(w) PROVE WaitingInvariant'
  BY <1>9, NothingSeparableWaits
<1>10. ASSUME NEW w \in Workers, FailMail(w) PROVE WaitingInvariant'
  BY <1>10, FailMailWaits
<1>11. ASSUME NEW w \in Workers, FinalizeMail(w) PROVE WaitingInvariant'
  BY <1>11, FinalizeMailWaits
<1>12. CASE Unhandled
  BY <1>1, <1>12 DEF Unhandled
<1>13. CASE UNCHANGED threadVars
  BY <1>1, <1>13 DEF threadVars
<1> QED
  BY <1>2, <1>3, <1>4, <1>5, <1>6, <1>7, <1>8, <1>9, <1>10, <1>11, <1>12, <1>13 DEF ThreadNext

\* With one round of clarification at most, which is the setting's default, a request that
\* waits and that nobody works on was asked by a question that is still open, or a person
\* was alerted, whatever other workers store in between.  With two rounds it fails (see the
\* divergences in README.md).
THEOREM NobodyWaitsInSilence ==
  ASSUME MaxRounds \in Nat, MaxRounds <= 1
  PROVE  ThreadSpec => []WaitingIsAsked
<1>1. ThreadInit => WaitingInvariant
  <2> SUFFICES ASSUME ThreadInit PROVE WaitingInvariant
    OBVIOUS
  <2>1. requests = <<>> /\ questions = <<>> /\ handling = [w \in Workers |-> Idle]
    BY DEF ThreadInit
  <2>2. Asked(Store) /\ Rows(requests) = {}
    BY <2>1 DEF Asked, Store, Rows
  <2> QED
    BY <2>1, <2>2, IdleHolds DEF WaitingInvariant
<1>2. ThreadsInvariant /\ WaitingInvariant /\ [ThreadNext]_threadVars => WaitingInvariant'
  BY WaitingStep
<1>3. ThreadsInvariant /\ WaitingInvariant => WaitingIsAsked
  <2> SUFFICES ASSUME ThreadsInvariant, WaitingInvariant, NEW r \in Rows(requests),
                      requests[r].operation = "waiting",
                      \A w \in Workers : r \notin {handling[w].ids[n] : n \in Rows(handling[w].ids)}
               PROVE  requests[r].alarmed
                      \/ \E q \in Rows(questions) : questions[q].request = r /\ questions[q].open
    BY DEF WaitingIsAsked
  <2>1. \A w \in Workers : ~InHandsOf(handling[w], r)
    BY DEF InHandsOf
  <2>2. HeardBesides(Store, r, 0)
    BY <2>1 DEF WaitingInvariant
  <2> QED
    BY <2>2 DEF HeardBesides, Store
<1> QED
  BY <1>1, <1>2, <1>3, ThreadsInvariantHolds, PTL DEF ThreadSpec
=============================================================================
