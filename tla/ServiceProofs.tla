---------------------------- MODULE ServiceProofs ----------------------------
(***************************************************************************)
(* What the services around the cores promise, for any bounds: the         *)
(* business client, the mailbox, the contexts.                             *)
(***************************************************************************)
EXTENDS BusinessClient, Mailbox, ContextBounds, Sums

-----------------------------------------------------------------------------
(* The business client: every step is a step of BusinessCall, or changes   *)
(* nothing that BusinessCall speaks of.  Without the guarantee that the    *)
(* service honours its keys one request is sent at most; with it, the      *)
(* service does not carry out a second.                                    *)

ClientTypes ==
  /\ deployment \in Deployment
  /\ asks \in Nat /\ attempt \in Nat /\ posted \in Nat /\ served \in Nat
  /\ verdict \in {"none", "succeeded", "failed", "unknown"}

Running == {"begun", "sending", "waiting", "answered"}

\* While it runs, the call was asked for and has no verdict.
Asked ==
  /\ stage \in Running => asks > 0 /\ verdict = "none"
  /\ stage = "idle" => asks = 0
  /\ asks = 0 => flying = {}

\* Only one of the two adapters is there.
OneAdapter ==
  /\ mocked = {} \/ \E c \in {command} \cup mocked : mocked = {c}
  /\ deployment.dry => served = 0 /\ flying = {}
  /\ ~deployment.dry => mocked = {}

\* Without a guarantee there is one request at most, and it is not sent before the
\* call, nor again.
OneRequest ==
  ~deployment.guaranteed =>
    /\ flying = {} \/ (flying = {posted} /\ served = 0)
    /\ stage = "sending" \/ stage = "begun" \/ stage = "idle" => deployment.dry \/ posted = 0
    /\ stage \in {"waiting", "answered"} => attempt >= 1
    /\ posted = 0 => flying = {} /\ served = 0

ServedOnce == served <= 1 /\ (stage = "answered" /\ reply = "success" => served = 1)

ClientInv == ClientTypes /\ Asked /\ OneAdapter /\ OneRequest /\ ServedOnce

Effects == served + Cardinality(mocked)

LEMMA ClientInvInit == ClientInit => ClientInv
  BY DEF ClientInit, ClientInv, ClientTypes, Asked, OneAdapter, OneRequest, ServedOnce, Running

\* The mock has recorded nothing or one command.
LEMMA Mocks ==
  ASSUME OneAdapter
  PROVE  /\ Cardinality(mocked) \in {0, 1}
         /\ Cardinality(mocked) = 0 <=> mocked = {}
         /\ \A c : mocked = {c} => Cardinality(mocked) = 1
  BY FS_EmptySet, FS_Singleton DEF OneAdapter

LEMMA RecordedTypes ==
  /\ \A result : Recorded(result) \in {"succeeded", "failed", "unknown"}
  /\ \A result : Recorded(result) = "succeeded" => result = "success"
  BY DEF Recorded

LEMMA ClientInvNext == ClientInv /\ [ClientNext]_clientVars => ClientInv'
<1> SUFFICES ASSUME ClientInv, [ClientNext]_clientVars PROVE ClientInv'
  OBVIOUS
<1> USE DEF ClientInv, ClientTypes, Asked, OneAdapter, OneRequest, ServedOnce, Running,
            Deployment
<1>1. CASE Use
  BY <1>1 DEF Use
<1>2. CASE Call
  BY <1>2, RecordedTypes DEF Call, End
<1>3. CASE Mock
  BY <1>3, RecordedTypes DEF Mock, End
<1>4. CASE Post
  BY <1>4 DEF Post
<1>5. CASE Arrive
  <2>1. PICK r \in flying, carriedOut \in BOOLEAN,
             answer \in {"success", "declined", "retryable", "unusable"} :
          /\ carriedOut => ~(deployment.honours /\ served > 0)
          /\ answer = "success" => carriedOut \/ (deployment.honours /\ served > 0)
          /\ served' = served + (IF carriedOut THEN 1 ELSE 0)
          /\ flying' = flying \ {r}
          /\ \/ stage' = "answered" /\ reply' = answer /\ stage = "waiting"
             \/ UNCHANGED <<stage, reply>>
          /\ UNCHANGED <<deployment, command, asks, attempt, posted, mocked, verdict>>
    BY <1>5 DEF Arrive
  <2>2. ~deployment.dry /\ mocked = {}
    BY <2>1
  <2>3. carriedOut => served = 0
    BY <2>1
  <2>4. ServedOnce'
    BY <2>1, <2>3
  <2>5. OneRequest'
    BY <2>1
  <2> QED
    BY <2>1, <2>2, <2>4, <2>5
<1>6. CASE TransportFails
  BY <1>6 DEF TransportFails
<1>7. CASE HandleReply
  BY <1>7, RecordedTypes DEF HandleReply, End, AllowedAttempts
<1>8. CASE ClientCrashes
  BY <1>8 DEF ClientCrashes
<1>9. CASE UNCHANGED clientVars
  BY <1>9 DEF clientVars
<1> QED
  BY <1>1, <1>2, <1>3, <1>4, <1>5, <1>6, <1>7, <1>8, <1>9 DEF ClientNext

\* What a step is for BusinessCall.
LEMMA StepImplements ==
  ASSUME ClientInv, ClientInv', [ClientNext]_clientVars
  PROVE  [Promise!Ask \/ Promise!TakeEffect \/ Promise!Conclude]_Promise!promiseVars
<1> USE DEF ClientInv, ClientTypes, Asked, OneAdapter, ServedOnce, Running
<1> USE DEF Promise!promiseVars
<1>1. CASE Use
  BY <1>1 DEF Use, Promise!Ask
<1>2. CASE Call
  BY <1>2, RecordedTypes DEF Call, End, Promise!Conclude
<1>3. CASE Mock
  <2>1. asks > 0 /\ verdict = "none" /\ served = 0
    BY <1>3 DEF Mock
  <2>2. mocked = {} => mocked' = {command} /\ Cardinality(mocked') = 1 /\ Cardinality(mocked) = 0
    BY <1>3, FS_EmptySet, FS_Singleton DEF Mock
  <2>3. mocked # {} => mocked' = mocked /\ Cardinality(mocked) = 1
    BY <1>3, Mocks DEF Mock
  <2>4. verdict' = "succeeded" => mocked' = {command}
    BY <1>3, RecordedTypes DEF Mock, End
  <2>5. verdict' \in {"succeeded", "failed", "unknown"}
    BY <1>3, RecordedTypes DEF Mock, End
  <2>6. UNCHANGED <<asks, served>>
    BY <1>3 DEF Mock
  <2> QED
    BY <2>1, <2>2, <2>3, <2>4, <2>5, <2>6 DEF Promise!Conclude
<1>4. CASE Post \/ TransportFails \/ ClientCrashes \/ UNCHANGED clientVars
  BY <1>4 DEF Post, TransportFails, ClientCrashes, clientVars
<1>5. CASE Arrive
  BY <1>5, Mocks DEF Arrive, Promise!TakeEffect
<1>6. CASE HandleReply
  BY <1>6, RecordedTypes, Mocks DEF HandleReply, End, Promise!Conclude
<1> QED
  BY <1>1, <1>2, <1>3, <1>4, <1>5, <1>6 DEF ClientNext

\* The invariant: one request without a guarantee, one effect with it.
THEOREM ClientInvHolds == ClientSpec => []ClientInv
  BY ClientInvInit, ClientInvNext, PTL DEF ClientSpec

\* Whatever is lost, late, retried or repeated, a key takes effect at most once, and an
\* execution is recorded as succeeded only when it has.
THEOREM ClientKeepsPromise == ClientSpec => CallKeepsItsPromise
<1>1. ClientInit => Promise!PromiseInit
  BY FS_EmptySet DEF ClientInit, Promise!PromiseInit
<1> QED
  BY <1>1, ClientInvHolds, StepImplements, PTL
  DEF ClientSpec, CallKeepsItsPromise, Promise!PromiseSpec

-----------------------------------------------------------------------------
(* The mailbox: under one UIDVALIDITY the server never gives a uid to      *)
(* another message.  So what the agent fetched and what it stored under    *)
(* the UIDVALIDITY of the moment still is, if it is there at all, what its *)
(* uid names.                                                              *)

\* Messages and rows by their locator.
Located(x) ==
  /\ x.uidvalidity \in Nat /\ x.uidvalidity <= uidvalidity
  /\ x.uid \in Nat
  /\ x.uidvalidity = uidvalidity => x.uid < uidnext

\* A locator of the moment names the letter it was made for.
Current(x) ==
  x.uidvalidity = uidvalidity /\ x.uid \in DOMAIN box => box[x.uid] = x.letter

Known(letter) == \E row \in emails : row.letter = letter

MailboxInv ==
  /\ uidvalidity \in Nat /\ uidnext \in Nat
  /\ DOMAIN box \subseteq Nat /\ \A uid \in DOMAIN box : uid < uidnext
  /\ \A x \in fetched \cup acknowledged \cup emails : Located(x) /\ Current(x)
  /\ \A message \in acknowledged : \E row \in emails : SameLocator(row, message)
  /\ \A letter \in flagged : Known(letter)
  /\ \A row, other \in emails :
       row.original /\ other.original /\ row.letter = other.letter => row = other

LEMMA MailboxInvInit == MailboxInit => MailboxInv
  BY DEF MailboxInit, MailboxInv

LEMMA DeliverKeeps == MailboxInv /\ Deliver => MailboxInv'
<1> SUFFICES ASSUME MailboxInv, Deliver PROVE MailboxInv'
  OBVIOUS
<1> USE DEF MailboxInv, Deliver
<1>2. /\ DOMAIN box' = DOMAIN box \cup {uidnext}
      /\ \A uid \in DOMAIN box : box'[uid] = box[uid]
  OBVIOUS
<1>3. /\ uidvalidity' \in Nat /\ uidnext' \in Nat /\ DOMAIN box' \subseteq Nat
      /\ \A uid \in DOMAIN box' : uid < uidnext'
  BY <1>2
<1>4. ASSUME NEW x \in fetched \cup acknowledged \cup emails
      PROVE Located(x)' /\ Current(x)'
  BY <1>2 DEF Located, Current
<1> QED
  BY <1>3, <1>4 DEF SameLocator, Known

LEMMA ExpungeKeeps == MailboxInv /\ Expunge => MailboxInv'
<1> SUFFICES ASSUME MailboxInv, Expunge PROVE MailboxInv'
  OBVIOUS
<1> USE DEF MailboxInv, Expunge
<1>1. /\ DOMAIN box' \subseteq DOMAIN box
      /\ \A uid \in DOMAIN box' : box'[uid] = box[uid]
  OBVIOUS
<1>2. ASSUME NEW x \in fetched \cup acknowledged \cup emails
      PROVE Located(x)' /\ Current(x)'
  BY <1>1 DEF Located, Current
<1> QED
  BY <1>1, <1>2 DEF SameLocator, Known

LEMMA RebuildKeeps == MailboxInv /\ Rebuild => MailboxInv'
<1> SUFFICES ASSUME MailboxInv, Rebuild PROVE MailboxInv'
  OBVIOUS
<1> USE DEF MailboxInv, Rebuild
<1>1. PICK last \in 0..MaxUid :
        DOMAIN box' = 1..last /\ uidnext' = last + 1
  OBVIOUS
<1>2. /\ uidvalidity' \in Nat /\ uidnext' \in Nat /\ DOMAIN box' \subseteq Nat
      /\ \A uid \in DOMAIN box' : uid < uidnext'
  BY <1>1, MaxUidAssumption
\* Nothing is located under the new UIDVALIDITY.
<1>3. ASSUME NEW x \in fetched \cup acknowledged \cup emails
      PROVE Located(x)' /\ Current(x)'
  BY DEF Located, Current
<1> QED
  BY <1>2, <1>3 DEF SameLocator, Known

LEMMA FetchKeeps == MailboxInv /\ FetchCandidates => MailboxInv'
<1> SUFFICES ASSUME MailboxInv, FetchCandidates PROVE MailboxInv'
  OBVIOUS
<1> USE DEF MailboxInv, FetchCandidates
<1>1. ASSUME NEW x \in fetched' PROVE Located(x)' /\ Current(x)'
  BY DEF Located, Current
<1>2. ASSUME NEW x \in acknowledged \cup emails PROVE Located(x)' /\ Current(x)'
  BY DEF Located, Current
<1> QED
  BY <1>1, <1>2 DEF SameLocator, Known

LEMMA ProcessKeeps == MailboxInv /\ ProcessRaw => MailboxInv'
<1> SUFFICES ASSUME MailboxInv, ProcessRaw PROVE MailboxInv'
  OBVIOUS
<1> USE DEF MailboxInv, ProcessRaw
<1>1. PICK message \in fetched :
        /\ fetched' = fetched \ {message}
        /\ acknowledged' \in {{}, {message}}
        /\ \/ ByPhysicalLocator(message) # {} /\ emails' = emails
           \/ /\ ByPhysicalLocator(message) = {}
              /\ emails' = emails \cup
                   {[uidvalidity |-> message.uidvalidity, uid |-> message.uid,
                     letter |-> message.letter,
                     original |-> ByRawSha256(message.letter) = {}]}
  OBVIOUS
<1>2. ASSUME NEW x \in fetched' \cup acknowledged' \cup emails'
      PROVE Located(x)' /\ Current(x)'
  BY <1>1 DEF Located, Current
<1>3. \E row \in emails' : SameLocator(row, message)
  <2>1. CASE ByPhysicalLocator(message) # {}
    BY <1>1, <2>1 DEF ByPhysicalLocator
  <2>2. CASE ByPhysicalLocator(message) = {}
    <3>1. PICK row \in emails' :
            row = [uidvalidity |-> message.uidvalidity, uid |-> message.uid,
                   letter |-> message.letter,
                   original |-> ByRawSha256(message.letter) = {}]
      BY <1>1, <2>2
    <3> QED
      BY <3>1 DEF SameLocator
  <2> QED
    BY <2>1, <2>2
<1>4. \A letter \in flagged' : Known(letter)'
  BY <1>1 DEF Known
<1>5. ASSUME NEW row \in emails', NEW other \in emails', row.original, other.original,
             row.letter = other.letter
      PROVE row = other
  <2> DEFINE new == [uidvalidity |-> message.uidvalidity, uid |-> message.uid,
                     letter |-> message.letter,
                     original |-> ByRawSha256(message.letter) = {}]
  <2>1. CASE row \in emails /\ other \in emails
    BY <2>1, <1>5
  <2>2. ASSUME NEW x \in emails, x.original, x.letter = message.letter
        PROVE ~new.original
    <3>1. x \in ByRawSha256(message.letter)
      BY <2>2 DEF ByRawSha256
    <3> QED
      BY <3>1
  <2>3. new.letter = message.letter
    OBVIOUS
  <2>4. \A x \in emails' : x \in emails \/ x = new
    BY <1>1
  <2> HIDE DEF new
  <2> QED
    BY <1>5, <2>1, <2>2, <2>3, <2>4
<1> QED
  BY <1>1, <1>2, <1>3, <1>4, <1>5 DEF SameLocator

LEMMA MarkKeeps == MailboxInv /\ MarkSeen => MailboxInv'
<1> SUFFICES ASSUME MailboxInv, MarkSeen PROVE MailboxInv'
  OBVIOUS
<1> USE DEF MailboxInv, MarkSeen
<1>1. PICK message \in acknowledged :
        flagged' \subseteq flagged \cup
          {box[uid] : uid \in {u \in DOMAIN box : u = message.uid /\ Acknowledgeable(message)}}
  OBVIOUS
<1>2. PICK row \in emails : SameLocator(row, message)
  OBVIOUS
<1>3. ASSUME NEW letter \in flagged' PROVE Known(letter)'
  <2>1. CASE letter \in flagged
    BY <2>1 DEF Known
  <2>2. CASE letter \notin flagged
    <3>1. /\ message.uid \in DOMAIN box /\ letter = box[message.uid]
          /\ message.uidvalidity = uidvalidity
      BY <1>1, <2>2 DEF Acknowledgeable
    <3>2. row.letter = letter
      BY <1>2, <3>1 DEF SameLocator, Current
    <3> QED
      BY <3>2 DEF Known
  <2> QED
    BY <2>1, <2>2
<1> QED
  BY <1>3 DEF Located, Current, SameLocator

\* The invariant: what has a locator of the moment is what that locator names, and a
\* message on its way to mark_seen has a row under its locator.
THEOREM MailboxInvHolds == MailboxSpec => []MailboxInv
<1>1. MailboxInv /\ [MailboxNext]_mailboxVars => MailboxInv'
  <2> SUFFICES ASSUME MailboxInv, [MailboxNext]_mailboxVars PROVE MailboxInv'
    OBVIOUS
  <2>1. CASE StoreRaises \/ PollerCrashes \/ UNCHANGED mailboxVars
    BY <2>1 DEF StoreRaises, PollerCrashes, mailboxVars, MailboxInv, Located, Current,
                SameLocator, Known
  <2> QED
    BY <2>1, DeliverKeeps, ExpungeKeeps, RebuildKeeps, FetchKeeps, ProcessKeeps, MarkKeeps
    DEF MailboxNext
<1> QED
  BY <1>1, MailboxInvInit, PTL DEF MailboxSpec

\* The agent marks nothing as seen that is not stored, and stores one original of every
\* letter, however often the mailbox is rebuilt and wherever the poller dies.
THEOREM SeenMailIsKept == MailboxSpec => []SeenIsKept
<1>1. MailboxInv => SeenIsKept
  BY DEF MailboxInv, SeenIsKept, Known
<1> QED
  BY <1>1, MailboxInvHolds, PTL

-----------------------------------------------------------------------------
(* The contexts: a context is its sections, and its size their sum.  What  *)
(* is added as far as it fits never makes it too long, so the minimal      *)
(* envelope, which is made this way, always fits.                          *)

LEMMA FourFinite ==
  ASSUME NEW a, NEW b, NEW c, NEW d
  PROVE  IsFiniteSet({a, b, c, d})
<1>1. IsFiniteSet({a})
  BY FS_Singleton
<1>2. IsFiniteSet({a} \cup {b})
  BY <1>1, FS_AddElement
<1>3. IsFiniteSet(({a} \cup {b}) \cup {c})
  BY <1>2, FS_AddElement
<1>4. IsFiniteSet((({a} \cup {b}) \cup {c}) \cup {d})
  BY <1>3, FS_AddElement
<1>5. {a, b, c, d} = (({a} \cup {b}) \cup {c}) \cup {d}
  OBVIOUS
<1> QED
  BY <1>4, <1>5

LEMMA SectionsFinite == IsFiniteSet(Sections)
<1>1. IsFiniteSet(Emptied) /\ IsFiniteSet({"frame", "reference", "audit", "essential"})
  BY FourFinite DEF Emptied
<1>2. IsFiniteSet({"subject", "question", "latest", "candidates"})
      /\ IsFiniteSet({"open_requests", "targets", "stored", "stored"})
  BY FourFinite
<1>3. Shortened = {"subject", "question", "latest", "candidates"}
                    \cup {"open_requests", "targets", "stored", "stored"}
  BY DEF Shortened
<1>4. IsFiniteSet(Shortened)
  BY <1>2, <1>3, FS_Union
<1>5. IsFiniteSet(Emptied \cup Shortened)
  BY <1>1, <1>4, FS_Union
<1> QED
  BY <1>1, <1>5, FS_Union DEF Sections

Lengths == [Sections -> Nat]

LEMMA Summables ==
  ASSUME NEW c \in Lengths, NEW S \in SUBSET Sections
  PROVE  Summable(c, S) /\ SumFunctionOnSet(c, S) \in Nat
<1>1. IsFiniteSet(S) /\ \A x \in S : c[x] \in Nat
  BY SectionsFinite, FS_Subset DEF Lengths
<1> QED
  BY <1>1, SumOfNat DEF Summable

LEMMA SizeIsSum ==
  ASSUME NEW c \in Lengths
  PROVE  Size(c) = SumFunctionOnSet(c, Sections) /\ Size(c) \in Nat
  BY Summables DEF Size, SumFunction, Lengths

\* A section counts with its length.
LEMMA SizeWith ==
  ASSUME NEW c \in Lengths, NEW s \in Sections, NEW v \in Nat
  PROVE  /\ Size([c EXCEPT ![s] = v]) = Size([c EXCEPT ![s] = 0]) + v
         /\ Size([c EXCEPT ![s] = 0]) \in Nat
<1> DEFINE d == [c EXCEPT ![s] = v]
           e == [c EXCEPT ![s] = 0]
           others == Sections \ {s}
<1>1. d \in Lengths /\ e \in Lengths /\ d[s] = v /\ e[s] = 0 /\ \A x \in others : d[x] = e[x]
  BY DEF Lengths
<1> HIDE DEF d, e
<1>2. /\ Summable(d, Sections) /\ Summable(e, Sections) /\ Summable(d, others)
      /\ SumFunctionOnSet(e, others) \in Nat
  BY <1>1, Summables
<1>3. SumFunctionOnSet(d, Sections) = d[s] + SumFunctionOnSet(d, others)
  BY <1>2, SumTakesOut
<1>4. SumFunctionOnSet(e, Sections) = e[s] + SumFunctionOnSet(e, others)
  BY <1>2, SumTakesOut
<1>5. SumFunctionOnSet(d, others) = SumFunctionOnSet(e, others)
  BY <1>1, <1>2, SumSame
<1>6. Size(d) = SumFunctionOnSet(d, Sections) /\ Size(e) = SumFunctionOnSet(e, Sections)
  BY <1>1, SizeIsSum
<1> QED
  BY <1>1, <1>2, <1>3, <1>4, <1>5, <1>6 DEF d, e

\* A section that is added as far as it fits leaves what fits.
LEMMA ShrunkFits ==
  ASSUME cap \in Nat, NEW c \in Lengths, NEW s \in Sections, NEW v \in Nat,
         c[s] = 0, Size(c) <= cap
  PROVE  /\ Shrunk([c EXCEPT ![s] = v], s) \in Lengths
         /\ Size(Shrunk([c EXCEPT ![s] = v], s)) <= cap
         /\ \A t \in Sections \ {s} : Shrunk([c EXCEPT ![s] = v], s)[t] = c[t]
<1> DEFINE kept == AtMost(v, cap - Size(c))
<1>1. [[c EXCEPT ![s] = v] EXCEPT ![s] = 0] = c
  BY DEF Lengths
<1>2. Size(c) \in Nat
  BY SizeIsSum
<1>3. Shrunk([c EXCEPT ![s] = v], s) = [c EXCEPT ![s] = kept]
  <2> DEFINE d == [c EXCEPT ![s] = v]
             without == Size([d EXCEPT ![s] = 0])
  <2>1. without = Size(c)
    BY <1>1
  <2>2. d[s] = v /\ [d EXCEPT ![s] = kept] = [c EXCEPT ![s] = kept]
    BY DEF Lengths
  <2>3. Shrunk(d, s) = [d EXCEPT ![s] = IF without > cap THEN 0 ELSE AtMost(d[s], cap - without)]
    BY DEF Shrunk
  <2> HIDE DEF without, d
  <2>4. ~(without > cap)
    BY <1>2, <2>1
  <2> QED
    BY <2>1, <2>2, <2>3, <2>4 DEF d
<1>4. kept \in Nat /\ kept <= cap - Size(c)
  BY <1>2 DEF AtMost
<1> HIDE DEF kept
<1>5. Size([c EXCEPT ![s] = kept]) = Size(c) + kept
  <2>1. [c EXCEPT ![s] = 0] = c
    BY DEF Lengths
  <2> QED
    BY <1>4, <2>1, SizeWith
<1>6. [c EXCEPT ![s] = kept] \in Lengths
      /\ \A t \in Sections \ {s} : [c EXCEPT ![s] = kept][t] = c[t]
  BY <1>4 DEF Lengths
<1>7. Size([c EXCEPT ![s] = kept]) <= cap
  BY <1>2, <1>4, <1>5
<1> QED
  BY <1>3, <1>6, <1>7

LEMMA EnvelopeFits ==
  LET empty == [s \in Sections |-> IF s = "essential" THEN Envelope ELSE 0]
  IN empty \in Lengths /\ Size(empty) = Envelope
<1> DEFINE empty == [s \in Sections |-> IF s = "essential" THEN Envelope ELSE 0]
           none == [s \in Sections |-> 0]
<1>1. Envelope \in Nat /\ "essential" \in Sections /\ none \in Lengths /\ empty \in Lengths
  BY DEF Envelope, Sections, Lengths
<1>2. empty = [none EXCEPT !["essential"] = Envelope] /\ none = [none EXCEPT !["essential"] = 0]
  BY <1>1
<1>3. \A x \in Sections : none[x] = 0
  OBVIOUS
<1> HIDE DEF none, empty
<1>4. Size(empty) = Size(none) + Envelope
  <2>1. Size([none EXCEPT !["essential"] = Envelope])
          = Size([none EXCEPT !["essential"] = 0]) + Envelope
    BY <1>1, SizeWith
  <2> QED
    BY <1>2, <2>1
<1>5. Size(none) = 0
  BY <1>1, <1>3, SumOfZeros, SectionsFinite, SizeIsSum
<1> QED
  BY <1>1, <1>4, <1>5 DEF empty, Envelope

\* The minimal envelope is within the cap, whatever the context was.
LEMMA MinimalFits ==
  ASSUME cap \in Caps, built \in Lengths, NEW c \in Lengths
  PROVE  Minimal(c) \in Lengths /\ Size(Minimal(c)) <= cap
<1> DEFINE empty == [s \in Sections |-> IF s = "essential" THEN Envelope ELSE 0]
           audited == Shrunk([empty EXCEPT !.audit = c.audit], "audit")
           named == Shrunk([audited EXCEPT !.reference = built.reference], "reference")
           numbered == Shrunk([named EXCEPT !.candidates = built.candidates], "candidates")
           latest == AtMost(built.latest, MaxLatest)
<1>1. cap \in Nat /\ cap >= Envelope /\ MaxLatest \in Nat
  BY CapsAssumption, LimitsAssumption
<1>2. {"audit", "reference", "candidates", "latest"} \subseteq Sections
  BY DEF Sections, Shortened
<1>3. c.audit \in Nat /\ built.reference \in Nat /\ built.candidates \in Nat /\ latest \in Nat
  BY <1>1, <1>2 DEF Lengths, AtMost
<1>4. empty \in Lengths /\ Size(empty) <= cap /\ \A s \in {"audit", "reference", "candidates", "latest"} : empty[s] = 0
  <2>1. \A s \in {"audit", "reference", "candidates", "latest"} : empty[s] = 0
    BY <1>2
  <2> QED
    BY <1>1, <2>1, EnvelopeFits
<1> HIDE DEF empty
<1>5. /\ audited \in Lengths /\ Size(audited) <= cap
      /\ \A s \in {"reference", "candidates", "latest"} : audited[s] = 0
  BY <1>1, <1>2, <1>3, <1>4, ShrunkFits
<1> HIDE DEF audited
<1>6. /\ named \in Lengths /\ Size(named) <= cap
      /\ \A s \in {"candidates", "latest"} : named[s] = 0
  BY <1>1, <1>2, <1>3, <1>5, ShrunkFits
<1> HIDE DEF named
<1>7. numbered \in Lengths /\ Size(numbered) <= cap /\ numbered.latest = 0
  BY <1>1, <1>2, <1>3, <1>6, ShrunkFits
<1> HIDE DEF numbered, latest
<1>8. /\ Shrunk([numbered EXCEPT !.latest = latest], "latest") \in Lengths
      /\ Size(Shrunk([numbered EXCEPT !.latest = latest], "latest")) <= cap
  BY <1>1, <1>2, <1>3, <1>7, ShrunkFits
<1>9. Minimal(c) = Shrunk([numbered EXCEPT !.latest = latest], "latest")
  BY DEF Minimal, numbered, named, audited, empty, latest
<1> QED
  BY <1>8, <1>9
-----------------------------------------------------------------------------
\* While nothing was left out the context is the mail's; once something is, nothing is
\* executed automatically.
ContextInv ==
  /\ cap \in Caps /\ step \in 0..Len(Reductions)
  /\ built \in Lengths /\ context \in Lengths
  /\ ~mime.limited => mime.whole
  /\ automatic \in BOOLEAN
  /\ step = 0 => Fits(context)
  /\ automatic => step \in {0, 1} /\ context = built
  /\ prepared /\ automatic => ~mime.limited

LEMMA ReductionFacts ==
  /\ Len(Reductions) = 13 /\ Reductions[1] = "check" /\ Reductions[13] = "minimal"
  /\ \A n \in 2..12 : Reductions[n] \in Shortened \cup Emptied
  BY DEF Reductions, Shortened, Emptied

LEMMA ContextInvInit == ContextInit => ContextInv
<1> SUFFICES ASSUME ContextInit PROVE ContextInv
  OBVIOUS
<1>1. PICK mode \in Modes : /\ built \in Raw(mode) /\ context = Bounded(built)
                            /\ automatic = (mode # "follow_up" /\ context.audit = 0)
  BY DEF ContextInit
<1>2. built \in Lengths /\ built.audit = 0
        /\ (built.since = 0 \/ built.since = built.latest)
  BY <1>1, LimitsAssumption DEF Raw, Lengths, Sections, Emptied, Shortened
<1>3. {"latest", "since", "thread", "audit"} \subseteq Sections
  BY DEF Sections, Emptied, Shortened
<1>4. context \in Lengths
  BY <1>1, <1>2, <1>3, LimitsAssumption DEF Bounded, Lengths, AtMost
<1>5. context.audit = 0 => context = built
  <2> SUFFICES ASSUME context.audit = 0 PROVE context = built
    OBVIOUS
  <2>1. built.latest <= MaxLatest /\ built.thread <= MaxThread
    BY <1>1, <1>2, <1>3, LimitsAssumption DEF Bounded, Lengths, AtMost
  <2>2. built.since <= MaxLatest
    BY <1>2, <1>3, <2>1, LimitsAssumption DEF Lengths
  <2>3. \A s \in Sections : context[s] = built[s]
    BY <1>1, <1>2, <1>3, <2>1, <2>2 DEF Bounded, Lengths, AtMost
  <2> QED
    BY <1>2, <1>4, <2>3 DEF Lengths
<1>6. ~mime.limited => mime.whole
  <2>1. PICK parts : mime = Extracted(parts)
    BY DEF ContextInit
  <2> QED
    BY <2>1 DEF Extracted
<1>7. cap \in Caps /\ step = 1 /\ prepared = FALSE
  BY DEF ContextInit
<1>8. automatic \in BOOLEAN /\ (automatic => context = built)
  BY <1>1, <1>5
<1> QED
  BY <1>2, <1>4, <1>6, <1>7, <1>8, ReductionFacts DEF ContextInv

LEMMA ReducedLengths ==
  ASSUME ContextInv, NEW n \in 1..Len(Reductions)
  PROVE  /\ Reduced(context, Reductions[n]) \in Lengths
         /\ n = Len(Reductions) => Size(Reduced(context, Reductions[n])) <= cap
         /\ n = 1 => Reduced(context, Reductions[n]) = context
<1> DEFINE r == Reductions[n]
<1>1. cap \in Nat
  BY CapsAssumption DEF ContextInv
<1>2. ASSUME NEW s \in Sections
      PROVE  Shrunk(context, s) \in Lengths
  <2> DEFINE without == Size([context EXCEPT ![s] = 0])
             most == IF without > cap THEN 0 ELSE AtMost(context[s], cap - without)
  <2>1. without \in Nat /\ context \in Lengths
    BY SizeWith DEF ContextInv
  <2>2. context[s] \in Nat
    BY <2>1 DEF Lengths
  <2>3. Shrunk(context, s) = [context EXCEPT ![s] = most]
    BY DEF Shrunk
  <2> HIDE DEF without
  <2>4. most \in Nat
    BY <1>1, <2>1, <2>2 DEF AtMost
  <2> QED
    BY <2>1, <2>3, <2>4 DEF Lengths
<1>3. /\ n = 1 => r = "check"
      /\ n = Len(Reductions) => r = "minimal"
      /\ r \in {"check", "minimal"} \cup Shortened \cup Emptied
  BY ReductionFacts
<1>4. context \in Lengths /\ built \in Lengths /\ cap \in Caps
  BY DEF ContextInv
<1> HIDE DEF r
<1>5. CASE r = "check"
  <2>1. r \notin Shortened \cup Emptied /\ r # "minimal"
    BY <1>5 DEF Shortened, Emptied
  <2>2. Reduced(context, r) = context
    BY <1>5, <2>1 DEF Reduced
  <2> QED
    BY <1>3, <1>4, <2>1, <2>2 DEF r
<1>6. CASE r = "minimal"
  <2>1. r \notin Shortened \cup Emptied /\ r # "check"
    BY <1>6 DEF Shortened, Emptied
  <2>2. Reduced(context, r) = Minimal(context)
    BY <1>6, <2>1 DEF Reduced
  <2>3. Minimal(context) \in Lengths /\ Size(Minimal(context)) <= cap
    BY <1>4, MinimalFits
  <2> QED
    BY <1>3, <2>1, <2>2, <2>3 DEF r
<1>7. CASE r \in Shortened
  <2>1. r \notin {"check", "minimal"} /\ r \in Sections
    BY <1>7 DEF Shortened, Sections
  <2>2. r \notin Emptied
    BY <1>7 DEF Shortened, Emptied
  <2>3. Reduced(context, r) = Shrunk(context, r)
    BY <1>7, <2>1, <2>2 DEF Reduced
  <2> QED
    BY <1>2, <1>3, <2>1, <2>3 DEF r
<1>8. CASE r \in Emptied
  <2>1. r \notin {"check", "minimal"} /\ r \in Sections
    BY <1>8 DEF Emptied, Sections
  <2>2. r \notin Shortened
    BY <1>8 DEF Shortened, Emptied
  <2>3. Reduced(context, r) = [context EXCEPT ![r] = 0]
    BY <1>8, <2>1, <2>2 DEF Reduced
  <2>4. [context EXCEPT ![r] = 0] \in Lengths
    BY <1>4 DEF Lengths
  <2> QED
    BY <1>3, <2>1, <2>3, <2>4 DEF r
<1> QED
  BY <1>3, <1>5, <1>6, <1>7, <1>8

LEMMA ReduceKeeps == ContextInv /\ Reduce => ContextInv'
<1> SUFFICES ASSUME ContextInv, Reduce PROVE ContextInv'
  OBVIOUS
<1> DEFINE c == Reduced(context, Reductions[step])
<1>1. /\ step \in 1..Len(Reductions) /\ cap' = cap /\ built' = built /\ mime' = mime
      /\ prepared' = prepared
  BY DEF Reduce
<1>2. c \in Lengths /\ (step = Len(Reductions) => Size(c) <= cap) /\ (step = 1 => c = context)
  BY <1>1, ReducedLengths
<1>3. /\ context' = IF ~(Size(c) <= cap) /\ step = 1 THEN [c EXCEPT !.essential = 1] ELSE c
      /\ automatic' = (automatic /\ ~(~(Size(c) <= cap) /\ step = 1))
      /\ step' = IF ~(Size(c) <= cap) THEN step + 1 ELSE 0
  BY DEF Reduce, Fits, Warned
<1> HIDE DEF c
<1>4. Len(Reductions) = 13
  BY ReductionFacts
<1>5. CASE Size(c) <= cap
  <2>1. context' = c /\ automatic' = automatic /\ step' = 0
    BY <1>3, <1>5 DEF ContextInv
  <2>2. Fits(context)'
    BY <1>1, <1>5, <2>1 DEF Fits
  <2>3. automatic => context' = built'
    BY <1>1, <1>2, <2>1 DEF ContextInv
  <2> QED
    BY <1>1, <1>2, <1>4, <2>1, <2>2, <2>3 DEF ContextInv
<1>6. CASE ~(Size(c) <= cap)
  <2>1. /\ context' \in {c, [c EXCEPT !.essential = 1]} /\ step' = step + 1
        /\ automatic' = (automatic /\ step # 1)
    BY <1>3, <1>6
  <2>2. context' \in Lengths
    BY <1>2, <2>1 DEF Lengths
  <2>3. step' \in 2..13
    BY <1>1, <1>2, <1>4, <1>6, <2>1
  <2>4. ~automatic'
    <3>1. step # 0
      BY <1>1
    <3> QED
      BY <2>1, <3>1 DEF ContextInv
  <2>5. automatic' \in BOOLEAN
    BY <2>1, Zenon
  <2>6. step' \in 0..Len(Reductions) /\ step' # 0
    BY <1>4, <2>3
  <2> QED
    BY <1>1, <2>2, <2>4, <2>5, <2>6 DEF ContextInv
<1> QED
  BY <1>5, <1>6

LEMMA PrepareKeeps == ContextInv /\ Prepare => ContextInv'
  BY DEF ContextInv, Prepare, Fits

LEMMA ContextInvStutters == ContextInv /\ UNCHANGED contextVars => ContextInv'
  BY DEF ContextInv, contextVars, Fits

\* The invariant: once anything of the mail is left out of its context, nothing of it
\* is executed automatically, and there is always a reduction left to make.
THEOREM ContextInvHolds == ContextSpec => []ContextInv
<1>1. ContextInv /\ [ContextNext]_contextVars => ContextInv'
  BY ReduceKeeps, PrepareKeeps, ContextInvStutters DEF ContextNext
<1> QED
  BY <1>1, ContextInvInit, PTL DEF ContextSpec

\* For any caps and limits, a finalized context fits, finalize_context never raises, and
\* what is executed automatically was decided on all of the mail.
THEOREM ContextsFailClosed == ContextSpec => []ContextFailsClosed
<1>1. ContextInv => ContextFailsClosed
  BY DEF ContextInv, ContextFailsClosed
<1> QED
  BY <1>1, ContextInvHolds, PTL
=============================================================================
