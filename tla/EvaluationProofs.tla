-------------------------- MODULE EvaluationProofs --------------------------
(***************************************************************************)
(* A matrix evaluation asks no model twice for an answer that it has,      *)
(* keeps one cached answer to a question when it refreshes, reports only   *)
(* what its rows record, recommends no pair that executed a wrong          *)
(* operation, and forgets none of its spend: for any evaluations, any      *)
(* number of models and examples, and whatever kills, interrupts and       *)
(* resumptions lie between.                                                *)
(*                                                                         *)
(* A complete inference row and a cache entry always point to a run that   *)
(* answers their question; what a process holds of a row, and the          *)
(* predictions it made, are backed by such inference rows, which nobody    *)
(* overwrites: within a row every question is asked at most once.  Every   *)
(* run is filed under a row, and is counted once when a process resumes.   *)
(***************************************************************************)
EXTENDS MatrixEvaluation, SequenceTheorems, Sums

Positions == 1 .. Analyzers + Len(Pairs)

Modes == {"json_schema", "json_object", "prompt_json"}

\* What an analysis, a decision or a call can end in.
Words ==
  {"open", "none", "wrong", "right", "AUTO_EXECUTE", "ESCALATE", "NONE"} \cup Categories

Result == [failed : BOOLEAN, output : Words, hit : BOOLEAN]

CallType ==
  [mode : Modes, repair : BOOLEAN, attempt : Nat, sent : Nat, answers : Nat, parsed : Nat,
   cost : Int, known : BOOLEAN]

ContextType == [text : STRING, extra : BOOLEAN]

Run ==
  [ok : BOOLEAN, output : Words, cost : Int, attempts : Nat, parsed : Nat, mode : Modes,
   context : ContextType, model : {"analysis", "verification"} \X Nat]

PredictionType ==
  [output : Words, decision : Words, valid : BOOLEAN, agreed : BOOLEAN,
   validation : {"unset", "passed", "failed"}]

\* The process is in the middle of a row.
AtPosition == proc \in {"lookup", "ask", "store", "sync", "reuse"}
InRow == AtPosition \/ proc = "judge"

EvaluationType ==
  /\ plan \in Plans /\ proc \in {"down", "report", "stop", "judge", "lookup", "ask", "store",
                                 "sync", "reuse"}
  /\ row \in 1 .. Len(plan.examples) /\ pos \in 0 .. Analyzers + Len(Pairs)
  /\ AtPosition => pos \in Positions
  /\ results \in [Positions -> Result]
  /\ call \in CallType /\ call.mode \in AllowedModes /\ ended \in Words
  /\ predictions \in [DOMAIN Pairs -> Seq(PredictionType)]
  /\ runs \in Seq(Run) /\ "status" \in DOMAIN evaluation

\* What a classifier in front of the models may have written into a context.
Extras == IF plan.svm THEN BOOLEAN ELSE {FALSE}
ContextsOf(r) == [text : {plan.examples[r].text}, extra : Extras]

\* The questions an inference row may be the answer to.
QuestionsOf(id) ==
  [model : {id.model}, context : ContextsOf(id.row), proposal : {id.proposal}]

\* A complete inference row points to an answer to its question ...
RowsAreAnswers ==
  \A id \in DOMAIN inferences : inferences[id].status = "complete" =>
    /\ inferences[id].run \in DOMAIN runs
    /\ runs[inferences[id].run].ok /\ runs[inferences[id].run].model = id.model
    /\ runs[inferences[id].run].context \in ContextsOf(id.row)
    /\ \E question \in QuestionsOf(id) : inferences[id].key \in Keys(question)

\* ... and so does a cache entry, which is the only one for it after a refresh.
CacheIsAnswers ==
  /\ \A key \in DOMAIN cache :
       /\ key \in Keys(key.question)
       /\ cache[key] \in DOMAIN runs /\ runs[cache[key]].model = key.question.model
       /\ runs[cache[key]].context.text = key.question.context.text
       /\ runs[cache[key]].context.extra \in Extras
  /\ RefreshLeavesOneAnswer

Backed(id, output) ==
  /\ id \in DOMAIN inferences /\ inferences[id].status = "complete"
  /\ runs[inferences[id].run].output = output

\* The verification that a memo entry is of.
MemoId(m) == [row |-> row, model |-> m.question.model, proposal |-> m.question.proposal]

MemoBacked ==
  \A m \in memo :
    /\ m.result \in Result /\ m.question.model[1] = "verification"
    /\ m.question = [model |-> m.question.model, proposal |-> m.question.proposal,
                     context |-> [text |-> Example.text, extra |-> FALSE]]
    /\ ~m.result.failed => Backed(MemoId(m), m.result.output)

\* What the process obtained for the row so far.
ResultsBacked ==
  \A q \in Positions : ~results[q].failed =>
    /\ pos = 0 \/ q < pos
    /\ Backed(InferenceId(q), results[q].output)
    /\ IsAnalysis(q) \/ Memoized(q) # {}

\* What it is asking, or has just stored or found.
InFlight ==
  /\ proc \in {"ask", "store"} => Asked(pos) /\ asked \in QuestionsOf(InferenceId(pos))
  /\ proc = "sync" /\ ended \notin Categories => Backed(InferenceId(pos), ended)
  /\ proc = "reuse" => Backed(InferenceId(pos), ended)

\* A prediction for row r of pair i.
Proposed(i, r, p) ==
  p.valid =>
    /\ Backed([row |-> r, model |-> <<"analysis", Pairs[i].a>>, proposal |-> ""], p.output)
    /\ p.output # "none" =>
         Backed([row |-> r, model |-> <<"verification", Pairs[i].v>>, proposal |-> p.output],
                p.decision)

PredictionsBacked ==
  \A i \in DOMAIN Pairs :
    /\ InRow => Len(predictions[i]) = row - 1
    /\ proc = "report" => Len(predictions[i]) = Len(plan.examples)
    /\ \A r \in 1 .. Len(predictions[i]) : Proposed(i, r, predictions[i][r])

ReportBacked ==
  report # None =>
    /\ proc = "down" /\ evaluation.status = "complete"
    /\ report.rows \in [DOMAIN Pairs -> Seq(PredictionType)]
    /\ \A i \in DOMAIN Pairs :
         /\ Len(report.rows[i]) = Len(plan.examples)
         /\ \A r \in 1 .. Len(report.rows[i]) : Proposed(i, r, report.rows[i][r])
    /\ report.selected = Recommended([i \in DOMAIN Pairs |->
                                        Summary(plan.examples, report.rows[i])])
    /\ report.doubtful = [i \in DOMAIN Pairs |->
                            PolicyFailures(plan.examples, report.rows[i])]

\* A process starts afresh.
Afresh ==
  proc = "down" =>
    /\ row = 1 /\ pos = 1 /\ results = NoResults /\ memo = {} /\ ~touched
    /\ predictions = [i \in DOMAIN Pairs |-> <<>>]

EvaluationInvariant ==
  /\ EvaluationType /\ touched \in Extras
  /\ RowsAreAnswers /\ CacheIsAnswers
  /\ InRow => MemoBacked /\ ResultsBacked
  /\ InFlight /\ PredictionsBacked /\ ReportBacked /\ Afresh
-----------------------------------------------------------------------------
(* The models and the questions *)

\* The pairs are numbered analyzer by analyzer.
LEMMA PairIndex ==
  ASSUME NEW a \in Nat, NEW v \in Nat, NEW i \in 1 .. a * v
  PROVE  /\ ((i - 1) \div v) + 1 \in 1 .. a
         /\ ((i - 1) % v) + 1 \in 1 .. v
<1>1. v \in Nat \ {0}
  <2>1. CASE v = 0
    BY <2>1
  <2> QED
    BY <2>1
<1> DEFINE q == (i - 1) \div v
           r == (i - 1) % v
<1>2. q \in Int /\ r \in 0 .. (v - 1) /\ i - 1 = v * q + r
  BY <1>1
<1> HIDE DEF q, r
<1>3. q >= 0
  BY <1>1, <1>2
<1>4. q < a
  BY <1>1, <1>2
<1> QED
  BY <1>2, <1>3, <1>4 DEF q, r

\* What the evaluation fixes.
LEMMA PlanFacts ==
  ASSUME plan \in Plans
  PROVE  /\ Analyzers \in Nat \ {0} /\ Len(Pairs) \in Nat /\ DOMAIN Pairs = 1 .. Len(Pairs)
         /\ \A i \in DOMAIN Pairs : Pairs[i].a \in 1 .. Analyzers /\ Pairs[i].v \in 1 .. Verifiers
         /\ plan.examples \in Seq(LabelledExamples) /\ Len(plan.examples) \in Nat \ {0}
         /\ \A r \in 1 .. Len(plan.examples) : plan.examples[r] \in LabelledExamples
<1>1. Analyzers \in Nat \ {0} /\ Verifiers \in Nat /\ plan.examples \in Seq(LabelledExamples)
      /\ plan.examples # <<>>
  BY PlansAssumption, VerifiersAssumption DEF Analyzers
<1>2. Analyzers * Verifiers \in Nat
  BY <1>1
<1>3. DOMAIN Pairs = 1 .. Analyzers * Verifiers /\ Len(Pairs) = Analyzers * Verifiers
  <2> DEFINE n == Analyzers * Verifiers
  <2>1. n \in Nat
    BY <1>2
  <2>2. DOMAIN Pairs = 1 .. n /\ Pairs \in Seq({Pairs[i] : i \in 1 .. n})
    <3>1. Pairs \in [1 .. n -> {Pairs[i] : i \in 1 .. n}] /\ DOMAIN Pairs = 1 .. n
      BY DEF Pairs
    <3> HIDE DEF n
    <3> QED
      BY <2>1, <3>1, SeqDef
  <2> HIDE DEF n
  <2>3. Len(Pairs) = n
    BY <2>1, <2>2
  <2> QED
    BY <2>2, <2>3 DEF n
<1>4. ASSUME NEW i \in DOMAIN Pairs
      PROVE  Pairs[i].a \in 1 .. Analyzers /\ Pairs[i].v \in 1 .. Verifiers
  <2>1. i \in 1 .. Analyzers * Verifiers
    BY <1>3
  <2>2. /\ ((i - 1) \div Verifiers) + 1 \in 1 .. Analyzers
        /\ ((i - 1) % Verifiers) + 1 \in 1 .. Verifiers
    BY <1>1, <2>1, PairIndex
  <2>3. /\ Pairs[i].a = ((i - 1) \div Verifiers) + 1
        /\ Pairs[i].v = ((i - 1) % Verifiers) + 1
    BY <2>1 DEF Pairs
  <2> QED
    BY <2>2, <2>3
<1>5. Len(plan.examples) \in Nat \ {0}
      /\ \A r \in 1 .. Len(plan.examples) : plan.examples[r] \in LabelledExamples
  BY <1>1, EmptySeq, ElementOfSeq
<1> QED
  BY <1>1, <1>2, <1>3, <1>4, <1>5

\* The process goes to a later position, or has done the last one.
LEMMA NextPosIsLater ==
  ASSUME plan \in Plans, NEW p \in Positions, NEW res
  PROVE  NextPos(p, res) = 0 \/ (NextPos(p, res) \in Positions /\ NextPos(p, res) > p)
<1> DEFINE due == {q \in p + 1 .. Analyzers + Len(Pairs) : Due(q, res)}
<1>1. p \in Nat /\ p >= 1 /\ Analyzers + Len(Pairs) \in Nat
  BY PlanFacts DEF Positions
<1>2. due \in SUBSET Nat
  BY <1>1
<1>3. CASE due = {}
  BY <1>3 DEF NextPos
<1>4. CASE due # {}
  <2>1. NextPos(p, res) = CHOOSE q \in due : \A other \in due : q <= other
    BY <1>4 DEF NextPos
  <2>2. \E q \in due : \A other \in due : q <= other
    <3> HIDE DEF due
    <3> QED
      BY <1>2, <1>4, LeastOf
  <2>3. NextPos(p, res) \in due
    <3> HIDE DEF due
    <3> QED
      BY <2>1, <2>2
  <2> QED
    BY <1>1, <2>3 DEF Positions
<1> QED
  BY <1>3, <1>4

\* Nothing that the evaluation fixes changes.
LEMMA PlanKept ==
  ASSUME plan' = plan
  PROVE  /\ Analyzers' = Analyzers /\ Pairs' = Pairs /\ Positions' = Positions
         /\ AllowedModes' = AllowedModes /\ Extras' = Extras /\ NoResults' = NoResults
         /\ \A question : Keys(question)' = Keys(question)
         /\ \A r : ContextsOf(r)' = ContextsOf(r)
         /\ \A id : QuestionsOf(id)' = QuestionsOf(id)
         /\ \A p : IsAnalysis(p)' <=> IsAnalysis(p)
         /\ \A p : PairAt(p)' = PairAt(p) /\ ModelAt(p)' = ModelAt(p)
<1>1. Analyzers' = Analyzers /\ AllowedModes' = AllowedModes /\ Extras' = Extras
  BY DEF Analyzers, AllowedModes, Extras, Backend
<1>2. Pairs' = Pairs
  BY <1>1 DEF Pairs
<1>3. Positions' = Positions /\ NoResults' = NoResults
  BY <1>1, <1>2 DEF Positions, NoResults
<1>4. \A question : Keys(question)' = Keys(question)
  BY <1>1 DEF Keys
<1>5. \A r : ContextsOf(r)' = ContextsOf(r)
  BY <1>1 DEF ContextsOf
<1>6. \A id : QuestionsOf(id)' = QuestionsOf(id)
  BY <1>1 DEF QuestionsOf, ContextsOf
<1>7. \A p : IsAnalysis(p)' <=> IsAnalysis(p)
  BY <1>1 DEF IsAnalysis
<1>8. \A p : PairAt(p)' = PairAt(p) /\ ModelAt(p)' = ModelAt(p)
  BY <1>1, <1>2 DEF PairAt, ModelAt, IsAnalysis
<1> QED
  BY <1>1, <1>2, <1>3, <1>4, <1>5, <1>6, <1>7, <1>8

\* As long as the row and its results stay, so do its inferences.
LEMMA RowKept ==
  ASSUME plan' = plan, row' = row, results' = results
  PROVE  /\ \A p : InferenceId(p)' = InferenceId(p)
         /\ \A p : Question(p, FALSE)' = Question(p, FALSE)
<1>1. \A p : Proposal(p)' = Proposal(p) /\ ModelAt(p)' = ModelAt(p)
  BY PlanKept DEF Proposal, IsAnalysis, PairAt
<1>2. \A p : ContextOf(p, FALSE)' = ContextOf(p, FALSE)
  BY PlanKept DEF ContextOf, Example, IsAnalysis
<1> QED
  BY <1>1, <1>2 DEF InferenceId, Question

\* What is recorded stays recorded while nothing is stored.
LEMMA BackedKept ==
  ASSUME inferences' = inferences, runs' = runs
  PROVE  \A id, output : Backed(id, output)' <=> Backed(id, output)
  BY DEF Backed
-----------------------------------------------------------------------------
(* What does not change *)

LEMMA RowsKept ==
  ASSUME RowsAreAnswers, UNCHANGED <<plan, inferences, runs>>
  PROVE  RowsAreAnswers'
  BY PlanKept DEF RowsAreAnswers

LEMMA CacheKept ==
  ASSUME CacheIsAnswers, UNCHANGED <<plan, cache, runs>>
  PROVE  CacheIsAnswers'
<1>1. RefreshLeavesOneAnswer'
  BY DEF CacheIsAnswers, RefreshLeavesOneAnswer
<1> QED
  BY <1>1, PlanKept DEF CacheIsAnswers

LEMMA MemoKept ==
  ASSUME MemoBacked, UNCHANGED <<plan, row, memo, inferences, runs>>
  PROVE  MemoBacked'
<1>1. \A m : MemoId(m)' = MemoId(m)
  BY DEF MemoId
<1>2. Example' = Example
  BY DEF Example
<1> QED
  BY <1>1, <1>2, BackedKept DEF MemoBacked

LEMMA MemoizedKept ==
  ASSUME UNCHANGED <<plan, row, results, memo>>
  PROVE  \A p : Memoized(p)' = Memoized(p)
<1> SUFFICES ASSUME NEW p PROVE Memoized(p)' = Memoized(p)
  OBVIOUS
<1> DEFINE question == Question(p, FALSE)
<1>1. Memoized(p) = {m \in memo : m.question = question}
  BY DEF Memoized
<1>2. Memoized(p)' = {m \in memo' : m.question = question'}
  BY DEF Memoized
<1>3. question' = question
  BY RowKept
<1> HIDE DEF question
<1> QED
  BY <1>1, <1>2, <1>3

LEMMA ResultsKept ==
  ASSUME ResultsBacked, UNCHANGED <<plan, row, pos, results, memo, inferences, runs>>
  PROVE  ResultsBacked'
  BY PlanKept, RowKept, MemoizedKept, BackedKept DEF ResultsBacked

LEMMA ProposedKept ==
  ASSUME UNCHANGED <<plan, inferences, runs>>
  PROVE  \A i, r, p : Proposed(i, r, p)' <=> Proposed(i, r, p)
  BY PlanKept, BackedKept DEF Proposed

LEMMA PredictionsKept ==
  ASSUME PredictionsBacked, UNCHANGED <<plan, row, predictions, inferences, runs>>,
         proc' # "report", InRow' => InRow
  PROVE  PredictionsBacked'
  BY PlanKept, ProposedKept DEF PredictionsBacked

\* There is a report only of an evaluation that is complete.
LEMMA NoReport ==
  ASSUME ReportBacked, proc # "down" \/ evaluation.status # "complete"
  PROVE  report = None
  BY DEF ReportBacked

LEMMA ReportKept ==
  ASSUME report = None, report' = report
  PROVE  ReportBacked'
  BY DEF ReportBacked, None
-----------------------------------------------------------------------------
(* Asking a model *)

\* While a model is asked, nothing is stored and the row does not go on.
LEMMA AskingKept ==
  ASSUME EvaluationInvariant, proc \in {"lookup", "ask"}, proc' \in {"ask", "store"},
         UNCHANGED <<plan, row, pos, results, memo, routes, predictions, database>>,
         Asked(pos), asked' \in QuestionsOf(InferenceId(pos)), touched' \in Extras,
         call' \in CallType, call'.mode \in AllowedModes, ended' \in Words
  PROVE  EvaluationInvariant'
<1>1. UNCHANGED <<plan, row, pos, results, memo, routes, predictions, evaluation, inferences,
                  runs, cache, report>>
  BY DEF database
<1>2. AtPosition /\ AtPosition' /\ InRow /\ InRow'
  BY DEF AtPosition, InRow
<1>3. EvaluationType'
  BY <1>1, <1>2, PlanKept DEF EvaluationInvariant, EvaluationType
<1>4. RowsAreAnswers' /\ CacheIsAnswers'
  BY <1>1, RowsKept, CacheKept DEF EvaluationInvariant
<1>5. MemoBacked' /\ ResultsBacked'
  BY <1>1, <1>2, MemoKept, ResultsKept DEF EvaluationInvariant
<1>6. InFlight'
  <2>1. Asked(pos)'
    BY <1>1, PlanKept, MemoizedKept DEF Asked
  <2>2. QuestionsOf(InferenceId(pos))' = QuestionsOf(InferenceId(pos))
    BY <1>1, PlanKept, RowKept
  <2> QED
    BY <1>1, <2>1, <2>2 DEF InFlight
<1>7. PredictionsBacked'
  BY <1>1, <1>2, PredictionsKept DEF EvaluationInvariant
<1>8. ReportBacked'
  BY <1>1, NoReport, ReportKept DEF EvaluationInvariant
<1>9. Afresh'
  BY DEF Afresh
<1>10. touched' \in Extras'
  BY <1>1, PlanKept
<1> QED
  BY <1>3, <1>4, <1>5, <1>6, <1>7, <1>8, <1>9, <1>10 DEF EvaluationInvariant

\* A call keeps its type whatever an attempt meets.
LEMMA CallSteps ==
  ASSUME NEW c \in CallType
  PROVE  /\ Attempted(c) \in CallType /\ Attempted(c).mode = c.mode
         /\ PostEnded(c) \in CallType /\ PostEnded(c).mode = c.mode
         /\ \A cost \in Int : Charged(c, cost) \in CallType /\ Charged(c, cost).mode = c.mode
         /\ [c EXCEPT !.parsed = @ + 1] \in CallType
         /\ WeakerMode(c) \in CallType /\ AfterMalformed(c) \in CallType
<1>1. Attempted(c) \in CallType /\ Attempted(c).mode = c.mode
  BY DEF Attempted, CallType
<1>2. PostEnded(c) \in CallType /\ PostEnded(c).mode = c.mode
  <2> DEFINE sum == c.sent + c.attempt
  <2>1. sum \in Nat
    BY DEF CallType
  <2>2. PostEnded(c) = [[c EXCEPT !.sent = sum] EXCEPT !.attempt = 0]
    BY DEF PostEnded
  <2> DEFINE total == [c EXCEPT !.sent = sum]
  <2>3. total \in CallType /\ total.mode = c.mode
    <3> HIDE DEF sum
    <3> QED
      BY <2>1 DEF CallType
  <2> HIDE DEF total
  <2>4. [total EXCEPT !.attempt = 0] \in CallType /\ [total EXCEPT !.attempt = 0].mode = total.mode
    BY <2>3 DEF CallType
  <2> QED
    BY <2>2, <2>3, <2>4 DEF total
<1>3. \A cost \in Int : Charged(c, cost) \in CallType /\ Charged(c, cost).mode = c.mode
  <2> SUFFICES ASSUME NEW cost \in Int
               PROVE  Charged(c, cost) \in CallType /\ Charged(c, cost).mode = c.mode
    OBVIOUS
  <2> DEFINE d == PostEnded(c)
             known == d.known /\ cost # NoCost
             sum == IF cost = NoCost THEN d.cost ELSE d.cost + cost
  <2>1. d \in CallType /\ d.mode = c.mode
    BY <1>2
  <2>2. known \in BOOLEAN /\ sum \in Int
    BY <2>1 DEF CallType
  <2> DEFINE more == d.answers + 1
             counted == [d EXCEPT !.answers = more]
             summed == [counted EXCEPT !.cost = sum]
  <2>3. Charged(c, cost) = [summed EXCEPT !.known = known]
    BY DEF Charged
  <2>4. more \in Nat
    BY <2>1 DEF CallType
  <2> HIDE DEF d, known, sum, more
  <2>5. counted \in CallType /\ counted.mode = d.mode
    BY <2>1, <2>4 DEF CallType
  <2> HIDE DEF counted
  <2>6. summed \in CallType /\ summed.mode = d.mode
    BY <2>2, <2>5 DEF CallType
  <2> HIDE DEF summed
  <2>7. [summed EXCEPT !.known = known] \in CallType
        /\ [summed EXCEPT !.known = known].mode = summed.mode
    BY <2>2, <2>6 DEF CallType
  <2> QED
    BY <2>1, <2>3, <2>6, <2>7
<1>4. [c EXCEPT !.parsed = @ + 1] \in CallType
  BY DEF CallType
<1>5. WeakerMode(c) \in CallType
  <2> DEFINE mode == CASE c.mode = "json_schema" -> "json_object"
                       [] c.mode = "json_object" -> "prompt_json"
                       [] OTHER -> c.mode
  <2>1. mode \in Modes
    BY DEF CallType, Modes
  <2>2. WeakerMode(c) = [c EXCEPT !.mode = mode]
    BY DEF WeakerMode
  <2> HIDE DEF mode
  <2> QED
    BY <2>1, <2>2 DEF CallType
<1>6. AfterMalformed(c) \in CallType
  <2>1. [c EXCEPT !.repair = TRUE] \in CallType
    BY DEF CallType
  <2> QED
    BY <1>5, <2>1 DEF AfterMalformed
<1> QED
  BY <1>1, <1>2, <1>3, <1>4, <1>5, <1>6

\* A call starts with a schema, which every endpoint is asked for; the weaker modes are
\* those of an endpoint that has the ladder.
LEMMA ModesAllowed ==
  /\ NewCall \in CallType /\ NewCall.mode \in AllowedModes /\ AllowedModes \in SUBSET Modes
  /\ Backend.ladder => AllowedModes = Modes
  /\ \A c \in CallType : Escalated(c) \in CallType /\ Escalated(c).mode \in AllowedModes
<1>1. NewCall \in CallType /\ NewCall.mode = "json_schema"
  BY DEF NewCall, CallType, Modes
<1>2. \A c : Escalated(c) \in CallType /\ Escalated(c).mode = "json_schema"
  BY <1>1 DEF Escalated, CallType, Modes
<1> QED
  BY <1>1, <1>2 DEF AllowedModes, Modes

\* The context of a question is that of its row, written into only by a classifier.
LEMMA QuestionOfPosition ==
  ASSUME EvaluationInvariant
  PROVE  /\ \A p : Question(p, touched) \in QuestionsOf(InferenceId(p))
         /\ \A p : ContextOf(p, touched) \in ContextsOf(row)
<1>1. ASSUME NEW p PROVE ContextOf(p, touched) \in ContextsOf(row)
  <2> DEFINE extra == IsAnalysis(p) /\ touched /\ Example.reply
  <2>1. extra \in Extras
    BY DEF EvaluationInvariant, Extras
  <2>2. ContextOf(p, touched) = [text |-> plan.examples[row].text, extra |-> extra]
    BY DEF ContextOf, Example
  <2> HIDE DEF extra
  <2> QED
    BY <2>1, <2>2 DEF ContextsOf
<1> QED
  BY <1>1 DEF Question, QuestionsOf, InferenceId

LEMMA InvokeKept ==
  ASSUME EvaluationInvariant, Invoke
  PROVE  EvaluationInvariant'
<1>1. /\ proc = "lookup" /\ proc' = "ask" /\ Asked(pos) /\ asked' = Question(pos, touched)
      /\ call' = NewCall /\ ended' = "open" /\ touched' = touched
      /\ UNCHANGED <<plan, row, pos, results, memo, routes, predictions, database>>
  BY DEF Invoke
<1>2. call' \in CallType /\ call'.mode \in AllowedModes /\ ended' \in Words
      /\ touched' \in Extras /\ asked' \in QuestionsOf(InferenceId(pos))
  BY <1>1, ModesAllowed, QuestionOfPosition DEF EvaluationInvariant, Words
<1> QED
  BY <1>1, <1>2, AskingKept

\* A step of a call that goes on or ends.
LEMMA CallKept ==
  ASSUME EvaluationInvariant, proc = "ask", AskFrame, Touches \/ touched' = touched,
         NEW c \in CallType, c.mode \in AllowedModes, NEW how \in Words,
         Conclude(c, how) \/ Continue(c)
  PROVE  EvaluationInvariant'
<1>1. UNCHANGED <<plan, row, pos, results, memo, routes, predictions, database>>
      /\ asked' = asked
  BY DEF AskFrame
<1>2. Asked(pos) /\ asked' \in QuestionsOf(InferenceId(pos))
  BY <1>1 DEF EvaluationInvariant, InFlight
<1>3. call' = c /\ ended' \in Words /\ proc' \in {"ask", "store"}
  <2>1. "open" \in Words
    BY DEF Words
  <2> QED
    BY <2>1 DEF Conclude, Continue
<1>4. touched' \in Extras
  <2>1. touched \in Extras
    BY DEF EvaluationInvariant
  <2>2. CASE touched' = touched
    BY <2>1, <2>2
  <2>3. CASE Touches
    <3>1. CASE plan.svm
      BY <2>1, <2>3, <3>1 DEF Touches, Extras
    <3>2. CASE ~plan.svm
      BY <2>1, <2>3, <3>2 DEF Touches, Extras
    <3> QED
      BY <3>1, <3>2
  <2> QED
    BY <2>2, <2>3
<1> QED
  BY <1>1, <1>2, <1>3, <1>4, AskingKept

LEMMA StopAtBudgetKept ==
  ASSUME EvaluationInvariant, StopAtBudget
  PROVE  EvaluationInvariant'
<1>1. proc = "ask" /\ AskFrame /\ Touches /\ Conclude(call, "budget_exhausted")
  BY DEF StopAtBudget
<1>2. call \in CallType /\ call.mode \in AllowedModes
  BY DEF EvaluationInvariant, EvaluationType
<1> QED
  BY <1>1, <1>2, CallKept DEF Words, Categories

LEMMA TooLongKept ==
  ASSUME EvaluationInvariant, TooLong
  PROVE  EvaluationInvariant'
<1>1. proc = "ask" /\ AskFrame /\ Touches /\ Conclude(NewCall, "invalid_request")
  BY DEF TooLong
<1> QED
  BY <1>1, ModesAllowed, CallKept DEF Words, Categories

LEMMA AttemptFailsKept ==
  ASSUME EvaluationInvariant, AttemptFails
  PROVE  EvaluationInvariant'
<1> DEFINE c == Attempted(call)
<1>1. call \in CallType /\ call.mode \in AllowedModes
  BY DEF EvaluationInvariant, EvaluationType
<1>2. proc = "ask" /\ AskFrame /\ Touches
  BY DEF AttemptFails
<1>3. PICK f \in Failures :
        \/ Continue(c)
        \/ ~GivesUpUnsupported(c, Backend) /\ Continue(WeakerMode(PostEnded(c)))
        \/ Conclude(PostEnded(c), f.category)
  BY DEF AttemptFails
<1>4. f.category \in Words
  BY DEF Failures, HttpCategory, Words, Categories
<1>5. c \in CallType /\ c.mode \in AllowedModes
  BY <1>1, CallSteps
<1> HIDE DEF c
<1>6. CASE Continue(c)
  BY <1>2, <1>4, <1>5, <1>6, CallKept
<1>7. CASE ~GivesUpUnsupported(c, Backend) /\ Continue(WeakerMode(PostEnded(c)))
  <2>1. WeakerMode(PostEnded(c)) \in CallType
    BY <1>5, CallSteps
  <2>2. Backend.ladder
    BY <1>7 DEF GivesUpUnsupported
  <2>3. WeakerMode(PostEnded(c)).mode \in AllowedModes
    BY <2>1, <2>2, ModesAllowed DEF CallType
  <2> QED
    BY <1>2, <1>4, <1>7, <2>1, <2>3, CallKept
<1>8. CASE Conclude(PostEnded(c), f.category)
  BY <1>2, <1>4, <1>5, <1>8, CallSteps, CallKept
<1> QED
  BY <1>3, <1>6, <1>7, <1>8

LEMMA AttemptAnsweredKept ==
  ASSUME EvaluationInvariant, AttemptAnswered
  PROVE  EvaluationInvariant'
<1>1. call \in CallType /\ call.mode \in AllowedModes
  BY DEF EvaluationInvariant, EvaluationType
<1>2. proc = "ask" /\ AskFrame /\ Touches
  BY DEF AttemptAnswered
<1>3. PICK answer \in Answers, output \in Outputs, unsure \in BOOLEAN :
        LET charged == Charged(Attempted(call), AnswerCost(answer))
            read == [charged EXCEPT !.parsed = @ + 1]
        IN  \/ Conclude(charged, "malformed_output")
            \/ ~GivesUpMalformed(read, Backend) /\ Continue(AfterMalformed(read))
            \/ Conclude(read, "malformed_output")
            \/ Conclude(Escalated(read), "none")
            \/ Conclude(read, output)
  BY DEF AttemptAnswered
<1> DEFINE charged == Charged(Attempted(call), AnswerCost(answer))
           read == [charged EXCEPT !.parsed = @ + 1]
<1>4. output \in Words
  BY DEF Outputs, AnalysisOutputs, Decisions, Words
<1>5. charged \in CallType /\ charged.mode \in AllowedModes
  <2>1. AnswerCost(answer) \in Int
    BY DEF AnswerCost, NoCost
  <2>2. Attempted(call) \in CallType /\ Attempted(call).mode = call.mode
    BY <1>1, CallSteps
  <2> DEFINE d == Attempted(call)
             cost == AnswerCost(answer)
  <2> HIDE DEF d, cost
  <2>3. Charged(d, cost) \in CallType /\ Charged(d, cost).mode = d.mode
    BY <2>1, <2>2, CallSteps DEF d, cost
  <2> QED
    BY <1>1, <2>2, <2>3 DEF d, cost
<1>6. read \in CallType /\ read.mode \in AllowedModes
  <2> HIDE DEF charged
  <2>1. read \in CallType
    BY <1>5, CallSteps
  <2>2. read.mode = charged.mode
    BY <1>5 DEF CallType
  <2> QED
    BY <1>5, <2>1, <2>2
<1> HIDE DEF charged
<1>7. CASE Conclude(charged, "malformed_output")
  BY <1>2, <1>5, <1>7, CallKept DEF Words, Categories
<1> HIDE DEF read
<1>8. CASE ~GivesUpMalformed(read, Backend) /\ Continue(AfterMalformed(read))
  <2>1. AfterMalformed(read) \in CallType
    BY <1>6, CallSteps
  <2>2. Backend.ladder
    BY <1>8 DEF GivesUpMalformed
  <2>3. AfterMalformed(read).mode \in AllowedModes
    BY <2>1, <2>2, ModesAllowed DEF CallType
  <2> QED
    BY <1>2, <1>4, <1>8, <2>1, <2>3, CallKept
<1>9. CASE Conclude(read, "malformed_output") \/ Conclude(read, output)
  BY <1>2, <1>4, <1>6, <1>9, CallKept DEF Words, Categories
<1>10. CASE Conclude(Escalated(read), "none")
  BY <1>2, <1>6, <1>10, ModesAllowed, CallKept DEF Words
<1> QED
  BY <1>3, <1>7, <1>8, <1>9, <1>10 DEF charged, read

LEMMA ClassifierAnswersKept ==
  ASSUME EvaluationInvariant, ClassifierAnswers
  PROVE  EvaluationInvariant'
<1>1. PICK output \in Outputs : Conclude(Escalated(NewCall), output)
  BY DEF ClassifierAnswers
<1>2. proc = "ask" /\ AskFrame /\ touched' = touched
  BY DEF ClassifierAnswers
<1>3. output \in Words
  BY DEF Outputs, AnalysisOutputs, Decisions, Words
<1>4. Escalated(NewCall) \in CallType /\ Escalated(NewCall).mode \in AllowedModes
  BY ModesAllowed
<1> QED
  BY <1>1, <1>2, <1>3, <1>4, CallKept
-----------------------------------------------------------------------------
(* The end of a position *)

\* What is asked at a position depends on the results before it only.
LEMMA EarlierKept ==
  ASSUME EvaluationInvariant, AtPosition, NEW r, StepTo(pos, r), UNCHANGED <<plan, row>>,
         NEW q \in Positions, q <= pos
  PROVE  InferenceId(q)' = InferenceId(q) /\ Question(q, FALSE)' = Question(q, FALSE)
<1>1. pos \in Positions /\ DOMAIN results = Positions
  BY DEF EvaluationInvariant, EvaluationType
<1>2. /\ Analyzers \in Nat /\ Len(Pairs) \in Nat /\ DOMAIN Pairs = 1 .. Len(Pairs)
      /\ \A i \in DOMAIN Pairs : Pairs[i].a \in 1 .. Analyzers
  BY PlanFacts DEF EvaluationInvariant, EvaluationType
<1>3. results' = [results EXCEPT ![pos] = r]
  BY DEF StepTo
<1>4. Proposal(q)' = Proposal(q)
  <2>1. CASE IsAnalysis(q)
    BY <2>1, PlanKept DEF Proposal
  <2>2. CASE ~IsAnalysis(q)
    <3> DEFINE a == PairAt(q).a
    <3>1. q \in Nat /\ q > Analyzers /\ q - Analyzers \in 1 .. Len(Pairs)
      BY <1>2, <2>2 DEF IsAnalysis, Positions
    <3>2. a \in 1 .. Analyzers
      BY <1>2, <3>1 DEF PairAt
    <3>3. a \in Positions /\ a # pos
      BY <1>1, <1>2, <3>1, <3>2 DEF Positions
    <3>4. results'[a] = results[a]
      BY <1>1, <1>3, <3>3
    <3>5. Proposal(q) = results[a].output
      BY <2>2 DEF Proposal
    <3>6. Proposal(q)' = results'[a].output
      BY <2>2, PlanKept DEF Proposal
    <3> QED
      BY <3>4, <3>5, <3>6
  <2> QED
    BY <2>1, <2>2
<1>5. ModelAt(q)' = ModelAt(q) /\ ContextOf(q, FALSE)' = ContextOf(q, FALSE)
  BY PlanKept DEF ContextOf, Example
<1> QED
  BY <1>4, <1>5 DEF InferenceId, Question

\* A verification is remembered under what it was asked about.
LEMMA VerificationAsked ==
  ASSUME EvaluationInvariant, AtPosition, ~IsAnalysis(pos),
         NEW m, m.question = Question(pos, FALSE)
  PROVE  /\ MemoId(m) = InferenceId(pos) /\ m.question.model[1] = "verification"
         /\ m.question = [model |-> m.question.model, proposal |-> m.question.proposal,
                          context |-> [text |-> Example.text, extra |-> FALSE]]
<1>1. ContextOf(pos, FALSE) = [text |-> Example.text, extra |-> FALSE]
  BY DEF ContextOf
<1>2. ModelAt(pos)[1] = "verification"
  BY DEF ModelAt
<1> DEFINE z == m.question
<1>3. z = [model |-> ModelAt(pos), proposal |-> Proposal(pos),
           context |-> [text |-> Example.text, extra |-> FALSE]]
  BY <1>1 DEF Question
<1>4. z.model = ModelAt(pos) /\ z.proposal = Proposal(pos)
  <2> HIDE DEF z
  <2> QED
    BY <1>3
<1>5. MemoId(m) = InferenceId(pos)
  BY <1>4 DEF MemoId, InferenceId
<1> HIDE DEF z
<1>6. /\ MemoId(m) = InferenceId(pos) /\ z.model[1] = "verification"
      /\ z = [model |-> z.model, proposal |-> z.proposal,
              context |-> [text |-> Example.text, extra |-> FALSE]]
  BY <1>2, <1>3, <1>4, <1>5
<1> QED
  BY <1>6 DEF z

\* The position is done with a result that is recorded, if it is one at all.
LEMMA SteppedKept ==
  ASSUME EvaluationInvariant, AtPosition, NEW r \in Result, StepTo(pos, r),
         UNCHANGED <<plan, row, touched, asked, call, ended, predictions, inferences, runs,
                     cache, report>>,
         "status" \in DOMAIN evaluation',
         memo' = memo \/ Remember(pos, r),
         ~r.failed => Backed(InferenceId(pos), r.output),
         r.failed \/ IsAnalysis(pos) \/ \E m \in memo' : m.question = Question(pos, FALSE)
  PROVE  EvaluationInvariant'
<1>1. pos \in Positions /\ results \in [Positions -> Result] /\ plan \in Plans
      /\ UNCHANGED <<plan, row>>
  BY DEF EvaluationInvariant, EvaluationType
<1>2. /\ results' = [results EXCEPT ![pos] = r] /\ proc' \in {"judge", "lookup"}
      /\ pos' = 0 \/ (pos' \in Positions /\ pos' > pos)
      /\ proc' = "lookup" => pos' # 0
  BY <1>1, NextPosIsLater DEF StepTo
<1>3. Analyzers \in Nat /\ Len(Pairs) \in Nat /\ pos \in Nat
  BY <1>1, PlanFacts DEF Positions
<1>4. pos' \in 0 .. Analyzers + Len(Pairs) /\ (AtPosition' => pos' \in Positions)
  BY <1>2, <1>3 DEF Positions, AtPosition
<1>5. InRow /\ InRow' /\ proc' # "report" /\ proc # "down" /\ proc' # "down"
  BY <1>2 DEF InRow, AtPosition
<1>6. EvaluationType'
  <2>1. results' \in [Positions' -> Result]
    BY <1>1, <1>2, PlanKept
  <2>2. pos' \in 0 .. Analyzers' + Len(Pairs)' /\ (AtPosition' => pos' \in Positions')
    BY <1>4, PlanKept
  <2> QED
    BY <1>2, <2>1, <2>2, PlanKept DEF EvaluationInvariant, EvaluationType
<1>7. memo \subseteq memo'
  BY DEF Remember
<1>8. MemoBacked'
  <2> SUFFICES ASSUME NEW m \in memo'
               PROVE  /\ m.result \in Result /\ m.question.model[1] = "verification"
                      /\ m.question = [model |-> m.question.model,
                                       proposal |-> m.question.proposal,
                                       context |-> [text |-> Example.text, extra |-> FALSE]]
                      /\ ~m.result.failed => Backed(MemoId(m), m.result.output)
    BY BackedKept DEF MemoBacked, MemoId, Example
  <2>1. CASE m \in memo
    BY <1>5, <2>1 DEF EvaluationInvariant, MemoBacked
  <2>2. CASE m \notin memo
    <3>1. ~IsAnalysis(pos) /\ m = [question |-> Question(pos, FALSE), result |-> r]
      <4> DEFINE entry == [question |-> Question(pos, FALSE), result |-> r]
      <4>1. memo' = IF IsAnalysis(pos) THEN memo ELSE memo \cup {entry}
        BY <2>2 DEF Remember
      <4> HIDE DEF entry
      <4>2. ~IsAnalysis(pos) /\ m = entry
        BY <2>2, <4>1
      <4> QED
        BY <4>2 DEF entry
    <3>2. m.question = Question(pos, FALSE) /\ m.result = r
      BY <3>1
    <3> QED
      BY <3>1, <3>2, VerificationAsked
  <2> QED
    BY <2>1, <2>2
<1>9. ResultsBacked'
  <2> SUFFICES ASSUME NEW q \in Positions, ~results'[q].failed
               PROVE  /\ pos' = 0 \/ q < pos'
                      /\ Backed(InferenceId(q)', results'[q].output)
                      /\ IsAnalysis(q) \/ Memoized(q)' # {}
    BY PlanKept, BackedKept DEF ResultsBacked
  <2>1. (\E m \in memo' : m.question = Question(q, FALSE)') => Memoized(q)' # {}
    BY DEF Memoized
  <2>2. CASE q = pos
    <3>1. results'[q] = r
      BY <1>1, <1>2, <2>2
    <3>2. q <= pos
      BY <1>3, <2>2
    <3>3. InferenceId(q)' = InferenceId(q) /\ Question(q, FALSE)' = Question(q, FALSE)
      BY <1>1, <3>2, EarlierKept
    <3> QED
      BY <1>2, <2>2, <3>1, <3>3, BackedKept DEF Memoized
  <2>3. CASE q # pos
    <3>1. results'[q] = results[q]
      BY <1>1, <1>2, <2>3
    <3>2. pos = 0 \/ q < pos
      BY <1>5, <3>1 DEF EvaluationInvariant, ResultsBacked
    <3>3. q < pos /\ q <= pos
      BY <1>1, <1>3, <3>2 DEF Positions
    <3>4. InferenceId(q)' = InferenceId(q) /\ Question(q, FALSE)' = Question(q, FALSE)
      BY <1>1, <3>3, EarlierKept
    <3>5. Backed(InferenceId(q), results[q].output) /\ (IsAnalysis(q) \/ Memoized(q) # {})
      BY <1>5, <3>1 DEF EvaluationInvariant, ResultsBacked
    <3>6. pos' = 0 \/ q < pos'
      BY <1>2, <1>3, <3>3 DEF Positions
    <3>7. IsAnalysis(q) \/ Memoized(q)' # {}
      BY <1>7, <3>4, <3>5 DEF Memoized
    <3> QED
      BY <3>1, <3>4, <3>5, <3>6, <3>7, BackedKept
  <2> QED
    BY <2>2, <2>3
<1>10. RowsAreAnswers' /\ CacheIsAnswers'
  BY RowsKept, CacheKept DEF EvaluationInvariant
<1>11. PredictionsBacked' /\ ReportBacked'
  BY <1>5, PredictionsKept, NoReport, ReportKept DEF EvaluationInvariant
<1>12. InFlight' /\ Afresh' /\ touched' \in Extras'
  BY <1>2, PlanKept DEF EvaluationInvariant, InFlight, Afresh
<1> QED
  BY <1>6, <1>8, <1>9, <1>10, <1>11, <1>12 DEF EvaluationInvariant

\* The results a position can end with.
LEMMA ResultTypes ==
  /\ Missed \in Result /\ Missed.failed
  /\ \A output \in Words, hit \in BOOLEAN :
       /\ Got(output, hit) \in Result /\ ~Got(output, hit).failed
       /\ Got(output, hit).output = output
  BY DEF Missed, Got, Result, Words

LEMMA SkipRouteKept ==
  ASSUME EvaluationInvariant, SkipRoute
  PROVE  EvaluationInvariant'
<1>1. /\ AtPosition /\ StepTo(pos, Missed) /\ memo' = memo
      /\ UNCHANGED <<plan, row, touched, asked, call, ended, predictions, evaluation,
                     inferences, runs, cache, report>>
  BY DEF SkipRoute, AtPosition, database
<1>2. "status" \in DOMAIN evaluation'
  BY <1>1 DEF EvaluationInvariant, EvaluationType
<1> DEFINE r == Missed
<1> HIDE DEF r
<1>3. r \in Result /\ r.failed /\ StepTo(pos, r)
  BY <1>1, ResultTypes DEF r
<1> QED
  BY <1>1, <1>2, <1>3, SteppedKept

LEMMA ReuseVerificationKept ==
  ASSUME EvaluationInvariant, ReuseVerification
  PROVE  EvaluationInvariant'
<1>1. /\ AtPosition /\ InRow /\ ~IsAnalysis(pos) /\ memo' = memo
      /\ UNCHANGED <<plan, row, touched, asked, call, ended, predictions, evaluation,
                     inferences, runs, cache, report>>
  BY DEF ReuseVerification, AtPosition, InRow, database
<1>2. PICK m \in Memoized(pos) : StepTo(pos, m.result)
  BY DEF ReuseVerification
<1>3. m \in memo /\ m.question = Question(pos, FALSE)
  BY <1>2 DEF Memoized
<1>4. m.result \in Result /\ (~m.result.failed => Backed(InferenceId(pos), m.result.output))
  BY <1>1, <1>3, VerificationAsked DEF EvaluationInvariant, MemoBacked
<1>5. "status" \in DOMAIN evaluation'
  BY <1>1 DEF EvaluationInvariant, EvaluationType
<1> DEFINE r == m.result
<1> HIDE DEF r
<1>6. r \in Result /\ (~r.failed => Backed(InferenceId(pos), r.output)) /\ StepTo(pos, r)
  BY <1>2, <1>4 DEF r
<1> QED
  BY <1>1, <1>3, <1>5, <1>6, SteppedKept

\* What is remembered of a verification is found again.
LEMMA Remembered ==
  ASSUME NEW p, NEW r, Remember(p, r)
  PROVE  IsAnalysis(p) \/ \E m \in memo' : m.question = Question(p, FALSE)
<1>1. CASE ~IsAnalysis(p)
  <2> DEFINE m == [question |-> Question(p, FALSE), result |-> r]
  <2>1. m \in memo' /\ m.question = Question(p, FALSE)
    BY <1>1 DEF Remember
  <2> QED
    BY <2>1
<1> QED
  BY <1>1

LEMMA ResumeKept ==
  ASSUME EvaluationInvariant, Resume
  PROVE  EvaluationInvariant'
<1> DEFINE id == CompletedRun(Question(pos, touched))
           r == Got(runs[id].output, TRUE)
<1>1. /\ AtPosition /\ StepTo(pos, r) /\ Remember(pos, r) /\ id # 0
      /\ UNCHANGED <<plan, row, touched, asked, call, ended, predictions, evaluation,
                     inferences, runs, cache, report>>
  BY DEF Resume, AtPosition, database
<1>2. /\ InferenceId(pos) \in DOMAIN inferences /\ inferences[InferenceId(pos)].status = "complete"
      /\ id = inferences[InferenceId(pos)].run
  BY <1>1 DEF CompletedRun, Lookup, None
<1>3. id \in DOMAIN runs /\ runs \in Seq(Run)
  BY <1>2 DEF EvaluationInvariant, EvaluationType, RowsAreAnswers
<1>4. runs[id] \in Run
  <2> HIDE DEF id
  <2> QED
    BY <1>3, ElementOfSeq, LenProperties
<1>5. runs[id].output \in Words
  <2> HIDE DEF id
  <2> QED
    BY <1>4 DEF Run
<1>6. r \in Result /\ ~r.failed /\ r.output = runs[id].output
  BY <1>5, ResultTypes
<1>7. Backed(InferenceId(pos), r.output)
  BY <1>2, <1>6 DEF Backed
<1>8. "status" \in DOMAIN evaluation'
  BY <1>1 DEF EvaluationInvariant, EvaluationType
<1> HIDE DEF r, id
<1> QED
  BY <1>1, <1>6, <1>7, <1>8, Remembered, SteppedKept

\* The evaluation row has a status whatever is copied to it.
LEMMA SyncedHasStatus ==
  ASSUME EvaluationInvariant
  PROVE  "status" \in DOMAIN Synced
<1>1. "status" \in DOMAIN evaluation
  BY DEF EvaluationInvariant, EvaluationType
<1>2. DOMAIN Synced = DOMAIN evaluation
  BY DEF Synced
<1> QED
  BY <1>1, <1>2

\* A process that is about to end, by an error or by an interrupt, holds no row.
LEMMA StoppingKept ==
  ASSUME EvaluationInvariant, proc # "down", proc' = "stop", "status" \in DOMAIN evaluation',
         UNCHANGED <<plan, row, pos, results, touched, call, ended, predictions, inferences,
                     runs, cache, report>>
  PROVE  EvaluationInvariant'
<1>1. ~InRow' /\ ~AtPosition'
  BY DEF InRow, AtPosition
<1>2. EvaluationType'
  BY <1>1, PlanKept DEF EvaluationInvariant, EvaluationType
<1>3. RowsAreAnswers' /\ CacheIsAnswers'
  BY RowsKept, CacheKept DEF EvaluationInvariant
<1>4. PredictionsBacked' /\ ReportBacked'
  BY <1>1, PredictionsKept, NoReport, ReportKept DEF EvaluationInvariant
<1>5. InFlight' /\ Afresh' /\ touched' \in Extras'
  BY PlanKept DEF EvaluationInvariant, InFlight, Afresh
<1> QED
  BY <1>1, <1>2, <1>3, <1>4, <1>5 DEF EvaluationInvariant

LEMMA InterruptKept ==
  ASSUME EvaluationInvariant, Interrupt
  PROVE  EvaluationInvariant'
<1>1. /\ proc # "down" /\ proc' = "stop"
      /\ UNCHANGED <<plan, row, pos, results, touched, call, ended, predictions, evaluation,
                     inferences, runs, cache, report>>
  BY DEF Interrupt, database
<1>2. "status" \in DOMAIN evaluation'
  BY <1>1 DEF EvaluationInvariant, EvaluationType
<1> QED
  BY <1>1, <1>2, StoppingKept

LEMMA SyncCallKept ==
  ASSUME EvaluationInvariant, SyncCall
  PROVE  EvaluationInvariant'
<1>1. /\ proc = "sync" /\ evaluation' = Synced
      /\ UNCHANGED <<plan, row, touched, asked, call, ended, predictions, inferences, runs,
                     cache, report>>
  BY DEF SyncCall
<1>2. "status" \in DOMAIN evaluation'
  BY <1>1, SyncedHasStatus
<1>3. CASE Raises
  <2>1. proc # "down" /\ proc' = "stop" /\ UNCHANGED <<pos, results>>
    BY <1>1, <1>3 DEF SyncCall
  <2> QED
    BY <1>1, <1>2, <2>1, StoppingKept
<1>4. CASE ~Raises
  <2> DEFINE r == IF ended \in Categories THEN Missed ELSE Got(ended, FALSE)
  <2>1. StepTo(pos, r) /\ Remember(pos, r)
    BY <1>4 DEF SyncCall
  <2>2. r \in Result /\ (~r.failed => Backed(InferenceId(pos), r.output))
    <3>1. ended \in Words
      BY DEF EvaluationInvariant, EvaluationType
    <3>2. CASE ended \in Categories
      BY <3>2, ResultTypes
    <3>3. CASE ended \notin Categories
      <4>1. r \in Result /\ r.output = ended
        BY <3>1, <3>3, ResultTypes
      <4>2. Backed(InferenceId(pos), ended)
        BY <1>1, <3>3 DEF EvaluationInvariant, InFlight
      <4> QED
        BY <4>1, <4>2
    <3> QED
      BY <3>2, <3>3
  <2>3. AtPosition
    BY <1>1 DEF AtPosition
  <2> HIDE DEF r
  <2>4. IsAnalysis(pos) \/ \E m \in memo' : m.question = Question(pos, FALSE)
    BY <2>1, Remembered
  <2> QED
    BY <1>1, <1>2, <2>1, <2>2, <2>3, <2>4, SteppedKept
<1> QED
  BY <1>3, <1>4

LEMMA SyncHitKept ==
  ASSUME EvaluationInvariant, SyncHit
  PROVE  EvaluationInvariant'
<1> DEFINE r == Got(ended, TRUE)
<1>1. /\ proc = "reuse" /\ evaluation' = Synced /\ StepTo(pos, r) /\ Remember(pos, r)
      /\ UNCHANGED <<plan, row, touched, asked, call, ended, predictions, inferences, runs,
                     cache, report>>
  BY DEF SyncHit
<1>2. "status" \in DOMAIN evaluation' /\ AtPosition
  BY <1>1, SyncedHasStatus DEF AtPosition
<1>3. r \in Result /\ r.output = ended
  BY ResultTypes DEF EvaluationInvariant, EvaluationType
<1>4. Backed(InferenceId(pos), r.output)
  BY <1>1, <1>3 DEF EvaluationInvariant, InFlight
<1> HIDE DEF r
<1>5. IsAnalysis(pos) \/ \E m \in memo' : m.question = Question(pos, FALSE)
  BY <1>1, Remembered
<1> QED
  BY <1>1, <1>2, <1>3, <1>4, <1>5, SteppedKept
-----------------------------------------------------------------------------
(* Storing an answer *)

\* Runs are only ever added.
LEMMA RunsGrow ==
  ASSUME runs \in Seq(Run), runs' = runs \/ \E run \in Run : runs' = Append(runs, run)
  PROVE  /\ runs' \in Seq(Run) /\ DOMAIN runs \subseteq DOMAIN runs'
         /\ \A i \in DOMAIN runs : runs'[i] = runs[i]
<1>1. CASE runs' = runs
  BY <1>1
<1>2. ASSUME NEW run \in Run, runs' = Append(runs, run)
      PROVE  /\ runs' \in Seq(Run) /\ DOMAIN runs \subseteq DOMAIN runs'
             /\ \A i \in DOMAIN runs : runs'[i] = runs[i]
  BY <1>2, AppendProperties, LenProperties
<1> QED
  BY <1>1, <1>2

\* The cache is not hurt by more runs.
LEMMA CacheGrows ==
  ASSUME EvaluationInvariant, UNCHANGED <<plan, cache>>,
         runs' = runs \/ \E run \in Run : runs' = Append(runs, run)
  PROVE  CacheIsAnswers'
<1>1. DOMAIN runs \subseteq DOMAIN runs' /\ \A i \in DOMAIN runs : runs'[i] = runs[i]
  BY RunsGrow DEF EvaluationInvariant, EvaluationType
<1>2. RefreshLeavesOneAnswer'
  BY DEF EvaluationInvariant, CacheIsAnswers, RefreshLeavesOneAnswer
<1>3. ASSUME NEW key \in DOMAIN cache
      PROVE  /\ key \in Keys(key.question)' /\ cache[key] \in DOMAIN runs'
             /\ runs'[cache[key]].model = key.question.model
             /\ runs'[cache[key]].context.text = key.question.context.text
             /\ runs'[cache[key]].context.extra \in Extras'
  BY <1>1, PlanKept DEF EvaluationInvariant, CacheIsAnswers
<1> QED
  BY <1>2, <1>3 DEF CacheIsAnswers

\* No result and no memo entry of the row rests on the inference that is stored now.
LEMMA StoresItsOwn ==
  ASSUME EvaluationInvariant, AtPosition, Asked(pos)
  PROVE  /\ \A m \in memo : MemoId(m) # InferenceId(pos)
         /\ \A q \in Positions : ~results[q].failed => InferenceId(q) # InferenceId(pos)
<1>1. InRow /\ MemoBacked /\ ResultsBacked /\ pos \in Positions
  BY DEF EvaluationInvariant, EvaluationType, InRow
<1>2. Analyzers \in Nat /\ Len(Pairs) \in Nat
  BY PlanFacts DEF EvaluationInvariant, EvaluationType
<1>3. \A q : InferenceId(q).model = ModelAt(q) /\ InferenceId(q).proposal = Proposal(q)
  BY DEF InferenceId
<1>4. \A q : /\ IsAnalysis(q) => ModelAt(q) = <<"analysis", q>>
             /\ ~IsAnalysis(q) => ModelAt(q)[1] = "verification"
  BY DEF ModelAt
<1>5. ASSUME NEW m \in memo, MemoId(m) = InferenceId(pos) PROVE FALSE
  <2> DEFINE z == m.question
  <2>1. z.model = ModelAt(pos) /\ z.proposal = Proposal(pos)
    BY <1>5 DEF MemoId, InferenceId
  <2>2. z.model[1] = "verification"
        /\ z = [model |-> z.model, proposal |-> z.proposal,
                context |-> [text |-> Example.text, extra |-> FALSE]]
    BY <1>1 DEF MemoBacked
  <2>3. ~IsAnalysis(pos)
    BY <1>4, <2>1, <2>2
  <2>4. Question(pos, FALSE) = [model |-> ModelAt(pos), proposal |-> Proposal(pos),
                                context |-> [text |-> Example.text, extra |-> FALSE]]
    BY <2>3 DEF Question, ContextOf
  <2>5. z = Question(pos, FALSE)
    <3> HIDE DEF z
    <3> QED
      BY <2>1, <2>2, <2>4
  <2> QED
    BY <2>3, <2>5 DEF Asked, Memoized
<1>6. ASSUME NEW q \in Positions, ~results[q].failed, InferenceId(q) = InferenceId(pos)
      PROVE  FALSE
  <2>1. ModelAt(q) = ModelAt(pos) /\ Proposal(q) = Proposal(pos)
    BY <1>3, <1>6
  <2>2. pos = 0 \/ q < pos
    BY <1>1, <1>6 DEF ResultsBacked
  <2>3. q # pos
    BY <1>1, <1>2, <2>2 DEF Positions
  <2>4. CASE IsAnalysis(pos)
    BY <1>4, <2>1, <2>3, <2>4
  <2>5. CASE ~IsAnalysis(pos)
    <3>1. ~IsAnalysis(q)
      BY <1>4, <2>1, <2>5
    <3>2. ContextOf(q, FALSE) = ContextOf(pos, FALSE)
      BY <2>5, <3>1 DEF ContextOf
    <3>3. Question(q, FALSE) = Question(pos, FALSE)
      BY <2>1, <3>2 DEF Question
    <3>4. Memoized(q) # {}
      BY <1>1, <1>6, <3>1 DEF ResultsBacked
    <3>5. Memoized(pos) = {}
      BY <2>5 DEF Asked
    <3> QED
      BY <3>3, <3>4, <3>5 DEF Memoized
  <2> QED
    BY <2>4, <2>5
<1> QED
  BY <1>5, <1>6

\* An inference row is written, and with a status of complete it is an answer.
LEMMA StoredKept ==
  ASSUME EvaluationInvariant, AtPosition, Asked(pos), proc' \in {"sync", "reuse"},
         NEW status, NEW run, NEW hit, NEW key,
         inferences' = Upserted(InferenceId(pos), status, run, hit, key),
         UNCHANGED <<plan, row, pos, results, memo, touched, call, predictions, evaluation,
                     report>>,
         runs' = runs \/ \E new \in Run : runs' = Append(runs, new),
         ended' \in Words, CacheIsAnswers',
         (proc' = "sync" /\ ended' \in Categories) \/ status = "complete",
         status = "complete" =>
           /\ run \in DOMAIN runs' /\ runs'[run].ok /\ runs'[run].model = ModelAt(pos)
           /\ runs'[run].context \in ContextsOf(row) /\ runs'[run].output = ended'
           /\ \E question \in QuestionsOf(InferenceId(pos)) : key \in Keys(question)
  PROVE  EvaluationInvariant'
<1> DEFINE own == InferenceId(pos)
<1>1. InRow /\ InRow' /\ AtPosition' /\ proc' # "report" /\ proc # "down" /\ proc' # "down"
  BY DEF InRow, AtPosition
<1>2. /\ runs \in Seq(Run) /\ runs' \in Seq(Run) /\ DOMAIN runs \subseteq DOMAIN runs'
      /\ \A i \in DOMAIN runs : runs'[i] = runs[i]
  BY RunsGrow DEF EvaluationInvariant, EvaluationType
<1>3. /\ DOMAIN inferences' = DOMAIN inferences \cup {own}
      /\ \A id \in DOMAIN inferences : id # own => inferences'[id] = inferences[id]
      /\ inferences'[own].status = status /\ inferences'[own].run = run
      /\ inferences'[own].key = key
  <2> DEFINE attempts == (IF own \in DOMAIN inferences THEN inferences[own].attempts ELSE {})
                           \cup (IF run = 0 \/ hit THEN {} ELSE {run})
             entry == [status |-> status, run |-> run, hit |-> hit, key |-> key,
                       attempts |-> attempts]
  <2>1. inferences' = Assign(inferences, own, entry)
    BY DEF Upserted
  <2>2. entry.status = status /\ entry.run = run /\ entry.key = key
    OBVIOUS
  <2> HIDE DEF own, entry
  <2>3. /\ DOMAIN Assign(inferences, own, entry) = DOMAIN inferences \cup {own}
        /\ Assign(inferences, own, entry)[own] = entry
        /\ \A id \in DOMAIN inferences :
             id # own => Assign(inferences, own, entry)[id] = inferences[id]
    BY DEF Assign
  <2> QED
    BY <2>1, <2>2, <2>3
<1>4. ASSUME NEW id, id # own, NEW output, Backed(id, output)
      PROVE  Backed(id, output)'
  <2>1. id \in DOMAIN inferences /\ inferences[id].status = "complete"
        /\ runs[inferences[id].run].output = output
    BY <1>4 DEF Backed
  <2>2. inferences[id].run \in DOMAIN runs
    BY <2>1 DEF EvaluationInvariant, RowsAreAnswers
  <2>3. inferences'[id] = inferences[id] /\ id \in DOMAIN inferences'
    BY <1>3, <1>4, <2>1
  <2> HIDE DEF own
  <2> QED
    BY <1>2, <2>1, <2>2, <2>3 DEF Backed
<1>5. EvaluationType'
  BY <1>1, <1>2, PlanKept DEF EvaluationInvariant, EvaluationType
<1>6. RowsAreAnswers'
  <2> SUFFICES ASSUME NEW id \in DOMAIN inferences', inferences'[id].status = "complete"
               PROVE  /\ inferences'[id].run \in DOMAIN runs' /\ runs'[inferences'[id].run].ok
                      /\ runs'[inferences'[id].run].model = id.model
                      /\ runs'[inferences'[id].run].context \in ContextsOf(id.row)
                      /\ \E question \in QuestionsOf(id) : inferences'[id].key \in Keys(question)
    BY PlanKept DEF RowsAreAnswers
  <2>1. CASE id = own
    <3>1. own.model = ModelAt(pos) /\ own.row = row
      BY DEF InferenceId
    <3> HIDE DEF own
    <3> QED
      BY <1>3, <2>1, <3>1 DEF own
  <2>2. CASE id # own
    <3>1. id \in DOMAIN inferences /\ inferences'[id] = inferences[id]
      BY <1>3, <2>2
    <3> HIDE DEF own
    <3> QED
      BY <1>2, <3>1 DEF EvaluationInvariant, RowsAreAnswers
  <2> QED
    BY <2>1, <2>2
<1>7. MemoBacked'
  <2>1. \A m \in memo : MemoId(m)' = MemoId(m) /\ MemoId(m) # own
    BY StoresItsOwn DEF MemoId
  <2>2. Example' = Example /\ MemoBacked
    BY <1>1 DEF Example, EvaluationInvariant
  <2> HIDE DEF own
  <2> QED
    BY <1>4, <2>1, <2>2 DEF MemoBacked
<1>8. ResultsBacked'
  <2>1. \A q \in Positions : ~results[q].failed => InferenceId(q) # own
    BY StoresItsOwn
  <2>2. \A q : InferenceId(q)' = InferenceId(q) /\ Memoized(q)' = Memoized(q)
    BY RowKept, MemoizedKept
  <2>3. ResultsBacked
    BY <1>1 DEF EvaluationInvariant
  <2> HIDE DEF own
  <2> QED
    BY <1>4, <2>1, <2>2, <2>3, PlanKept DEF ResultsBacked
<1>9. InFlight'
  <2>1. InferenceId(pos)' = own
    BY RowKept
  <2>2. proc' = "reuse" \/ ended' \notin Categories =>
          /\ own \in DOMAIN inferences' /\ inferences'[own].status = "complete"
          /\ runs'[inferences'[own].run].output = ended'
    <3> HIDE DEF own
    <3> QED
      BY <1>3
  <2> HIDE DEF own
  <2> QED
    BY <2>1, <2>2 DEF InFlight, Backed
<1>10. PredictionsBacked'
  <2>1. \A i \in DOMAIN Pairs : Len(predictions[i]) = row - 1
    BY <1>1 DEF EvaluationInvariant, PredictionsBacked
  <2>2. row \in Nat
    BY PlanFacts DEF EvaluationInvariant, EvaluationType
  <2>3. ASSUME NEW i \in DOMAIN Pairs, NEW r \in 1 .. Len(predictions[i])
        PROVE  Proposed(i, r, predictions[i][r])'
    <3>1. Proposed(i, r, predictions[i][r])
      BY <2>3 DEF EvaluationInvariant, PredictionsBacked
    <3>2. r # row
      BY <2>1, <2>2, <2>3
    <3>3. \A id : id.row = r => id # own
      BY <3>2 DEF InferenceId
    <3>4. ASSUME NEW p, Proposed(i, r, p)
          PROVE  Proposed(i, r, p)'
      <4> DEFINE first == [row |-> r, model |-> <<"analysis", Pairs[i].a>>, proposal |-> ""]
                 second == [row |-> r, model |-> <<"verification", Pairs[i].v>>,
                            proposal |-> p.output]
      <4>1. first.row = r /\ second.row = r
        OBVIOUS
      <4>2. first # own /\ second # own
        <5> HIDE DEF first, second, own
        <5> QED
          BY <3>3, <4>1
      <4>3. \A output : Backed(first, output) => Backed([row |-> r,
                 model |-> <<"analysis", Pairs[i].a>>, proposal |-> ""], output)'
        BY <1>4, <4>2, PlanKept
      <4>4. \A output : Backed(second, output) => Backed([row |-> r,
                 model |-> <<"verification", Pairs[i].v>>, proposal |-> p.output], output)'
        BY <1>4, <4>2, PlanKept
      <4> QED
        BY <3>4, <4>3, <4>4 DEF Proposed
    <3> QED
      BY <3>1, <3>4
  <2> QED
    BY <1>1, <2>1, <2>3, PlanKept DEF PredictionsBacked
<1>11. ReportBacked'
  BY <1>1, NoReport, ReportKept DEF EvaluationInvariant
<1>12. Afresh' /\ touched' \in Extras'
  BY <1>1, PlanKept DEF EvaluationInvariant, Afresh
<1> QED
  BY <1>1, <1>5, <1>6, <1>7, <1>8, <1>9, <1>10, <1>11, <1>12 DEF EvaluationInvariant

\* The cached answer found first is one of those there are.
LEMMA FirstOfKeys ==
  ASSUME NEW question, NEW keys \in SUBSET Keys(question), keys # {}
  PROVE  FirstKey(keys) \in keys
<1> DEFINE Preferred(key) ==
             \A other \in keys : \/ key.mode = "json_schema"
                                 \/ key.mode = "json_object" /\ other.mode # "json_schema"
                                 \/ keys = {key}
<1>1. AllowedModes \in SUBSET Modes
  BY ModesAllowed
<1>2. ASSUME NEW key \in keys
      PROVE  \E mode \in Modes : key = CacheKey(question, mode) /\ key.mode = mode
  BY <1>1 DEF Keys, CacheKey
<1>3. \E key \in keys : Preferred(key)
  <2>1. CASE \E key \in keys : key.mode = "json_schema"
    BY <2>1
  <2>2. CASE \A key \in keys : key.mode # "json_schema"
    <3>1. CASE \E key \in keys : key.mode = "json_object"
      <4>1. PICK key \in keys : key.mode = "json_object"
        BY <3>1
      <4>2. Preferred(key)
        BY <2>2, <4>1
      <4> HIDE DEF Preferred
      <4> QED
        BY <4>2
    <3>2. CASE \A key \in keys : key.mode # "json_object"
      <4>1. \A key \in keys : key = CacheKey(question, "prompt_json")
        BY <1>2, <2>2, <3>2 DEF Modes
      <4>2. PICK key \in keys : TRUE
        OBVIOUS
      <4>3. keys = {key}
        BY <4>1, <4>2
      <4> QED
        BY <4>2, <4>3
    <3> QED
      BY <3>1, <3>2
  <2> QED
    BY <2>1, <2>2
<1>4. FirstKey(keys) = CHOOSE key \in keys : Preferred(key)
  BY DEF FirstKey
<1> HIDE DEF Preferred
<1> QED
  BY <1>3, <1>4

LEMMA UseCacheKept ==
  ASSUME EvaluationInvariant, UseCache
  PROVE  EvaluationInvariant'
<1> DEFINE question == Question(pos, touched)
           keys == CachedKeys(question)
           key == FirstKey(keys)
           run == cache[key]
<1>1. /\ AtPosition /\ Asked(pos) /\ proc' = "reuse" /\ keys # {}
      /\ inferences' = Upserted(InferenceId(pos), "complete", run, TRUE, key)
      /\ ended' = runs[run].output
      /\ UNCHANGED <<plan, row, pos, results, memo, touched, call, predictions, evaluation,
                     report>>
      /\ cache' = cache /\ runs' = runs
  BY DEF UseCache, AtPosition
<1>2. keys \in SUBSET Keys(question) /\ \A k \in keys : k \in DOMAIN cache /\ runs[cache[k]].ok
  BY DEF CachedKeys
<1>3. key \in keys
  <2> HIDE DEF keys, question
  <2> QED
    BY <1>1, <1>2, FirstOfKeys
<1>4. key \in DOMAIN cache /\ runs[run].ok /\ key \in Keys(question)
  <2> HIDE DEF keys, key, question
  <2> QED
    BY <1>2, <1>3
<1>5. key.question = question
  <2> HIDE DEF keys, key, question
  <2> QED
    BY <1>4 DEF Keys, CacheKey
<1>6. /\ question \in QuestionsOf(InferenceId(pos)) /\ question.model = ModelAt(pos)
      /\ question.context.text = plan.examples[row].text
  BY QuestionOfPosition DEF Question, ContextOf, Example
<1>7. /\ run \in DOMAIN runs /\ runs[run].model = ModelAt(pos)
      /\ runs[run].context.text = plan.examples[row].text
      /\ runs[run].context.extra \in Extras
  <2> HIDE DEF keys, key, question
  <2> QED
    BY <1>4, <1>5, <1>6 DEF EvaluationInvariant, CacheIsAnswers
<1>8. runs[run] \in Run
  <2> HIDE DEF run
  <2> QED
    BY <1>7, ElementOfSeq, LenProperties DEF EvaluationInvariant, EvaluationType
<1>9. runs[run].output \in Words /\ runs[run].context \in ContextsOf(row)
  <2> HIDE DEF run
  <2>1. runs[run].output \in Words /\ runs[run].context \in ContextType
    BY <1>8 DEF Run
  <2> QED
    BY <1>7, <2>1 DEF ContextsOf, ContextType
<1>10. CacheIsAnswers'
  BY <1>1, CacheKept DEF EvaluationInvariant
<1> HIDE DEF question, keys, key, run
<1>11. \E asking \in QuestionsOf(InferenceId(pos)) : key \in Keys(asking)
  BY <1>4, <1>6
<1> QED
  BY <1>1, <1>4, <1>7, <1>9, <1>10, <1>11, StoredKept

\* What a call leaves is a run of the model in the context of the row.
LEMMA RunOfCall ==
  ASSUME EvaluationInvariant, NEW output \in Words
  PROVE  /\ ResultRun(call, output, FiledContext, ModelAt(pos)) \in Run
         /\ FailedRun(call, FiledContext, ModelAt(pos)) \in Run
<1> DEFINE context == FiledContext
           model == ModelAt(pos)
           cost == TotalCost(call)
<1>1. call \in CallType
  BY DEF EvaluationInvariant, EvaluationType
<1>2. cost \in Int
  BY <1>1 DEF TotalCost, NoCost, CallType
<1>3. context \in ContextType
  <2>1. context \in ContextsOf(row)
    BY QuestionOfPosition DEF FiledContext
  <2>2. plan.examples[row].text \in STRING
    BY PlanFacts DEF LabelledExamples, EvaluationInvariant, EvaluationType
  <2> HIDE DEF context
  <2> QED
    BY <2>1, <2>2 DEF ContextsOf, ContextType, Extras
<1>4. model \in {"analysis", "verification"} \X Nat
  <2>1. pos \in Nat
    BY PlanFacts DEF EvaluationInvariant, EvaluationType
  <2>2. CASE IsAnalysis(pos)
    BY <2>1, <2>2 DEF ModelAt
  <2>3. CASE ~IsAnalysis(pos)
    <3>1. pos - Analyzers \in DOMAIN Pairs
      BY <2>1, <2>3, PlanFacts DEF IsAnalysis, EvaluationInvariant, EvaluationType
    <3>2. PairAt(pos).v \in Nat
      BY <3>1, PlanFacts DEF PairAt, EvaluationInvariant, EvaluationType
    <3> QED
      BY <2>3, <3>2 DEF ModelAt
  <2> QED
    BY <2>2, <2>3
<1>5. ASSUME NEW word \in Words, NEW ok \in BOOLEAN
      PROVE  [ok |-> ok, output |-> word, cost |-> cost, attempts |-> call.sent,
              parsed |-> call.parsed, mode |-> call.mode, context |-> context,
              model |-> model] \in Run
  <2>1. call.sent \in Nat /\ call.parsed \in Nat /\ call.mode \in Modes
    BY <1>1 DEF CallType
  <2> HIDE DEF cost, context, model
  <2> QED
    BY <1>2, <1>3, <1>4, <2>1 DEF Run
<1>6. ResultRun(call, output, context, model) =
        [ok |-> TRUE, output |-> output, cost |-> cost, attempts |-> call.sent,
         parsed |-> call.parsed, mode |-> call.mode, context |-> context, model |-> model]
  BY DEF ResultRun
<1>7. FailedRun(call, context, model) =
        [ok |-> FALSE, output |-> "none", cost |-> cost, attempts |-> call.sent,
         parsed |-> call.parsed, mode |-> call.mode, context |-> context, model |-> model]
  <2> DEFINE ran == [ok |-> TRUE, output |-> "none", cost |-> cost, attempts |-> call.sent,
                     parsed |-> call.parsed, mode |-> call.mode, context |-> context,
                     model |-> model]
  <2>1. FailedRun(call, context, model) = [ran EXCEPT !.ok = FALSE]
    BY DEF FailedRun, ResultRun
  <2> HIDE DEF context, model, cost
  <2> QED
    BY <2>1
<1>8. "none" \in Words
  BY DEF Words
<1> QED
  BY <1>5, <1>6, <1>7, <1>8

LEMMA StoreMarkerKept ==
  ASSUME EvaluationInvariant, StoreMarker
  PROVE  EvaluationInvariant'
<1>1. /\ proc = "store" /\ proc' = "sync" /\ ended = "budget_exhausted"
      /\ inferences' = Upserted(InferenceId(pos), "paused", 0, FALSE, None)
      /\ UNCHANGED <<plan, row, pos, results, memo, touched, call, ended, predictions,
                     evaluation, report, runs, cache>>
  BY DEF StoreMarker, memory
<1>2. AtPosition /\ Asked(pos)
  BY <1>1 DEF AtPosition, EvaluationInvariant, InFlight
<1>3. ended' \in Words /\ ended' \in Categories
  BY <1>1 DEF Words, Categories
<1>4. CacheIsAnswers'
  BY <1>1, CacheKept DEF EvaluationInvariant
<1> QED
  BY <1>1, <1>2, <1>3, <1>4, StoredKept

LEMMA StoreFailureKept ==
  ASSUME EvaluationInvariant, StoreFailure
  PROVE  EvaluationInvariant'
<1> DEFINE new == FailedRun(call, FiledContext, ModelAt(pos))
           id == Len(runs) + 1
<1>1. /\ proc = "store" /\ proc' = "sync" /\ ended \in Categories
      /\ inferences' = Upserted(InferenceId(pos), "error", id, FALSE, None)
      /\ runs' = Append(runs, new)
      /\ UNCHANGED <<plan, row, pos, results, memo, touched, call, ended, predictions,
                     evaluation, report, cache>>
  BY DEF StoreFailure, memory
<1>2. AtPosition /\ Asked(pos)
  BY <1>1 DEF AtPosition, EvaluationInvariant, InFlight
<1>3. ended' \in Words /\ ended' \in Categories
  BY <1>1 DEF Words
<1>4. new \in Run
  BY RunOfCall DEF Words
<1> HIDE DEF new, id
<1>5. CacheIsAnswers'
  BY <1>1, <1>4, CacheGrows
<1> QED
  BY <1>1, <1>2, <1>3, <1>4, <1>5, StoredKept

\* The new cache entry answers the question that was asked, and a refresh leaves it alone.
LEMMA CacheStores ==
  ASSUME EvaluationInvariant, plan' = plan, NEW question, NEW mode \in AllowedModes,
         NEW run \in Run, runs' = Append(runs, run), run.model = question.model,
         run.context.text = question.context.text, run.context.extra \in Extras,
         LET key == CacheKey(question, mode)
             stale == IF plan.cache = "refresh" THEN Keys(question) \ {key} ELSE {}
             kept == [k \in DOMAIN cache \ stale |-> cache[k]]
         IN  cache' = Assign(kept, key, Len(runs) + 1)
  PROVE  CacheIsAnswers'
<1> DEFINE key == CacheKey(question, mode)
           stale == IF plan.cache = "refresh" THEN Keys(question) \ {key} ELSE {}
           kept == [k \in DOMAIN cache \ stale |-> cache[k]]
           id == Len(runs) + 1
<1>1. runs \in Seq(Run) /\ CacheIsAnswers
  BY DEF EvaluationInvariant, EvaluationType
<1>2. /\ DOMAIN runs \subseteq DOMAIN runs' /\ \A i \in DOMAIN runs : runs'[i] = runs[i]
      /\ id \in DOMAIN runs' /\ runs'[id] = run
  BY <1>1, AppendProperties, LenProperties
<1>3. key \in Keys(question) /\ key.question = question
  BY DEF Keys, CacheKey
<1>4. /\ DOMAIN cache' = (DOMAIN cache \ stale) \cup {key} /\ cache'[key] = id
      /\ \A k \in DOMAIN cache \ stale : k # key => cache'[k] = cache[k]
  <2>1. cache' = Assign(kept, key, id)
    OBVIOUS
  <2> HIDE DEF key, stale, id
  <2> QED
    BY <2>1 DEF Assign
<1>5. ASSUME NEW k \in DOMAIN cache'
      PROVE  /\ k \in Keys(k.question)' /\ cache'[k] \in DOMAIN runs'
             /\ runs'[cache'[k]].model = k.question.model
             /\ runs'[cache'[k]].context.text = k.question.context.text
             /\ runs'[cache'[k]].context.extra \in Extras'
  <2> HIDE DEF key, stale, kept, id
  <2>1. CASE k = key
    BY <1>2, <1>3, <1>4, <2>1, PlanKept
  <2>2. CASE k # key
    <3>1. k \in DOMAIN cache /\ cache'[k] = cache[k]
      BY <1>4, <2>2
    <3> QED
      BY <1>1, <1>2, <3>1, PlanKept DEF CacheIsAnswers
  <2> QED
    BY <2>1, <2>2
<1>6. RefreshLeavesOneAnswer'
  <2> SUFFICES ASSUME plan.cache = "refresh", NEW x \in DOMAIN cache', NEW y \in DOMAIN cache',
                      x.question = y.question
               PROVE  x = y
    BY DEF RefreshLeavesOneAnswer
  <2>1. stale = Keys(question) \ {key}
    OBVIOUS
  <2> HIDE DEF key, stale, kept, id
  <2>2. \A k \in DOMAIN cache' : k = key \/ (k \in DOMAIN cache /\ k.question # question)
    BY <1>1, <1>4, <2>1 DEF CacheIsAnswers
  <2> QED
    BY <1>1, <1>3, <2>2 DEF CacheIsAnswers, RefreshLeavesOneAnswer
<1> QED
  BY <1>5, <1>6 DEF CacheIsAnswers

LEMMA StoreResultKept ==
  ASSUME EvaluationInvariant, StoreResult
  PROVE  EvaluationInvariant'
<1> DEFINE key == CacheKey(asked, call.mode)
           id == Len(runs) + 1
           new == ResultRun(call, ended, FiledContext, ModelAt(pos))
<1>1. /\ proc = "store" /\ proc' = "sync" /\ ended \notin Categories
      /\ inferences' = Upserted(InferenceId(pos), "complete", id, FALSE, key)
      /\ runs' = Append(runs, new)
      /\ UNCHANGED <<plan, row, pos, results, memo, touched, call, ended, predictions,
                     evaluation, report>>
  BY DEF StoreResult, memory
<1>2. AtPosition /\ Asked(pos) /\ asked \in QuestionsOf(InferenceId(pos))
  BY <1>1 DEF AtPosition, EvaluationInvariant, InFlight
<1>3. ended \in Words /\ ended' \in Words /\ call.mode \in AllowedModes /\ runs \in Seq(Run)
  BY <1>1 DEF EvaluationInvariant, EvaluationType
<1>4. new \in Run
  BY <1>3, RunOfCall
<1>5. /\ new.ok /\ new.model = ModelAt(pos) /\ new.context = FiledContext
      /\ new.output = ended
  BY DEF ResultRun
<1>6. FiledContext \in ContextsOf(row)
  BY QuestionOfPosition DEF FiledContext
<1>7. /\ asked.model = ModelAt(pos) /\ asked.context.text = plan.examples[row].text
  BY <1>2 DEF QuestionsOf, InferenceId, ContextsOf
<1>8. FiledContext.text = plan.examples[row].text /\ FiledContext.extra \in Extras
  BY <1>6 DEF ContextsOf
<1>9. key \in Keys(asked)
  BY <1>3 DEF Keys
<1>10. CacheIsAnswers'
  <2>1. CASE plan.cache = "no_cache"
    <3>1. cache' = cache
      BY <2>1 DEF StoreResult
    <3> HIDE DEF new
    <3> QED
      BY <1>1, <1>4, <3>1, CacheGrows
  <2>2. CASE plan.cache # "no_cache"
    <3> DEFINE stale == IF plan.cache = "refresh" THEN Keys(asked) \ {key} ELSE {}
               kept == [k \in DOMAIN cache \ stale |-> cache[k]]
    <3>1. cache' = Assign(kept, key, id)
      BY <2>2 DEF StoreResult, StaleKeys
    <3>2. new.model = asked.model /\ new.context.text = asked.context.text
          /\ new.context.extra \in Extras
      <4> HIDE DEF new
      <4> QED
        BY <1>5, <1>7, <1>8
    <3> HIDE DEF new
    <3> QED
      BY <1>1, <1>3, <1>4, <3>1, <3>2, CacheStores
  <2> QED
    BY <2>1, <2>2
<1>11. id \in DOMAIN runs' /\ runs'[id] = new
  <2> HIDE DEF new
  <2> QED
    BY <1>1, <1>3, <1>4, AppendProperties, LenProperties
<1> HIDE DEF new, id, key
<1>12. /\ runs'[id].ok /\ runs'[id].model = ModelAt(pos) /\ runs'[id].context \in ContextsOf(row)
       /\ runs'[id].output = ended'
  BY <1>1, <1>5, <1>6, <1>11
<1>13. runs' = runs \/ \E run \in Run : runs' = Append(runs, run)
  BY <1>1, <1>4
<1>14. \E question \in QuestionsOf(InferenceId(pos)) : key \in Keys(question)
  BY <1>2, <1>9
<1> QED
  BY <1>1, <1>2, <1>3, <1>10, <1>11, <1>12, <1>13, <1>14, StoredKept
-----------------------------------------------------------------------------
(* The end of a row, of the evaluation, and of the process *)

\* Nothing has been obtained for a row that starts.
LEMMA NothingObtained ==
  /\ \A p \in Positions : NoResults[p] = Missed
  /\ NoResults \in [Positions -> Result]
  BY ResultTypes DEF NoResults, Positions

\* A pair's prediction is what the inferences of its row say.
LEMMA PredictionProposed ==
  ASSUME EvaluationInvariant, proc = "judge", NEW i \in DOMAIN Pairs
  PROVE  PredictionOf(i) \in PredictionType /\ Proposed(i, row, PredictionOf(i))
<1> DEFINE a == Pairs[i].a
           analysis == results[a]
           verdict == results[Analyzers + i]
<1>1. ResultsBacked /\ results \in [Positions -> Result]
  BY DEF EvaluationInvariant, EvaluationType, InRow
<1>2. /\ Analyzers \in Nat /\ Len(Pairs) \in Nat /\ DOMAIN Pairs = 1 .. Len(Pairs)
      /\ a \in 1 .. Analyzers
  BY PlanFacts DEF EvaluationInvariant, EvaluationType
<1>3. a \in Positions /\ Analyzers + i \in Positions
  BY <1>2 DEF Positions
<1>4. analysis \in Result /\ verdict \in Result
  <2> HIDE DEF a
  <2> QED
    BY <1>1, <1>3
<1>5. InferenceId(a) = [row |-> row, model |-> <<"analysis", a>>, proposal |-> ""]
  <2> HIDE DEF a
  <2>1. IsAnalysis(a)
    BY <1>2 DEF IsAnalysis
  <2> QED
    BY <2>1 DEF InferenceId, ModelAt, Proposal
<1>6. InferenceId(Analyzers + i) =
        [row |-> row, model |-> <<"verification", Pairs[i].v>>, proposal |-> analysis.output]
  <2>1. ~IsAnalysis(Analyzers + i) /\ (Analyzers + i) - Analyzers = i
    BY <1>2 DEF IsAnalysis
  <2>2. PairAt(Analyzers + i) = Pairs[i]
    BY <2>1 DEF PairAt
  <2> QED
    BY <2>1, <2>2 DEF InferenceId, ModelAt, Proposal
<1>7. /\ ~analysis.failed => Backed(InferenceId(a), analysis.output)
      /\ ~verdict.failed => Backed(InferenceId(Analyzers + i), verdict.output)
  BY <1>1, <1>3 DEF ResultsBacked
<1> DEFINE p == PredictionOf(i)
<1>8. CASE analysis.failed \/ (analysis.output # "none" /\ verdict.failed)
  <2>1. p = FailedPrediction
    BY <1>8 DEF PredictionOf
  <2>2. p \in PredictionType /\ ~p.valid
    BY <2>1 DEF FailedPrediction, PredictionType, Words
  <2> QED
    BY <2>2 DEF Proposed
<1>9. CASE ~analysis.failed /\ analysis.output = "none"
  <2>1. p = [output |-> "none", decision |-> "NONE", valid |-> TRUE, agreed |-> TRUE,
             validation |-> "unset"]
    BY <1>9 DEF PredictionOf, Prediction
  <2>2. p \in PredictionType /\ p.output = "none"
    BY <2>1 DEF PredictionType, Words
  <2> QED
    BY <1>5, <1>7, <1>9, <2>2 DEF Proposed
<1>10. CASE ~analysis.failed /\ analysis.output # "none" /\ ~verdict.failed
  <2> DEFINE output == analysis.output
             decision == verdict.output
             agreed == decision = "AUTO_EXECUTE"
             validation == IF decision = "auto_execute" THEN "passed" ELSE "failed"
  <2>1. p = [output |-> output, decision |-> decision, valid |-> TRUE, agreed |-> agreed,
             validation |-> validation]
    BY <1>10 DEF PredictionOf, Prediction
  <2>2. output \in Words /\ decision \in Words
    BY <1>4 DEF Result
  <2>3. agreed \in BOOLEAN
    OBVIOUS
  <2>4. validation \in {"unset", "passed", "failed"}
    OBVIOUS
  <2>5. p \in PredictionType /\ p.output = output /\ p.decision = decision
    <3> HIDE DEF p, output, decision, agreed, validation
    <3> QED
      BY <2>1, <2>2, <2>3, <2>4 DEF PredictionType
  <2>6. /\ Backed([row |-> row, model |-> <<"analysis", Pairs[i].a>>, proposal |-> ""], output)
        /\ Backed([row |-> row, model |-> <<"verification", Pairs[i].v>>, proposal |-> output],
                  decision)
    BY <1>5, <1>6, <1>7, <1>10
  <2> HIDE DEF p, output, decision
  <2> QED
    BY <2>5, <2>6 DEF Proposed, p
<1> QED
  BY <1>8, <1>9, <1>10

LEMMA JudgeKept ==
  ASSUME EvaluationInvariant, Judge
  PROVE  EvaluationInvariant'
<1>1. /\ proc = "judge" /\ memo' = {} /\ results' = NoResults /\ touched' = FALSE
      /\ predictions' = [i \in DOMAIN Pairs |-> Append(predictions[i], PredictionOf(i))]
      /\ UNCHANGED <<plan, call, ended, inferences, runs, cache, report>>
      /\ evaluation' = [Synced EXCEPT !.checkpoint = row]
  BY DEF Judge
<1>2. /\ row \in 1 .. Len(plan.examples) /\ Len(plan.examples) \in Nat \ {0}
      /\ Analyzers \in Nat \ {0} /\ Len(Pairs) \in Nat
      /\ predictions \in [DOMAIN Pairs -> Seq(PredictionType)]
      /\ pos \in 0 .. Analyzers + Len(Pairs)
  BY PlanFacts DEF EvaluationInvariant, EvaluationType
<1>3. /\ proc' \in {"lookup", "report"} /\ row' \in 1 .. Len(plan.examples)
      /\ pos' \in 0 .. Analyzers + Len(Pairs)
      /\ proc' = "lookup" => row' = row + 1 /\ pos' = 1
      /\ proc' = "report" => row' = row /\ row = Len(plan.examples)
  <2>1. CASE row < Len(plan.examples)
    BY <1>2, <2>1 DEF Judge
  <2>2. CASE ~(row < Len(plan.examples))
    BY <1>2, <2>2 DEF Judge
  <2> QED
    BY <2>1, <2>2
<1>4. \A i \in DOMAIN Pairs :
        /\ predictions'[i] \in Seq(PredictionType) /\ Len(predictions'[i]) = row
        /\ \A r \in 1 .. row : Proposed(i, r, predictions'[i][r])
  <2> SUFFICES ASSUME NEW i \in DOMAIN Pairs
               PROVE  /\ predictions'[i] \in Seq(PredictionType) /\ Len(predictions'[i]) = row
                      /\ \A r \in 1 .. row : Proposed(i, r, predictions'[i][r])
    OBVIOUS
  <2> DEFINE old == predictions[i]
             p == PredictionOf(i)
  <2>1. old \in Seq(PredictionType) /\ Len(old) = row - 1
        /\ \A r \in 1 .. Len(old) : Proposed(i, r, old[r])
    BY <1>1, <1>2 DEF EvaluationInvariant, PredictionsBacked, InRow
  <2>2. p \in PredictionType /\ Proposed(i, row, p)
    BY <1>1, PredictionProposed
  <2>3. predictions'[i] = Append(old, p)
    BY <1>1
  <2> HIDE DEF old, p
  <2>4. /\ Append(old, p) \in Seq(PredictionType) /\ Len(Append(old, p)) = row
        /\ Append(old, p)[row] = p
        /\ \A r \in 1 .. Len(old) : Append(old, p)[r] = old[r]
    BY <1>2, <2>1, <2>2, AppendProperties
  <2>5. ASSUME NEW r \in 1 .. row PROVE Proposed(i, r, Append(old, p)[r])
    <3>1. CASE r = row
      BY <2>2, <2>4, <3>1
    <3>2. CASE r # row
      <4>1. r \in 1 .. Len(old)
        BY <1>2, <2>1, <3>2
      <4> QED
        BY <2>1, <2>4, <4>1
    <3> QED
      BY <3>1, <3>2
  <2> QED
    BY <2>3, <2>4, <2>5
<1>5. EvaluationType'
  <2>1. predictions' \in [DOMAIN Pairs -> Seq(PredictionType)]
    BY <1>1, <1>4
  <2>2. results' \in [Positions -> Result]
    BY <1>1, NothingObtained
  <2>3. "status" \in DOMAIN evaluation'
    BY <1>1, SyncedHasStatus
  <2>4. AtPosition' => pos' \in Positions
    BY <1>2, <1>3 DEF AtPosition, Positions
  <2> QED
    BY <1>1, <1>3, <2>1, <2>2, <2>3, <2>4, PlanKept DEF EvaluationInvariant, EvaluationType
<1>6. RowsAreAnswers' /\ CacheIsAnswers'
  BY <1>1, RowsKept, CacheKept DEF EvaluationInvariant
<1>7. MemoBacked' /\ ResultsBacked'
  <2>1. \A q \in Positions' : results'[q].failed
    BY <1>1, PlanKept, NothingObtained, ResultTypes
  <2> QED
    BY <1>1, <2>1 DEF MemoBacked, ResultsBacked
<1>8. PredictionsBacked'
  <2>1. InRow' => proc' = "lookup"
    BY <1>3 DEF InRow, AtPosition
  <2>2. proc' = "lookup" => row = row' - 1
    BY <1>2, <1>3
  <2>3. \A i, r, p : Proposed(i, r, p)' <=> Proposed(i, r, p)
    BY <1>1, ProposedKept
  <2> QED
    BY <1>1, <1>3, <1>4, <2>1, <2>2, <2>3, PlanKept DEF PredictionsBacked
<1>9. ReportBacked'
  BY <1>1, NoReport, ReportKept DEF EvaluationInvariant
<1>10. InFlight' /\ Afresh' /\ touched' \in Extras'
  BY <1>1, <1>3 DEF InFlight, Afresh, Extras
<1> QED
  BY <1>5, <1>6, <1>7, <1>8, <1>9, <1>10 DEF EvaluationInvariant

\* A process that has ended holds nothing.
LEMMA EndedKept ==
  ASSUME EvaluationInvariant, proc' = "down", Forgotten, "status" \in DOMAIN evaluation',
         UNCHANGED <<plan, inferences, runs, cache>>, ReportBacked'
  PROVE  EvaluationInvariant'
<1>1. /\ row' = 1 /\ pos' = 1 /\ results' = NoResults /\ memo' = {} /\ touched' = FALSE
      /\ call' = NewCall /\ ended' = "open" /\ predictions' = [i \in DOMAIN Pairs |-> <<>>]
  BY DEF Forgotten
<1>2. ~InRow' /\ ~AtPosition' /\ Pairs' = Pairs
  BY PlanKept DEF InRow, AtPosition
<1>3. EvaluationType'
  <2>1. 1 \in 1 .. Len(plan.examples) /\ 1 \in 0 .. Analyzers + Len(Pairs)
    BY PlanFacts DEF EvaluationInvariant, EvaluationType
  <2>2. "open" \in Words /\ <<>> \in Seq(PredictionType)
    BY EmptySeq DEF Words
  <2>3. predictions' \in [DOMAIN Pairs -> Seq(PredictionType)]
    BY <1>1, <2>2
  <2> QED
    BY <1>1, <1>2, <2>1, <2>2, <2>3, PlanKept, NothingObtained, ModesAllowed
    DEF EvaluationInvariant, EvaluationType
<1>4. RowsAreAnswers' /\ CacheIsAnswers'
  BY RowsKept, CacheKept DEF EvaluationInvariant
<1>5. PredictionsBacked'
  <2>1. \A i \in DOMAIN Pairs : Len(predictions'[i]) = 0 /\ 1 .. Len(predictions'[i]) = {}
    BY <1>1, EmptySeq
  <2> QED
    BY <1>2, <2>1 DEF PredictionsBacked
<1>6. InFlight' /\ Afresh' /\ touched' \in Extras'
  BY <1>1, PlanKept DEF InFlight, Afresh, Extras
<1> QED
  BY <1>2, <1>3, <1>4, <1>5, <1>6 DEF EvaluationInvariant

LEMMA StopKept ==
  ASSUME EvaluationInvariant, Stop
  PROVE  EvaluationInvariant'
<1> DEFINE status == IF failure = "budget_exhausted" THEN "budget_stopped" ELSE "paused"
<1>1. /\ proc # "down" /\ proc' = "down" /\ Forgotten /\ report' = report
      /\ UNCHANGED <<plan, inferences, runs, cache>>
      /\ evaluation' = [Synced EXCEPT !.status = status]
  BY DEF Stop
<1>2. "status" \in DOMAIN evaluation'
  BY <1>1, SyncedHasStatus
<1>3. ReportBacked'
  BY <1>1, NoReport, ReportKept DEF EvaluationInvariant
<1> QED
  BY <1>1, <1>2, <1>3, EndedKept

LEMMA CrashKept ==
  ASSUME EvaluationInvariant, Crash
  PROVE  EvaluationInvariant'
<1>1. /\ proc # "down" /\ proc' = "down" /\ Forgotten /\ report' = report
      /\ UNCHANGED <<plan, inferences, runs, cache, evaluation>>
  BY DEF Crash, database
<1>2. "status" \in DOMAIN evaluation'
  BY <1>1 DEF EvaluationInvariant, EvaluationType
<1>3. ReportBacked'
  BY <1>1, NoReport, ReportKept DEF EvaluationInvariant
<1> QED
  BY <1>1, <1>2, <1>3, EndedKept

LEMMA ReportKeepsInvariant ==
  ASSUME EvaluationInvariant, Report
  PROVE  EvaluationInvariant'
<1> DEFINE summaries == [i \in DOMAIN Pairs |-> Summary(plan.examples, predictions[i])]
           doubtful == [i \in DOMAIN Pairs |-> PolicyFailures(plan.examples, predictions[i])]
           synced == [Synced EXCEPT !.status = "complete"]
           done == Len(plan.examples)
<1>1. /\ proc = "report" /\ proc' = "down" /\ Forgotten
      /\ report' = [rows |-> predictions, selected |-> Recommended(summaries),
                    doubtful |-> doubtful]
      /\ evaluation' = [synced EXCEPT !.checkpoint = done]
      /\ UNCHANGED <<plan, inferences, runs, cache>>
  BY DEF Report
<1>2. /\ "status" \in DOMAIN evaluation' /\ evaluation'.status = "complete"
  <2>1. "status" \in DOMAIN Synced
    BY SyncedHasStatus
  <2>2. "status" \in DOMAIN synced /\ synced.status = "complete"
    BY <2>1
  <2> HIDE DEF synced, done
  <2> QED
    BY <1>1, <2>2
<1>3. /\ predictions \in [DOMAIN Pairs -> Seq(PredictionType)]
      /\ \A i \in DOMAIN Pairs :
           /\ Len(predictions[i]) = Len(plan.examples)
           /\ \A r \in 1 .. Len(predictions[i]) : Proposed(i, r, predictions[i][r])
  BY <1>1 DEF EvaluationInvariant, EvaluationType, PredictionsBacked
<1>4. report'.rows = predictions /\ report'.selected = Recommended(summaries)
      /\ report'.doubtful = doubtful
  <2> HIDE DEF summaries, doubtful
  <2> QED
    BY <1>1
<1>5. ReportBacked'
  <2>1. /\ report'.selected = Recommended([i \in DOMAIN Pairs |->
                                             Summary(plan.examples, report'.rows[i])])
        /\ report'.doubtful = [i \in DOMAIN Pairs |->
                                 PolicyFailures(plan.examples, report'.rows[i])]
    BY <1>4
  <2>2. \A i, r, p : Proposed(i, r, p)' <=> Proposed(i, r, p)
    BY <1>1, ProposedKept
  <2>3. plan' = plan /\ Pairs' = Pairs
    BY <1>1, PlanKept
  <2> HIDE DEF summaries, doubtful, synced, done
  <2> QED
    BY <1>1, <1>2, <1>3, <1>4, <2>1, <2>2, <2>3 DEF ReportBacked
<1> HIDE DEF summaries, doubtful, synced, done
<1> QED
  BY <1>1, <1>2, <1>5, EndedKept

LEMMA BeginKept ==
  ASSUME EvaluationInvariant, Begin
  PROVE  EvaluationInvariant'
<1>1. /\ proc = "down" /\ proc' = "lookup" /\ evaluation.status # "complete"
      /\ evaluation' = OpenEvaluation
      /\ UNCHANGED <<plan, row, pos, results, memo, touched, call, ended, predictions,
                     inferences, runs, cache, report>>
  BY DEF Begin
<1>2. /\ row = 1 /\ pos = 1 /\ results = NoResults /\ memo = {}
      /\ predictions = [i \in DOMAIN Pairs |-> <<>>]
  BY <1>1 DEF EvaluationInvariant, Afresh
<1>3. "status" \in DOMAIN evaluation'
  <2>1. "status" \in DOMAIN evaluation
    BY DEF EvaluationInvariant, EvaluationType
  <2>2. "status" \in DOMAIN NewEvaluation
    BY DEF NewEvaluation
  <2> QED
    BY <1>1, <2>1, <2>2 DEF OpenEvaluation
<1>4. EvaluationType'
  <2>1. 1 \in Positions
    BY PlanFacts DEF Positions, EvaluationInvariant, EvaluationType
  <2> QED
    BY <1>1, <1>2, <1>3, <2>1, PlanKept DEF EvaluationInvariant, EvaluationType
<1>5. RowsAreAnswers' /\ CacheIsAnswers'
  BY <1>1, RowsKept, CacheKept DEF EvaluationInvariant
<1>6. MemoBacked' /\ ResultsBacked'
  <2>1. \A q \in Positions' : results'[q].failed
    BY <1>1, <1>2, PlanKept, NothingObtained, ResultTypes
  <2> QED
    BY <1>1, <1>2, <2>1 DEF MemoBacked, ResultsBacked
<1>7. PredictionsBacked'
  <2>1. \A i \in DOMAIN Pairs : Len(predictions'[i]) = 0 /\ 1 .. Len(predictions'[i]) = {}
    BY <1>1, <1>2, EmptySeq
  <2> QED
    BY <1>1, <1>2, <2>1, PlanKept DEF PredictionsBacked
<1>8. ReportBacked'
  BY <1>1, NoReport, ReportKept DEF EvaluationInvariant
<1>9. InFlight' /\ Afresh' /\ touched' \in Extras'
  BY <1>1, PlanKept DEF EvaluationInvariant, InFlight, Afresh
<1> QED
  BY <1>4, <1>5, <1>6, <1>7, <1>8, <1>9 DEF EvaluationInvariant
-----------------------------------------------------------------------------
(* The invariant *)

LEMMA EvaluationStarts == Init => EvaluationInvariant
<1> SUFFICES ASSUME Init PROVE EvaluationInvariant
  OBVIOUS
<1>1. /\ plan \in Plans /\ proc = "down" /\ row = 1 /\ pos = 1 /\ results = NoResults
      /\ memo = {} /\ touched = FALSE /\ call = NewCall /\ ended = "open"
      /\ predictions = [i \in DOMAIN Pairs |-> <<>>] /\ evaluation = None
      /\ inferences = <<>> /\ runs = <<>> /\ cache = <<>> /\ report = None
  BY DEF Init
<1>2. ~InRow /\ ~AtPosition
  BY <1>1 DEF InRow, AtPosition
<1>3. EvaluationType
  <2>1. 1 \in 1 .. Len(plan.examples) /\ 1 \in 0 .. Analyzers + Len(Pairs)
    BY <1>1, PlanFacts
  <2>2. "open" \in Words /\ <<>> \in Seq(PredictionType) /\ <<>> \in Seq(Run)
    BY EmptySeq DEF Words
  <2>3. predictions \in [DOMAIN Pairs -> Seq(PredictionType)]
    BY <1>1, <2>2
  <2>4. "status" \in DOMAIN evaluation
    BY <1>1 DEF None
  <2> QED
    BY <1>1, <1>2, <2>1, <2>2, <2>3, <2>4, NothingObtained, ModesAllowed DEF EvaluationType
<1>4. RowsAreAnswers /\ CacheIsAnswers
  <2>1. DOMAIN inferences = {} /\ DOMAIN cache = {}
    BY <1>1
  <2> QED
    BY <2>1 DEF RowsAreAnswers, CacheIsAnswers, RefreshLeavesOneAnswer
<1>5. PredictionsBacked
  <2>1. \A i \in DOMAIN Pairs : Len(predictions[i]) = 0 /\ 1 .. Len(predictions[i]) = {}
    BY <1>1, EmptySeq
  <2> QED
    BY <1>1, <1>2, <2>1 DEF PredictionsBacked
<1>6. InFlight /\ Afresh /\ ReportBacked /\ touched \in Extras
  BY <1>1 DEF InFlight, Afresh, ReportBacked, Extras
<1> QED
  BY <1>2, <1>3, <1>4, <1>5, <1>6 DEF EvaluationInvariant

LEMMA EvaluationStutters ==
  ASSUME EvaluationInvariant, UNCHANGED vars
  PROVE  EvaluationInvariant'
<1>1. UNCHANGED <<plan, proc, row, pos, results, memo, routes, touched, asked, call, ended,
                  predictions, evaluation, inferences, runs, cache, report>>
  BY DEF vars, memory, database
<1>2. (AtPosition' <=> AtPosition) /\ (InRow' <=> InRow)
  BY <1>1 DEF AtPosition, InRow
<1>3. EvaluationType'
  BY <1>1, <1>2, PlanKept DEF EvaluationInvariant, EvaluationType
<1>4. RowsAreAnswers' /\ CacheIsAnswers'
  BY <1>1, RowsKept, CacheKept DEF EvaluationInvariant
<1>5. InRow' => MemoBacked' /\ ResultsBacked'
  BY <1>1, <1>2, MemoKept, ResultsKept DEF EvaluationInvariant
<1>6. InFlight'
  <2>1. /\ Asked(pos)' <=> Asked(pos)
        /\ InferenceId(pos)' = InferenceId(pos)
        /\ QuestionsOf(InferenceId(pos))' = QuestionsOf(InferenceId(pos))
    BY <1>1, PlanKept, RowKept, MemoizedKept DEF Asked
  <2> QED
    BY <1>1, <2>1, BackedKept DEF EvaluationInvariant, InFlight
<1>7. PredictionsBacked'
  BY <1>1, <1>2, PlanKept, ProposedKept DEF EvaluationInvariant, PredictionsBacked
<1>8. ReportBacked'
  BY <1>1, PlanKept, ProposedKept DEF EvaluationInvariant, ReportBacked
<1>9. Afresh' /\ touched' \in Extras'
  BY <1>1, PlanKept DEF EvaluationInvariant, Afresh
<1> QED
  BY <1>3, <1>4, <1>5, <1>6, <1>7, <1>8, <1>9 DEF EvaluationInvariant

LEMMA EvaluationStep == EvaluationInvariant /\ [Next]_vars => EvaluationInvariant'
<1> SUFFICES ASSUME EvaluationInvariant, [Next]_vars PROVE EvaluationInvariant'
  OBVIOUS
<1>1. CASE Begin
  BY <1>1, BeginKept
<1>2. CASE SkipRoute \/ ReuseVerification \/ Resume \/ UseCache \/ Invoke
  BY <1>2, SkipRouteKept, ReuseVerificationKept, ResumeKept, UseCacheKept, InvokeKept
<1>3. CASE StopAtBudget \/ TooLong \/ AttemptFails \/ AttemptAnswered \/ ClassifierAnswers
  BY <1>3, StopAtBudgetKept, TooLongKept, AttemptFailsKept, AttemptAnsweredKept,
     ClassifierAnswersKept
<1>4. CASE StoreMarker \/ StoreFailure \/ StoreResult
  BY <1>4, StoreMarkerKept, StoreFailureKept, StoreResultKept
<1>5. CASE SyncCall \/ SyncHit
  BY <1>5, SyncCallKept, SyncHitKept
<1>6. CASE Judge \/ Report \/ Interrupt \/ Stop \/ Crash
  BY <1>6, JudgeKept, ReportKeepsInvariant, InterruptKept, StopKept, CrashKept
<1>7. CASE UNCHANGED vars
  BY <1>7, EvaluationStutters
<1> QED
  BY <1>1, <1>2, <1>3, <1>4, <1>5, <1>6, <1>7 DEF Next

\* Complete inference rows and cache entries answer their questions, and what a process
\* holds and a report says is what such rows record (get_or_run, run_persistent_matrix).
THEOREM EvaluationInvariantHolds == Spec => []EvaluationInvariant
  BY EvaluationStarts, EvaluationStep, PTL DEF Spec
-----------------------------------------------------------------------------
(* What an evaluation promises *)

\* A complete inference row is an answer to what its position asks, and is resumed.
LEMMA CompleteIsResumed ==
  ASSUME EvaluationInvariant, ~plan.svm, CompletedRun(Question(pos, touched)) = 0
  PROVE  Lookup(inferences, InferenceId(pos)).status # "complete"
<1> DEFINE id == InferenceId(pos)
           question == Question(pos, touched)
<1>1. SUFFICES ASSUME Lookup(inferences, id).status = "complete" PROVE FALSE
  OBVIOUS
<1>2. id \in DOMAIN inferences /\ Lookup(inferences, id) = inferences[id]
  BY <1>1 DEF Lookup, None
<1>3. /\ inferences[id].status = "complete" /\ inferences[id].run \in DOMAIN runs
      /\ runs[inferences[id].run].context \in ContextsOf(id.row)
      /\ \E asking \in QuestionsOf(id) : inferences[id].key \in Keys(asking)
  <2> HIDE DEF id
  <2> QED
    BY <1>1, <1>2 DEF EvaluationInvariant, RowsAreAnswers
<1>4. Extras = {FALSE}
  BY DEF Extras
<1>5. \A x, y \in ContextsOf(row) : x = y
  <2> DEFINE text == plan.examples[row].text
  <2>1. ContextsOf(row) = [text : {text}, extra : {FALSE}]
    BY <1>4 DEF ContextsOf
  <2> HIDE DEF text
  <2>2. ASSUME NEW x \in [text : {text}, extra : {FALSE}], NEW y \in [text : {text}, extra : {FALSE}]
        PROVE  x = y
    <3>1. x.text = y.text /\ x.extra = y.extra
      OBVIOUS
    <3>2. x = [text |-> x.text, extra |-> x.extra] /\ y = [text |-> y.text, extra |-> y.extra]
      OBVIOUS
    <3> QED
      BY <3>1, <3>2
  <2> QED
    BY <2>1, <2>2
<1>6. \A x, y \in QuestionsOf(id) : x = y
  <2>1. id.row = row
    BY DEF InferenceId
  <2> HIDE DEF id
  <2> QED
    BY <1>5, <2>1 DEF QuestionsOf
<1>7. question \in QuestionsOf(id) /\ question.context \in ContextsOf(row) /\ id.row = row
  BY QuestionOfPosition DEF Question, InferenceId
<1>8. inferences[id].key \in Keys(question) /\ runs[inferences[id].run].context = question.context
  <2> HIDE DEF id, question
  <2> QED
    BY <1>3, <1>5, <1>6, <1>7
<1>9. CompletedRun(question) = inferences[id].run
  <2> HIDE DEF question
  <2> QED
    BY <1>2, <1>3, <1>8 DEF CompletedRun
<1>10. inferences[id].run # 0
  BY <1>3, LenProperties DEF EvaluationInvariant, EvaluationType
<1> QED
  BY <1>9, <1>10

\* A model is only asked when no complete inference row answers the question.
LEMMA AskedOnlyOnce ==
  ASSUME EvaluationInvariant, [Next]_vars, proc = "lookup", proc' = "ask", ~plan.svm
  PROVE  Lookup(inferences, InferenceId(pos)).status # "complete"
<1>1. Invoke
  <2>1. \A p, r : StepTo(p, r) => proc' # "ask"
    BY DEF StepTo
  <2>2. ~SkipRoute /\ ~ReuseVerification /\ ~Resume
    BY <2>1 DEF SkipRoute, ReuseVerification, Resume
  <2>3. ~UseCache /\ ~Begin /\ ~Interrupt /\ ~Crash
    BY DEF UseCache, Begin, Interrupt, Crash
  <2>4. ~StopAtBudget /\ ~TooLong /\ ~AttemptFails /\ ~AttemptAnswered /\ ~ClassifierAnswers
    BY DEF StopAtBudget, TooLong, AttemptFails, AttemptAnswered, ClassifierAnswers
  <2>5. ~StoreMarker /\ ~StoreFailure /\ ~StoreResult /\ ~SyncCall /\ ~SyncHit
    BY DEF StoreMarker, StoreFailure, StoreResult, SyncCall, SyncHit
  <2>6. ~Judge /\ ~Report /\ ~Stop /\ ~UNCHANGED vars
    BY DEF Judge, Report, Stop, vars
  <2> QED
    BY <2>2, <2>3, <2>4, <2>5, <2>6 DEF Next
<1>2. CompletedRun(Question(pos, touched)) = 0
  BY <1>1 DEF Invoke
<1> QED
  BY <1>2, CompleteIsResumed

\* A question with a recorded answer is not sent to a model again, whatever kills,
\* interrupts and resumptions lie between (plain analyzers; _completed_run).
THEOREM AnswersArePaidOnce == Spec => PaidOnce
<1>1. EvaluationInvariant /\ [Next]_vars
      => (proc = "lookup" /\ proc' = "ask" /\ ~plan.svm
            => Lookup(inferences, InferenceId(pos)).status # "complete")
  BY AskedOnlyOnce
<1> QED
  BY <1>1, EvaluationInvariantHolds, PTL DEF Spec, PaidOnce

\* After a refresh there is one cached answer to a question (_store_result).
THEOREM RefreshIsComplete == Spec => []RefreshLeavesOneAnswer
<1>1. EvaluationInvariant => RefreshLeavesOneAnswer
  BY DEF EvaluationInvariant, CacheIsAnswers
<1> QED
  BY <1>1, EvaluationInvariantHolds, PTL

\* A backed answer is one of the model and of the text its inference row is for.
LEMMA BackedAnswers ==
  ASSUME EvaluationInvariant, NEW r, NEW model, NEW proposal, NEW output,
         Backed([row |-> r, model |-> model, proposal |-> proposal], output)
  PROVE  LET i == Recorded(r, model, proposal)
         IN  AnswersFor(i, r, model) /\ output = runs[i.run].output
<1> DEFINE id == [row |-> r, model |-> model, proposal |-> proposal]
           i == Recorded(r, model, proposal)
<1>1. id \in DOMAIN inferences /\ inferences[id].status = "complete"
      /\ runs[inferences[id].run].output = output /\ i = inferences[id]
  BY DEF Backed, Recorded, Lookup
<1>2. id.row = r /\ id.model = model
  OBVIOUS
<1> HIDE DEF id, i
<1>3. /\ runs[i.run].ok /\ runs[i.run].model = model
      /\ runs[i.run].context \in ContextsOf(r)
  BY <1>1, <1>2 DEF EvaluationInvariant, RowsAreAnswers
<1>4. runs[i.run].context.text = plan.examples[r].text
  BY <1>3 DEF ContextsOf
<1> QED
  BY <1>1, <1>3, <1>4 DEF AnswersFor, i

LEMMA ReportsAreRecords == EvaluationInvariant => ReportMatchesRecords
<1> SUFFICES ASSUME EvaluationInvariant, report # None,
                    NEW i \in DOMAIN Pairs, NEW r \in DOMAIN plan.examples,
                    report.rows[i][r].valid
             PROVE  LET p == report.rows[i][r]
                        analyzer == <<"analysis", Pairs[i].a>>
                        verifier == <<"verification", Pairs[i].v>>
                        analysis == Recorded(r, analyzer, "")
                        verdict == Recorded(r, verifier, p.output)
                    IN  /\ AnswersFor(analysis, r, analyzer)
                        /\ p.output = runs[analysis.run].output
                        /\ p.output # "none" => /\ AnswersFor(verdict, r, verifier)
                                                /\ p.decision = runs[verdict.run].output
  BY DEF ReportMatchesRecords
<1> DEFINE p == report.rows[i][r]
<1>1. r \in 1 .. Len(report.rows[i])
  <2>1. DOMAIN plan.examples = 1 .. Len(plan.examples)
    BY PlanFacts, LenProperties DEF EvaluationInvariant, EvaluationType
  <2> QED
    BY <2>1 DEF EvaluationInvariant, ReportBacked
<1>2. Proposed(i, r, p)
  BY <1>1 DEF EvaluationInvariant, ReportBacked
<1>3. p.valid
  OBVIOUS
<1> HIDE DEF p
<1>4. /\ Backed([row |-> r, model |-> <<"analysis", Pairs[i].a>>, proposal |-> ""], p.output)
      /\ p.output # "none" =>
           Backed([row |-> r, model |-> <<"verification", Pairs[i].v>>, proposal |-> p.output],
                  p.decision)
  BY <1>2, <1>3 DEF Proposed
<1>5. LET analysis == Recorded(r, <<"analysis", Pairs[i].a>>, "")
      IN  AnswersFor(analysis, r, <<"analysis", Pairs[i].a>>)
          /\ p.output = runs[analysis.run].output
  BY <1>4, BackedAnswers
<1>6. p.output # "none" =>
        LET verdict == Recorded(r, <<"verification", Pairs[i].v>>, p.output)
        IN  AnswersFor(verdict, r, <<"verification", Pairs[i].v>>)
            /\ p.decision = runs[verdict.run].output
  BY <1>4, BackedAnswers
<1> QED
  BY <1>5, <1>6 DEF p

\* What a report says of a pair is what the committed runs of its models answered.
THEOREM ReportsRestOnRecords == Spec => []ReportMatchesRecords
  BY ReportsAreRecords, EvaluationInvariantHolds, PTL

\* Whoever executed the wrong operation has an unsafe row.
LEMMA UnsafeIsCounted ==
  ASSUME NEW examples \in Seq(LabelledExamples), NEW rows \in Seq(PredictionType),
         Len(rows) = Len(examples), NEW r \in DOMAIN examples,
         examples[r].scored, rows[r].decision = "AUTO_EXECUTE",
         ~(examples[r].expects /\ rows[r].output = "right")
  PROVE  /\ ~Eligible(Summary(examples, rows))
         /\ r \in PolicyFailures(examples, rows)
<1> DEFINE p == rows[r]
           example == examples[r]
<1>1. /\ DOMAIN examples = 1 .. Len(examples) /\ Len(examples) \in Nat
      /\ DOMAIN rows = DOMAIN examples
  BY LenProperties
<1>2. p \in PredictionType
  BY <1>1, ElementOfSeq
<1>3. UnsafeAutoExecute(example, p)
  BY DEF UnsafeAutoExecute, AutoExecutes, JointMatch
<1>4. UnsafeAutoExecute(example, Normalized(p))
  <2>1. Normalized(p).decision = p.decision /\ Normalized(p).output = p.output
    <3> HIDE DEF p
    <3> QED
      BY <1>2 DEF Normalized, PredictionType
  <2> QED
    BY <2>1 DEF UnsafeAutoExecute, AutoExecutes, JointMatch
<1>5. r \in PolicyFailures(examples, rows)
  BY <1>3 DEF PolicyFailures
<1>6. ~Eligible(Summary(examples, rows))
  <2> DEFINE normal == [i \in DOMAIN examples |-> Normalized(rows[i])]
             Scored == {i \in DOMAIN examples : examples[i].scored}
             unsafe == {i \in Scored : UnsafeAutoExecute(examples[i], normal[i])}
  <2>1. r \in unsafe
    BY <1>4
  <2>2. unsafe \subseteq 1 .. Len(examples)
    BY <1>1
  <2>3. IsFiniteSet(1 .. Len(examples))
    BY <1>1, FS_Interval
  <2>4. IsFiniteSet(unsafe)
    <3> HIDE DEF unsafe
    <3> QED
      BY <2>2, <2>3, FS_Subset
  <2>5. Cardinality(unsafe) # 0
    <3> HIDE DEF unsafe
    <3> QED
      BY <2>1, <2>4, FS_EmptySet
  <2>6. Summary(examples, rows).unsafe = Cardinality(unsafe)
    BY DEF Summary
  <2> HIDE DEF unsafe
  <2> QED
    BY <2>5, <2>6 DEF Eligible
<1> QED
  BY <1>5, <1>6

LEMMA RecommendationIsSafe == EvaluationInvariant => RecommendedIsSafe
<1> SUFFICES ASSUME EvaluationInvariant, report # None,
                    NEW i \in DOMAIN Pairs, NEW r \in DOMAIN plan.examples,
                    plan.examples[r].scored, report.rows[i][r].decision = "AUTO_EXECUTE",
                    ~(plan.examples[r].expects /\ report.rows[i][r].output = "right")
             PROVE  i \notin report.selected /\ r \in report.doubtful[i]
  BY DEF RecommendedIsSafe
<1> DEFINE rows == report.rows[i]
           summaries == [j \in DOMAIN Pairs |-> Summary(plan.examples, report.rows[j])]
<1>1. /\ rows \in Seq(PredictionType) /\ Len(rows) = Len(plan.examples)
      /\ report.selected = Recommended(summaries)
      /\ report.doubtful[i] = PolicyFailures(plan.examples, rows)
  BY DEF EvaluationInvariant, ReportBacked
<1>2. plan.examples \in Seq(LabelledExamples)
  BY PlanFacts DEF EvaluationInvariant, EvaluationType
<1>3. ~Eligible(Summary(plan.examples, rows)) /\ r \in PolicyFailures(plan.examples, rows)
  <2>1. rows[r].decision = "AUTO_EXECUTE"
        /\ ~(plan.examples[r].expects /\ rows[r].output = "right")
    OBVIOUS
  <2> HIDE DEF rows
  <2> QED
    BY <1>1, <1>2, <2>1, UnsafeIsCounted
<1>4. summaries[i] = Summary(plan.examples, rows) /\ DOMAIN summaries = DOMAIN Pairs
  OBVIOUS
<1> HIDE DEF summaries, rows
<1>5. i \notin Recommended(summaries)
  BY <1>3, <1>4 DEF Recommended
<1> QED
  BY <1>1, <1>3, <1>5

\* A pair that executed a wrong operation on a scored example is not recommended, and the
\* example is listed against it (compare_runs, _failure_attribution).
THEOREM NoWrongPairIsRecommended == Spec => []RecommendedIsSafe
  BY RecommendationIsSafe, EvaluationInvariantHolds, PTL
-----------------------------------------------------------------------------
(* What an evaluation spends *)

\* The endpoint has a budget, and no classifier stands in front of it.
Budgeted == Backend.tracked /\ ~plan.svm

\* Every run is filed as an attempt of an inference row, under which a cache hit is not
\* counted; a row that is not complete has failed attempts only.
AttemptsFiled ==
  /\ \A id \in DOMAIN inferences :
       LET i == inferences[id]
       IN  /\ i.attempts \subseteq DOMAIN runs
           /\ i.status # "complete" => ~i.hit /\ \A n \in i.attempts : ~runs[n].ok
           /\ IF i.hit THEN i.run \notin i.attempts ELSE i.run = 0 \/ i.run \in i.attempts
  /\ \A n \in DOMAIN runs : \E id \in DOMAIN inferences : n \in inferences[id].attempts

\* What the runs are known to have cost, and the call that is not stored yet.
Spend == SumFunction(KnownCosts)
Pending == IF proc \in {"ask", "store"} THEN call.cost ELSE 0

\* The tracker counts all of it, and what is on record never passes the stop.
Accounts ==
  /\ call.cost \in Nat /\ "cost" \in DOMAIN tracker /\ tracker.cost \in 0 .. plan.stop
  /\ Spend \in 0 .. plan.stop
  /\ proc # "down" => evaluation # None /\ Spend + Pending <= tracker.cost
  /\ evaluation = None => runs = <<>>
  /\ evaluation # None => "cost" \in DOMAIN evaluation /\ evaluation.cost \in 0 .. plan.stop

BudgetInvariant ==
  Budgeted =>
    /\ AttemptsFiled /\ Accounts
    /\ proc \in {"ask", "store"} => Lookup(inferences, InferenceId(pos)).status # "complete"

\* One more run costs what is known of its cost.
LEMMA SpendGrows ==
  ASSUME runs \in Seq(Run), NEW run \in Run, runs' = Append(runs, run)
  PROVE  Spend' = Spend + (IF run.cost = NoCost THEN 0 ELSE run.cost)
<1> DEFINE n == Len(runs) + 1
           f == KnownCosts
           g == KnownCosts'
           cost == IF run.cost = NoCost THEN 0 ELSE run.cost
<1>1. /\ Len(runs) \in Nat /\ DOMAIN runs = 1 .. Len(runs) /\ DOMAIN runs' = 1 .. n
      /\ runs'[n] = run /\ \A i \in DOMAIN runs : runs'[i] = runs[i] /\ runs[i] \in Run
  BY AppendProperties, LenProperties, ElementOfSeq
<1>2. DOMAIN f = 1 .. Len(runs) /\ DOMAIN g = 1 .. n
  BY <1>1 DEF KnownCosts
<1>3. g[n] = cost /\ \A i \in 1 .. Len(runs) : f[i] = g[i] /\ g[i] \in Int
  <2>1. \A x \in Run : x.cost \in Int
    BY DEF Run
  <2>2. n \in 1 .. n
    BY <1>1
  <2> QED
    BY <1>1, <2>1, <2>2 DEF KnownCosts
<1>4. cost \in Int
  BY DEF Run
<1>5. Spend = SumFunctionOnSet(f, 1 .. Len(runs)) /\ Spend' = SumFunctionOnSet(g, 1 .. n)
  BY <1>2 DEF Spend, SumFunction
<1> HIDE DEF f, g, cost
<1>6. /\ n \in 1 .. n /\ (1 .. n) \ {n} = 1 .. Len(runs)
      /\ Summable(g, 1 .. n) /\ Summable(f, 1 .. Len(runs))
  <2>1. IsFiniteSet(1 .. n) /\ IsFiniteSet(1 .. Len(runs))
    BY <1>1, FS_Interval
  <2>2. n \in 1 .. n /\ (1 .. n) \ {n} = 1 .. Len(runs)
    BY <1>1
  <2>3. \A i \in 1 .. n : g[i] \in Int
    BY <1>3, <1>4, <2>2
  <2> QED
    BY <1>3, <2>1, <2>2, <2>3 DEF Summable
<1>7. SumFunctionOnSet(f, 1 .. Len(runs)) = SumFunctionOnSet(g, 1 .. Len(runs))
  BY <1>3, <1>6, SumSame
<1>8. SumFunctionOnSet(g, 1 .. n) = g[n] + SumFunctionOnSet(g, (1 .. n) \ {n})
  <2> HIDE DEF n
  <2> QED
    BY <1>6, SumTakesOut
<1>9. SumFunctionOnSet(g, 1 .. Len(runs)) \in Int
  BY <1>6, SumIsSum, SumSame, <1>7
<1>10. SumFunctionOnSet(g, 1 .. n) = cost + SumFunctionOnSet(g, 1 .. Len(runs))
  <2> HIDE DEF n
  <2> QED
    BY <1>3, <1>6, <1>8
<1>11. Spend' = Spend + cost
  <2> HIDE DEF n
  <2> QED
    BY <1>4, <1>5, <1>7, <1>9, <1>10
<1> QED
  BY <1>11 DEF cost

\* What is filed stays filed while nothing is stored.
LEMMA FiledKept ==
  ASSUME inferences' = inferences, runs' = runs
  PROVE  AttemptsFiled' = AttemptsFiled /\ Spend' = Spend
BY DEF AttemptsFiled, Spend, KnownCosts

\* Whether there is a budget is decided with the evaluation.
LEMMA BudgetedKept ==
  ASSUME plan' = plan
  PROVE  Budgeted' = Budgeted
BY DEF Budgeted, Backend

\* Steps between the calls.
LEMMA BudgetIdle ==
  ASSUME EvaluationInvariant, BudgetInvariant, Budgeted, UNCHANGED <<plan, inferences, runs>>, call'.cost \in Nat,
         proc' \notin {"ask", "store"}, proc' # "down" => proc # "down",
         \/ tracker' = tracker
         \/ proc' = "down" /\ tracker' = NewTracker,
         \/ evaluation' = evaluation
         \/ /\ proc # "down"
            /\ "cost" \in DOMAIN evaluation' /\ evaluation'.cost = tracker.cost
  PROVE  BudgetInvariant'
<1>1. AttemptsFiled /\ Accounts
  BY DEF BudgetInvariant
<1>2. Budgeted' /\ AttemptsFiled' /\ Spend' = Spend /\ plan'.stop = plan.stop /\ plan.stop \in Nat
  <2>1. plan.stop \in Nat
    BY PlansAssumption DEF EvaluationInvariant, EvaluationType
  <2> QED
    BY <1>1, <2>1, FiledKept, BudgetedKept
<1>3. "cost" \in DOMAIN tracker' /\ tracker'.cost \in 0 .. plan.stop
  BY <1>1, <1>2 DEF Accounts, NewTracker
<1>4. proc' # "down" => evaluation' # None /\ Spend' + Pending' <= tracker'.cost
  <2> SUFFICES ASSUME proc' # "down"
               PROVE  evaluation' # None /\ Spend' + Pending' <= tracker'.cost
    OBVIOUS
  <2>1. tracker' = tracker /\ proc # "down" /\ Pending' = 0
    BY DEF Pending
  <2>2. Pending \in Nat
    BY <1>1 DEF Pending, Accounts
  <2>3. evaluation' # None
    BY <1>1, <2>1 DEF Accounts, None
  <2> QED
    BY <1>1, <1>2, <2>1, <2>2, <2>3 DEF Accounts
<1>5. /\ evaluation' = None => runs' = <<>>
      /\ evaluation' # None => "cost" \in DOMAIN evaluation' /\ evaluation'.cost \in 0 .. plan.stop
  BY <1>1 DEF Accounts, None
<1> QED
  BY <1>1, <1>2, <1>3, <1>4, <1>5 DEF BudgetInvariant, Accounts

\* The evaluation row is given the cost of the tracker.
LEMMA SyncedCost ==
  ASSUME NEW e, "cost" \in DOMAIN evaluation,
         \/ e = Synced
         \/ \E s : e = [Synced EXCEPT !.status = s]
         \/ \E c : e = [Synced EXCEPT !.checkpoint = c]
         \/ \E s, c : e = [Synced EXCEPT !.status = s, !.checkpoint = c]
  PROVE  "cost" \in DOMAIN e /\ e.cost = tracker.cost
<1>1. "cost" \in DOMAIN Synced /\ Synced.cost = tracker.cost
  BY DEF Synced
<1> DEFINE y == Synced
<1> HIDE DEF y
<1>2. ASSUME NEW x, "cost" \in DOMAIN x, NEW s
      PROVE  /\ "cost" \in DOMAIN [x EXCEPT !.status = s] /\ [x EXCEPT !.status = s].cost = x.cost
             /\ "cost" \in DOMAIN [x EXCEPT !.checkpoint = s]
             /\ [x EXCEPT !.checkpoint = s].cost = x.cost
  BY <1>2
<1>3. \A x, s, c : [x EXCEPT !.status = s, !.checkpoint = c]
                     = [[x EXCEPT !.status = s] EXCEPT !.checkpoint = c]
  OBVIOUS
<1>4. CASE e = Synced
  BY <1>1, <1>4
<1>5. CASE \E s : e = [Synced EXCEPT !.status = s]
  BY <1>1, <1>2, <1>5
<1>6. CASE \E c : e = [Synced EXCEPT !.checkpoint = c]
  BY <1>1, <1>2, <1>6
<1>7. CASE \E s, c : e = [Synced EXCEPT !.status = s, !.checkpoint = c]
  <2>1. PICK s, c : e = [Synced EXCEPT !.status = s, !.checkpoint = c]
    BY <1>7
  <2> DEFINE stopped == [Synced EXCEPT !.status = s]
  <2>2. "cost" \in DOMAIN stopped /\ stopped.cost = tracker.cost
    BY <1>1, <1>2
  <2>3. e = [stopped EXCEPT !.checkpoint = c]
    BY <1>3, <2>1
  <2> HIDE DEF stopped
  <2> QED
    BY <1>2, <2>2, <2>3
<1> QED
  BY <1>4, <1>5, <1>6, <1>7

\* The steps of a row and of the process between the calls.
LEMMA RowSteps ==
  ASSUME EvaluationInvariant, BudgetInvariant, Budgeted,
         SkipRoute \/ ReuseVerification \/ Resume \/ SyncCall \/ SyncHit \/ Judge
  PROVE  BudgetInvariant'
<1>1. Accounts
  BY DEF BudgetInvariant
<1>2. proc # "down" => "cost" \in DOMAIN evaluation
  BY <1>1 DEF Accounts
<1>3. \A p, r : StepTo(p, r) => proc' \in {"judge", "lookup"}
  BY DEF StepTo
<1>4. CASE SkipRoute \/ ReuseVerification \/ Resume
  <2>1. /\ proc = "lookup" /\ UNCHANGED <<plan, call, tracker, database>>
        /\ \E p, r : StepTo(p, r)
    BY <1>4 DEF SkipRoute, ReuseVerification, Resume
  <2> QED
    BY <1>1, <1>3, <2>1, BudgetIdle DEF database, Accounts
<1>5. CASE SyncCall
  <2>1. proc = "sync" /\ evaluation' = Synced /\ UNCHANGED <<plan, call, tracker, inferences, runs>>
    BY <1>5 DEF SyncCall
  <2>2. proc' \in {"judge", "lookup", "stop"}
    BY <1>3, <1>5 DEF SyncCall
  <2> QED
    BY <1>1, <1>2, <2>1, <2>2, SyncedCost, BudgetIdle DEF Accounts
<1>6. CASE SyncHit
  <2>1. /\ proc = "reuse" /\ evaluation' = Synced
        /\ UNCHANGED <<plan, call, tracker, inferences, runs>>
    BY <1>6 DEF SyncHit
  <2>2. proc' \in {"judge", "lookup"}
    BY <1>3, <1>6 DEF SyncHit
  <2> QED
    BY <1>1, <1>2, <2>1, <2>2, SyncedCost, BudgetIdle DEF Accounts
<1>7. CASE Judge
  <2>1. /\ proc = "judge" /\ evaluation' = [Synced EXCEPT !.checkpoint = row]
        /\ proc' \in {"lookup", "report"} /\ UNCHANGED <<plan, call, tracker, inferences, runs>>
    BY <1>7 DEF Judge
  <2> QED
    BY <1>1, <1>2, <2>1, SyncedCost, BudgetIdle DEF Accounts
<1> QED
  BY <1>4, <1>5, <1>6, <1>7

LEMMA EndSteps ==
  ASSUME EvaluationInvariant, BudgetInvariant, Budgeted,
         Report \/ Interrupt \/ Stop \/ Crash
  PROVE  BudgetInvariant'
<1>1. Accounts
  BY DEF BudgetInvariant
<1>2. proc # "down" => "cost" \in DOMAIN evaluation
  BY <1>1 DEF Accounts
<1>3. Forgotten => tracker' = NewTracker /\ call'.cost \in Nat
  BY DEF Forgotten, NewCall
<1>4. CASE Report
  <2>1. /\ proc = "report" /\ proc' = "down" /\ Forgotten /\ UNCHANGED <<plan, inferences, runs>>
        /\ evaluation' = [Synced EXCEPT !.status = "complete", !.checkpoint = Len(plan.examples)]
    BY <1>4 DEF Report
  <2>2. "cost" \in DOMAIN evaluation' /\ evaluation'.cost = tracker.cost
    BY <1>2, <2>1, SyncedCost
  <2> QED
    BY <1>3, <2>1, <2>2, BudgetIdle
<1>5. CASE Interrupt
  <2>1. proc # "down" /\ proc' = "stop" /\ UNCHANGED <<plan, call, tracker, database>>
    BY <1>5 DEF Interrupt
  <2> QED
    BY <1>1, <2>1, BudgetIdle DEF database, Accounts
<1>6. CASE Stop
  <2>1. /\ proc = "stop" /\ proc' = "down" /\ Forgotten /\ UNCHANGED <<plan, inferences, runs>>
        /\ \E s : evaluation' = [Synced EXCEPT !.status = s]
    BY <1>6 DEF Stop
  <2>2. "cost" \in DOMAIN evaluation' /\ evaluation'.cost = tracker.cost
    BY <1>2, <2>1, SyncedCost
  <2> QED
    BY <1>3, <2>1, <2>2, BudgetIdle
<1>7. CASE Crash
  <2>1. proc' = "down" /\ Forgotten /\ UNCHANGED <<plan, database>>
    BY <1>7 DEF Crash
  <2> QED
    BY <1>3, <2>1, BudgetIdle DEF database
<1> QED
  BY <1>4, <1>5, <1>6, <1>7

\* A step within a call: the tracker counts what the call counts, before the stop.
LEMMA AskingAccounts ==
  ASSUME EvaluationInvariant, BudgetInvariant, Budgeted,
         UNCHANGED <<plan, row, pos, results, inferences, runs, evaluation>>,
         Lookup(inferences, InferenceId(pos)).status # "complete",
         proc # "down", proc' \in {"ask", "store"},
         NEW d \in Nat, "cost" \in DOMAIN tracker', tracker'.cost = tracker.cost + d,
         tracker.cost + d <= plan.stop,
         call'.cost \in Nat, call'.cost <= Pending + d
  PROVE  BudgetInvariant'
<1>1. AttemptsFiled /\ Accounts
  BY DEF BudgetInvariant
<1>2. Budgeted' /\ AttemptsFiled' /\ Spend' = Spend /\ plan'.stop = plan.stop /\ plan.stop \in Nat
  <2>1. plan.stop \in Nat
    BY PlansAssumption DEF EvaluationInvariant, EvaluationType
  <2> QED
    BY <1>1, <2>1, FiledKept, BudgetedKept
<1>3. tracker.cost \in Nat /\ Spend \in Nat /\ Pending \in Nat /\ Spend + Pending <= tracker.cost
  BY <1>1, <1>2 DEF Accounts, Pending
<1>4. Pending' = call'.cost
  BY DEF Pending
<1>5. tracker'.cost \in 0 .. plan.stop /\ Spend' + Pending' <= tracker'.cost
  BY <1>2, <1>3, <1>4
<1>6. Accounts'
  BY <1>1, <1>2, <1>5 DEF Accounts, None
<1>7. InferenceId(pos)' = InferenceId(pos)
  BY RowKept
<1> QED
  BY <1>1, <1>2, <1>6, <1>7 DEF BudgetInvariant, Lookup

LEMMA InvokeAccounts ==
  ASSUME EvaluationInvariant, BudgetInvariant, Budgeted, Invoke
  PROVE  BudgetInvariant'
<1>1. /\ proc = "lookup" /\ proc' = "ask" /\ call' = NewCall
      /\ CompletedRun(Question(pos, touched)) = 0
      /\ UNCHANGED <<plan, row, pos, results, inferences, runs, evaluation, tracker>>
  BY DEF Invoke, database
<1>2. Lookup(inferences, InferenceId(pos)).status # "complete"
  BY <1>1, CompleteIsResumed DEF Budgeted
<1>3. /\ "cost" \in DOMAIN tracker /\ tracker.cost \in Nat /\ tracker.cost <= plan.stop
  BY DEF BudgetInvariant, Accounts
<1>4. Pending = 0
  BY <1>1 DEF Pending
<1>5. call'.cost = 0
  BY <1>1 DEF NewCall
<1>6. tracker'.cost = tracker.cost + 0 /\ call'.cost <= Pending + 0 /\ tracker.cost + 0 <= plan.stop
      /\ call'.cost \in Nat
  BY <1>1, <1>3, <1>4, <1>5
<1> QED
  BY <1>1, <1>2, <1>3, <1>6, AskingAccounts

\* What the bookkeeping of an attempt does to the cost of the call and of the tracker.
LEMMA CallCosts ==
  ASSUME NEW c \in CallType
  PROVE  /\ Attempted(c).cost = c.cost /\ PostEnded(c).cost = c.cost
         /\ \A cost : Charged(c, cost).cost = IF cost = NoCost THEN c.cost ELSE c.cost + cost
         /\ [c EXCEPT !.parsed = @ + 1].cost = c.cost
         /\ WeakerMode(c).cost = c.cost /\ AfterMalformed(c).cost = c.cost
<1>1. Attempted(c).cost = c.cost
  BY DEF Attempted, CallType
<1>2. PostEnded(c).cost = c.cost /\ "cost" \in DOMAIN PostEnded(c)
  BY DEF PostEnded, CallType
<1>3. \A cost : Charged(c, cost).cost = IF cost = NoCost THEN c.cost ELSE c.cost + cost
  BY <1>2 DEF Charged
<1>4. [c EXCEPT !.parsed = @ + 1].cost = c.cost
  BY DEF CallType
<1>5. WeakerMode(c).cost = c.cost
  BY DEF WeakerMode, CallType
<1>6. AfterMalformed(c).cost = c.cost
  BY <1>5 DEF AfterMalformed, CallType
<1> QED
  BY <1>1, <1>2, <1>3, <1>4, <1>5, <1>6

LEMMA TrackerCosts ==
  ASSUME "cost" \in DOMAIN tracker
  PROVE  /\ "cost" \in DOMAIN RecordAttempt(tracker) /\ RecordAttempt(tracker).cost = tracker.cost
         /\ \A cost : LET new == RecordAnswer(RecordAttempt(tracker), cost)
                      IN  /\ "cost" \in DOMAIN new
                          /\ new.cost = IF cost = NoCost THEN tracker.cost ELSE tracker.cost + cost
<1>1. "cost" \in DOMAIN RecordAttempt(tracker) /\ RecordAttempt(tracker).cost = tracker.cost
  BY DEF RecordAttempt
<1> DEFINE attempted == RecordAttempt(tracker)
<1> HIDE DEF attempted
<1>2. ASSUME NEW cost
      PROVE  /\ "cost" \in DOMAIN RecordAnswer(attempted, cost)
             /\ RecordAnswer(attempted, cost).cost
                  = IF cost = NoCost THEN attempted.cost ELSE attempted.cost + cost
  BY <1>1 DEF RecordAnswer, attempted
<1> QED
  BY <1>1, <1>2 DEF attempted

\* A step within a call that is under way.
LEMMA AttemptAccounts ==
  ASSUME EvaluationInvariant, BudgetInvariant, Budgeted, proc = "ask", AskFrame,
         NEW c, NEW how, Conclude(c, how) \/ Continue(c), c.cost \in Nat,
         NEW d \in Nat, "cost" \in DOMAIN tracker', tracker'.cost = tracker.cost + d,
         tracker.cost + d <= plan.stop, c.cost <= call.cost + d
  PROVE  BudgetInvariant'
<1>1. UNCHANGED <<plan, row, pos, results, inferences, runs, evaluation>>
  BY DEF AskFrame, database
<1>2. proc' \in {"ask", "store"} /\ call' = c
  BY DEF Conclude, Continue
<1>3. Lookup(inferences, InferenceId(pos)).status # "complete"
  BY DEF BudgetInvariant
<1>4. Pending = call.cost
  BY DEF Pending
<1> QED
  BY <1>1, <1>2, <1>3, <1>4, AskingAccounts

LEMMA AskSteps ==
  ASSUME EvaluationInvariant, BudgetInvariant, Budgeted,
         StopAtBudget \/ TooLong \/ AttemptFails
  PROVE  BudgetInvariant'
<1>1. /\ call \in CallType /\ call.cost \in Nat
      /\ "cost" \in DOMAIN tracker /\ tracker.cost \in Nat /\ tracker.cost <= plan.stop
  BY DEF BudgetInvariant, Accounts, EvaluationInvariant, EvaluationType
<1>2. tracker.cost = tracker.cost + 0 /\ call.cost <= call.cost + 0
      /\ tracker.cost + 0 <= plan.stop
  BY <1>1
<1>3. CASE StopAtBudget
  <2>1. proc = "ask" /\ AskFrame /\ Conclude(call, "budget_exhausted") /\ tracker' = tracker
    BY <1>3 DEF StopAtBudget
  <2> QED
    BY <1>1, <1>2, <2>1, AttemptAccounts
<1>4. CASE TooLong
  <2>1. proc = "ask" /\ AskFrame /\ Conclude(NewCall, "invalid_request") /\ tracker' = tracker
    BY <1>4 DEF TooLong
  <2>2. NewCall.cost \in Nat /\ NewCall.cost <= call.cost + 0
    BY <1>1 DEF NewCall
  <2> QED
    BY <1>1, <1>2, <2>1, <2>2, AttemptAccounts
<1>5. CASE AttemptFails
  <2>1. proc = "ask" /\ AskFrame /\ tracker' = RecordAttempt(tracker)
    BY <1>5 DEF AttemptFails, Tracked, Budgeted
  <2> DEFINE c == Attempted(call)
  <2>2. PICK f \in Failures :
          \/ Continue(c) \/ Continue(WeakerMode(PostEnded(c)))
          \/ Conclude(PostEnded(c), f.category)
    BY <1>5 DEF AttemptFails
  <2>3. /\ c.cost = call.cost /\ PostEnded(c).cost = call.cost
        /\ WeakerMode(PostEnded(c)).cost = call.cost
    <3>1. c \in CallType /\ c.cost = call.cost
      BY <1>1, CallSteps, CallCosts
    <3> HIDE DEF c
    <3>2. PostEnded(c) \in CallType /\ PostEnded(c).cost = c.cost
      BY <3>1, CallSteps, CallCosts
    <3> QED
      BY <3>1, <3>2, CallCosts
  <2> HIDE DEF c
  <2>4. "cost" \in DOMAIN tracker' /\ tracker'.cost = tracker.cost + 0
    BY <1>1, <1>2, <2>1, TrackerCosts
  <2>5. CASE Continue(c)
    BY <1>1, <1>2, <2>1, <2>3, <2>4, <2>5, AttemptAccounts
  <2>6. CASE Continue(WeakerMode(PostEnded(c)))
    BY <1>1, <1>2, <2>1, <2>3, <2>4, <2>6, AttemptAccounts
  <2>7. CASE Conclude(PostEnded(c), f.category)
    BY <1>1, <1>2, <2>1, <2>3, <2>4, <2>7, AttemptAccounts
  <2> QED
    BY <2>2, <2>5, <2>6, <2>7
<1> QED
  BY <1>3, <1>4, <1>5

\* An answer costs what it costs both of them, and is only asked for before the stop.
LEMMA AnswerSteps ==
  ASSUME EvaluationInvariant, BudgetInvariant, Budgeted, AttemptAnswered
  PROVE  BudgetInvariant'
<1>1. /\ call \in CallType /\ call.cost \in Nat
      /\ "cost" \in DOMAIN tracker /\ tracker.cost \in Nat
  BY DEF BudgetInvariant, Accounts, EvaluationInvariant, EvaluationType
<1>2. proc = "ask" /\ AskFrame /\ tracker.cost < plan.stop /\ Backend.tracked /\ ~plan.svm
  BY DEF AttemptAnswered, Allowed, MayAttempt, Policy, Budgeted
<1>3. plan.stop \in Nat
  BY PlansAssumption DEF EvaluationInvariant, EvaluationType
<1>4. PICK answer \in Answers, output \in Outputs :
        LET charged == Charged(Attempted(call), AnswerCost(answer))
            read == [charged EXCEPT !.parsed = @ + 1]
        IN  /\ tracker' = RecordAnswer(RecordAttempt(tracker), AnswerCost(answer))
            /\ \/ Conclude(charged, "malformed_output")
               \/ Continue(AfterMalformed(read))
               \/ Conclude(read, "malformed_output")
               \/ Conclude(read, output)
  BY <1>2 DEF AttemptAnswered, Tracked
<1> DEFINE cost == AnswerCost(answer)
           d == IF cost = NoCost THEN 0 ELSE cost
           charged == Charged(Attempted(call), cost)
           read == [charged EXCEPT !.parsed = @ + 1]
<1>5. cost \in Int /\ d \in Nat /\ d <= 1
  BY DEF AnswerCost, NoCost
<1>6. tracker.cost + d <= plan.stop /\ call.cost + d \in Nat /\ call.cost + d <= call.cost + d
  <2> HIDE DEF d
  <2> QED
    BY <1>1, <1>2, <1>3, <1>5
<1>7. "cost" \in DOMAIN tracker' /\ tracker'.cost = tracker.cost + d
  <2>1. tracker' = RecordAnswer(RecordAttempt(tracker), cost)
    BY <1>4
  <2> HIDE DEF cost
  <2> QED
    BY <1>1, <2>1, TrackerCosts
<1>8. charged \in CallType /\ charged.cost = call.cost + d
  <2> DEFINE c == Attempted(call)
  <2>1. c \in CallType /\ c.cost = call.cost
    BY <1>1, CallSteps, CallCosts
  <2> HIDE DEF c, cost
  <2>2. Charged(c, cost) \in CallType
        /\ Charged(c, cost).cost = IF cost = NoCost THEN c.cost ELSE c.cost + cost
    BY <1>5, <2>1, CallSteps, CallCosts
  <2> QED
    BY <1>1, <2>1, <2>2 DEF c
<1> DEFINE made == charged
<1>9. read \in CallType /\ read.cost = call.cost + d /\ AfterMalformed(read).cost = call.cost + d
  <2> HIDE DEF d, charged
  <2>1. read \in CallType /\ read.cost = charged.cost
    BY <1>8, CallSteps, CallCosts
  <2> HIDE DEF read
  <2> QED
    BY <1>8, <2>1, CallCosts
<1>10. \/ Conclude(charged, "malformed_output") \/ Continue(AfterMalformed(read))
       \/ Conclude(read, "malformed_output") \/ Conclude(read, output)
  BY <1>4
<1> HIDE DEF d, charged, read
<1>11. CASE Conclude(charged, "malformed_output")
  BY <1>2, <1>5, <1>6, <1>7, <1>8, <1>11, AttemptAccounts
<1>12. CASE Continue(AfterMalformed(read))
  BY <1>2, <1>5, <1>6, <1>7, <1>9, <1>12, AttemptAccounts
<1>13. CASE Conclude(read, "malformed_output")
  BY <1>2, <1>5, <1>6, <1>7, <1>9, <1>13, AttemptAccounts
<1>14. CASE Conclude(read, output)
  BY <1>2, <1>5, <1>6, <1>7, <1>9, <1>14, AttemptAccounts
<1> QED
  BY <1>10, <1>11, <1>12, <1>13, <1>14

\* A row that was not complete is filed again.
LEMMA Refiled ==
  ASSUME AttemptsFiled, runs \in Seq(Run), NEW id,
         Lookup(inferences, id).status # "complete",
         NEW status, NEW run, NEW hit \in BOOLEAN, NEW key,
         inferences' = Upserted(id, status, run, hit, key),
         \/ /\ runs' = runs /\ status # "complete" /\ run = 0 /\ ~hit
         \/ /\ runs' = runs /\ status = "complete" /\ hit /\ runs[run].ok
         \/ /\ \E new \in Run : runs' = Append(runs, new) /\ (status # "complete" => ~new.ok)
            /\ run = Len(runs) + 1 /\ ~hit
  PROVE  AttemptsFiled'
<1> DEFINE old == IF id \in DOMAIN inferences THEN inferences[id].attempts ELSE {}
           more == IF run = 0 \/ hit THEN {} ELSE {run}
           filed == [status |-> status, run |-> run, hit |-> hit, key |-> key,
                     attempts |-> old \cup more]
<1>1. /\ DOMAIN inferences' = DOMAIN inferences \cup {id} /\ inferences'[id] = filed
      /\ \A other \in DOMAIN inferences \ {id} : inferences'[other] = inferences[other]
  <2>1. inferences' = Assign(inferences, id, filed)
    BY DEF Upserted
  <2> HIDE DEF filed
  <2> QED
    BY <2>1 DEF Assign
<1>2. old \in SUBSET DOMAIN runs /\ \A n \in old : ~runs[n].ok
  <2>1. CASE id \in DOMAIN inferences
    BY <2>1 DEF AttemptsFiled, Lookup
  <2>2. CASE id \notin DOMAIN inferences
    BY <2>2
  <2> QED
    BY <2>1, <2>2
<1> HIDE DEF old
<1>3. /\ DOMAIN runs \subseteq DOMAIN runs' /\ \A n \in DOMAIN runs : runs'[n] = runs[n]
      /\ Len(runs) \in Nat /\ DOMAIN runs = 1 .. Len(runs)
  BY RunsGrow, LenProperties
<1>4. /\ DOMAIN runs' = DOMAIN runs \cup more
      /\ status # "complete" => ~hit /\ \A n \in more : ~runs'[n].ok
      /\ IF hit THEN run \notin old \cup more ELSE run = 0 \/ run \in old \cup more
  <2>1. CASE runs' = runs /\ status # "complete" /\ run = 0 /\ ~hit
    <3>1. more = {}
      BY <2>1
    <3> HIDE DEF more
    <3> QED
      BY <2>1, <3>1
  <2>2. CASE runs' = runs /\ status = "complete" /\ hit /\ runs[run].ok
    <3>1. more = {}
      BY <2>2
    <3>2. run \notin old
      BY <1>2, <2>2
    <3> HIDE DEF more
    <3> QED
      BY <2>2, <3>1, <3>2
  <2>3. CASE /\ \E new \in Run : runs' = Append(runs, new) /\ (status # "complete" => ~new.ok)
             /\ run = Len(runs) + 1 /\ ~hit
    <3>1. PICK new \in Run : runs' = Append(runs, new) /\ (status # "complete" => ~new.ok)
      BY <2>3
    <3>2. run = Len(runs) + 1 /\ ~hit
      BY <2>3, Zenon
    <3>3. run \in Nat \ {0}
      BY <1>3, <3>2
    <3>4. Len(runs') = Len(runs) + 1 /\ runs' \in Seq(Run) /\ runs'[Len(runs)+1] = new
      BY <3>1, AppendProperties
    <3>5. DOMAIN runs' = 1 .. run /\ runs'[run] = new
      BY <3>4, <3>2, LenProperties
    <3>6. more = {run} /\ DOMAIN runs' = 1 .. run /\ runs'[run] = new
      BY <3>2, <3>3, <3>5
    <3>7. DOMAIN runs' = DOMAIN runs \cup {run}
      BY <1>3, <3>2, <3>3, <3>5
    <3>8. status # "complete" => ~hit /\ \A n \in more : ~runs'[n].ok
      <4> HIDE DEF more
      <4> QED
        BY <2>3, <3>1, <3>6
    <3>9. IF hit THEN run \notin old \cup more ELSE run = 0 \/ run \in old \cup more
      BY <2>3, <3>6
    <3> HIDE DEF more
    <3> QED
      BY <3>6, <3>7, <3>8, <3>9
  <2> HIDE DEF more
  <2> QED
    BY <2>1, <2>2, <2>3
<1>5. /\ filed.status = status /\ filed.hit = hit /\ filed.run = run
      /\ filed.attempts = old \cup more
  OBVIOUS
<1> HIDE DEF more, filed
<1>6. ASSUME NEW other \in DOMAIN inferences'
      PROVE  LET i == inferences'[other]
             IN  /\ i.attempts \subseteq DOMAIN runs'
                 /\ i.status # "complete" => ~i.hit /\ \A n \in i.attempts : ~runs'[n].ok
                 /\ IF i.hit THEN i.run \notin i.attempts ELSE i.run = 0 \/ i.run \in i.attempts
  <2>1. CASE other = id
    BY <1>1, <1>2, <1>3, <1>4, <1>5, <2>1
  <2>2. CASE other # id
    <3>1. other \in DOMAIN inferences /\ inferences'[other] = inferences[other]
      BY <1>1, <2>2
    <3> QED
      BY <1>3, <3>1 DEF AttemptsFiled
  <2> QED
    BY <2>1, <2>2
<1>7. ASSUME NEW n \in DOMAIN runs'
      PROVE  \E other \in DOMAIN inferences' : n \in inferences'[other].attempts
  <2>1. CASE n \in more
    BY <1>1, <1>5, <2>1
  <2>2. CASE n \notin more
    <3>1. PICK other \in DOMAIN inferences : n \in inferences[other].attempts
      BY <1>4, <2>2 DEF AttemptsFiled
    <3>2. CASE other = id
      BY <1>1, <1>5, <3>1, <3>2 DEF old
    <3>3. CASE other # id
      BY <1>1, <3>1, <3>3
    <3> QED
      BY <3>2, <3>3
  <2> QED
    BY <2>1, <2>2
<1> QED
  BY <1>6, <1>7 DEF AttemptsFiled

\* A stored call moves its cost from the call to the runs, when it is known.
LEMMA StoreSteps ==
  ASSUME EvaluationInvariant, BudgetInvariant, Budgeted,
         StoreMarker \/ StoreFailure \/ StoreResult
  PROVE  BudgetInvariant'
<1> DEFINE id == InferenceId(pos)
           next == Len(runs) + 1
           failed == FailedRun(call, FiledContext, ModelAt(pos))
           result == ResultRun(call, ended, FiledContext, ModelAt(pos))
<1>1. AttemptsFiled /\ Accounts /\ runs \in Seq(Run) /\ call \in CallType /\ plan.stop \in Nat
      /\ ended \in Words
  BY PlansAssumption DEF BudgetInvariant, EvaluationInvariant, EvaluationType
<1>2. /\ proc = "store" /\ proc' = "sync" /\ UNCHANGED <<plan, tracker, call, evaluation>>
  BY DEF StoreMarker, StoreFailure, StoreResult, memory
<1>3. Lookup(inferences, id).status # "complete"
  BY <1>2 DEF BudgetInvariant
<1>4. /\ failed \in Run /\ ~failed.ok /\ failed.cost \in {call.cost, NoCost}
      /\ result \in Run /\ result.cost \in {call.cost, NoCost}
  <2>1. failed \in Run /\ result \in Run
    BY <1>1, RunOfCall
  <2>2. ~failed.ok /\ failed.cost = TotalCost(call) /\ result.cost = TotalCost(call)
    BY DEF FailedRun, ResultRun
  <2> QED
    BY <2>1, <2>2 DEF TotalCost
<1> HIDE DEF id, failed, result
<1>5. Budgeted'
  BY <1>2, BudgetedKept
<1>6. AttemptsFiled' /\ Spend' <= Spend + call.cost /\ Spend' \in Nat
      /\ (evaluation = None => runs' = <<>>)
  <2>1. evaluation # None
    BY <1>1, <1>2 DEF Accounts
  <2>2. Spend \in Nat /\ call.cost \in Nat
    BY <1>1 DEF Accounts
  <2>3. CASE StoreMarker
    <3>1. /\ inferences' = Upserted(id, "paused", 0, FALSE, None) /\ runs' = runs
      BY <2>3 DEF StoreMarker, id
    <3>2. AttemptsFiled'
      BY <1>1, <1>3, <3>1, Refiled
    <3>3. Spend' = Spend
      BY <3>1 DEF Spend, KnownCosts
    <3> QED
      BY <2>1, <2>2, <3>2, <3>3
  <2>4. CASE StoreFailure
    <3>1. inferences' = Upserted(id, "error", next, FALSE, None) /\ runs' = Append(runs, failed)
      BY <2>4 DEF StoreFailure, id, failed
    <3>2. AttemptsFiled'
      BY <1>1, <1>3, <1>4, <3>1, Refiled
    <3>3. Spend' = Spend + (IF failed.cost = NoCost THEN 0 ELSE failed.cost)
      BY <1>1, <1>4, <3>1, SpendGrows
    <3> QED
      BY <1>4, <2>1, <2>2, <3>2, <3>3
  <2>5. CASE StoreResult
    <3> DEFINE key == CacheKey(asked, call.mode)
    <3>1. /\ inferences' = Upserted(id, "complete", next, FALSE, key)
          /\ runs' = Append(runs, result)
      BY <2>5 DEF StoreResult, id, result
    <3> HIDE DEF key
    <3>2. AttemptsFiled'
      BY <1>1, <1>3, <1>4, <3>1, Refiled
    <3>3. Spend' = Spend + (IF result.cost = NoCost THEN 0 ELSE result.cost)
      BY <1>1, <1>4, <3>1, SpendGrows
    <3> QED
      BY <1>4, <2>1, <2>2, <3>2, <3>3
  <2> QED
    BY <2>3, <2>4, <2>5
<1>7. Pending = call.cost /\ Pending' = 0
  BY <1>2 DEF Pending
<1>8. Spend' \in 0 .. plan.stop /\ Spend' + Pending' <= tracker.cost
  BY <1>1, <1>2, <1>6, <1>7 DEF Accounts
<1> QED
  BY <1>1, <1>2, <1>5, <1>6, <1>8 DEF BudgetInvariant, Accounts, None

\* A cache hit points to a run of another row, and costs nothing.
LEMMA UseCacheAccounts ==
  ASSUME EvaluationInvariant, BudgetInvariant, Budgeted, UseCache
  PROVE  BudgetInvariant'
<1> DEFINE id == InferenceId(pos)
           question == Question(pos, touched)
           keys == CachedKeys(question)
           key == FirstKey(keys)
           run == cache[key]
<1>1. AttemptsFiled /\ Accounts /\ runs \in Seq(Run) /\ plan.stop \in Nat
  BY PlansAssumption DEF BudgetInvariant, EvaluationInvariant, EvaluationType
<1>2. /\ proc = "lookup" /\ proc' = "reuse" /\ UNCHANGED <<plan, tracker, call, evaluation, runs>>
      /\ inferences' = Upserted(id, "complete", run, TRUE, key)
      /\ CompletedRun(question) = 0 /\ keys # {}
  BY DEF UseCache
<1>3. Lookup(inferences, id).status # "complete"
  BY <1>2, CompleteIsResumed DEF Budgeted
<1>4. keys \in SUBSET Keys(question) /\ \A k \in keys : runs[cache[k]].ok
  BY DEF CachedKeys
<1>5. runs[run].ok
  <2>1. key \in keys
    <3> HIDE DEF keys, question
    <3> QED
      BY <1>2, <1>4, FirstOfKeys
  <2> HIDE DEF keys, key, question
  <2> QED
    BY <1>4, <2>1
<1> HIDE DEF id, question, keys, key, run
<1>6. AttemptsFiled'
  BY <1>1, <1>2, <1>3, <1>5, Refiled
<1>7. Budgeted' /\ Spend' = Spend
  BY <1>2, BudgetedKept DEF Spend, KnownCosts
<1>8. Pending = 0 /\ Pending' = 0
  BY <1>2 DEF Pending
<1> QED
  BY <1>1, <1>2, <1>6, <1>7, <1>8 DEF BudgetInvariant, Accounts, None

\* A process takes up what the filed runs are known to have cost.
LEMMA RestoredSpend ==
  ASSUME AttemptsFiled, runs \in Seq(Run)
  PROVE  RestoredBudget.cost = IF runs = <<>> THEN evaluation.cost ELSE Spend
<1> DEFINE Counted(id) ==
             LET i == inferences[id]
                 counted == IF i.hit THEN i.attempts \ {i.run} ELSE i.attempts
             IN  IF counted = {} /\ ~i.hit /\ i.run # 0 THEN {i.run} ELSE counted
<1>1. \A id \in DOMAIN inferences : Counted(id) = inferences[id].attempts
  <2> SUFFICES ASSUME NEW id \in DOMAIN inferences PROVE Counted(id) = inferences[id].attempts
    OBVIOUS
  <2>1. IF inferences[id].hit THEN inferences[id].run \notin inferences[id].attempts
        ELSE inferences[id].run = 0 \/ inferences[id].run \in inferences[id].attempts
    BY DEF AttemptsFiled
  <2>2. CASE inferences[id].hit
    BY <2>1, <2>2
  <2>3. CASE ~inferences[id].hit
    BY <2>1, <2>3
  <2> QED
    BY <2>2, <2>3
<1>2. AttemptRuns = UNION {inferences[id].attempts : id \in DOMAIN inferences}
  BY <1>1 DEF AttemptRuns
<1>3. AttemptRuns = DOMAIN runs
  BY <1>2 DEF AttemptsFiled
<1>4. DOMAIN KnownCosts = DOMAIN runs
  BY DEF KnownCosts
<1>5. DOMAIN runs = {} <=> runs = <<>>
  BY LenProperties, EmptySeq
<1>6. CASE runs = <<>>
  BY <1>3, <1>5, <1>6 DEF RestoredBudget
<1>7. CASE runs # <<>>
  <2>1. RestoredBudget.cost = SumFunctionOnSet(KnownCosts, DOMAIN runs)
    BY <1>3, <1>5, <1>7 DEF RestoredBudget
  <2> QED
    BY <1>4, <1>7, <2>1 DEF Spend, SumFunction
<1> QED
  BY <1>6, <1>7

\* Nothing has been spent without a run.
LEMMA NoRunNoSpend ==
  ASSUME runs = <<>>
  PROVE  Spend = 0
<1>1. DOMAIN KnownCosts = {}
  BY DEF KnownCosts
<1> QED
  BY <1>1, SumEmpty DEF Spend, SumFunction

LEMMA BeginAccounts ==
  ASSUME EvaluationInvariant, BudgetInvariant, Budgeted, Begin
  PROVE  BudgetInvariant'
<1>1. AttemptsFiled /\ Accounts /\ runs \in Seq(Run) /\ plan.stop \in Nat
  BY PlansAssumption DEF BudgetInvariant, EvaluationInvariant, EvaluationType
<1>2. /\ proc' = "lookup" /\ UNCHANGED <<plan, call, inferences, runs>>
      /\ evaluation' = OpenEvaluation
      /\ tracker' = IF evaluation = None THEN NewTracker ELSE RestoredBudget
  BY DEF Begin
<1>3. AttemptsFiled' /\ Spend' = Spend /\ Budgeted' /\ Pending' = 0
  BY <1>1, <1>2, FiledKept, BudgetedKept DEF Pending
<1>4. Spend \in 0 .. plan.stop /\ (runs = <<>> => Spend = 0)
  BY <1>1, NoRunNoSpend DEF Accounts
<1>5. CASE evaluation = None
  <2>1. runs = <<>>
    BY <1>1, <1>5 DEF Accounts
  <2>2. /\ "cost" \in DOMAIN tracker' /\ tracker'.cost = 0
        /\ evaluation' # None /\ "cost" \in DOMAIN evaluation' /\ evaluation'.cost = 0
    BY <1>2, <1>5 DEF NewTracker, OpenEvaluation, NewEvaluation, None
  <2> QED
    BY <1>1, <1>2, <1>3, <1>4, <2>1, <2>2 DEF BudgetInvariant, Accounts
<1>6. CASE evaluation # None
  <2>1. "cost" \in DOMAIN evaluation /\ evaluation.cost \in 0 .. plan.stop
    BY <1>1, <1>6 DEF Accounts
  <2>2. /\ "cost" \in DOMAIN evaluation' /\ evaluation'.cost = evaluation.cost
        /\ evaluation' # None
    BY <1>2, <1>6, <2>1 DEF OpenEvaluation, None
  <2>3. "cost" \in DOMAIN tracker'
    BY <1>2, <1>6 DEF RestoredBudget
  <2>4. tracker'.cost = IF runs = <<>> THEN evaluation.cost ELSE Spend
    BY <1>1, <1>2, <1>6, RestoredSpend
  <2>5. tracker'.cost \in 0 .. plan.stop /\ Spend <= tracker'.cost
    BY <1>1, <1>4, <2>1, <2>4
  <2> QED
    BY <1>1, <1>2, <1>3, <1>4, <2>1, <2>2, <2>3, <2>5 DEF BudgetInvariant, Accounts
<1> QED
  BY <1>5, <1>6

LEMMA BudgetStarts == Init => BudgetInvariant
<1> SUFFICES ASSUME Init PROVE BudgetInvariant
  OBVIOUS
<1>1. /\ plan \in Plans /\ proc = "down" /\ inferences = <<>> /\ runs = <<>>
      /\ evaluation = None /\ call = NewCall /\ tracker = NewTracker
  BY DEF Init
<1>2. AttemptsFiled
  <2>1. DOMAIN inferences = {} /\ DOMAIN runs = {}
    BY <1>1
  <2> QED
    BY <2>1 DEF AttemptsFiled
<1>3. Accounts
  <2>1. plan.stop \in Nat
    BY <1>1, PlansAssumption
  <2> QED
    BY <1>1, <2>1, NoRunNoSpend DEF Accounts, NewCall, NewTracker, None
<1> QED
  BY <1>1, <1>2, <1>3 DEF BudgetInvariant

LEMMA BudgetStutters ==
  ASSUME BudgetInvariant, UNCHANGED vars
  PROVE  BudgetInvariant'
<1>1. UNCHANGED <<plan, proc, row, pos, results, call, tracker, evaluation, inferences, runs>>
  BY DEF vars, memory, database
<1>2. /\ Budgeted' = Budgeted /\ AttemptsFiled' = AttemptsFiled /\ Spend' = Spend
      /\ Pending' = Pending /\ InferenceId(pos)' = InferenceId(pos)
  BY <1>1, BudgetedKept, FiledKept, RowKept DEF Pending
<1>3. Accounts' <=> Accounts
  BY <1>1, <1>2 DEF Accounts, None
<1> QED
  BY <1>1, <1>2, <1>3 DEF BudgetInvariant, Lookup, None

\* A plan stays as it is.
LEMMA PlanStays == [Next]_vars => plan' = plan
<1> SUFFICES ASSUME [Next]_vars PROVE plan' = plan
  OBVIOUS
<1>1. CASE Begin \/ SkipRoute \/ ReuseVerification \/ Resume \/ UseCache \/ Invoke
  BY <1>1 DEF Begin, SkipRoute, ReuseVerification, Resume, UseCache, Invoke
<1>2. CASE StopAtBudget \/ TooLong \/ AttemptFails \/ AttemptAnswered \/ ClassifierAnswers
  BY <1>2 DEF StopAtBudget, TooLong, AttemptFails, AttemptAnswered, ClassifierAnswers, AskFrame
<1>3. CASE StoreMarker \/ StoreFailure \/ StoreResult \/ SyncCall \/ SyncHit
  BY <1>3 DEF StoreMarker, StoreFailure, StoreResult, SyncCall, SyncHit
<1>4. CASE Judge \/ Report \/ Interrupt \/ Stop \/ Crash
  BY <1>4 DEF Judge, Report, Interrupt, Stop, Crash
<1>5. CASE UNCHANGED vars
  BY <1>5 DEF vars
<1> QED
  BY <1>1, <1>2, <1>3, <1>4, <1>5 DEF Next

LEMMA BudgetStep == EvaluationInvariant /\ BudgetInvariant /\ [Next]_vars => BudgetInvariant'
<1> SUFFICES ASSUME EvaluationInvariant, BudgetInvariant, [Next]_vars, Budgeted'
             PROVE  BudgetInvariant'
  BY DEF BudgetInvariant
<1>1. Budgeted
  BY PlanStays, BudgetedKept
<1>2. CASE Begin \/ Invoke \/ UseCache
  BY <1>1, <1>2, BeginAccounts, InvokeAccounts, UseCacheAccounts
<1>3. CASE SkipRoute \/ ReuseVerification \/ Resume \/ SyncCall \/ SyncHit \/ Judge
  BY <1>1, <1>3, RowSteps
<1>4. CASE StopAtBudget \/ TooLong \/ AttemptFails
  BY <1>1, <1>4, AskSteps
<1>5. CASE AttemptAnswered
  BY <1>1, <1>5, AnswerSteps
<1>6. CASE ClassifierAnswers
  BY <1>1, <1>6 DEF ClassifierAnswers, Budgeted
<1>7. CASE StoreMarker \/ StoreFailure \/ StoreResult
  BY <1>1, <1>7, StoreSteps
<1>8. CASE Report \/ Interrupt \/ Stop \/ Crash
  BY <1>1, <1>8, EndSteps
<1>9. CASE UNCHANGED vars
  BY <1>9, BudgetStutters
<1> QED
  BY <1>2, <1>3, <1>4, <1>5, <1>6, <1>7, <1>8, <1>9 DEF Next

LEMMA BudgetInvariantHolds == Spec => []BudgetInvariant
<1>1. EvaluationInvariant /\ BudgetInvariant /\ [Next]_vars => BudgetInvariant'
  BY BudgetStep
<1> QED
  BY <1>1, BudgetStarts, EvaluationInvariantHolds, PTL DEF Spec

\* A running process guards against at least the known costs of every run on record, those
\* of failed attempts and of processes that died included (_restored_budget).
THEOREM SpendIsNeverForgotten == Spec => []SpendIsRemembered
<1>1. EvaluationInvariant /\ BudgetInvariant => SpendIsRemembered
  <2> SUFFICES ASSUME EvaluationInvariant, BudgetInvariant, proc # "down", ~plan.svm,
                      Backend.tracked
               PROVE  tracker.cost >= SumFunction(KnownCosts)
    BY DEF SpendIsRemembered
  <2>1. Accounts /\ plan.stop \in Nat
    BY PlansAssumption DEF BudgetInvariant, Budgeted, EvaluationInvariant, EvaluationType
  <2>2. Spend \in Nat /\ Pending \in Nat /\ tracker.cost \in Nat /\ Spend + Pending <= tracker.cost
    BY <2>1 DEF Accounts, Pending
  <2>3. tracker.cost >= Spend
    BY <2>2
  <2> QED
    BY <2>3 DEF Spend
<1> QED
  BY <1>1, EvaluationInvariantHolds, BudgetInvariantHolds, PTL

\* Retries, weaker modes, the repair and resumptions taken together spend no more than the
\* answer that reached the stop (plain analyzers on an endpoint with a budget; before_attempt).
THEOREM TheStopHolds == Spec => [](Backend.tracked /\ ~plan.svm => NeverPastTheStop)
<1>1. EvaluationInvariant /\ BudgetInvariant => (Backend.tracked /\ ~plan.svm => NeverPastTheStop)
  <2> SUFFICES ASSUME EvaluationInvariant, BudgetInvariant, ~plan.svm, Backend.tracked
               PROVE  tracker.cost <= plan.stop
    BY DEF NeverPastTheStop
  <2>1. tracker.cost \in 0 .. plan.stop /\ plan.stop \in Nat
    BY PlansAssumption DEF BudgetInvariant, Budgeted, Accounts, EvaluationInvariant, EvaluationType
  <2> QED
    BY <2>1
<1> QED
  BY <1>1, EvaluationInvariantHolds, BudgetInvariantHolds, PTL
=============================================================================
