-------------------------- MODULE MatrixEvaluation --------------------------
(***************************************************************************)
(* The persistent analyzer/verifier matrix evaluation                      *)
(* (evaluation/matrix_runner.py, evaluation/inference_cache.py): one       *)
(* process walks the examples, asks every analyzer and every verifier at   *)
(* most once per question through the inference cache, commits each        *)
(* answer, keeps a budget, and can be interrupted, killed and resumed at   *)
(* any step.  The database survives; everything else starts afresh.        *)
(*                                                                         *)
(* plan fixes one evaluation: its examples, cache mode and budget policy,  *)
(* and how many model doubts (failures and unwelcome outputs) and process  *)
(* starts the run of the model explores.                                   *)
(***************************************************************************)
EXTENDS ModelBackend, EvaluationMetrics

CONSTANTS
    Plans,          \* the evaluations explored
    Verifiers       \* how many verifier models; the analyzers are plan.analyzers

\* What an example says and is labelled with (EvaluationExample).
LabelledExamples ==
    [text : STRING, reply : BOOLEAN, expects : BOOLEAN, scored : BOOLEAN,
     contradiction : BOOLEAN]

\* run_persistent_matrix refuses an evaluation without a model pair; one without an
\* example, which asks nobody anything, is left out.
ASSUME PlansAssumption ==
    \A p \in Plans :
        /\ p.analyzers \in Nat \ {0}
        /\ p.examples \in Seq(LabelledExamples) /\ p.examples # <<>>
        /\ p.stop \in Nat

ASSUME VerifiersAssumption == Verifiers \in Nat

VARIABLES
    plan,
    proc,           \* "down" or the step the process is at
    row, pos,       \* the example and the position within it
    results,        \* position -> what was obtained for this row
    memo,           \* verification questions answered in this row
    routes,         \* route_capability_errors: models that reject the format
    touched,        \* the row's analysis context was written by an analyzer
    asked,          \* the question get_or_run computed its keys from
    call,           \* the structured call in progress
    ended,          \* how the call ended: its output or error category
    tracker,        \* the BudgetTracker
    predictions,    \* pair -> predictions of the rows so far
    failure,        \* category of the error being handled
    evaluation,     \* durable: the EvaluationRun row
    inferences,     \* durable: the EvaluationInference rows
    runs,           \* durable: the ModelRun rows
    cache,          \* durable: the InferenceCacheEntry rows
    report,         \* durable: selection and attribution files
    doubts, starts

memory == <<row, pos, results, memo, routes, touched, asked, call, ended,
            tracker, predictions, failure>>
database == <<evaluation, inferences, runs, cache, report>>
vars == <<plan, proc, memory, database, doubts, starts>>

None == [status |-> "none"]

-----------------------------------------------------------------------------
(* Tasks: positions 1..n are the analyses of a row, the next n * m its     *)
(* verifications, in the order the loops visit them.                       *)

Analyzers == plan.analyzers
Example == plan.examples[row]
Pairs == [i \in 1 .. Analyzers * Verifiers |->
            [a |-> ((i - 1) \div Verifiers) + 1, v |-> ((i - 1) % Verifiers) + 1]]

Backend == Service(plan.provider)

IsAnalysis(p) == p <= Analyzers
PairAt(p) == Pairs[p - Analyzers]
ModelAt(p) == IF IsAnalysis(p) THEN <<"analysis", p>> ELSE <<"verification", PairAt(p).v>>

\* A successful analysis with an operation is what a verification is about.
Due(p, res) ==
    IsAnalysis(p) \/ LET a == PairAt(p).a IN ~ res[a].failed /\ res[a].output # "none"

NextPos(p, res) ==
    LET due == {q \in p + 1 .. Analyzers + Len(Pairs) : Due(q, res)}
    IN  IF due = {} THEN 0 ELSE CHOOSE q \in due : \A other \in due : q <= other

\* The proposal a verification is about; it is part of what is asked.
Proposal(p) == IF IsAnalysis(p) THEN "" ELSE results[PairAt(p).a].output

\* The text of the input context.  The fallback analyzer writes its numeric
\* candidates into the context it is given, which changes the context of a
\* clarification reply for whoever hashes it afterwards.
ContextOf(p, written) ==
    [text |-> Example.text, extra |-> IsAnalysis(p) /\ written /\ Example.reply]

Question(p, written) ==
    [model |-> ModelAt(p), context |-> ContextOf(p, written), proposal |-> Proposal(p)]

\* cache_key, one per allowed structured-output mode.
\* Slip of CacheKey: one key for all models.
ModelessKey(question, mode) ==
    [question |-> [question EXCEPT !.model = <<>>], mode |-> mode]
CacheKey(question, mode) == [question |-> question, mode |-> mode]
AllowedModes ==
    {"json_schema"} \cup (IF Backend.ladder THEN {"json_object", "prompt_json"} ELSE {})
Keys(question) == {CacheKey(question, mode) : mode \in AllowedModes}

\* The identity of an inference row: one per example, stage, model, proposal.
InferenceId(p) == [row |-> row, model |-> ModelAt(p), proposal |-> Proposal(p)]

Lookup(f, x) == IF x \in DOMAIN f THEN f[x] ELSE None
Assign(f, x, value) == [y \in DOMAIN f \cup {x} |-> IF y = x THEN value ELSE f[y]]

\* _upsert_inference: attempts are only ever added, and never for a cache hit.
\* Slip of Upserted: the list of attempts is replaced by the last one.
LastAttemptOnly(id, status, run, hit, key) ==
    Assign(inferences, id,
           [status |-> status, run |-> run, hit |-> hit, key |-> key,
            attempts |-> IF run = 0 \/ hit THEN {} ELSE {run}])
Upserted(id, status, run, hit, key) ==
    LET old == IF id \in DOMAIN inferences THEN inferences[id].attempts ELSE {}
    IN  Assign(inferences, id,
               [status |-> status, run |-> run, hit |-> hit, key |-> key,
                attempts |-> old \cup (IF run = 0 \/ hit THEN {} ELSE {run})])

-----------------------------------------------------------------------------
(* Results within a row.                                                   *)

Got(output, hit) == [failed |-> FALSE, output |-> output, hit |-> hit]
Missed == [failed |-> TRUE, output |-> "none", hit |-> FALSE]

NoResults == [p \in 1 .. Analyzers + Len(Pairs) |-> Missed]

MayDoubt == doubts < plan.doubts
Doubt(yes) == IF yes THEN MayDoubt /\ doubts' = doubts + 1 ELSE UNCHANGED doubts

\* The position is done with result r: remember it and go to the next one.
StepTo(p, r) ==
    LET res == [results EXCEPT ![p] = r]
        next == NextPos(p, res)
    IN  /\ results' = res
        /\ pos' = next
        /\ proc' = IF next = 0 THEN "judge" ELSE "lookup"

-----------------------------------------------------------------------------
(* Starting and resuming.                                                  *)

AttemptRuns ==
    UNION {LET i == inferences[id]
               counted == IF i.hit THEN i.attempts \ {i.run} ELSE i.attempts
           IN  IF counted = {} /\ ~ i.hit /\ i.run # 0 THEN {i.run} ELSE counted
           : id \in DOMAIN inferences}

KnownCosts == [id \in DOMAIN runs |-> IF runs[id].cost = NoCost THEN 0 ELSE runs[id].cost]
UnknownAnswers == [id \in DOMAIN runs |-> IF runs[id].cost = NoCost THEN runs[id].parsed ELSE 0]
RunAttempts == [id \in DOMAIN runs |-> runs[id].attempts]

\* _restored_budget.
RestoredBudget ==
    LET linked == AttemptRuns
    IN  IF linked = {}
        THEN [cost |-> evaluation.cost, requests |-> evaluation.requests,
              unknown |-> evaluation.unknown]
        ELSE [cost |-> SumFunctionOnSet(KnownCosts, linked),
              requests |-> SumFunctionOnSet(RunAttempts, linked),
              unknown |-> SumFunctionOnSet(UnknownAnswers, linked)]

NewEvaluation == [status |-> "running", cost |-> 0, requests |-> 0,
                  unknown |-> 0, checkpoint |-> 0]

\* _new_or_resumed_run: the latest unfinished evaluation of this dataset,
\* configuration and directory, or a new one.
OpenEvaluation ==
    IF evaluation = None THEN NewEvaluation ELSE [evaluation EXCEPT !.status = "running"]

\* The set-up of run_persistent_matrix.
Begin ==
    /\ proc = "down"
    /\ starts < plan.starts
    /\ evaluation.status # "complete"
    /\ starts' = starts + 1
    /\ evaluation' = OpenEvaluation
    /\ tracker' = IF evaluation = None THEN NewTracker ELSE RestoredBudget
    /\ proc' = "lookup"
    /\ UNCHANGED <<plan, row, pos, results, memo, routes, touched, asked, call,
                   ended, predictions, failure, inferences, runs, cache, report,
                   doubts>>

-----------------------------------------------------------------------------
(* get_or_run: resume, then the global cache, then the model.              *)

\* _completed_run: the recorded inference must still be an answer to exactly
\* this question.
\* Slip of CompletedRun: recorded inferences are not looked up on resumption.
NothingResumed(question) == 0
CompletedRun(question) ==
    LET i == Lookup(inferences, InferenceId(pos))
    IN  IF /\ i.status = "complete"
           /\ i.key \in Keys(question)
           /\ runs[i.run].context = question.context
        THEN i.run ELSE 0

CachedKeys(question) ==
    IF plan.cache # "use" THEN {}
    ELSE {key \in Keys(question) \cap DOMAIN cache : runs[cache[key]].ok}

\* _global_cached_run tries the modes in the order of the ladder.
FirstKey(keys) ==
    CHOOSE key \in keys : \A other \in keys :
        \/ key.mode = "json_schema"
        \/ key.mode = "json_object" /\ other.mode # "json_schema"
        \/ keys = {key}

\* A route known to reject the format is not asked again in this process, and
\* a verification already made in this row is reused.
SkipRoute ==
    /\ proc = "lookup"
    /\ ModelAt(pos) \in routes
    /\ StepTo(pos, Missed)
    /\ UNCHANGED <<plan, row, memo, routes, touched, asked, call, ended, tracker,
                   predictions, failure, database, doubts, starts>>

Memoized(p) == {m \in memo : m.question = Question(p, FALSE)}

ReuseVerification ==
    /\ proc = "lookup"
    /\ ~ IsAnalysis(pos)
    /\ \E m \in Memoized(pos) : StepTo(pos, m.result)
    /\ UNCHANGED <<plan, row, memo, routes, touched, asked, call, ended, tracker,
                   predictions, failure, database, doubts, starts>>

Remember(p, r) ==
    memo' = IF IsAnalysis(p) THEN memo
            ELSE memo \cup {[question |-> Question(p, FALSE), result |-> r]}

Asked(p) == ModelAt(p) \notin routes /\ (IsAnalysis(p) \/ Memoized(p) = {})

\* A completed inference of an earlier process is taken as it is: no
\* transaction, and no spend.
Resume ==
    /\ proc = "lookup"
    /\ Asked(pos)
    /\ LET id == CompletedRun(Question(pos, touched))
           r == Got(runs[id].output, TRUE)
       IN  id # 0 /\ StepTo(pos, r) /\ Remember(pos, r)
    /\ UNCHANGED <<plan, row, routes, touched, asked, call, ended, tracker,
                   predictions, failure, database, doubts, starts>>

UseCache ==
    /\ proc = "lookup"
    /\ Asked(pos)
    /\ LET question == Question(pos, touched)
           keys == CachedKeys(question)
           key == FirstKey(keys)
       IN  /\ CompletedRun(question) = 0
           /\ keys # {}
           /\ inferences' = Upserted(InferenceId(pos), "complete", cache[key], TRUE, key)
           /\ ended' = runs[cache[key]].output
    /\ proc' = "reuse"
    /\ UNCHANGED <<plan, row, pos, results, memo, routes, touched, asked, call, tracker,
                   predictions, failure, evaluation, runs, cache, report,
                   doubts, starts>>

Invoke ==
    /\ proc = "lookup"
    /\ Asked(pos)
    /\ LET question == Question(pos, touched)
       IN  CompletedRun(question) = 0 /\ CachedKeys(question) = {}
    /\ asked' = Question(pos, touched)
    /\ call' = NewCall
    /\ ended' = "open"
    /\ proc' = "ask"
    /\ UNCHANGED <<plan, row, pos, results, memo, routes, touched, tracker,
                   predictions, failure, database, doubts, starts>>

-----------------------------------------------------------------------------
(* generate_structured, one HTTP attempt per step.                         *)

Policy == [stop |-> plan.stop, strict |-> plan.strict]
Allowed == Backend.tracked => MayAttempt(tracker, Policy)
Tracked(new) == tracker' = IF Backend.tracked THEN new ELSE tracker

Conclude(c, how) == call' = c /\ ended' = how /\ proc' = "store"
Continue(c) == call' = c /\ ended' = "open" /\ proc' = "ask"

AskFrame == UNCHANGED <<plan, row, pos, results, memo, routes, asked,
                        predictions, failure, database, starts>>

\* Reading the context is the first thing the fallback analyzer's model path does.
Touches == touched' = (touched \/ (plan.svm /\ IsAnalysis(pos)))

\* before_attempt refuses: the error carries only the posts that ended.
StopAtBudget ==
    /\ proc = "ask"
    /\ ~ Allowed
    /\ Conclude(call, "budget_exhausted")
    /\ Touches
    /\ UNCHANGED <<tracker, doubts>>
    /\ AskFrame

\* _apply_context_budget refuses the prompt before a post.  The error is raised
\* outside the audited block, so it carries nothing of the answers before it.
TooLong ==
    /\ proc = "ask"
    /\ call.attempt = 0
    /\ Doubt(TRUE)
    /\ Conclude(NewCall, "invalid_request")
    /\ Touches
    /\ UNCHANGED tracker
    /\ AskFrame

AttemptFails ==
    /\ proc = "ask"
    /\ Allowed
    /\ Doubt(TRUE)
    /\ Tracked(RecordAttempt(tracker))
    /\ Touches
    /\ \E f \in Failures :
        LET c == Attempted(call)
        IN  CASE WillRetry(c, f.category) /\ f.kind # "garbled" -> Continue(c)
              [] /\ f.category = "structured_output_unsupported"
                 /\ ~ GivesUpUnsupported(c, Backend) -> Continue(WeakerMode(PostEnded(c)))
              [] OTHER -> Conclude(PostEnded(c), f.category)
    /\ AskFrame

Answers == [priced : BOOLEAN, content : {"no_message", "malformed", "parsed"}]
Outputs == IF IsAnalysis(pos) THEN AnalysisOutputs(Example) ELSE Decisions

\* The output nobody would remark on.
Expected(output) ==
    IF IsAnalysis(pos)
    THEN output = (IF Example.expects THEN "right" ELSE "none")
    ELSE output = (IF Proposal(pos) = "right" THEN "AUTO_EXECUTE" ELSE "ESCALATE")

\* A low stated confidence turns the fallback analyzer's answer into an
\* escalation of its own, which carries no cost and no proposal.
Escalated(c) == [NewCall EXCEPT !.sent = 1, !.parsed = 1, !.mode = "json_schema"]

AttemptAnswered ==
    /\ proc = "ask"
    /\ Allowed
    /\ Touches
    /\ \E answer \in Answers, output \in Outputs, unsure \in BOOLEAN :
        LET cost == AnswerCost(answer)
            charged == Charged(Attempted(call), cost)
            read == [charged EXCEPT !.parsed = @ + 1]
        IN  /\ Tracked(RecordAnswer(RecordAttempt(tracker), cost))
            /\ unsure => plan.svm /\ IsAnalysis(pos)
            /\ answer.content # "parsed" => ~ unsure /\ Expected(output)
            /\ Doubt(answer # [priced |-> TRUE, content |-> "parsed"] \/ unsure
                       \/ ~ Expected(output))
            /\ CASE answer.content = "no_message" -> Conclude(charged, "malformed_output")
                 [] answer.content = "malformed" /\ ~ GivesUpMalformed(read, Backend) ->
                        Continue(AfterMalformed(read))
                 [] answer.content = "malformed" /\ GivesUpMalformed(read, Backend) ->
                        Conclude(read, "malformed_output")
                 [] unsure -> Conclude(Escalated(read), "none")
                 [] OTHER -> Conclude(read, output)
    /\ AskFrame

\* FallbackAnalyzer.analyze: a confident classifier answers without any request,
\* and its result counts one attempt and one parse by default.
ClassifierAnswers ==
    /\ proc = "ask"
    /\ plan.svm
    /\ IsAnalysis(pos)
    /\ call = NewCall
    /\ \E output \in Outputs :
        /\ Doubt(~ Expected(output))
        /\ Conclude(Escalated(NewCall), output)
    /\ UNCHANGED <<touched, tracker>>
    /\ AskFrame

-----------------------------------------------------------------------------
(* What is committed of a call, and the step after each commit.            *)

Categories == {"authentication", "permission", "timeout", "rate_limit",
               "provider_unavailable", "model_unavailable", "invalid_request",
               "structured_output_unsupported", "unknown", "malformed_output",
               "budget_exhausted"}

\* The context a run is filed under is hashed when the run is persisted.
FiledContext == ContextOf(pos, touched)

\* A call the budget stopped before anything was sent leaves a marker only.
StoreMarker ==
    /\ proc = "store"
    /\ ended = "budget_exhausted" /\ call.sent = 0
    /\ inferences' = Upserted(InferenceId(pos), "paused", 0, FALSE, None)
    /\ proc' = "sync"
    /\ UNCHANGED <<plan, memory, evaluation, runs, cache, report, doubts, starts>>

StoreFailure ==
    /\ proc = "store"
    /\ ended \in Categories
    /\ ~ (ended = "budget_exhausted" /\ call.sent = 0)
    /\ runs' = Append(runs, FailedRun(call, FiledContext, ModelAt(pos)))
    /\ inferences' = Upserted(InferenceId(pos), "error", Len(runs) + 1, FALSE, None)
    /\ proc' = "sync"
    /\ UNCHANGED <<plan, memory, evaluation, cache, report, doubts, starts>>

\* refresh drops the entries of the question under the other modes.
\* Slip of StaleKeys: a refresh only writes its own entry.
NothingStale(key) == {}
StaleKeys(key) == IF plan.cache = "refresh" THEN Keys(asked) \ {key} ELSE {}

\* The answer, the cache entry under the keys of the question as it was asked,
\* and the inference row commit together.
StoreResult ==
    /\ proc = "store"
    /\ ended \notin Categories
    /\ LET key == CacheKey(asked, call.mode)
           id == Len(runs) + 1
           kept == [k \in DOMAIN cache \ StaleKeys(key) |-> cache[k]]
       IN  /\ runs' = Append(runs, ResultRun(call, ended, FiledContext, ModelAt(pos)))
           /\ cache' = IF plan.cache = "no_cache" THEN cache ELSE Assign(kept, key, id)
           /\ inferences' = Upserted(InferenceId(pos), "complete", id, FALSE, key)
    /\ proc' = "sync"
    /\ UNCHANGED <<plan, memory, evaluation, report, doubts, starts>>

\* _sync_run: the tracker is copied to the evaluation row in a transaction of
\* its own.
Synced == [evaluation EXCEPT !.cost = tracker.cost, !.requests = tracker.requests,
                             !.unknown = tracker.unknown]

\* The error is raised further, or the answer shows that the budget is spent.
Raises ==
    \/ ended \in Categories /\ ~ Tolerated(ended)
    \/ ended \notin Categories /\ BudgetStatus(tracker, Policy) # "open"

SyncCall ==
    /\ proc = "sync"
    /\ evaluation' = Synced
    /\ IF Raises
       THEN /\ failure' = IF ended \in Categories THEN ended ELSE "budget_exhausted"
            /\ proc' = "stop"
            /\ UNCHANGED <<pos, results, memo, routes>>
       ELSE LET r == IF ended \in Categories THEN Missed ELSE Got(ended, FALSE)
            IN  /\ StepTo(pos, r)
                /\ Remember(pos, r)
                /\ routes' = IF ended = "structured_output_unsupported"
                             THEN routes \cup {ModelAt(pos)} ELSE routes
                /\ UNCHANGED failure
    /\ UNCHANGED <<plan, row, touched, asked, call, ended, tracker, predictions,
                   inferences, runs, cache, report, doubts, starts>>

\* After a cache hit the tracker is copied too, and the budget is not enforced.
SyncHit ==
    /\ proc = "reuse"
    /\ evaluation' = Synced
    /\ LET r == Got(ended, TRUE) IN StepTo(pos, r) /\ Remember(pos, r)
    /\ UNCHANGED <<plan, row, routes, touched, asked, call, ended, tracker,
                   predictions, failure, inferences, runs, cache, report,
                   doubts, starts>>

-----------------------------------------------------------------------------
(* The end of a row, of the evaluation, and of the process.                *)

\* A pair's prediction: a failed one when its analysis or its verification
\* failed.
PredictionOf(i) ==
    LET analysis == results[Pairs[i].a]
        verdict == results[Analyzers + i]
    IN  IF analysis.failed \/ (analysis.output # "none" /\ verdict.failed)
        THEN FailedPrediction
        ELSE Prediction(analysis.output, verdict.output)

Judge ==
    /\ proc = "judge"
    /\ predictions' = [i \in DOMAIN Pairs |-> Append(predictions[i], PredictionOf(i))]
    /\ evaluation' = [Synced EXCEPT !.checkpoint = row]
    /\ IF row < Len(plan.examples)
       THEN row' = row + 1 /\ pos' = 1 /\ proc' = "lookup"
       ELSE proc' = "report" /\ UNCHANGED <<row, pos>>
    /\ results' = NoResults
    /\ memo' = {} /\ touched' = FALSE
    /\ UNCHANGED <<plan, routes, asked, call, ended, tracker, failure,
                   inferences, runs, cache, report, doubts, starts>>

\* The memory of a process that has not started or is gone.
Forgotten ==
    /\ row' = 1 /\ pos' = 1 /\ results' = NoResults
    /\ memo' = {} /\ routes' = {} /\ touched' = FALSE /\ asked' = None
    /\ call' = NewCall /\ ended' = "open" /\ tracker' = NewTracker
    /\ predictions' = [i \in DOMAIN Pairs |-> <<>>] /\ failure' = "none"

\* The reports, the comparison, the selection, then the final status.
Report ==
    /\ proc = "report"
    /\ LET summaries == [i \in DOMAIN Pairs |-> Summary(plan.examples, predictions[i])]
       IN  report' = [rows |-> predictions,
                      selected |-> Recommended(summaries),
                      doubtful |-> [i \in DOMAIN Pairs |->
                                      PolicyFailures(plan.examples, predictions[i])]]
    /\ evaluation' = [Synced EXCEPT !.status = "complete", !.checkpoint = Len(plan.examples)]
    /\ proc' = "down"
    /\ Forgotten
    /\ UNCHANGED <<plan, inferences, runs, cache, doubts, starts>>

\* A keyboard interrupt at any step reaches the handler below.
Interrupt ==
    /\ proc \notin {"down", "stop"}
    /\ starts < plan.starts
    /\ proc' = "stop"
    /\ failure' = "manual_interrupt"
    /\ UNCHANGED <<plan, row, pos, results, memo, routes, touched, asked, call,
                   ended, tracker, predictions, database, doubts, starts>>

\* The handler of run_persistent_matrix.
Stop ==
    /\ proc = "stop"
    /\ evaluation' = [Synced EXCEPT
                        !.status = IF failure = "budget_exhausted"
                                   THEN "budget_stopped" ELSE "paused"]
    /\ proc' = "down"
    /\ Forgotten
    /\ UNCHANGED <<plan, inferences, runs, cache, report, doubts, starts>>

\* The process is killed: no handler runs.
Crash ==
    /\ proc # "down"
    /\ starts < plan.starts
    /\ proc' = "down"
    /\ Forgotten
    /\ UNCHANGED <<plan, database, doubts, starts>>

-----------------------------------------------------------------------------
Init ==
    /\ plan \in Plans
    /\ proc = "down"
    /\ row = 1 /\ pos = 1
    /\ results = NoResults
    /\ memo = {} /\ routes = {} /\ touched = FALSE /\ asked = None
    /\ call = NewCall /\ ended = "open" /\ tracker = NewTracker
    /\ predictions = [i \in DOMAIN Pairs |-> <<>>]
    /\ failure = "none"
    /\ evaluation = None
    /\ inferences = <<>> /\ runs = <<>> /\ cache = <<>>
    /\ report = None
    /\ doubts = 0 /\ starts = 0

Next ==
    \/ Begin
    \/ SkipRoute \/ ReuseVerification \/ Resume \/ UseCache \/ Invoke
    \/ StopAtBudget \/ TooLong \/ AttemptFails \/ AttemptAnswered \/ ClassifierAnswers
    \/ StoreMarker \/ StoreFailure \/ StoreResult
    \/ SyncCall \/ SyncHit
    \/ Judge \/ Report \/ Interrupt \/ Stop \/ Crash

Spec == Init /\ [][Next]_vars

-----------------------------------------------------------------------------
(* Properties.                                                             *)

\* An inference recorded as complete is never sent to a model again, whatever
\* crashes, interrupts and resumptions lie between (plain model analyzers).
PaidOnce ==
    [][proc = "lookup" /\ proc' = "ask" /\ ~ plan.svm
        => Lookup(inferences, InferenceId(pos)).status # "complete"]_vars

\* A running process guards against at least the known costs of every model
\* run committed so far, those of failed attempts and of processes that died
\* included (plain analyzers on the endpoints that have a budget).
SpendIsRemembered ==
    proc # "down" /\ ~ plan.svm /\ Backend.tracked =>
        tracker.cost >= SumFunction(KnownCosts)

\* Retries, weaker modes, the repair and resumptions taken together never spend
\* more than the answer that reached the stop threshold (an answer costs one).
NeverPastTheStop == tracker.cost <= plan.stop

\* Refreshing leaves at most one cached answer to a question: a later run
\* cannot find the replaced answer under another structured-output mode.
RefreshLeavesOneAnswer ==
    plan.cache = "refresh" =>
        \A x, y \in DOMAIN cache : x.question = y.question => x = y

\* Every valid prediction of a finished report is the answer of the committed
\* runs its inference rows point to, given by that model for that text.
Recorded(r, model, proposal) ==
    Lookup(inferences, [row |-> r, model |-> model, proposal |-> proposal])

AnswersFor(i, r, model) ==
    /\ i.status = "complete"
    /\ runs[i.run].ok
    /\ runs[i.run].model = model
    /\ runs[i.run].context.text = plan.examples[r].text

ReportMatchesRecords ==
    report # None =>
        \A i \in DOMAIN Pairs, r \in DOMAIN plan.examples :
            LET p == report.rows[i][r]
                analyzer == <<"analysis", Pairs[i].a>>
                verifier == <<"verification", Pairs[i].v>>
                analysis == Recorded(r, analyzer, "")
                verdict == Recorded(r, verifier, p.output)
            IN  p.valid =>
                    /\ AnswersFor(analysis, r, analyzer)
                    /\ p.output = runs[analysis.run].output
                    /\ p.output # "none" =>
                        /\ AnswersFor(verdict, r, verifier)
                        /\ p.decision = runs[verdict.run].output

\* A pair that executed anything but the expected operation of a scored example
\* is never the recommended one, and that example is listed against it.
RecommendedIsSafe ==
    report # None =>
        \A i \in DOMAIN Pairs, r \in DOMAIN plan.examples :
            LET p == report.rows[i][r]
                example == plan.examples[r]
            IN  /\ example.scored
                /\ p.decision = "AUTO_EXECUTE"
                /\ ~ (example.expects /\ p.output = "right")
                => i \notin report.selected /\ r \in report.doubtful[i]
=============================================================================
