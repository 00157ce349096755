-------------------------- MODULE EvaluationMetrics --------------------------
(***************************************************************************)
(* How an evaluation turns model outputs into one prediction per example   *)
(* and model pair, scores the predictions against the labelled examples,   *)
(* and recommends a pair (evaluation/pipeline_predictor.py, metrics.py,    *)
(* comparison.py).                                                         *)
(*                                                                         *)
(* An analysis proposes nothing, the expected operation ("right") or       *)
(* another one ("wrong"); the output of a verification is the decision the *)
(* production decision engine takes on it.                                 *)
(***************************************************************************)
EXTENDS Integers, Sequences, FiniteSets, SequencesExt

\* What an analysis of an example can propose: an example that expects no
\* operation has no right one.
AnalysisOutputs(example) ==
    {"none", "wrong"} \cup (IF example.expects THEN {"right"} ELSE {})

Decisions == {"AUTO_EXECUTE", "ESCALATE"}

\* materialize_prediction.  validation_passed compares the decisions with a
\* lower-case name, so no decision passes.
Prediction(output, decision) ==
    IF output = "none"
    THEN [output |-> "none", decision |-> "NONE", valid |-> TRUE,
          agreed |-> TRUE, validation |-> "unset"]
    ELSE [output |-> output, decision |-> decision, valid |-> TRUE,
          agreed |-> decision = "AUTO_EXECUTE",
          validation |-> IF decision = "auto_execute" THEN "passed" ELSE "failed"]

\* _failed_prediction: a row for an inference that ended in a tolerated error.
FailedPrediction ==
    [output |-> "none", decision |-> "ESCALATE", valid |-> FALSE,
     agreed |-> FALSE, validation |-> "failed"]

\* evaluate_predictions, the flags of one row.
JointMatch(example, p) ==
    IF example.expects THEN p.output = "right" ELSE p.output = "none"

AutoExecutes(p) == p.decision = "AUTO_EXECUTE"

UnsafeAutoExecute(example, p) ==
    /\ example.scored
    /\ AutoExecutes(p)
    /\ \/ ~ JointMatch(example, p)
       \/ ~ example.expects
       \/ p.output = "none"
       \/ example.contradiction
       \/ ~ p.valid

PassButWrong(example, p) ==
    example.scored /\ p.validation = "passed" /\ ~ JointMatch(example, p)

FailButCorrect(example, p) ==
    example.scored /\ p.validation = "failed" /\ JointMatch(example, p)

FalseEscalation(example, p) ==
    /\ example.scored
    /\ p.decision = "ESCALATE"
    /\ JointMatch(example, p)
    /\ ~ example.contradiction

\* coerce_prediction: a prediction that executes and does not say whether its
\* validation passed is taken to have passed it.
Normalized(p) ==
    [p EXCEPT !.validation = IF @ = "unset" /\ AutoExecutes(p) THEN "passed" ELSE @]

\* The counters of one pair over all examples.
Summary(examples, predictions) ==
    LET p == [i \in DOMAIN examples |-> Normalized(predictions[i])]
        Scored == {i \in DOMAIN examples : examples[i].scored}
    IN  [unsafe |-> Cardinality({i \in Scored : UnsafeAutoExecute(examples[i], p[i])}),
         wrong |-> Cardinality({i \in Scored : PassButWrong(examples[i], p[i])}),
         coverage |-> Cardinality({i \in Scored : examples[i].expects /\ AutoExecutes(p[i])}),
         invalid |-> Cardinality({i \in Scored : ~ p[i].valid}),
         disagreement |-> Cardinality({i \in Scored : ~ p[i].agreed})]

\* compare_runs: only a pair with both safety counters at zero may be
\* recommended; the order among those is coverage, then the failure rates.
\* Slip of Eligible: the least unsafe pair is good enough.
PassesValidation(summary) == summary.wrong = 0
Eligible(summary) == summary.unsafe = 0 /\ summary.wrong = 0

SafetyKey(summary) ==
    <<summary.unsafe, summary.wrong, -summary.coverage,
      summary.invalid, summary.disagreement>>

KeyPrecedes(x, y) ==
    \E i \in DOMAIN x : x[i] < y[i] /\ \A j \in 1 .. i - 1 : x[j] = y[j]

\* The positions of the pairs that may come first; the run name breaks ties.
Recommended(summaries) ==
    LET eligible == {i \in DOMAIN summaries : Eligible(summaries[i])}
        Before(i, j) == LET x == SafetyKey(summaries[i])
                            y == SafetyKey(summaries[j])
                        IN  KeyPrecedes(x, y) \/ (x = y /\ i <= j)
    IN  {i \in eligible : \A j \in eligible : Before(i, j)}

\* _failure_attribution: the rows whose decision a reviewer is asked to look at.
PolicyFailures(examples, predictions) ==
    {i \in DOMAIN examples :
        \/ UnsafeAutoExecute(examples[i], predictions[i])
        \/ PassButWrong(examples[i], predictions[i])
        \/ FailButCorrect(examples[i], predictions[i])
        \/ FalseEscalation(examples[i], predictions[i])}
=============================================================================
