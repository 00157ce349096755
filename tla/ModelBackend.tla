---------------------------- MODULE ModelBackend ----------------------------
(***************************************************************************)
(* One structured inference over an OpenAI-compatible endpoint, and the    *)
(* budget it is charged to (ai/openai_compatible_backend.py, ai/cost.py,   *)
(* ai/errors.py).  The operators here say what one HTTP attempt or one     *)
(* answer does to the call and to the budget tracker; the module that      *)
(* EXTENDS this one takes them as steps.                                   *)
(*                                                                         *)
(* A cost is a number of units; NoCost stands for None, a cost nobody      *)
(* reported and for which no price is configured.                          *)
(***************************************************************************)
EXTENDS Integers, Sequences

CONSTANT MaxRetries     \* GenerationConfig.max_retries

ASSUME RetriesAssumption == MaxRetries \in Nat

NoCost == -1

-----------------------------------------------------------------------------
(* build_model_services: only the vLLM deployments get the budget tracker  *)
(* and the ladder of weaker structured-output modes; other endpoints are   *)
(* asked for a schema or nothing, and charged to nobody.                   *)

Service(provider) == [tracked |-> provider = "vllm", ladder |-> provider = "vllm"]

-----------------------------------------------------------------------------
(* The budget tracker.  policy.stop is stop_before_usd, policy.strict the  *)
(* negation of allow_unknown_cost.                                         *)

NewTracker == [cost |-> 0, requests |-> 0, unknown |-> 0]

\* before_attempt: raises when an unknown cost was seen under a strict policy
\* or the known spend has reached the stop threshold.
\* Slip of MayAttempt: one more request at the threshold.
MayReachStop(tracker, policy) ==
    /\ ~ (policy.strict /\ tracker.unknown > 0)
    /\ tracker.cost <= policy.stop
MayAttempt(tracker, policy) ==
    /\ ~ (policy.strict /\ tracker.unknown > 0)
    /\ tracker.cost < policy.stop

RecordAttempt(tracker) == [tracker EXCEPT !.requests = @ + 1]

RecordAnswer(tracker, cost) ==
    IF cost = NoCost
    THEN [tracker EXCEPT !.unknown = @ + 1]
    ELSE [tracker EXCEPT !.cost = @ + cost]

BudgetStatus(tracker, policy) ==
    IF tracker.unknown > 0 /\ policy.strict THEN "stopped_unknown_cost"
    ELSE IF tracker.cost >= policy.stop THEN "stopped" ELSE "open"

-----------------------------------------------------------------------------
(* What one attempt can meet.                                              *)

\* calculate_cost: what the provider reported, or nothing at all: the
\* deployments this budget is used with have no price list.
AnswerCost(answer) == IF answer.priced THEN 1 ELSE NoCost

\* classify_http_failure, on the status and on whether the text rejects the
\* requested response format.
HttpCategory(status, format) ==
    CASE status = 401 -> "authentication"
      [] status = 403 -> "permission"
      [] status = 408 -> "timeout"
      [] status = 429 -> "rate_limit"
      [] status \in {502, 503, 504} -> "provider_unavailable"
      [] status = 404 -> "model_unavailable"
      [] status \in {400, 406, 415, 422} /\ format -> "structured_output_unsupported"
      [] \/ status \in {405, 409}
         \/ status \in {400, 415, 422} /\ ~ format -> "invalid_request"
      [] OTHER -> "unknown"

\* One failed attempt: no answer in time, a broken connection, an HTTP error,
\* or a success whose body is not a JSON object.
Failures ==
    {[kind |-> "silence", category |-> "timeout"],
     [kind |-> "broken", category |-> "provider_unavailable"],
     [kind |-> "garbled", category |-> "unknown"]}
    \cup {[kind |-> "http", category |-> HttpCategory(h[1], h[2])] :
            h \in {<<429, FALSE>>, <<401, FALSE>>, <<400, TRUE>>}}

Retryable(category) == category \in {"rate_limit", "timeout", "provider_unavailable"}

\* The error kinds an evaluation records and goes on after.
Tolerated(category) == category \in {"malformed_output", "structured_output_unsupported"}

-----------------------------------------------------------------------------
(* The state of generate_structured: the mode it asks in, the number of    *)
(* the attempt within the present _post, the attempts of the posts that    *)
(* ended, and the sums over the answers it got.                            *)

NewCall ==
    [mode |-> "json_schema", repair |-> FALSE, attempt |-> 0, sent |-> 0,
     answers |-> 0, parsed |-> 0, cost |-> 0, known |-> TRUE]

\* before_attempt passed: one more request crosses the wire.
Attempted(call) == [call EXCEPT !.attempt = @ + 1]

\* _post returned or raised: its attempts are added to the total.
PostEnded(call) == [call EXCEPT !.sent = @ + call.attempt, !.attempt = 0]

WillRetry(call, category) == Retryable(category) /\ call.attempt <= MaxRetries

\* The sums over the responses, taken before the answer is looked at.
Charged(call, cost) ==
    [PostEnded(call) EXCEPT
        !.answers = @ + 1,
        !.cost = IF cost = NoCost THEN @ ELSE @ + cost,
        !.known = @ /\ cost # NoCost]

\* The next, weaker way to ask for the structure; at the end of the ladder the
\* call stays as it is.
WeakerMode(call) ==
    [call EXCEPT !.mode = CASE @ = "json_schema" -> "json_object"
                            [] @ = "json_object" -> "prompt_json"
                            [] OTHER -> @]

\* An answer that fails validation: a weaker mode, then one repair.
AfterMalformed(call) ==
    IF call.mode = "prompt_json"
    THEN [call EXCEPT !.repair = TRUE]
    ELSE WeakerMode(call)

GivesUpMalformed(call, service) ==
    ~ service.ladder \/ (call.mode = "prompt_json" /\ call.repair)
GivesUpUnsupported(call, service) == ~ service.ladder \/ call.mode = "prompt_json"

\* The total a result or an audited error carries: None as soon as one of the
\* answers had no cost.
TotalCost(call) == IF call.answers > 0 /\ call.known THEN call.cost ELSE NoCost

\* persist_model_run and persist_failed_model_run: what is kept of a call of a model
\* in an input context.
ResultRun(call, output, context, model) ==
    [ok |-> TRUE, output |-> output, cost |-> TotalCost(call),
     attempts |-> call.sent, parsed |-> call.parsed, mode |-> call.mode,
     context |-> context, model |-> model]

FailedRun(call, context, model) ==
    [ResultRun(call, "none", context, model) EXCEPT !.ok = FALSE]
=============================================================================
