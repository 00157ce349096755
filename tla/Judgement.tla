------------------------------ MODULE Judgement ------------------------------
(***************************************************************************)
(* One mail with one operation from the sender's authorization to the      *)
(* decision: _prepare, the analyzer, apply_intent_safety, the request-wide *)
(* safety assessment, _materialize_analysis, the verifier and decide, as   *)
(* _process_stored wires them.  The mail is clean: a first request, the    *)
(* answer to a question, or a follow-up in a known thread; each step may   *)
(* add doubts, which are what the text or the stored state has otherwise,  *)
(* and what either model answers otherwise.  The bound is on how many meet *)
(* in one mail.                                                            *)
(***************************************************************************)
EXTENDS DecisionRules

CONSTANTS
  MaxDoubts,         \* how many doubts meet in one mail
  pdv, otherPdv, phone, otherPhone

ASSUME MailAssumption ==
  {pdv, otherPdv} \subseteq Pdvs /\ {phone, otherPhone} \subseteq Phones /\ Malformed # {}

\* "answer" replies to an open question for the phone, "follow_up" to a request
\* without one.
Scenario == {"request", "answer", "follow_up"}

\* The settings: the exceptions of docs/weakness_policy_decisions.md off and on,
\* with and without thresholds (percent).
Policies ==
  {[subject_override |-> x, forward_override |-> x, marker_override |-> x,
    provenance |-> TRUE, analyzer_threshold |-> t, verifier_threshold |-> t,
    vpn_fields |-> {}] : x \in BOOLEAN, t \in {None, 70}}

MailDoubts ==
  {"unlisted", "malformed", "lookup_fails", "negated", "past", "negation", "forwarded",
   "independent", "marker", "override_attempt", "conditional", "example", "uncertain",
   "unattributed", "second_line", "same_line", "no_phone", "no_pdv", "subject_action",
   "subject_number", "weak"}
StoredDoubts ==
  {"executed", "completed", "cancelled", "other_action", "truncated", "not_configured"}
AnalysisDoubts ==
  {"invented_pdv", "invented_phone", "history", "unsupported", "malformed_pdv",
   "direct_yes", "direct_no", "a_hypothetical", "a_forwarded", "a_subject", "a_mapping",
   "kind_correction", "kind_ambiguous", "kind_irrelevant", "kind_cancellation",
   "second_operation", "no_operations", "unsure", "ambiguous", "unscoped", "scoped_elsewhere", "low", "no_confidence",
   "extra", "contradiction", "unknown_action", "classifier"}
VerifierDoubt ==
  {"v_action", "v_phone", "v_contradiction", "v_stored", "v_missing", "v_correction",
   "v_new_request", "v_fails", "v_low", "v_hypothetical", "v_direct", "v_mapping"}
Doubts == MailDoubts \cup StoredDoubts \cup AnalysisDoubts \cup VerifierDoubt

\* A mail has one kind, a signal one value, an operation one status.
Alternatives ==
  {{"kind_correction", "kind_ambiguous", "kind_irrelevant", "kind_cancellation"},
   {"direct_yes", "direct_no"}, {"completed", "cancelled"},
   {"classifier", "no_operations", "second_operation", "unsure"},
   {"unlisted", "malformed"}}

Possible(D) ==
  Cardinality(D) <= MaxDoubts /\ \A A \in Alternatives : Cardinality(D \cap A) <= 1

VARIABLES
  scenario, policy,
  doubts,            \* what is not clean, as far as the mail has come
  stage,             \* "arrived" "prepared" "analysed" "verified" "done"
  work,              \* what the analysis brought, NoWork("none") before
  outcome            \* the decision, "none" before there is one

vars == <<scenario, policy, doubts, stage, work, outcome>>
-----------------------------------------------------------------------------
(* What a set of doubts D stands for *)

Requested == "otp_number_change"

\* The mail states the PDV: a first request, or an independent one in a thread.
SaysPdv(sc, D) ==
  "no_pdv" \notin D /\ (sc = "request" \/ (sc = "follow_up" /\ "independent" \in D))

Mail(sc, D) ==
  [sender |-> CASE "malformed" \in D -> "malformed"
                [] "unlisted" \in D -> "unlisted"
                [] OTHER -> "listed",
   features |-> (D \cap {"negation", "forwarded", "independent", "marker",
                        "override_attempt", "uncertain", "unattributed"})
                \cup (IF "conditional" \in D THEN {"conditional", "question"} ELSE {})
                \cup (IF "example" \in D THEN {"example", "not_a_request"} ELSE {}),
   subject |-> [clauses |-> {[actions |-> {IF "subject_action" \in D THEN "account_unblock"
                                           ELSE Requested},
                              negated |-> FALSE, past |-> FALSE]},
                lines |-> {[pdvs |-> IF "subject_number" \in D THEN {otherPdv} ELSE {},
                            phones |-> {}]}],
   clauses |-> {[actions |-> {Requested}, negated |-> "negated" \in D,
                 past |-> "past" \in D]},
   lines |-> {[pdvs |-> (IF SaysPdv(sc, D) THEN {pdv} ELSE {})
                        \cup (IF "same_line" \in D THEN {otherPdv} ELSE {}),
               phones |-> (IF "no_phone" \in D THEN {} ELSE {phone})]}
             \cup (IF "second_line" \in D
                     THEN {[pdvs |-> {otherPdv}, phones |-> {otherPhone}]} ELSE {})]

PreparedStrength(sc, D) ==
  IF sc # "request" THEN "strong" ELSE IF "weak" \in D THEN "weak" ELSE "new"

\* A request whose subject and sender match an earlier one is weakly about it.
About(sc, D) ==
  CASE sc = "answer" -> "question"
    [] sc = "follow_up" \/ (sc = "request" /\ "weak" \in D) -> "request"
    [] OTHER -> "nothing"

\* The operation that the mail is about, if any: without its phone when there is
\* a question.
Stored(sc, D) ==
  [action |-> IF "other_action" \in D THEN "vpn_access" ELSE Requested,
   pdv_code |-> pdv, phone |-> IF sc = "answer" THEN None ELSE phone,
   missing |-> IF sc = "answer" THEN {"phone"} ELSE {},
   status |-> IF "completed" \in D THEN "COMPLETED"
              ELSE IF "cancelled" \in D THEN "CANCELLED" ELSE "NEW"]

\* The model's proposal: what it says of the text, or of the stored state in a
\* thread, is not necessarily there.
Proposal(sc, D) ==
  LET said(field, value, source) ==
        IF value = None THEN {}
        ELSE {[field |-> field, value |-> value, source |-> source,
               supported |-> "unsupported" \notin D]}
      p == IF "malformed_pdv" \in D THEN CHOOSE x \in Malformed : TRUE
           ELSE IF "invented_pdv" \in D THEN otherPdv
           ELSE IF "no_pdv" \in D THEN None ELSE pdv
      t == IF "invented_phone" \in D THEN otherPhone
           ELSE IF "no_phone" \in D THEN None ELSE phone
      usual == IF SaysPdv(sc, D) THEN "latest_user_message" ELSE "stored_request_state"
  IN [id |-> "op",
      action |-> IF "unknown_action" \in D THEN "unknown" ELSE Requested,
      pdv_code |-> p, phone |-> t,
      missing |-> IF t = None THEN {"phone"} ELSE {},
      evidence |-> said("pdv_code", p, IF "history" \in D THEN "quoted_closed_history" ELSE usual)
                   \cup said("phone", t, "latest_user_message"),
      extra |-> IF "extra" \in D THEN {"site"} ELSE {},
      ambiguous |-> "ambiguous" \in D,
      confidence |-> IF "no_confidence" \in D THEN None ELSE IF "low" \in D THEN 69 ELSE 70]

\* A second one, for the other PDV.
OtherProposal(sc) ==
  [Proposal(sc, {}) EXCEPT !.id = "op2", !.pdv_code = otherPdv, !.evidence = {}]

ModelAnalysis(sc, D) ==
  [kind |-> CASE "kind_correction" \in D -> "correction"
              [] "kind_ambiguous" \in D -> "ambiguous"
              [] "kind_irrelevant" \in D -> "irrelevant"
              [] "kind_cancellation" \in D -> "cancellation"
              [] OTHER -> IF sc = "answer" THEN "clarification_reply" ELSE "new_request",
   operations |-> (IF "no_operations" \in D THEN {} ELSE {Proposal(sc, D)})
                  \cup (IF "second_operation" \in D
                          THEN {OtherProposal(sc)} ELSE {}),
   new_request |-> sc # "answer" \/ "independent" \in D,
   contradiction |-> "contradiction" \in D,
   unresolved |-> (IF "unscoped" \in D THEN {"unscoped"} ELSE {})
                  \cup (IF "scoped_elsewhere" \in D THEN {"op2"} ELSE {}),
   direct |-> IF "direct_yes" \in D THEN "yes"
              ELSE IF "direct_no" \in D THEN "no" ELSE "unknown",
   hypothetical |-> "a_hypothetical" \in D, forwarded |-> "a_forwarded" \in D,
   subject_conflict |-> "a_subject" \in D,
   mapping |-> IF "a_mapping" \in D THEN "no" ELSE "unknown"]

\* The classifier answers alone when it is confident.
Analyses(sc, D) ==
  FallbackAnalyses(Mail(sc, D), Requested, IF "classifier" \in D THEN 80 ELSE 79, 80,
                   ModelAnalysis(sc, D), IF "unsure" \in D THEN 101 ELSE 0)

Verification(sc, D) ==
  [action |-> IF "v_action" \in D THEN "unclear" ELSE "yes", pdv_code |-> "yes",
   phone |-> IF "v_phone" \in D THEN "unclear" ELSE "yes",
   stored_state |-> IF "v_stored" \in D THEN "no" ELSE "yes",
   contradiction |-> IF "v_contradiction" \in D THEN "value" ELSE "none",
   missing |-> IF "v_missing" \in D THEN {"site"} ELSE {}, extra |-> {},
   correction |-> "v_correction" \in D, new_request |-> "v_new_request" \in D,
   confidence |-> IF "v_low" \in D THEN 69 ELSE 70, ambiguity |-> FALSE,
   direct |-> IF "v_direct" \in D THEN "no" ELSE "yes",
   hypothetical |-> "v_hypothetical" \in D, subject_conflict |-> FALSE,
   sources_valid |-> TRUE, mapping |-> IF "v_mapping" \in D THEN "no" ELSE "yes"]

\* _allowed_context_values: what stands in the message, what the stored operation
\* holds.
CurrentValues(sc, D) == PdvsOn(Mail(sc, D).lines) \cup PhonesOn(Mail(sc, D).lines)
StoredValues(sc, D) == {Stored(sc, D).pdv_code, Stored(sc, D).phone} \ {None}

\* DecisionContext, as _verify_and_decide fills it for some work; analysis is the
\* whole mail's.  Work that is not known is an operation of its own.
Context(sc, D, w, analysis, pol) ==
  LET mail == Mail(sc, D)
  IN [authorized_sender |-> TRUE, correlation_conflict |-> FALSE,
      strength |-> w.strength,
      previously_executed |-> w.known /\ "executed" \in D,
      operation_status |-> IF w.known THEN Stored(sc, D).status ELSE "NEW",
      api_available |-> TRUE, execution_configured |-> "not_configured" \notin D,
      expected_action |-> IF w.known THEN Stored(sc, D).action ELSE None,
      current_values |-> CurrentValues(sc, D),
      stored_values |-> IF w.known THEN StoredValues(sc, D) ELSE {},
      supported_extra |-> {}, context_complete |-> "truncated" \notin D,
      request_level_ambiguity |-> CrossOperationAmbiguity(mail, w.items),
      safety_reasons |-> SafetyReasons(mail, PreparedStrength(sc, D), analysis, pol)]

\* The analyses after apply_intent_safety, with the work each may bring; of two
\* proposals the second is not followed.
Works(sc, D) ==
  UNION {{[analysis |-> safe, work |-> w] :
            w \in {x \in Materialized(Mail(sc, D), PreparedStrength(sc, D), About(sc, D),
                                      safe, Stored(sc, D)) :
                     x.result = "work" => x.proposal.id # "op2"}} :
         safe \in {IntentSafety(Mail(sc, D), a) : a \in Analyses(sc, D)}}

\* A verifier that fails escalates.
Verdict(sc, D, pol, w) ==
  CASE w.work.result # "work" -> w.work.result
    [] w.work.result = "work" /\ "v_fails" \in D -> "ESCALATE"
    [] OTHER -> Decision(w.work.analysis, w.work.proposal, Verification(sc, D),
                         Context(sc, D, w.work, w.analysis, pol), pol)

SenderAuthorized(sc, D) ==
  Authorized(Mail(sc, D).sender, IF "lookup_fails" \in D THEN "ldap_failing" ELSE "static")

\* What is decided of the operation, over everything the analyzer may return.
Verdicts(sc, D, pol) ==
  IF SenderAuthorized(sc, D) THEN {Verdict(sc, D, pol, w) : w \in Works(sc, D)}
  ELSE {"ESCALATE"}
-----------------------------------------------------------------------------
(* The mail's way *)

UpToTwo(S) == {{}} \cup {{a, b} : a \in S, b \in S}

Init ==
  /\ scenario \in Scenario /\ policy \in Policies
  /\ doubts \in {D \in UpToTwo(MailDoubts) : Possible(D)}
  /\ stage = "arrived" /\ outcome = "none"
  /\ work = [analysis |-> None, work |-> NoWork("none")]

\* More doubts of a kind, within the bound.
Add(kind) ==
  \E D \in UpToTwo(kind) : Possible(doubts \cup D) /\ doubts' = doubts \cup D

\* _prepare: a sender who is not authorized goes no further.
Prepare ==
  /\ stage = "arrived"
  /\ IF SenderAuthorized(scenario, doubts)
       THEN stage' = "prepared" /\ outcome' = outcome /\ Add(StoredDoubts)
       ELSE stage' = "done" /\ outcome' = "ESCALATE" /\ doubts' = doubts
  /\ UNCHANGED <<scenario, policy, work>>

\* analyze, apply_intent_safety and _materialize_analysis
Analyze ==
  /\ stage = "prepared" /\ Add(AnalysisDoubts)
  /\ work' \in Works(scenario, doubts')
  /\ IF work'.work.result = "work"
       THEN stage' = "analysed" /\ outcome' = outcome
       ELSE stage' = "done" /\ outcome' = work'.work.result
  /\ UNCHANGED <<scenario, policy>>

\* verify and decide
VerifyAndDecide ==
  /\ stage = "analysed" /\ Add(VerifierDoubt)
  /\ outcome' = Verdict(scenario, doubts', policy, work)
  /\ stage' = "done"
  /\ UNCHANGED <<scenario, policy, work>>

Next == Prepare \/ Analyze \/ VerifyAndDecide

Spec == Init /\ [][Next]_vars
-----------------------------------------------------------------------------
(* Properties *)

Executed == outcome = "AUTO_EXECUTE"

\* The operation that is executed asks the business API for values that stand in
\* the sender's current message, or that the stored operation it is known to be
\* already holds: no answer of the models puts another number there.
NothingInvented ==
  Executed =>
    \A f \in RequiredFields(work.work.proposal.action) :
      ValueOf(work.work.proposal, f) \in
        CurrentValues(scenario, doubts)
        \cup (IF work.work.known THEN StoredValues(scenario, doubts) ELSE {})

\* What a doubt can do for a mail whose doubts are D.  An instruction of its own
\* excuses a forward, an independent request a stored state that contradicts it, a
\* negation a stale subject (docs/weakness_policy_decisions.md), an ambiguity that
\* is another operation's the reading of this one; the classifier's answer takes
\* the place of the model's; where the exceptions are on, what the text shows of a
\* forward or a stale subject explains what the model says of it.  A correction of
\* nothing known is a new request, which contradicts nothing.  And in an answer
\* from which apply_intent_safety or the analyzer leaves no operation, the number
\* itself answers the question: what the model doubted of it is gone, except that
\* a model whose answer is irrelevant is believed however unsure it is.
Excuses(sc, D, pol, known) ==
  {"direct_yes", "independent", "negation", "scoped_elsewhere", "classifier"}
  \cup (IF pol.subject_override THEN {"forwarded", "subject_action"} ELSE {})
  \cup (IF known THEN {} ELSE {"kind_correction", "completed"})
  \cup (IF sc = "answer" THEN {"negated", "past", "no_operations", "unsure"} ELSE {})
  \cup (IF sc = "answer" /\ "unsure" \in D THEN {"kind_irrelevant"} ELSE {})
\* Other values make another request, which NothingInvented speaks of.
OtherValues ==
  {"second_line", "same_line", "second_operation", "invented_pdv", "invented_phone",
   "no_pdv", "no_phone"}

\* The policy fails closed: a mail that is executed would be executed with any of
\* its doubts removed.  No doubt outweighs another, and none opens a way past a
\* check that an earlier one closed.
NoDoubtHelps ==
  Executed =>
    \A d \in doubts \ (Excuses(scenario, doubts, policy, work.work.known) \cup OtherValues) :
      Verdicts(scenario, doubts \ {d}, policy) \subseteq {"AUTO_EXECUTE"}

\* MailWorkflow's Decide lets an operation be executed only if it is open, has no
\* record and is not a correction of a stored one, and asks neither about a
\* completed one nor about such a correction: every decision is one of those.
DecisionsAreReachable ==
  work.work.known /\ stage = "done" =>
    LET correction == work.work.analysis.kind = "correction" \/ "v_correction" \in doubts
    IN /\ Executed => /\ {"executed", "completed", "cancelled"} \cap doubts = {}
                      /\ ~correction
       /\ outcome = "ASK_FOR_INFORMATION" => "completed" \notin doubts /\ ~correction
-----------------------------------------------------------------------------
(* A claim of the repository *)

\* docs/weakness_policy_decisions.md:156: the forwarded-content gate is removed
\* only by its setting, and only when the analyzer reports a direct instruction.
ForwardedIsReviewed ==
  Executed /\ "forwarded" \in doubts =>
    policy.forward_override /\ "direct_yes" \in doubts
=============================================================================
