---------------------------- MODULE DecisionRules ----------------------------
(***************************************************************************)
(* The rules between a mail and the decision about one operation, as       *)
(* functions of what was read: sender authorization, numeric candidates,   *)
(* the checks around the intent classifier, the request-wide safety        *)
(* assessment and HybridDecisionEngine.decide.                             *)
(*                                                                         *)
(* A text is what the patterns find in it: the actions its clauses name    *)
(* and whether they negate them, the numbers on each line, and a set of    *)
(* features.  A model's answer is any record of its schema.                *)
(***************************************************************************)
EXTENDS Integers, FiniteSets

CONSTANTS
  Pdvs, Phones,      \* well formed PDV codes and phone numbers
  Malformed,         \* values no pattern accepts
  None               \* a field without a value, a confidence that is missing

Action == {"vpn_access", "otp_number_change", "account_unblock", "password_reset"}

ASSUME ValuesAssumption ==
  /\ Pdvs \cap Phones = {} /\ (Pdvs \cup Phones) \cap Malformed = {}
  /\ None \notin Pdvs \cup Phones \cup Malformed \cup Int \cup Action

Strength == {"strong", "weak", "new", "conflict"}
FinalDecision == {"AUTO_EXECUTE", "ASK_FOR_INFORMATION", "ESCALATE",
                  "REVIEW_CORRECTION", "IGNORE"}

\* required_fields, with "phone" for the slot an OTP change calls "new_phone".
RequiredFields(action) ==
  CASE action \in {"vpn_access", "otp_number_change"} -> {"pdv_code", "phone"}
    [] action \in {"account_unblock", "password_reset"} -> {"pdv_code"}
    [] OTHER -> {}

ValueOf(proposal, field) == IF field = "phone" THEN proposal.phone ELSE proposal.pdv_code

\* validate_operation_fields: the required fields that are absent, and whether
\* everything that is present has its format and the action is known.
AbsentFields(proposal) ==
  {f \in RequiredFields(proposal.action) : ValueOf(proposal, f) = None}

WellFormed(proposal) ==
  /\ proposal.pdv_code \in Pdvs \cup {None}
  /\ proposal.phone \in Phones \cup {None}
  /\ proposal.action # "unknown"
-----------------------------------------------------------------------------
(* Authorization *)

\* StaticSenderAuthorizer and LDAPSenderAuthorizer: a malformed address, an
\* absent adapter and a failing lookup are all refusals.
Authorized(sender, source) ==
  /\ sender # "malformed"
  /\ CASE source = "static"       -> sender = "listed"
       [] source = "ldap"         -> sender = "listed"
       [] source = "ldap_failing" -> FALSE
       [] source = "ldap_absent"  -> FALSE
-----------------------------------------------------------------------------
(* Reading a text: clauses are [actions, negated, past], lines [pdvs, phones] *)

PdvsOn(lines)   == UNION {l.pdvs : l \in lines}
PhonesOn(lines) == UNION {l.phones : l \in lines}

\* _positive_actions: the actions that a clause names without a negation.
PositiveActions(clauses) == UNION {c.actions : c \in {d \in clauses : ~d.negated}}

\* _mapping_is_ambiguous.  Pairs stated one per line are the only explicit ones.
MappingIsAmbiguous(lines, features) ==
  LET pdvs == PdvsOn(lines)
      phones == PhonesOn(lines)
      paired == {l \in lines : Cardinality(l.pdvs) = 1 /\ Cardinality(l.phones) = 1}
  IN \/ Cardinality(pdvs) > 1 /\ "uncertain" \in features
     \/ /\ Cardinality(pdvs) > 1 \/ Cardinality(phones) > 1
        /\ \/ \E l \in lines : Cardinality(l.pdvs) > 1 \/ Cardinality(l.phones) > 1
           \/ /\ Cardinality(pdvs) > 1 /\ Cardinality(phones) > 1
              /\ Cardinality(paired) # Cardinality(phones)

\* _has_explicit_cross_operation_ambiguity: the sender declines to say which
\* value belongs to which of several operations.
CrossOperationAmbiguity(mail, operations) ==
  operations > 1 /\ "unattributed" \in mail.features
-----------------------------------------------------------------------------
(* Around the intent classifier *)

\* _operation_reasons: why a proposal may not be taken from this text.
Unsafe(mail, action) ==
  LET naming == {c \in mail.clauses : action \in c.actions}
  IN \/ "override_attempt" \in mail.features
     \/ \E c \in naming : c.negated
     \/ naming # {} /\ \A c \in naming : c.past
     \/ "unsupported_topic" \in mail.features /\ naming = {}

\* apply_intent_safety: unsafe proposals are removed; without any left, the
\* mail is irrelevant.
IntentSafety(mail, analysis) ==
  LET safe == {p \in analysis.operations : ~Unsafe(mail, p.action)}
  IN IF safe = {} /\ analysis.operations # {}
       THEN [analysis EXCEPT !.operations = {}, !.kind = "irrelevant",
                             !.new_request = FALSE]
       ELSE [analysis EXCEPT !.operations = safe]

\* FallbackAnalyzer._build_operation_from_svm: the first candidate of each kind
\* (the text has an order the set of lines has not, so any of them).
SvmProposals(mail, action, confidence) ==
  LET first(S, needed) == IF needed /\ S # {} THEN S ELSE {None}
      needsPhone == "phone" \in RequiredFields(action)
      found(f, x) == IF x = None THEN {}
                     ELSE {[field |-> f, value |-> x, source |-> "latest_user_message",
                            supported |-> TRUE]}
  IN {[id |-> "svm-op-1", action |-> action, pdv_code |-> pdv, phone |-> phone,
       missing |-> {f \in RequiredFields(action) :
                      (IF f = "phone" THEN phone ELSE pdv) = None},
       evidence |-> found("pdv_code", pdv) \cup found("phone", phone),
       extra |-> {}, ambiguous |-> FALSE, confidence |-> confidence] :
        pdv \in first(PdvsOn(mail.lines), TRUE),
        phone \in first(PhonesOn(mail.lines), needsPhone)}

NoSignals ==
  [contradiction |-> FALSE, unresolved |-> {}, direct |-> "unknown",
   hypothetical |-> FALSE, forwarded |-> FALSE, subject_conflict |-> FALSE,
   mapping |-> "unknown"]

Analysis(kind, operations, signals) ==
  [kind |-> kind, operations |-> operations, new_request |-> kind = "new_request",
   contradiction |-> signals.contradiction, unresolved |-> signals.unresolved,
   direct |-> signals.direct, hypothetical |-> signals.hypothetical,
   forwarded |-> signals.forwarded, subject_conflict |-> signals.subject_conflict,
   mapping |-> signals.mapping]

\* _gemma_confidence: the first confidence that is stated, of operations in any
\* order.
ModelConfidence(analysis) ==
  LET stated == {p.confidence : p \in analysis.operations} \ {None}
  IN IF stated # {} THEN stated
     ELSE IF analysis.operations # {} THEN {100} ELSE {0}

\* FallbackAnalyzer.analyze: what it may return when the classifier gives label
\* with this confidence and the model would return llm.  threshold is the larger
\* of the label's own and the configured one: the code tests both.
FallbackAnalyses(mail, label, confidence, threshold, llm, modelThreshold) ==
  IF confidence >= threshold
    THEN IF label \in Action
           THEN {Analysis("new_request", {p}, NoSignals) :
                   p \in SvmProposals(mail, label, confidence)}
           ELSE {Analysis("irrelevant", {}, NoSignals)}
    ELSE {IF c >= modelThreshold \/ (llm.kind = "irrelevant" /\ ~llm.new_request)
            THEN llm
            ELSE Analysis("ambiguous", {}, [NoSignals EXCEPT !.unresolved = {"unscoped"}]) :
          c \in ModelConfidence(llm)}
-----------------------------------------------------------------------------
(* _materialize_analysis: which operation a proposal is taken for *)

\* _single_field_clarification_proposal: the one phone number of a reply to a
\* question about nothing but a phone completes the stored operation.
CanonicalAnswer(mail, stored) ==
  LET pdvs == PdvsOn(mail.lines)
      phones == PhonesOn(mail.lines)
      said(field, value, source) ==
        [field |-> field, value |-> value, source |-> source, supported |-> TRUE]
  IN {[id |-> "op", action |-> stored.action, pdv_code |-> stored.pdv_code, phone |-> t,
       missing |-> {}, extra |-> {}, ambiguous |-> FALSE, confidence |-> None,
       evidence |-> {said("pdv_code", stored.pdv_code, "stored_request_state"),
                     said("phone", t, "latest_user_message")}] :
        t \in {x \in phones : /\ stored.status \notin {"COMPLETED", "CANCELLED"}
                             /\ stored.missing = {"phone"}
                             /\ phones = {x} /\ pdvs \subseteq {stored.pdv_code}}}

\* _clarification_proposal_matches_canonical
MatchesCanonical(proposal, canonical) ==
  /\ proposal.action = canonical.action /\ proposal.extra = {} /\ ~proposal.ambiguous
  /\ proposal.pdv_code \in {None, canonical.pdv_code}
  /\ proposal.phone \in {None, canonical.phone}

\* routing_analysis: a correction of nothing known, and an independent request in
\* a completed thread, are new requests.
AsNewRequest(analysis) ==
  [analysis EXCEPT !.kind = "new_request", !.contradiction = FALSE]

\* The analysis that stands with a canonical answer.
AsAnswer(analysis, canonical) ==
  [analysis EXCEPT !.kind = "clarification_reply", !.operations = {canonical},
                   !.new_request = FALSE, !.contradiction = FALSE, !.unresolved = {}]

Work(proposal, strength, known, analysis, items) ==
  [result |-> "work", proposal |-> proposal, strength |-> strength, known |-> known,
   analysis |-> analysis, items |-> items]
NoWork(result) ==
  [Work(None, "new", FALSE, None, 0) EXCEPT !.result = result]

\* A reply to an open question about one stored operation.
AnswerWork(mail, analysis, stored) ==
  LET canonical == {x \in CanonicalAnswer(mail, stored) :
                      /\ Cardinality(analysis.operations) <= 1
                      /\ \A p \in analysis.operations : MatchesCanonical(p, x)}
      own == {p \in analysis.operations :
                p.id = "op" \/ Cardinality(analysis.operations) = 1}
  IN IF canonical # {}
       THEN {Work(x, "strong", TRUE, AsAnswer(analysis, x), 1) : x \in canonical}
       ELSE {Work(p, "strong", TRUE, analysis, Cardinality(analysis.operations)) : p \in own}

\* A correction of the one operation of the request that the mail is about.
CorrectionWork(analysis, strength, stored) ==
  {Work(p, strength, TRUE, analysis, 1) :
     p \in {x \in analysis.operations : x.id = "op" \/ x.action = stored.action}}

\* Operations of a request of their own.
NewWork(analysis, strength, routed) ==
  {Work(p, IF strength = "weak" THEN "weak" ELSE "new", FALSE, routed,
        Cardinality(analysis.operations)) : p \in analysis.operations}

\* What a mail brings to the decision.  about says what it is about: an open
\* "question", a "request" without one, or "nothing".
Materialized(mail, strength, about, analysis, stored) ==
  LET independent == /\ about = "request" /\ stored.status = "COMPLETED"
                     /\ analysis.new_request /\ "independent" \in mail.features
      correction == analysis.kind = "correction"
      routed == IF independent \/ (strength = "new" /\ about = "nothing" /\ correction)
                  THEN AsNewRequest(analysis) ELSE analysis
      works == CASE about = "question" -> AnswerWork(mail, analysis, stored)
                 [] about = "request" /\ correction /\ ~independent ->
                      CorrectionWork(analysis, strength, stored)
                 [] OTHER -> NewWork(analysis, strength, routed)
  IN IF analysis.kind \in {"irrelevant", "automated"} /\ about # "question"
       THEN {NoWork("IGNORE")}
       ELSE IF works = {} THEN {NoWork("ESCALATE")} ELSE works
-----------------------------------------------------------------------------
(* assess_request_safety *)

IndependentFollowUp(mail, strength, analysis) ==
  strength = "strong" /\ analysis.new_request /\ "independent" \in mail.features

Disjoint(S, T) == S # {} /\ T # {} /\ S \cap T = {}

SubjectActionConflict(mail, strength) ==
  /\ strength = "new"
  /\ Disjoint(PositiveActions(mail.subject.clauses), PositiveActions(mail.clauses))

\* allow_subject_body_conflict_auto_execution, once any clause is negated.
SubjectOverride(mail, strength, policy) ==
  /\ SubjectActionConflict(mail, strength) /\ policy.subject_override
  /\ "negation" \in mail.features \/ \E c \in mail.clauses : c.negated

ForwardOverride(mail, analysis, policy) ==
  policy.forward_override /\ "forwarded" \in mail.features /\ analysis.direct = "yes"

UntrustedMarker(mail, strength) ==
  strength \in {"new", "weak"} /\ "marker" \in mail.features

\* What blocks automatic execution, check by check.
SafetyChecks(mail, strength, analysis, policy) ==
  LET pdvs == PdvsOn(mail.lines)
      phones == PhonesOn(mail.lines)
      proposedPdvs == {p.pdv_code : p \in analysis.operations} \ {None}
      proposedPhones == {p.phone : p \in analysis.operations} \ {None}
      pairs == Cardinality(pdvs) = Cardinality(phones) /\ Cardinality(pdvs) > 1
      uncertain == Cardinality(pdvs) > 1 /\ "uncertain" \in mail.features
      scoped == analysis.unresolved # {} /\ "unscoped" \notin analysis.unresolved
  IN [
        subject_identifier_conflict |->
          /\ strength = "new"
          /\ Disjoint(PdvsOn(mail.subject.lines), pdvs)
               \/ Disjoint(PhonesOn(mail.subject.lines), phones),
        subject_action_conflict |->
          SubjectActionConflict(mail, strength) /\ ~SubjectOverride(mail, strength, policy),
        reply_identifier_conflict |->
          /\ strength = "strong"
          /\ Disjoint(pdvs, proposedPdvs) \/ Disjoint(phones, proposedPhones),
        ambiguous_identifiers |->
          MappingIsAmbiguous(mail.lines, mail.features) /\ (pairs \/ uncertain \/ ~scoped),
        hypothetical |->
          {"conditional", "question"} \subseteq mail.features \/ analysis.hypothetical,
        reporting |-> {"example", "not_a_request"} \subseteq mail.features,
        signature |-> "signature_actions" \in mail.features /\ pdvs \cup phones # {},
        injection |-> "override_attempt" \in mail.features,
        forwarded_text |->
          /\ "forwarded" \in mail.features /\ ~IndependentFollowUp(mail, strength, analysis)
          /\ ~ForwardOverride(mail, analysis, policy),
        untrusted_marker |-> UntrustedMarker(mail, strength) /\ ~policy.marker_override,
        subject_only |->
          /\ PositiveActions(mail.subject.clauses) # {} /\ "empty" \in mail.features
          /\ PdvsOn(mail.subject.lines) \cup PhonesOn(mail.subject.lines) # {},
        no_direct_instruction |-> analysis.direct = "no",
        analyzer_subject_conflict |->
          analysis.subject_conflict /\ ~SubjectOverride(mail, strength, policy),
        mapping_not_explicit |->
          analysis.mapping = "no" /\ (Cardinality(pdvs) > 1 \/ Cardinality(phones) > 1),
        analyzer_forwarded |->
          analysis.forwarded /\ ~ForwardOverride(mail, analysis, policy),
        kind_not_executable |->
          \/ analysis.kind \in {"cancellation", "hypothetical_or_question",
                                "reporting_or_example"}
          \/ analysis.kind = "forwarded_request" /\ ~ForwardOverride(mail, analysis, policy)]

\* Every reason that blocks automatic execution, by the check that gives it.
SafetyReasons(mail, strength, analysis, policy) ==
  LET checks == SafetyChecks(mail, strength, analysis, policy)
  IN {r \in DOMAIN checks : checks[r]}
-----------------------------------------------------------------------------
(* HybridDecisionEngine.decide, of a context c *)

\* Slip of EvidenceAllowed: it trusts that supported evidence is where it says.
EvidenceClaimed(proposal, c, field) ==
  \E e \in proposal.evidence :
    /\ e.field = field /\ e.supported /\ e.value = ValueOf(proposal, field)
    /\ e.source \in {"latest_user_message", "stored_request_state"}

\* evidence_allowed: the value stands in the current message, or is stored state
\* of a strongly correlated request.
EvidenceAllowed(proposal, c, field) ==
  \E e \in proposal.evidence :
    /\ e.field = field /\ e.supported /\ e.value = ValueOf(proposal, field)
    /\ \/ e.source = "latest_user_message" /\ e.value \in c.current_values
       \/ /\ e.source = "stored_request_state" /\ c.strength = "strong"
          /\ e.value \in c.stored_values

\* present_required_evidence_allowed
AllEvidenceAllowed(proposal, c, policy) ==
  policy.provenance =>
    \A f \in RequiredFields(proposal.action) :
      ValueOf(proposal, f) = None \/ EvidenceAllowed(proposal, c, f)

\* required_evidence_complete
EvidenceComplete(proposal, policy) ==
  policy.provenance =>
    \A f \in RequiredFields(proposal.action) :
      \E e \in proposal.evidence : e.field = f /\ e.value # None /\ e.supported

ClosedHistoryQuoted(proposal) ==
  \E e \in proposal.evidence : e.source = "quoted_closed_history" /\ e.value # None

\* Slip of ConfidencePasses: a missing confidence passes.
ConfidencePassesIfMissing(confidence, threshold) ==
  threshold = None \/ confidence = None \/ confidence >= threshold

\* A threshold that is not configured passes; a missing confidence does not.
ConfidencePasses(confidence, threshold) ==
  threshold = None \/ (confidence # None /\ confidence >= threshold)

\* additional_fields: allowed for the action, and supported by text and verifier.
ExtrasAllowed(proposal, verification, c, policy) ==
  \A x \in proposal.extra :
    /\ proposal.action = "vpn_access" /\ x \in policy.vpn_fields
    /\ x \in verification.extra /\ x \in c.supported_extra

Agreement(proposal, verification, c, policy) ==
  /\ verification.action = "yes" /\ verification.pdv_code = "yes"
  /\ "phone" \in RequiredFields(proposal.action) => verification.phone = "yes"
  /\ EvidenceComplete(proposal, policy) /\ AllEvidenceAllowed(proposal, c, policy)

Contradiction(analysis, verification, c) ==
  \/ analysis.contradiction
  \/ verification.contradiction \notin {"none", "missing_field"}
  \/ verification.stored_state = "no" /\ c.strength # "new"

Ambiguous(analysis, proposal, c) ==
  \/ proposal.ambiguous \/ c.request_level_ambiguity \/ analysis.kind = "ambiguous"
  \/ {proposal.id, "unscoped"} \cap analysis.unresolved # {}

UnexpectedRequest(analysis, verification) ==
  verification.new_request /\ analysis.kind \notin {"new_request", "mixed"}

\* semantic_safety_reasons
VerifierDoubts(verification) ==
  \/ verification.hypothetical \/ verification.direct = "no"
  \/ verification.subject_conflict \/ verification.ambiguity
  \/ ~verification.sources_valid \/ verification.mapping = "no"

\* A reported field whose value is present is not missing; an unknown one is.
MissingFields(proposal, verification) ==
  {f \in proposal.missing \cup verification.missing :
     f \notin {"pdv_code", "phone"} \/ ValueOf(proposal, f) = None}

HardInvariants(proposal, verification, c, policy) ==
  /\ c.authorized_sender /\ ~c.correlation_conflict /\ ~c.previously_executed
  /\ AbsentFields(proposal) = {} /\ WellFormed(proposal)
  /\ c.operation_status \notin {"COMPLETED", "CANCELLED"}
  /\ ~ClosedHistoryQuoted(proposal) /\ AllEvidenceAllowed(proposal, c, policy)
  /\ ConfidencePasses(proposal.confidence, policy.analyzer_threshold)
  /\ ConfidencePasses(verification.confidence, policy.verifier_threshold)
  /\ ExtrasAllowed(proposal, verification, c, policy)
  /\ c.expected_action \in {None, proposal.action}
  /\ c.execution_configured /\ c.context_complete
  /\ c.safety_reasons = {} /\ ~VerifierDoubts(verification)

\* Slip of CorrectionOfKnown: only what the analyzer says.
CorrectionByAnalyzer(analysis, verification, c) ==
  analysis.kind = "correction" /\ ~(c.strength = "new" /\ c.expected_action = None)

CorrectionOfKnown(analysis, verification, c) ==
  /\ verification.correction \/ analysis.kind = "correction"
  /\ ~(c.strength = "new" /\ c.expected_action = None)

\* can_execute
CanExecute(analysis, proposal, verification, c, policy) ==
  /\ HardInvariants(proposal, verification, c, policy)
  /\ c.strength \in {"new", "strong"} /\ c.api_available
  /\ Agreement(proposal, verification, c, policy)
  /\ ~Contradiction(analysis, verification, c) /\ ~Ambiguous(analysis, proposal, c)
  /\ ~UnexpectedRequest(analysis, verification)

\* The decision, in the order of the method's returns.
Decision(analysis, proposal, verification, c, policy) ==
  LET incomplete == MissingFields(proposal, verification) # {}
                      \/ AbsentFields(proposal) # {} \/ ~WellFormed(proposal)
      askable == /\ WellFormed(proposal) /\ c.strength \in {"new", "strong"}
                 /\ c.authorized_sender /\ ~CorrectionOfKnown(analysis, verification, c)
  IN CASE analysis.kind \in {"irrelevant", "automated"} -> "IGNORE"
       [] analysis.kind \notin {"irrelevant", "automated"}
            /\ c.operation_status = "COMPLETED" -> "REVIEW_CORRECTION"
       [] OTHER ->
            IF incomplete /\ askable THEN "ASK_FOR_INFORMATION"
            ELSE IF CorrectionOfKnown(analysis, verification, c) THEN "REVIEW_CORRECTION"
            ELSE IF ~incomplete /\ CanExecute(analysis, proposal, verification, c, policy)
                   THEN "AUTO_EXECUTE" ELSE "ESCALATE"
=============================================================================
