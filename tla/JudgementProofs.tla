--------------------------- MODULE JudgementProofs ---------------------------
(***************************************************************************)
(* What an AUTO_EXECUTE of HybridDecisionEngine.decide rests on, and what  *)
(* follows for a mail, however many doubts meet in it.                     *)
(***************************************************************************)
EXTENDS Judgement, FiniteSetTheorems, TLAPS

\* An operation is executed only if every hard invariant holds, both models agree on
\* values whose evidence is allowed, and neither contradicts, hesitates or sees a
\* correction.
THEOREM ExecutionNeedsAgreement ==
  ASSUME NEW analysis, NEW proposal, NEW verification, NEW c, NEW pol,
         Decision(analysis, proposal, verification, c, pol) = "AUTO_EXECUTE"
  PROVE  /\ CanExecute(analysis, proposal, verification, c, pol)
         /\ ~CorrectionOfKnown(analysis, verification, c)
  BY DEF Decision

\* The evidence that is allowed names a value of the current message or of the stored
\* operation.
LEMMA EvidenceNamesValue ==
  ASSUME NEW analysis, NEW proposal, NEW verification, NEW c, NEW pol, pol.provenance,
         CanExecute(analysis, proposal, verification, c, pol),
         NEW f \in RequiredFields(proposal.action)
  PROVE  ValueOf(proposal, f) \in c.current_values \cup c.stored_values
<1>1. AbsentFields(proposal) = {} /\ AllEvidenceAllowed(proposal, c, pol)
  BY DEF CanExecute, HardInvariants
<1>2. ValueOf(proposal, f) # None
  BY <1>1 DEF AbsentFields
<1>3. EvidenceAllowed(proposal, c, f)
  BY <1>1, <1>2 DEF AllEvidenceAllowed
<1> QED
  BY <1>3 DEF EvidenceAllowed

\* A mail brings work, or is ignored or escalated.
LEMMA WorkResults ==
  ASSUME NEW sc, NEW D, NEW w \in Works(sc, D)
  PROVE  w.work.result \in {"work", "IGNORE", "ESCALATE"}
<1>1. PICK safe :
        \E x \in Materialized(Mail(sc, D), PreparedStrength(sc, D), About(sc, D), safe,
                              Stored(sc, D)) : w = [analysis |-> safe, work |-> x]
  BY DEF Works
<1>2. \A result : NoWork(result).result = result
  BY DEF NoWork, Work
<1>3. \A x \in Materialized(Mail(sc, D), PreparedStrength(sc, D), About(sc, D), safe,
                            Stored(sc, D)) : x.result \in {"work", "IGNORE", "ESCALATE"}
  <2>1. ASSUME NEW mail, NEW analysis, NEW stored, NEW x \in AnswerWork(mail, analysis, stored)
        PROVE  x.result = "work"
    BY <2>1 DEF AnswerWork, Work
  <2>2. ASSUME NEW analysis, NEW strength, NEW stored,
               NEW x \in CorrectionWork(analysis, strength, stored)
        PROVE  x.result = "work"
    BY <2>2 DEF CorrectionWork, Work
  <2>3. ASSUME NEW analysis, NEW strength, NEW routed, NEW x \in NewWork(analysis, strength, routed)
        PROVE  x.result = "work"
    BY <2>3 DEF NewWork, Work
  <2> QED
    BY <2>1, <2>2, <2>3, <1>2 DEF Materialized
<1> QED
  BY <1>1, <1>3

\* The invariant: a decision is about work, and comes last.
JudgementInv ==
  /\ policy \in Policies
  /\ stage \in {"arrived", "prepared", "analysed", "done"}
  /\ stage # "done" => outcome = "none"
  /\ stage = "analysed" => work.work.result = "work"
  /\ outcome \in {"AUTO_EXECUTE", "ASK_FOR_INFORMATION"} =>
       Decision(work.work.analysis, work.work.proposal, Verification(scenario, doubts),
                Context(scenario, doubts, work.work, work.analysis, policy), policy) = outcome

LEMMA JudgementInvInit == Init => JudgementInv
  BY DEF Init, JudgementInv

LEMMA JudgementInvNext == JudgementInv /\ [Next]_vars => JudgementInv'
<1> SUFFICES ASSUME JudgementInv, [Next]_vars PROVE JudgementInv'
  OBVIOUS
<1>1. CASE Prepare
  BY <1>1 DEF Prepare, JudgementInv
<1>2. CASE Analyze
  <2>1. work'.work.result \in {"work", "IGNORE", "ESCALATE"}
    BY <1>2, WorkResults DEF Analyze
  <2> QED
    BY <1>2, <2>1 DEF Analyze, JudgementInv
<1>3. CASE VerifyAndDecide
  <2>1. /\ work.work.result = "work" /\ stage' = "done"
        /\ outcome' = Verdict(scenario, doubts', policy, work)
        /\ UNCHANGED <<scenario, policy, work>>
    BY <1>3 DEF VerifyAndDecide, JudgementInv
  <2>2. outcome' # "ESCALATE" =>
          Decision(work.work.analysis, work.work.proposal, Verification(scenario, doubts'),
                   Context(scenario, doubts', work.work, work.analysis, policy), policy)
            = outcome'
    BY <2>1 DEF Verdict
  <2> QED
    BY <2>1, <2>2 DEF JudgementInv
<1>4. CASE UNCHANGED vars
  BY <1>4 DEF vars, JudgementInv
<1> QED
  BY <1>1, <1>2, <1>3, <1>4 DEF Next

\* A decision is what decide returns for the work and the doubts at hand.
THEOREM JudgementInvHolds == Spec => []JudgementInv
  BY JudgementInvInit, JudgementInvNext, PTL DEF Spec

\* No answer of the models, however many doubts it adds to those of the mail, puts a
\* number into an executed operation that neither the current message nor the stored
\* operation has.
THEOREM NoValueIsInvented == Spec => []NothingInvented
<1>1. JudgementInv => NothingInvented
  <2> SUFFICES ASSUME JudgementInv, Executed,
                      NEW f \in RequiredFields(work.work.proposal.action)
               PROVE  ValueOf(work.work.proposal, f) \in
                        CurrentValues(scenario, doubts)
                        \cup (IF work.work.known THEN StoredValues(scenario, doubts) ELSE {})
    BY DEF NothingInvented
  <2> DEFINE c == Context(scenario, doubts, work.work, work.analysis, policy)
  <2>1. CanExecute(work.work.analysis, work.work.proposal, Verification(scenario, doubts),
                   c, policy)
    BY ExecutionNeedsAgreement DEF JudgementInv, Executed
  <2>2. policy.provenance
    BY DEF JudgementInv, Policies
  <2>3. ValueOf(work.work.proposal, f) \in c.current_values \cup c.stored_values
    BY <2>1, <2>2, EvidenceNamesValue
  <2>4. /\ c.current_values = CurrentValues(scenario, doubts)
        /\ c.stored_values = IF work.work.known THEN StoredValues(scenario, doubts) ELSE {}
    BY DEF Context
  <2> QED
    BY <2>3, <2>4
<1> QED
  BY <1>1, JudgementInvHolds, PTL

\* An operation is asked about only if it is not completed, nor being corrected.
LEMMA AskingIsForOpenOperations ==
  ASSUME NEW analysis, NEW proposal, NEW verification, NEW c, NEW pol,
         Decision(analysis, proposal, verification, c, pol) = "ASK_FOR_INFORMATION"
  PROVE  /\ c.operation_status # "COMPLETED"
         /\ ~CorrectionOfKnown(analysis, verification, c)
  BY DEF Decision

\* What is decided of a stored operation is something MailWorkflow's Decide allows: no
\* operation that was executed, is over or is being corrected is executed, and none that
\* is completed or being corrected is asked about.
THEOREM DecisionsStayReachable == Spec => []DecisionsAreReachable
<1>1. JudgementInv => DecisionsAreReachable
  <2> SUFFICES ASSUME JudgementInv, work.work.known,
                      outcome \in {"AUTO_EXECUTE", "ASK_FOR_INFORMATION"}
               PROVE  /\ "completed" \notin doubts
                      /\ outcome = "AUTO_EXECUTE" => {"executed", "cancelled"} \cap doubts = {}
                      /\ ~(work.work.analysis.kind = "correction" \/ "v_correction" \in doubts)
    BY DEF DecisionsAreReachable, Executed
  <2> DEFINE c == Context(scenario, doubts, work.work, work.analysis, policy)
             v == Verification(scenario, doubts)
             stored == Stored(scenario, doubts)
  <2>1. Decision(work.work.analysis, work.work.proposal, v, c, policy) = outcome
    BY DEF JudgementInv
  <2>2. /\ ~CorrectionOfKnown(work.work.analysis, v, c)
        /\ c.operation_status # "COMPLETED"
        /\ outcome = "AUTO_EXECUTE" => ~c.previously_executed /\ c.operation_status # "CANCELLED"
    <3> HIDE DEF c, v
    <3>1. CASE outcome = "AUTO_EXECUTE"
      BY <2>1, <3>1, ExecutionNeedsAgreement DEF CanExecute, HardInvariants
    <3>2. CASE outcome = "ASK_FOR_INFORMATION"
      BY <2>1, <3>2, AskingIsForOpenOperations
    <3> QED
      BY <3>1, <3>2
  <2>3. /\ c.operation_status = stored.status /\ c.expected_action = stored.action
        /\ c.previously_executed = (work.work.known /\ "executed" \in doubts)
    BY DEF Context
  <2>4. "completed" \in doubts => stored.status = "COMPLETED"
    BY DEF Stored
  <2>5. "cancelled" \in doubts => stored.status \in {"COMPLETED", "CANCELLED"}
    BY DEF Stored
  <2>6. stored.action # None
    BY ValuesAssumption DEF Stored, Requested, Action
  <2>7. v.correction <=> "v_correction" \in doubts
    BY DEF Verification
  <2> HIDE DEF c, v, stored
  <2> QED
    BY <2>2, <2>3, <2>4, <2>5, <2>6, <2>7 DEF CorrectionOfKnown
<1> QED
  BY <1>1, JudgementInvHolds, PTL
-----------------------------------------------------------------------------
\* What an execution takes: the conditions of the last return of decide, and those under
\* which it is reached.
Executes(a, p, v, c, pol) ==
  /\ a.kind \notin {"irrelevant", "automated"} /\ c.operation_status # "COMPLETED"
  /\ MissingFields(p, v) = {} /\ ~CorrectionOfKnown(a, v, c)
  /\ CanExecute(a, p, v, c, pol)

\* decide returns AUTO_EXECUTE under those conditions and no others.
LEMMA DecisionExecutes ==
  ASSUME NEW a, NEW p, NEW v, NEW c, NEW pol
  PROVE  Decision(a, p, v, c, pol) = "AUTO_EXECUTE" <=> Executes(a, p, v, c, pol)
<1>1. ASSUME Decision(a, p, v, c, pol) = "AUTO_EXECUTE" PROVE Executes(a, p, v, c, pol)
  BY <1>1 DEF Decision, Executes
<1>2. ASSUME Executes(a, p, v, c, pol) PROVE Decision(a, p, v, c, pol) = "AUTO_EXECUTE"
  <2>1. AbsentFields(p) = {} /\ WellFormed(p)
    BY <1>2 DEF Executes, CanExecute, HardInvariants
  <2> QED
    BY <1>2, <2>1 DEF Decision, Executes
<1> QED
  BY <1>1, <1>2

\* The verdict on work of a mail with the doubts D.
Execution(sc, D, pol, w) ==
  /\ w.work.result = "work" /\ "v_fails" \notin D
  /\ Executes(w.work.analysis, w.work.proposal, Verification(sc, D),
              Context(sc, D, w.work, w.analysis, pol), pol)

\* So does the verdict.
LEMMA VerdictExecutes ==
  ASSUME NEW sc, NEW D, NEW pol, NEW w \in Works(sc, D)
  PROVE  Verdict(sc, D, pol, w) = "AUTO_EXECUTE" <=> Execution(sc, D, pol, w)
<1>1. w.work.result \in {"work", "IGNORE", "ESCALATE"}
  BY WorkResults
<1>2. Verdict(sc, D, pol, w) = "AUTO_EXECUTE" <=>
        /\ w.work.result = "work" /\ "v_fails" \notin D
        /\ Decision(w.work.analysis, w.work.proposal, Verification(sc, D),
                    Context(sc, D, w.work, w.analysis, pol), pol) = "AUTO_EXECUTE"
  BY <1>1 DEF Verdict
<1> QED
  BY <1>2, DecisionExecutes DEF Execution
-----------------------------------------------------------------------------
(* The reasons of assess_request_safety, one by one *)

\* No reason is given exactly if each of the checks is passed.
NoReason(mail, strength, analysis, pol) ==
  LET pdvs == PdvsOn(mail.lines)
      phones == PhonesOn(mail.lines)
      override == SubjectOverride(mail, strength, pol)
      forward == ForwardOverride(mail, analysis, pol)
      scoped == analysis.unresolved # {} /\ "unscoped" \notin analysis.unresolved
      uncertain == Cardinality(pdvs) > 1 /\ "uncertain" \in mail.features
      pairs == Cardinality(pdvs) = Cardinality(phones) /\ Cardinality(pdvs) > 1
  IN /\ strength = "new" => /\ ~Disjoint(PdvsOn(mail.subject.lines), pdvs)
                            /\ ~Disjoint(PhonesOn(mail.subject.lines), phones)
     /\ SubjectActionConflict(mail, strength) => override
     /\ strength = "strong" =>
          /\ ~Disjoint(pdvs, {p.pdv_code : p \in analysis.operations} \ {None})
          /\ ~Disjoint(phones, {p.phone : p \in analysis.operations} \ {None})
     /\ ~(MappingIsAmbiguous(mail.lines, mail.features) /\ (pairs \/ uncertain \/ ~scoped))
     /\ ~({"conditional", "question"} \subseteq mail.features) /\ ~analysis.hypothetical
     /\ ~({"example", "not_a_request"} \subseteq mail.features)
     /\ ~("signature_actions" \in mail.features /\ pdvs \cup phones # {})
     /\ "override_attempt" \notin mail.features
     /\ "forwarded" \in mail.features =>
          IndependentFollowUp(mail, strength, analysis) \/ forward
     /\ UntrustedMarker(mail, strength) => pol.marker_override
     /\ ~(/\ PositiveActions(mail.subject.clauses) # {} /\ "empty" \in mail.features
          /\ PdvsOn(mail.subject.lines) \cup PhonesOn(mail.subject.lines) # {})
     /\ analysis.direct # "no"
     /\ analysis.subject_conflict => override
     /\ analysis.mapping = "no" => Cardinality(pdvs) <= 1 /\ Cardinality(phones) <= 1
     /\ analysis.forwarded => forward
     /\ analysis.kind \notin {"cancellation", "hypothetical_or_question",
                              "reporting_or_example"}
     /\ analysis.kind = "forwarded_request" => forward

\* assess_request_safety has no reason to object exactly if each check is passed.
LEMMA ReasonsOneByOne ==
  ASSUME NEW mail, NEW strength, NEW analysis, NEW pol,
         Cardinality(PdvsOn(mail.lines)) \in Nat, Cardinality(PhonesOn(mail.lines)) \in Nat
  PROVE  SafetyReasons(mail, strength, analysis, pol) = {} <=>
           NoReason(mail, strength, analysis, pol)
<1> DEFINE h == SafetyChecks(mail, strength, analysis, pol)
           pdvs == PdvsOn(mail.lines)
           phones == PhonesOn(mail.lines)
           override == SubjectOverride(mail, strength, pol)
           forward == ForwardOverride(mail, analysis, pol)
           scoped == analysis.unresolved # {} /\ "unscoped" \notin analysis.unresolved
           uncertain == Cardinality(pdvs) > 1 /\ "uncertain" \in mail.features
           pairs == Cardinality(pdvs) = Cardinality(phones) /\ Cardinality(pdvs) > 1
<1>1. DOMAIN h = {"subject_identifier_conflict", "subject_action_conflict",
                  "reply_identifier_conflict", "ambiguous_identifiers", "hypothetical",
                  "reporting", "signature", "injection", "forwarded_text",
                  "untrusted_marker", "subject_only", "no_direct_instruction",
                  "analyzer_subject_conflict", "mapping_not_explicit", "analyzer_forwarded",
                  "kind_not_executable"}
  BY DEF SafetyChecks
<1>2. SafetyReasons(mail, strength, analysis, pol) = {} <=> \A r \in DOMAIN h : ~h[r]
  BY Zenon DEF SafetyReasons
<1>3. SafetyReasons(mail, strength, analysis, pol) = {} <=>
        /\ ~h.subject_identifier_conflict /\ ~h.subject_action_conflict
        /\ ~h.reply_identifier_conflict /\ ~h.ambiguous_identifiers /\ ~h.hypothetical
        /\ ~h.reporting /\ ~h.signature /\ ~h.injection /\ ~h.forwarded_text
        /\ ~h.untrusted_marker /\ ~h.subject_only /\ ~h.no_direct_instruction
        /\ ~h.analyzer_subject_conflict /\ ~h.mapping_not_explicit
        /\ ~h.analyzer_forwarded /\ ~h.kind_not_executable
  <2> HIDE DEF h
  <2> QED
    BY <1>1, <1>2
<1>4. h.subject_identifier_conflict <=>
        /\ strength = "new"
        /\ \/ Disjoint(PdvsOn(mail.subject.lines), pdvs)
           \/ Disjoint(PhonesOn(mail.subject.lines), phones)
  BY DEF SafetyChecks
<1>5. h.subject_action_conflict <=> SubjectActionConflict(mail, strength) /\ ~override
  BY DEF SafetyChecks
<1>6. h.reply_identifier_conflict <=>
        /\ strength = "strong"
        /\ \/ Disjoint(pdvs, {p.pdv_code : p \in analysis.operations} \ {None})
           \/ Disjoint(phones, {p.phone : p \in analysis.operations} \ {None})
  BY DEF SafetyChecks
<1>7. h.ambiguous_identifiers <=>
        MappingIsAmbiguous(mail.lines, mail.features) /\ (pairs \/ uncertain \/ ~scoped)
  BY DEF SafetyChecks
<1>8. h.hypothetical <=>
        {"conditional", "question"} \subseteq mail.features \/ analysis.hypothetical
  BY DEF SafetyChecks
<1>9. h.reporting <=> {"example", "not_a_request"} \subseteq mail.features
  BY DEF SafetyChecks
<1>10. h.signature <=> "signature_actions" \in mail.features /\ pdvs \cup phones # {}
  BY DEF SafetyChecks
<1>11. h.injection <=> "override_attempt" \in mail.features
  BY DEF SafetyChecks
<1>12. h.forwarded_text <=>
         /\ "forwarded" \in mail.features
         /\ ~IndependentFollowUp(mail, strength, analysis) /\ ~forward
  BY DEF SafetyChecks
<1>13. h.untrusted_marker <=> UntrustedMarker(mail, strength) /\ ~pol.marker_override
  BY DEF SafetyChecks
<1>14. h.subject_only <=>
         /\ PositiveActions(mail.subject.clauses) # {} /\ "empty" \in mail.features
         /\ PdvsOn(mail.subject.lines) \cup PhonesOn(mail.subject.lines) # {}
  BY DEF SafetyChecks
<1>15. h.no_direct_instruction <=> analysis.direct = "no"
  BY DEF SafetyChecks
<1>16. h.analyzer_subject_conflict <=> analysis.subject_conflict /\ ~override
  BY DEF SafetyChecks
<1>17. h.mapping_not_explicit <=>
         analysis.mapping = "no" /\ (Cardinality(pdvs) > 1 \/ Cardinality(phones) > 1)
  BY DEF SafetyChecks
<1>18. h.analyzer_forwarded <=> analysis.forwarded /\ ~forward
  BY DEF SafetyChecks
<1>19. h.kind_not_executable <=>
         \/ analysis.kind \in {"cancellation", "hypothetical_or_question",
                               "reporting_or_example"}
         \/ analysis.kind = "forwarded_request" /\ ~forward
  BY DEF SafetyChecks
<1> HIDE DEF h
<1> QED
  BY <1>3, <1>4, <1>5, <1>6, <1>7, <1>8, <1>9, <1>10, <1>11, <1>12, <1>13, <1>14, <1>15,
     <1>16, <1>17, <1>18, <1>19 DEF NoReason

\* The size of a pair.
LEMMA PairIsTwo ==
  ASSUME NEW x, NEW y
  PROVE  IsFiniteSet({x, y}) /\ (x # y => Cardinality({x, y}) = 2)
<1>1. IsFiniteSet({x}) /\ Cardinality({x}) = 1
  BY FS_Singleton
<1>2. /\ IsFiniteSet({x} \cup {y})
      /\ Cardinality({x} \cup {y}) = IF y \in {x} THEN 1 ELSE 1 + 1
  BY <1>1, FS_AddElement
<1>3. {x, y} = {x} \cup {y}
  OBVIOUS
<1> QED
  BY <1>2, <1>3

\* The numbers of a mail are finitely many.
LEMMA FewNumbers ==
  ASSUME NEW sc, NEW D
  PROVE  /\ Cardinality(PdvsOn(Mail(sc, D).lines)) \in Nat
         /\ Cardinality(PhonesOn(Mail(sc, D).lines)) \in Nat
<1>1. PdvsOn(Mail(sc, D).lines) \subseteq {pdv, otherPdv}
  BY DEF PdvsOn, Mail
<1>2. PhonesOn(Mail(sc, D).lines) \subseteq {phone, otherPhone}
  BY DEF PhonesOn, Mail
<1>3. \A x, y : IsFiniteSet({x, y})
  BY PairIsTwo
<1> QED
  BY <1>1, <1>2, <1>3, FS_Subset, FS_CardinalityType

\* Of two doubts about the kind of a mail there is one.
OneKind(D) ==
  \A x, y \in D \cap {"kind_correction", "kind_ambiguous", "kind_irrelevant",
                      "kind_cancellation"} : x = y

\* A mail has one kind.
LEMMA PossibleKind ==
  ASSUME NEW D, Possible(D)
  PROVE  OneKind(D)
<1> DEFINE K == {"kind_correction", "kind_ambiguous", "kind_irrelevant", "kind_cancellation"}
<1>1. Cardinality(D \cap K) <= 1
  BY DEF Possible, Alternatives
<1>2. IsFiniteSet(K)
  <2>1. IsFiniteSet({"kind_correction"})
    BY FS_Singleton
  <2>2. IsFiniteSet({"kind_correction"} \cup {"kind_ambiguous"})
    BY <2>1, FS_AddElement
  <2>3. IsFiniteSet(({"kind_correction"} \cup {"kind_ambiguous"}) \cup {"kind_irrelevant"})
    BY <2>2, FS_AddElement
  <2>4. IsFiniteSet((({"kind_correction"} \cup {"kind_ambiguous"}) \cup {"kind_irrelevant"})
                    \cup {"kind_cancellation"})
    BY <2>3, FS_AddElement
  <2>5. K = (({"kind_correction"} \cup {"kind_ambiguous"}) \cup {"kind_irrelevant"})
              \cup {"kind_cancellation"}
    OBVIOUS
  <2> QED
    BY <2>4, <2>5
<1>3. IsFiniteSet(D \cap K)
  BY <1>2, FS_Subset
<1>4. ASSUME NEW x \in D \cap K, NEW y \in D \cap K, x # y PROVE FALSE
  <2>1. {x, y} \subseteq D \cap K
    OBVIOUS
  <2>3. Cardinality({x, y}) = 2
    BY <1>4, PairIsTwo
  <2>4. Cardinality({x, y}) <= Cardinality(D \cap K) /\ Cardinality(D \cap K) \in Nat
    BY <1>3, <2>1, FS_Subset, FS_CardinalityType
  <2> QED
    BY <1>1, <2>3, <2>4
<1> QED
  BY <1>4 DEF OneKind
-----------------------------------------------------------------------------
(* What the analyzer returns *)

\* The confidences the model states, none of which reaches a threshold of 101.
LEMMA ModelConfidences ==
  ASSUME NEW sc, NEW D
  PROVE  /\ ModelConfidence(ModelAnalysis(sc, D)) \subseteq {0, 69, 70, 100}
         /\ ModelConfidence(ModelAnalysis(sc, D)) # {}
<1>1. \A E : Proposal(sc, E).confidence \in {None, 69, 70}
  BY DEF Proposal
<1>2. \A p \in ModelAnalysis(sc, D).operations : p.confidence \in {None, 69, 70}
  <2>1. ModelAnalysis(sc, D).operations \subseteq {Proposal(sc, D), OtherProposal(sc)}
    BY DEF ModelAnalysis
  <2>2. OtherProposal(sc).confidence = Proposal(sc, {}).confidence
    BY DEF OtherProposal, Proposal
  <2> QED
    BY <1>1, <2>1, <2>2
<1> QED
  BY <1>2 DEF ModelConfidence

\* The classifier's analysis, of a proposal p.
Classified(p) == Analysis("new_request", {p}, NoSignals)

\* What the fallback analyzer makes of a model that is not sure.
Unsure == Analysis("ambiguous", {}, [NoSignals EXCEPT !.unresolved = {"unscoped"}])

\* What FallbackAnalyzer returns: the classifier's analysis where that is confident, else the
\* model's, unless it is not sure.
LEMMA AnalysesAre ==
  ASSUME NEW sc, NEW D
  PROVE  /\ "classifier" \in D =>
              Analyses(sc, D) =
                {Classified(p) : p \in SvmProposals(Mail(sc, D), Requested, 80)}
         /\ "classifier" \notin D /\ "unsure" \notin D =>
              Analyses(sc, D) = {ModelAnalysis(sc, D)}
         /\ "classifier" \notin D /\ "unsure" \in D =>
              Analyses(sc, D) =
                {IF ModelAnalysis(sc, D).kind = "irrelevant" /\ ~ModelAnalysis(sc, D).new_request
                   THEN ModelAnalysis(sc, D) ELSE Unsure}
<1> DEFINE m == ModelAnalysis(sc, D)
<1>1. /\ \A c \in ModelConfidence(m) : c >= 0 /\ ~(c >= 101)
      /\ ModelConfidence(m) # {}
  BY ModelConfidences
<1>2. Requested \in Action
  BY DEF Requested, Action
<1> HIDE DEF m
<1>3. Analyses(sc, D) = FallbackAnalyses(Mail(sc, D), Requested,
         IF "classifier" \in D THEN 80 ELSE 79, 80, m, IF "unsure" \in D THEN 101 ELSE 0)
  BY DEF Analyses, m
<1>4. CASE "classifier" \in D
  BY <1>2, <1>3, <1>4 DEF FallbackAnalyses, Classified
<1>5. CASE "classifier" \notin D /\ "unsure" \notin D
  BY <1>1, <1>3, <1>5 DEF FallbackAnalyses, m
<1>6. CASE "classifier" \notin D /\ "unsure" \in D
  BY <1>1, <1>3, <1>6 DEF FallbackAnalyses, m, Unsure
<1> QED
  BY <1>4, <1>5, <1>6

\* Of a mail the analyses and the work they bring.
LEMMA WorksAre ==
  ASSUME NEW sc, NEW D, NEW w \in Works(sc, D)
  PROVE  \E a \in Analyses(sc, D) :
           /\ w.analysis = IntentSafety(Mail(sc, D), a)
           /\ w.work \in Materialized(Mail(sc, D), PreparedStrength(sc, D), About(sc, D),
                                      w.analysis, Stored(sc, D))
           /\ w.work.result = "work" => w.work.proposal.id # "op2"
  BY DEF Works

\* Without an attempt to override, a proposal is unsafe if the clause that names its
\* action negates it or is about the past.
LEMMA UnsafeIs ==
  ASSUME NEW sc, NEW D
  PROVE  /\ Unsafe(Mail(sc, D), Requested) <=>
              {"override_attempt", "negated", "past"} \cap D # {}
         /\ Unsafe(Mail(sc, D), "unknown") <=> "override_attempt" \in D
<1> DEFINE m == Mail(sc, D)
<1>1. /\ m.clauses = {[actions |-> {Requested}, negated |-> "negated" \in D, past |-> "past" \in D]}
      /\ "override_attempt" \in m.features <=> "override_attempt" \in D
      /\ "unsupported_topic" \notin m.features
  BY DEF Mail
<1> HIDE DEF m
<1>2. \A action : {c \in m.clauses : action \in c.actions} =
                    IF action = Requested THEN m.clauses ELSE {}
  BY <1>1
<1>3. Requested # "unknown"
  BY DEF Requested
<1>4. Unsafe(m, "unknown") <=> "override_attempt" \in D
  BY <1>1, <1>2, <1>3 DEF Unsafe
<1>5. Unsafe(m, Requested) <=> "override_attempt" \in D \/ "negated" \in D \/ "past" \in D
  <2>1. /\ (\E c \in m.clauses : c.negated) <=> "negated" \in D
        /\ (\A c \in m.clauses : c.past) <=> "past" \in D
        /\ m.clauses # {}
    <3> DEFINE c0 == [actions |-> {Requested}, negated |-> "negated" \in D,
                      past |-> "past" \in D]
    <3>1. m.clauses = {c0}
      BY <1>1
    <3>2. (c0.negated <=> "negated" \in D) /\ (c0.past <=> "past" \in D)
      OBVIOUS
    <3> HIDE DEF c0
    <3> QED
      BY <3>1, <3>2
  <2> QED
    BY <1>1, <1>2, <2>1 DEF Unsafe
<1> QED
  BY <1>4, <1>5 DEF m

\* What the policies have in common.
LEMMA PolicyFields ==
  ASSUME NEW pol \in Policies
  PROVE  /\ pol.subject_override \in BOOLEAN
         /\ pol.forward_override = pol.subject_override
         /\ pol.marker_override = pol.subject_override
         /\ pol.provenance = TRUE /\ pol.vpn_fields = {}
         /\ {pol.analyzer_threshold, pol.verifier_threshold} \subseteq {None, 70}
  BY DEF Policies

\* The verifier of a mail that is executed agrees, and with fewer doubts all the more.
LEMMA VerifierStays ==
  ASSUME NEW sc, NEW D, NEW E, E \subseteq D, NEW pol \in Policies,
         NEW a, NEW p, NEW c, Executes(a, p, Verification(sc, D), c, pol),
         "phone" \in RequiredFields(p.action)
  PROVE  LET v == Verification(sc, D)
             v2 == Verification(sc, E)
         IN /\ v2.action = "yes" /\ v2.pdv_code = "yes" /\ v2.phone = "yes"
            /\ v2.contradiction = "none" /\ v2.missing = {}
            /\ ~VerifierDoubts(v2)
            /\ ConfidencePasses(v2.confidence, pol.verifier_threshold)
            /\ v2.stored_state = "no" => v.stored_state = "no"
            /\ v2.correction => v.correction
            /\ v2.new_request => v.new_request
<1> DEFINE v == Verification(sc, D)
           v2 == Verification(sc, E)
<1>1. /\ v.action = "yes" /\ v.phone = "yes" /\ ~VerifierDoubts(v)
      /\ v.contradiction \in {"none", "missing_field"}
      /\ ConfidencePasses(v.confidence, pol.verifier_threshold)
      /\ MissingFields(p, v) = {}
  <2> HIDE DEF v
  <2> QED
    BY DEF Executes, CanExecute, HardInvariants, Agreement, Contradiction, v
<1>2. "site" \notin v.missing
  BY <1>1 DEF MissingFields
<1>3. D \cap {"v_action", "v_phone", "v_contradiction", "v_missing"} = {}
  BY <1>1, <1>2 DEF Verification
<1>4. D \cap {"v_hypothetical", "v_direct", "v_mapping"} = {}
  <2>1. "v_hypothetical" \notin D
    BY <1>1 DEF Verification, VerifierDoubts
  <2>2. "v_direct" \notin D
    BY <1>1 DEF Verification, VerifierDoubts
  <2>3. "v_mapping" \notin D
    BY <1>1 DEF Verification, VerifierDoubts
  <2> QED
    BY <2>1, <2>2, <2>3
<1>5. "v_low" \in D => pol.verifier_threshold = None
  <2>1. "v_low" \in D => v.confidence = 69
    BY DEF Verification
  <2>2. 69 # None
    BY ValuesAssumption
  <2>3. pol.verifier_threshold \in {None, 70}
    BY PolicyFields
  <2> HIDE DEF v
  <2> QED
    BY <1>1, <2>1, <2>2, <2>3 DEF ConfidencePasses
<1>6. ConfidencePasses(v2.confidence, pol.verifier_threshold)
  <2>1. v2.confidence = IF "v_low" \in E THEN 69 ELSE 70
    BY DEF Verification
  <2>2. 70 # None
    BY ValuesAssumption
  <2>3. pol.verifier_threshold \in {None, 70}
    BY PolicyFields
  <2>4. "v_low" \in E => "v_low" \in D
    OBVIOUS
  <2> HIDE DEF v2
  <2> QED
    BY <1>5, <2>1, <2>2, <2>3, <2>4 DEF ConfidencePasses
<1>7. /\ v2.action = "yes" /\ v2.pdv_code = "yes" /\ v2.phone = "yes"
      /\ v2.contradiction = "none" /\ v2.missing = {}
      /\ v2.stored_state = "no" => v.stored_state = "no"
  BY <1>3 DEF Verification
<1>8. /\ v2.correction => v.correction
      /\ v2.new_request => v.new_request
  BY DEF Verification
<1>9. ~VerifierDoubts(v2)
  <2>1. ~v2.hypothetical /\ ~v2.subject_conflict /\ ~v2.ambiguity /\ v2.sources_valid
    BY <1>4 DEF Verification
  <2>2. v2.direct = "yes" /\ v2.mapping = "yes"
    BY <1>4 DEF Verification
  <2> HIDE DEF v2
  <2> QED
    BY <2>1, <2>2 DEF VerifierDoubts
<1> QED
  BY <1>6, <1>7, <1>8, <1>9

\* What the removal of one doubt leaves of a mail.
LEMMA MailStays ==
  ASSUME NEW sc, NEW D, NEW d, d \notin OtherValues \cup {"independent", "negation"}
  PROVE  LET m == Mail(sc, D)
             m2 == Mail(sc, D \ {d})
         IN /\ m2.lines = m.lines
            /\ m2.features \subseteq m.features
            /\ "independent" \in m2.features <=> "independent" \in m.features
            /\ "negation" \in m2.features <=> "negation" \in m.features
            /\ d # "forwarded" => ("forwarded" \in m2.features <=> "forwarded" \in m.features)
            /\ d \notin {"negated", "past"} => m2.clauses = m.clauses
            /\ d # "subject_action" => m2.subject.clauses = m.subject.clauses
            /\ CurrentValues(sc, D \ {d}) = CurrentValues(sc, D)
<1> DEFINE E == D \ {d}
<1>1. SaysPdv(sc, E) = SaysPdv(sc, D)
  BY DEF SaysPdv, OtherValues
<1>2. Mail(sc, E).lines = Mail(sc, D).lines
  BY <1>1 DEF Mail, OtherValues
<1>3. /\ Mail(sc, E).features \subseteq Mail(sc, D).features
      /\ "independent" \in Mail(sc, E).features <=> "independent" \in Mail(sc, D).features
      /\ "negation" \in Mail(sc, E).features <=> "negation" \in Mail(sc, D).features
      /\ d # "forwarded" =>
           ("forwarded" \in Mail(sc, E).features <=> "forwarded" \in Mail(sc, D).features)
  BY DEF Mail
<1>4. d \notin {"negated", "past"} => Mail(sc, E).clauses = Mail(sc, D).clauses
  BY DEF Mail
<1>5. d # "subject_action" => Mail(sc, E).subject.clauses = Mail(sc, D).subject.clauses
  BY DEF Mail
<1> QED
  BY <1>2, <1>3, <1>4, <1>5 DEF CurrentValues

\* What the model says of the text when it says no more that is wrong with it.
SaysNoMore(a2, a) ==
  /\ a.unresolved # {} /\ "unscoped" \notin a.unresolved =>
       a2.unresolved # {} /\ "unscoped" \notin a2.unresolved
  /\ a2.hypothetical => a.hypothetical
  /\ a2.forwarded => a.forwarded
  /\ a2.subject_conflict => a.subject_conflict
  /\ a2.direct = "no" => a.direct = "no"
  /\ a.direct = "yes" => a2.direct = "yes"
  /\ a2.mapping = "no" => a.mapping = "no"
  /\ a.new_request => a2.new_request

ExecutableKinds == {"new_request", "clarification_reply", "correction", "ambiguous", "irrelevant"}

\* The numbers a reply proposes are among those it states, if it states any.
RepliesAgree(lines, a) ==
  /\ ~Disjoint(PdvsOn(lines), {p.pdv_code : p \in a.operations} \ {None})
  /\ ~Disjoint(PhonesOn(lines), {p.phone : p \in a.operations} \ {None})

\* A check that is passed is passed with a doubt less.
LEMMA SafetyStays ==
  ASSUME NEW sc, NEW D, NEW d, NEW pol \in Policies, NEW s, NEW a, NEW a2,
         d \notin OtherValues \cup {"independent", "negation"},
         pol.subject_override => d \notin {"forwarded", "subject_action"},
         s = "new" => d \notin {"negated", "past"},
         SafetyReasons(Mail(sc, D), s, a, pol) = {},
         SaysNoMore(a2, a), a2.kind \in ExecutableKinds,
         s = "strong" => RepliesAgree(Mail(sc, D).lines, a2)
  PROVE  SafetyReasons(Mail(sc, D \ {d}), s, a2, pol) = {}
<1> DEFINE m == Mail(sc, D)
           m2 == Mail(sc, D \ {d})
<1>1. NoReason(m, s, a, pol)
  BY ReasonsOneByOne, FewNumbers
<1>2. /\ m2.lines = m.lines /\ m2.features \subseteq m.features
      /\ "independent" \in m2.features <=> "independent" \in m.features
      /\ "negation" \in m2.features <=> "negation" \in m.features
      /\ d # "forwarded" => ("forwarded" \in m2.features <=> "forwarded" \in m.features)
      /\ s = "new" => m2.clauses = m.clauses
      /\ d # "subject_action" => m2.subject.clauses = m.subject.clauses
  BY MailStays
<1>3. /\ PdvsOn(m2.subject.lines) \in {{}, PdvsOn(m.subject.lines)}
      /\ PhonesOn(m2.subject.lines) = {} /\ "empty" \notin m2.features
      /\ "signature_actions" \notin m2.features
  BY DEF Mail, PdvsOn, PhonesOn
<1>4. /\ pol.subject_override \in BOOLEAN /\ pol.forward_override = pol.subject_override
      /\ pol.marker_override = pol.subject_override
  BY PolicyFields
<1>5. d = "subject_action" => ~SubjectActionConflict(m2, s)
  <2>1. PositiveActions(m2.clauses) \subseteq {Requested}
    BY DEF PositiveActions, Mail
  <2>2. d = "subject_action" => PositiveActions(m2.subject.clauses) = {Requested}
    <3> SUFFICES ASSUME d = "subject_action"
                 PROVE  PositiveActions(m2.subject.clauses) = {Requested}
      OBVIOUS
    <3> DEFINE c0 == [actions |-> {Requested}, negated |-> FALSE, past |-> FALSE]
    <3>1. m2.subject.clauses = {c0}
      BY DEF Mail
    <3>2. c0.actions = {Requested} /\ ~c0.negated
      OBVIOUS
    <3> HIDE DEF c0, m2
    <3>3. {c \in m2.subject.clauses : ~c.negated} = {c0}
      BY <3>1, <3>2
    <3> QED
      BY <3>2, <3>3 DEF PositiveActions
  <2> QED
    BY <2>1, <2>2 DEF SubjectActionConflict, Disjoint
<1> HIDE DEF m, m2
<1>6. SubjectActionConflict(m2, s) => SubjectActionConflict(m, s)
  BY <1>2, <1>5 DEF SubjectActionConflict
<1>7. SubjectOverride(m, s, pol) => SubjectOverride(m2, s, pol)
  <2> SUFFICES ASSUME SubjectOverride(m, s, pol) PROVE SubjectOverride(m2, s, pol)
    OBVIOUS
  <2>1. s = "new" /\ pol.subject_override /\ d # "subject_action"
    BY DEF SubjectOverride, SubjectActionConflict
  <2> QED
    BY <1>2, <2>1 DEF SubjectOverride, SubjectActionConflict
<1>8. ForwardOverride(m, a, pol) => ForwardOverride(m2, a2, pol)
  BY <1>2, <1>4 DEF ForwardOverride, SaysNoMore
<1>9. IndependentFollowUp(m, s, a) => IndependentFollowUp(m2, s, a2)
  BY <1>2 DEF IndependentFollowUp, SaysNoMore
<1>10. MappingIsAmbiguous(m2.lines, m2.features) => MappingIsAmbiguous(m.lines, m.features)
  BY <1>2 DEF MappingIsAmbiguous
<1>11. NoReason(m2, s, a2, pol)
  <2>1. s = "new" => /\ ~Disjoint(PdvsOn(m2.subject.lines), PdvsOn(m2.lines))
                     /\ ~Disjoint(PhonesOn(m2.subject.lines), PhonesOn(m2.lines))
    BY <1>1, <1>2, <1>3 DEF NoReason, Disjoint
  <2>2. SubjectActionConflict(m2, s) => SubjectOverride(m2, s, pol)
    BY <1>1, <1>6, <1>7 DEF NoReason
  <2>3. s = "strong" =>
          /\ ~Disjoint(PdvsOn(m2.lines), {p.pdv_code : p \in a2.operations} \ {None})
          /\ ~Disjoint(PhonesOn(m2.lines), {p.phone : p \in a2.operations} \ {None})
    BY <1>2 DEF RepliesAgree, m
  <2>4. ~(/\ MappingIsAmbiguous(m2.lines, m2.features)
          /\ \/ /\ Cardinality(PdvsOn(m2.lines)) = Cardinality(PhonesOn(m2.lines))
                /\ Cardinality(PdvsOn(m2.lines)) > 1
             \/ Cardinality(PdvsOn(m2.lines)) > 1 /\ "uncertain" \in m2.features
             \/ ~(a2.unresolved # {} /\ "unscoped" \notin a2.unresolved))
    BY <1>1, <1>2, <1>10 DEF NoReason, SaysNoMore
  <2>5. /\ ~({"conditional", "question"} \subseteq m2.features) /\ ~a2.hypothetical
        /\ ~({"example", "not_a_request"} \subseteq m2.features)
        /\ "override_attempt" \notin m2.features
    BY <1>1, <1>2 DEF NoReason, SaysNoMore
  <2>6. "forwarded" \in m2.features =>
          IndependentFollowUp(m2, s, a2) \/ ForwardOverride(m2, a2, pol)
    BY <1>1, <1>2, <1>8, <1>9 DEF NoReason
  <2>7. UntrustedMarker(m2, s) => pol.marker_override
    BY <1>1, <1>2 DEF NoReason, UntrustedMarker
  <2>8. /\ a2.direct # "no" /\ a2.subject_conflict => SubjectOverride(m2, s, pol)
        /\ a2.forwarded => ForwardOverride(m2, a2, pol)
    BY <1>1, <1>7, <1>8 DEF NoReason, SaysNoMore
  <2>9. a2.mapping = "no" => /\ Cardinality(PdvsOn(m2.lines)) <= 1
                             /\ Cardinality(PhonesOn(m2.lines)) <= 1
    BY <1>1, <1>2 DEF NoReason, SaysNoMore
  <2>10. a2.direct # "no"
    BY <1>1 DEF NoReason, SaysNoMore
  <2>11. a2.kind \notin {"cancellation", "hypothetical_or_question", "reporting_or_example",
                         "forwarded_request"}
    BY DEF ExecutableKinds
  <2> QED
    BY <1>3, <2>1, <2>2, <2>3, <2>4, <2>5, <2>6, <2>7, <2>8, <2>9, <2>10, <2>11 DEF NoReason
<1> QED
  BY <1>11, ReasonsOneByOne, FewNumbers DEF m2

\* A proposal the decision has nothing against.
GoodProposal(p, c, pol) ==
  /\ "phone" \in RequiredFields(p.action) /\ AbsentFields(p) = {} /\ WellFormed(p)
  /\ p.missing \subseteq {"pdv_code", "phone"} /\ p.extra = {} /\ ~p.ambiguous
  /\ ~ClosedHistoryQuoted(p) /\ AllEvidenceAllowed(p, c, pol) /\ EvidenceComplete(p, pol)
  /\ ConfidencePasses(p.confidence, pol.analyzer_threshold)

\* What the decision reads of a mail that is executed is still so with a doubt less.
LEMMA ContextStays ==
  ASSUME NEW sc, NEW D, NEW d, d \notin OtherValues \cup {"independent", "negation"},
         NEW pol, NEW w, NEW w2, Execution(sc, D, pol, w),
         w2.work.known = w.work.known, w2.work.strength = w.work.strength,
         w2.work.items = w.work.items
  PROVE  LET c2 == Context(sc, D \ {d}, w2.work, w2.analysis, pol)
         IN /\ c2.authorized_sender /\ ~c2.correlation_conflict /\ ~c2.previously_executed
            /\ c2.execution_configured /\ c2.context_complete /\ c2.api_available
            /\ ~c2.request_level_ambiguity /\ c2.strength \in {"new", "strong"}
<1> DEFINE c == Context(sc, D, w.work, w.analysis, pol)
           c2 == Context(sc, D \ {d}, w2.work, w2.analysis, pol)
<1>1. /\ ~c.previously_executed /\ c.execution_configured /\ c.context_complete
      /\ ~c.request_level_ambiguity /\ c.strength \in {"new", "strong"}
  <2>1. CanExecute(w.work.analysis, w.work.proposal, Verification(sc, D), c, pol)
    BY DEF Execution, Executes
  <2> HIDE DEF c
  <2> QED
    BY <2>1 DEF CanExecute, HardInvariants, Ambiguous
<1>2. /\ c2.authorized_sender /\ ~c2.correlation_conflict /\ c2.api_available
      /\ c2.strength = c.strength
  BY DEF Context
<1>3. ~c2.previously_executed
  BY <1>1 DEF Context
<1>4. c2.execution_configured
  BY <1>1 DEF Context
<1>5. c2.context_complete
  BY <1>1 DEF Context
<1>6. ~c2.request_level_ambiguity
  <2>1. /\ c.request_level_ambiguity <=> CrossOperationAmbiguity(Mail(sc, D), w.work.items)
        /\ c2.request_level_ambiguity <=>
             CrossOperationAmbiguity(Mail(sc, D \ {d}), w2.work.items)
    BY DEF Context
  <2>2. Mail(sc, D \ {d}).features \subseteq Mail(sc, D).features
    BY MailStays
  <2> HIDE DEF c, c2
  <2> QED
    BY <1>1, <2>1, <2>2 DEF CrossOperationAmbiguity
<1> HIDE DEF c, c2
<1> QED
  BY <1>1, <1>2, <1>3, <1>4, <1>5, <1>6 DEF c2

\* Work that differs in nothing the decision reads is executed with a doubt less.
LEMMA ExecutionStays ==
  ASSUME NEW sc, NEW D, NEW d, d \notin OtherValues \cup {"independent", "negation"},
         NEW pol \in Policies, NEW w, NEW w2, Execution(sc, D, pol, w),
         "phone" \in RequiredFields(w.work.proposal.action),
         w2.work.result = "work",
         w2.work.known = w.work.known, w2.work.strength = w.work.strength,
         w2.work.items = w.work.items,
         w2.work.known => /\ Stored(sc, D \ {d}).status = "NEW"
                          /\ Stored(sc, D \ {d}).action = w2.work.proposal.action,
         SafetyReasons(Mail(sc, D \ {d}), PreparedStrength(sc, D \ {d}), w2.analysis, pol) = {},
         w2.work.analysis.kind = w.work.analysis.kind,
         w2.work.analysis.contradiction => w.work.analysis.contradiction,
         {w2.work.proposal.id, "unscoped"} \cap w2.work.analysis.unresolved = {},
         GoodProposal(w2.work.proposal, Context(sc, D \ {d}, w2.work, w2.analysis, pol), pol)
  PROVE  Execution(sc, D \ {d}, pol, w2)
<1> DEFINE E == D \ {d}
           a == w.work.analysis
           a2 == w2.work.analysis
           p == w.work.proposal
           p2 == w2.work.proposal
           v == Verification(sc, D)
           v2 == Verification(sc, E)
           c == Context(sc, D, w.work, w.analysis, pol)
           c2 == Context(sc, E, w2.work, w2.analysis, pol)
<1>1. Executes(a, p, v, c, pol) /\ "v_fails" \notin D
  BY DEF Execution
<1>2. /\ v2.action = "yes" /\ v2.pdv_code = "yes" /\ v2.phone = "yes"
      /\ v2.contradiction = "none" /\ v2.missing = {} /\ ~VerifierDoubts(v2)
      /\ ConfidencePasses(v2.confidence, pol.verifier_threshold)
      /\ v2.stored_state = "no" => v.stored_state = "no"
      /\ v2.correction => v.correction
      /\ v2.new_request => v.new_request
  <2>1. E \subseteq D
    OBVIOUS
  <2> HIDE DEF E, a, p, c
  <2> QED
    BY <1>1, <2>1, VerifierStays DEF p
<1>3. /\ c2.authorized_sender /\ ~c2.correlation_conflict /\ ~c2.previously_executed
      /\ c2.execution_configured /\ c2.context_complete /\ c2.api_available
      /\ ~c2.request_level_ambiguity /\ c2.strength \in {"new", "strong"}
  BY ContextStays
<1>4. c2.operation_status = "NEW" /\ c2.expected_action \in {None, p2.action}
  BY DEF Context
<1>5. c2.strength = c.strength /\ (c2.expected_action = None <=> c.expected_action = None)
  <2>1. \A X : Stored(sc, X).action # None
    BY ValuesAssumption DEF Stored, Requested, Action
  <2> QED
    BY <2>1 DEF Context
<1>6. c2.safety_reasons = {}
  BY DEF Context
<1>7. GoodProposal(p2, c2, pol) /\ a2.kind = a.kind /\ (a2.contradiction => a.contradiction)
      /\ {p2.id, "unscoped"} \cap a2.unresolved = {}
  OBVIOUS
<1>8. pol.vpn_fields = {}
  BY PolicyFields
<1> HIDE DEF a, a2, p, p2, v, v2, c, c2
<1>9. MissingFields(p2, v2) = {}
  <2>1. \A f \in p2.missing : ValueOf(p2, f) # None /\ f \in {"pdv_code", "phone"}
    <3>1. {"pdv_code", "phone"} \subseteq RequiredFields(p2.action)
      BY <1>7 DEF GoodProposal, RequiredFields
    <3> QED
      BY <1>7, <3>1 DEF GoodProposal, AbsentFields
  <2> QED
    BY <1>2, <2>1 DEF MissingFields
<1>10. ~CorrectionOfKnown(a2, v2, c2)
  BY <1>1, <1>2, <1>5, <1>7 DEF Executes, CorrectionOfKnown
<1>11. /\ a.kind \notin {"irrelevant", "automated", "ambiguous"} /\ ~Contradiction(a, v, c)
       /\ ~UnexpectedRequest(a, v)
  BY <1>1 DEF Executes, CanExecute, Ambiguous
<1>12. ~Contradiction(a2, v2, c2)
  BY <1>2, <1>5, <1>7, <1>11 DEF Contradiction
<1>13. ~Ambiguous(a2, p2, c2)
  BY <1>3, <1>7, <1>11 DEF Ambiguous, GoodProposal
<1>14. ~UnexpectedRequest(a2, v2)
  BY <1>2, <1>7, <1>11 DEF UnexpectedRequest
<1>15. ExtrasAllowed(p2, v2, c2, pol)
  BY <1>7 DEF ExtrasAllowed, GoodProposal
<1>16. HardInvariants(p2, v2, c2, pol)
  BY <1>2, <1>3, <1>4, <1>6, <1>7, <1>15 DEF HardInvariants, GoodProposal
<1>17. Agreement(p2, v2, c2, pol)
  BY <1>2, <1>7 DEF Agreement, GoodProposal
<1>18. Executes(a2, p2, v2, c2, pol)
  BY <1>3, <1>4, <1>7, <1>9, <1>10, <1>11, <1>12, <1>13, <1>14, <1>16, <1>17
     DEF Executes, CanExecute
<1> QED
  BY <1>1, <1>18 DEF Execution, a2, p2, v2, c2

\* A piece of evidence, as the model gives it.
Said(field, value, source, D) ==
  [field |-> field, value |-> value, source |-> source, supported |-> "unsupported" \notin D]

\* The evidence of the model's proposal.
LEMMA EvidenceIs ==
  ASSUME NEW sc, NEW D
  PROVE  LET p == Proposal(sc, D)
             source == IF "history" \in D THEN "quoted_closed_history"
                       ELSE IF SaysPdv(sc, D) THEN "latest_user_message"
                       ELSE "stored_request_state"
         IN p.evidence =
              (IF p.pdv_code = None THEN {} ELSE {Said("pdv_code", p.pdv_code, source, D)})
              \cup (IF p.phone = None THEN {}
                    ELSE {Said("phone", p.phone, "latest_user_message", D)})
  BY DEF Proposal, Said

\* A malformed PDV is one that no pattern accepts.
LEMMA MalformedPdv ==
  ASSUME NEW sc, NEW D, "malformed_pdv" \in D
  PROVE  Proposal(sc, D).pdv_code \in Malformed
<1>1. (CHOOSE x \in Malformed : TRUE) \in Malformed
  <2>1. \E x \in Malformed : TRUE
    BY MailAssumption
  <2> QED
    BY <2>1, Zenon
<1>2. Proposal(sc, D).pdv_code = CHOOSE x \in Malformed : TRUE
  BY DEF Proposal
<1> QED
  BY <1>1, <1>2

\* The model's proposal that is executed is one nobody doubts.
LEMMA ProposalClean ==
  ASSUME NEW sc, NEW D, NEW pol \in Policies, NEW a, NEW v, NEW c,
         Executes(a, Proposal(sc, D), v, c, pol)
  PROVE  /\ D \cap {"unsupported", "history", "malformed_pdv", "unknown_action", "extra",
                    "ambiguous"} = {}
         /\ Proposal(sc, D).action = Requested
         /\ GoodProposal(Proposal(sc, D), c, pol)
<1> DEFINE p == Proposal(sc, D)
<1> HIDE DEF p
<1>1. /\ AbsentFields(p) = {} /\ WellFormed(p) /\ ~ClosedHistoryQuoted(p)
      /\ AllEvidenceAllowed(p, c, pol) /\ EvidenceComplete(p, pol) /\ ~p.ambiguous
      /\ ConfidencePasses(p.confidence, pol.analyzer_threshold)
      /\ ExtrasAllowed(p, v, c, pol)
  BY DEF Executes, CanExecute, HardInvariants, Agreement, Ambiguous, p
<1>2. pol.provenance /\ pol.vpn_fields = {}
  BY PolicyFields
<1>3. p.action = Requested /\ "unknown_action" \notin D
  <2>1. p.action = IF "unknown_action" \in D THEN "unknown" ELSE Requested
    BY DEF Proposal, p
  <2> QED
    BY <1>1, <2>1 DEF WellFormed
<1>4. RequiredFields(p.action) = {"pdv_code", "phone"}
  BY <1>3 DEF RequiredFields, Requested
<1>5. p.pdv_code # None /\ p.phone # None
  BY <1>1, <1>4 DEF AbsentFields, ValueOf
<1>6. "malformed_pdv" \notin D
  <2>1. "malformed_pdv" \in D => p.pdv_code \in Malformed
    BY MalformedPdv DEF p
  <2> QED
    BY <1>1, <1>5, <2>1, ValuesAssumption DEF WellFormed
<1>7. "extra" \notin D /\ p.extra = {}
  <2>1. p.extra = IF "extra" \in D THEN {"site"} ELSE {}
    BY DEF Proposal, p
  <2> QED
    BY <1>1, <1>2, <2>1 DEF ExtrasAllowed
<1>8. "ambiguous" \notin D
  BY <1>1 DEF Proposal, p
<1>9. "unsupported" \notin D
  <2>1. EvidenceAllowed(p, c, "phone")
    BY <1>1, <1>2, <1>4, <1>5 DEF AllEvidenceAllowed, ValueOf
  <2>2. PICK e \in p.evidence : e.supported
    BY <2>1 DEF EvidenceAllowed
  <2>3. \E f, x, s : e = Said(f, x, s, D)
    BY EvidenceIs DEF p
  <2>4. \A f, x, s : Said(f, x, s, D).supported <=> "unsupported" \notin D
    BY DEF Said
  <2> QED
    BY <2>2, <2>3, <2>4
<1>10. "history" \notin D
  <2> SUFFICES ASSUME "history" \in D PROVE FALSE
    OBVIOUS
  <2> DEFINE e0 == Said("pdv_code", p.pdv_code, "quoted_closed_history", D)
  <2>2. e0 \in p.evidence
    BY <1>5, EvidenceIs DEF p
  <2>3. e0.source = "quoted_closed_history" /\ e0.value = p.pdv_code
    BY DEF Said
  <2>1. \E e \in p.evidence : e.source = "quoted_closed_history" /\ e.value = p.pdv_code
    <3> HIDE DEF e0
    <3> QED BY <2>2, <2>3
  <2> QED
    BY <1>1, <1>5, <2>1 DEF ClosedHistoryQuoted
<1>11. p.missing \subseteq {"pdv_code", "phone"}
  BY DEF Proposal, p
<1> QED
  BY <1>1, <1>3, <1>4, <1>6, <1>7, <1>8, <1>9, <1>10, <1>11 DEF GoodProposal, p

\* What it proposes stays the same with a doubt less, and so does its evidence; only how
\* sure the model is of it may grow.
LEMMA ProposalStays ==
  ASSUME NEW sc, NEW D, NEW d, d \notin OtherValues \cup {"independent"},
         D \cap {"malformed_pdv", "unknown_action", "extra", "ambiguous"} = {}
  PROVE  LET p == Proposal(sc, D)
             p2 == Proposal(sc, D \ {d})
         IN /\ p2.id = p.id /\ p2.action = p.action /\ p2.pdv_code = p.pdv_code
            /\ p2.phone = p.phone /\ p2.missing = p.missing
            /\ p2.extra = p.extra /\ p2.ambiguous = p.ambiguous
            /\ D \cap {"unsupported", "history"} = {} => p2.evidence = p.evidence
            /\ \A t \in {None, 70} :
                 ConfidencePasses(p.confidence, t) => ConfidencePasses(p2.confidence, t)
<1> DEFINE E == D \ {d}
           p == Proposal(sc, D)
           p2 == Proposal(sc, E)
<1>1. SaysPdv(sc, E) = SaysPdv(sc, D)
  BY DEF SaysPdv, OtherValues
<1>2. /\ p2.id = p.id /\ p2.action = p.action /\ p2.pdv_code = p.pdv_code
      /\ p2.phone = p.phone /\ p2.missing = p.missing
  BY DEF Proposal, OtherValues
<1>3. p2.extra = p.extra /\ p2.ambiguous = p.ambiguous
  BY DEF Proposal
<1>4. D \cap {"unsupported", "history"} = {} => p2.evidence = p.evidence
  BY <1>1 DEF Proposal, OtherValues
<1>5. \A t \in {None, 70} :
        ConfidencePasses(p.confidence, t) => ConfidencePasses(p2.confidence, t)
  <2>1. /\ p.confidence = IF "no_confidence" \in D THEN None ELSE IF "low" \in D THEN 69 ELSE 70
        /\ p2.confidence = IF "no_confidence" \in E THEN None ELSE IF "low" \in E THEN 69 ELSE 70
    BY DEF Proposal
  <2>2. 69 # None /\ 70 # None
    BY ValuesAssumption
  <2>3. E \subseteq D
    OBVIOUS
  <2> HIDE DEF p, p2, E
  <2> QED
    BY <2>1, <2>2, <2>3 DEF ConfidencePasses
<1> QED
  BY <1>2, <1>3, <1>4, <1>5

\* A proposal with the same content is as good.
LEMMA GoodStays ==
  ASSUME NEW p, NEW p2, NEW c, NEW c2, NEW pol, GoodProposal(p, c, pol),
         p2.action = p.action, p2.pdv_code = p.pdv_code, p2.phone = p.phone,
         p2.missing = p.missing, p2.evidence = p.evidence, p2.extra = p.extra,
         p2.ambiguous = p.ambiguous,
         ConfidencePasses(p2.confidence, pol.analyzer_threshold),
         c2.current_values = c.current_values, c2.stored_values = c.stored_values,
         c2.strength = c.strength
  PROVE  GoodProposal(p2, c2, pol)
<1>1. \A f : ValueOf(p2, f) = ValueOf(p, f)
  BY DEF ValueOf
<1>2. AbsentFields(p2) = {} /\ WellFormed(p2) /\ ~ClosedHistoryQuoted(p2)
  BY <1>1 DEF GoodProposal, AbsentFields, WellFormed, ClosedHistoryQuoted
<1>3. \A f : EvidenceAllowed(p, c, f) => EvidenceAllowed(p2, c2, f)
  BY <1>1 DEF EvidenceAllowed
<1>4. AllEvidenceAllowed(p2, c2, pol)
  BY <1>1, <1>3 DEF GoodProposal, AllEvidenceAllowed
<1>5. EvidenceComplete(p2, pol)
  BY DEF GoodProposal, EvidenceComplete
<1> QED
  BY <1>2, <1>4, <1>5 DEF GoodProposal

\* What the classifier proposes is good if the mail has a number of each kind.
LEMMA SvmIsGood ==
  ASSUME NEW sc, NEW D, NEW pol \in Policies, NEW c,
         NEW p \in SvmProposals(Mail(sc, D), Requested, 80),
         c.current_values = CurrentValues(sc, D),
         PdvsOn(Mail(sc, D).lines) # {}, PhonesOn(Mail(sc, D).lines) # {}
  PROVE  /\ GoodProposal(p, c, pol) /\ p.action = Requested /\ p.id = "svm-op-1"
         /\ p.pdv_code \in PdvsOn(Mail(sc, D).lines)
         /\ p.phone \in PhonesOn(Mail(sc, D).lines)
<1> DEFINE m == Mail(sc, D)
           said(f, x) == [field |-> f, value |-> x, source |-> "latest_user_message",
                          supported |-> TRUE]
<1>1. RequiredFields(Requested) = {"pdv_code", "phone"}
  BY DEF RequiredFields, Requested
<1>2. PdvsOn(m.lines) \subseteq Pdvs /\ PhonesOn(m.lines) \subseteq Phones
  BY MailAssumption DEF Mail, PdvsOn, PhonesOn
<1>3. None \notin Pdvs \cup Phones
  BY ValuesAssumption
<1> HIDE DEF m
<1>4. PICK x \in PdvsOn(m.lines), t \in PhonesOn(m.lines) :
        /\ p.id = "svm-op-1" /\ p.action = Requested /\ p.pdv_code = x /\ p.phone = t
        /\ p.missing \subseteq {"pdv_code", "phone"} /\ p.extra = {} /\ p.ambiguous = FALSE
        /\ p.confidence = 80
        /\ said("pdv_code", x) \in p.evidence /\ said("phone", t) \in p.evidence
        /\ \A e \in p.evidence : e.source = "latest_user_message"
  BY <1>1, <1>2, <1>3 DEF SvmProposals, m
<1>5. /\ said("pdv_code", x).field = "pdv_code" /\ said("pdv_code", x).value = x
      /\ said("pdv_code", x).source = "latest_user_message" /\ said("pdv_code", x).supported
      /\ said("phone", t).field = "phone" /\ said("phone", t).value = t
      /\ said("phone", t).source = "latest_user_message" /\ said("phone", t).supported
  OBVIOUS
<1> HIDE DEF said
<1>6. ValueOf(p, "pdv_code") = x /\ ValueOf(p, "phone") = t /\ x # None /\ t # None
  BY <1>2, <1>3, <1>4 DEF ValueOf
<1>7. AbsentFields(p) = {} /\ WellFormed(p) /\ ~ClosedHistoryQuoted(p)
  BY <1>1, <1>2, <1>4, <1>6 DEF AbsentFields, WellFormed, ClosedHistoryQuoted, Requested
<1>8. x \in c.current_values /\ t \in c.current_values
  BY DEF CurrentValues, m
<1>9. EvidenceAllowed(p, c, "pdv_code") /\ EvidenceAllowed(p, c, "phone")
  BY <1>4, <1>5, <1>6, <1>8 DEF EvidenceAllowed
<1>10. AllEvidenceAllowed(p, c, pol)
  BY <1>1, <1>4, <1>9 DEF AllEvidenceAllowed
<1>11. EvidenceComplete(p, pol)
  BY <1>1, <1>4, <1>5, <1>6 DEF EvidenceComplete
<1>12. ConfidencePasses(p.confidence, pol.analyzer_threshold)
  <2>1. 80 # None
    BY ValuesAssumption
  <2>2. pol.analyzer_threshold \in {None, 70}
    BY PolicyFields
  <2> QED
    BY <1>4, <2>1, <2>2 DEF ConfidencePasses
<1> QED
  BY <1>1, <1>4, <1>7, <1>10, <1>11, <1>12 DEF GoodProposal, m

(* The model's analysis after apply_intent_safety *)

ActionUnsafe(D) == {"override_attempt", "negated", "past"} \cap D # {}

\* The model's own proposal is made, and is not removed.
Follows(D) ==
  /\ "no_operations" \notin D
  /\ IF "unknown_action" \in D THEN "override_attempt" \notin D ELSE ~ActionUnsafe(D)

\* So is its second one.
FollowsOther(D) == "second_operation" \in D /\ ~ActionUnsafe(D)

\* Everything the model proposes is removed.
AllRemoved(D) ==
  ~Follows(D) /\ ~FollowsOther(D) /\ ("no_operations" \notin D \/ "second_operation" \in D)

\* The fields of the model's analysis.
LEMMA ModelParts ==
  ASSUME NEW sc, NEW D
  PROVE  LET m == ModelAnalysis(sc, D)
         IN /\ m.operations = (IF "no_operations" \in D THEN {} ELSE {Proposal(sc, D)})
                              \cup (IF "second_operation" \in D THEN {OtherProposal(sc)} ELSE {})
            /\ m.new_request <=> sc # "answer" \/ "independent" \in D
            /\ m.contradiction <=> "contradiction" \in D
            /\ m.unresolved = (IF "unscoped" \in D THEN {"unscoped"} ELSE {})
                              \cup (IF "scoped_elsewhere" \in D THEN {"op2"} ELSE {})
            /\ m.direct = IF "direct_yes" \in D THEN "yes"
                          ELSE IF "direct_no" \in D THEN "no" ELSE "unknown"
            /\ m.hypothetical <=> "a_hypothetical" \in D
            /\ m.forwarded <=> "a_forwarded" \in D
            /\ m.subject_conflict <=> "a_subject" \in D
            /\ m.mapping = IF "a_mapping" \in D THEN "no" ELSE "unknown"
  BY DEF ModelAnalysis

\* Its kind is that of the one doubt about it, if there is one.
LEMMA ModelKinds ==
  ASSUME NEW sc, NEW D, OneKind(D)
  PROVE  LET kind == ModelAnalysis(sc, D).kind
         IN /\ kind = "correction" <=> "kind_correction" \in D
            /\ kind = "ambiguous" <=> "kind_ambiguous" \in D
            /\ kind = "irrelevant" <=> "kind_irrelevant" \in D
            /\ kind = "cancellation" <=> "kind_cancellation" \in D
            /\ kind \in {"correction", "ambiguous", "irrelevant", "cancellation",
                         IF sc = "answer" THEN "clarification_reply" ELSE "new_request"}
<1> DEFINE usual == IF sc = "answer" THEN "clarification_reply" ELSE "new_request"
           kind == ModelAnalysis(sc, D).kind
<1>0. /\ usual \notin {"correction", "ambiguous", "irrelevant", "cancellation"}
  OBVIOUS
<1>1. CASE "kind_correction" \in D
  <2>1. "kind_ambiguous" \notin D /\ "kind_irrelevant" \notin D /\ "kind_cancellation" \notin D
    BY <1>1 DEF OneKind
  <2>2. kind = "correction"
    BY <1>1, <2>1 DEF ModelAnalysis
  <2> QED
    BY <1>1, <2>1, <2>2
<1>2. CASE "kind_ambiguous" \in D
  <2>1. "kind_correction" \notin D /\ "kind_irrelevant" \notin D /\ "kind_cancellation" \notin D
    BY <1>2 DEF OneKind
  <2>2. kind = "ambiguous"
    BY <1>2, <2>1 DEF ModelAnalysis
  <2> QED
    BY <1>2, <2>1, <2>2
<1>3. CASE "kind_irrelevant" \in D
  <2>1. "kind_correction" \notin D /\ "kind_ambiguous" \notin D /\ "kind_cancellation" \notin D
    BY <1>3 DEF OneKind
  <2>2. kind = "irrelevant"
    BY <1>3, <2>1 DEF ModelAnalysis
  <2> QED
    BY <1>3, <2>1, <2>2
<1>4. CASE "kind_cancellation" \in D
  <2>1. "kind_correction" \notin D /\ "kind_ambiguous" \notin D /\ "kind_irrelevant" \notin D
    BY <1>4 DEF OneKind
  <2>2. kind = "cancellation"
    BY <1>4, <2>1 DEF ModelAnalysis
  <2> QED
    BY <1>4, <2>1, <2>2
<1>5. CASE {"kind_correction", "kind_ambiguous", "kind_irrelevant", "kind_cancellation"}
             \cap D = {}
  <2>1. kind = usual
    BY <1>5 DEF ModelAnalysis
  <2> HIDE DEF usual, kind
  <2> QED
    BY <1>0, <1>5, <2>1 DEF usual, kind
<1> QED
  BY <1>1, <1>2, <1>3, <1>4, <1>5

\* What apply_intent_safety leaves of it.
LEMMA SafeParts ==
  ASSUME NEW sc, NEW D
  PROVE  LET m == ModelAnalysis(sc, D)
             s == IntentSafety(Mail(sc, D), m)
         IN /\ s.operations = (IF Follows(D) THEN {Proposal(sc, D)} ELSE {})
                              \cup (IF FollowsOther(D) THEN {OtherProposal(sc)} ELSE {})
            /\ s.kind = IF AllRemoved(D) THEN "irrelevant" ELSE m.kind
            /\ s.new_request <=> ~AllRemoved(D) /\ m.new_request
            /\ (s.contradiction <=> m.contradiction) /\ s.unresolved = m.unresolved
            /\ s.direct = m.direct /\ (s.hypothetical <=> m.hypothetical)
            /\ (s.forwarded <=> m.forwarded)
            /\ (s.subject_conflict <=> m.subject_conflict)
            /\ s.mapping = m.mapping
<1> DEFINE m == ModelAnalysis(sc, D)
           mail == Mail(sc, D)
           s == IntentSafety(mail, m)
           safe == {p \in m.operations : ~Unsafe(mail, p.action)}
<1>1. /\ Unsafe(mail, Requested) <=> ActionUnsafe(D)
      /\ Unsafe(mail, "unknown") <=> "override_attempt" \in D
  BY UnsafeIs DEF ActionUnsafe
<1>2. /\ Proposal(sc, D).action = IF "unknown_action" \in D THEN "unknown" ELSE Requested
      /\ OtherProposal(sc).action = Requested
  <2>1. Proposal(sc, D).action = IF "unknown_action" \in D THEN "unknown" ELSE Requested
    BY DEF Proposal
  <2>2. OtherProposal(sc).action = Requested
    BY DEF Proposal, OtherProposal
  <2> QED
    BY <2>1, <2>2
<1>3. m.operations = (IF "no_operations" \in D THEN {} ELSE {Proposal(sc, D)})
                     \cup (IF "second_operation" \in D THEN {OtherProposal(sc)} ELSE {})
  BY ModelParts
<1>4. /\ safe = {} /\ m.operations # {} =>
           /\ s.operations = {} /\ s.kind = "irrelevant" /\ s.new_request = FALSE
      /\ ~(safe = {} /\ m.operations # {}) =>
           /\ s.operations = safe /\ s.kind = m.kind /\ s.new_request = m.new_request
      /\ (s.contradiction <=> m.contradiction) /\ s.unresolved = m.unresolved
      /\ s.direct = m.direct /\ (s.hypothetical <=> m.hypothetical)
      /\ (s.forwarded <=> m.forwarded)
      /\ (s.subject_conflict <=> m.subject_conflict)
      /\ s.mapping = m.mapping
  BY DEF IntentSafety, ModelAnalysis
<1> HIDE DEF m, s
<1>5. safe = (IF Follows(D) THEN {Proposal(sc, D)} ELSE {})
             \cup (IF FollowsOther(D) THEN {OtherProposal(sc)} ELSE {})
  <2> HIDE DEF mail
  <2> QED
    BY <1>1, <1>2, <1>3 DEF Follows, FollowsOther
<1>6. safe = {} /\ m.operations # {} <=> AllRemoved(D)
  BY <1>3, <1>5 DEF AllRemoved
<1> HIDE DEF safe
<1>7. s.new_request <=> ~AllRemoved(D) /\ m.new_request
  <2>1. m.new_request \in BOOLEAN
    BY DEF ModelAnalysis, m
  <2> QED
    BY <1>4, <1>6, <2>1
<1> QED
  BY <1>4, <1>5, <1>6, <1>7 DEF m, s, mail

(* A first request, and a follow-up *)

\* _materialize_analysis takes the mail for a new request in a completed thread, or for
\* a correction of nothing known.
Independent(sc, D, s) ==
  /\ About(sc, D) = "request" /\ Stored(sc, D).status = "COMPLETED"
  /\ s.new_request /\ "independent" \in Mail(sc, D).features
Corrects(sc, D, s) ==
  About(sc, D) = "request" /\ s.kind = "correction" /\ ~Independent(sc, D, s)
Routed(sc, D, s) ==
  IF \/ Independent(sc, D, s)
     \/ PreparedStrength(sc, D) = "new" /\ About(sc, D) = "nothing" /\ s.kind = "correction"
    THEN AsNewRequest(s) ELSE s

\* The work it makes of a proposal p.
NewOperation(sc, D, s, p) ==
  Work(p, "new", FALSE, Routed(sc, D, s), Cardinality(s.operations))

\* A request or a follow-up that corrects nothing brings new operations.
LEMMA NewWorkIs ==
  ASSUME NEW sc \in {"request", "follow_up"}, NEW D, NEW s,
         NEW x \in Materialized(Mail(sc, D), PreparedStrength(sc, D), About(sc, D), s,
                                Stored(sc, D)),
         s.kind \notin {"irrelevant", "automated"}, ~Corrects(sc, D, s), s.operations # {},
         PreparedStrength(sc, D) # "weak"
  PROVE  \E p \in s.operations :
           x = NewOperation(sc, D, s, p)
<1>1. About(sc, D) # "question"
  BY DEF About
<1>2. NewWork(s, PreparedStrength(sc, D), Routed(sc, D, s)) # {}
  BY DEF NewWork
<1>3. x \in NewWork(s, PreparedStrength(sc, D), Routed(sc, D, s))
  BY <1>1, <1>2 DEF Materialized, Corrects, Independent, Routed
<1> QED
  BY <1>3 DEF NewWork, NewOperation

\* If one is executed it brings a new operation: a correction is reviewed, a weak match escalated.
LEMMA ExecutedIsNew ==
  ASSUME NEW sc \in {"request", "follow_up"}, NEW D, NEW pol, NEW w,
         Execution(sc, D, pol, w),
         w.work \in Materialized(Mail(sc, D), PreparedStrength(sc, D), About(sc, D),
                                 w.analysis, Stored(sc, D))
  PROVE  LET s == w.analysis
         IN /\ s.kind \notin {"irrelevant", "automated"} /\ ~Corrects(sc, D, s)
            /\ PreparedStrength(sc, D) # "weak"
            /\ \E p \in s.operations :
                 w.work = NewOperation(sc, D, s, p)
<1> DEFINE s == w.analysis
           c == Context(sc, D, w.work, s, pol)
           stored == Stored(sc, D)
           strength == PreparedStrength(sc, D)
<1>1. /\ w.work.result = "work"
      /\ ~CorrectionOfKnown(w.work.analysis, Verification(sc, D), c)
      /\ c.strength \in {"new", "strong"}
  <2>1. /\ w.work.result = "work"
        /\ Executes(w.work.analysis, w.work.proposal, Verification(sc, D), c, pol)
    BY DEF Execution
  <2> HIDE DEF c
  <2> QED
    BY <2>1 DEF Executes, CanExecute
<1>2. /\ c.strength = w.work.strength
      /\ c.expected_action = IF w.work.known THEN stored.action ELSE None
  BY DEF Context
<1>3. stored.action # None
  BY ValuesAssumption DEF Stored, Requested, Action
<1>4. About(sc, D) # "question"
  BY DEF About
<1> HIDE DEF s, c, stored, strength
<1>5. w.work.result \notin {"IGNORE", "ESCALATE"}
  BY <1>1
<1>6. \A r : NoWork(r).result = r
  BY DEF NoWork, Work
<1>7. /\ s.kind \notin {"irrelevant", "automated"}
      /\ IF Corrects(sc, D, s) THEN w.work \in CorrectionWork(s, strength, stored)
         ELSE w.work \in NewWork(s, strength, Routed(sc, D, s))
  BY <1>4, <1>5, <1>6
     DEF Materialized, Corrects, Independent, Routed, s, strength, stored
<1>8. ~Corrects(sc, D, s)
  <2> SUFFICES ASSUME Corrects(sc, D, s) PROVE FALSE
    OBVIOUS
  <2>1. w.work \in CorrectionWork(s, strength, stored) /\ s.kind = "correction"
    BY <1>7 DEF Corrects
  <2>2. w.work.known = TRUE /\ w.work.analysis = s
    BY <2>1 DEF CorrectionWork, Work
  <2> QED
    BY <1>1, <1>2, <1>3, <2>1, <2>2 DEF CorrectionOfKnown
<1>9. PICK p \in s.operations :
        w.work = Work(p, IF strength = "weak" THEN "weak" ELSE "new", FALSE,
                      Routed(sc, D, s), Cardinality(s.operations))
  BY <1>7, <1>8 DEF NewWork
<1>10. strength # "weak"
  <2>1. w.work.strength = IF strength = "weak" THEN "weak" ELSE "new"
    BY <1>9 DEF Work
  <2> QED
    BY <1>1, <1>2, <2>1
<1> QED
  BY <1>7, <1>8, <1>9, <1>10 DEF s, strength, NewOperation

\* A request or a follow-up that is executed is so with a doubt less, if what the analyzer
\* makes of it then is as good.
LEMMA NewStays ==
  ASSUME NEW sc \in {"request", "follow_up"}, NEW D, NEW d, NEW pol \in Policies, NEW w, NEW w2,
         d \notin OtherValues \cup {"independent", "negation", "completed", "negated", "past"},
         pol.subject_override => d \notin {"forwarded", "subject_action"},
         Execution(sc, D, pol, w), w.work.proposal.action = Requested,
         w.work \in Materialized(Mail(sc, D), PreparedStrength(sc, D), About(sc, D),
                                 w.analysis, Stored(sc, D)),
         w2.work \in Materialized(Mail(sc, D \ {d}), PreparedStrength(sc, D \ {d}),
                                  About(sc, D \ {d}), w2.analysis, Stored(sc, D \ {d})),
         w.analysis.kind \in {"new_request", "correction", "ambiguous"},
         w2.analysis.kind \in {w.analysis.kind, "new_request"},
         w2.analysis.kind = "correction" <=> w.analysis.kind = "correction",
         {"kind", "contradiction", "unresolved"} \subseteq DOMAIN w.analysis,
         {"kind", "contradiction", "unresolved"} \subseteq DOMAIN w2.analysis,
         w2.analysis.new_request <=> w.analysis.new_request,
         w2.analysis.contradiction => w.analysis.contradiction,
         w2.analysis.operations # {},
         Cardinality(w2.analysis.operations) = Cardinality(w.analysis.operations),
         SaysNoMore(w2.analysis, w.analysis),
         PreparedStrength(sc, D) = "strong" => RepliesAgree(Mail(sc, D).lines, w2.analysis),
         w2.work.result = "work" => w2.work.proposal.id # "op2",
         \A p \in w2.analysis.operations :
           p.id # "op2" =>
             /\ {p.id, "unscoped"} \cap w2.analysis.unresolved = {}
             /\ \A c : /\ c.current_values = CurrentValues(sc, D \ {d})
                       /\ c.stored_values = {} /\ c.strength = "new"
                       => GoodProposal(p, c, pol)
  PROVE  Execution(sc, D \ {d}, pol, w2)
<1> DEFINE E == D \ {d}
           s == w.analysis
           s2 == w2.analysis
<1>1. PICK p \in s.operations :
        w.work = NewOperation(sc, D, s, p)
  BY ExecutedIsNew
<1>2. ~Corrects(sc, D, s) /\ PreparedStrength(sc, D) # "weak"
  BY ExecutedIsNew
<1>3. /\ PreparedStrength(sc, E) = PreparedStrength(sc, D) /\ About(sc, E) = About(sc, D)
      /\ sc = "request" => About(sc, D) = "nothing" /\ PreparedStrength(sc, D) = "new"
      /\ sc = "follow_up" => About(sc, D) = "request" /\ PreparedStrength(sc, D) = "strong"
  BY <1>2 DEF PreparedStrength, About
<1>4. Independent(sc, E, s2) <=> Independent(sc, D, s)
  <2>1. Stored(sc, E).status = "COMPLETED" <=> Stored(sc, D).status = "COMPLETED"
    BY DEF Stored
  <2>2. "independent" \in Mail(sc, E).features <=> "independent" \in Mail(sc, D).features
    BY DEF Mail
  <2> QED
    BY <1>3, <2>1, <2>2 DEF Independent
<1>5. ~Corrects(sc, E, s2)
  BY <1>2, <1>3, <1>4 DEF Corrects
<1>6. PICK p2 \in s2.operations :
        w2.work = NewOperation(sc, E, s2, p2)
  <2>1. s2.kind \notin {"irrelevant", "automated"} /\ s2.operations # {}
    OBVIOUS
  <2>2. PreparedStrength(sc, E) # "weak"
    BY <1>2, <1>3
  <2>3. w2.work \in Materialized(Mail(sc, E), PreparedStrength(sc, E), About(sc, E), s2,
                                 Stored(sc, E))
    OBVIOUS
  <2> HIDE DEF E, s2
  <2> QED
    BY <1>5, <2>1, <2>2, <2>3, NewWorkIs
<1>7. /\ w.work.known = FALSE /\ w.work.strength = "new" /\ w.work.analysis = Routed(sc, D, s)
      /\ w.work.items = Cardinality(s.operations)
  BY <1>1 DEF NewOperation, Work
<1>8. /\ w2.work.known = FALSE /\ w2.work.strength = "new" /\ w2.work.result = "work"
      /\ w2.work.analysis = Routed(sc, E, s2) /\ w2.work.items = Cardinality(s2.operations)
  BY <1>6 DEF NewOperation, Work
<1>9. \A x : {"kind", "contradiction", "unresolved"} \subseteq DOMAIN x =>
               /\ AsNewRequest(x).kind = "new_request" /\ AsNewRequest(x).contradiction = FALSE
               /\ AsNewRequest(x).unresolved = x.unresolved
  BY DEF AsNewRequest
<1>10. w.work.analysis.kind # "ambiguous"
  BY DEF Execution, Executes, CanExecute, Ambiguous
<1>11. SafetyReasons(Mail(sc, D), PreparedStrength(sc, D), s, pol) = {}
  <2> DEFINE c == Context(sc, D, w.work, s, pol)
  <2>1. c.safety_reasons = {}
    <3>1. Executes(w.work.analysis, w.work.proposal, Verification(sc, D), c, pol)
      BY DEF Execution
    <3> HIDE DEF c
    <3> QED
      BY <3>1 DEF Executes, CanExecute, HardInvariants
  <2> QED
    BY <2>1 DEF Context
<1>12. /\ w2.work.analysis.kind = w.work.analysis.kind
       /\ w2.work.analysis.contradiction => w.work.analysis.contradiction
       /\ w2.work.analysis.unresolved = s2.unresolved
  BY <1>2, <1>3, <1>4, <1>7, <1>8, <1>9, <1>10 DEF Routed, Corrects
<1>13. SafetyReasons(Mail(sc, E), PreparedStrength(sc, E), s2, pol) = {}
  <2>1. s2.kind \in ExecutableKinds
    BY DEF ExecutableKinds
  <2> HIDE DEF s, s2
  <2> QED
    BY <1>3, <1>11, <2>1, SafetyStays DEF s, s2
<1>17. w2.work.proposal \in s2.operations /\ w2.work.proposal.id # "op2"
  BY <1>6, <1>8 DEF NewOperation, Work
<1>14. GoodProposal(w2.work.proposal, Context(sc, E, w2.work, s2, pol), pol)
  <2> DEFINE c2 == Context(sc, E, w2.work, s2, pol)
  <2>1. c2.current_values = CurrentValues(sc, E) /\ c2.stored_values = {} /\ c2.strength = "new"
    BY <1>8 DEF Context
  <2> HIDE DEF c2
  <2> QED
    BY <1>17, <2>1 DEF c2
<1>15. "phone" \in RequiredFields(w.work.proposal.action)
  BY DEF RequiredFields, Requested
<1>16. /\ w2.work.known = w.work.known /\ w2.work.strength = w.work.strength
       /\ w2.work.items = w.work.items /\ ~w2.work.known
       /\ {w2.work.proposal.id, "unscoped"} \cap w2.work.analysis.unresolved = {}
  BY <1>7, <1>8, <1>12, <1>17
<1> HIDE DEF s, s2
<1> QED
  BY <1>8, <1>12, <1>13, <1>14, <1>15, <1>16, ExecutionStays DEF s, s2

(* The classifier's analysis after apply_intent_safety *)

\* The classifier proposes one operation, of the numbers in the mail, and no doubt of its own.
LEMMA SvmParts ==
  ASSUME NEW sc, NEW D, NEW q \in SvmProposals(Mail(sc, D), Requested, 80)
  PROVE  LET s == IntentSafety(Mail(sc, D), Classified(q))
         IN /\ q.action = Requested /\ q.id = "svm-op-1" /\ q.extra = {} /\ ~q.ambiguous
            /\ q.pdv_code \in PdvsOn(Mail(sc, D).lines) \cup {None}
            /\ q.phone \in PhonesOn(Mail(sc, D).lines) \cup {None}
            /\ q.pdv_code # None => PdvsOn(Mail(sc, D).lines) # {}
            /\ q.phone # None => PhonesOn(Mail(sc, D).lines) # {}
            /\ ActionUnsafe(D) => s.operations = {} /\ s.kind = "irrelevant" /\ ~s.new_request
            /\ ~ActionUnsafe(D) =>
                 s.operations = {q} /\ s.kind = "new_request" /\ s.new_request
            /\ ~s.contradiction /\ s.unresolved = {} /\ s.direct = "unknown"
            /\ ~s.hypothetical /\ ~s.forwarded /\ ~s.subject_conflict
            /\ s.mapping = "unknown"
            /\ {"kind", "contradiction", "unresolved"} \subseteq DOMAIN s
<1> DEFINE mail == Mail(sc, D)
           a == Classified(q)
           s == IntentSafety(mail, a)
           safe == {p \in a.operations : ~Unsafe(mail, p.action)}
<1>1. /\ q.action = Requested /\ q.id = "svm-op-1" /\ q.extra = {} /\ ~q.ambiguous
      /\ q.pdv_code \in PdvsOn(mail.lines) \cup {None}
      /\ q.phone \in PhonesOn(mail.lines) \cup {None}
  <2> HIDE DEF mail
  <2>1. PICK x \in PdvsOn(mail.lines) \cup {None}, t \in PhonesOn(mail.lines) \cup {None} :
          /\ q.id = "svm-op-1" /\ q.action = Requested /\ q.pdv_code = x /\ q.phone = t
          /\ q.extra = {} /\ q.ambiguous = FALSE
    BY DEF SvmProposals, mail
  <2> QED
    BY <2>1
<1>2. Unsafe(mail, Requested) <=> ActionUnsafe(D)
  BY UnsafeIs DEF ActionUnsafe
<1>3. a.operations = {q} /\ a.kind = "new_request" /\ a.new_request = TRUE
  BY DEF Classified, Analysis
<1>4. /\ safe = {} /\ a.operations # {} =>
           /\ s.operations = {} /\ s.kind = "irrelevant" /\ s.new_request = FALSE
      /\ ~(safe = {} /\ a.operations # {}) =>
           /\ s.operations = safe /\ s.kind = a.kind /\ s.new_request = a.new_request
      /\ ~s.contradiction /\ s.unresolved = {} /\ s.direct = "unknown"
      /\ ~s.hypothetical /\ ~s.forwarded /\ ~s.subject_conflict
      /\ s.mapping = "unknown"
  BY DEF IntentSafety, Classified, Analysis, NoSignals
<1>5. {"kind", "contradiction", "unresolved"} \subseteq DOMAIN s
  BY DEF IntentSafety, Classified, Analysis
<1> HIDE DEF a, s, mail
<1>6. safe = IF ActionUnsafe(D) THEN {} ELSE {q}
  BY <1>1, <1>2, <1>3
<1> HIDE DEF safe
<1>7. s.new_request <=> ~ActionUnsafe(D)
  BY <1>3, <1>4, <1>6
<1> QED
  BY <1>1, <1>3, <1>4, <1>5, <1>6, <1>7 DEF a, s, mail

\* apply_intent_safety leaves the fields that the routing replaces.
LEMMA SafeDomain ==
  ASSUME NEW sc, NEW D
  PROVE  {"kind", "contradiction", "unresolved"}
           \subseteq DOMAIN IntentSafety(Mail(sc, D), ModelAnalysis(sc, D))
  BY DEF IntentSafety, ModelAnalysis

\* apply_intent_safety of an analysis that proposes nothing.
LEMMA UnsureParts ==
  ASSUME NEW sc, NEW D
  PROVE  LET s == IntentSafety(Mail(sc, D), Unsure)
         IN /\ s.operations = {} /\ s.kind = "ambiguous" /\ ~s.new_request
            /\ s.unresolved = {"unscoped"} /\ s.direct = "unknown" /\ ~s.hypothetical
            /\ ~s.forwarded /\ ~s.subject_conflict /\ s.mapping = "unknown"
  BY DEF IntentSafety, Unsure, Analysis, NoSignals

\* The two proposals of the model are told apart by their ids.
LEMMA ProposalIds ==
  ASSUME NEW sc, NEW D
  PROVE  Proposal(sc, D).id = "op" /\ OtherProposal(sc).id = "op2"
<1>1. \A X : Proposal(sc, X).id = "op"
  BY DEF Proposal
<1>2. OtherProposal(sc).id = "op2"
  BY DEF OtherProposal, Proposal
<1> QED
  BY <1>1, <1>2

\* What the model says is no worse with a doubt less.
LEMMA ModelSaysNoMore ==
  ASSUME NEW sc, NEW D, NEW d,
         d \notin {"direct_yes", "scoped_elsewhere", "independent"},
         AllRemoved(D \ {d}) => AllRemoved(D)
  PROVE  LET s == IntentSafety(Mail(sc, D), ModelAnalysis(sc, D))
             s2 == IntentSafety(Mail(sc, D \ {d}), ModelAnalysis(sc, D \ {d}))
         IN SaysNoMore(s2, s) /\ (s2.contradiction => s.contradiction)
<1> DEFINE E == D \ {d}
           m == ModelAnalysis(sc, D)
           m2 == ModelAnalysis(sc, E)
           s == IntentSafety(Mail(sc, D), m)
           s2 == IntentSafety(Mail(sc, E), m2)
<1>1. /\ s.new_request <=> ~AllRemoved(D) /\ m.new_request
      /\ (s.contradiction <=> m.contradiction) /\ s.unresolved = m.unresolved
      /\ s.direct = m.direct /\ (s.hypothetical <=> m.hypothetical)
      /\ (s.forwarded <=> m.forwarded)
      /\ (s.subject_conflict <=> m.subject_conflict)
      /\ s.mapping = m.mapping
  BY SafeParts
<1>2. /\ s2.new_request <=> ~AllRemoved(E) /\ m2.new_request
      /\ (s2.contradiction <=> m2.contradiction) /\ s2.unresolved = m2.unresolved
      /\ s2.direct = m2.direct /\ (s2.hypothetical <=> m2.hypothetical)
      /\ (s2.forwarded <=> m2.forwarded)
      /\ (s2.subject_conflict <=> m2.subject_conflict)
      /\ s2.mapping = m2.mapping
  BY SafeParts
<1>3. /\ m.new_request => m2.new_request
      /\ m2.contradiction => m.contradiction
      /\ m2.hypothetical => m.hypothetical
      /\ m2.forwarded => m.forwarded
      /\ m2.subject_conflict => m.subject_conflict
  BY ModelParts
<1>4. /\ m2.direct = "no" => m.direct = "no"
      /\ m.direct = "yes" => m2.direct = "yes"
      /\ m2.mapping = "no" => m.mapping = "no"
  BY ModelParts
<1>5. m.unresolved # {} /\ "unscoped" \notin m.unresolved =>
        m2.unresolved # {} /\ "unscoped" \notin m2.unresolved
  BY ModelParts
<1> HIDE DEF m, m2, s, s2, E
<1>6. /\ s2.hypothetical => s.hypothetical
      /\ s2.forwarded => s.forwarded
      /\ s2.subject_conflict => s.subject_conflict
      /\ s2.contradiction => s.contradiction
  BY <1>1, <1>2, <1>3
<1>7. /\ s2.direct = "no" => s.direct = "no"
      /\ s.direct = "yes" => s2.direct = "yes"
      /\ s2.mapping = "no" => s.mapping = "no"
  BY <1>1, <1>2, <1>4
<1>8. s.unresolved # {} /\ "unscoped" \notin s.unresolved =>
        s2.unresolved # {} /\ "unscoped" \notin s2.unresolved
  BY <1>1, <1>2, <1>5
<1>9. s.new_request => s2.new_request
  <2>1. AllRemoved(E) => AllRemoved(D)
    BY DEF E
  <2> QED
    BY <1>1, <1>2, <1>3, <2>1, Zenon
<1>10. SaysNoMore(s2, s)
  BY <1>6, <1>7, <1>8, <1>9 DEF SaysNoMore
<1> QED
  BY <1>6, <1>10 DEF E, s, s2, m, m2

\* The doubts that can be removed: none of those that Excuses names, nor another value.
Weighs(sc, D, pol, known, d) ==
  d \in D /\ d \notin Excuses(sc, D, pol, known) \cup OtherValues

\* A mail that is executed has passed every check of assess_request_safety.
LEMMA SafetyIsChecked ==
  ASSUME NEW sc, NEW D, NEW pol, NEW w, Execution(sc, D, pol, w)
  PROVE  /\ SafetyReasons(Mail(sc, D), PreparedStrength(sc, D), w.analysis, pol) = {}
         /\ NoReason(Mail(sc, D), PreparedStrength(sc, D), w.analysis, pol)
<1> DEFINE c == Context(sc, D, w.work, w.analysis, pol)
<1>1. c.safety_reasons = {}
  <2>1. Executes(w.work.analysis, w.work.proposal, Verification(sc, D), c, pol)
    BY DEF Execution
  <2> HIDE DEF c
  <2> QED
    BY <2>1 DEF Executes, CanExecute, HardInvariants
<1>2. SafetyReasons(Mail(sc, D), PreparedStrength(sc, D), w.analysis, pol) = {}
  BY <1>1 DEF Context
<1> QED
  BY <1>2, ReasonsOneByOne, FewNumbers

\* A request or follow-up that the classifier answers.
LEMMA ClassifiedStays ==
  ASSUME NEW sc \in {"request", "follow_up"}, NEW D, NEW d, NEW pol \in Policies,
         NEW w \in Works(sc, D), NEW w2 \in Works(sc, D \ {d}), Execution(sc, D, pol, w),
         "classifier" \in D, Weighs(sc, D, pol, FALSE, d)
  PROVE  Execution(sc, D \ {d}, pol, w2)
<1> DEFINE E == D \ {d}
           s == w.analysis
           s2 == w2.analysis
<1>1. PICK q \in SvmProposals(Mail(sc, D), Requested, 80) :
        s = IntentSafety(Mail(sc, D), Classified(q))
  BY WorksAre, AnalysesAre
<1>2. w.work \in Materialized(Mail(sc, D), PreparedStrength(sc, D), About(sc, D), s,
                              Stored(sc, D))
  BY WorksAre
<1>3. d # "classifier"
  BY DEF Weighs, Excuses
<1>4. PICK q2 \in SvmProposals(Mail(sc, E), Requested, 80) :
        s2 = IntentSafety(Mail(sc, E), Classified(q2))
  BY <1>3, WorksAre, AnalysesAre
<1>5. /\ w2.work \in Materialized(Mail(sc, E), PreparedStrength(sc, E), About(sc, E), s2,
                                  Stored(sc, E))
      /\ w2.work.result = "work" => w2.work.proposal.id # "op2"
  BY WorksAre
<1> HIDE DEF E
<1>6. PICK p \in s.operations : w.work = NewOperation(sc, D, s, p)
  BY <1>2, ExecutedIsNew
<1>7. ~ActionUnsafe(D) /\ s.operations = {q} /\ s.kind = "new_request"
  BY <1>1, SvmParts
<1>8. ~ActionUnsafe(E) /\ s2.operations = {q2} /\ s2.kind = "new_request"
  <2>1. ~ActionUnsafe(E)
    BY <1>7 DEF ActionUnsafe, E
  <2> QED
    BY <1>4, <2>1, SvmParts
<1>9. d \notin OtherValues \cup {"independent", "negation", "completed", "negated", "past"}
  BY <1>7 DEF Weighs, Excuses, ActionUnsafe
<1>10. pol.subject_override => d \notin {"forwarded", "subject_action"}
  BY DEF Weighs, Excuses
<1>11. Mail(sc, E).lines = Mail(sc, D).lines /\ CurrentValues(sc, E) = CurrentValues(sc, D)
  BY <1>9, MailStays DEF E
<1>12. w.work.proposal = q /\ q.action = Requested
  <2>1. p = q
    BY <1>7
  <2> QED
    BY <1>1, <1>6, <2>1, SvmParts DEF NewOperation, Work
<1>13. PdvsOn(Mail(sc, E).lines) # {} /\ PhonesOn(Mail(sc, E).lines) # {}
  <2>1. AbsentFields(q) = {}
    BY <1>12 DEF Execution, Executes, CanExecute, HardInvariants
  <2>2. q.pdv_code # None /\ q.phone # None
    BY <1>12, <2>1 DEF AbsentFields, RequiredFields, Requested, ValueOf
  <2> QED
    BY <1>1, <1>11, <2>2, SvmParts
<1>14. \A c : c.current_values = CurrentValues(sc, E) =>
                /\ GoodProposal(q2, c, pol)
                /\ q2.pdv_code \in PdvsOn(Mail(sc, E).lines)
                /\ q2.phone \in PhonesOn(Mail(sc, E).lines)
                /\ q2.id = "svm-op-1"
  BY <1>4, <1>13, SvmIsGood
<1>15. /\ q2.pdv_code \in PdvsOn(Mail(sc, E).lines) /\ q2.phone \in PhonesOn(Mail(sc, E).lines)
       /\ q2.id = "svm-op-1"
  <2>1. [current_values |-> CurrentValues(sc, E)].current_values = CurrentValues(sc, E)
    OBVIOUS
  <2> QED
    BY <1>14, <2>1
<1>16. RepliesAgree(Mail(sc, D).lines, s2)
  <2>1. None \notin Pdvs \cup Phones
    BY ValuesAssumption
  <2>2. PdvsOn(Mail(sc, D).lines) \subseteq Pdvs /\ PhonesOn(Mail(sc, D).lines) \subseteq Phones
    BY MailAssumption DEF Mail, PdvsOn, PhonesOn
  <2> HIDE DEF s2
  <2>3. /\ q2.pdv_code \in {x.pdv_code : x \in s2.operations} \ {None}
        /\ q2.phone \in {x.phone : x \in s2.operations} \ {None}
    BY <1>8, <1>11, <1>15, <2>1, <2>2
  <2> QED
    BY <1>11, <1>15, <2>3 DEF RepliesAgree, Disjoint
<1>17. /\ SaysNoMore(s2, s) /\ (s2.contradiction => s.contradiction)
       /\ (s2.new_request <=> s.new_request) /\ s2.unresolved = {}
       /\ {"kind", "contradiction", "unresolved"} \subseteq DOMAIN s
       /\ {"kind", "contradiction", "unresolved"} \subseteq DOMAIN s2
  <2>1. /\ s.new_request /\ ~s.contradiction /\ s.unresolved = {}
        /\ s.direct = "unknown" /\ ~s.hypothetical /\ ~s.forwarded
        /\ ~s.subject_conflict /\ s.mapping = "unknown"
        /\ {"kind", "contradiction", "unresolved"} \subseteq DOMAIN s
    BY <1>1, <1>7, SvmParts
  <2>2. /\ s2.new_request /\ ~s2.contradiction /\ s2.unresolved = {}
        /\ s2.direct = "unknown" /\ ~s2.hypothetical /\ ~s2.forwarded
        /\ ~s2.subject_conflict /\ s2.mapping = "unknown"
        /\ {"kind", "contradiction", "unresolved"} \subseteq DOMAIN s2
    BY <1>4, <1>8, SvmParts
  <2> HIDE DEF s, s2
  <2> QED
    BY <2>1, <2>2 DEF SaysNoMore
<1>18. Cardinality(s2.operations) = Cardinality(s.operations)
  BY <1>7, <1>8, FS_Singleton
<1> HIDE DEF s, s2
<1>19. \A x \in s2.operations :
         x.id # "op2" =>
           /\ {x.id, "unscoped"} \cap s2.unresolved = {}
           /\ \A c : /\ c.current_values = CurrentValues(sc, E)
                     /\ c.stored_values = {} /\ c.strength = "new"
                     => GoodProposal(x, c, pol)
  BY <1>8, <1>14, <1>17
<1>20. /\ s.kind \in {"new_request", "correction", "ambiguous"}
       /\ s2.kind \in {s.kind, "new_request"}
       /\ s2.kind = "correction" <=> s.kind = "correction"
       /\ s2.operations # {} /\ w.work.proposal.action = Requested
  BY <1>7, <1>8, <1>12
<1> QED
  BY <1>2, <1>5, <1>9, <1>10, <1>16, <1>17, <1>18, <1>19, <1>20, NewStays DEF s, s2, E

\* What is left of the model's proposals, when it follows its own.
LEMMA FollowedOperations ==
  ASSUME NEW sc, NEW D, Follows(D)
  PROVE  LET s == IntentSafety(Mail(sc, D), ModelAnalysis(sc, D))
         IN /\ Proposal(sc, D) \in s.operations /\ ~AllRemoved(D)
            /\ \A p \in s.operations : p.id # "op2" => p = Proposal(sc, D)
            /\ \A p \in s.operations : p = Proposal(sc, D) \/ p = OtherProposal(sc)
            /\ OtherProposal(sc) \in s.operations <=> FollowsOther(D)
            /\ Cardinality(s.operations) = IF FollowsOther(D) THEN 2 ELSE 1
<1> DEFINE s == IntentSafety(Mail(sc, D), ModelAnalysis(sc, D))
           p0 == Proposal(sc, D)
           o == OtherProposal(sc)
<1>1. s.operations = {p0} \cup (IF FollowsOther(D) THEN {o} ELSE {})
  BY SafeParts
<1>2. p0 # o /\ p0.id = "op" /\ o.id = "op2"
  BY ProposalIds
<1>3. ~AllRemoved(D)
  BY DEF AllRemoved
<1> HIDE DEF s, p0, o
<1>4. Cardinality(s.operations) = IF FollowsOther(D) THEN 2 ELSE 1
  <2>1. CASE FollowsOther(D)
    <3>1. s.operations = {p0, o}
      BY <1>1, <2>1
    <3> QED
      BY <1>2, <2>1, <3>1, PairIsTwo
  <2>2. CASE ~FollowsOther(D)
    <3>1. s.operations = {p0}
      BY <1>1, <2>2
    <3> QED
      BY <2>2, <3>1, FS_Singleton
  <2> QED
    BY <2>1, <2>2
<1> QED
  BY <1>1, <1>2, <1>3, <1>4 DEF s, p0, o

\* A mail whose model is followed proposes the same with a doubt less.
LEMMA FollowedStays ==
  ASSUME NEW D, NEW d, Follows(D), d \notin OtherValues, "unknown_action" \notin D
  PROVE  /\ Follows(D \ {d})
         /\ FollowsOther(D \ {d}) <=> FollowsOther(D)
  BY DEF Follows, FollowsOther, ActionUnsafe, OtherValues

\* The numbers of the proposals, and that they agree with the mail, stay the same.
LEMMA RepliesStay ==
  ASSUME NEW lines, NEW a, NEW a2, RepliesAgree(lines, a),
         \A p \in a.operations : \E q \in a2.operations :
           q.pdv_code = p.pdv_code /\ q.phone = p.phone,
         \A q \in a2.operations : \E p \in a.operations :
           q.pdv_code = p.pdv_code /\ q.phone = p.phone
  PROVE  RepliesAgree(lines, a2)
<1>1. {p.pdv_code : p \in a2.operations} = {p.pdv_code : p \in a.operations}
  OBVIOUS
<1>2. {p.phone : p \in a2.operations} = {p.phone : p \in a.operations}
  OBVIOUS
<1> QED
  BY <1>1, <1>2 DEF RepliesAgree

\* A request or follow-up that the model answers.
LEMMA ModelledStays ==
  ASSUME NEW sc \in {"request", "follow_up"}, NEW D, NEW d, NEW pol \in Policies,
         NEW w \in Works(sc, D), NEW w2 \in Works(sc, D \ {d}), Execution(sc, D, pol, w),
         OneKind(D), "classifier" \notin D, Weighs(sc, D, pol, FALSE, d)
  PROVE  Execution(sc, D \ {d}, pol, w2)
<1> DEFINE E == D \ {d}
           s == w.analysis
           s2 == w2.analysis
<1>0. /\ d \in D
      /\ d \notin OtherValues \cup {"independent", "negation", "completed", "kind_correction",
                                    "direct_yes", "scoped_elsewhere"}
      /\ pol.subject_override => d \notin {"forwarded", "subject_action"}
  BY DEF Weighs, Excuses
<1>1. PICK a \in Analyses(sc, D) :
        /\ s = IntentSafety(Mail(sc, D), a)
        /\ w.work \in Materialized(Mail(sc, D), PreparedStrength(sc, D), About(sc, D), s,
                                   Stored(sc, D))
        /\ w.work.result = "work" => w.work.proposal.id # "op2"
  BY WorksAre
<1>2. PICK a2 \in Analyses(sc, E) :
        /\ s2 = IntentSafety(Mail(sc, E), a2)
        /\ w2.work \in Materialized(Mail(sc, E), PreparedStrength(sc, E), About(sc, E), s2,
                                    Stored(sc, E))
        /\ w2.work.result = "work" => w2.work.proposal.id # "op2"
  BY WorksAre
<1> HIDE DEF E
<1>3. /\ s.kind \notin {"irrelevant", "automated"}
      /\ \E p \in s.operations : w.work = NewOperation(sc, D, s, p)
  BY <1>1, ExecutedIsNew
<1>4. PICK p \in s.operations : w.work = NewOperation(sc, D, s, p)
  BY <1>3
<1>5. "unsure" \notin D
  <2> SUFFICES ASSUME "unsure" \in D PROVE FALSE
    OBVIOUS
  <2>1. a \in {IF ModelAnalysis(sc, D).kind = "irrelevant" /\ ~ModelAnalysis(sc, D).new_request
                 THEN ModelAnalysis(sc, D) ELSE Unsure}
    BY <1>1, AnalysesAre
  <2>2. CASE a = Unsure
    BY <1>1, <1>4, <2>2, UnsureParts
  <2>3. CASE a = ModelAnalysis(sc, D) /\ ModelAnalysis(sc, D).kind = "irrelevant"
    BY <1>1, <1>3, <2>3, SafeParts
  <2> QED
    BY <2>1, <2>2, <2>3
<1>6. s = IntentSafety(Mail(sc, D), ModelAnalysis(sc, D))
  BY <1>1, <1>5, AnalysesAre
<1>7. s2 = IntentSafety(Mail(sc, E), ModelAnalysis(sc, E))
  <2>1. "unsure" \notin E /\ "classifier" \notin E
    BY <1>5 DEF E
  <2> QED
    BY <1>2, <2>1, AnalysesAre
<1>8. w.work.proposal = p /\ w.work.result = "work" /\ w.work.analysis = Routed(sc, D, s)
  BY <1>4 DEF NewOperation, Work
<1>9. Follows(D) /\ p = Proposal(sc, D)
  <2>1. p.id # "op2"
    BY <1>1, <1>8
  <2> QED
    BY <1>6, <2>1, ProposalIds, SafeParts
<1>10. /\ D \cap {"unsupported", "history", "malformed_pdv", "unknown_action", "extra",
                  "ambiguous"} = {}
       /\ Proposal(sc, D).action = Requested
       /\ GoodProposal(Proposal(sc, D), Context(sc, D, w.work, s, pol), pol)
  <2> DEFINE c == Context(sc, D, w.work, s, pol)
  <2>1. Executes(w.work.analysis, Proposal(sc, D), Verification(sc, D), c, pol)
    BY <1>8, <1>9 DEF Execution
  <2> HIDE DEF c
  <2> QED
    BY <2>1, ProposalClean DEF c
<1>11. ~ActionUnsafe(D) /\ d \notin {"negated", "past"}
  BY <1>0, <1>9, <1>10 DEF Follows, ActionUnsafe
<1>12. Follows(E) /\ (FollowsOther(E) <=> FollowsOther(D))
  BY <1>0, <1>9, <1>10, FollowedStays DEF E
<1>13. /\ ~AllRemoved(D) /\ ~AllRemoved(E) /\ Proposal(sc, E) \in s2.operations
       /\ \A x \in s2.operations : x.id # "op2" => x = Proposal(sc, E)
       /\ Cardinality(s2.operations) = Cardinality(s.operations)
  BY <1>6, <1>7, <1>9, <1>12, FollowedOperations
<1>14. /\ s.kind = ModelAnalysis(sc, D).kind /\ s2.kind = ModelAnalysis(sc, E).kind
       /\ (s.new_request <=> TRUE) /\ (s2.new_request <=> TRUE)
       /\ s2.unresolved = ModelAnalysis(sc, E).unresolved
       /\ s.unresolved = ModelAnalysis(sc, D).unresolved
  BY <1>6, <1>7, <1>13, SafeParts, ModelParts
<1>15. /\ s.kind \in {"new_request", "correction", "ambiguous"}
       /\ s2.kind \in {s.kind, "new_request"}
       /\ s2.kind = "correction" <=> s.kind = "correction"
  <2>1. s.kind # "cancellation"
    BY SafetyIsChecked DEF NoReason
  <2>2. OneKind(E) /\ E \subseteq D
    BY DEF OneKind, E
  <2>3. "kind_correction" \in E <=> "kind_correction" \in D
    BY <1>0 DEF E
  <2> QED
    BY <1>3, <1>14, <2>1, <2>2, <2>3, ModelKinds
<1>16. SaysNoMore(s2, s) /\ (s2.contradiction => s.contradiction)
  <2>1. AllRemoved(D \ {d}) => AllRemoved(D)
    BY <1>13 DEF E
  <2>2. d \notin {"direct_yes", "scoped_elsewhere", "independent"}
    BY <1>0
  <2> HIDE DEF s, s2
  <2> QED
    BY <1>6, <1>7, <2>1, <2>2, ModelSaysNoMore DEF E
<1>17. /\ {"kind", "contradiction", "unresolved"} \subseteq DOMAIN s
       /\ {"kind", "contradiction", "unresolved"} \subseteq DOMAIN s2
  BY <1>6, <1>7, SafeDomain
<1>18. LET q == Proposal(sc, D)
           q2 == Proposal(sc, E)
       IN /\ q2.id = q.id /\ q2.action = q.action /\ q2.pdv_code = q.pdv_code
          /\ q2.phone = q.phone /\ q2.missing = q.missing /\ q2.evidence = q.evidence
          /\ q2.extra = q.extra /\ q2.ambiguous = q.ambiguous
          /\ \A t \in {None, 70} :
               ConfidencePasses(q.confidence, t) => ConfidencePasses(q2.confidence, t)
  <2>1. d \notin OtherValues \cup {"independent"}
    BY <1>0
  <2>2. /\ D \cap {"malformed_pdv", "unknown_action", "extra", "ambiguous"} = {}
        /\ D \cap {"unsupported", "history"} = {}
    BY <1>10
  <2> QED
    BY <2>1, <2>2, ProposalStays DEF E
<1>19. \A c : /\ c.current_values = CurrentValues(sc, E)
              /\ c.stored_values = {} /\ c.strength = "new"
              => GoodProposal(Proposal(sc, E), c, pol)
  <2> DEFINE c0 == Context(sc, D, w.work, s, pol)
  <2>1. CurrentValues(sc, E) = CurrentValues(sc, D)
    BY <1>0, MailStays DEF E
  <2>2. w.work.known = FALSE /\ w.work.strength = "new"
    BY <1>4 DEF NewOperation, Work
  <2>3. c0.current_values = CurrentValues(sc, D) /\ c0.stored_values = {} /\ c0.strength = "new"
    BY <2>2 DEF Context
  <2>4. pol.analyzer_threshold \in {None, 70}
    BY PolicyFields
  <2>5. ConfidencePasses(Proposal(sc, E).confidence, pol.analyzer_threshold)
    BY <1>10, <1>18, <2>4 DEF GoodProposal
  <2>6. GoodProposal(Proposal(sc, D), c0, pol)
    BY <1>10
  <2> HIDE DEF c0
  <2> QED
    BY <1>18, <2>1, <2>3, <2>5, <2>6, GoodStays
<1>20. \A x \in s2.operations :
         x.id # "op2" =>
           /\ {x.id, "unscoped"} \cap s2.unresolved = {}
           /\ \A c : /\ c.current_values = CurrentValues(sc, E)
                     /\ c.stored_values = {} /\ c.strength = "new"
                     => GoodProposal(x, c, pol)
  <2>1. "unscoped" \notin D
    <3>1. {p.id, "unscoped"} \cap Routed(sc, D, s).unresolved = {}
      BY <1>8 DEF Execution, Executes, CanExecute, Ambiguous
    <3>2. Routed(sc, D, s).unresolved = s.unresolved
      BY <1>17 DEF Routed, AsNewRequest
    <3> QED
      BY <1>14, <3>1, <3>2, ModelParts
  <2>2. s2.unresolved \subseteq {"op2"}
    BY <1>14, <2>1, ModelParts DEF E
  <2>3. Proposal(sc, E).id = "op"
    BY ProposalIds
  <2> QED
    BY <1>13, <1>19, <2>2, <2>3
<1>21. PreparedStrength(sc, D) = "strong" => RepliesAgree(Mail(sc, D).lines, s2)
  <2> SUFFICES ASSUME PreparedStrength(sc, D) = "strong"
               PROVE  RepliesAgree(Mail(sc, D).lines, s2)
    OBVIOUS
  <2>1. RepliesAgree(Mail(sc, D).lines, s)
    BY SafetyIsChecked DEF NoReason, RepliesAgree
  <2>2. /\ \A x \in s.operations : x = Proposal(sc, D) \/ x = OtherProposal(sc)
        /\ \A x \in s2.operations : x = Proposal(sc, E) \/ x = OtherProposal(sc)
        /\ OtherProposal(sc) \in s.operations <=> OtherProposal(sc) \in s2.operations
        /\ Proposal(sc, D) \in s.operations /\ Proposal(sc, E) \in s2.operations
    BY <1>6, <1>7, <1>9, <1>12, FollowedOperations
  <2>3. /\ Proposal(sc, E).pdv_code = Proposal(sc, D).pdv_code
        /\ Proposal(sc, E).phone = Proposal(sc, D).phone
    BY <1>18
  <2> HIDE DEF s, s2
  <2> QED
    BY <2>1, <2>2, <2>3, RepliesStay
<1>22. /\ d \notin OtherValues \cup {"independent", "negation", "completed", "negated", "past"}
       /\ w.work.proposal.action = Requested /\ s2.operations # {}
       /\ s2.new_request <=> s.new_request
  BY <1>0, <1>8, <1>9, <1>10, <1>11, <1>13, <1>14
<1> HIDE DEF s, s2
<1> QED
  BY <1>0, <1>1, <1>2, <1>13, <1>15, <1>16, <1>17, <1>20, <1>21, <1>22, NewStays DEF s, s2, E

(* The answer to a question *)

\* The phone numbers that complete the stored operation, and what each makes of it.
AnswerPhones(D) ==
  LET lines == Mail("answer", D).lines
  IN {t \in PhonesOn(lines) : /\ {"completed", "cancelled"} \cap D = {}
                              /\ PhonesOn(lines) = {t} /\ PdvsOn(lines) \subseteq {pdv}}

Evidenced(field, value, source) ==
  [field |-> field, value |-> value, source |-> source, supported |-> TRUE]

Completed(D, t) ==
  [id |-> "op", action |-> Stored("answer", D).action, pdv_code |-> pdv, phone |-> t,
   missing |-> {}, extra |-> {}, ambiguous |-> FALSE, confidence |-> None,
   evidence |-> {Evidenced("pdv_code", pdv, "stored_request_state"),
                 Evidenced("phone", t, "latest_user_message")}]

\* The model's proposals do not stand in the way of the completed operation.
Fits(D, s, t) ==
  /\ Cardinality(s.operations) <= 1
  /\ \A p \in s.operations : MatchesCanonical(p, Completed(D, t))

Own(s) == {p \in s.operations : p.id = "op" \/ Cardinality(s.operations) = 1}

CompletedWork(D, s, t) == Work(Completed(D, t), "strong", TRUE, AsAnswer(s, Completed(D, t)), 1)
OwnWork(s, p) == Work(p, "strong", TRUE, s, Cardinality(s.operations))

\* _single_field_clarification_proposal of the mail.
LEMMA CompletedAnswers ==
  ASSUME NEW D
  PROVE  CanonicalAnswer(Mail("answer", D), Stored("answer", D)) =
           {Completed(D, t) : t \in AnswerPhones(D)}
<1> DEFINE stored == Stored("answer", D)
           mail == Mail("answer", D)
<1>1. stored.pdv_code = pdv /\ stored.missing = {"phone"}
  BY DEF Stored
<1>2. stored.status \notin {"COMPLETED", "CANCELLED"} <=> {"completed", "cancelled"} \cap D = {}
  BY DEF Stored
<1> HIDE DEF stored, mail
<1>3. AnswerPhones(D) =
        {x \in PhonesOn(mail.lines) :
           /\ stored.status \notin {"COMPLETED", "CANCELLED"} /\ stored.missing = {"phone"}
           /\ PhonesOn(mail.lines) = {x} /\ PdvsOn(mail.lines) \subseteq {stored.pdv_code}}
  BY <1>1, <1>2 DEF AnswerPhones, mail
<1>4. \A t : Completed(D, t) =
        [id |-> "op", action |-> stored.action, pdv_code |-> stored.pdv_code, phone |-> t,
         missing |-> {}, extra |-> {}, ambiguous |-> FALSE, confidence |-> None,
         evidence |-> {[field |-> "pdv_code", value |-> stored.pdv_code,
                        source |-> "stored_request_state", supported |-> TRUE],
                       [field |-> "phone", value |-> t,
                        source |-> "latest_user_message", supported |-> TRUE]}]
  BY <1>1 DEF Completed, Evidenced, stored
<1> QED
  BY <1>3, <1>4, Zenon DEF CanonicalAnswer, stored, mail

\* The work an answer brings: the completed operation if the proposals fit it, or else its own
\* proposal.
LEMMA AnswerWorks ==
  ASSUME NEW D, NEW s, NEW x \in Materialized(Mail("answer", D), PreparedStrength("answer", D),
                                              About("answer", D), s, Stored("answer", D))
  PROVE  /\ (\E t \in AnswerPhones(D) : Fits(D, s, t)) =>
              \E t \in AnswerPhones(D) : Fits(D, s, t) /\ x = CompletedWork(D, s, t)
         /\ ~(\E t \in AnswerPhones(D) : Fits(D, s, t)) =>
              \/ \E p \in Own(s) : x = OwnWork(s, p)
              \/ Own(s) = {} /\ x.result = "ESCALATE"
<1> DEFINE mail == Mail("answer", D)
           stored == Stored("answer", D)
           canonical == {y \in CanonicalAnswer(mail, stored) :
                           /\ Cardinality(s.operations) <= 1
                           /\ \A p \in s.operations : MatchesCanonical(p, y)}
<1>1. About("answer", D) = "question"
  BY DEF About
<1>2. canonical = {y \in {Completed(D, t) : t \in AnswerPhones(D)} :
                     /\ Cardinality(s.operations) <= 1
                     /\ \A p \in s.operations : MatchesCanonical(p, y)}
  BY CompletedAnswers
<1>3. canonical = {Completed(D, t) : t \in {u \in AnswerPhones(D) : Fits(D, s, u)}}
  <2> HIDE DEF canonical
  <2> QED
    BY <1>2, Zenon DEF Fits
<1> HIDE DEF canonical
<1>4. AnswerWork(mail, s, stored) =
        IF canonical # {}
          THEN {Work(y, "strong", TRUE, AsAnswer(s, y), 1) : y \in canonical}
          ELSE {OwnWork(s, p) : p \in Own(s)}
  BY DEF AnswerWork, canonical, OwnWork, Own
<1>5. x \in IF AnswerWork(mail, s, stored) = {} THEN {NoWork("ESCALATE")}
            ELSE AnswerWork(mail, s, stored)
  BY <1>1 DEF Materialized
<1>6. NoWork("ESCALATE").result = "ESCALATE"
  BY DEF NoWork, Work
<1> HIDE DEF mail, stored
<1>7. CASE \E t \in AnswerPhones(D) : Fits(D, s, t)
  <2>1. canonical # {}
    BY <1>3, <1>7
  <2>2. PICK y \in canonical : x = Work(y, "strong", TRUE, AsAnswer(s, y), 1)
    BY <1>4, <1>5, <2>1
  <2>3. PICK t \in AnswerPhones(D) : Fits(D, s, t) /\ y = Completed(D, t)
    BY <1>3
  <2>4. x = CompletedWork(D, s, t)
    BY <2>2, <2>3 DEF CompletedWork
  <2> QED
    BY <1>7, <2>3, <2>4
<1>8. CASE ~(\E t \in AnswerPhones(D) : Fits(D, s, t))
  <2>1. canonical = {}
    BY <1>3, <1>8
  <2>2. AnswerWork(mail, s, stored) = {OwnWork(s, p) : p \in Own(s)}
    BY <1>4, <2>1
  <2> QED
    BY <1>5, <1>6, <1>8, <2>2
<1> QED
  BY <1>7, <1>8

\* The doubts whose removal leaves the numbers and the stored state of an answer.
LEMMA AnswerStays ==
  ASSUME NEW D, NEW d, d \notin OtherValues, {"completed", "cancelled"} \cap D = {}
  PROVE  /\ AnswerPhones(D \ {d}) = AnswerPhones(D)
         /\ Stored("answer", D \ {d}).status = "NEW"
         /\ "other_action" \notin D =>
              /\ Stored("answer", D \ {d}) = Stored("answer", D)
              /\ \A t : Completed(D \ {d}, t) = Completed(D, t)
<1> DEFINE E == D \ {d}
<1>1. SaysPdv("answer", E) = SaysPdv("answer", D)
  BY DEF SaysPdv
<1>2. Mail("answer", E).lines = Mail("answer", D).lines
  BY <1>1 DEF Mail, OtherValues
<1>3. {"completed", "cancelled"} \cap E = {}
  OBVIOUS
<1>4. AnswerPhones(E) = AnswerPhones(D)
  BY <1>2, <1>3 DEF AnswerPhones
<1>5. Stored("answer", E).status = "NEW"
  BY <1>3 DEF Stored
<1>6. "other_action" \notin D => Stored("answer", E) = Stored("answer", D)
  BY <1>3 DEF Stored
<1> QED
  BY <1>4, <1>5, <1>6 DEF Completed

\* The operation that an answer completes is good where no threshold is set.
LEMMA CompletedIsGood ==
  ASSUME NEW D, NEW t \in AnswerPhones(D), NEW c, NEW pol,
         pol.analyzer_threshold = None, c.strength = "strong",
         c.current_values = CurrentValues("answer", D),
         c.stored_values = StoredValues("answer", D)
  PROVE  /\ GoodProposal(Completed(D, t), c, pol)
         /\ "phone" \in RequiredFields(Completed(D, t).action)
<1> DEFINE p == Completed(D, t)
           e1 == Evidenced("pdv_code", pdv, "stored_request_state")
           e2 == Evidenced("phone", t, "latest_user_message")
<1>1. /\ p.action \in {"vpn_access", "otp_number_change"} /\ p.pdv_code = pdv /\ p.phone = t
      /\ p.missing = {} /\ p.extra = {} /\ p.ambiguous = FALSE /\ p.confidence = None
      /\ p.evidence = {e1, e2}
  BY DEF Completed, Stored, Requested
<1>2. /\ e1.field = "pdv_code" /\ e1.value = pdv /\ e1.source = "stored_request_state"
      /\ e1.supported
      /\ e2.field = "phone" /\ e2.value = t /\ e2.source = "latest_user_message"
      /\ e2.supported
  BY DEF Evidenced
<1>3. /\ t \in CurrentValues("answer", D) /\ t \in Phones
      /\ pdv \in Pdvs /\ pdv # None /\ t # None
  <2>1. t \in PhonesOn(Mail("answer", D).lines)
    BY DEF AnswerPhones
  <2>2. PhonesOn(Mail("answer", D).lines) \subseteq Phones
    BY MailAssumption DEF Mail, PhonesOn
  <2>3. None \notin Pdvs \cup Phones /\ pdv \in Pdvs
    BY ValuesAssumption, MailAssumption
  <2> QED
    BY <2>1, <2>2, <2>3 DEF CurrentValues
<1>4. pdv \in StoredValues("answer", D)
  BY <1>3 DEF StoredValues, Stored
<1> HIDE DEF p, e1, e2
<1>5. RequiredFields(p.action) = {"pdv_code", "phone"}
  BY <1>1 DEF RequiredFields
<1>6. ValueOf(p, "pdv_code") = pdv /\ ValueOf(p, "phone") = t
  BY <1>1 DEF ValueOf
<1>7. AbsentFields(p) = {} /\ WellFormed(p) /\ ~ClosedHistoryQuoted(p)
  BY <1>1, <1>2, <1>3, <1>5, <1>6 DEF AbsentFields, WellFormed, ClosedHistoryQuoted
<1>8. EvidenceAllowed(p, c, "pdv_code") /\ EvidenceAllowed(p, c, "phone")
  BY <1>1, <1>2, <1>3, <1>4, <1>6 DEF EvidenceAllowed
<1>9. AllEvidenceAllowed(p, c, pol) /\ EvidenceComplete(p, pol)
  BY <1>1, <1>2, <1>3, <1>5, <1>8 DEF AllEvidenceAllowed, EvidenceComplete
<1>10. ConfidencePasses(p.confidence, pol.analyzer_threshold)
  BY DEF ConfidencePasses
<1> QED
  BY <1>1, <1>5, <1>7, <1>9, <1>10 DEF GoodProposal, p

\* What the execution of an answer says of the stored operation.
LEMMA ExecutedIsOpen ==
  ASSUME NEW D, NEW pol, NEW w, Execution("answer", D, pol, w), w.work.known
  PROVE  /\ {"completed", "cancelled", "executed"} \cap D = {}
         /\ w.work.proposal.action = Stored("answer", D).action
         /\ ConfidencePasses(w.work.proposal.confidence, pol.analyzer_threshold)
<1> DEFINE c == Context("answer", D, w.work, w.analysis, pol)
<1>1. /\ c.operation_status \notin {"COMPLETED", "CANCELLED"} /\ ~c.previously_executed
      /\ c.expected_action \in {None, w.work.proposal.action}
      /\ ConfidencePasses(w.work.proposal.confidence, pol.analyzer_threshold)
  <2>1. Executes(w.work.analysis, w.work.proposal, Verification("answer", D), c, pol)
    BY DEF Execution
  <2> HIDE DEF c
  <2> QED
    BY <2>1 DEF Executes, CanExecute, HardInvariants
<1>2. /\ c.operation_status = Stored("answer", D).status
      /\ c.expected_action = Stored("answer", D).action
  BY DEF Context
<1>3. "executed" \notin D
  BY <1>1 DEF Context
<1>4. {"completed", "cancelled"} \cap D = {}
  BY <1>1, <1>2 DEF Stored
<1>5. Stored("answer", D).action # None
  BY ValuesAssumption DEF Stored, Requested, Action
<1> QED
  BY <1>1, <1>2, <1>3, <1>4, <1>5

\* A reply is checked against the numbers it states.
LEMMA RepliesAreChecked ==
  ASSUME NEW D, NEW pol, NEW w, Execution("answer", D, pol, w)
  PROVE  /\ RepliesAgree(Mail("answer", D).lines, w.analysis)
         /\ "override_attempt" \notin D
         /\ w.analysis.kind # "cancellation"
<1>1. NoReason(Mail("answer", D), PreparedStrength("answer", D), w.analysis, pol)
  BY SafetyIsChecked
<1>2. PreparedStrength("answer", D) = "strong"
  BY DEF PreparedStrength
<1>3. "override_attempt" \in Mail("answer", D).features <=> "override_attempt" \in D
  BY DEF Mail
<1>4. RepliesAgree(Mail("answer", D).lines, w.analysis)
  BY <1>1, <1>2 DEF NoReason, RepliesAgree
<1> QED
  BY <1>1, <1>3, <1>4 DEF NoReason

\* An answer that completes the stored operation does so with a doubt less, if what the
\* analyzer makes of it then does not stand in its way.
LEMMA CompletedWorkStays ==
  ASSUME NEW D, NEW d, NEW pol \in Policies, NEW w, NEW w2, NEW t \in AnswerPhones(D),
         d \notin OtherValues \cup {"independent", "negation"},
         pol.subject_override => d \notin {"forwarded", "subject_action"},
         Execution("answer", D, pol, w), w.work = CompletedWork(D, w.analysis, t),
         w2.work \in Materialized(Mail("answer", D \ {d}), PreparedStrength("answer", D \ {d}),
                                  About("answer", D \ {d}), w2.analysis,
                                  Stored("answer", D \ {d})),
         Fits(D \ {d}, w2.analysis, t),
         {"kind", "contradiction", "unresolved"} \subseteq DOMAIN w.analysis,
         {"kind", "contradiction", "unresolved"} \subseteq DOMAIN w2.analysis,
         SaysNoMore(w2.analysis, w.analysis), w2.analysis.kind \in ExecutableKinds,
         RepliesAgree(Mail("answer", D).lines, w2.analysis)
  PROVE  Execution("answer", D \ {d}, pol, w2)
<1> DEFINE E == D \ {d}
           s == w.analysis
           s2 == w2.analysis
<1>1. /\ w.work.known = TRUE /\ w.work.strength = "strong" /\ w.work.items = 1
      /\ w.work.proposal = Completed(D, t) /\ w.work.analysis = AsAnswer(s, Completed(D, t))
  BY DEF CompletedWork, Work
<1>2. /\ {"completed", "cancelled"} \cap D = {}
      /\ ConfidencePasses(Completed(D, t).confidence, pol.analyzer_threshold)
  BY <1>1, ExecutedIsOpen
<1>3. AnswerPhones(E) = AnswerPhones(D) /\ Stored("answer", E).status = "NEW"
  <2>1. d \notin OtherValues
    OBVIOUS
  <2> QED
    BY <1>2, <2>1, AnswerStays
<1>4. pol.analyzer_threshold = None
  BY <1>2 DEF ConfidencePasses, Completed
<1>5. PICK t2 \in AnswerPhones(E) : w2.work = CompletedWork(E, s2, t2)
  <2>1. \E u \in AnswerPhones(E) : Fits(E, s2, u)
    BY <1>3
  <2>2. w2.work \in Materialized(Mail("answer", E), PreparedStrength("answer", E),
                                 About("answer", E), s2, Stored("answer", E))
    OBVIOUS
  <2> HIDE DEF E, s2
  <2> QED
    BY <2>1, <2>2, AnswerWorks
<1>6. /\ w2.work.known = TRUE /\ w2.work.strength = "strong" /\ w2.work.items = 1
      /\ w2.work.result = "work" /\ w2.work.proposal = Completed(E, t2)
      /\ w2.work.analysis = AsAnswer(s2, Completed(E, t2))
  BY <1>5 DEF CompletedWork, Work
<1>7. \A x, y : {"kind", "contradiction", "unresolved"} \subseteq DOMAIN x =>
                  /\ AsAnswer(x, y).kind = "clarification_reply"
                  /\ ~AsAnswer(x, y).contradiction
                  /\ AsAnswer(x, y).unresolved = {}
  BY DEF AsAnswer
<1>8. SafetyReasons(Mail("answer", E), PreparedStrength("answer", E), s2, pol) = {}
  <2>1. SafetyReasons(Mail("answer", D), PreparedStrength("answer", D), s, pol) = {}
    BY SafetyIsChecked
  <2>2. PreparedStrength("answer", D) = "strong" /\ PreparedStrength("answer", E) = "strong"
    BY DEF PreparedStrength
  <2> HIDE DEF s, s2
  <2> QED
    BY <2>1, <2>2, SafetyStays DEF s, s2
<1>9. /\ GoodProposal(Completed(E, t2), Context("answer", E, w2.work, s2, pol), pol)
  <2> DEFINE c2 == Context("answer", E, w2.work, s2, pol)
  <2>1. /\ c2.current_values = CurrentValues("answer", E) /\ c2.strength = "strong"
        /\ c2.stored_values = StoredValues("answer", E)
    BY <1>6 DEF Context
  <2> HIDE DEF c2, E
  <2> QED
    BY <1>4, <2>1, CompletedIsGood DEF c2
<1>10. "phone" \in RequiredFields(w.work.proposal.action)
  BY <1>1 DEF Completed, Stored, Requested, RequiredFields
<1>11. Stored("answer", E).action = w2.work.proposal.action
  BY <1>6 DEF Completed
<1>12. /\ w2.work.known = w.work.known /\ w2.work.strength = w.work.strength
       /\ w2.work.items = w.work.items
       /\ w2.work.analysis.kind = w.work.analysis.kind
       /\ w2.work.analysis.contradiction => w.work.analysis.contradiction
       /\ {w2.work.proposal.id, "unscoped"} \cap w2.work.analysis.unresolved = {}
  <2> DEFINE a == AsAnswer(s, Completed(D, t))
             a2 == AsAnswer(s2, Completed(E, t2))
  <2>1. a.kind = "clarification_reply" /\ ~a.contradiction
    BY <1>7
  <2>2. a2.kind = "clarification_reply" /\ ~a2.contradiction /\ a2.unresolved = {}
    BY <1>7
  <2>3. w.work.analysis = a /\ w2.work.analysis = a2
    BY <1>1, <1>6
  <2> HIDE DEF a, a2, s, s2
  <2> QED
    BY <1>1, <1>6, <2>1, <2>2, <2>3
<1>13. GoodProposal(w2.work.proposal, Context("answer", E, w2.work, s2, pol), pol)
  BY <1>6, <1>9
<1> HIDE DEF s, s2
<1> QED
  BY <1>3, <1>6, <1>8, <1>10, <1>11, <1>12, <1>13, ExecutionStays DEF s, s2

\* So is an answer whose own proposal is executed.
LEMMA OwnWorkStays ==
  ASSUME NEW D, NEW d, NEW pol \in Policies, NEW w, NEW w2, NEW p,
         d \notin OtherValues \cup {"independent", "negation"},
         pol.subject_override => d \notin {"forwarded", "subject_action"},
         Execution("answer", D, pol, w), w.work = OwnWork(w.analysis, p), p.action = Requested,
         w2.work \in Materialized(Mail("answer", D \ {d}), PreparedStrength("answer", D \ {d}),
                                  About("answer", D \ {d}), w2.analysis,
                                  Stored("answer", D \ {d})),
         w2.work.result = "work" => w2.work.proposal.id # "op2",
         \A t \in AnswerPhones(D) : ~Fits(D \ {d}, w2.analysis, t),
         Own(w2.analysis) # {},
         \A q \in Own(w2.analysis) :
           q.id # "op2" =>
             /\ q.action = Requested /\ {q.id, "unscoped"} \cap w2.analysis.unresolved = {}
             /\ \A c : /\ c.current_values = CurrentValues("answer", D \ {d})
                       /\ c.stored_values = StoredValues("answer", D \ {d})
                       /\ c.strength = "strong"
                       => GoodProposal(q, c, pol),
         w2.analysis.kind = w.analysis.kind,
         w2.analysis.contradiction => w.analysis.contradiction,
         Cardinality(w2.analysis.operations) = Cardinality(w.analysis.operations),
         SaysNoMore(w2.analysis, w.analysis), w2.analysis.kind \in ExecutableKinds,
         RepliesAgree(Mail("answer", D).lines, w2.analysis)
  PROVE  Execution("answer", D \ {d}, pol, w2)
<1> DEFINE E == D \ {d}
           s == w.analysis
           s2 == w2.analysis
<1>1. /\ w.work.known = TRUE /\ w.work.strength = "strong"
      /\ w.work.items = Cardinality(s.operations)
      /\ w.work.proposal = p /\ w.work.analysis = s
  BY DEF OwnWork, Work
<1>2. {"completed", "cancelled"} \cap D = {} /\ Stored("answer", D).action = Requested
  <2>1. Execution("answer", D, pol, w) /\ w.work.known
    BY <1>1
  <2>2. /\ {"completed", "cancelled", "executed"} \cap D = {}
        /\ w.work.proposal.action = Stored("answer", D).action
    <3> HIDE DEF s, s2, E
    <3> QED
      BY <2>1, ExecutedIsOpen
  <2> QED
    BY <1>1, <2>2
<1>3. AnswerPhones(E) = AnswerPhones(D) /\ Stored("answer", E).status = "NEW"
  <2>1. d \notin OtherValues
    OBVIOUS
  <2> QED
    BY <1>2, <2>1, AnswerStays
<1>4. Stored("answer", E).action = Requested
  BY <1>2 DEF Stored, Requested
<1>5. PICK q \in Own(s2) : w2.work = OwnWork(s2, q)
  <2>1. ~(\E u \in AnswerPhones(E) : Fits(E, s2, u))
    BY <1>3
  <2>2. w2.work \in Materialized(Mail("answer", E), PreparedStrength("answer", E),
                                 About("answer", E), s2, Stored("answer", E))
    OBVIOUS
  <2>3. Own(s2) # {}
    OBVIOUS
  <2> HIDE DEF E, s2
  <2> QED
    BY <2>1, <2>2, <2>3, AnswerWorks
<1>6. /\ w2.work.known = TRUE /\ w2.work.strength = "strong"
      /\ w2.work.items = Cardinality(s2.operations)
      /\ w2.work.result = "work" /\ w2.work.proposal = q /\ w2.work.analysis = s2
  BY <1>5 DEF OwnWork, Work
<1>7. q.id # "op2"
  BY <1>6
<1>8. SafetyReasons(Mail("answer", E), PreparedStrength("answer", E), s2, pol) = {}
  <2>1. SafetyReasons(Mail("answer", D), PreparedStrength("answer", D), s, pol) = {}
    BY SafetyIsChecked
  <2>2. PreparedStrength("answer", D) = "strong" /\ PreparedStrength("answer", E) = "strong"
    BY DEF PreparedStrength
  <2> HIDE DEF s, s2
  <2> QED
    BY <2>1, <2>2, SafetyStays DEF s, s2
<1>9. GoodProposal(q, Context("answer", E, w2.work, s2, pol), pol)
  <2> DEFINE c2 == Context("answer", E, w2.work, s2, pol)
  <2>1. /\ c2.current_values = CurrentValues("answer", E) /\ c2.strength = "strong"
        /\ c2.stored_values = StoredValues("answer", E)
    BY <1>6 DEF Context
  <2> HIDE DEF c2
  <2> QED
    BY <1>7, <2>1 DEF c2
<1>10. "phone" \in RequiredFields(w.work.proposal.action)
  BY <1>1 DEF Requested, RequiredFields
<1>11. Stored("answer", E).action = w2.work.proposal.action
  BY <1>4, <1>6, <1>7
<1>12. /\ w2.work.known = w.work.known /\ w2.work.strength = w.work.strength
       /\ w2.work.items = w.work.items
       /\ w2.work.analysis.kind = w.work.analysis.kind
       /\ w2.work.analysis.contradiction => w.work.analysis.contradiction
       /\ {w2.work.proposal.id, "unscoped"} \cap w2.work.analysis.unresolved = {}
  BY <1>1, <1>6, <1>7
<1>13. GoodProposal(w2.work.proposal, Context("answer", E, w2.work, s2, pol), pol)
  BY <1>6, <1>9
<1> HIDE DEF s, s2
<1> QED
  BY <1>3, <1>6, <1>8, <1>10, <1>11, <1>12, <1>13, ExecutionStays DEF s, s2

\* An answer that is executed is about the stored operation, which is open: it completes it
\* with the number, or else proposes it itself.
LEMMA ExecutedAnswer ==
  ASSUME NEW D, NEW pol, NEW w \in Works("answer", D), Execution("answer", D, pol, w)
  PROVE  /\ w.work.known /\ {"completed", "cancelled"} \cap D = {}
         /\ w.work.proposal.action = Stored("answer", D).action
         /\ \/ \E t \in AnswerPhones(D) :
                 Fits(D, w.analysis, t) /\ w.work = CompletedWork(D, w.analysis, t)
            \/ /\ \A t \in AnswerPhones(D) : ~Fits(D, w.analysis, t)
               /\ \E p \in Own(w.analysis) : w.work = OwnWork(w.analysis, p)
<1> DEFINE s == w.analysis
<1>1. w.work.result = "work"
  BY DEF Execution
<1>2. w.work \in Materialized(Mail("answer", D), PreparedStrength("answer", D),
                              About("answer", D), s, Stored("answer", D))
  BY WorksAre
<1> HIDE DEF s
<1>3. \/ \E t \in AnswerPhones(D) : Fits(D, s, t) /\ w.work = CompletedWork(D, s, t)
      \/ /\ \A t \in AnswerPhones(D) : ~Fits(D, s, t)
         /\ \E p \in Own(s) : w.work = OwnWork(s, p)
  BY <1>1, <1>2, AnswerWorks
<1>4. w.work.known
  <2>1. \A x, y, z, n : Work(x, "strong", TRUE, y, n).known
    BY DEF Work
  <2> QED
    BY <1>3, <2>1 DEF CompletedWork, OwnWork
<1>5. /\ {"completed", "cancelled", "executed"} \cap D = {}
      /\ w.work.proposal.action = Stored("answer", D).action
  BY <1>4, ExecutedIsOpen
<1> QED
  BY <1>3, <1>4, <1>5 DEF s

\* The number a reply states, in a proposal of its own, fits the stored operation.
LEMMA NumberMatches ==
  ASSUME NEW D, NEW t \in AnswerPhones(D), NEW q, "other_action" \notin D,
         q.action = Requested, q.extra = {}, ~q.ambiguous,
         q.pdv_code \in PdvsOn(Mail("answer", D).lines) \cup {None},
         q.phone \in PhonesOn(Mail("answer", D).lines) \cup {None}
  PROVE  MatchesCanonical(q, Completed(D, t))
<1>1. /\ PhonesOn(Mail("answer", D).lines) = {t}
      /\ PdvsOn(Mail("answer", D).lines) \subseteq {pdv}
  BY DEF AnswerPhones
<1>2. /\ Completed(D, t).action = Requested /\ Completed(D, t).pdv_code = pdv
      /\ Completed(D, t).phone = t
  BY DEF Completed, Stored
<1> QED
  BY <1>1, <1>2 DEF MatchesCanonical

\* A proposal that fits it is for its action.
LEMMA FitsTheAction ==
  ASSUME NEW D, NEW s, NEW t, Fits(D, s, t), NEW q \in s.operations, q.action = Requested
  PROVE  "other_action" \notin D
<1>1. Completed(D, t).action = Requested
  BY DEF Fits, MatchesCanonical
<1> QED
  BY <1>1 DEF Completed, Stored, Requested

\* What the classifier proposes fits it.
LEMMA SvmFits ==
  ASSUME NEW D, NEW q \in SvmProposals(Mail("answer", D), Requested, 80),
         NEW t \in AnswerPhones(D), ActionUnsafe(D) \/ "other_action" \notin D
  PROVE  Fits(D, IntentSafety(Mail("answer", D), Classified(q)), t)
<1> DEFINE s == IntentSafety(Mail("answer", D), Classified(q))
<1>1. CASE ActionUnsafe(D)
  <2>1. s.operations = {}
    BY <1>1, SvmParts
  <2>2. Cardinality(s.operations) = 0
    BY <2>1, FS_EmptySet
  <2> HIDE DEF s
  <2> QED
    BY <2>1, <2>2 DEF Fits, s
<1>2. CASE ~ActionUnsafe(D)
  <2>1. s.operations = {q}
    BY <1>2, SvmParts
  <2>2. /\ q.action = Requested /\ q.extra = {} /\ ~q.ambiguous
        /\ q.pdv_code \in PdvsOn(Mail("answer", D).lines) \cup {None}
        /\ q.phone \in PhonesOn(Mail("answer", D).lines) \cup {None}
    BY SvmParts
  <2>3. MatchesCanonical(q, Completed(D, t))
    BY <1>2, <2>2, NumberMatches
  <2>4. Cardinality({q}) = 1
    BY FS_Singleton
  <2> HIDE DEF s
  <2> QED
    BY <2>1, <2>3, <2>4 DEF Fits, s
<1> QED
  BY <1>1, <1>2

\* What the classifier proposes agrees with the numbers of the reply.
LEMMA SvmAgrees ==
  ASSUME NEW D, NEW q \in SvmProposals(Mail("answer", D), Requested, 80)
  PROVE  RepliesAgree(Mail("answer", D).lines,
                      IntentSafety(Mail("answer", D), Classified(q)))
<1> DEFINE s == IntentSafety(Mail("answer", D), Classified(q))
           lines == Mail("answer", D).lines
<1>1. s.operations \subseteq {q}
  BY SvmParts
<1>2. /\ q.pdv_code \in PdvsOn(lines) \cup {None}
      /\ q.phone \in PhonesOn(lines) \cup {None}
  BY SvmParts
<1> HIDE DEF s, lines
<1>3. /\ {x.pdv_code : x \in s.operations} \ {None} \subseteq PdvsOn(lines)
      /\ {x.phone : x \in s.operations} \ {None} \subseteq PhonesOn(lines)
  BY <1>1, <1>2
<1> QED
  BY <1>3 DEF RepliesAgree, Disjoint, s, lines

\* An answer that the classifier answers.
LEMMA ClassifiedAnswerStays ==
  ASSUME NEW D, NEW d, NEW pol \in Policies, NEW w \in Works("answer", D),
         NEW w2 \in Works("answer", D \ {d}), Execution("answer", D, pol, w),
         "classifier" \in D, Weighs("answer", D, pol, TRUE, d)
  PROVE  Execution("answer", D \ {d}, pol, w2)
<1> DEFINE E == D \ {d}
           s == w.analysis
           s2 == w2.analysis
<1>0. /\ d \notin OtherValues \cup {"independent", "negation"} /\ d # "classifier"
      /\ d \notin {"negated", "past"}
      /\ pol.subject_override => d \notin {"forwarded", "subject_action"}
  BY DEF Weighs, Excuses
<1>1. PICK q \in SvmProposals(Mail("answer", D), Requested, 80) :
        s = IntentSafety(Mail("answer", D), Classified(q))
  BY WorksAre, AnalysesAre
<1>2. PICK q2 \in SvmProposals(Mail("answer", E), Requested, 80) :
        s2 = IntentSafety(Mail("answer", E), Classified(q2))
  BY <1>0, WorksAre, AnalysesAre
<1>3. /\ w2.work \in Materialized(Mail("answer", E), PreparedStrength("answer", E),
                                  About("answer", E), s2, Stored("answer", E))
      /\ w2.work.result = "work" => w2.work.proposal.id # "op2"
  BY WorksAre
<1> HIDE DEF E
<1>4. /\ w.work.known /\ {"completed", "cancelled"} \cap D = {}
      /\ w.work.proposal.action = Stored("answer", D).action
  BY ExecutedAnswer
<1>5. ActionUnsafe(E) <=> ActionUnsafe(D)
  <2>1. "override_attempt" \notin D
    BY RepliesAreChecked
  <2> QED
    BY <1>0, <2>1 DEF ActionUnsafe, E
<1>6. /\ Mail("answer", E).lines = Mail("answer", D).lines
      /\ CurrentValues("answer", E) = CurrentValues("answer", D)
  BY <1>0, MailStays DEF E
<1>7. /\ AnswerPhones(E) = AnswerPhones(D)
      /\ "other_action" \notin E \/ "other_action" \in D
  <2>1. d \notin OtherValues
    BY <1>0
  <2>2. AnswerPhones(D \ {d}) = AnswerPhones(D)
    BY <1>4, <2>1, AnswerStays
  <2> QED
    BY <2>2 DEF E
<1>8. /\ SaysNoMore(s2, s) /\ (s2.contradiction => s.contradiction)
      /\ s2.unresolved = {} /\ s2.kind = s.kind /\ s2.kind \in ExecutableKinds
      /\ {"kind", "contradiction", "unresolved"} \subseteq DOMAIN s
      /\ {"kind", "contradiction", "unresolved"} \subseteq DOMAIN s2
  <2>1. /\ ~s.contradiction /\ s.unresolved = {}
        /\ s.direct = "unknown" /\ ~s.hypothetical /\ ~s.forwarded
        /\ ~s.subject_conflict /\ s.mapping = "unknown"
        /\ ActionUnsafe(D) => s.kind = "irrelevant" /\ ~s.new_request
        /\ ~ActionUnsafe(D) => s.kind = "new_request" /\ s.new_request
        /\ {"kind", "contradiction", "unresolved"} \subseteq DOMAIN s
    BY <1>1, SvmParts
  <2>2. /\ ~s2.contradiction /\ s2.unresolved = {}
        /\ s2.direct = "unknown" /\ ~s2.hypothetical /\ ~s2.forwarded
        /\ ~s2.subject_conflict /\ s2.mapping = "unknown"
        /\ ActionUnsafe(E) => s2.kind = "irrelevant" /\ ~s2.new_request
        /\ ~ActionUnsafe(E) => s2.kind = "new_request" /\ s2.new_request
        /\ {"kind", "contradiction", "unresolved"} \subseteq DOMAIN s2
    BY <1>2, SvmParts
  <2> HIDE DEF s, s2
  <2>3. s2.kind = s.kind /\ (s2.new_request <=> s.new_request)
    BY <1>5, <2>1, <2>2
  <2>4. s2.kind \in ExecutableKinds
    BY <2>2 DEF ExecutableKinds
  <2> QED
    BY <2>1, <2>2, <2>3, <2>4 DEF SaysNoMore
<1>9. RepliesAgree(Mail("answer", D).lines, s2)
  BY <1>2, <1>6, SvmAgrees
<1>10. \A t \in AnswerPhones(D) :
         (ActionUnsafe(D) \/ "other_action" \notin D) => Fits(D, s, t) /\ Fits(E, s2, t)
  <2> SUFFICES ASSUME NEW t \in AnswerPhones(D), ActionUnsafe(D) \/ "other_action" \notin D
               PROVE  Fits(D, s, t) /\ Fits(E, s2, t)
    OBVIOUS
  <2>1. ActionUnsafe(E) \/ "other_action" \notin E
    BY <1>5 DEF E
  <2>2. t \in AnswerPhones(E)
    BY <1>7
  <2> HIDE DEF s, s2
  <2>3. Fits(D, s, t)
    BY <1>1, SvmFits
  <2> QED
    BY <1>2, <2>1, <2>2, <2>3, SvmFits
<1>11. CASE \E t \in AnswerPhones(D) : Fits(D, s, t)
  <2>1. PICK t \in AnswerPhones(D) : Fits(D, s, t) /\ w.work = CompletedWork(D, s, t)
    BY <1>11, ExecutedAnswer
  <2>2. ActionUnsafe(D) \/ "other_action" \notin D
    <3> SUFFICES ASSUME ~ActionUnsafe(D) PROVE "other_action" \notin D
      OBVIOUS
    <3>1. s.operations = {q} /\ q.action = Requested
      BY <1>1, SvmParts
    <3> HIDE DEF s
    <3> QED
      BY <2>1, <3>1, FitsTheAction
  <2>3. Fits(E, s2, t)
    BY <1>10, <2>2
  <2> QED
    BY <1>0, <1>3, <1>8, <1>9, <2>1, <2>3, CompletedWorkStays DEF E
<1>12. CASE ~(\E t \in AnswerPhones(D) : Fits(D, s, t))
  <2>1. PICK p \in Own(s) : w.work = OwnWork(s, p)
    BY <1>12, ExecutedAnswer
  <2>2. ~ActionUnsafe(D) /\ s.operations = {q} /\ p = q /\ q.action = Requested
    <3>1. p \in s.operations
      BY DEF Own
    <3>2. ~ActionUnsafe(D)
      BY <1>1, <3>1, SvmParts
    <3> QED
      BY <1>1, <3>1, <3>2, SvmParts
  <2>3. s2.operations = {q2} /\ q2.action = Requested /\ q2.id = "svm-op-1"
    BY <1>2, <1>5, <2>2, SvmParts
  <2>4. w.work.proposal = q /\ w.work.result = "work"
    BY <2>1, <2>2 DEF OwnWork, Work
  <2>5. "other_action" \notin D
    BY <1>4, <2>2, <2>4 DEF Stored, Requested
  <2>6. AnswerPhones(D) = {}
    BY <1>10, <1>12, <2>5
  <2>7. PdvsOn(Mail("answer", E).lines) # {} /\ PhonesOn(Mail("answer", E).lines) # {}
    <3>1. AbsentFields(q) = {}
      BY <2>4 DEF Execution, Executes, CanExecute, HardInvariants
    <3>2. q.pdv_code # None /\ q.phone # None
      BY <2>2, <3>1 DEF AbsentFields, RequiredFields, Requested, ValueOf
    <3> QED
      BY <1>1, <1>6, <3>2, SvmParts
  <2>8. \A c : c.current_values = CurrentValues("answer", E) => GoodProposal(q2, c, pol)
    BY <1>2, <2>7, SvmIsGood
  <2> HIDE DEF s, s2
  <2>9. Cardinality(s2.operations) = 1 /\ Cardinality(s.operations) = 1
    BY <2>2, <2>3, FS_Singleton
  <2>10. Own(s2) = {q2}
    BY <2>3, <2>9 DEF Own
  <2>11. \A x \in Own(s2) :
           x.id # "op2" =>
             /\ x.action = Requested /\ {x.id, "unscoped"} \cap s2.unresolved = {}
             /\ \A c : /\ c.current_values = CurrentValues("answer", E)
                       /\ c.stored_values = StoredValues("answer", E)
                       /\ c.strength = "strong"
                       => GoodProposal(x, c, pol)
    BY <1>8, <2>3, <2>8, <2>10
  <2>12. Own(s2) # {} /\ \A t \in AnswerPhones(D) : ~Fits(E, s2, t)
    BY <2>6, <2>10
  <2>13. /\ w.work = OwnWork(s, p) /\ p.action = Requested
         /\ Cardinality(s2.operations) = Cardinality(s.operations)
    BY <2>1, <2>2, <2>9
  <2> QED
    BY <1>0, <1>3, <1>8, <1>9, <2>11, <2>12, <2>13, OwnWorkStays DEF E, s, s2
<1> QED
  BY <1>11, <1>12

\* Two proposals of the same operation, whatever their evidence and confidence.
Alike(p2, p) ==
  /\ p2.id = p.id /\ p2.action = p.action /\ p2.pdv_code = p.pdv_code /\ p2.phone = p.phone
  /\ p2.extra = p.extra /\ p2.ambiguous = p.ambiguous

\* With a doubt less the model's proposals that are left are the same operations.
LEMMA OperationsStay ==
  ASSUME NEW sc, NEW D, NEW d,
         d \notin OtherValues \cup {"independent", "negated", "past", "no_operations"},
         "override_attempt" \notin D,
         Follows(D) => D \cap {"malformed_pdv", "unknown_action", "extra", "ambiguous"} = {}
  PROVE  LET s == IntentSafety(Mail(sc, D), ModelAnalysis(sc, D))
             s2 == IntentSafety(Mail(sc, D \ {d}), ModelAnalysis(sc, D \ {d}))
         IN /\ AllRemoved(D \ {d}) <=> AllRemoved(D)
            /\ Follows(D \ {d}) <=> Follows(D)
            /\ Cardinality(s2.operations) = Cardinality(s.operations)
            /\ \A p2 \in s2.operations : \E p \in s.operations : Alike(p2, p)
            /\ \A p \in s.operations : \E p2 \in s2.operations : Alike(p2, p)
            /\ \A p \in s.operations : p.action = Requested
<1> DEFINE E == D \ {d}
           s == IntentSafety(Mail(sc, D), ModelAnalysis(sc, D))
           s2 == IntentSafety(Mail(sc, E), ModelAnalysis(sc, E))
           o == OtherProposal(sc)
<1>1. Follows(E) <=> Follows(D)
  BY DEF Follows, ActionUnsafe
<1>2. FollowsOther(E) <=> FollowsOther(D)
  BY DEF FollowsOther, ActionUnsafe, OtherValues
<1>3. AllRemoved(E) <=> AllRemoved(D)
  <2>1. /\ "no_operations" \in E <=> "no_operations" \in D
        /\ "second_operation" \in E <=> "second_operation" \in D
    BY DEF OtherValues
  <2> HIDE DEF E
  <2> QED
    BY <1>1, <1>2, <2>1 DEF AllRemoved
<1>4. /\ s.operations = (IF Follows(D) THEN {Proposal(sc, D)} ELSE {})
                        \cup (IF FollowsOther(D) THEN {o} ELSE {})
      /\ s2.operations = (IF Follows(E) THEN {Proposal(sc, E)} ELSE {})
                         \cup (IF FollowsOther(E) THEN {o} ELSE {})
  BY SafeParts
<1>5. Follows(D) => Alike(Proposal(sc, E), Proposal(sc, D))
  <2> SUFFICES ASSUME Follows(D) PROVE Alike(Proposal(sc, E), Proposal(sc, D))
    OBVIOUS
  <2>1. /\ d \notin OtherValues \cup {"independent"}
        /\ D \cap {"malformed_pdv", "unknown_action", "extra", "ambiguous"} = {}
    OBVIOUS
  <2> QED
    BY <2>1, ProposalStays DEF Alike
<1>6. Alike(o, o) /\ o.action = Requested
  BY DEF Alike, OtherProposal, Proposal
<1>7. Follows(D) => Proposal(sc, D).action = Requested
  BY DEF Proposal
<1>8. Cardinality(s2.operations) = Cardinality(s.operations)
  <2>1. CASE Follows(D)
    <3>1. Follows(E)
      BY <1>1, <2>1
    <3>2. Cardinality(s.operations) = IF FollowsOther(D) THEN 2 ELSE 1
      BY <2>1, FollowedOperations
    <3>3. Cardinality(s2.operations) = IF FollowsOther(E) THEN 2 ELSE 1
      <4> HIDE DEF E
      <4> QED
        BY <3>1, FollowedOperations
    <3> QED
      BY <1>2, <3>2, <3>3
  <2>2. CASE ~Follows(D)
    <3> HIDE DEF s, s2
    <3>1. s2.operations = s.operations
      BY <1>1, <1>2, <1>4, <2>2
    <3> QED
      BY <3>1
  <2> QED
    BY <2>1, <2>2
<1> HIDE DEF s, s2, o, E
<1>9. /\ \A p2 \in s2.operations : \E p \in s.operations : Alike(p2, p)
      /\ \A p \in s.operations : \E p2 \in s2.operations : Alike(p2, p)
      /\ \A p \in s.operations : p.action = Requested
  BY <1>1, <1>2, <1>4, <1>5, <1>6, <1>7
<1> QED
  BY <1>1, <1>3, <1>8, <1>9 DEF s, s2, E

\* Proposals of the same operations fit the same answers.
LEMMA AlikeFits ==
  ASSUME NEW D, NEW D2, NEW s, NEW s2, NEW t, Fits(D, s, t),
         Cardinality(s2.operations) = Cardinality(s.operations),
         \A p2 \in s2.operations : \E p \in s.operations : Alike(p2, p) \/ Alike(p, p2),
         s.operations # {} => Completed(D2, t) = Completed(D, t)
  PROVE  Fits(D2, s2, t)
<1>1. ASSUME NEW p2 \in s2.operations PROVE MatchesCanonical(p2, Completed(D2, t))
  <2>1. PICK p \in s.operations : Alike(p2, p) \/ Alike(p, p2)
    OBVIOUS
  <2>2. MatchesCanonical(p, Completed(D, t)) /\ Completed(D2, t) = Completed(D, t)
    BY DEF Fits
  <2> HIDE DEF Completed
  <2> QED
    BY <2>1, <2>2 DEF MatchesCanonical, Alike
<1> QED
  BY <1>1 DEF Fits

\* The model's proposal that fits a stored operation is for a known action and has no more
\* than its fields.
LEMMA FittingIsPlain ==
  ASSUME NEW D, NEW t, Follows(D),
         Fits(D, IntentSafety(Mail("answer", D), ModelAnalysis("answer", D)), t)
  PROVE  D \cap {"malformed_pdv", "unknown_action", "extra", "ambiguous"} = {}
<1> DEFINE p == Proposal("answer", D)
           s == IntentSafety(Mail("answer", D), ModelAnalysis("answer", D))
<1>1. p \in s.operations
  BY FollowedOperations
<1>2. MatchesCanonical(p, Completed(D, t))
  <2> HIDE DEF s, p
  <2> QED
    BY <1>1 DEF Fits, s
<1>3. Completed(D, t).action # "unknown" /\ Completed(D, t).pdv_code = pdv
  BY DEF Completed, Stored, Requested
<1>4. p.action # "unknown" /\ p.extra = {} /\ ~p.ambiguous /\ p.pdv_code \in {None, pdv}
  <2> HIDE DEF p
  <2> QED
    BY <1>2, <1>3 DEF MatchesCanonical
<1>5. D \cap {"unknown_action", "extra", "ambiguous"} = {}
  BY <1>4 DEF Proposal
<1>6. "malformed_pdv" \notin D
  <2>1. "malformed_pdv" \in D => p.pdv_code \in Malformed
    BY MalformedPdv
  <2>2. None \notin Malformed /\ pdv \notin Malformed
    BY ValuesAssumption, MailAssumption
  <2> QED
    BY <1>4, <2>1, <2>2
<1> QED
  BY <1>5, <1>6

\* An answer that the model answers, where it says what it says of its own proposals.
LEMMA ModelledAnswerStays ==
  ASSUME NEW D, NEW d, NEW pol \in Policies, NEW w \in Works("answer", D),
         NEW w2 \in Works("answer", D \ {d}), Execution("answer", D, pol, w),
         OneKind(D), Weighs("answer", D, pol, TRUE, d),
         w.analysis = IntentSafety(Mail("answer", D), ModelAnalysis("answer", D)),
         w2.analysis = IntentSafety(Mail("answer", D \ {d}), ModelAnalysis("answer", D \ {d}))
  PROVE  Execution("answer", D \ {d}, pol, w2)
<1> DEFINE E == D \ {d}
           s == w.analysis
           s2 == w2.analysis
<1>0. /\ d \notin OtherValues \cup {"independent", "negation"}
      /\ d \notin OtherValues \cup {"independent", "negated", "past", "no_operations"}
      /\ d \notin OtherValues /\ d \notin {"direct_yes", "scoped_elsewhere", "independent"}
      /\ pol.subject_override => d \notin {"forwarded", "subject_action"}
  BY DEF Weighs, Excuses
<1>1. /\ w2.work \in Materialized(Mail("answer", E), PreparedStrength("answer", E),
                                  About("answer", E), s2, Stored("answer", E))
      /\ w2.work.result = "work" => w2.work.proposal.id # "op2"
      /\ w.work.result = "work" => w.work.proposal.id # "op2"
  BY WorksAre
<1>2. w.work.known /\ {"completed", "cancelled"} \cap D = {}
      /\ w.work.proposal.action = Stored("answer", D).action
  BY ExecutedAnswer
<1>3. /\ RepliesAgree(Mail("answer", D).lines, s) /\ "override_attempt" \notin D
      /\ s.kind # "cancellation"
  BY RepliesAreChecked
<1>4. /\ AnswerPhones(E) = AnswerPhones(D)
      /\ "other_action" \notin D =>
           /\ StoredValues("answer", E) = StoredValues("answer", D)
           /\ \A t : Completed(E, t) = Completed(D, t)
  BY <1>0, <1>2, AnswerStays DEF StoredValues
<1>5. CurrentValues("answer", E) = CurrentValues("answer", D)
  BY <1>0, MailStays
<1>6. /\ {"kind", "contradiction", "unresolved"} \subseteq DOMAIN s
      /\ {"kind", "contradiction", "unresolved"} \subseteq DOMAIN s2
  BY SafeDomain
<1>7. ASSUME Follows(D) => D \cap {"malformed_pdv", "unknown_action", "extra", "ambiguous"} = {}
      PROVE  /\ AllRemoved(E) <=> AllRemoved(D)
             /\ Follows(E) <=> Follows(D)
             /\ Cardinality(s2.operations) = Cardinality(s.operations)
             /\ \A p2 \in s2.operations : \E p \in s.operations : Alike(p2, p)
             /\ \A p \in s.operations : \E p2 \in s2.operations : Alike(p2, p)
             /\ \A p \in s.operations : p.action = Requested
             /\ SaysNoMore(s2, s) /\ (s2.contradiction => s.contradiction)
             /\ s2.kind \in ExecutableKinds
             /\ RepliesAgree(Mail("answer", D).lines, s2)
  <2>1. /\ AllRemoved(E) <=> AllRemoved(D)
        /\ Follows(E) <=> Follows(D)
        /\ Cardinality(s2.operations) = Cardinality(s.operations)
        /\ \A p2 \in s2.operations : \E p \in s.operations : Alike(p2, p)
        /\ \A p \in s.operations : \E p2 \in s2.operations : Alike(p2, p)
        /\ \A p \in s.operations : p.action = Requested
    <3>1. /\ s = IntentSafety(Mail("answer", D), ModelAnalysis("answer", D))
          /\ s2 = IntentSafety(Mail("answer", D \ {d}), ModelAnalysis("answer", D \ {d}))
      OBVIOUS
    <3>2. /\ d \notin OtherValues \cup {"independent", "negated", "past", "no_operations"}
          /\ "override_attempt" \notin D
      BY <1>0, <1>3
    <3> HIDE DEF s, s2
    <3> QED
      BY <1>7, <3>1, <3>2, OperationsStay
  <2>2. SaysNoMore(s2, s) /\ (s2.contradiction => s.contradiction)
    <3>1. AllRemoved(D \ {d}) => AllRemoved(D)
      BY <2>1
    <3> QED
      BY <1>0, <3>1, ModelSaysNoMore
  <2>3. s2.kind \in ExecutableKinds
    <3>1. OneKind(E) /\ E \subseteq D
      BY DEF OneKind
    <3>2. /\ s.kind = IF AllRemoved(D) THEN "irrelevant" ELSE ModelAnalysis("answer", D).kind
          /\ s2.kind = IF AllRemoved(E) THEN "irrelevant" ELSE ModelAnalysis("answer", E).kind
      BY SafeParts
    <3>3. ~AllRemoved(D) => "kind_cancellation" \notin D
      BY <1>3, <3>2, ModelKinds
    <3> HIDE DEF s, s2, E
    <3>4. ~AllRemoved(E) =>
            ModelAnalysis("answer", E).kind \in {"correction", "ambiguous", "irrelevant",
                                                 "clarification_reply"}
      BY <2>1, <3>1, <3>3, ModelKinds
    <3> QED
      BY <3>2, <3>4 DEF ExecutableKinds
  <2>4. RepliesAgree(Mail("answer", D).lines, s2)
    <3> HIDE DEF s, s2
    <3> QED
      BY <1>3, <2>1, RepliesStay DEF Alike
  <2> QED
    BY <2>1, <2>2, <2>3, <2>4
<1>8. CASE \E t \in AnswerPhones(D) : Fits(D, s, t)
  <2>1. PICK t \in AnswerPhones(D) : Fits(D, s, t) /\ w.work = CompletedWork(D, s, t)
    BY <1>8, ExecutedAnswer
  <2>2. Follows(D) => D \cap {"malformed_pdv", "unknown_action", "extra", "ambiguous"} = {}
    BY <2>1, FittingIsPlain
  <2>3. s.operations # {} => Completed(E, t) = Completed(D, t)
    <3> SUFFICES ASSUME s.operations # {} PROVE Completed(E, t) = Completed(D, t)
      OBVIOUS
    <3>1. PICK p \in s.operations : p.action = Requested
      BY <1>7, <2>2
    <3> HIDE DEF s, E
    <3>2. "other_action" \notin D
      BY <2>1, <3>1, FitsTheAction
    <3> QED
      BY <1>4, <3>2
  <2> HIDE DEF s, s2, E
  <2>4. Fits(E, s2, t)
    BY <1>7, <2>1, <2>2, <2>3, AlikeFits
  <2>5. /\ SaysNoMore(s2, s) /\ s2.kind \in ExecutableKinds
        /\ RepliesAgree(Mail("answer", D).lines, s2)
    BY <1>7, <2>2
  <2> QED
    BY <1>0, <1>1, <1>6, <2>1, <2>4, <2>5, CompletedWorkStays DEF s, s2, E
<1>9. CASE ~(\E t \in AnswerPhones(D) : Fits(D, s, t))
  <2>1. PICK p \in Own(s) : w.work = OwnWork(s, p)
    BY <1>9, ExecutedAnswer
  <2>2. /\ w.work.proposal = p /\ w.work.result = "work" /\ w.work.analysis = s
        /\ w.work.strength = "strong"
    BY <2>1 DEF OwnWork, Work
  <2>3. Follows(D) /\ p = Proposal("answer", D)
    <3>1. p.id # "op2" /\ p \in s.operations
      BY <1>1, <2>2 DEF Own
    <3> QED
      BY <3>1, ProposalIds, SafeParts
  <2> DEFINE c0 == Context("answer", D, w.work, s, pol)
  <2>4. /\ Executes(s, Proposal("answer", D), Verification("answer", D), c0, pol)
        /\ c0.strength = "strong" /\ c0.current_values = CurrentValues("answer", D)
        /\ c0.stored_values = StoredValues("answer", D)
    <3>1. Executes(s, Proposal("answer", D), Verification("answer", D), c0, pol)
      BY <2>2, <2>3 DEF Execution
    <3>2. /\ c0.strength = "strong" /\ c0.current_values = CurrentValues("answer", D)
          /\ c0.stored_values = StoredValues("answer", D)
      BY <1>2, <2>2 DEF Context
    <3> QED
      BY <3>1, <3>2
  <2> HIDE DEF c0
  <2>5. /\ D \cap {"unsupported", "history", "malformed_pdv", "unknown_action", "extra",
                   "ambiguous"} = {}
        /\ Proposal("answer", D).action = Requested
        /\ GoodProposal(Proposal("answer", D), c0, pol)
    <3> HIDE DEF s
    <3> QED
      BY <2>4, ProposalClean
  <2>6. "other_action" \notin D
    BY <1>2, <2>2, <2>3, <2>5 DEF Stored, Requested
  <2>7. /\ AllRemoved(E) <=> AllRemoved(D)
        /\ Follows(E) <=> Follows(D)
        /\ Cardinality(s2.operations) = Cardinality(s.operations)
        /\ \A p2 \in s2.operations : \E x \in s.operations : Alike(p2, x)
        /\ \A x \in s.operations : \E p2 \in s2.operations : Alike(p2, x)
        /\ SaysNoMore(s2, s) /\ (s2.contradiction => s.contradiction)
        /\ s2.kind \in ExecutableKinds
        /\ RepliesAgree(Mail("answer", D).lines, s2)
    <3>1. D \cap {"malformed_pdv", "unknown_action", "extra", "ambiguous"} = {}
      BY <2>5
    <3> QED
      BY <1>7, <3>1
  <2>8. \A t \in AnswerPhones(D) : ~Fits(E, s2, t)
    <3> SUFFICES ASSUME NEW t \in AnswerPhones(D), Fits(E, s2, t) PROVE FALSE
      OBVIOUS
    <3>1. Completed(D, t) = Completed(E, t)
      BY <1>4, <2>6
    <3> HIDE DEF s, s2, E
    <3>2. Cardinality(s.operations) = Cardinality(s2.operations)
      BY <2>7
    <3>3. Fits(D, s, t)
      BY <2>7, <3>1, <3>2, AlikeFits
    <3> QED
      BY <1>9, <3>3
  <2>9. s2.kind = s.kind /\ ~("unscoped" \in D)
    <3>1. /\ s.kind \notin {"irrelevant", "ambiguous", "correction"}
          /\ "unscoped" \notin s.unresolved
      <4> HIDE DEF s
      <4> QED
        BY <2>4 DEF Executes, CanExecute, Ambiguous, CorrectionOfKnown
    <3>2. ~AllRemoved(D) /\ ~AllRemoved(E)
      BY <2>3, <2>7 DEF AllRemoved
    <3>3. /\ s.kind = ModelAnalysis("answer", D).kind
          /\ s2.kind = ModelAnalysis("answer", E).kind
          /\ s.unresolved = ModelAnalysis("answer", D).unresolved
      BY <3>2, SafeParts
    <3>4. {"kind_correction", "kind_ambiguous", "kind_irrelevant", "kind_cancellation"}
            \cap D = {}
      BY <1>3, <3>1, <3>3, ModelKinds
    <3>5. OneKind(E) /\ E \subseteq D
      BY DEF OneKind
    <3>6. "unscoped" \notin D
      BY <3>1, <3>3, ModelParts
    <3> HIDE DEF s, s2, E
    <3>7. ModelAnalysis("answer", D).kind = "clarification_reply"
      BY <3>4, ModelKinds
    <3>8. ModelAnalysis("answer", E).kind = "clarification_reply"
      BY <3>4, <3>5, ModelKinds
    <3> QED
      BY <3>3, <3>6, <3>7, <3>8
  <2>10. s2.unresolved \subseteq {"op2"}
    <3>1. s2.unresolved = ModelAnalysis("answer", E).unresolved
      BY SafeParts
    <3> QED
      BY <2>9, <3>1, ModelParts
  <2> DEFINE q == Proposal("answer", D)
             q2 == Proposal("answer", E)
  <2>11. /\ q2.id = q.id /\ q2.action = q.action /\ q2.pdv_code = q.pdv_code
         /\ q2.phone = q.phone /\ q2.missing = q.missing /\ q2.evidence = q.evidence
         /\ q2.extra = q.extra /\ q2.ambiguous = q.ambiguous
         /\ \A t \in {None, 70} :
              ConfidencePasses(q.confidence, t) => ConfidencePasses(q2.confidence, t)
    <3>1. d \notin OtherValues \cup {"independent"}
      BY <1>0
    <3>2. /\ D \cap {"malformed_pdv", "unknown_action", "extra", "ambiguous"} = {}
          /\ D \cap {"unsupported", "history"} = {}
      BY <2>5
    <3> QED
      BY <3>1, <3>2, ProposalStays
  <2>12. \A c : /\ c.current_values = CurrentValues("answer", E)
                /\ c.stored_values = StoredValues("answer", E)
                /\ c.strength = "strong"
                => GoodProposal(q2, c, pol)
    <3>1. pol.analyzer_threshold \in {None, 70}
      BY PolicyFields
    <3>2. GoodProposal(q, c0, pol)
      BY <2>5
    <3> HIDE DEF q, q2, s, s2, E
    <3>3. ConfidencePasses(q2.confidence, pol.analyzer_threshold)
      BY <2>11, <3>1, <3>2 DEF GoodProposal
    <3> QED
      BY <1>4, <1>5, <2>4, <2>6, <2>11, <3>2, <3>3, GoodStays
  <2>13. /\ q2 \in s2.operations /\ q2.id = "op" /\ q2.action = Requested
         /\ \A x \in s2.operations : x.id # "op2" => x = q2
    <3>1. Follows(E)
      BY <2>3, <2>7
    <3>2. q2 \in s2.operations /\ \A x \in s2.operations : x.id # "op2" => x = q2
      <4> HIDE DEF E
      <4> QED
        BY <3>1, FollowedOperations DEF E
    <3> QED
      BY <2>5, <2>11, <3>2, ProposalIds
  <2> HIDE DEF q, q2, s, s2, E
  <2>14. Own(s2) # {}
    BY <2>13 DEF Own
  <2>15. \A x \in Own(s2) :
           x.id # "op2" =>
             /\ x.action = Requested /\ {x.id, "unscoped"} \cap s2.unresolved = {}
             /\ \A c : /\ c.current_values = CurrentValues("answer", E)
                       /\ c.stored_values = StoredValues("answer", E)
                       /\ c.strength = "strong"
                       => GoodProposal(x, c, pol)
    BY <2>10, <2>12, <2>13 DEF Own
  <2>16. p.action = Requested
    BY <2>3, <2>5
  <2> QED
    BY <1>0, <1>1, <2>1, <2>7, <2>8, <2>9, <2>14, <2>15, <2>16, OwnWorkStays DEF s, s2, E
<1> QED
  BY <1>8, <1>9

\* An answer of which the model was not sure enough to say anything.
LEMMA UnsureAnswerStays ==
  ASSUME NEW D, NEW d, NEW pol \in Policies, NEW w \in Works("answer", D),
         NEW w2 \in Works("answer", D \ {d}), Execution("answer", D, pol, w),
         Weighs("answer", D, pol, TRUE, d),
         w.analysis = IntentSafety(Mail("answer", D), Unsure),
         w2.analysis = IntentSafety(Mail("answer", D \ {d}), Unsure)
  PROVE  Execution("answer", D \ {d}, pol, w2)
<1> DEFINE E == D \ {d}
           s == w.analysis
           s2 == w2.analysis
<1>1. /\ d \notin OtherValues \cup {"independent", "negation"}
      /\ pol.subject_override => d \notin {"forwarded", "subject_action"}
  BY DEF Weighs, Excuses
<1>2. w2.work \in Materialized(Mail("answer", E), PreparedStrength("answer", E),
                               About("answer", E), s2, Stored("answer", E))
  BY WorksAre
<1>3. /\ s.operations = {} /\ s.kind = "ambiguous" /\ ~s.new_request
      /\ s.unresolved = {"unscoped"} /\ s.direct = "unknown" /\ ~s.hypothetical
      /\ ~s.forwarded /\ ~s.subject_conflict /\ s.mapping = "unknown"
  BY UnsureParts
<1>4. /\ s2.operations = {} /\ s2.kind = "ambiguous" /\ ~s2.new_request
      /\ s2.unresolved = {"unscoped"} /\ s2.direct = "unknown" /\ ~s2.hypothetical
      /\ ~s2.forwarded /\ ~s2.subject_conflict /\ s2.mapping = "unknown"
  BY UnsureParts
<1>5. /\ {"kind", "contradiction", "unresolved"} \subseteq DOMAIN s
      /\ {"kind", "contradiction", "unresolved"} \subseteq DOMAIN s2
  BY DEF IntentSafety, Unsure, Analysis
<1> HIDE DEF s, s2, E
<1>6. SaysNoMore(s2, s) /\ s2.kind \in ExecutableKinds
  BY <1>3, <1>4 DEF SaysNoMore, ExecutableKinds
<1>7. RepliesAgree(Mail("answer", D).lines, s2)
  BY <1>4 DEF RepliesAgree, Disjoint
<1>8. PICK t \in AnswerPhones(D) : w.work = CompletedWork(D, s, t)
  <2>1. Own(s) = {}
    BY <1>3 DEF Own
  <2> QED
    BY <2>1, ExecutedAnswer DEF s
<1>9. Fits(E, s2, t)
  BY <1>4, FS_EmptySet DEF Fits
<1> QED
  BY <1>1, <1>2, <1>5, <1>6, <1>7, <1>8, <1>9, CompletedWorkStays DEF s, s2, E

\* An answer that is executed is executed with a doubt less.
LEMMA ExecutedAnswerStays ==
  ASSUME NEW D, NEW d, NEW pol \in Policies, NEW w \in Works("answer", D),
         NEW w2 \in Works("answer", D \ {d}), Execution("answer", D, pol, w),
         OneKind(D), Weighs("answer", D, pol, TRUE, d)
  PROVE  Execution("answer", D \ {d}, pol, w2)
<1> DEFINE E == D \ {d}
           m == ModelAnalysis("answer", D)
           m2 == ModelAnalysis("answer", E)
           believed == m.kind = "irrelevant" /\ ~m.new_request
           believed2 == m2.kind = "irrelevant" /\ ~m2.new_request
<1>1. PICK a \in Analyses("answer", D) : w.analysis = IntentSafety(Mail("answer", D), a)
  BY WorksAre
<1>2. PICK a2 \in Analyses("answer", E) : w2.analysis = IntentSafety(Mail("answer", E), a2)
  BY WorksAre
<1>3. CASE "classifier" \in D
  BY <1>3, ClassifiedAnswerStays
<1>4. CASE "classifier" \notin D /\ "unsure" \notin D
  <2>1. "classifier" \notin E /\ "unsure" \notin E
    BY <1>4
  <2> HIDE DEF E
  <2>2. a = m /\ a2 = m2
    BY <1>4, <2>1, AnalysesAre
  <2> QED
    BY <1>1, <1>2, <2>2, ModelledAnswerStays DEF E, m, m2
<1>5. CASE "classifier" \notin D /\ "unsure" \in D
  <2>1. d \notin {"unsure", "kind_irrelevant", "independent"}
    BY <1>5 DEF Weighs, Excuses
  <2>2. /\ "classifier" \notin E /\ "unsure" \in E
        /\ "kind_irrelevant" \in E <=> "kind_irrelevant" \in D
        /\ "independent" \in E <=> "independent" \in D
        /\ OneKind(E)
    BY <1>5, <2>1 DEF OneKind
  <2> HIDE DEF E
  <2>3. believed2 <=> believed
    BY <2>2, ModelKinds, ModelParts
  <2>4. a = (IF believed THEN m ELSE Unsure) /\ a2 = IF believed2 THEN m2 ELSE Unsure
    BY <1>5, <2>2, AnalysesAre
  <2>5. CASE believed
    <3>1. a = m /\ a2 = m2
      BY <2>3, <2>4, <2>5
    <3> QED
      BY <1>1, <1>2, <3>1, ModelledAnswerStays DEF E, m, m2
  <2>6. CASE ~believed
    <3>1. a = Unsure /\ a2 = Unsure
      BY <2>3, <2>4, <2>6
    <3> QED
      BY <1>1, <1>2, <3>1, UnsureAnswerStays DEF E
  <2> QED
    BY <2>5, <2>6
<1> QED
  BY <1>3, <1>4, <1>5

\* So is any mail: no doubt that is not excused helps it.
LEMMA ExecutionWithDoubtLess ==
  ASSUME NEW sc \in Scenario, NEW D, NEW pol \in Policies, NEW w \in Works(sc, D),
         Execution(sc, D, pol, w), OneKind(D),
         NEW d \in D \ (Excuses(sc, D, pol, w.work.known) \cup OtherValues),
         NEW w2 \in Works(sc, D \ {d})
  PROVE  Execution(sc, D \ {d}, pol, w2)
<1>1. CASE sc = "answer"
  <2>1. w.work.known
    BY <1>1, ExecutedAnswer
  <2>2. Weighs("answer", D, pol, TRUE, d)
    BY <1>1, <2>1 DEF Weighs, Excuses
  <2> QED
    BY <1>1, <2>2, ExecutedAnswerStays
<1>2. CASE sc \in {"request", "follow_up"}
  <2>1. w.work \in Materialized(Mail(sc, D), PreparedStrength(sc, D), About(sc, D),
                                w.analysis, Stored(sc, D))
    BY WorksAre
  <2>2. PICK p \in w.analysis.operations : w.work = NewOperation(sc, D, w.analysis, p)
    BY <1>2, <2>1, ExecutedIsNew
  <2>3. ~w.work.known
    BY <2>2 DEF NewOperation, Work
  <2>4. Weighs(sc, D, pol, FALSE, d)
    BY <2>3 DEF Weighs, Excuses
  <2>5. CASE "classifier" \in D
    BY <1>2, <2>4, <2>5, ClassifiedStays
  <2>6. CASE "classifier" \notin D
    BY <1>2, <2>4, <2>6, ModelledStays
  <2> QED
    BY <2>5, <2>6
<1> QED
  BY <1>1, <1>2 DEF Scenario
-----------------------------------------------------------------------------
(* The mail's way *)

\* The doubts that a step adds are of its kind.
LEMMA UpToTwoAreOfKind ==
  ASSUME NEW S, NEW D \in UpToTwo(S)
  PROVE  D \subseteq S
  BY DEF UpToTwo

\* Who may send is a matter of the mail, not of what is found later.
LEMMA SenderStays ==
  ASSUME NEW sc, NEW D, NEW X \in SUBSET (StoredDoubts \cup AnalysisDoubts \cup VerifierDoubt)
  PROVE  SenderAuthorized(sc, D \cup X) <=> SenderAuthorized(sc, D)
<1>1. \A x \in {"malformed", "unlisted", "lookup_fails"} : x \in D \cup X <=> x \in D
  BY DEF StoredDoubts, AnalysisDoubts, VerifierDoubt
<1> HIDE DEF StoredDoubts
<1>2. Mail(sc, D \cup X).sender = Mail(sc, D).sender
  BY <1>1 DEF Mail
<1> QED
  BY <1>1, <1>2 DEF SenderAuthorized

\* A sender who may send may do so with a doubt less.
LEMMA SenderStaysWithLess ==
  ASSUME NEW sc, NEW D, NEW d, SenderAuthorized(sc, D)
  PROVE  SenderAuthorized(sc, D \ {d})
<1>1. Mail(sc, D).sender = "listed" /\ "lookup_fails" \notin D
  BY DEF SenderAuthorized, Authorized
<1>2. "malformed" \notin D /\ "unlisted" \notin D
  BY <1>1 DEF Mail
<1>3. Mail(sc, D \ {d}).sender = "listed"
  BY <1>2 DEF Mail
<1> QED
  BY <1>1, <1>3 DEF SenderAuthorized, Authorized

\* What the verifier doubts does not change what the analysis brings.
LEMMA VerifierChangesNoWork ==
  ASSUME NEW sc, NEW D, NEW X \in SUBSET VerifierDoubt
  PROVE  Works(sc, D \cup X) = Works(sc, D)
<1> DEFINE E == D \cup X
<1>1. SaysPdv(sc, E) = SaysPdv(sc, D)
  BY DEF SaysPdv, VerifierDoubt
<1>2. Mail(sc, E) = Mail(sc, D)
  <2>1. /\ \A x \in MailDoubts : x \in E <=> x \in D
        /\ \A S \in SUBSET MailDoubts : E \cap S = D \cap S
    BY DEF MailDoubts, VerifierDoubt
  <2>2. /\ Mail(sc, E).sender = Mail(sc, D).sender
        /\ Mail(sc, E).features = Mail(sc, D).features
    <3>1. {"negation", "forwarded", "independent", "marker", "override_attempt", "uncertain",
           "unattributed"} \subseteq MailDoubts
      BY DEF MailDoubts
    <3> HIDE DEF E
    <3> QED
      BY <2>1, <3>1 DEF Mail, MailDoubts
  <2>3. Mail(sc, E).subject = Mail(sc, D).subject
    <3> HIDE DEF E
    <3> QED
      BY <2>1 DEF Mail, MailDoubts
  <2>4. Mail(sc, E).clauses = Mail(sc, D).clauses
    <3> HIDE DEF E
    <3> QED
      BY <2>1 DEF Mail, MailDoubts
  <2>5. Mail(sc, E).lines = Mail(sc, D).lines
    <3> HIDE DEF E
    <3> QED
      BY <1>1, <2>1 DEF Mail, MailDoubts
  <2>6. \A Y : Mail(sc, Y) = [sender |-> Mail(sc, Y).sender,
                                   features |-> Mail(sc, Y).features,
                                   subject |-> Mail(sc, Y).subject,
                                   clauses |-> Mail(sc, Y).clauses,
                                   lines |-> Mail(sc, Y).lines]
    BY DEF Mail
  <2> QED
    BY <2>2, <2>3, <2>4, <2>5, <2>6
<1>3. PreparedStrength(sc, E) = PreparedStrength(sc, D)
  BY DEF PreparedStrength, VerifierDoubt
<1>4. About(sc, E) = About(sc, D)
  BY DEF About, VerifierDoubt
<1>5. Stored(sc, E) = Stored(sc, D)
  BY DEF Stored, VerifierDoubt
<1>6. Proposal(sc, E) = Proposal(sc, D)
  <2>1. LET p == Proposal(sc, E)
            q == Proposal(sc, D)
        IN /\ p.id = q.id /\ p.action = q.action /\ p.pdv_code = q.pdv_code
           /\ p.phone = q.phone /\ p.missing = q.missing /\ p.extra = q.extra
           /\ p.ambiguous = q.ambiguous /\ p.confidence = q.confidence
    BY DEF Proposal, VerifierDoubt
  <2>2. \A f, x, src : Said(f, x, src, E) = Said(f, x, src, D)
    BY DEF Said, VerifierDoubt
  <2>3. "history" \in E <=> "history" \in D
    BY DEF VerifierDoubt
  <2> HIDE DEF E
  <2>4. Proposal(sc, E).evidence = Proposal(sc, D).evidence
    <3> DEFINE evidence(Y) ==
                 LET p == Proposal(sc, D)
                     source == IF "history" \in D THEN "quoted_closed_history"
                               ELSE IF SaysPdv(sc, D) THEN "latest_user_message"
                               ELSE "stored_request_state"
                 IN (IF p.pdv_code = None THEN {} ELSE {Said("pdv_code", p.pdv_code, source, Y)})
                    \cup (IF p.phone = None THEN {}
                          ELSE {Said("phone", p.phone, "latest_user_message", Y)})
    <3>1. Proposal(sc, D).evidence = evidence(D)
      BY EvidenceIs
    <3>2. Proposal(sc, E).evidence = evidence(E)
      BY <1>1, <2>1, <2>3, EvidenceIs
    <3>3. evidence(E) = evidence(D)
      BY <2>2
    <3> HIDE DEF evidence
    <3> QED
      BY <3>1, <3>2, <3>3
  <2>5. \A Y : LET p == Proposal(sc, Y)
               IN p = [id |-> p.id, action |-> p.action, pdv_code |-> p.pdv_code,
                       phone |-> p.phone, missing |-> p.missing, evidence |-> p.evidence,
                       extra |-> p.extra, ambiguous |-> p.ambiguous,
                       confidence |-> p.confidence]
    BY DEF Proposal
  <2> QED
    BY <2>1, <2>4, <2>5
<1>7. ModelAnalysis(sc, E) = ModelAnalysis(sc, D)
  BY <1>6 DEF ModelAnalysis, VerifierDoubt
<1>8. /\ "classifier" \in E <=> "classifier" \in D
      /\ "unsure" \in E <=> "unsure" \in D
  BY DEF VerifierDoubt
<1> HIDE DEF E
<1>9. Analyses(sc, E) = Analyses(sc, D)
  BY <1>2, <1>7, <1>8 DEF Analyses
<1> QED
  BY <1>2, <1>3, <1>4, <1>5, <1>9 DEF Works, E

\* The invariant: what has been decided is the verdict on one of the mail's works, and its
\* sender may send.
DoubtsInv ==
  /\ scenario \in Scenario /\ policy \in Policies /\ Possible(doubts)
  /\ stage \in {"arrived", "prepared", "analysed", "done"}
  /\ stage # "done" => outcome = "none"
  /\ stage \in {"prepared", "analysed"} \/ Executed => SenderAuthorized(scenario, doubts)
  /\ stage = "analysed" \/ Executed => work \in Works(scenario, doubts)
  /\ Executed => Verdict(scenario, doubts, policy, work) = "AUTO_EXECUTE"

LEMMA DoubtsInvInit == Init => DoubtsInv
  BY DEF Init, DoubtsInv, Executed

LEMMA DoubtsInvNext == JudgementInv /\ DoubtsInv /\ [Next]_vars => DoubtsInv'
<1> SUFFICES ASSUME JudgementInv, DoubtsInv, [Next]_vars PROVE DoubtsInv'
  OBVIOUS
<1>1. CASE Prepare
  <2>1. CASE SenderAuthorized(scenario, doubts)
    <3>1. PICK X \in UpToTwo(StoredDoubts) : Possible(doubts \cup X) /\ doubts' = doubts \cup X
      BY <1>1, <2>1 DEF Prepare, Add
    <3>2. X \in SUBSET (StoredDoubts \cup AnalysisDoubts \cup VerifierDoubt)
      BY <3>1, UpToTwoAreOfKind
    <3>3. SenderAuthorized(scenario, doubts')
      BY <2>1, <3>1, <3>2, SenderStays
    <3>4. /\ stage' = "prepared" /\ outcome' = "none" /\ scenario' = scenario
          /\ policy' = policy /\ Possible(doubts')
      BY <1>1, <2>1, <3>1 DEF Prepare, DoubtsInv
    <3> QED
      BY <3>3, <3>4 DEF DoubtsInv, Executed
  <2>2. CASE ~SenderAuthorized(scenario, doubts)
    BY <1>1, <2>2 DEF Prepare, DoubtsInv, Executed
  <2> QED
    BY <2>1, <2>2
<1>2. CASE Analyze
  <2>1. PICK X \in UpToTwo(AnalysisDoubts) : Possible(doubts \cup X) /\ doubts' = doubts \cup X
    BY <1>2 DEF Analyze, Add
  <2>2. X \in SUBSET (StoredDoubts \cup AnalysisDoubts \cup VerifierDoubt)
    BY <2>1, UpToTwoAreOfKind
  <2>3. SenderAuthorized(scenario, doubts')
    BY <1>2, <2>1, <2>2, SenderStays DEF Analyze, DoubtsInv
  <2>4. /\ work' \in Works(scenario, doubts') /\ scenario' = scenario /\ policy' = policy
        /\ Possible(doubts')
        /\ \/ stage' = "analysed" /\ outcome' = "none"
           \/ stage' = "done" /\ outcome' = work'.work.result /\ outcome' # "work"
    BY <1>2, <2>1 DEF Analyze, DoubtsInv
  <2>5. outcome' # "AUTO_EXECUTE"
    BY <2>4, WorkResults
  <2> QED
    BY <2>3, <2>4, <2>5 DEF DoubtsInv, Executed
<1>3. CASE VerifyAndDecide
  <2>1. PICK X \in UpToTwo(VerifierDoubt) : Possible(doubts \cup X) /\ doubts' = doubts \cup X
    BY <1>3 DEF VerifyAndDecide, Add
  <2>2. X \in SUBSET VerifierDoubt
    BY <2>1, UpToTwoAreOfKind
  <2>3. SenderAuthorized(scenario, doubts') /\ work \in Works(scenario, doubts')
    <3>1. SenderAuthorized(scenario, doubts) /\ work \in Works(scenario, doubts)
      BY <1>3 DEF VerifyAndDecide, DoubtsInv
    <3>2. X \in SUBSET (StoredDoubts \cup AnalysisDoubts \cup VerifierDoubt)
      BY <2>2
    <3> QED
      BY <2>1, <2>2, <3>1, <3>2, SenderStays, VerifierChangesNoWork
  <2>4. /\ stage' = "done" /\ outcome' = Verdict(scenario, doubts', policy, work)
        /\ UNCHANGED <<scenario, policy, work>> /\ Possible(doubts')
    BY <1>3, <2>1 DEF VerifyAndDecide
  <2> QED
    BY <2>3, <2>4 DEF DoubtsInv, Executed
<1>4. CASE UNCHANGED vars
  BY <1>4 DEF vars, DoubtsInv, Executed
<1> QED
  BY <1>1, <1>2, <1>3, <1>4 DEF Next

\* A mail whose operation is executed is executed, whatever the analyzer may return, with
\* any of its doubts removed, of however many: those that Excuses names aside, no doubt
\* outweighs another.
THEOREM DoubtsNeverHelp == Spec => []NoDoubtHelps
<1>1. DoubtsInv => NoDoubtHelps
  <2> SUFFICES ASSUME DoubtsInv, Executed,
                      NEW d \in doubts \ (Excuses(scenario, doubts, policy, work.work.known)
                                          \cup OtherValues),
                      NEW v \in Verdicts(scenario, doubts \ {d}, policy)
               PROVE  v = "AUTO_EXECUTE"
    BY DEF NoDoubtHelps
  <2>1. /\ scenario \in Scenario /\ policy \in Policies /\ OneKind(doubts)
        /\ work \in Works(scenario, doubts) /\ SenderAuthorized(scenario, doubts)
    BY PossibleKind DEF DoubtsInv
  <2>2. Execution(scenario, doubts, policy, work)
    BY <2>1, VerdictExecutes DEF DoubtsInv
  <2>3. SenderAuthorized(scenario, doubts \ {d})
    BY <2>1, SenderStaysWithLess
  <2>4. PICK w2 \in Works(scenario, doubts \ {d}) :
          v = Verdict(scenario, doubts \ {d}, policy, w2)
    BY <2>3 DEF Verdicts
  <2>5. Execution(scenario, doubts \ {d}, policy, w2)
    BY <2>1, <2>2, ExecutionWithDoubtLess
  <2> QED
    BY <2>4, <2>5, VerdictExecutes
<1>2. Spec => []DoubtsInv
  BY DoubtsInvInit, DoubtsInvNext, JudgementInvHolds, PTL DEF Spec
<1> QED
  BY <1>1, <1>2, PTL
=============================================================================
