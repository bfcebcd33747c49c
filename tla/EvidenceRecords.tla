---------------------------- MODULE EvidenceRecords ----------------------------
(***************************************************************************)
(* The record of a source (dataset/evidence/customer.py) with what a       *)
(* reader demands of it (dataset_review.py), and the decisions that are    *)
(* read from the findings file (report_contract.py).                       *)
(***************************************************************************)
EXTENDS FindingPackages, EvidenceReports

-----------------------------------------------------------------------------
(* The record: the cross-examination of a case, in short.                  *)

StatesOf(trial) ==
    IF Found(trial.evidence) /\ It(trial.evidence).scope = "response_and_state"
    THEN It(trial.evidence).initial_state \o It(trial.evidence).final_state ELSE <<>>

\* whether a trial has the fact, and on whose word
Availability(fact, trial) ==
    LET known == Found(trial.evidence)
        responded == Found(trial.output) \/ (known /\ It(trial.evidence).response)
        observed == IF known THEN Observed(It(trial.evidence)) ELSE {}
        events == known /\ It(trial.evidence).events > 0
        only(condition, authorities) == IF condition THEN authorities ELSE {}
    IN CASE fact = "response" ->
                [present |-> responded,
                 authorities |-> only(responded, {IF known THEN "source_self_reported"
                                                  ELSE "invoker_self_reported"})]
         [] fact = "trajectory" ->
                [present |-> events \/ \E o \in observed : o.status = "complete",
                 authorities |-> {o.authority : o \in observed}
                                    \cup only(events, {"invoker_self_reported"})]
         [] fact = "committed_state" ->
                [present |-> Len(StatesOf(trial)) = 2,
                 authorities |-> only(Len(StatesOf(trial)) = 2,
                                      {s.authority : s \in Elements(StatesOf(trial))})]

ArmAvailability(fact, trials) ==
    LET covered == Cardinality({k \in DOMAIN trials : Availability(fact, trials[k]).present})
    IN [achieved |-> trials # <<>> /\ covered = Len(trials), covered |-> covered,
        authorities |-> UNION {Availability(fact, trials[k]).authorities : k \in DOMAIN trials}]

FactSummary(fact, baseline, variation) ==
    LET arms == <<ArmAvailability(fact, baseline), ArmAvailability(fact, variation)>>
    IN [arms |-> arms, conclusion |-> arms[1].achieved /\ arms[2].achieved]

CrossSummary(judged, case) ==
    LET baseline == RunSummary(judged.baseline, judged.stability)
        variation == RunSummary(case.trials, case.stability)
        stabilities == {baseline.stability, variation.stability}
    IN [baseline |-> baseline, variation |-> variation, drift |-> BaselineDrift(judged),
        sensitivity |-> IF stabilities # {"stable"} THEN "inconclusive"
                        ELSE IF case.findings # {} THEN "observed" ELSE "not_observed",
        instability |-> IF "inconclusive" \in stabilities THEN "inconclusive"
                        ELSE IF "unstable" \in stabilities THEN "observed" ELSE "not_observed",
        facts |-> [f \in Facts |-> FactSummary(f, judged.baseline, case.trials)]]

RunSummaryAccepted(summary) == summary.observed + summary.inconclusive = summary.requested

FactSummaryAccepted(fact) ==
    \A i \in DOMAIN fact.arms :
        fact.arms[i].achieved => fact.arms[i].covered > 0 /\ fact.arms[i].authorities # {}

CrossSummaryAccepted(cross) ==
    LET stabilities == {cross.baseline.stability, cross.variation.stability}
    IN /\ RunSummaryAccepted(cross.baseline) /\ RunSummaryAccepted(cross.variation)
       /\ \A f \in Facts : FactSummaryAccepted(cross.facts[f])
       /\ cross.instability = (IF "inconclusive" \in stabilities THEN "inconclusive"
                               ELSE IF "unstable" \in stabilities THEN "observed"
                               ELSE "not_observed")
       /\ cross.baseline.stability = "inconclusive" => cross.drift = "inconclusive"
       /\ stabilities # {"stable"} => cross.sensitivity = "inconclusive"

\* case_customer_status
CaseStatus(judged, case) ==
    CASE case.verdict = "augmentation_rejected" -> "discarded"
      [] case.stability = "inconclusive" \/ (case.trials # <<>> /\ judged.stability = "inconclusive")
            -> "undetermined"
      [] judged.stability = "unstable" /\ case.trials # <<>> -> "unstable_original"
      [] judged.stability = "stable" /\ case.stability = "unstable" -> "unstable_variation_review"
      [] judged.stability = "stable" /\ case.stability = "stable" ->
            IF case.verdict = "divergence_needs_review" THEN "difference_review"
            ELSE "no_difference"
AsksForReview == {"unstable_variation_review", "difference_review"}

-----------------------------------------------------------------------------
(* Reading the record back.                                                *)

(***************************************************************************)
(* The rules are built again from what they evaluated to, and their suite  *)
(* must be, for one of the versions that know such rules, the one whose    *)
(* digest the evaluation holds.                                            *)
(***************************************************************************)
RuleDefinition(result) ==
    IF result.rule.type = "json_values_equal"
    THEN [result.rule EXCEPT !.left = result.trials[1].pointers[1],
                             !.right = result.trials[1].pointers[2]]
    ELSE result.rule
SuiteVersions(rules) ==
    IF \A k \in DOMAIN rules : rules[k].type = "json_values_equal"
    THEN {"1.0.0", "1.1.0", "1.2.0"}
    ELSE IF \E k \in DOMAIN rules : IsTransition(rules[k]) THEN {"1.2.0"} ELSE {"1.1.0", "1.2.0"}
RebuiltSuites(evaluation, authority) ==
    LET rules == [k \in DOMAIN evaluation[1].rules |-> RuleDefinition(evaluation[1].rules[k])]
    IN {[version |-> v, authority |-> authority, rules |-> rules] : v \in SuiteVersions(rules)}

\* _index_findings: every arm that was evaluated is a case that was run in full
ArmsAreCases(judged) ==
    LET evaluation == judged.evaluation
        complete(arm) == \A k \in DOMAIN arm.rules :
                            Len(arm.rules[k].trials) = Len(judged.baseline)
    IN /\ complete(evaluation[1])
       /\ \A a \in DOMAIN evaluation \ {1} :
            LET matching == {c \in DOMAIN judged.cases :
                                judged.cases[c].operator = evaluation[a].operator}
            IN /\ Cardinality(matching) = 1 /\ complete(evaluation[a])
               /\ \A c \in matching : Len(judged.cases[c].trials) = Len(judged.baseline)

Assessed(judged) ==
    \A c \in DOMAIN judged.cases :
        judged.cases[c].findings # {} => judged.cases[c].materiality # "none"

\* _EvidenceRecord.validate_invariant_evaluation, _index_findings
RecordAccepted(judged, suite) ==
    /\ \A c \in DOMAIN judged.cases :
        LET case == judged.cases[c]
        IN /\ CrossSummaryAccepted(CrossSummary(judged, case))
           /\ \A f \in case.findings :
                f.category = "changed_response" => judged.source.surface = "response"
           /\ Assessed(judged) => (case.materiality = "none") = (case.findings = {})
    /\ judged.evaluation # <<>> =>
        /\ suite[1] \in RebuiltSuites(judged.evaluation, suite[1].authority)
        /\ ArmsAreCases(judged)

-----------------------------------------------------------------------------
(* The decisions of the findings file.                                     *)

Scopes(package) == {r.scope : r \in Elements(package.sources) \cup Elements(package.probes)}
OneOrMixed(scopes) == IF Cardinality(scopes) = 1 THEN CHOOSE s \in scopes : TRUE ELSE "mixed"

\* build_finding_decision: the claims cite, in order, what was tested, what the
\* agent did, what followed and why it was flagged
Decision(package) ==
    LET tested == package.change.source \cup package.change.probe
        flagged == package.delta.pointers \cup package.definition
        scope == OneOrMixed(Scopes(package))
        violation == package.kind = "customer_invariant_violation"
    IN [name |-> OccurrenceName(package),
        classification |-> IF package.summary.observed = 0 THEN "inconclusive_evidence"
                           ELSE IF violation THEN "customer_rule_violation"
                           ELSE "observed_variance",
        claims |-> <<tested, package.delta.pointers, package.delta.pointers, flagged>>,
        scope |-> scope,
        level |-> IF violation THEN "customer_rule_evaluated"
                  ELSE IF scope = "response_only" THEN "response_observed"
                  ELSE "response_and_state_observed",
        authorities |-> {p.authority : p \in tested \cup flagged},
        receipts |-> Len(package.sources) + Len(package.probes)]

DecisionAccepted(decision) ==
    /\ Len(decision.claims) = 4
    /\ \A i \in DOMAIN decision.claims : decision.claims[i] # {}
    /\ Cardinality(decision.authorities) \in 1 .. 10
    /\ decision.receipts >= 1

DecisionReport(packages) ==
    LET decisions == {Decision(p) : p \in packages}
        inconclusive == \A d \in decisions : d.classification = "inconclusive_evidence"
    IN [decisions |-> decisions, scope |-> OneOrMixed({d.scope : d \in decisions}),
        exit |-> IF inconclusive THEN "2" ELSE "1"]

DecisionReportAccepted(report) ==
    /\ report.decisions # {}
    /\ \A d \in report.decisions : DecisionAccepted(d)
    /\ \A d, e \in report.decisions : d.name = e.name => d = e
    /\ report.scope # "mixed" => \A d \in report.decisions : d.scope = report.scope
=============================================================================
