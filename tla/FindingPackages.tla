--------------------------- MODULE FindingPackages ---------------------------
(***************************************************************************)
(* How the trials of a source are judged (sdk/src/ul/dataset_evaluation.py *)
(* from the grouping of the repetitions on), how every difference becomes  *)
(* a package of evidence (finding_adapters.py) and what the contract of a  *)
(* package demands when it is built and when it is read back               *)
(* (report_contract.py).                                                   *)
(*                                                                         *)
(* A delivery is what the target and the evaluators made of one input:     *)
(* output and frame as in DatasetInvariants and ActionOutcomes, each       *)
(* missing when that step failed, and the evidence of the execution.       *)
(* A pointer of the code is a keyed hash of what it points to; here it is  *)
(* the record of what is hashed.  Sorted unique tuples of them are sets.   *)
(* The order of the trace pointers is the one that is not sorted: it is    *)
(* the order of the hashes only under a lucky key.                         *)
(***************************************************************************)
EXTENDS DatasetInvariants, ActionOutcomes

CONSTANT MaximumDeltaPointers   \* ObservedDelta.evidence_pointer_ids, max_length

ASSUME DeltaLimitIsNat == MaximumDeltaPointers \in Nat

-----------------------------------------------------------------------------
(* Trials.                                                                 *)

Skipped == [output |-> <<>>, evidence |-> <<>>, frame |-> <<>>, inconclusive |-> TRUE]

TrialOf(delivery, reference, surface) ==
    [output |-> delivery.output, evidence |-> delivery.evidence, frame |-> delivery.frame,
     inconclusive |-> \/ delivery.frame = <<>>
                      \/ surface = "action" /\ ~Reliable(delivery.frame[1], reference)]

\* a variation is judged beside the original of its own repetition
ProbeTrial(baseline, delivery, surface) ==
    IF baseline.inconclusive THEN Skipped ELSE TrialOf(delivery, baseline.frame[1], surface)

Accepted(source) == {c \in DOMAIN source.cases : source.cases[c].passed}
BaselineTrials(source) ==
    [k \in DOMAIN source.baseline |->
        IF Accepted(source) = {} THEN Skipped
        ELSE TrialOf(source.baseline[k], source.reference, source.surface)]
CaseTrials(source, baseline, c) ==
    [k \in DOMAIN baseline |->
        ProbeTrial(baseline[k], source.cases[c].deliveries[k], source.surface)]

Stability(source, trials) ==
    TrialStability([k \in DOMAIN trials |-> IF trials[k].inconclusive THEN <<>>
                                            ELSE trials[k].frame],
                   source.reference, source.surface)

\* "reliable trials require unambiguous action grounding": the assertion that
\* the grouping makes of every conclusive trial, against the recorded outcome
Ungroupable(source, trials) ==
    /\ source.surface = "action"
    /\ \E k \in DOMAIN trials : /\ ~trials[k].inconclusive
                                /\ Unassociated(trials[k].frame[1], source.reference) # {}
Arms(source, baseline) ==
    {baseline} \cup {CaseTrials(source, baseline, c) : c \in Accepted(source)}
JudgingFails(source) ==
    \E trials \in Arms(source, BaselineTrials(source)) : Ungroupable(source, trials)

Differences(source, baseline, trials) ==
    CompareOutcomes(baseline[1].frame[1], trials[1].frame[1], source.reference, source.surface)

JudgedTrials(case, trials, original, variation, findings) ==
    [operator |-> case.operator,
     verdict |-> VerdictOf(original, variation, findings),
     trials |-> trials, stability |-> variation, findings |-> findings,
     materiality |-> IF findings # {} THEN case.materiality ELSE "none"]

\* differences are looked for only between two stable arms
RunCase(source, case, baseline, trials, original) ==
    LET variation == Stability(source, trials)
    IN JudgedTrials(case, trials, original, variation,
                    IF original = "stable" /\ variation = "stable"
                    THEN Differences(source, baseline, trials) ELSE {})

JudgedCase(source, baseline, original, c) ==
    IF ~source.cases[c].passed
    THEN [operator |-> source.cases[c].operator, verdict |-> "augmentation_rejected",
          trials |-> <<>>, stability |-> "none", findings |-> {}, materiality |-> "none"]
    ELSE RunCase(source, source.cases[c], baseline, CaseTrials(source, baseline, c), original)

JudgedResult(source, suite, baseline, original, cases) ==
    LET run == SelectSeq(cases, LAMBDA c : c.verdict # "augmentation_rejected")
    IN [source |-> source, baseline |-> baseline, stability |-> original, cases |-> cases,
        evaluation |-> IF suite = <<>> THEN <<>> ELSE EvaluateInvariants(suite[1], baseline, run)]

JudgedBaseline(source, suite, baseline) ==
    LET original == Stability(source, baseline)
    IN JudgedResult(source, suite, baseline, original,
                    [c \in DOMAIN source.cases |-> JudgedCase(source, baseline, original, c)])

Judged(source, suite) == JudgedBaseline(source, suite, BaselineTrials(source))

-----------------------------------------------------------------------------
(* Receipts: what is known of one execution, and on whose word.            *)

Pointer(kind, arm, repetition, authority, source, part) ==
    [kind |-> kind, arm |-> arm, repetition |-> repetition, authority |-> authority,
     source |-> source, part |-> part]

HasValue(state) == Found(state) /\ It(state).value.kind # "null"
StateProvenance(state) ==
    IF Found(state) /\ It(state).authority = "independent_observer"
    THEN <<It(state).observer, "independent_observer">>
    ELSE <<"environment", "environment_self_reported">>

Shown(observations) == {i \in DOMAIN observations : observations[i].content}
TraceRole(observation) ==
    IF observation.authority = "independent_observer" THEN "observer" ELSE "target"

(***************************************************************************)
(* What a receipt is built from: an execution, an output that came without *)
(* evidence, or nothing, for an execution that never happened.             *)
(***************************************************************************)
ExecutionValues(evidence) ==
    LET succeeded == evidence.terminal_status = "succeeded"
    IN [owner |-> "environment", authority |-> "source_self_reported",
        responded |-> evidence.response, available |-> succeeded /\ evidence.response,
        status |-> IF succeeded THEN "succeeded" ELSE "failed",
        lifecycle |-> TRUE,
        states |-> IF /\ evidence.scope = "response_and_state"
                      /\ HasValue(evidence.initial_state) /\ HasValue(evidence.final_state)
                   THEN <<StateProvenance(evidence.initial_state),
                          StateProvenance(evidence.final_state)>> ELSE <<>>,
        observers |-> {of \in {StateProvenance(evidence.initial_state),
                               StateProvenance(evidence.final_state)} :
                            of[2] = "independent_observer"},
        observations |-> evidence.observations, events |-> evidence.events]

UnattendedValues(responded, status) ==
    [owner |-> "invoker", authority |-> "invoker_self_reported", responded |-> responded,
     available |-> responded, status |-> status, lifecycle |-> FALSE, states |-> <<>>,
     observers |-> {}, observations |-> <<>>, events |-> 0]

ReceiptValues(trial) ==
    CASE Found(trial.evidence) -> ExecutionValues(It(trial.evidence))
      [] ~Found(trial.evidence) /\ Found(trial.output) -> UnattendedValues(TRUE, "unknown")
      [] ~Found(trial.evidence) /\ ~Found(trial.output) ->
            UnattendedValues(FALSE, "not_attempted")

\* claims: the <<kind, part>> of what the evaluator says of the execution;
\* rule: the definition it was held to, if any
ReceiptPointers(values, arm, repetition, claims, rule, history) ==
    LET point(kind, authority, source, what) ==
            Pointer(kind, arm, repetition, authority, source, what)
        shared(kind, what) ==
            Pointer(kind, "shared", repetition, "customer_declared", "customer", what)
        if(condition, pointer) == IF condition THEN {pointer} ELSE {}
        state(i, what) == IF values.states = <<>> THEN {}
                          ELSE {point("state", values.states[i][2], values.states[i][1], what)}
        observations == values.observations
    IN [input |-> point("input", "invoker_self_reported", "invoker", <<"input">>),
        response |-> if(values.responded,
                        point("response", values.authority, values.owner, <<"response">>)),
        historical |-> if(history, shared("response", <<"recorded">>)),
        lifecycle |-> if(values.lifecycle, point("lifecycle", "environment_self_reported",
                                                 values.owner, <<"lifecycle">>)),
        before |-> state(1, <<"initial_state">>),
        after |-> state(2, <<"final_state">>),
        traces |-> {point("trace", observations[i].authority, observations[i].source,
                          <<"observation", i>>) : i \in Shown(observations)}
                   \cup {point("trace", "invoker_self_reported", "invoker", <<"event", i>>) :
                            i \in 1 .. values.events},
        claim |-> {point(c[1], "deterministic_evaluator", "evaluator", c[2]) :
                        c \in Elements(claims)},
        definition |-> {shared("rule", <<"definition", r>>) : r \in Elements(rule)}]

Observed(values) == {values.observations[i] : i \in Shown(values.observations)}
ReceiptProvenance(values) ==
    {<<"customer", "customer">>, <<"environment", values.owner>>, <<"evaluator", "evaluator">>,
     <<"invoker", "invoker">>, <<"target", values.owner>>}
    \cup {<<"observer", of[1]>> : of \in values.observers}
    \cup {<<TraceRole(o), o.source>> : o \in Observed(values)}

TrajectoryStatus(values, traces) ==
    IF (\E o \in Observed(values) : o.status = "complete") \/ values.events > 0 THEN "complete"
    ELSE IF traces # {} THEN "incomplete" ELSE "unavailable"

ReceiptOf(values, arm, repetition, at) ==
    [arm |-> arm, repetition |-> repetition, available |-> values.available,
     scope |-> IF values.states = <<>> THEN "response_only" ELSE "response_and_state",
     input |-> at.input, response |-> at.response, historical |-> at.historical,
     before |-> at.before, after |-> at.after, traces |-> at.traces,
     claim |-> at.claim, definition |-> at.definition,
     lifecycle |-> [status |-> values.status, pointers |-> at.lifecycle,
                    limited |-> values.status # "succeeded"],
     trajectory |-> TrajectoryStatus(values, at.traces),
     \* the status that is read back from the retained observations
     retained |-> {o.status : o \in Observed(values)}
                     \cup (IF values.events > 0 THEN {"complete"} ELSE {}),
     provenance |-> ReceiptProvenance(values),
     limitations |-> {"model_provenance_unavailable", "redaction_accounting_unavailable"}
                     \cup (IF values.available THEN {} ELSE {"execution_unavailable"})
                     \cup (IF values.responded THEN {} ELSE {"response_missing"}),
     pointers |-> {at.input} \cup at.response \cup at.historical \cup at.lifecycle
                  \cup at.before \cup at.after \cup at.traces \cup at.claim
                  \cup at.definition]

ReceiptOfValues(values, arm, repetition, claims, rule, history) ==
    ReceiptOf(values, arm, repetition,
              ReceiptPointers(values, arm, repetition, claims, rule, history))
DatasetReceipt(trial, arm, repetition, claims, rule, history) ==
    ReceiptOfValues(ReceiptValues(trial), arm, repetition, claims, rule, history)

AuthorityRole ==
    [customer_declared |-> "customer", deterministic_evaluator |-> "evaluator",
     invoker_self_reported |-> "invoker", source_self_reported |-> "target",
     environment_self_reported |-> "environment", independent_observer |-> "observer"]

ReceiptAccepted(receipt, lucky) ==
    LET points(pointers, kind, arms) == \A p \in pointers : p.kind = kind /\ p.arm \in arms
        own == {receipt.arm, "shared"}
    IN /\ receipt.response = {} => "response_missing" \in receipt.limitations
       /\ points({receipt.input}, "input", own)
       /\ points(receipt.historical, "response", {"shared"})
       /\ points(receipt.response, "response", own)
       /\ points(receipt.before \cup receipt.after, "state", own)
       /\ points(receipt.lifecycle.pointers, "lifecycle", own)
       /\ points(receipt.traces, "trace", own)
       /\ IF receipt.scope = "response_only" THEN receipt.before \cup receipt.after = {}
          ELSE receipt.before # {} /\ receipt.after # {}
       /\ (receipt.lifecycle.status # "succeeded") = receipt.lifecycle.limited
       /\ receipt.lifecycle.status = "succeeded" => receipt.lifecycle.pointers # {}
       /\ (receipt.trajectory = "unavailable") = (receipt.traces = {})
       /\ Cardinality(receipt.traces) > 1 => lucky
       /\ \A p \in receipt.pointers :
            <<AuthorityRole[p.authority], p.source>> \in receipt.provenance

-----------------------------------------------------------------------------
(* The repetitions of a difference.                                        *)

ClaimKind(category) == IF category = "changed_response" THEN "response" ELSE "action"
Change(category) ==
    CASE category \in {"duplicate_effect", "unexpected_effect"} -> "added"
      [] category = "missing_effect" -> "removed"
      [] category \in {"changed_grounded_effect_argument", "changed_response"} -> "changed"

\* The findings are computed again from each pair of trials; the finding is
\* observed where one of them is the same to the field.
BehaviorOutcome(source, finding, original, probe) ==
    IF original.frame = <<>> \/ probe.frame = <<>> THEN "inconclusive"
    ELSE IF finding \in CompareOutcomes(original.frame[1], probe.frame[1],
                                        source.reference, source.surface)
    THEN "finding_observed" ELSE "finding_not_observed"

InvariantOutcome(original, probe) ==
    IF "not_evaluable" \in {original.status, probe.status} THEN "inconclusive"
    ELSE IF probe.status = "violated" THEN "finding_observed" ELSE "finding_not_observed"

Repetition(outcome, source, probe) ==
    [outcome |-> outcome, source |-> source, probe |-> probe,
     pointers |-> source.claim \cup probe.claim]

ObservedPointers(repetitions) ==
    UNION {repetitions[k].pointers :
            k \in {i \in DOMAIN repetitions : repetitions[i].outcome = "finding_observed"}}
OutcomeCount(repetitions, outcome) ==
    Cardinality({k \in DOMAIN repetitions : repetitions[k].outcome = outcome})

Summary(repetitions) ==
    LET observed == OutcomeCount(repetitions, "finding_observed")
        inconclusive == OutcomeCount(repetitions, "inconclusive")
        conclusive == Len(repetitions) - inconclusive
    IN [requested |-> Len(repetitions), conclusive |-> conclusive, observed |-> observed,
        inconclusive |-> inconclusive,
        reproducibility |-> CASE conclusive = 0 -> "not_established"
                              [] conclusive > 0 /\ observed = 0 -> "not_reproduced"
                              [] conclusive > 0 /\ observed = conclusive -> "reproduced"
                              [] OTHER -> "intermittent",
        stability |-> IF inconclusive > 0 THEN "inconclusive"
                      ELSE IF observed # conclusive THEN "unstable" ELSE "stable"]

-----------------------------------------------------------------------------
(* The cross-examination of the recorded response, the original and the    *)
(* variation.                                                              *)

States(receipt) == receipt.before \cup receipt.after
ArmPointers(fact, receipt) ==
    CASE fact = "response" -> receipt.response
      [] fact = "trajectory" -> receipt.traces
      [] fact = "committed_state" -> States(receipt)
Covers(fact, receipt) ==
    CASE fact = "response" -> receipt.response # {}
      [] fact = "trajectory" -> receipt.trajectory = "complete"
      [] fact = "committed_state" -> receipt.before # {} /\ receipt.after # {}

FactOfArm(fact, receipts) ==
    LET covered == Cardinality({k \in DOMAIN receipts : Covers(fact, receipts[k])})
        pointers == UNION {ArmPointers(fact, receipts[k]) : k \in DOMAIN receipts}
    IN [available |-> receipts # <<>> /\ covered = Len(receipts), covered |-> covered,
        authorities |-> {p.authority : p \in pointers}, pointers |-> pointers]

Facts == {"response", "trajectory", "committed_state"}
CrossExaminationArm(receipts, stability) ==
    [facts |-> [f \in Facts |-> FactOfArm(f, receipts)], requested |-> Len(receipts),
     observed |-> Cardinality({k \in DOMAIN receipts : receipts[k].available}),
     stability |-> stability]

BaselineDrift(judged) ==
    LET source == judged.source
    IN IF judged.stability # "stable" THEN "inconclusive"
       ELSE IF DriftFromSource(judged.baseline[1].frame[1], source.reference, source.surface) = {}
       THEN "not_observed" ELSE "observed"

CrossExamination(judged, case, sources, probes, material) ==
    LET stabilities == {judged.stability, case.stability}
    IN [historical |-> UNION {sources[k].historical : k \in DOMAIN sources},
        baseline |-> CrossExaminationArm(sources, judged.stability),
        variation |-> CrossExaminationArm(probes, case.stability),
        material |-> material, drift |-> BaselineDrift(judged),
        sensitivity |-> IF stabilities # {"stable"} THEN "inconclusive" ELSE "observed",
        instability |-> IF "inconclusive" \in stabilities THEN "inconclusive"
                        ELSE IF "unstable" \in stabilities THEN "observed" ELSE "not_observed"]

CitedBy(cross) ==
    cross.historical \cup UNION {arm.facts[f].pointers : arm \in {cross.baseline, cross.variation},
                                                        f \in Facts}

-----------------------------------------------------------------------------
(* Packages.                                                               *)

Inputs(receipts) == {receipts[k].input : k \in DOMAIN receipts}
Definitions(receipts) == UNION {receipts[k].definition : k \in DOMAIN receipts}

PackageOf(kind, category, operator, delta, cross, rule, sources, probes, repetitions, summary) ==
    LET definition == IF rule = <<>> THEN {} ELSE Definitions(sources)
        cited == IF cross = <<>> THEN {} ELSE CitedBy(cross[1])
    IN [kind |-> kind, category |-> category, operator |-> operator,
        change |-> [source |-> Inputs(sources), probe |-> Inputs(probes)],
        delta |-> delta, cross |-> cross, rule |-> rule, definition |-> definition,
        pointers |-> Inputs(sources) \cup Inputs(probes) \cup definition \cup cited
                     \cup delta.pointers
                     \cup UNION {repetitions[k].pointers : k \in DOMAIN repetitions},
        repetitions |-> repetitions, summary |-> summary,
        limitations |-> {"production_prevalence_not_measured"}
            \cup (IF kind = "behavior_difference" THEN {"correctness_not_verified"} ELSE {})
            \cup (IF summary.inconclusive > 0 THEN {"one_or_more_repetitions_inconclusive"}
                  ELSE {})
            \cup (IF \E k \in DOMAIN sources : ~sources[k].available
                  THEN {"source_execution_unavailable"} ELSE {}),
        sources |-> sources, probes |-> probes]

Package(kind, category, operator, delta, cross, rule, sources, probes, repetitions) ==
    PackageOf(kind, category, operator, delta, cross, rule, sources, probes, repetitions,
              Summary(repetitions))

BehaviorDelta(category, pointers) ==
    LET observed(missing) == IF Change(category) = missing THEN "not_observed" ELSE "observed"
    IN [kind |-> ClaimKind(category), change |-> Change(category), rule |-> <<>>,
        source_state |-> observed("added"), probe_state |-> observed("removed"),
        pointers |-> pointers]

BehaviorOfReceipts(judged, case, finding, sources, probes, repetitions) ==
    Package("behavior_difference", finding.category, case.operator,
            BehaviorDelta(finding.category, ObservedPointers(repetitions)),
            <<CrossExamination(judged, case, sources, probes, ObservedPointers(repetitions))>>,
            <<>>, sources, probes, repetitions)

BehaviorOfArms(judged, case, finding, sources, probes) ==
    BehaviorOfReceipts(judged, case, finding, sources, probes,
        [k \in DOMAIN case.trials |->
            Repetition(BehaviorOutcome(judged.source, finding, judged.baseline[k],
                                       case.trials[k]), sources[k], probes[k])])

\* adapt_dataset_behavior_finding, _build_behavior_package
BehaviorPackage(judged, c, finding) ==
    LET case == judged.cases[c]
        category == finding.category
        values(trial) == IF trial.frame = <<>> THEN <<>>
                         ELSE <<<<ClaimKind(category), <<"values">>>>>>
        sources == [k \in DOMAIN judged.baseline |->
            DatasetReceipt(judged.baseline[k], "source", k, values(judged.baseline[k]),
                           <<>>, k = 1)]
        probes == [k \in DOMAIN case.trials |->
            DatasetReceipt(case.trials[k], "probe", k, values(case.trials[k]), <<>>, FALSE)]
    IN BehaviorOfArms(judged, case, finding, sources, probes)

ArmOf(evaluation, operator) ==
    CHOOSE a \in DOMAIN evaluation : evaluation[a].operator = operator

ViolationDelta(original, repetitions) ==
    LET statuses == {original.trials[k].status : k \in {i \in DOMAIN repetitions :
                                        repetitions[i].outcome = "finding_observed"}}
    IN [kind |-> "rule", change |-> "violated", rule |-> <<original.rule.id>>,
        source_state |-> IF Cardinality(statuses) = 1
                         THEN CHOOSE s \in statuses : TRUE ELSE "unknown",
        probe_state |-> "violated", pointers |-> ObservedPointers(repetitions)]

InvariantOfReceipts(operator, original, sources, probes, repetitions) ==
    Package("customer_invariant_violation", "customer_invariant_violation", operator,
            ViolationDelta(original, repetitions), <<>>, <<original.rule.id>>, sources, probes,
            repetitions)

InvariantOfArms(operator, original, variation, sources, probes) ==
    InvariantOfReceipts(operator, original, sources, probes,
        [k \in DOMAIN variation.trials |->
            Repetition(InvariantOutcome(original.trials[k], variation.trials[k]),
                       sources[k], probes[k])])

\* adapt_dataset_invariant_finding, _build_invariant_package: of rule r
InvariantPackage(judged, c, r) ==
    LET case == judged.cases[c]
        evaluation == judged.evaluation
        arm == ArmOf(evaluation, case.operator)
        original == evaluation[1].rules[r]
        variation == evaluation[arm].rules[r]
        claim(a, k) == <<<<"rule", <<"trial", a, r, k>>>>>>
        sources == [k \in DOMAIN original.trials |->
            DatasetReceipt(judged.baseline[k], "source", k, claim(1, k),
                           IF k = 1 THEN <<original.rule.id>> ELSE <<>>, FALSE)]
        probes == [k \in DOMAIN variation.trials |->
            DatasetReceipt(case.trials[k], "probe", k, claim(arm, k), <<>>, FALSE)]
    IN InvariantOfArms(case.operator, original, variation, sources, probes)

\* the supplied evaluation must be what one rule evaluates to by itself
Recomputed(judged, c, r, authority) ==
    LET evaluation == judged.evaluation
        arm == ArmOf(evaluation, judged.cases[c].operator)
        rule == evaluation[1].rules[r].rule
    IN /\ EvaluateAlone(rule, judged.baseline, authority) = evaluation[1].rules[r]
       /\ EvaluateAlone(rule, judged.cases[c].trials, authority) = evaluation[arm].rules[r]

Actionable(case) == case.materiality \in {"none", "material_variance"}
Reproduced(judged, c) ==
    IF judged.evaluation = <<>> \/ judged.cases[c].trials = <<>> THEN {}
    ELSE ReproducedRules(judged.evaluation, ArmOf(judged.evaluation, judged.cases[c].operator))
RuleCause(rule) == Finding("customer_invariant_violation", <<>>, <<>>, {rule.id})

\* adapt_dataset_finding_packages: every package with what it is about
Packages(judged) ==
    LET behavior(c) == IF ~Actionable(judged.cases[c]) THEN {}
                       ELSE {[operator |-> judged.cases[c].operator, cause |-> f,
                              package |-> BehaviorPackage(judged, c, f)] :
                                    f \in judged.cases[c].findings}
        invariant(c) == {[operator |-> judged.cases[c].operator,
                          cause |-> RuleCause(judged.evaluation[1].rules[r].rule),
                          package |-> InvariantPackage(judged, c, r)] : r \in Reproduced(judged, c)}
    IN UNION {behavior(c) \cup invariant(c) : c \in DOMAIN judged.cases}

-----------------------------------------------------------------------------
(* The contract of a package.                                              *)

DeltaAccepted(delta) ==
    LET states == <<delta.source_state, delta.probe_state>>
    IN /\ Cardinality(delta.pointers) \in 1 .. MaximumDeltaPointers
       /\ (delta.kind = "rule") = (delta.rule # <<>>)
       /\ CASE delta.change = "added" -> states = <<"not_observed", "observed">>
            [] delta.change = "removed" -> states = <<"observed", "not_observed">>
            [] delta.change = "changed" -> states = <<"observed", "observed">>
            [] delta.change = "violated" -> delta.probe_state = "violated"

FactAccepted(fact, requested) ==
    /\ fact.covered <= requested
    /\ fact.available = (fact.covered = requested)
    /\ fact.available => fact.covered > 0 /\ fact.authorities # {} /\ fact.pointers # {}

ArmAccepted(arm) ==
    /\ arm.facts["response"].pointers # {}
    /\ arm.observed <= arm.requested
    /\ \A f \in Facts : FactAccepted(arm.facts[f], arm.requested)

CrossAccepted(cross) ==
    LET stabilities == {cross.baseline.stability, cross.variation.stability}
        incomplete == "inconclusive" \in stabilities
    IN /\ Cardinality(cross.historical) = 1
       /\ cross.material # {}
       /\ ArmAccepted(cross.baseline) /\ ArmAccepted(cross.variation)
       /\ cross.instability = (IF incomplete THEN "inconclusive"
                               ELSE IF "unstable" \in stabilities THEN "observed"
                               ELSE "not_observed")
       /\ cross.baseline.stability = "inconclusive" => cross.drift = "inconclusive"
       /\ stabilities # {"stable"} => cross.sensitivity = "inconclusive"

SummaryAccepted(summary, repetitions) ==
    LET expected == Summary(repetitions)
    IN /\ [summary EXCEPT !.stability = expected.stability] = expected
       /\ summary.conclusive = 0 => summary.stability = "inconclusive"
       /\ summary.reproducibility = "intermittent" => summary.stability = "unstable"

RequiredDelta(category) ==
    CASE category = "changed_response" -> <<"response", "changed">>
      [] category = "customer_invariant_violation" -> <<"rule", "violated">>
      [] OTHER -> <<"action", Change(category)>>

OccurrenceAccepted(package) ==
    LET behavior == package.kind = "behavior_difference"
    IN /\ behavior = (package.category # "customer_invariant_violation")
       /\ behavior = (package.rule = <<>>)
       /\ behavior = (package.definition = {})
       /\ behavior = (package.cross # <<>>)
       /\ package.pointers =
            package.change.source \cup package.change.probe \cup package.definition
            \cup package.delta.pointers
            \cup UNION {package.repetitions[k].pointers : k \in DOMAIN package.repetitions}
            \cup (IF behavior THEN CitedBy(package.cross[1]) \cup package.cross[1].material
                  ELSE {})
       /\ \A k \in DOMAIN package.repetitions :
            package.repetitions[k].outcome # "inconclusive" =>
                package.repetitions[k].pointers # {}
       /\ SummaryAccepted(package.summary, package.repetitions)
       /\ <<package.delta.kind, package.delta.change>> = RequiredDelta(package.category)
       /\ package.delta.rule = package.rule

ArmsOf(pointers) == {p.arm : p \in pointers}
Shows(change, category, arms) ==
    CASE category = "duplicate_effect" \/ change = "changed" -> {"source", "probe"} \subseteq arms
      [] change \in {"added", "violated"} /\ category # "duplicate_effect" -> "probe" \in arms
      [] change = "removed" -> "source" \in arms

DeltaKinds == [response |-> {"response"}, rule |-> {"rule"},
               action |-> {"action", "tool_call", "tool_result"}]
Evaluators == {"deterministic_evaluator", "independent_observer"}

SupportsCategory(package, repetition) ==
    LET delta == package.delta
        supporting == IF repetition.outcome = "finding_observed"
                      THEN delta.pointers \cap repetition.pointers
                      ELSE {p \in repetition.pointers \ delta.pointers :
                                p.kind \in DeltaKinds[delta.kind] /\ p.authority \in Evaluators}
    IN Shows(delta.change, package.category, ArmsOf(supporting))

EvidenceAccepted(package) ==
    LET delta == package.delta
        ofArm(fact, arm, kind, receipts) ==
            \A p \in arm.facts[fact].pointers : p.kind = kind /\ p.arm = receipts
    IN /\ \A p \in package.change.source : p.arm = "source" /\ p.kind = "input"
       /\ \A p \in package.change.probe : p.arm = "probe" /\ p.kind = "input"
       /\ \A p \in delta.pointers : p.kind \in DeltaKinds[delta.kind]
       /\ Shows(delta.change, package.category, ArmsOf(delta.pointers))
       /\ \A p \in package.definition : p.authority = "customer_declared"
       /\ package.rule # <<>> => \A p \in delta.pointers : p.authority \in Evaluators
       /\ package.cross # <<>> =>
            LET cross == package.cross[1]
            IN /\ \A p \in cross.historical : /\ p.kind = "response" /\ p.arm = "shared"
                                              /\ p.authority = "customer_declared"
               /\ cross.material \subseteq delta.pointers
               /\ \A arm \in {<<cross.baseline, "source">>, <<cross.variation, "probe">>} :
                    /\ ofArm("response", arm[1], "response", arm[2])
                    /\ ofArm("trajectory", arm[1], "trace", arm[2])
                    /\ ofArm("committed_state", arm[1], "state", arm[2])

\* the status of a trajectory as its retained observations tell it
RetainedTrajectory(receipt) ==
    IF "complete" \in receipt.retained THEN "complete"
    ELSE IF receipt.retained # {} THEN "incomplete" ELSE "unavailable"

AvailabilityAccepted(arm, receipts) ==
    \A f \in Facts : arm.facts[f] = FactOfArm(f, receipts)

PackageAccepted(package, lucky) ==
    LET all == package.sources \o package.probes
        covered == UNION {all[i].pointers : i \in DOMAIN all}
        pair(k) == package.sources[k].pointers \cup package.probes[k].pointers
        observed == ObservedPointers(package.repetitions)
    IN /\ DeltaAccepted(package.delta)
       /\ package.cross # <<>> => CrossAccepted(package.cross[1])
       /\ OccurrenceAccepted(package)
       /\ \A i \in DOMAIN all : /\ ReceiptAccepted(all[i], lucky)
                                /\ all[i].trajectory = RetainedTrajectory(all[i])
       /\ UNION {all[i].historical : i \in DOMAIN all} =
            (IF package.cross = <<>> THEN {} ELSE package.cross[1].historical)
       /\ \A i, j \in DOMAIN all : i # j => all[i].pointers \cap all[j].pointers = {}
       /\ package.pointers \subseteq covered
       /\ \A k \in DOMAIN package.repetitions :
            /\ package.sources[k].arm = "source" /\ package.sources[k].repetition = k
            /\ package.probes[k].arm = "probe" /\ package.probes[k].repetition = k
            /\ package.repetitions[k].pointers \subseteq pair(k)
            /\ package.repetitions[k].outcome # "inconclusive" =>
                    SupportsCategory(package, package.repetitions[k])
       /\ package.delta.pointers \subseteq observed
       /\ EvidenceAccepted(package)
       /\ package.cross # <<>> =>
            /\ AvailabilityAccepted(package.cross[1].baseline, package.sources)
            /\ AvailabilityAccepted(package.cross[1].variation, package.probes)

(* Mutant: an occurrence is named by its difference alone.                 *)
OccurrenceNameOfDifference(package) == [category |-> package.category, rule |-> package.rule]

(***************************************************************************)
(* The name of an occurrence is a hash of what it claims: what only the    *)
(* cause tells apart, it does not tell apart.                              *)
(***************************************************************************)
OccurrenceName(package) ==
    [category |-> package.category, operator |-> package.operator, rule |-> package.rule,
     delta |-> package.delta, pointers |-> package.pointers, repetitions |->
        [k \in DOMAIN package.repetitions |-> package.repetitions[k].outcome]]
=============================================================================
