----------------------------- MODULE EvidenceForm -----------------------------
(***************************************************************************)
(* What a judged source looks like, whatever judged it.  It has the trials *)
(* of its baseline, and of every variation a case with a verdict, what     *)
(* differs, and how material that is; with rules, it has an evaluation: an *)
(* arm for the baseline and one for every variation that was run, in each  *)
(* what every rule says of every trial.  How they come about is defined in *)
(* DatasetInvariants, ActionOutcomes and FindingPackages, what is reported *)
(* of them in EvidenceReports.                                             *)
(*                                                                         *)
(* Something optional is a sequence of at most one element.                *)
(***************************************************************************)
EXTENDS Integers, Sequences, FiniteSets

Elements(s) == {s[i] : i \in DOMAIN s}
Found(x) == x # <<>>
It(x) == x[1]

\* the sorted keys of a frame, as a bag
BagOf(keys) ==
    {<<keys[i], Cardinality({j \in DOMAIN keys : keys[j] = keys[i]})>> : i \in DOMAIN keys}
-----------------------------------------------------------------------------
(* Verdicts and statuses.                                                  *)

VerdictOf(original, variation, findings) ==
    IF original # "stable" \/ variation = "inconclusive" THEN "inconclusive"
    ELSE IF variation = "unstable" \/ findings # {} THEN "divergence_needs_review"
    ELSE "no_divergence"

Baseline == "baseline"

AggregateStatus(trials) ==
    LET statuses == {trials[i].status : i \in DOMAIN trials}
    IN IF "violated" \in statuses THEN <<"violated", "one_or_more_trials_violated">>
       ELSE IF "not_evaluable" \in statuses
       THEN <<"not_evaluable", "one_or_more_trials_not_evaluable">>
       ELSE <<"satisfied", "all_trials_satisfied">>

ReproducedDifference(baseline, variation) ==
    /\ baseline.rule.id = variation.rule.id /\ baseline.rule.type = variation.rule.type
    /\ Len(baseline.trials) = Len(variation.trials) /\ baseline.trials # <<>>
    /\ \A i \in DOMAIN baseline.trials : baseline.trials[i].status = "satisfied"
    /\ \A i \in DOMAIN variation.trials : variation.trials[i].status = "violated"

\* the positions of the rules that arm violates where the baseline keeps them
ReproducedRules(evaluation, arm) ==
    {k \in DOMAIN evaluation[1].rules :
        ReproducedDifference(evaluation[1].rules[k], evaluation[arm].rules[k])}

-----------------------------------------------------------------------------
(***************************************************************************)
(* What can be relied on.  A trial is conclusive or not, and an arm is     *)
(* inconclusive when one of its trials is.  Differences are found between  *)
(* two stable arms only, and are what materiality is about.  A repetition  *)
(* of a variation is conclusive only beside one of the baseline.           *)
(***************************************************************************)
Stabilities == {"stable", "unstable", "inconclusive"}
Materialities == {"none", "material_variance", "operationally_equivalent",
                  "insufficient_evidence"}
DifferenceCategories == {"missing_effect", "duplicate_effect", "unexpected_effect",
                         "changed_grounded_effect_argument", "changed_response"}

IsSequence(s) == Len(s) \in Nat /\ DOMAIN s = 1 .. Len(s)

WasRun(judged, case) ==
    /\ IsSequence(case.trials) /\ Len(case.trials) > 0
    /\ case.stability \in Stabilities
    /\ (case.stability = "inconclusive")
         = (\E k \in DOMAIN case.trials : case.trials[k].inconclusive)
    /\ judged.stability = "inconclusive" => case.stability = "inconclusive"
    /\ case.verdict = VerdictOf(judged.stability, case.stability, case.findings)
    /\ case.findings # {} => judged.stability = "stable" /\ case.stability = "stable"
WasRejected(case) ==
    /\ case.verdict = "augmentation_rejected" /\ case.stability = "none"
    /\ case.trials = <<>> /\ case.findings = {}

CaseIsJudged(judged, case) ==
    /\ WasRun(judged, case) \/ WasRejected(case)
    /\ case.operator # Baseline
    /\ case.materiality \in Materialities
    /\ case.findings = {} => case.materiality = "none"
    /\ IsFiniteSet(case.findings)
    /\ \A f \in case.findings : f.category \in DifferenceCategories

RuleIsEvaluated(result) ==
    /\ IsSequence(result.trials) /\ Len(result.trials) > 0
    /\ \A k \in DOMAIN result.trials :
            result.trials[k].status \in {"satisfied", "violated", "not_evaluable"}
    /\ result.status = AggregateStatus(result.trials)[1]
ArmIsEvaluated(judged, arm) ==
    /\ arm.operator # Baseline => \E c \in DOMAIN judged.cases :
            judged.cases[c].operator = arm.operator /\ judged.cases[c].trials # <<>>
    /\ IsSequence(arm.rules)
    /\ \A r, q \in DOMAIN arm.rules : arm.rules[r].rule.id = arm.rules[q].rule.id => r = q
    /\ \A r \in DOMAIN arm.rules : RuleIsEvaluated(arm.rules[r])

IsJudged(judged) ==
    /\ judged.stability \in Stabilities
    /\ IsSequence(judged.cases)
    /\ \A c, d \in DOMAIN judged.cases :
            judged.cases[c].operator = judged.cases[d].operator => c = d
    /\ \A c \in DOMAIN judged.cases : CaseIsJudged(judged, judged.cases[c])
    /\ IsSequence(judged.evaluation)
    /\ \A a, b \in DOMAIN judged.evaluation :
            judged.evaluation[a].operator = judged.evaluation[b].operator => a = b
    /\ \A a \in DOMAIN judged.evaluation :
            /\ (judged.evaluation[a].operator = Baseline) = (a = 1)
            /\ ArmIsEvaluated(judged, judged.evaluation[a])
=============================================================================
