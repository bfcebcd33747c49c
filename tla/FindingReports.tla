---------------------------- MODULE FindingReports ----------------------------
(***************************************************************************)
(* The campaigns of CampaignReports, with what FindingPackages judges      *)
(* their sources to be and packages of their differences: the findings     *)
(* file, and how it and the record of the evidence are read back           *)
(* (reporting.py, report.py, report_contract.py).                          *)
(***************************************************************************)
EXTENDS EvidenceRecords, CampaignReports

Exits == {"none", "0", "1", "2", "130", "crash", "killed", "refused"}

-----------------------------------------------------------------------------
(* The findings file.                                                      *)

LinesOfPackages(lines) ==
    UNION {{[line |-> k, operator |-> p.operator, cause |-> p.cause, package |-> p.package] :
                p \in Packages(lines[k][1])} : k \in Prepared(lines)}

Buildable(line, lines, suite, luck) ==
    /\ PackageAccepted(line.package, luck = "lucky")
    /\ line.package.kind = "customer_invariant_violation" =>
        LET judged == lines[line.line][1]
            c == CHOOSE c \in DOMAIN judged.cases : judged.cases[c].operator = line.operator
            r == CHOOSE r \in DOMAIN judged.evaluation[1].rules :
                    line.package.rule = <<judged.evaluation[1].rules[r].rule.id>>
        IN Recomputed(judged, c, r, suite[1].authority)

\* `ul dataset review` wants a finding that the report names.
Reviewable(lines, judgments) == {f.name[1] : f \in Named(Summaries(lines, judgments))}

\* `ul report <findings>`: a name may be used once, and something must be there
FindingsReadable ==
    LET lines == snapshot[1].lines
    IN /\ lines # {}
       /\ \A l, m \in lines :
            l.line = m.line /\ OccurrenceName(l.package) = OccurrenceName(m.package) => l = m
       /\ \A l \in lines : PackageAccepted(l.package, snapshot[1].key = "lucky")
FindingsReport == DecisionReport({l.package : l \in snapshot[1].lines})

TypeOK ==
    /\ RunTypeOK
    /\ exit \in Exits

-----------------------------------------------------------------------------
(* Properties.                                                             *)

\* What was evaluated is what its validators accept when it is read back, and
\* a rule that is reported as newly violated evaluates to the same by itself,
\* with a budget of its own.
RulesAreRecomputed(judged) ==
    judged.evaluation # <<>> =>
        /\ EvaluationAccepted(judged.evaluation)
        /\ \A c \in DOMAIN judged.cases : \A r \in Reproduced(judged, c) :
                Recomputed(judged, c, r, campaign.suite[1].authority)

\* The record that is written of a source is one that can be read back, with
\* the very rules that were declared, and it asks for a review of the cases
\* whose verdict does.
RecordIsRead(judged) ==
    /\ RecordAccepted(judged, campaign.suite)
    /\ \A case \in Elements(judged.cases) :
        (CaseStatus(judged, case) \in AsksForReview) = (case.verdict = "divergence_needs_review")

\* What a campaign makes of its sources is accepted by everything that reads it.
EvaluationsAreSound ==
    \A j \in Results(evidence) : RulesAreRecomputed(j) /\ (stage = "idle" => RecordIsRead(j))

\* The verdict on two stable arms does not depend on the repetitions that
\* stand for them: either any two of them differ or none do.  They differ in
\* the same ways, too, unless the original repeats an action that the
\* variation does once: then its complete records are compared, and the
\* repetitions of the variation were grouped by their grounded part alone.
Categories(findings) == {f.category : f \in findings}
DoneOnce(judged, case) ==
    \E p \in Predicates(judged.baseline[1].frame[1]) :
        /\ Repeated(judged.baseline[1].frame[1], p)
        /\ Cardinality(OfPredicate(case.trials[1].frame[1], p)) = 1
RepetitionsAgree ==
    \A j \in Results(evidence) : \A c \in DOMAIN j.cases :
        LET case == j.cases[c]
        IN j.stability = "stable" /\ case.stability = "stable" =>
            \A k, l \in DOMAIN j.baseline :
                LET findings == CompareOutcomes(j.baseline[k].frame[1], case.trials[l].frame[1],
                                                j.source.reference, j.source.surface)
                IN /\ (findings = {}) = (case.findings = {})
                   /\ \/ Categories(findings) = Categories(case.findings)
                      \/ DoneOnce(j, case)

\* Judging fails only where several actions of a kind were recorded: then one
\* of the variation may fit what the original did and not what was recorded.
JudgingFailsOnlyOnSeveralActions ==
    exit = "crash" => LET source == campaign.sources[Len(evidence) + 1]
                      IN \E p \in Predicates(source.reference) : Repeated(source.reference, p)

\* A package is refused for two reasons only: two traces of one execution whose
\* hashes are not in order, or more repetitions than a difference may cite.
SeveralTraces(package) ==
    \E k \in DOMAIN package.sources : \/ Cardinality(package.sources[k].traces) > 1
                                      \/ Cardinality(package.probes[k].traces) > 1
PackagesAreBuilt ==
    key \in {"lucky", "unlucky"} => \A line \in LinesOfPackages(evidence) :
        ~Buildable(line, evidence, campaign.suite, key) =>
            \/ key = "unlucky" /\ SeveralTraces(line.package)
            \/ Cardinality(line.package.delta.pointers) > MaximumDeltaPointers

\* Every actionable difference of two stable arms has its package, which the
\* first repetition shows; it is called intermittent only where what was done
\* differs between repetitions in what is not grounded.
Vary(trials) == \E k, l \in DOMAIN trials : All(trials[k].frame[1]) # All(trials[l].frame[1])
PackagesShowTheDifference ==
    \A line \in LinesOfPackages(evidence) : line.package.kind = "behavior_difference" =>
        LET judged == evidence[line.line][1]
            case == CHOOSE case \in Elements(judged.cases) : case.operator = line.operator
        IN /\ line.package.repetitions[1].outcome = "finding_observed"
           /\ line.package.summary.inconclusive = 0
           /\ line.package.summary.stability # "stable" =>
                    Vary(judged.baseline) \/ Vary(case.trials)

\* A findings file that was written can be reported, unless it is empty or two
\* findings of one case are of the same category.
Twins(lines) == \E l, m \in lines : /\ l # m /\ l.line = m.line /\ l.operator = m.operator
                                    /\ l.cause.category = m.cause.category
                                    /\ l.package.kind = "behavior_difference"
FindingsAreReadable ==
    snapshot # <<>> => \/ FindingsReadable
                       \/ snapshot[1].lines = {}
                       \/ Twins(snapshot[1].lines)

\* The record and the package of a difference say the same of its two arms.
\* Only of a captured state that is null does the record have evidence where
\* the package has none.
NullState(trials) ==
    \E k \in DOMAIN trials : \E s \in Elements(StatesOf(trials[k])) : s.value.kind = "null"
ArmsAreDescribedAlike(cross, summary, case, judged) ==
    /\ cross.drift = summary.drift /\ cross.sensitivity = summary.sensitivity
    /\ cross.instability = summary.instability
    /\ \A f \in Facts :
        LET available == cross.baseline.facts[f].available /\ cross.variation.facts[f].available
        IN available # summary.facts[f].conclusion =>
            /\ f = "committed_state" /\ ~available
            /\ NullState(judged.baseline) \/ NullState(case.trials)
RecordsAndPackagesAgree ==
    \A line \in LinesOfPackages(evidence) : line.package.kind = "behavior_difference" =>
        LET judged == evidence[line.line][1]
            case == CHOOSE case \in Elements(judged.cases) : case.operator = line.operator
        IN ArmsAreDescribedAlike(line.package.cross[1], CrossSummary(judged, case), case, judged)

\* The decisions on a findings file that can be read are what their contract
\* accepts: every claim cites something.
DecisionsAreMade ==
    snapshot # <<>> /\ FindingsReadable => DecisionReportAccepted(FindingsReport)

\* A findings file that is not empty makes the run, the report on the evidence
\* and the report on the file demand action, but for a run where a rule could not
\* be evaluated.
PackagesAreReported ==
    Complete /\ LinesOfPackages(evidence) # {} =>
        /\ ReportOn(evidence, <<>>).exit = "1"
        /\ CampaignExit(evidence) = "1" \/ UnevaluableRules
        /\ snapshot # <<>> => FindingsReport.exit = "1"

\* What the repetitions of an arm are grouped by carries the verdict.
VerdictsAreStable == RepetitionsAgree /\ JudgingFailsOnlyOnSeveralActions

\* The findings file: every difference of the evidence gets its package, which
\* shows it as the record does, is read back, and can be decided on.
FindingsFileIsSound ==
    /\ TypeOK /\ SnapshotIsTheEvidence
    /\ PackagesAreBuilt /\ PackagesShowTheDifference /\ FindingsAreReadable
    /\ stage = "idle" => RecordsAndPackagesAgree /\ DecisionsAreMade /\ PackagesAreReported
=============================================================================
