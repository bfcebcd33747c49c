---------------------------- MODULE EvidenceReports ----------------------------
(***************************************************************************)
(* What is shown of the evidence: the summary of `ul report` with its      *)
(* patterns, the headline and the sections of `ul dataset report`          *)
(* (dataset_review.py), what the contract of a report accepts              *)
(* (report_contract.py), and the exit codes of the run itself              *)
(* (presentation/evaluation.py).                                           *)
(*                                                                         *)
(* lines: the evidence, each line what was judged of a source, or nothing  *)
(* when it could not be prepared.  reviews: the review in force of every   *)
(* finding that has one, [status, severity]; ReviewStore tells how they    *)
(* come about.  A finding is named by a hash of what it is about; here the *)
(* name is the record of what is hashed.                                   *)
(***************************************************************************)
EXTENDS EvidenceForm

CONSTANT MaximumPatternEffects  \* _MAXIMUM_PATTERN_EFFECTS

ASSUME PatternLimitIsNat == MaximumPatternEffects \in Nat

-----------------------------------------------------------------------------
(* The findings of `ul report`.                                            *)

Bare(effects) == BagOf([i \in DOMAIN effects |-> [predicate |-> effects[i].predicate,
                                                  fields |-> effects[i].fields]])
Identity(finding) ==
    IF finding.category = "changed_response"
    THEN <<finding.category, finding.names>>
    ELSE <<finding.category, finding.names, Bare(finding.expected), Bare(finding.observed)>>

\* findings of one identity are counted off; here each keeps what it is
BehaviorName(k, case, finding) ==
    LET alike == {f \in case.findings : Identity(f) = Identity(finding)}
    IN [line |-> k, operator |-> case.operator, identity |-> Identity(finding),
        ordinal |-> IF alike = {finding} THEN <<>> ELSE <<finding>>]
RuleName(k, operator, rule) ==
    [line |-> k, operator |-> operator, identity |-> <<"rule", rule.id>>, ordinal |-> <<>>]

\* which pattern a finding may belong to; none when it has too many effects
Shapes(effects) == BagOf([i \in DOMAIN effects |-> [predicate |-> effects[i].predicate,
                                                    names |-> DOMAIN effects[i].fields]])
Mechanism(finding) ==
    IF \/ Len(finding.expected) > MaximumPatternEffects
       \/ Len(finding.observed) > MaximumPatternEffects
    THEN <<>>
    ELSE <<<<finding.category, finding.names, Shapes(finding.expected),
             Shapes(finding.observed)>>>>

\* _effective_finding_status
FindingStatus(case) ==
    CASE case.materiality \in {"none", "material_variance"} -> "needs_review"
      [] case.materiality = "operationally_equivalent" -> "expected"
      [] case.materiality = "insufficient_evidence" -> "inconclusive"
Effective(name, automatic, reviews) ==
    IF name \in DOMAIN reviews THEN reviews[name] ELSE [status |-> automatic, severity |-> "unrated"]
Unreviewed == [status |-> "unreviewed", severity |-> "none"]

ModelDerived == {"model_derived_unverified"}
Deterministic == {"customer_declared", "deterministic_evaluator"}

FindingSummary(name, category, at, rule, review, repetitions, stability, authorities, mechanism) ==
    [name |-> name, category |-> category, at |-> at, rule |-> rule, status |-> review.status,
     severity |-> review.severity, requested |-> repetitions[1], conclusive |-> repetitions[2],
     inconclusive |-> repetitions[3], stability |-> stability, authorities |-> authorities,
     mechanism |-> mechanism]

RunSummary(trials, stability) ==
    LET inconclusive == Cardinality({k \in DOMAIN trials : trials[k].inconclusive})
    IN [requested |-> Len(trials), observed |-> Len(trials) - inconclusive,
        inconclusive |-> inconclusive,
        stability |-> IF trials = <<>> THEN "inconclusive" ELSE stability]

CaseRepetitions(case) ==
    LET run == RunSummary(case.trials, case.stability)
    IN <<run.requested, run.observed, run.inconclusive>>

BehaviorSummary(k, case, finding, reviews) ==
    LET name == BehaviorName(k, case, finding)
    IN FindingSummary(<<name>>, finding.category, <<k, case.operator>>, <<>>,
                      Effective(name, FindingStatus(case), reviews), CaseRepetitions(case),
                      case.stability, ModelDerived, Mechanism(finding))

\* an unstable variation is reported though it has no finding of its own
UnstableSummary(k, case) ==
    FindingSummary(<<>>, "unstable_behavior", <<k, case.operator>>, <<>>, Unreviewed,
                   CaseRepetitions(case), case.stability, {}, <<>>)

RuleRepetitions(result) ==
    LET unknown == Cardinality({i \in DOMAIN result.trials :
                                    result.trials[i].status = "not_evaluable"})
    IN <<Len(result.trials), Len(result.trials) - unknown, unknown>>
RuleStability(result) ==
    LET statuses == {result.trials[i].status : i \in DOMAIN result.trials}
    IN IF {"satisfied", "violated"} \subseteq statuses THEN "unstable"
       ELSE IF "not_evaluable" \in statuses THEN "inconclusive" ELSE "stable"

\* a violation that the variation brought about, in every repetition
ReproducedSummary(k, operator, result, reviews) ==
    LET name == RuleName(k, operator, result.rule)
    IN FindingSummary(<<name>>, "customer_invariant_violation", <<k, operator>>,
                      <<result.rule>>, Effective(name, "needs_review", reviews),
                      <<Len(result.trials), Len(result.trials), 0>>, "stable", Deterministic,
                      <<<<"rule", result.rule.id>>>>)

\* any other: of the original by itself, or of some repetitions
OtherViolation(k, operator, result) ==
    LET stability == RuleStability(result)
    IN FindingSummary(<<>>, "customer_invariant_violation", <<k, operator>>, <<result.rule>>,
                      IF operator # Baseline \/ stability # "stable"
                      THEN [status |-> "inconclusive", severity |-> "unrated"] ELSE Unreviewed,
                      RuleRepetitions(result), stability, {}, <<>>)

RuleSummaries(k, evaluation, reviews) ==
    UNION {{IF a # 1 /\ r \in ReproducedRules(evaluation, a)
            THEN ReproducedSummary(k, evaluation[a].operator, evaluation[a].rules[r], reviews)
            ELSE OtherViolation(k, evaluation[a].operator, evaluation[a].rules[r]) :
                r \in {r \in DOMAIN evaluation[a].rules :
                            evaluation[a].rules[r].status = "violated"}} :
                a \in DOMAIN evaluation}

CaseSummaries(k, case, reviews) ==
    IF case.findings = {} /\ case.stability = "unstable" THEN {UnstableSummary(k, case)}
    ELSE {BehaviorSummary(k, case, f, reviews) : f \in case.findings}

SummariesOf(k, judged, reviews) ==
    (UNION {CaseSummaries(k, c, reviews) : c \in Elements(judged.cases)})
    \cup RuleSummaries(k, judged.evaluation, reviews)

Prepared(lines) == {k \in DOMAIN lines : lines[k] # <<>>}
Summaries(lines, reviews) ==
    UNION {SummariesOf(k, lines[k][1], reviews) : k \in Prepared(lines)}
Named(findings) == {f \in findings : f.name # <<>>}

FindingSummaryAccepted(finding) ==
    /\ (finding.status = "unreviewed") = (finding.severity = "none")
    /\ finding.status \notin {"unreviewed", "confirmed"} => finding.severity = "unrated"
    /\ finding.conclusive + finding.inconclusive = finding.requested
    /\ finding.requested >= 1
    /\ (finding.category = "customer_invariant_violation") = (finding.rule # <<>>)

-----------------------------------------------------------------------------
(* Patterns: findings of one mechanism that are reviewed alike.            *)

SeverityRank == [none |-> 0, unrated |-> 0, low |-> 1, medium |-> 2, high |-> 3, critical |-> 4]
EffectiveSeverity(finding) ==
    IF finding.status = "confirmed" THEN finding.severity
    ELSE IF finding.rule # <<>> THEN finding.rule[1].severity ELSE "unrated"
Gravest(findings) ==
    CHOOSE s \in {EffectiveSeverity(f) : f \in findings} :
        \A f \in findings : SeverityRank[EffectiveSeverity(f)] <= SeverityRank[s]

\* _build_failure_patterns: what its members share
Facets(finding) ==
    [mechanism |-> finding.mechanism, category |-> finding.category,
     rule |-> [i \in DOMAIN finding.rule |-> finding.rule[i].id],
     stability |-> finding.stability, authorities |-> finding.authorities]
GroupingKey(finding) == <<Facets(finding), finding.status, finding.severity>>

EvidenceLevel(category, authorities) ==
    LET what == IF category \in {"unstable_behavior", "changed_response"} THEN "outcome"
                ELSE "action"
    IN IF category = "customer_invariant_violation" THEN <<"rule", "evaluated">>
       ELSE <<what, IF ModelDerived \subseteq authorities THEN "model_derived" ELSE "observed">>

ReviewStatuses == {"needs_review", "confirmed", "expected", "unsupported", "inconclusive"}
CountOf(findings, status) == Cardinality({f \in findings : f.status = status})
Counts(findings) == [s \in ReviewStatuses |-> CountOf(findings, s)]

PatternOf(members) ==
    LET first == CHOOSE f \in members : TRUE
    IN [facets |-> Facets(first), severity |-> Gravest(members),
        level |-> EvidenceLevel(first.category, first.authorities),
        count |-> Cardinality(members), sources |-> Cardinality({f.at[1] : f \in members}),
        counts |-> Counts(members),
        members |-> {[name |-> f.name[1], status |-> f.status, severity |-> f.severity] :
                        f \in members}]

Patterns(findings) ==
    LET grouped == {f \in Named(findings) : f.mechanism # <<>>}
    IN {PatternOf({f \in grouped : GroupingKey(f) = key}) : key \in {GroupingKey(f) : f \in grouped}}

(***************************************************************************)
(* FailurePattern.validate_pattern: the counts and the level of a pattern  *)
(* follow from its members and its category.                               *)
(***************************************************************************)
PatternAccepted(pattern) ==
    LET category == pattern.facets.category
        total == pattern.counts["needs_review"] + pattern.counts["confirmed"]
                    + pattern.counts["expected"] + pattern.counts["unsupported"]
                    + pattern.counts["inconclusive"]
        subject == CASE category = "customer_invariant_violation" -> "rule"
                     [] category = "changed_response" -> "outcome"
                     [] OTHER -> "action"
    IN /\ pattern.count = Cardinality({m.name : m \in pattern.members})
       /\ pattern.sources <= pattern.count
       /\ total = pattern.count
       /\ \A s \in ReviewStatuses :
            pattern.counts[s] = Cardinality({m \in pattern.members : m.status = s})
       /\ pattern.facets.authorities # {}
       /\ pattern.level[1] = subject
       /\ (pattern.level[2] = "model_derived") = (ModelDerived \subseteq pattern.facets.authorities)
       /\ \A m \in pattern.members : m.status # "confirmed" => m.severity = "unrated"

-----------------------------------------------------------------------------
(* The report of `ul report`.                                              *)

\* _dataset_evidence_is_inconclusive
InconclusiveEvidence(lines) ==
    LET judged == {lines[k][1] : k \in Prepared(lines)}
    IN \/ \E j \in judged : \/ j.stability # "stable"
                            \/ \E c \in DOMAIN j.cases : j.cases[c].verdict = "inconclusive"
       \/ \A j \in judged : \A c \in DOMAIN j.cases : j.cases[c].trials = <<>>

RuleStatuses(judged) ==
    UNION {{judged.evaluation[a].rules[r].status : r \in DOMAIN judged.evaluation[a].rules} :
                a \in DOMAIN judged.evaluation}

Actions == {"unreviewed", "needs_review", "confirmed"}
Actionables(findings) == {f \in findings : f.status \in Actions}

ReportOf(lines, findings) ==
    LET unresolved == \/ Prepared(lines) # DOMAIN lines
                      \/ CountOf(findings, "inconclusive") > 0
                      \/ \E k \in Prepared(lines) : "not_evaluable" \in RuleStatuses(lines[k][1])
                      \/ InconclusiveEvidence(lines)
    IN [findings |-> findings, patterns |-> Patterns(findings), counts |-> Counts(findings),
        exit |-> IF Actionables(findings) # {} THEN "1" ELSE IF unresolved THEN "2" ELSE "0"]
ReportOn(lines, reviews) == ReportOf(lines, Summaries(lines, reviews))

\* UnifiedReport.validate_report
ReportAccepted(report) ==
    LET named == Named(report.findings)
        of(pattern) == {f \in named : f.name[1] \in {m.name : m \in pattern.members}}
    IN /\ \A f, g \in named : f.name = g.name => f = g
       /\ \A f \in report.findings : FindingSummaryAccepted(f)
       /\ \A p \in report.patterns :
            /\ PatternAccepted(p)
            /\ Cardinality(of(p)) = p.count
            /\ \A f \in of(p) :
                /\ Facets(f) = p.facets
                /\ [name |-> f.name[1], status |-> f.status, severity |-> f.severity] \in p.members
            /\ p.severity = Gravest(of(p))
       /\ \A p, q \in report.patterns : p # q => of(p) \cap of(q) = {}
       /\ report.counts = Counts(report.findings)
       /\ report.exit = "0" =>
            Actionables(report.findings) = {} /\ report.counts["inconclusive"] = 0
       /\ report.exit = "1" => Actionables(report.findings) # {}

-----------------------------------------------------------------------------
(* The headline and the sections of `ul dataset report`.                   *)

\* _dataset_case_report_bucket
Bucket(case) ==
    CASE case.verdict = "augmentation_rejected" -> "not_evaluated"
      [] case.trials # <<>> /\ case.materiality = "material_variance" -> "consequential"
      [] case.trials # <<>> /\ case.materiality = "operationally_equivalent" -> "equivalent"
      [] case.trials # <<>> /\ case.materiality = "insufficient_evidence" -> "inconclusive"
      [] case.trials # <<>> /\ case.materiality = "none" ->
            IF case.stability = "unstable" THEN "unstable"
            ELSE IF case.verdict = "inconclusive" THEN "inconclusive"
            ELSE IF case.findings # {} THEN "unclassified" ELSE "no_difference"

CasesOf(lines) == UNION {{<<k, c>> : c \in Elements(lines[k][1].cases)} : k \in Prepared(lines)}
StatusesAt(findings, at) ==
    {f.status : f \in {f \in Named(findings) : f.at = <<at[1], at[2].operator>>}}

ConsequentialCase(findings, at) ==
    LET statuses == StatusesAt(findings, at)
    IN IF statuses = {} THEN Bucket(at[2]) \in {"consequential", "unstable"}
       ELSE statuses \cap {"confirmed", "needs_review"} # {}
UnresolvedCase(findings, at) ==
    LET statuses == StatusesAt(findings, at)
    IN IF statuses = {} THEN Bucket(at[2]) \in {"inconclusive", "unclassified"}
       ELSE ~ConsequentialCase(findings, at) /\ "inconclusive" \in statuses

Headline(lines, findings) ==
    LET cases == CasesOf(lines)
    IN IF \E at \in cases : ConsequentialCase(findings, at) THEN "action_required"
       ELSE IF \/ Prepared(lines) # DOMAIN lines
               \/ \E at \in cases : UnresolvedCase(findings, at)
               \/ cases # {} /\ \A at \in cases : Bucket(at[2]) = "not_evaluated"
       THEN "inconclusive" ELSE "clear"

Section(finding, materiality) ==
    CASE finding.status = "inconclusive" -> "inconclusive"
      [] finding.status \in {"expected", "unsupported"} -> "resolved"
      [] finding.status = "confirmed" -> "consequential"
      [] finding.status = "needs_review" ->
            IF materiality = "material_variance" THEN "consequential" ELSE "needs_review"

\* the sections that have something in them, without --all-findings
Sections(lines, findings) ==
    LET cases == CasesOf(lines)
        of(at) == {f \in Named(findings) : f.at = <<at[1], at[2].operator>>}
        unrepresented(bucket) == \E at \in cases : Bucket(at[2]) = bucket /\ at[2].findings = {}
    IN ((UNION {{Section(f, at[2].materiality) : f \in of(at)} : at \in cases}) \ {"resolved"})
       \cup (IF unrepresented("unstable") THEN {"consequential"} ELSE {})
       \cup (IF unrepresented("inconclusive") THEN {"inconclusive"} ELSE {})

-----------------------------------------------------------------------------
(* The exit codes of a run.                                                *)

Results(lines) == {lines[k][1] : k \in Prepared(lines)}
SourceFailures(lines) == DOMAIN lines \ Prepared(lines)

CompletedComparison(case) == \E k \in DOMAIN case.trials : ~case.trials[k].inconclusive
Compared(judged) == \E c \in DOMAIN judged.cases : CompletedComparison(judged.cases[c])
Diverging(judged, materialities) ==
    \E c \in DOMAIN judged.cases : /\ judged.cases[c].verdict = "divergence_needs_review"
                                   /\ judged.cases[c].materiality \in materialities
NeedsReview(judged) == Diverging(judged, {"none", "material_variance"})
InsufficientMateriality(judged) == Diverging(judged, {"insufficient_evidence"})

\* dataset_result_exit_code, dataset_results_exit_code
ResultExit(judged) ==
    IF NeedsReview(judged) THEN "1"
    ELSE IF InsufficientMateriality(judged) \/ ~Compared(judged) THEN "2" ELSE "0"
ResultsExit(lines) ==
    LET codes == {ResultExit(j) : j \in {j \in Results(lines) : Compared(j)}}
    IN IF Results(lines) = {} THEN "0"
       ELSE IF "1" \in codes THEN "1"
       ELSE IF "2" \in codes \/ codes = {} THEN "2" ELSE "0"

InvariantExit(lines) ==
    LET statuses == UNION {RuleStatuses(j) : j \in Results(lines)}
    IN IF "violated" \in statuses THEN "1" ELSE IF "not_evaluable" \in statuses THEN "2" ELSE "0"

(* Mutant: sources that could not be prepared count for nothing.           *)
CampaignExitOfResults(lines) ==
    IF InvariantExit(lines) # "0" THEN InvariantExit(lines) ELSE ResultsExit(lines)

\* report_campaign_results and, of a campaign already complete, report_completed_resume
CampaignExit(lines) ==
    IF InvariantExit(lines) # "0" THEN InvariantExit(lines)
    ELSE IF ResultsExit(lines) # "0" THEN ResultsExit(lines)
    ELSE IF SourceFailures(lines) # {} THEN "2" ELSE "0"
CompletedResumeExit(lines) ==
    IF InvariantExit(lines) # "0" THEN InvariantExit(lines)
    ELSE IF \E j \in Results(lines) : NeedsReview(j) THEN "1"
    ELSE IF \/ \E j \in Results(lines) : InsufficientMateriality(j)
            \/ SourceFailures(lines) # {} THEN "2"
    ELSE IF ResultsExit(lines) # "0" THEN "2" ELSE "0"
=============================================================================
