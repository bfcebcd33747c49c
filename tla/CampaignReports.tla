---------------------------- MODULE CampaignReports ----------------------------
(***************************************************************************)
(* What is reported of a campaign while it is run, stopped, resumed and    *)
(* reviewed (FindingRuns): the run by its exit code, `ul report` and       *)
(* `ul dataset report` afterwards (EvidenceReports).                       *)
(***************************************************************************)
EXTENDS FindingRuns, EvidenceReports

\* of every source of every campaign that can be judged
ASSUME LinesAreJudged ==
    \A family \in Families : \A c \in family : \A k \in DOMAIN c.sources :
        c.sources[k].prepared /\ ~CannotBeJudged(c.sources[k]) =>
            IsJudged(LineOf(c.sources[k], c.suite))

-----------------------------------------------------------------------------
(* Properties.                                                             *)

\* The exit codes of the run, of a resume of it and of its report before any
\* review.  A report with nothing left to do means that the run was clean, and a
\* run with a difference to review that the report asks for it.
ViolatedRules == \E j \in Results(evidence) : "violated" \in RuleStatuses(j)
UnevaluableRules == \E j \in Results(evidence) : "not_evaluable" \in RuleStatuses(j)
Unstable == \E j \in Results(evidence) : j.stability = "unstable"
RunAndReportAgree(report) ==
    /\ CampaignExit(evidence) = CompletedResumeExit(evidence)
    /\ report.exit = "0" => CampaignExit(evidence) = "0"
    /\ CampaignExit(evidence) = "0" => report.exit # "1" \/ Unstable
    /\ CampaignExit(evidence) = "1" => report.exit = "1" \/ ViolatedRules

\* What the headline of `ul dataset report` leaves out: a violation by the
\* original alone or in some repetitions, a rule that could not be evaluated, a
\* source no variation of which was run, and a case that itself is unstable or
\* inconclusive but whose rule findings were all reviewed.
BeyondReview(finding, findings) ==
    /\ finding.name = <<>>
    /\ \/ finding.at[2] = Baseline
       \/ \E other \in Named(findings) : other.at = finding.at
Represented(findings, at) == StatusesAt(findings, at) # {}
NothingWasRun(judged) == \A c \in DOMAIN judged.cases : judged.cases[c].trials = <<>>
BeyondHeadline(findings) ==
    \/ UnevaluableRules
    \/ \E f \in findings : f.name = <<>> /\ f.status = "inconclusive"
    \/ \E j \in Results(evidence) : NothingWasRun(j)
    \/ \E at \in CasesOf(evidence) : at[2].verdict = "inconclusive" /\ Represented(findings, at)

\* `ul report` and `ul dataset report`, whatever was reviewed: a headline that
\* demands action comes with something to act on and with exit code 1, and one
\* that calls the evidence inconclusive never with 0.  The sections and the exit
\* code may demand more than the headline only for what it leaves out.
ActionSections == {"consequential", "needs_review"}
ReportsAgree(report) ==
    LET findings == report.findings
        headline == Headline(evidence, findings)
        demanded == Sections(evidence, findings) \cap ActionSections
    IN /\ ReportAccepted(report)
       /\ headline = "action_required" => demanded # {} /\ report.exit = "1"
       /\ headline = "inconclusive" => report.exit # "0"
       /\ demanded # {} => \/ headline = "action_required"
                           \/ \E at \in CasesOf(evidence) :
                                Bucket(at[2]) = "unstable" /\ Represented(findings, at)
       /\ report.exit = "1" => \/ headline = "action_required"
                               \/ \A f \in Actionables(findings) : BeyondReview(f, findings)
       /\ report.exit = "2" => headline = "inconclusive" \/ BeyondHeadline(findings)

\* What was done of a campaign is told alike by the run that finished it, by a
\* resume of it, and by the reports on its evidence, whatever was reviewed.
ExitCodesAgree ==
    Complete /\ stage = "idle" => /\ RunAndReportAgree(ReportOn(evidence, <<>>))
                                 /\ ReportsAgree(ReportOn(evidence, reviews))
=============================================================================
