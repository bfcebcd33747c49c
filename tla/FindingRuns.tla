------------------------------ MODULE FindingRuns ------------------------------
(***************************************************************************)
(* The runs of a campaign as its findings file sees them: a source after   *)
(* another is judged and journaled, the differences become the findings    *)
(* file, and the run ends with an exit code, is stopped, killed, resumed   *)
(* and reviewed (execution.py, reporting.py, finding_reference.py).        *)
(*                                                                         *)
(* The names in the findings file are hashes under a key of its own, which *)
(* the first run creates and every resume reads back.  A kill between the  *)
(* creation of the key file and the end of its write leaves it torn.  The  *)
(* key decides the order of the trace pointers of a receipt, so the luck   *)
(* of the key is all that is kept of it.                                   *)
(*                                                                         *)
(* A source is [prepared, surface, reference, baseline, cases]; a campaign *)
(* is [sources, suite, maxStops, maxReviews], the suite a sequence of at   *)
(* most one, maxStops and maxReviews bounds of the model, on how often a   *)
(* run is stopped or killed and on how many findings are reviewed.         *)
(*                                                                         *)
(* What a source is judged to be, what is packaged of it, whether a        *)
(* package is accepted and what the exit codes are is left open here;      *)
(* FindingReports defines it, and gives its definitions to the constants.  *)
(***************************************************************************)
EXTENDS Naturals, Sequences, FiniteSets

CONSTANTS
    Families,               \* the campaigns to choose from: a set of sets of them
    LineOf(_, _),           \* of a source and the rules: its line of the evidence
    CannotBeJudged(_),      \* an assertion fails when this source is judged
    LinesOf(_),             \* of the evidence: the lines of its findings file
    IsAccepted(_, _, _, _), \* a line, its evidence, the rules and the key fit the contract
    ExitOfRun(_), ExitOfResume(_),  \* of the evidence: the exit codes
    MayBeReviewed(_, _)     \* of the evidence and its reviews: what may be reviewed

\* a dataset has at least one record
ASSUME SourcesAreSequences ==
    \A family \in Families : \A c \in family :
        Len(c.sources) \in Nat \ {0} /\ DOMAIN c.sources = 1 .. Len(c.sources)

VARIABLES
    campaign,       \* the sources and the rules, which no run changes
    key,            \* absent, torn, lucky or unlucky: <evidence>.findings.jsonl.key
    evidence,       \* the lines of the evidence
    snapshot,       \* <evidence>.findings.jsonl: its packages and their key, if written
    stage,          \* where the run is, idle when none runs
    exit,           \* how the last run ended
    stops,          \* stops and kills so far
    reviews         \* the review in force of every finding that has one

runVars == <<campaign, key, evidence, snapshot, stage, exit, stops, reviews>>

Stages == {"idle", "opening", "naming", "judging", "reconciling", "reporting", "reconciled"}

Complete == Len(evidence) = Len(campaign.sources)

-----------------------------------------------------------------------------
(* Runs.                                                                   *)

RunInit ==
    /\ \E family \in Families : campaign \in family
    /\ key = "absent" /\ evidence = <<>> /\ snapshot = <<>>
    /\ stage = "idle" /\ exit = "none" /\ stops = 0 /\ reviews = <<>>

End(code) == stage' = "idle" /\ exit' = code

\* A new run wants every output to be new; any other run resumes.
Run ==
    /\ stage = "idle"
    /\ stage' = "opening"
    /\ UNCHANGED <<campaign, key, evidence, snapshot, exit, stops, reviews>>

ResolvedStage == IF Complete THEN "reconciling" ELSE "judging"

\* resolve_finding_reference_context
CreateKey ==
    /\ stage = "opening" /\ key = "absent" /\ snapshot = <<>>
    /\ key' = "torn" /\ stage' = "naming"
    /\ UNCHANGED <<campaign, evidence, snapshot, exit, stops, reviews>>
FillKey ==
    /\ stage = "naming"
    /\ key' \in {"lucky", "unlucky"} /\ stage' = ResolvedStage
    /\ UNCHANGED <<campaign, evidence, snapshot, exit, stops, reviews>>
(* Mutant: the key is drawn anew by every run.                             *)
LoadAnotherKey ==
    /\ stage = "opening" /\ key \in {"lucky", "unlucky"}
    /\ key' \in {"lucky", "unlucky"} /\ stage' = ResolvedStage
    /\ UNCHANGED <<campaign, evidence, snapshot, exit, stops, reviews>>
LoadKey ==
    /\ stage = "opening" /\ key \in {"lucky", "unlucky"}
    /\ stage' = ResolvedStage
    /\ UNCHANGED <<campaign, key, evidence, snapshot, exit, stops, reviews>>
RefuseKey ==
    /\ stage = "opening"
    /\ key = "torn" \/ (key = "absent" /\ snapshot # <<>>)
    /\ End("refused")
    /\ UNCHANGED <<campaign, key, evidence, snapshot, stops, reviews>>

Judge ==
    LET source == campaign.sources[Len(evidence) + 1]
    IN /\ stage = "judging" /\ ~Complete
       /\ IF source.prepared /\ CannotBeJudged(source)
          THEN End("crash") /\ UNCHANGED evidence
          ELSE /\ evidence' = Append(evidence, IF source.prepared
                                               THEN <<LineOf(source, campaign.suite)>> ELSE <<>>)
               /\ UNCHANGED <<stage, exit>>
       /\ UNCHANGED <<campaign, key, snapshot, stops, reviews>>

\* write_finding_package_snapshot: all packages or none, by an atomic replace
WriteSnapshot ==
    /\ stage = "reconciling" \/ (stage = "judging" /\ Complete)
    /\ IF \E line \in LinesOf(evidence) :
                ~IsAccepted(line, evidence, campaign.suite, key)
       THEN End("2") /\ UNCHANGED snapshot
       ELSE /\ snapshot' = <<[key |-> key, lines |-> LinesOf(evidence)]>>
            /\ stage' = IF stage = "judging" THEN "reporting" ELSE "reconciled"
            /\ UNCHANGED exit
    /\ UNCHANGED <<campaign, key, evidence, stops, reviews>>

Report ==
    /\ stage \in {"reporting", "reconciled"}
    /\ End(IF stage = "reporting" THEN ExitOfRun(evidence)
           ELSE ExitOfResume(evidence))
    /\ UNCHANGED <<campaign, key, evidence, snapshot, stops, reviews>>

Stop ==
    /\ stage = "judging" /\ ~Complete /\ stops < campaign.maxStops
    /\ stops' = stops + 1
    /\ End("130")
    /\ UNCHANGED <<campaign, key, evidence, snapshot, reviews>>
KillRun ==
    /\ stage # "idle" /\ stops < campaign.maxStops
    /\ stops' = stops + 1
    /\ End("killed")
    /\ UNCHANGED <<campaign, key, evidence, snapshot, reviews>>

\* `ul dataset review`; a later review of a finding replaces the one before
Judgments == {[status |-> "confirmed", severity |-> "high"]}
             \cup {[status |-> s, severity |-> "unrated"] :
                        s \in {"expected", "unsupported", "inconclusive"}}
Review ==
    /\ stage = "idle" /\ campaign.maxReviews > 0
    /\ \E name \in MayBeReviewed(evidence, reviews), judgment \in Judgments :
           /\ Cardinality(DOMAIN reviews \cup {name}) <= campaign.maxReviews
           /\ reviews' = [n \in DOMAIN reviews \cup {name} |->
                                IF n = name THEN judgment ELSE reviews[n]]
    /\ UNCHANGED <<campaign, key, evidence, snapshot, stage, exit, stops>>

RunNext ==
    \/ Run \/ CreateKey \/ FillKey \/ LoadKey \/ RefuseKey \/ Judge \/ WriteSnapshot
    \/ Report \/ Stop \/ KillRun \/ Review

RunSpec == RunInit /\ [][RunNext]_runVars

RunTypeOK ==
    /\ key \in {"absent", "torn", "lucky", "unlucky"}
    /\ Len(evidence) <= Len(campaign.sources)
    /\ Len(snapshot) <= 1
    /\ stage \in Stages /\ stops \in 0 .. campaign.maxStops
    /\ stage = "naming" => key = "torn"

-----------------------------------------------------------------------------
(* Properties.                                                             *)

(* However the runs of a campaign are stopped, killed and resumed, a       *)
(* findings file has the packages of the whole evidence, all of them as    *)
(* their contract wants them, under the key that every later command will  *)
(* read; and without one no run has told that all is clear or what is to   *)
(* be reviewed.                                                            *)
SnapshotIsTheEvidence ==
    /\ snapshot # <<>> =>
        /\ Complete
        /\ key \in {"lucky", "unlucky"}
        /\ snapshot[1] = [key |-> key, lines |-> LinesOf(evidence)]
        /\ \A line \in snapshot[1].lines : IsAccepted(line, evidence, campaign.suite, key)
    /\ exit \in {"0", "1"} => snapshot # <<>>

(* Once it is written, the findings file is never changed, whatever is     *)
(* resumed.                                                                *)
SnapshotIsFinal == [][snapshot # <<>> => snapshot' = snapshot]_runVars
=============================================================================
