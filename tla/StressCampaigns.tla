--------------------------- MODULE StressCampaigns ---------------------------
(***************************************************************************)
(* The commands that repeat a case against an HTTP environment without a   *)
(* journal: ul event (timeout after commit, correction, retry, the replay  *)
(* of a saved correction), ul trace of one imported case or of a campaign, *)
(* and ul regression of one saved case or of a directory of them.  The     *)
(* commands are in cli/src/ul_cli/event_stress.py and dataset_regression.  *)
(* py; their loops are in sdk/src/ul/augmentations/environment_fault.py    *)
(* and conversation.py, trace_replay.py and dataset_regression.py.         *)
(*                                                                         *)
(* A command checks what it is asked, runs its loop over one connection    *)
(* (HttpEnvironment) with a flag of its own for the state of the           *)
(* environment, turns the trials into a verdict, and keeps them in a       *)
(* private output file; correction and retry also publish finding          *)
(* packages.  A kill may come between any two steps, and the command may   *)
(* then be run again on the files it left.                                 *)
(*                                                                         *)
(* What a rule says of an observation is an outcome of its own:            *)
(* "satisfied" or "violated"; "none" where there is no observation.  For a *)
(* trace, "satisfied" is a match with the recording.                       *)
(***************************************************************************)
EXTENDS HttpEnvironment

CONSTANTS
    Commands,       \* the commands of a run, a subset of the eight
    Repetitions,    \* repetitions of each case
    Groups,         \* cases of a trace campaign or a regression run
    MaxInvocations  \* bound: times a command is run on the same files

ASSUME CampaignsAreNotEmpty == {Repetitions, Groups, MaxInvocations} \subseteq Nat \ {0}
ASSUME CommandsAreKnown ==
    Commands \subseteq {"timeout", "correction", "retry", "replay", "trace_case", "trace",
                        "regression_case", "regression"}

VARIABLES
    command,        \* which command runs
    request,        \* what it is asked, and the files it found
    stage,          \* how far it is: see the stages below
    files,          \* the output file and the finding packages next to it
    exit,           \* its exit status
    invocations,    \* (bound) invocations so far
    trials,         \* the trials recorded so far
    pair,           \* correction: the observation of the baseline, once there is one
    doubted,        \* environment_state_uncertain of the loop over repetitions
    quarantined,    \* environment_state_uncertain of the loop over cases
    issued,         \* case identities used so far
    verdict

shell == <<command, request, stage, files, exit, invocations>>
loop == <<trials, pair, doubted, quarantined, issued, verdict>>
vars == <<httpVars, shell, loop>>

Observed == {"satisfied", "violated"}
Paired == command \in {"correction", "retry", "replay"}
Traced == command \in {"trace_case", "trace"}
Regressed == command \in {"regression_case", "regression"}
Grouped == Traced \/ Regressed
Cases == IF command \in {"trace", "regression"} THEN Groups ELSE 1
TrialCount == Repetitions * Cases
NoPair == "none"
NoVerdict == "none"
NoExit == 9
Running == stage = "run"
Ended == stage \in {"refused", "planned", "reported", "crashed", "killed"}

\* An output file: "torn" is empty or half-written, "foreign" a result of
\* another plan.
Absent == [state |-> "absent", all |-> <<>>]
Torn == [state |-> "torn", all |-> <<>>]
Foreign == [state |-> "foreign", all |-> <<>>]
Whole(all) == [state |-> "whole", all |-> all]
Unpublished == [state |-> "absent", findings |-> {}]
Published(findings) == [state |-> "published", findings |-> findings]

\* One pass of a loop: what it calls next, with its number of turns.
TurnsNext == IF Paired /\ pair # NoPair THEN 2 ELSE 1

CallsOfTrial ==
    IF Paired THEN ApiCalls(FALSE, 1) + ApiCalls(FALSE, 2) ELSE ApiCalls(command = "timeout", 1)

\* Every plan_* function refuses a campaign that does not fit its budget.
Authorized == TrialCount * CallsOfTrial <= Calls

(***************************************************************************)
(* What a command is asked: to run; to show its plan; or to run with one   *)
(* thing wrong: a case, a configuration or a rule that does not fit, a     *)
(* budget below the plan, no permission to use the network, no             *)
(* confirmation that the environment is a test, no output file.            *)
(***************************************************************************)
Requests == {"run", "dry", "unmatched", "overspent", "offline", "unconfirmed", "nowhere"}

\* A result of another plan may lie at the same path, with its packages.
FilesFound ==
    {[output |-> Absent, packages |-> Unpublished],
     [output |-> Foreign, packages |-> Published({})],
     [output |-> Absent, packages |-> Published({})]}

NoLoop ==
    /\ trials' = <<>> /\ pair' = NoPair
    /\ doubted' = FALSE /\ quarantined' = FALSE
    /\ issued' = 0 /\ verdict' = NoVerdict

Init ==
    /\ HttpInit
    /\ command \in Commands
    /\ request \in [asks : Requests, found : FilesFound]
    /\ files = request.found
    /\ stage = "plan" /\ exit = NoExit /\ invocations = 1
    /\ trials = <<>> /\ pair = NoPair
    /\ doubted = FALSE /\ quarantined = FALSE
    /\ issued = 0 /\ verdict = NoVerdict

(***************************************************************************)
(* Recording a trial ends a pass of the loop; the last trial of a case     *)
(* also decides whether the next case may be run at all.                   *)
(***************************************************************************)
Trial(why, base, first, seen, e) ==
    [why |-> why, base |-> base, first |-> first, seen |-> seen, drift |-> FALSE,
     quarantine |-> "doubt" \in DOMAIN e /\ RequiresQuarantine(e),
     tainted |-> "tainted" \in DOMAIN e /\ e.tainted]

\* _trace_replay_result_requires_quarantine, and the test of
\* run_dataset_regressions, which does not look at a trial that timed out.
EndsInDoubt(trial) ==
    \/ trial.quarantine
    \/ trial.why = "skipped"
    \/ Traced /\ trial.why = "timeout"

CaseOf(n) == ((n - 1) \div Repetitions) + 1
TrialsOfCase(all, k) == {all[n] : n \in {m \in DOMAIN all : CaseOf(m) = k}}

RecordTrial(trial, doubt) ==
    LET all == Append(trials, trial)
        last == Len(all) % Repetitions = 0
    IN /\ trials' = all
       /\ pair' = NoPair
       /\ doubted' = (doubt /\ ~(Grouped /\ last))
       /\ quarantined' =
            IF Grouped /\ last
            THEN quarantined \/ \E t \in TrialsOfCase(all, CaseOf(Len(all))) : EndsInDoubt(t)
            ELSE quarantined
       /\ UNCHANGED <<shell, issued, verdict>>

MoreTrials == Running /\ ~Busy /\ evidence = NoEvidence /\ Len(trials) < TrialCount

\* Mutant: the skipped trial is not recorded.
SkipTrialSilently == MoreTrials /\ (doubted \/ quarantined) /\ UNCHANGED vars

\* "environment not called because prior execution left state uncertain"
SkipTrial ==
    /\ MoreTrials /\ (doubted \/ quarantined)
    /\ RecordTrial(Trial("skipped", "none", "none", "none", NoEvidence), doubted)
    /\ UNCHANGED httpVars

\* Every call has a case identity of its own (secrets.token_hex).
StartTrial ==
    /\ MoreTrials /\ ~doubted /\ ~quarantined
    /\ Execute(issued + 1, command = "timeout", TurnsNext)
    /\ issued' = issued + 1
    /\ UNCHANGED <<shell, trials, pair, doubted, quarantined, verdict>>

Taken == evidence' = NoEvidence /\ UNCHANGED <<lifecycleUncertain, composedUncertain, remaining,
                                               posted, call, outside, faults>>

(***************************************************************************)
(* What a loop makes of the end of a call.                                 *)
(***************************************************************************)
Base == IF Paired THEN pair ELSE "none"

\* A case that failed, or could not be run: no observation.  A RuntimeError
\* of the connection, raised before anything was posted, is a failed trial
\* too, but only the event loop takes it for a doubt.
TakeFailure ==
    /\ Running /\ evidence.kind \in {"failed", "raised"}
    /\ RecordTrial(Trial("failed", Base, "none", "none", evidence),
                   IF evidence.kind = "failed" THEN RequiresQuarantine(evidence)
                   ELSE doubted \/ command = "timeout")
    /\ Taken

\* The HTTP connection guarantees no cancellation: a timeout leaves doubt.
TakeTimeout ==
    /\ Running /\ evidence.kind = "timeout"
    /\ RecordTrial(Trial("timeout", Base, "none", "none", evidence), TRUE)
    /\ Taken

\* The first half of a pair: the loop goes on to the correction or retry.
TakeBaseline ==
    /\ Running /\ evidence.kind = "succeeded" /\ Paired /\ pair = NoPair
    /\ pair' \in Observed
    /\ doubted' = RequiresQuarantine(evidence)
    /\ UNCHANGED <<shell, trials, quarantined, issued, verdict>>
    /\ Taken

\* A complete trial.  An event that did not fire makes it inconclusive.
Complete ==
    /\ Running /\ evidence.kind = "succeeded" /\ ~(Paired /\ pair = NoPair)
    /\ \E seen \in Observed,
          first \in IF Paired THEN Observed ELSE {"none"},
          drift \in IF Paired THEN BOOLEAN ELSE {FALSE} :
         /\ Paired /\ first # pair => drift
         /\ RecordTrial(
            IF command = "timeout" /\ ~(evidence.armed /\ evidence.fired /\ evidence.cleaned)
            THEN Trial("unfired", "none", "none", "none", evidence)
            ELSE [Trial("ok", Base, first, seen, evidence) EXCEPT !.drift = drift],
            RequiresQuarantine(evidence))
    /\ Taken

(***************************************************************************)
(* The verdicts, functions of the trials: a result that is read again is   *)
(* checked against its own trials.                                         *)
(***************************************************************************)
\* Mutant: repetitions without an observation do not count.
AggregateObserved(seen) == IF "violated" \in seen THEN "violated" ELSE "satisfied"

\* _aggregate_trial_statuses: one violation decides, then a gap.
Aggregate(seen) ==
    IF "violated" \in seen THEN "violated"
    ELSE IF "none" \in seen THEN "not_evaluable" ELSE "satisfied"

\* The rule over one arm of the trials.
ArmStatus(all, arm) == Aggregate({all[n][arm] : n \in DOMAIN all})

SomeInconclusive(all) == \E n \in DOMAIN all : all[n].why # "ok"
AlwaysViolated(all) == \A n \in DOMAIN all : all[n].seen = "violated"

\* The variation left the baseline before the correction: in any repetition
\* that ran to its end.
DriftObserved(all) == \E n \in DOMAIN all : all[n].why = "ok" /\ all[n].drift

\* A violation that not every repetition shows is not a verdict.
StableVerdict(all, gaps) ==
    IF gaps THEN "inconclusive"
    ELSE IF AlwaysViolated(all) THEN "failed"
    ELSE IF ArmStatus(all, "seen") = "violated" THEN "inconclusive" ELSE "passed"

CorrectionVerdict(all) ==
    IF ArmStatus(all, "base") = "satisfied" /\ ArmStatus(all, "seen") = "violated" THEN "failed"
    ELSE IF \/ ArmStatus(all, "base") # "satisfied"
            \/ ArmStatus(all, "seen") = "not_evaluable"
            \/ SomeInconclusive(all)
    THEN "inconclusive" ELSE "passed"

\* The retried operation is judged only where the commit itself was sound.
RetryVerdict(all) ==
    StableVerdict(all, \/ SomeInconclusive(all)
                       \/ DriftObserved(all)
                       \/ ArmStatus(all, "base") # "satisfied"
                       \/ ArmStatus(all, "first") # "satisfied"
                       \/ ArmStatus(all, "seen") = "not_evaluable")

TraceVerdict(all, k) ==
    LET ts == TrialsOfCase(all, k) IN
    IF \E t \in ts : t.why # "ok" THEN "inconclusive"
    ELSE IF \A t \in ts : t.seen = "satisfied" THEN "reproduced" ELSE "drifted"

RegressionVerdict(all, k) ==
    LET status == Aggregate({t.seen : t \in TrialsOfCase(all, k)}) IN
    CASE status = "violated"      -> "failed"
      [] status = "not_evaluable" -> "inconclusive"
      [] OTHER                    -> "passed"

\* A run of regressions fails with its first failed case.
RunVerdict(all) ==
    LET each == {RegressionVerdict(all, k) : k \in 1 .. Cases} IN
    CASE "failed" \in each       -> "failed"
      [] "inconclusive" \in each -> "inconclusive"
      [] OTHER                   -> "passed"

\* A trace campaign gives no verdict of its own: TraceVerdict for each case.
CampaignVerdict(all) ==
    IF \E k \in 1 .. Cases : TraceVerdict(all, k) = "inconclusive"
    THEN "inconclusive" ELSE "reported"

VerdictOf(all) ==
    CASE command = "timeout"    -> StableVerdict(all, SomeInconclusive(all) \/
                                                      ArmStatus(all, "seen") = "not_evaluable")
      [] command \in {"correction", "replay"} -> CorrectionVerdict(all)
      [] command = "retry"      -> RetryVerdict(all)
      [] command = "trace_case" -> TraceVerdict(all, 1)
      [] command = "trace"      -> CampaignVerdict(all)
      [] OTHER                  -> RunVerdict(all)

ExitStatus(v) ==
    CASE v \in {"failed", "drifted"} -> 1
      [] v = "inconclusive"          -> 2
      [] OTHER                       -> 0

(***************************************************************************)
(* The finding packages of correction and retry: one for the rule that the *)
(* last turn violates, whatever the verdict.  Its source is the baseline   *)
(* for a correction, the first commit for a retry.                         *)
(***************************************************************************)
SourceArm == IF command = "retry" THEN "first" ELSE "base"

Repetition(t) ==
    IF "none" \in {t[SourceArm], t.seen} THEN "inconclusive"
    ELSE IF t.seen = "violated" THEN "finding_observed" ELSE "finding_not_observed"

SourceState(all) ==
    LET sources == {all[n][SourceArm] :
                        n \in {m \in DOMAIN all : Repetition(all[m]) = "finding_observed"}}
    IN IF Cardinality(sources) = 1 THEN CHOOSE x \in sources : TRUE ELSE "unknown"

FindingsOf(all) ==
    IF ArmStatus(all, "seen") = "violated"
    THEN {[repetitions |-> [n \in DOMAIN all |-> Repetition(all[n])],
           source |-> SourceState(all)]}
    ELSE {}

\* ul report names the rules behind a failed result; it counts again.
ReportsARule(all) ==
    /\ VerdictOf(all) = "failed"
    /\ IF command = "correction" THEN ArmStatus(all, "seen") = "violated"
                                 ELSE AlwaysViolated(all)

(***************************************************************************)
(* The way in.  Whatever is refused is refused before anything is written  *)
(* or posted.                                                              *)
(***************************************************************************)
Checked == request.asks \notin {"unmatched", "overspent"} /\ Authorized
Networked == request.asks # "offline"
Confirmed == request.asks # "unconfirmed"
OutputGiven == request.asks # "nowhere"

Leave(end, status) ==
    /\ stage' = end /\ exit' = status
    /\ UNCHANGED <<command, request, files, invocations, httpVars, loop>>

Refuse == Leave("refused", 2)
Plan == Leave("planned", 0)

Enter(found) ==
    /\ stage' = "run" /\ files' = found
    /\ UNCHANGED <<command, request, exit, invocations, httpVars, loop>>

WithOutput(output) == [files EXCEPT !.output = output]
Starting(commands) == stage = "plan" /\ command \in commands

\* The output is created before the connection.
BeginEarly ==
    /\ Starting({"timeout", "trace_case", "trace"})
    /\ IF ~Checked THEN Refuse
       ELSE IF request.asks = "dry" THEN Plan
       ELSE IF Networked /\ Confirmed /\ OutputGiven /\ files.output = Absent
       THEN Enter(WithOutput(Torn)) ELSE Refuse

\* Every case must be for the environment of the configuration, and case
\* identities must be unique; there is no plan to show.
CasesAreAccepted == Checked /\ request.asks \notin {"dry", "nowhere"}

BeginRegressions ==
    /\ Starting({"regression"})
    /\ IF CasesAreAccepted /\ Networked /\ Confirmed /\ files.output = Absent
       THEN Enter(WithOutput(Torn)) ELSE Refuse

BeginRegressionCase ==
    /\ Starting({"regression_case"})
    /\ IF CasesAreAccepted /\ Networked /\ Confirmed /\ files.output = Absent
       THEN Enter(WithOutput(Torn)) ELSE Refuse

\* The output is created after the run.
BeginReplay ==
    /\ Starting({"replay"})
    /\ IF CasesAreAccepted /\ Networked /\ Confirmed /\ files.output = Absent
       THEN Enter(files) ELSE Refuse

\* So is that of correction and retry; one that is there already is not run
\* again: its packages are written once more from what it holds.
Reconcile ==
    IF files.output.state # "whole" THEN Refuse
    ELSE /\ stage' = "reported" /\ exit' = ExitStatus(VerdictOf(files.output.all))
         /\ files' = [files EXCEPT !.packages = Published(FindingsOf(files.output.all))]
         /\ UNCHANGED <<command, request, invocations, httpVars, loop>>

BeginPaired ==
    /\ Starting({"correction", "retry"})
    /\ IF ~Checked \/ ~Confirmed THEN Refuse
       ELSE IF request.asks = "dry" THEN Plan
       ELSE IF ~OutputGiven THEN Refuse
       ELSE IF files.output # Absent THEN Reconcile
       ELSE IF Networked /\ files.packages = Unpublished
       THEN Enter(files) ELSE Refuse

Begin == BeginEarly \/ BeginRegressions \/ BeginRegressionCase \/ BeginReplay \/ BeginPaired

(***************************************************************************)
(* The way out.  The connection is closed first: what the environment      *)
(* still does is of no consequence to the files.                           *)
(***************************************************************************)
Disconnect ==
    /\ lifecycleUncertain' = FALSE /\ composedUncertain' = FALSE
    /\ remaining' = Calls /\ posted' = 0
    /\ call' = Idle /\ evidence' = NoEvidence
    /\ wire' = {} /\ server' = [fixture |-> NoCase, dirt |-> {}, armed |-> NoCase]
    /\ faults' = 0

Conclude ==
    /\ Running /\ ~Busy /\ evidence = NoEvidence /\ Len(trials) = TrialCount
    /\ stage' = "save" /\ verdict' = VerdictOf(trials)
    /\ pair' = NoPair /\ doubted' = FALSE /\ quarantined' = FALSE /\ issued' = 0
    /\ Disconnect
    /\ UNCHANGED <<command, request, files, exit, invocations, trials>>

Early == command \in {"timeout", "trace_case", "trace"}
Late == command \in {"correction", "retry", "replay"}
Publishes == command \in {"correction", "retry"}

\* An exception: timeout and trace remove the output they created; the file
\* of a regression stays behind, empty or half-written.
Crash ==
    /\ stage' = "crashed" /\ exit' = 1
    /\ files' = IF Early THEN WithOutput(Absent) ELSE files
    /\ UNCHANGED <<command, request, invocations>>

\* A KeyboardInterrupt in the loop leaves the command.
TakeInterrupt ==
    /\ Running /\ evidence.kind = "aborted"
    /\ Crash /\ Disconnect /\ NoLoop

Saving == UNCHANGED <<command, request, invocations, httpVars, loop>>

CreateOutput ==
    /\ stage = "save" /\ Late /\ files.output = Absent
    /\ files' = WithOutput(Torn)
    /\ UNCHANGED <<stage, exit>> /\ Saving

\* The whole result, flushed; correction and retry have packages to write.
WriteOutput ==
    /\ stage = "save" /\ files.output = Torn
    /\ files' = WithOutput(Whole(trials))
    /\ IF Publishes THEN stage' = "publish" /\ UNCHANGED exit
                    ELSE stage' = "reported" /\ exit' = ExitStatus(verdict)
    /\ Saving

\* Packages replace those that are there at once (os.replace).
Publish ==
    /\ stage = "publish"
    /\ files' = [files EXCEPT !.packages = Published(FindingsOf(trials))]
    /\ stage' = "reported" /\ exit' = ExitStatus(verdict)
    /\ Saving

\* An OSError or an interrupt while a file is created, written or replaced.
FailToSave ==
    /\ stage \in {"save", "publish"}
    /\ Crash /\ UNCHANGED httpVars /\ NoLoop

Kill ==
    /\ stage \in {"run", "save", "publish"}
    /\ stage' = "killed"
    /\ UNCHANGED <<command, request, files, exit, invocations>>
    /\ Disconnect /\ NoLoop

\* The command is run again on the files it left.  A run that left no output
\* starts over, as Init does: what an earlier process still has on the wire
\* is out of the reach of this model.
Again ==
    /\ Ended /\ invocations < MaxInvocations /\ files.output # Absent
    /\ invocations' = invocations + 1
    /\ request' \in [asks : Requests, found : {files}]
    /\ stage' = "plan" /\ exit' = NoExit
    /\ NoLoop
    /\ UNCHANGED <<command, files, httpVars>>

Loop == SkipTrial \/ StartTrial \/ TakeFailure \/ TakeTimeout \/ TakeBaseline
            \/ Complete \/ TakeInterrupt \/ Conclude
Save == CreateOutput \/ WriteOutput \/ Publish
Connection == Running /\ Step /\ UNCHANGED <<shell, loop>>
Environment == Running /\ Serve /\ UNCHANGED <<shell, loop>>
Interruption == Running /\ (\E byUser \in BOOLEAN : Interrupt(byUser)) /\ UNCHANGED <<shell, loop>>

Next ==
    \/ Begin \/ Loop \/ Save \/ FailToSave \/ Kill \/ Again
    \/ Connection \/ Environment \/ Interruption

\* The event loop runs the task it can run: every POST has a timeout of its
\* own, so a step of the connection is always taken in the end.
Spec ==
    /\ Init /\ [][Next]_vars
    /\ WF_vars(Begin) /\ WF_vars(Loop) /\ WF_vars(Save) /\ WF_vars(Connection)

(***************************************************************************)
(* Properties                                                              *)
(***************************************************************************)
TypeOK ==
    /\ lifecycleUncertain \in BOOLEAN /\ composedUncertain \in BOOLEAN
    /\ doubted \in BOOLEAN /\ quarantined \in BOOLEAN
    /\ posted \in 0 .. Calls /\ remaining \in 0 .. Calls
    /\ wire \subseteq [case : 1 .. issued, op : Operations, at : Nat]
    /\ server.dirt \subseteq 1 .. issued
    /\ Len(trials) <= TrialCount
    /\ exit \in {0, 1, 2, NoExit} /\ invocations \in 1 .. MaxInvocations

(***************************************************************************)
(* The connection keeps its promises to the loops above it, whatever is    *)
(* lost, delayed, interrupted or sent twice.                               *)
(***************************************************************************)
ConnectionIsSound == TypeOK /\ CallsStayInBudget /\ TrustedEvidenceIsClean

(***************************************************************************)
(* A verdict is earned: a test only passes (a trace is only reproduced or  *)
(* drifted) when every repetition of it ran to its end on an undisturbed   *)
(* environment, and only fails on violations observed in such trials; for  *)
(* the event and retry tests, where every repetition showed the violation. *)
(***************************************************************************)
Sound(t) == t.why = "ok" /\ ~t.tainted
Earned(all, v) ==
    /\ v = "passed" => \A n \in DOMAIN all : Sound(all[n]) /\ all[n].seen = "satisfied"
    /\ v = "failed" =>
        /\ \E n \in DOMAIN all : Sound(all[n]) /\ all[n].seen = "violated"
        /\ Paired => \A n \in DOMAIN all : all[n].base = "satisfied"
        /\ command \in {"timeout", "retry"} =>
             \A n \in DOMAIN all : Sound(all[n]) /\ all[n].seen = "violated"
    /\ Traced =>
        \A k \in 1 .. Cases :
            TraceVerdict(all, k) \in {"reproduced", "drifted"} =>
                \A t \in TrialsOfCase(all, k) : Sound(t)

\* So is a result on disk, in whatever invocation it was written; the report
\* of a failed result names a rule, and its packages were observed in sound
\* repetitions, against a source that satisfied the rule.
ResultIsEarned ==
    files.output.state = "whole" =>
        LET all == files.output.all IN
        /\ Len(all) = TrialCount /\ Earned(all, VerdictOf(all))
        /\ VerdictOf(all) = "failed" /\ command \in {"timeout", "correction", "retry"}
              => ReportsARule(all)
        /\ Publishes /\ files.packages # Unpublished =>
             /\ VerdictOf(all) = "passed" => files.packages.findings = {}
             /\ VerdictOf(all) = "failed" => files.packages.findings # {}
             /\ \A f \in files.packages.findings :
                  /\ VerdictOf(all) = "failed" => f.source = "satisfied"
                  /\ \A n \in DOMAIN all :
                        f.repetitions[n] = "finding_observed" => Sound(all[n])

\* An exit status is backed by the files: 0 of a run (and the 1 or 2 of a
\* verdict) is only given once the result is whole on disk, and the packages
\* of correction and retry with it.
ExitIsBacked ==
    stage = "reported" =>
        /\ files.output.state = "whole" /\ exit = ExitStatus(VerdictOf(files.output.all))
        /\ Publishes => files.packages = Published(FindingsOf(files.output.all))

\* The target is never called for an output that is already there, whole,
\* torn or of another plan, nor without permission; what a command refuses
\* or only plans leaves every file as it was.
FilesAreRespected ==
    /\ posted > 0 => request.asks = "run" /\ request.found.output = Absent
    /\ request.found.output # Absent => files.output = request.found.output
    /\ stage \in {"refused", "planned"} => files = request.found

VerdictIsEarned ==
    /\ verdict # NoVerdict => Earned(trials, verdict)
    /\ ResultIsEarned /\ ExitIsBacked /\ FilesAreRespected

(***************************************************************************)
(* Every command ends, however the environment behaves.                    *)
(***************************************************************************)
CampaignEnds == <>[]Ended
=============================================================================
