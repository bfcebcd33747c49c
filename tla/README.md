# A verification of UL

UL (`src/`) replays recorded interactions of an AI agent, and controlled
variations of them, against the agent's test environment, and writes evidence
that is to be trusted: which trial was sent, what came back, what is unknown.
This directory holds TLA+ models of the parts of UL on which that trust rests,
TLC configurations that check them on small instances, and proofs for TLAPS.

| module | models | subject |
|---|---|---|
| `TrialOutcomes` | abstract | what a campaign may rely on: outcomes are final, a unit is contacted at most once |
| `TrialJournal` | `dataset_trial_journal.py` | the durable journal: processes, lock, file, anchor, kills, I/O errors, power loss |
| `Campaign` | `dataset/evaluation/*.py`, `progress.py`, the runner at concurrency 1 | invocations of `ul dataset evaluate` that are interrupted, killed and resumed |
| `CampaignProofs` | | its inductive invariant, theorems and refinement, for any plans, interrupts and invocations |
| `ConcurrentTrials` | `DatasetEvaluationRunner.run` at concurrency above 1 | task groups, semaphore, cancellation, uncertain delivery |
| `ConcurrentTrialsProofs` | | its inductive invariant and theorems, for any plan and any number of requests in flight |
| `ComposedEnvironment` | `probe_execution.py`, `state_hooks.py` | one case at a time against a fixture, with threads that outlive their await |
| `ComposedEnvironmentProofs` | | its inductive invariant and theorems, for any cases and cancellations |
| `ReviewLog` | abstract | what reviewers may rely on: decisions are only added, a judgment replaces only the one it names |
| `ReviewStore` | `dataset_review.py` | human judgments of findings: concurrent reviewers, growing evidence, lock, atomic replacement, power loss |
| `ReviewStoreProofs` | | its inductive invariant and theorems, for any reviewers, findings and evidence |
| `HttpEnvironment` | `http_environment.py` | one connection to a test environment over HTTP, and requests that arrive late |
| `StressCampaigns` | `event_stress.py` and `dataset_regression.py` of the CLI, `augmentations/environment_fault.py`, `augmentations/conversation.py`, `trace_replay.py`, `dataset_regression.py` | the eight commands that repeat cases on such a connection: what they refuse, their loops and verdicts, the files they leave, their exit codes |
| `StressCampaignsProofs` | | the inductive invariant and theorems of loop and connection together, for any cases, timers, lost answers and invocations |
| `LocalTarget` | `local_target.py`, `_local_worker.py` | a target run as a child process: pipes, limits, deadlines, termination |
| `ProbeCommand` | `probe.py` | invocations of `ul probe` from several shells against one target |
| `TargetProofs` | | inductive invariants and theorems of `LocalTarget`, for any invocations, sessions, limits and faults, and of `ProbeCommand`, for any shells, outputs and trials |
| `SemanticPipeline` | `augmentations/dataset.py`, `deconstruction.py`, `dataset_evaluation.py`, `dataset_campaign.py` | what the semantic model is asked, what is made of its answers, the cache and the plan of calls |
| `TraceStore` | `otlp_observation.py` | the spans an agent exports while it is probed: store, limits, observations, receiver |
| `Sizes` | both of them | the bytes that are kept in an order |
| `BoundedMemoryProofs` | | inductive invariants and theorems of `SemanticPipeline`, for any records, operators, saved augmentations and cache limits, and of `TraceStore`, for any payloads, requests and limits |
| `DatasetInvariants` | `dataset_invariants.py`, `invariant_findings.py` | the customer's rules, their evaluation over the trials and the validators of its result |
| `ActionOutcomes` | `dataset_evaluation.py` (grouping and comparison) | which trials did the same, and how two arms differ |
| `FindingPackages` | `dataset_evaluation.py`, `finding_adapters.py`, `report_contract.py` | how a source is judged, and the package of every difference and its contract |
| `EvidenceForm` | the types of `dataset_evaluation.py`, `dataset_invariants.py` | what a judged source looks like, whatever judged it |
| `EvidenceReports` | `dataset_review.py`, `report_contract.py`, `presentation/evaluation.py`, `reporting.py` | the report with its patterns and its contract, the headline and sections, the exit codes |
| `EvidenceRecords` | `dataset/evidence/customer.py`, `dataset_review.py`, `report_contract.py` | the record of a source and how it is read back, the decisions of a findings file |
| `FindingRuns` | `dataset/evaluation/execution.py`, `reporting.py`, `finding_reference.py` | the runs of a campaign, stopped, killed, resumed and reviewed, as its findings file sees them |
| `CampaignReports` | (composes `FindingRuns` and `EvidenceReports`) | what is told of a campaign by its exit codes, its reports and its headline |
| `FindingReports` | the same with `report.py`, `report_contract.py` | a campaign from its evidence to findings file, records and reports |
| `EvidenceProofs` | | inductive invariants and theorems of `TrialJournal`, for any number of units and processes, of `FindingRuns`, for any campaign and whatever is judged and packaged, and of `CampaignReports`, for any judged sources and reviews |
| `MC*` | | instances for TLC |

Paths below are relative to `src/cli/src/ul_cli/` and `src/sdk/src/ul/`.

## 1. Inventory

### 1.1 Components, their state and their operations

**Trial journal** (`dataset_trial_journal.py`). State: a file of chained
records, an anchor file that names the last record, an advisory lock, and a copy
in memory. Operations: create, open (verify, recover running trials as
quarantined), start, finish, terminal, flush, close. Hard: every system call may
fail or be the last one before a kill or a power loss; two invocations may race.
Correct if no trial is started twice, nothing that was acknowledged is lost, and
a resumed journal leaves no delivery unsettled.

**Campaign: durable run** (`dataset/evaluation/durable_run.py`,
`campaign_persistence.py`, `dataset_augmentation_ledger.py`,
`dataset/evidence/persistence.py`). State: manifest, journal, evidence file,
augmentation ledger, evaluator preflight receipt, quarantine attestation.
Operations: create or resume and reconcile these files, refuse what does not fit
together. Hard: they are separate files, written one after the other, and the
process may die between any two writes. Correct if a resumed campaign reaches
what an uninterrupted one reaches, with the same variations.

**Campaign: execution** (`dataset/evaluation/runner.py`, `execution.py`,
`workflow.py`, `reporting.py`, `dataset/source_preparation.py`). State: the case
and trial at hand, trials in flight, counters. Operations: prepare a case, run
its trials, append evidence, handle failures. Hard: callbacks of the runner, the
journal, the tracker and the user's control interleave at every await.

**Progress and user control** (`dataset/progress.py`). State: the requested
pause or cancel, the registered target tasks, counters. Operations: interrupt,
safe boundary, trial started / terminal / skipped / hydrate. Hard: the signal
handler runs at any instruction; counters are rebuilt after a restart.

**Dataset evaluation runner** (`dataset_evaluation.py`). State: workers, child
tasks, a semaphore, `_target_state_uncertain`, finished trials. Operations: run,
execute_trial, judge. Hard: task groups inside task groups, cancellation from
inside and outside, doubt about delivery.

**Composed environment executor** (`probe_execution.py`, `state_hooks.py`).
State: a lock, `_state_uncertain`, one single-thread runner per synchronous
adapter, a coroutine per case. Operations: reset, setup, snapshot, invoke, flush,
cleanup, observe. Hard: a thread cannot be cancelled; case timeout, cleanup
grace and the caller's cancellation overlap. Correct if no case runs against a
fixture that another case may still change.

**Review store** (`dataset_review.py`). State: a history file of decisions and
its lock file. Operations: review one finding, preview and review a pattern (a
cohort of similar findings), report. Hard: what a command decides on is read
before the lock is taken, from an evidence file that a campaign may still append
to and a history that other reviewers append to. Correct if the history stays one
that every command accepts, and no judgment is lost or silently replaced.

**HTTP environment** (`http_environment.py`). State: the budget of calls, a flag
that says the fixture is in doubt (one more in the composed executor), the script
of the case under way. Operations: reset, set up, snapshot, arm and observe an
event, execute a turn, clean up. Hard: a POST that was given up may still be
processed, even while the next case runs; the cleanup itself may be lost. Correct
if no result rests on a case that another request disturbed.

**Event stress** (`event_stress.py` and the two modules of augmentations), **trace
replay** (`trace_replay.py`), **dataset regression** (`dataset_regression.py`).
State: the trials so far, a flag for the environment, one verdict. Operations: run
a trial, skip it, aggregate. Hard: doubt arises in the connection and must stop
loops that know it only through what the connection returned.

**Local target** (`local_target.py`, `_local_worker.py`). State: a worker process,
its group and pipes, the active session, limits that span workers. Operations:
invoke, start a worker, start a session, exchange, terminate, close. Hard: a
worker may die between the write and the answer, answer twice, flood its standard
error, leave a helper behind; deadlines and cancellations come at every await.
Correct if a result belongs to its own invocation and a failure says truly
whether anything ran.

**Probe command** (`probe.py`). State: per target a lock file and a safety
receipt, per output a smoke checkpoint, a preflight receipt and a campaign.
Operations: one invocation, fresh or resumed, attested or not. Hard: invocations
from two shells on one target; a kill between the call and the receipt. Correct
if calls never overlap, no trial is sent twice, and a doubt is on record before
anybody else looks.

**Augmentation generation** (`augmentations/dataset.py`), **semantic
deconstruction** (`deconstruction.py`), **verdicts** (`dataset_evaluation.py`),
**language model client** (`llm.py`), **campaign planning** (`dataset_campaign.py`).
State: a bounded cache of completions, the candidates and skips of a record, the
trials of a case. Operations: deconstruct, render, retry, reparse, verify, refuse,
group trials, judge materiality. Hard: every answer of a model is possible, a
cached answer may be refused later, a resumed campaign takes saved variations from
an earlier one. Correct if no call goes beyond the plan the user agreed to, the
cache holds what was accepted, and candidates and verdicts are earned.

**Trace ingestion** (`otlp_ingest.py`, `otlp_observation.py`). State: the spans
received and an index over them, marks of what was refused, the receiver's slots.
Operations: receive and export, observe (poll, match, take), prune. Hard: every
POST has its thread, two observations may wait at once, spans are updated, late,
refused or pruned between any two polls. Correct if index, limits and slots are
exact, and an observation that is called complete left nothing out.

**Rules, findings and reports** (`dataset_invariants.py`, `invariant_findings.py`,
`dataset_evaluation.py`, `finding_adapters.py`, `report_contract.py`,
`dataset/evidence/customer.py`, `dataset_review.py`,
`dataset/evaluation/reporting.py`, `dataset/evaluation/finding_reference.py`).
State: a key file that names every reference, the lines of evidence, the findings
file (a snapshot of packages), the reviews. Operations: evaluate the rules, group and
compare what the trials did, build a record and packages, read them back, write the
snapshot, report, review, end with an exit code. Hard: what one part builds another
part validates, by rules of its own; five functions compute exit codes from different
views of the same results; references are keyed hashes, so an order that was not
asked for depends on a random key; the key file is created before it is written.
Correct if everything that is built is accepted where it is read, a verdict does not
depend on which repetition stands for an arm, and record, package, headline and exit
codes say the same.

Pure data, without a state of their own: augmentation definitions, outcome
projection, redaction, the formats of finding export, presentation, option parsing,
project scaffolding, core models.

`PROJECT.json` lists every component with what is modelled of it.

### 1.2 How they interact

    command -> durable run -> journal, ledger, evidence, attestation (files)
            -> preflight, then per case:
                 runner.run -- callbacks --> checkpoint_augmentation -> ledger
                    |                        trial_started  -> boundary, journal, tracker, control
                    |                        trial_terminal -> control, journal, tracker, boundary
                    `-- await --> environment.execute -> lock, reset .. cleanup, observe
    SIGINT -> control: a pause or cancel request, or task.cancel on the trials in flight

`Campaign` sees the journal through `TrialOutcomes` (checked as `KeepsOutcomes`),
which `TrialJournal` implements (`ImplementsOutcomes`); so an append is one step
in `Campaign`. `Campaign` and `ConcurrentTrials` see the environment as an answer
with or without doubt; `ComposedEnvironment`, `HttpEnvironment` and `LocalTarget`
show when that doubt is raised. `StressCampaigns` EXTENDS `HttpEnvironment`: loop
and connection are composed, because the loop learns of a doubt only from what the
connection returns. `Campaign` takes any verdict of the pipeline; `SemanticPipeline`
takes any trials. Of what is made of the evidence there are two sides, and
`EvidenceForm` is between them. `DatasetInvariants` and `ActionOutcomes`, which
`FindingPackages` EXTENDS, compute what a source is judged to be, by recursion over its
trials. `EvidenceReports` takes any judged source and follows it to the reports and exit
codes. `FindingRuns` is the runs, and leaves open, as constants, what a source is judged
to be and what is packaged of it; a judged source is one step there, which `Campaign`
splits into trials. `CampaignReports` puts reports and runs together, and what can be
proved is proved of it; `FindingReports` EXTENDS all of them and closes the gap: it takes
what the trials of a campaign returned and follows it to the exit code. `ReviewStore`
tells how the reviews come about that `FindingRuns` takes as given.

### 1.3 What is hard, and where it is checked

`PROJECT.json` lists the hazards line by line with the properties that catch
them. In short: kills and power loss between two writes (`TrialJournal`,
`Campaign`), interrupts at every await (`Campaign`, `ConcurrentTrials`), doubt
about delivery that must stop queued work (`ConcurrentTrials`) and survive a
restart (`Campaign`), abandoned threads (`ComposedEnvironment`), counters that
two layers move (`Campaign`), slots and locks that must be given back
(`ConcurrentTrials`, `ComposedEnvironment`), requests that arrive after they were
given up (`HttpEnvironment`), workers that outlive an invocation (`LocalTarget`),
doubt that a killed command leaves to the next one (`ProbeCommand`), a model that
answers anything (`SemanticPipeline`), spans that come between two looks at a
bounded store (`TraceStore`), documents that one part builds and another refuses, and
exit codes that disagree (`CampaignReports`).

## 2. The modules

### 2.1 `TrialJournal`

One action per system call that matters: `CreateFile`, `LockNew`, `LinkAnchor`,
`FinishCreate`; `OpenLock`, `OpenAccept`/`OpenReject`, `OpenReturns`; an append is
`WriteLine`, `FsyncFile`, `StageAnchor`, `ReplaceAnchor`, `FsyncDirectory`,
`AppendReturns`. `TearLine`, `AppendFails`, `CreateFails`, `Kill` and `PowerLoss`
cut it short anywhere. `file`, `synced`, `anchor`, `stableAnchor` separate what a
process sees from what survives a power loss; digests are not modelled: a chain
of records is the sequence of its transitions, and two chains have the same head
digest exactly when they are equal. A process that fails while it appends may go
on with the campaign, as the code does; the next append meets its own check.

### 2.2 `Campaign`

`pc` is where the one process of the campaign stands, from `down` over
`creating`, `opened`, `reconciled`, `preflight`, `persistence` to the loop over
cases (`gate`, `augment`, `save`, `skip`, `compare`, `trial`, `start`,
`register`, `target`, `waiting`, ...). One action is one stretch of code that no
interrupt or kill can split in a way that matters. `plan` is the size of the campaign
(cases, repetitions) with two bounds of the model (interrupts, invocations); it is
chosen at the start and never changes, as the manifest. A command says of each
`Aspect` of the campaign (its target, what the run context covers, what only the
command holds, the settings of the evaluator) nothing, what is recorded or something
else; `Normalised` is `normalize_dataset_evaluation_request`, and `RefuseManifest` and
`ResolveQuarantine` are the comparisons with the manifest, in their order. A dry run
that resumes goes as far as the code lets it. `allowance` is what is left of the
target calls the plan announced. A fresh dry run, and a fresh run refused before
anything is written, change nothing and are left out. `Leave` is every way out;
`Kill` is possible everywhere and may leave half a line in evidence or ledger.
An augmentation is a record of the invocation that drew it and its verdicts, so
that two draws differ. `contacted`, `suspect`, `ranWith`, `lateStarts` and
`notices` are history variables: no action reads them.

### 2.3 `ConcurrentTrials`

One action is what a task does between two awaits. A task that is to be
cancelled is in `cancelled` and takes its next step as the `CancelledError`;
`scheduled` is the gap between the signal handler's `call_soon_threadsafe` and
the delivery. Workers and children are tasks of two levels of task groups: an
error makes a group cancel its other tasks, a cancellation from outside is not
an error. The tasks of a group take their first steps in the order of creation,
as `asyncio` does.

### 2.4 `ComposedEnvironment`

`task[c]` is the coroutine of a case, `at` the operation it awaits; `made` is
what the executor was constructed with. `Land` is the outside world: a started
operation takes effect and answers at any time or never, also when nobody awaits
it any more. `dirt` is whose effects the fixture holds. `unavailable` are the
runners that gave up an operation and take no other.

### 2.5 `ReviewStore`

A decision is one line of the history; a pattern decision (`IsPattern`) stands for
the reviews derived from it. `step[r]` is where the one command of reviewer `r`
stands: `ReviewFinding` or `ReviewPattern` starts it, `LoadEvidence`,
`LoadReviews`, `LoadEvidenceAgain` and `Preview` are the reads of a pattern
decision, one action each because `EvidenceGrows` and the other reviewers come
between them; `Lock` waits for the lock and checks again, `Replace` renames the
new copy over the file, `Acknowledge` has synced the directory. `seen`, `reseen`
and `read` are what the command loaded, `held` what it read under the lock.
`stable` is the history that survives a power loss. `Fail` is a kill or an I/O
error anywhere. `Cohort` is what a report offers, by the effective status of a
finding; `ValidPattern` is what the history accepts, by human reviews: finding 5
is the difference. Digests, HMACs and snapshot ids are modelled by what they
bind. A start action takes the evidence as it is when it starts, because
`review_dataset_finding` reads it once.

### 2.6 `HttpEnvironment` and `StressCampaigns`

`call` is the execution under way: its script, a position in it and what it has
seen; a `Script` is the sequence of POSTs of one execution, of `Operations`, and
`ArmAttempted` says whether a timer may have been armed. A POST is put on the `wire`;
`server` is the fixture, external, and processes it now, later or never. `lifecycleUncertain` and `composedUncertain` are the two
flags of the code, for a case with an event and for a case that goes through the
composed executor on this connection. `Interrupt` is the case timeout and the
user's cancellation, during the body and during the cleanup. `evidence` is what an
execution returns or raises. It carries, as history, whether another request
touched the fixture of its case: that is what `ConnectionIsSound` and
`VerdictIsEarned` are about, and no guard reads it. `StressCampaigns` takes one of eight
commands at the start. `request` is what the command is asked (to run, to show its
plan, or to run with one thing wrong) and the files it finds; `stage` leads from
`plan` over the loop to the files that are written or the way the command ended.
`BeginEarly`, `BeginRegressions`, `BeginRegressionCase`, `BeginReplay` and
`BeginPaired` are the checks of each command, in its own order. The loop is
`StartTrial`, `SkipTrial`, `TakeFailure`, `TakeTimeout`, `TakeBaseline`, `Complete`
and `TakeInterrupt`; `Conclude` aggregates the trials into a verdict, `CreateOutput`,
`WriteOutput` and `Publish` leave it behind, and a kill or a failing write may come
between any two of them. `Again` runs the command a second time on the files that
are left; a second run that finds no output at all is one that starts over, and is
not repeated.

### 2.7 `LocalTarget`

`invoker` is where `invoke()` or `aclose()` awaits; `leader[w]` and `helper[w]` are
the worker and a process it started in its group; `reaped` are the workers whose
return code is known, which is what `_terminate` looks at. `worker[w]` is the
other end: its session, what it was asked, its pipes. `executed` is history: the
invocations that a worker ran.

### 2.8 `ProbeCommand`

`runs[s]` is the invocation of shell `s`, with the stage it is in, from `confirm`
over the lock to the trials and the receipt it leaves; an invocation ends normally,
by an exception the command does not handle (`Abort`) or by a kill (`Kill`, at most
`MaxKills` of them). `receipt` is the safety receipt of the target, `journal[o]` the
trials of a campaign, of which `TrialJournal` and `Campaign` are the detail. `told`,
`doubted` and `calls` are history.

### 2.9 `SemanticPipeline`

One invocation from the preflight to the last verdict. `plan` fixes the operators
and what is saved of each record; `Planned` is the table of calls that the user
confirms, `made` the calls so far by the same kinds. A request (`Ask`) looks in `cache`
first; a completion that is accepted is stored and may evict others,
a refused one is discarded. `Total` (of `Sizes`) is a recursive function, so that it can
be proved about. A frame is a class (the source's own, one that lost or
changed an element, one that cannot be read), a text is what the operators'
footprint and the duplicate check tell apart. `StageAfterRetry` is the flow of
`augment`; `Verdict` is the comparison of two arms of trials. A request that is
refused before it is sent because it is too long is counted as a call.

### 2.10 `TraceStore`

A post is a thread of the receiver (`Post`, `ReadClock`, `Export` or `Discard`); the
clock it stores its spans with is read before the lock is taken. `watch[r]` is an
observation: `Poll` and `PollAgain` are one turn of its loop under the lock, `Take`
the second time it holds the lock, when it removes what it matched before. A span
is a record of what the store tells apart; `spans`, `indexes` and the two lists of
marks are those of the code. `Contents` is the store as one value, which `Pruned`,
`Exported` and `Refused` map to the next, and `Only` is what a comprehension with a
condition leaves of a list. `log` is history: every span that was offered, and whether
it was accepted.

### 2.11 `DatasetInvariants`, `ActionOutcomes`, `FindingPackages`, `EvidenceForm`, `EvidenceReports`, `EvidenceRecords`, `FindingRuns`, `CampaignReports`, `FindingReports`

The first six are operators, one per function of the code with a decision in it.
In `DatasetInvariants` a JSON value is a small tree, a rule a record; an evaluation
carries the one budget of work that all trials share (`MaximumWork`), so a rule may
be not evaluable because of the rules before it; where the work ends within the key of
an item, what its earlier pointers took stays taken. The `...Accepted` operators of all
modules are the validators that a document passes when it is built and when it is
read. `ActionOutcomes` has the two algorithms that must agree: repetitions are grouped
by the grounded part of what they did, arms are compared by a maximum matching.
`FindingPackages` judges a source (`Judged`, `JudgingFails` where an assertion of the
code does) and builds the package of each difference; a keyed hash is the record of
what is hashed, and only the order of the hashes is left of the key, `lucky` where it
is the order asked for. `EvidenceForm` says what judging leaves of a source (`IsJudged`):
trials that are conclusive or not, verdicts that follow from the stability of both arms,
differences between stable arms only, rules of every arm that was run. `EvidenceReports`
is what is shown of it: summaries, patterns, headline and sections, exit codes;
`EvidenceRecords` is the record, and the decisions of the findings file.

`FindingRuns` is the state and its actions: `key` (absent, torn, lucky or unlucky),
`evidence`, `snapshot` (the findings file), `reviews`, and where the run is.
`CreateKey`, `FillKey`, `LoadKey` and `RefuseKey` are
`resolve_finding_reference_context`; `Judge` is one source, `WriteSnapshot` all
packages or none, `Report` the exit code; `Stop` and `KillRun` end a run, `Run` starts or
resumes one, `Review` is a judgment between runs. `campaign` is what the target and the
evaluators made of every input, and is chosen at the start from `Families`.

`CampaignReports` assumes that what is judged looks as `EvidenceForm` says
(`LinesAreJudged`), which TLC evaluates on every source of every campaign of
`MCFindingReports`. `FindingReports` puts everything together. Every constant operator of
`FindingRuns` is given the definition that the code stands behind, in
`MCFindingReports.cfg`:

| constant | value | where |
| --- | --- | --- |
| `LineOf`, `CannotBeJudged` | `Judged`, `JudgingFails` | `FindingPackages` |
| `LinesOf`, `IsAccepted` | `LinesOfPackages`, `Buildable` | `FindingReports` |
| `ExitOfRun`, `ExitOfResume` | `CampaignExit`, `CompletedResumeExit` | `EvidenceReports` |
| `MayBeReviewed` | `Reviewable` | `FindingReports` |

## 3. Runs

| run | instance | shows |
|---|---|---|
| `trial_journal` | 2 units, 2 processes, 4 lines | `StartsAtMostOnce`, `AcknowledgedIsDurable`, `UndisturbedReopens`, `ResumeSettlesEveryDelivery`, and that the journal implements `TrialOutcomes` (`ImplementsOutcomes`) |
| `campaign` | four plans: cases / repetitions / interrupts / invocations = 2/1/1/2, 2/1/0/3, 1/2/1/3, 1/1/2/3 | `CallsAreJustified`: one draw per case, usable sources, variations after their original, none to a target in doubt, every call counted, as recorded and within the plan announced; `StopIsHonoured`: a stop leaves nothing running, lets at most one trial start and is announced; `RecordsAgree`: files and counters agree, no refusal by the journal, a complete completion; `EvidenceIsFinal`; `KeepsOutcomes`: the campaign implements `TrialOutcomes`; `InvocationsEnd` |
| `campaign_timeout` | 1 case, 2 repetitions, 1 interrupt, 2 invocations | the finding of section 5 (`TimedOutTargetIsLeftAlone`) |
| `composed` | 2 cases, 2 cancellations, 6 compositions | `CasesAreIsolated`: no case runs against the effects of another, a reusable fixture is clean, one thread per runner; `HooksAreHonoured`: a quarantine is permanent and a fixture that was reset is cleaned up; `EveryCaseEnds` |
| `concurrent` | 2 repetitions, 2 variations, 2 slots, 1 interrupt | `NothingIsLeaked`: no slot, task or started trial is lost; `NothingIsSentInDoubt`; `TheRunEnds` |
| `review_store` | 2 reviewers, 3 commands, 3 findings in 2 records of evidence | `HistoryStaysValid`; `RecordedReviewsSurvive`; `ImplementsLog`: the file implements `ReviewLog`; `CommandsEnd` |
| `stress` | 8 commands, 2 repetitions, 2 groups, 2 faults, 2 timeouts, 28 calls, 2 invocations | `ConnectionIsSound`: calls stay in the budget and evidence that may be trusted is clean; `NothingIsPostedInDoubt`; `VerdictIsEarned`: no verdict, published finding or exit status rests on a disturbed trial, no file that was there is touched; `CampaignEnds` |
| `local_target` | 3 invocations of 2 sessions, 2 executions, 1 cancellation, 1 fault | `InvocationsAreSound`: a result is its own invocation's, a failure without doubt ran nothing, limits span restarts, no worker is forgotten; `InvocationsEnd` |
| `probe` | 2 shells, 1 output, 2 trials, 3 invocations, 1 kill | `ProbesAreSafe`: calls never overlap, no trial is sent twice, a doubt stays on record; `NoCallInDoubt`; `ProbesEnd` |
| `semantic` | 2 records with one input, 2 selections of operators, 4 starts, a cache of 3 completions | `CallsStayInPlan`; `CacheIsSound`: it holds what was accepted and counts it right; `ResultsAreEarned`: candidates passed every check, verdicts follow from the trials |
| `trace_store` | 3 posts of 4 payloads, 2 slots, 2 requests, 2 spans, 3 ticks | `StoreIsExact`: index, limits, marks and slots agree with what is stored; `CompleteIsWhole`: an observation that is called complete holds the last version of all that was accepted for it, and nothing was refused as far as the bounded marks can tell |
| `findings` | five families of campaigns: all combinations of 8 outcomes, of 5 evidences, of 6 outputs under 6 sets of rules, of 8 verdicts on two variations, of 6 sources | `EvaluationsAreSound`: an evaluation is accepted and recomputed where it is read, and a record is read back; `VerdictsAreStable`: no verdict depends on the repetition that stands for an arm; `FindingsFileIsSound`: every difference becomes a package that its contract accepts, shows what the record shows and is read back, and the file has those of all the evidence under the key on disk (`SnapshotIsTheEvidence`); `ExitCodesAgree`: run, resume, reports, headline and sections; `SnapshotIsFinal`: it is never changed. The exceptions each of them names are the divergences of section 5 |

**Bounds.** Two processes and two units are all a race in the journal needs: the
proofs cover any number. A campaign needs a case before and after the one that is
interrupted, and invocations that leave something behind, that repair it and leave
something else, and that meet both; a second quarantine after an attestation needs
two trials of one case that are sent one after the other in three invocations. Two
interrupts make a pause into a cancel. One plan with everything is beyond TLC, so
each of the four plans has some of it, and the proofs cover every plan. A resumed
command differs from the recorded one in one aspect at most, says everything as
recorded, or says nothing: the comparisons are made one after the other, and any one
difference is refused. Two cases suffice for isolation, which relates a case to one
that ended, and the compositions take each adapter as synchronous, asynchronous,
callback and absent. Two variations of each of two repetitions are four tasks for two
slots, so tasks wait while others fail. Three commands of two reviewers let one decide
between the read and the lock of the other and a third meet both results; three
findings of one group make a cohort that may grow, shrink or be judged in part,
and `Classified` takes them with and without one that was judged automatically.
`MaxRecords` is above the number of commands in `review_store`, where the limit is
not the subject (see the known divergences in section 5).
In `stress`, a fault needs one trial that it disturbs and one after it that must
not trust the fixture; both levels of loops need a second round, two timeouts
reach the body and its cleanup, and a second invocation meets the files of the first.
28 calls authorise the longest campaign and are the budget the calls are compared
with. In `local_target` two turns of one session reuse a worker and the third starts
another session; two executions are below the three invocations, so the limit is met;
the proofs cover any number. In `probe` a doubt needs an invocation that leaves it, one
that lifts or meets it, and one from the other shell between; the proofs cover any
number. In `semantic` two records with one input are what a cache can confuse, three
entries are fewer than the completions of a record, and the five sets of trials are
those the verdicts tell apart: alike, different, unstable, failed, and equal under
Python's `==` only. In `trace_store` a store of two spans is full with the third, four
bytes are less than an update and what is stored beside it, and three ticks let a span
be settled, a deadline pass and a retention end. In `findings` a difference is between
two trials of two arms; the outcomes are one action, none, a fact that is not grounded,
two kinds, a repetition, and a failure; one source has no variation that was run, and
one variation breaks a rule in a repetition that differs, which the headline and the
reports see differently; the limits (`MaximumDeltaPointers` 4,
`MaximumPatternEffects` 1, `MaximumWork` 16, `MaximumArrayItems` 3, `MaximumSize` 2) are
scaled down until they are exceeded by some and met by others, as those of the code are
by large documents, and a key of two pointers that cost one and two units lets the
work end within the key of an item as well as before an item; two stops or kills of two sources leave each file torn, missing or
from an earlier run, and up to two reviews settle some findings and not others. The
bounds that the code does not have are guards of the actions they bound: `interrupts`
and `invocations` of a plan, `CancelLimit`, `MaxCommands`, `MaxTimers`, `MaxFaults`,
`MaxKills`, `MaxCancels`, `MaxInterrupts` (`ConcurrentTrials`), `MaxInvocations`
(`StressCampaigns`), `Requests`, `MaxStarts`, `MaxPosts`, `MaxTime`, `maxStops` and
`maxReviews`. `MaxLines` is also the size limit of the code.
`CHECK_DEADLOCK FALSE` is set where the system stops: when no invocation is left
(`Campaign`, `LocalTarget`, `ProbeCommand`), or after the verdict
(`StressCampaigns`, `SemanticPipeline`), or at the end of the clock (`TraceStore`).

**Fairness.** `Campaign`: weak fairness of `Work`, what a live process does next.
Every await of the campaign is bounded by a timeout (target, model provider), so
the process goes on; nothing is assumed of the user, the interrupts and the kills.
`ConcurrentTrials`: weak fairness of `Work` for the same reason; cancellations
that were scheduled are delivered by the event loop. `ComposedEnvironment`: weak
fairness of `Resume(c)` only, which is the event loop and its timers. No adapter
is assumed to answer: a callback may hang for ever, and the case still ends.
`ReviewStore`: weak fairness of `Work(r)` for each reviewer; a command holds the
lock only while it runs and the kernel releases it with the descriptor. Weak
fairness of waiting for the lock is enough because commands are finitely many.
`StressCampaigns`: weak fairness of `Loop` and of `Connection`, the code between two
awaits and the timers that bound each await; none of `Environment`, which may never
answer. `LocalTarget`: weak fairness of `Invoker`, again the event loop and its
timers, none of the worker. `ProbeCommand`: weak fairness of `Step(s)`: prompts are
answered, the target and the model answer or time out, a lock that is taken is
given back at the latest by the kernel. `SemanticPipeline`, `TraceStore` and
`FindingReports` state safety only (an observation is ended by its deadline).

## 4. Theorems

`EvidenceProofs`, of the journal, for any finite set of units, any set of processes
and any size limit (the assumptions are those `TrialJournal` states of its constants):

- `TypeCorrect`: `Spec => []TypeOK`
- `NoTrialStartsTwice`: `Spec => []StartsAtMostOnce`
- `AcknowledgedOutcomesSurvive`: `Spec => []AcknowledgedIsDurable`
- `ResumeSettles`: `Spec => ResumeSettlesEveryDelivery`
- `UndisturbedJournalReopens`: `Spec => []UndisturbedReopens`
- `JournalImplementsOutcomes`: `Spec => ImplementsOutcomes`, that is,
  `TrialJournal` refines `TrialOutcomes` through what is durable

None of these is inductive alone: `starts[u]` counts permissions, while the guard
that bounds it reads the memory of one process. `Inv` closes the gap.
`LockProtects`: only the holder of the lock is inside an operation.
`PendingIsLegal`: the record being appended was a legal transition when it was
checked. `AnchorFollowsMemory`: once the anchor is replaced it is the process's
memory and that record. `NothingForgotten`: the visible anchor, the durable
anchor and the memory of every process that may append all contain every start
and every acknowledged transition. A start is permitted only if the memory says
"planned", and by `NothingForgotten` that memory would know of an earlier one.
One lemma per conjunct (`NextKeepsType`, `NextKeepsLock`, `NextKeepsPending`,
`NextKeepsAnchorOrder`, `NextForgetsNothing`) has one step per action; the lemmas
about `StateOf` say how the last transition of a unit changes when a chain grows.
`UndisturbedReopens` needs to know what each process has done of its append
(`UndisturbedInv`): as long as nothing was cut short, file, anchor and disk agree
whenever everybody is between two operations. For the refinement, `DurableLeads` says
that the visible anchor, and the memory of whoever may still replace it, continue what
is durable: so when a directory is synced every unit moves to a successor of its
durable state, and when power is lost the durable state is the one that is found.

And of the findings file (`FindingRuns`), for any campaign, whatever its sources are
judged to be, whatever is packaged of them and whichever packages are refused (all that
is assumed is that a campaign has a sequence of sources, `SourcesAreSequences`):

- `RunsInvariance`: `RunSpec => []RunInv`
- `FileIsTheEvidence`: `RunSpec => []SnapshotIsTheEvidence`
- `FileIsFinal`: `RunSpec => SnapshotIsFinal`

A run that reconciles a complete campaign writes the findings file once more. That it
writes what is there is not in the file: `RunInv` says that the file is what the whole
evidence and the key on disk make of it, that the key is there before the first source
is judged, and that a torn key has no file beside it. So neither can have changed.

And of the reports (`CampaignReports`), for any campaign, any number of sources, cases,
differences, rules, trials and reviews, wherever the run was stopped, killed and resumed:

- `ReportsTellTheSame`: `RunSpec => []ExitCodesAgree`

Of judging it uses `LinesAreJudged` only, so it holds of every way to judge that leaves
a source in that form. `EvidenceInv` says that the evidence has a line per source, judged
or not prepared, and that only judgments a reviewer can make are in force; the rest is
about one evidence. `LineFindings` takes the findings apart by their kind, and a lemma
per kind (`UnstableFacts`, `BehaviorFacts`, `ReproducedFacts`, `OtherFacts`) says what
its fields are; from these, `LineNamesDiffer`: no two findings share a name.
`PatternFacts` counts: the members of a pattern are as many as its findings because the
names differ, and all have one status because they are grouped by it; so
`ReportsAreAccepted`, whatever was reviewed. `CasesReported` goes from cases to findings
and back, `HeadlineAgrees` follows the statuses from both sides, and `ExitsAgree` compares
the exit codes before any review line by line (`LinesAgree`).

The proof was attempted of a property that TLC had not refuted, and failed for two
reasons, which no instance had: an unstable case whose rule findings were all reviewed
keeps its section, and a source without a variation that was run is left out of the
headline. Both are in the property now, in section 5, and in the instances of the run: without
either exception, TLC refutes it.

`CampaignProofs`, for any plans, any number of operators and of invocations
(assumptions `PlansAreNotEmpty`, `BoundsAreNumbers` and `NoDrawIsNotADraw`):

- `Invariance`: `Spec => []IInv`
- `JustifiedCalls`: `Spec => []CallsAreJustified`
- `HonouredStops`: `Spec => []StopIsHonoured`
- `AgreeingRecords`: `Spec => []RecordsAgree`
- `FinalEvidence`: `Spec => []EvidenceIsFinal`
- `OutcomesKept`: `Spec => KeepsOutcomes`, that is, `Campaign` refines `TrialOutcomes`

The runner trusts its memory, and a later invocation trusts the files; neither is in
the properties. `IInv` is `TypeOK`, `Stored` and `AtWork`. `Stored` is what the files
and the history satisfy wherever the process is killed, and all that the next one can
rely on: a unit that was called is running or has an outcome of a call, its case did
not fail and its original completed; all units of a case that were called ran with one
draw, which is the one of the ledger and of the evidence where there is one; evidence is
of settled cases; and while a target may hold an unfinished trial, a unit is running or
quarantined that nobody attested.
`AtWork` is what a live process knows where it stands: `DrawOK`, the variations in
memory are those of the earlier trials of the case; `TrialsOK`, which trials of the
order have been passed; `StopOK`, how many calls a stop can still let through;
`TallyOK`, the counters; `AllowanceOK`, that what is left of the announced plan covers
the trials still to be sent. `Kill` and `Leave` keep `Stored` because every other
action keeps it; `OpenForResume` to `OpenPersistence` establish `AtWork` from `Stored`.

`ConcurrentTrialsProofs`, for any number of repetitions, variations, slots and
interrupts (`PlanIsNotEmpty`, `RequestsMayOverlap`, `InterruptsAreBounded`):

- `Invariance`: `Spec => []IInv`
- `NothingLeaks`: `Spec => []NothingIsLeaked`
- `NothingSentInDoubt`: `Spec => NothingIsSentInDoubt`

That no trial is dropped cannot be seen from the trial. `IInv` says where it is: a
repetition belongs to one worker; the task of a variation is alive only while the
worker of its repetition awaits the group; a trial that was started is being run by a
task, or its error was raised in its group or among the workers; the slots taken are
those of the requests in flight. Cancellations do not occur in the invariant, so it
holds whichever tasks they reach and in whichever order.

`ComposedEnvironmentProofs`, for any cases and cancellations
(`TheseAreCompositions`, `CancellationsAreBounded`, `BeforeIsNoCase`):

- `Invariance`: `Spec => []IInv`
- `IsolationOfCases`: `Spec => []CasesAreIsolated`
- `HooksHonoured`: `Spec => HooksAreHonoured`

One case at a time holds the lock (`OneHolds`), and while it is within its lifecycle
the environment counts as uncertain (`TaskOK`); so only the fixture of the holder
matters (`FixtureOK`). What may still change it is the holder's own, and as long as
nothing was given up or left in doubt (`Trusted`) it is at most the operation that is
awaited. The environment is called certain again only by a trusted holder whose
cleanup answered, or whose reset never began, and then nothing is under way.
`ReviewStoreProofs`, for any sets of reviewers, findings and mechanisms, any
evidence and any limits (assumptions: those `ReviewStore` states of its constants):

- `Invariance`: `Spec => []Inv`
- `HistoryIsAlwaysValid`: `Spec => []HistoryStaysValid`
- `RecordedReviewsAreKept`: `Spec => []RecordedReviewsSurvive`
- `ImplementsReviewLog`: `Spec => ImplementsLog`, that is, `ReviewStore` refines
  `ReviewLog` (safety only, which is all that `ReviewLog` says)

A history is valid line by line, each against the lines before it and the
evidence. That it stays so cannot be seen from the file alone, because a decision
is checked before it is written and against evidence that has grown since. `Inv`
adds what carries the check over: only the holder of the lock is past it
(`LockIsHeld`), so the history it extends is the one it checked
(`LockedIsChecked`); the evidence it loaded is a prefix of the present one
(`SeenIsPast`), and validity is monotone in the evidence (`ValidMonotone`) and
inherited by prefixes (`ValidPrefix`), which is what a power loss leaves
(`StableIsPrefix`). `ReplacedIsLast` connects a report to the line it reports.

`TargetProofs`, of `ProbeCommand`, for any sets of shells, outputs and trials and any
bounds:

- `ProbeInvariance`: `ProbeSpec => []ProbeInv`
- `AlwaysSafe`: `ProbeSpec => []ProbesAreSafe`
- `NeverCalledInDoubt`: `ProbeSpec => NoCallInDoubt`

`ProbesAreSafe` speaks of the files and of the history; that a step keeps it depends
on where every invocation stands. `ProbeInv` says so: `LockInv`, that only the
holder of the lock is past taking it, and that the receipt says "reusable" while it
makes calls; `DoubtInv`, that while a doubt was raised and not lifted either the
receipt says "quarantined" or the holder of the lock is on its way to write it;
`CallInv`, that a trial was called at most once, and not while the journal plans it.
There is one lemma per group of stages, and `HolderFacts` gives each of them what being past the lock implies.

And of `LocalTarget`, for any invocations, sessions, limits, cancellations and faults
(`LimitsAreNat`, `SessionsAreNamed`):

- `Invariance`: `Spec => []IInv`
- `SoundInvocations`: `Spec => []InvocationsAreSound`

An answer carries no name of the invocation it answers, so that it is the right one is
a matter of counting. A worker has at most one message to read, and what the invoker's
worker wrote answers an earlier message, or the one sent last once that was read
(`WireOK`); an invocation is counted before it is sent, and sent to one worker
(`SentOK`, `LimitsOK`); a failure without doubt is one of an invocation that was not
sent (`ResultsOK`); a worker is forgotten only in the step that asks it to stop
(`ProcessesOK`).

`BoundedMemoryProofs`, of `SemanticPipeline`, for any records, selections of operators,
saved augmentations, sizes, limits and trials (`RecordsAreGiven`, `PlansAreSelections`,
`ProfilesAreFew`, `SizesAreNat`, `ArmsAreTried`, `LimitsAreNat`):

- `PipelineInvariance`: `Spec => []PipelineInv`
- `PlannedCalls`: `Spec => []CallsStayInPlan`
- `SoundCache`: `Spec => []CacheIsSound`
- `EarnedResults`: `Spec => []ResultsAreEarned`

`CallsStayInPlan` compares what was called with a table for the whole campaign;
`PipelineInv` says how far the calls of each kind can have come at the place where the
invocation stands: the full share of every fresh record before, and for the record at
hand what its stage and operator allow (`Used`). A cached answer costs nothing, so these are
bounds. The cache is kept by four lemmas, one for each way it changes (stored, found,
evicted, discarded): its total is a recursive sum, and the lemmas say what a sum is
after an element is appended or removed. What remains of a candidate's checks can only
clear doubts about its meaning, and a stable arm has one outcome. Sums are recursive
functions: that such a function exists, and what it adds up to, needs an induction,
which is drawn from the pigeonhole principle (`Climbing`: if `n` were not reached,
adding one would map a finite set one to one into a smaller one).

And of `TraceStore`, for any payloads, requests and limits (`ReceiverLimits`,
`WindowsFit`, `PayloadsAreSpans`, `RequestsAreNamed`: the limits are numbers, an
observation may hold a span, a span that can be read has a trace, every request has a
correlation):

- `ReceiverInvariance`: `TraceSpec => []ReceiverInv`
- `StoreExact`: `TraceSpec => []StoreIsExact`
- `CompleteWhole`: `TraceSpec => []CompleteIsWhole`

`CompleteIsWhole` relates an answer to everything that was ever posted; the store
forgets most of that. `ReceiverInv` says what it may forget. The last version of every
accepted span is stored, too old, or was taken by an observation (`HoldsAll`), which an
update, a pruning and a removal by identity each keep. A refused name has a mark, or its
refusals may be forgotten (`Remembers`); that the oldest mark may go when there is one
too many needs the order: the marks are sorted by the last refusal of their names
(`Placed`), so as many other names as there may be marks were refused after it
(`FirstMayGo`). What an observation matched, and what it returned, is related to the
store at the moment it was seen and stays so, because the log only grows, spans only get
older and observations stay observed (`MatchedOK`, `ObservedOK`). The threads that are
not closed are as many as the slots that are taken.

`StressCampaignsProofs`, of `StressCampaigns` with `HttpEnvironment`, for any number of
repetitions, groups and invocations, any budget of calls and any number of timers and
lost answers (`SetupIsOptional`, `BoundsAreNat`, `CampaignsAreNotEmpty`,
`CommandsAreKnown`):

- `Invariance`: `Spec => []IInv`
- `ConnectionHolds`: `Spec => []ConnectionIsSound`
- `VerdictHolds`: `Spec => []VerdictIsEarned`
- `PostsAreUndoubted`: `Spec => NothingIsPostedInDoubt`

Whether a result was disturbed is history that no guard reads, so the invariant has to
say why it never is. `Connected`: between two cases, unless the flag of the path is up,
nothing is on the wire and nothing is armed (`Between`); while a case runs and nothing
of it failed, at most the request it waits for is on the wire, and its event is armed
only where it will still be cleaned (`Undoubted`); the body of a case runs only in that
state, on a fixture of its own (`Within`). What may still be posted is counted against
the reservation (`Budget`). `Looped`: the trials so far are of a sound execution each or
say otherwise, and a verdict is the function of all of them. `Kept`: an output is whole
only with the result of all trials, packages are its own, files that were found are
left alone, and an exit status has its files behind it (`ExitIsBacked`). Outside of the
loop there is no connection (`Disconnected`).

**Only model-checked.** Liveness under fairness, and ENABLED, are beyond the prover:
`InvocationsEnd`, `TheRunEnds`, `EveryCaseEnds`, `CommandsEnd`, `ProbesEnd`,
`CampaignEnds`. So are the state properties of `FindingReports`
(`EvaluationsAreSound`, `VerdictsAreStable`, `FindingsFileIsSound`), and that its judged
sources have the form `LinesAreJudged` assumes: they compute with recursive operators over trees, paths and matchings, which the prover
cannot expand, and what those yield for every input is an induction over data.
`TimedOutTargetIsLeftAlone` is refuted.

## 5. Findings

One is a run that TLC refutes on the model of the code as it is; the text with
all lines is in `PROJECT.json`. `campaign_timeout`: after a timeout that leaves the
target in doubt, a resumed campaign contacts it without an attestation.

Known divergences that the models contain and no run singles out:

- A pause requested while the variations of a case are generated is raised inside
  the runner's `except RuntimeError`, which records a trial that was never sent as
  inconclusive, and the pause is announced twice (`Campaign`).
- With several requests in flight, a trial whose outcome cannot be projected is
  settled before its doubt is raised, and the handler asserts an active trial. At
  concurrency 1 a cancellation that is delivered after its trial ended reaches the
  same assertion (`CancelLate` in `Campaign`).
- A cancellation that reaches a worker between two trials makes it disappear; the
  results are then incomplete and a `KeyError` escapes (`ConcurrentTrials`).
- A pattern with a sibling that was judged automatically is offered by the report,
  with its next command, and can never be decided: `Cohort` against `ValidPattern`
  in `ReviewStore`.
- A review of a single finding may be the one record too many: it is appended and
  acknowledged, and then nothing reads the history any more (`MaxRecords`).
- A candidate may pass generation without a reparsed frame
  (`test_dataset_augmentation.py:2895` expects so), but
  `_validate_precomputed_augmentation` (`dataset_evaluation.py:1206`) then refuses
  the whole case as a failure of source preparation (`AugmentationIsValid`).
- `_compare_response_outcomes` (`dataset_evaluation.py:1932`) compares with Python's
  `==`, under which `true` equals `1`, while the grouping of trials tells them apart:
  a case may show "no divergence" between arms that share no group (`Alike`).
- A rendering that cannot be attributed to the requested model is refused but stays
  in the cache, so the same request is refused again without a call
  (`Unidentified`; `CacheIsSound` excepts it).
- A kill during the smoke run of `ul probe` leaves a receipt that says "reusable",
  so does a kill during a trial until that output is resumed, and a kill while a
  doubt is being written forgets it (`Kill` in `ProbeCommand`). The next invocation
  calls the target. `doubted` leaves these doubts out: it is what some receipt or
  live invocation still knows, and `NoCallInDoubt` and `DoubtIsOnRecord` say nothing
  of a call that a kill cut short, `TrialsAreSentOnce` only that a trial is not sent
  again.
- A worker that exits by itself is reaped before it is terminated, so the processes
  it started are not signalled (`local_target.py:751-756`) and the next worker is
  started beside them, against `docs/local-targets.md:142` (`Terminate` in
  `LocalTarget`).
- `observe` removes by identity what it matched one lock earlier
  (`otlp_observation.py:405-416`): an update that arrived in between is deleted
  unseen. And a refusal whose mark was evicted, expired or taken by another
  observation no longer keeps an observation from being complete (`MayBeForgotten`
  in `TraceStore`).
- A regression whose target times out without evidence in the last repetition of a
  case goes on with the next case: `run_dataset_regressions`
  (`dataset_regression.py:709-716`) learns of a doubt only from evidence and from
  executions that say `target_state_uncertain` (`EndsInDoubt` in `StressCampaigns`).
- A campaign checks the digest of a local target, the permission to call models and
  the credentials when manifest, journal and evidence exist (`execution.py:53-134`).
  Refused there, it has no preflight receipt: no resume accepts the files, and a fresh
  run finds that its output exists (`NotAuthorised` in `Campaign`). A kill between two
  of these creations does the same.
- `--dry-run --resume --resolve-quarantine-after` saves the attestation, and a dry run
  or a resume that is refused later quarantines running trials all the same
  (`OpenForResume`, `ResolveQuarantine`).
- The regression commands leave their output behind when they are interrupted or fail,
  and every further run refuses because it exists; `ul event` creates the output of
  correction and retry only after the calls were made; a torn output can never be
  reconciled. An exception that nobody handles ends with 1, as violations do (`Crash`,
  `FailToSave`, `Reconcile`).
- Grouping may fail an assertion (`dataset_evaluation.py:1301`): a variation is judged
  reliable against what the original did, and grouped by the actions of the source.
  Its trials are journaled by then, so every resume fails in the same place
  (`JudgingFails`; `VerdictsAreStable` says when).
- The categories of a stable difference depend on the repetition that stands for the
  arm when the original repeats an action that the variation does once (`DoneOnce`).
- Two findings of one category in one case, seen in the same repetitions, get one
  occurrence id: the snapshot is written, and `ul report` refuses to read it (`Twins`).
  It also refuses a findings file without findings.
- Trace pointers are put down in the order of the execution and validated to be in the
  order of their hashes (`finding_adapters.py:895-938`): with two traces it depends on
  the key whether the snapshot can be built; if not, the campaign ends with 2, and
  every resume of it too (`SeveralTraces`).
- A difference may cite 100 pointers, two per repetition that reproduces it, so a
  finding of more than 50 repetitions is refused (`MaximumDeltaPointers`).
- Packages compare all fields and positions where grouping compares what is grounded:
  a stable difference may be packaged as intermittent (`Vary`).
- A key file that a kill left empty is malformed for every resume, and a new run finds
  its outputs there already (`RefuseKey`).
- Exit codes (`README.md:112` of the repository documents them): a run may end with 0
  or 2 where `ul dataset report` ends with 2 or 1, and with 1 where it ends with 2:
  when original and variation are both unstable, when a violation was not reproduced,
  when a rule is not evaluable. The headline of a report may say that all is clear
  where its exit code does not: for violations by the original alone, for unstable
  cases whose rule findings were all reviewed, for rules that cannot be evaluated, and
  for a source no variation of which was run beside one that was compared
  (`dataset_review.py:1966-1983`, `NothingWasRun`). `RunAndReportAgree` and
  `ReportsAgree` list these cases and exclude all others.
- An unstable case whose rule findings were all reviewed as expected is still printed
  under "Consequential behavior changes" (`dataset_review.py:2286-2297`), while the
  headline above it asks for no action (`Represented` in `CampaignReports`).
- Of a captured state that is null the record says "verified" where the package says
  "unavailable" (`NullState`).

## 6. Not modelled

I/O errors of the evidence and ledger writes (kills during them are); a campaign
that starts from another run's augmentations; the attested response-only path of the
executor that takes no lock and shares no state; the contents of inputs, outputs,
frames and digests. Of the review store: its keys and HMACs, the byte limit, the
Windows branches, a power loss that takes evidence (a line that a reviewer read is
taken as durable). Of the HTTP environment: the response-only connection, templates,
pointers, endpoint checks. Of the stress and regression commands: `trace-group`, the
import of traces and the priorities of a stress plan, the replay of a regression
against a probe target. Of the local target: the Windows job worker and the sandbox
inside the worker. Of the pipeline: the order in which the trials of an arm are drawn;
what a materiality judge says is any of its outcomes. Of the trace store: parsing,
redaction and the trajectory made of the spans. Of rules, findings and reports: how
pointers are hashed and the size limits of JSON documents, the vertical facets of
patterns, the evidence schemas of earlier versions, the formats of `finding_export.py`,
the display of sensitive values, layout and wording.
Documents (augmentation definitions, redaction, presentation) and typed models are
functions without a state. Components without a module are listed in `PROJECT.json`
with the reason.

## 7. Plan

What is left to prove: that judging leaves a source in the form that `LinesAreJudged`
assumes, for which the grouping and the comparison of trials have to become recursive
functions; and that an evaluation depends on its budget in one way only
(`EvaluationsAreSound`), for which the recursion over values has to.

What is left to model: the import and materialisation of traces, and the reuse of
another run's augmentations.
