------------------------------ MODULE Campaign ------------------------------
(***************************************************************************)
(* A dataset campaign at concurrency 1, across any number of invocations   *)
(* of "ul dataset evaluate" (cli/src/ul_cli/dataset/evaluation/ and the    *)
(* runner of sdk/src/ul/dataset_evaluation.py).                            *)
(*                                                                         *)
(* The campaign replays every recorded case: it prepares the case's        *)
(* variations once, runs an original trial and one trial per accepted      *)
(* variation in each repetition, and appends one line of evidence.  What   *)
(* it must not do is contact the target twice for one trial, contact a     *)
(* target whose state is in doubt, lose an outcome, or count one wrongly,  *)
(* although the user may interrupt it at any point, the process may be     *)
(* killed at any point, and a later invocation resumes from four files:    *)
(* trial journal, augmentation ledger, evidence and attestation.           *)
(*                                                                         *)
(* One action is one stretch of code that no interrupt or kill can split   *)
(* in a way that matters.  A journal append is one step here: TrialJournal *)
(* shows that it is atomic, or leaves a journal that is never resumed.     *)
(***************************************************************************)
EXTENDS Integers, Sequences, FiniteSets

CONSTANTS
    Plans,                  \* the sizes of campaign considered, see below
    Operators,              \* number of selected augmentation operators
    MaxInvocations,         \* bound: invocations, over all plans
    NoDraw                  \* "no augmentation"

(* A plan has a number of selected interaction records, of repetitions of  *)
(* every trial, and two bounds: how many interrupts the user may send, and *)
(* how many invocations of the command there are.                          *)
ASSUME PlansAreNotEmpty ==
    Plans \subseteq [cases : Nat \ {0}, repetitions : Nat \ {0}, interrupts : Nat,
                     invocations : Nat]
ASSUME BoundsAreNumbers ==
    /\ Operators \in Nat \ {0} /\ MaxInvocations \in Nat
    /\ \A p \in Plans : p.invocations <= MaxInvocations

(* A trial unit; operator 0 is the original replay, "current_baseline".    *)
UnitOfPlan(p) == [case : 1 .. p.cases, rep : 1 .. p.repetitions, op : 0 .. Operators]
Unit == UNION {UnitOfPlan(p) : p \in Plans}

Settled == {"completed", "inconclusive", "skipped", "quarantined",
            "errored", "inapplicable", "rejected"}
State == {"planned", "running"} \cup Settled

(* What generating the variations of a case may give: a verdict on every   *)
(* operator, and whether the recorded output can be compared at all.  run  *)
(* tells one draw of the model from another.                               *)
Verdict == {"passed", "rejected", "inapplicable"}
Draw == [run : 1 .. MaxInvocations, verdict : [1 .. Operators -> Verdict],
         comparable : BOOLEAN]

ASSUME NoDrawIsNotADraw == NoDraw \notin Draw

(* What a resuming command may say of the campaign, in an order that       *)
(* follows the code: the target, with its credentials; what the run        *)
(* context covers (dataset, operators, fixture, rules, repetitions); what  *)
(* only the effective command holds (paths, state digests, budgets); the   *)
(* settings of the evaluator, which come from the environment.             *)
Aspect == {"target", "context", "command", "evaluator"}

(* An option is left out, or gives the recorded value, or another one.  A  *)
(* bound: a command says all of them as recorded, or at most one.          *)
Request ==
    LET only(x) == [a \in Aspect |-> IF a = x THEN "other" ELSE "nothing"]
    IN  [says : {only(x) : x \in Aspect \cup {"none"}} \cup {[a \in Aspect |-> "recorded"]},
         dry : BOOLEAN]

(* The evaluator's settings are read back from the manifest, whatever the  *)
(* environment says now.                                                   *)
Restored(says) == [says EXCEPT !["evaluator"] = "recorded"]

(* normalize_dataset_evaluation_request: what is left out is as recorded.  *)
(* What is left is the set of aspects in which the command differs.        *)
Normalised(r) ==
    [differs |-> {a \in Aspect : Restored(r.says)[a] = "other"}, dry |-> r.dry]

AsRecorded == [differs |-> {}, dry |-> FALSE]

VARIABLES
    plan,           \* the plan of this campaign, as in its manifest
    retains,        \* the campaign keeps an augmentation ledger
    created,        \* how many of manifest, journal and evidence file exist
    receipt,        \* the evaluator preflight receipt exists
    outcome,        \* outcome[u]: what the trial journal says of unit u
    ledger,         \* ledger[c]: the augmentation saved for case c
    evidence,       \* the lines of the evidence file
    torn,           \* which of evidence and ledger end in half a line
    attested,       \* units named by the quarantine resolution, if any
    asked,          \* what the command at hand asks for
    allowance,      \* target calls that its plan still allows
    pc,             \* where the process stands; "down": there is none
    case,           \* the case at hand
    place,          \* position in the case's order of trials
    draw,           \* the augmentation in memory
    result,         \* what the trial at hand gave
    request,        \* CampaignControl: pause or cancel requested
    inFlight,       \* the trial's task is registered for cancellation
    cancelling,     \* task.cancel is scheduled and has not been delivered
    uncertain,      \* the runner's _target_state_uncertain
    tally,          \* the progress tracker's counters
    invocations,    \* (history) invocations so far
    interrupts,     \* (history) interrupts so far
    contacted,      \* (history) units whose target call was sent
    suspect,        \* (history) why the target may hold state of an unfinished trial
    ranWith,        \* (history) ranWith[u]: the augmentation u was run with
    lateStarts,     \* (history) target calls sent since a stop was requested
    notices,        \* (history) terminal progress events of this invocation
    ending          \* (history) how the last invocation ended

files   == <<plan, retains, created, receipt, outcome, ledger, evidence, torn, attested>>
trial   == <<case, place, draw, result>>
control == <<asked, allowance, request, inFlight, cancelling, uncertain>>
history == <<invocations, interrupts, contacted, suspect, ranWith, lateStarts,
             notices, ending>>
vars    == <<files, pc, trial, control, tally, history>>

(* All of the history but how the invocation ended.                        *)
record  == <<invocations, interrupts, contacted, suspect, ranWith, lateStarts>>
---------------------------------------------------------------------------
Case == 1 .. plan.cases
Planned == UnitOfPlan(plan)
UnitsIn(states) == {u \in Planned : outcome[u] \in states}
UnitsOf(c) == {u \in Planned : u.case = c}

(* Mutant: a case whose preparation failed is taken up again.              *)
ProcessedWithResult ==
    {evidence[i].case : i \in {j \in DOMAIN evidence : evidence[j].kind = "result"}}

Processed == {evidence[i].case : i \in DOMAIN evidence}
Failed == {evidence[i].case : i \in {j \in DOMAIN evidence : evidence[j].kind = "failure"}}
Remaining == Case \ Processed
FirstRemaining == CHOOSE c \in Remaining : \A d \in Remaining : c <= d

(* attempted_target_calls: outcomes that stand for a call of the target.   *)
Attempted == UnitsIn({"completed", "inconclusive", "quarantined"})

NoWork == [completed |-> 0, skipped |-> 0, failed |-> 0, running |-> 0, calls |-> 0]

(* hydrate_terminal_states and the first record_usage.                     *)
TallyOfJournal ==
    [completed |-> Cardinality(UnitsIn({"completed"})),
     skipped   |-> Cardinality(UnitsIn({"skipped", "inapplicable", "rejected"})),
     failed    |-> Cardinality(UnitsIn({"errored", "inconclusive", "quarantined"})),
     running   |-> 0,
     calls     |-> Cardinality(Attempted)]

Accepted == {o \in 1 .. Operators : draw.verdict[o] = "passed"}
Declined == {u \in UnitsOf(case) : u.op # 0 /\ u.op \notin Accepted}

(* The augmentation was read from the ledger of an earlier invocation.     *)
Precomputed == draw # NoDraw /\ draw.run < invocations

(* The order of trials: per repetition the original, then each operator.   *)
Places == 1 .. plan.repetitions * (1 + Operators)
UnitAt(k) == [case |-> case, rep |-> 1 + (k - 1) \div (1 + Operators),
              op |-> (k - 1) % (1 + Operators)]
Here == UnitAt(place)
Original(u) == [u EXCEPT !.op = 0]

(* A call of the target that has no answer yet.                            *)
AbandonedCall == IF pc = "waiting" THEN {"unfinished"} ELSE {}

(* CampaignControl.requested_action.                                       *)
StopRequestedByCancel == request = "cancel"                     \* mutant

StopRequested == request # "none"

(* What opening the journal makes of a trial state: a trial left running   *)
(* is quarantined.                                                         *)
RecoveredStateRetried(s) == IF s = "running" THEN "planned" ELSE s   \* mutant

RecoveredState(s) == IF s = "running" THEN "quarantined" ELSE s

(* The invocation ends; all that is left of it is in the files.            *)
Leave(how) ==
    /\ pc' = "down" /\ case' = 1 /\ place' = 1 /\ draw' = NoDraw
    /\ asked' = AsRecorded /\ allowance' = 0
    /\ result' = "none" /\ request' = "none"
    /\ inFlight' = FALSE /\ cancelling' = FALSE /\ uncertain' = FALSE
    /\ tally' = NoWork
    /\ ending' = how

Init ==
    /\ plan \in Plans /\ retains \in BOOLEAN
    /\ created = 0 /\ receipt = FALSE /\ torn = {}
    /\ outcome = [u \in Unit |-> "planned"]
    /\ ledger = [c \in Case |-> NoDraw]
    /\ evidence = <<>> /\ attested = {}
    /\ pc = "down" /\ case = 1 /\ place = 1 /\ draw = NoDraw
    /\ asked = AsRecorded /\ allowance = 0
    /\ result = "none" /\ request = "none"
    /\ inFlight = FALSE /\ cancelling = FALSE /\ uncertain = FALSE
    /\ tally = NoWork
    /\ invocations = 0 /\ interrupts = 0
    /\ contacted = {} /\ suspect = {}
    /\ ranWith = [u \in Unit |-> NoDraw]
    /\ lateStarts = 0 /\ notices = 0 /\ ending = "none"
---------------------------------------------------------------------------
(* What inspection without a call knows of an operator on a case: a saved  *)
(* candidate is known to have passed or not, any other may still pass.     *)
OperatorStatus(c, o) ==
    CASE ledger[c] = NoDraw -> "conditional"
      [] ledger[c] # NoDraw /\ ledger[c].verdict[o] = "passed" -> "eligible"
      [] OTHER -> "ineligible"

(* The target calls a plan allows for: in every repetition the original    *)
(* and every variation there may be, of each case that is left.            *)
PlannedCalls ==
    LET planned(c, o) == o = 0 \/ OperatorStatus(c, o) # "ineligible"
        texts == {t \in Remaining \X (0 .. Operators) : planned(t[1], t[2])}
    IN  plan.repetitions * Cardinality(texts)

(* A new campaign: manifest, journal and evidence file, in this order.  An *)
(* existing manifest has to be the same, an existing journal is refused,   *)
(* as is an existing evidence file: nothing is written then.               *)
StartFresh ==
    /\ pc = "down" /\ invocations < plan.invocations
    /\ created <= 1
    /\ created' = 1
    /\ pc' = "creating"
    /\ invocations' = invocations + 1
    /\ notices' = 0 /\ lateStarts' = 0 /\ ending' = "none"
    /\ UNCHANGED <<plan, retains, receipt, outcome, ledger, evidence, torn, attested, trial,
                   control, tally, interrupts, contacted, suspect, ranWith>>

CreateNext ==
    /\ pc = "creating"
    /\ created' = created + 1
    /\ IF created' = 3
       THEN pc' = "preflight" /\ allowance' = PlannedCalls
       ELSE pc' = "creating" /\ UNCHANGED allowance
    /\ UNCHANGED <<plan, retains, receipt, outcome, ledger, evidence, torn, attested, trial,
                   asked, request, inFlight, cancelling, uncertain, tally, history>>

(* _load_recorded_manifest: manifest, journal, anchor and evidence marker  *)
(* belong together.                                                        *)
SidecarsAreComplete == created = 3

(* A recorded target whose identity or credentials changed is refused,     *)
(* before any file is opened for writing.                                  *)
TargetIsTheRecorded(command) == "target" \notin command.differs

(* Resume, in earnest or as a dry run: the journal is opened, and every    *)
(* trial left running is quarantined, before what is asked is compared     *)
(* with what is recorded.                                                  *)
OpenForResume(r) ==
    /\ pc = "down" /\ invocations < plan.invocations
    /\ SidecarsAreComplete
    /\ asked' = Normalised(r)
    /\ TargetIsTheRecorded(asked')
    /\ outcome' = [u \in Unit |-> RecoveredState(outcome[u])]
    /\ pc' = "opened"
    /\ invocations' = invocations + 1
    /\ notices' = 0 /\ lateStarts' = 0 /\ ending' = "none"
    /\ UNCHANGED <<plan, retains, created, receipt, ledger, evidence, torn, attested, trial,
                   allowance, request, inFlight, cancelling, uncertain, tally, interrupts,
                   contacted, suspect, ranWith>>

EvidenceIsWhole == "evidence" \notin torn

(* Whole lines, each written under the context that is asked for now, at   *)
(* most one of a case.                                                     *)
EvidenceIsReadable ==
    /\ EvidenceIsWhole
    /\ evidence # <<>> => "context" \notin asked.differs
    /\ \A i, j \in DOMAIN evidence : evidence[i].case = evidence[j].case => i = j

ConflictsWithFailure(u) ==
    /\ u.case \in Failed
    /\ outcome[u] \notin {"planned", "errored"}
    /\ ~(u.op # 0 /\ outcome[u] \in {"inapplicable", "rejected"})

(* A source whose failure is in the evidence has no trial left to run: the *)
(* earlier process may have been killed between evidence and journal.      *)
ReconciledOutcome(u) ==
    IF u \in Planned /\ u.case \in Failed /\ outcome[u] = "planned" THEN "errored" ELSE outcome[u]

(* Every saved augmentation was generated under the context asked for, and *)
(* is the one that the evidence of its case was measured with.             *)
LedgerIsReadable ==
    /\ "ledger" \notin torn
    /\ (\E c \in Case : ledger[c] # NoDraw) => "context" \notin asked.differs
    /\ retains => \A i \in DOMAIN evidence :
                     evidence[i].kind = "result" => ledger[evidence[i].case] = evidence[i].draw

(* _reconcile_source_preparation_failures, then the ledger is read.        *)
Reconcile ==
    /\ pc = "opened"
    /\ EvidenceIsReadable
    /\ \A u \in Planned : ~ConflictsWithFailure(u)
    /\ outcome' = [u \in Unit |-> ReconciledOutcome(u)]
    /\ IF ~LedgerIsReadable
       THEN Leave("refused")
       ELSE pc' = "reconciled" /\ UNCHANGED <<trial, control, tally, ending>>
    /\ UNCHANGED <<plan, retains, created, receipt, ledger, evidence, torn, attested, record, notices>>

RefuseEvidence ==
    /\ pc = "opened"
    /\ ~EvidenceIsReadable \/ \E u \in Planned : ConflictsWithFailure(u)
    /\ Leave("refused")
    /\ UNCHANGED <<files, record, notices>>

(* validate_resume_augmentation_durability.                                *)
AugmentationsAreDurable ==
    retains \/ {u.case : u \in UnitsIn(Settled)} \subseteq Failed

(* What is quarantined has to be exactly what was attested; and there is   *)
(* nothing to attest otherwise.                                            *)
WithoutResolution(quarantined, resolution, flag) == quarantined = {} => ~flag  \* mutant

IsResolved(quarantined, resolution, flag) ==
    /\ quarantined # {} => resolution = quarantined
    /\ quarantined = {} => ~flag

(* The whole manifest that the command amounts to is the recorded one.     *)
AsksForTheRecordedCampaign(command) == command.differs = {}

RefuseManifest ==
    /\ pc = "reconciled"
    /\ ~AsksForTheRecordedCampaign(asked)
    /\ Leave("refused")
    /\ UNCHANGED <<files, record, notices>>

(* How the preparation of a resume ends, once it is known to be sound: the *)
(* receipt of the evaluator preflight is needed if a case is left, a dry   *)
(* run shows its plan, a campaign without remaining case is reported.      *)
GoOnWithResume ==
    CASE Remaining # {} /\ ~receipt -> Leave("refused")
      [] asked.dry /\ (Remaining # {} => receipt) -> Leave("planned")
      [] Remaining = {} /\ ~asked.dry -> Leave("completed")
      [] OTHER -> /\ pc' = "persistence"
                  /\ allowance' = PlannedCalls
                  /\ UNCHANGED <<trial, asked, request, inFlight, cancelling, uncertain,
                                 tally, ending>>

(* create_or_validate_durable_state, with or without the operator's        *)
(* --resolve-quarantine-after, which says the target was reset.  What is   *)
(* attested is saved once, by a dry run too, and then has to match.        *)
ResolveQuarantine(flag) ==
    LET quarantined == UnitsIn({"quarantined"})
        resolution  == IF attested = {} /\ flag THEN quarantined ELSE attested
    IN  /\ pc = "reconciled"
        /\ AsksForTheRecordedCampaign(asked)
        /\ attested' = resolution
        /\ suspect' = IF attested' = attested THEN suspect ELSE {}
        /\ IF IsResolved(quarantined, resolution, flag) /\ AugmentationsAreDurable
           THEN GoOnWithResume
           ELSE Leave("refused")
        /\ UNCHANGED <<plan, retains, created, receipt, outcome, ledger, evidence, torn, invocations,
                       interrupts, contacted, ranWith, lateStarts, notices>>

(* What the command still lacks before anything is called: permission for  *)
(* model calls, a credential, the digest of the target, network access.    *)
(* The files are there by now; without a receipt nothing will resume them. *)
NotAuthorised ==
    /\ pc \in {"preflight", "persistence"} /\ notices = 0
    /\ Leave("refused")
    /\ UNCHANGED <<files, record, notices>>

(* stop_at_requested_boundary: go on, or flush, tell the user and stop.    *)
BoundaryThen(label) ==
    IF StopRequested
    THEN Leave("stopped") /\ notices' = notices + 1
    ELSE pc' = label /\ UNCHANGED <<trial, control, tally, notices, ending>>

(* The evaluator answers, its receipt is saved; or the command fails.      *)
Preflight ==
    /\ pc = "preflight"
    /\ receipt' = TRUE
    /\ BoundaryThen("persistence")
    /\ UNCHANGED <<plan, retains, created, outcome, ledger, evidence, torn, attested, record>>

PreflightFails ==
    /\ pc = "preflight"
    /\ Leave("failed")
    /\ notices' = notices + 1
    /\ UNCHANGED <<files, record>>

(* Progress starts from what the journal says; evidence and ledger are     *)
(* locked; the first remaining case is taken up.                           *)
OpenPersistence ==
    /\ pc = "persistence"
    /\ tally' = TallyOfJournal
    /\ pc' = "case"
    /\ case' = FirstRemaining
    /\ UNCHANGED <<files, place, draw, result, control, history>>
---------------------------------------------------------------------------
(* A case begins: a saved augmentation is used again.                      *)
BeginCase ==
    /\ pc = "case"
    /\ draw' = ledger[case]
    /\ pc' = IF draw' = NoDraw THEN "gate" ELSE "skip"
    /\ UNCHANGED <<files, case, place, result, control, tally, history>>

(* checkpoint_plan_outcomes: units of declined operators are settled.      *)
SkipDeclined(u) ==
    /\ pc = "skip"
    /\ u \in Declined
    /\ outcome[u] = "planned"
    /\ outcome' = [outcome EXCEPT ![u] = draw.verdict[u.op]]
    /\ tally' = [tally EXCEPT !.skipped = @ + 1]
    /\ UNCHANGED <<plan, retains, created, receipt, ledger, evidence, torn, attested, pc, trial,
                   control, history>>

SkipEnds ==
    /\ pc = "skip"
    /\ \A u \in Declined : outcome[u] # "planned"
    /\ pc' = IF Precomputed THEN "gate" ELSE "compare"
    /\ UNCHANGED <<files, trial, control, tally, history>>

(* The boundary before runner.run.                                         *)
CaseBoundary ==
    /\ pc = "gate"
    /\ BoundaryThen(IF draw = NoDraw THEN "augment" ELSE "compare")
    /\ UNCHANGED <<files, record>>

(* The augmentation engine answers; the case cannot be prepared (the       *)
(* recorded output does not project, or no usable semantics came back).    *)
Augment(verdict, comparable) ==
    /\ pc = "augment" /\ ~cancelling
    /\ draw' = [run |-> invocations, verdict |-> verdict, comparable |-> comparable]
    /\ pc' = IF retains THEN "save" ELSE "skip"
    /\ UNCHANGED <<files, case, place, result, control, tally, history>>

AugmentFails ==
    /\ pc = "augment" /\ ~cancelling
    /\ pc' = "failing"
    /\ UNCHANGED <<files, trial, control, tally, history>>

(* DatasetAugmentationLedger.append, write and fsync.                      *)
SaveAugmentation ==
    /\ pc = "save"
    /\ ledger' = [ledger EXCEPT ![case] = draw]
    /\ pc' = "skip"
    /\ UNCHANGED <<plan, retains, created, receipt, outcome, evidence, torn, attested, trial,
                   control, tally, history>>

(* _source_comparison_surface, needed only if there is a variation to run. *)
CompareSurface ==
    /\ pc = "compare"
    /\ pc' = IF Accepted = {} \/ draw.comparable THEN "trial" ELSE "failing"
    /\ UNCHANGED <<files, trial, control, tally, history>>
---------------------------------------------------------------------------
(* The next case, or the end of the loop.                                  *)
TakeUpNext(done) ==
    /\ pc' = IF Case \subseteq done THEN "cleanup" ELSE "case"
    /\ case' = IF Case \subseteq done THEN case
               ELSE CHOOSE c \in Case \ done : \A d \in Case \ done : c <= d
    /\ place' = 1 /\ draw' = NoDraw
    /\ UNCHANGED result

(* A source that cannot be prepared: evidence first, then the journal.     *)
WriteFailure ==
    /\ pc = "failing"
    /\ evidence' = Append(evidence, [case |-> case, kind |-> "failure", draw |-> draw])
    /\ pc' = "settling"
    /\ UNCHANGED <<plan, retains, created, receipt, outcome, ledger, torn, attested, trial,
                   control, tally, history>>

SettleFailed(u) ==
    /\ pc = "settling"
    /\ u.case = case
    /\ outcome[u] = "planned"
    /\ outcome' = [outcome EXCEPT ![u] = "errored"]
    /\ UNCHANGED <<plan, retains, created, receipt, ledger, evidence, torn, attested, pc, trial,
                   control, tally, history>>

SettlingEnds ==
    /\ pc = "settling"
    /\ \A u \in UnitsOf(case) : outcome[u] # "planned"
    /\ tally' = [tally EXCEPT !.failed = @ + Cardinality(UnitsOf(case) \cap UnitsIn({"errored"}))]
    /\ TakeUpNext(Processed)
    /\ UNCHANGED <<files, control, history>>
---------------------------------------------------------------------------
Recovered(u) == outcome[u] \in {"completed", "inconclusive", "skipped", "quarantined"}

ToBeRun(u) == ~Recovered(u) /\ (u.op = 0 \/ u.op \in Accepted)

(* Not executed: no variation to compare with, an inconclusive original,   *)
(* or a target whose state is uncertain.                                   *)
NotToBeExecuted(u) ==
    \/ u.op = 0 /\ Accepted = {}
    \/ u.op # 0 /\ outcome[Original(u)] # "completed"
    \/ uncertain

(* Mutant: the loop does not advance past a recovered trial.               *)
PassOverStuck ==
    /\ pc = "trial" /\ place \in Places
    /\ ~ToBeRun(Here)
    /\ UNCHANGED vars

(* Declined operators and trials recovered from the journal.               *)
PassOver ==
    /\ pc = "trial" /\ place \in Places
    /\ ~ToBeRun(Here)
    /\ place' = place + 1
    /\ UNCHANGED <<files, pc, case, draw, result, control, tally, history>>

NotExecuted ==
    /\ pc = "trial" /\ place \in Places
    /\ ToBeRun(Here) /\ NotToBeExecuted(Here)
    /\ result' = "skipped"
    /\ pc' = "record"
    /\ UNCHANGED <<files, case, place, draw, control, tally, history>>

(* trial_started asks for the boundary first.  CampaignControlRequested is *)
(* a RuntimeError, and _execute_trial turns a RuntimeError raised there    *)
(* into an inconclusive trial.                                             *)
TrialBoundary ==
    /\ pc = "trial" /\ place \in Places
    /\ ToBeRun(Here) /\ ~NotToBeExecuted(Here)
    /\ IF StopRequested
       THEN pc' = "record" /\ result' = "inconclusive" /\ notices' = notices + 1
       ELSE pc' = "start" /\ UNCHANGED <<result, notices>>
    /\ UNCHANGED <<files, case, place, draw, control, tally, record, ending>>

TrialsEnd ==
    /\ pc = "trial" /\ place \notin Places
    /\ pc' = "judge"
    /\ UNCHANGED <<files, trial, control, tally, history>>

(* trial_journal.start.                                                    *)
StartTrial ==
    /\ pc = "start"
    /\ outcome[Here] = "planned"
    /\ outcome' = [outcome EXCEPT ![Here] = "running"]
    /\ pc' = "register"
    /\ UNCHANGED <<plan, retains, created, receipt, ledger, evidence, torn, attested, trial,
                   control, tally, history>>

(* progress.trial_started, active_trials and target_call_started.          *)
RegisterTrial ==
    /\ pc = "register"
    /\ tally' = [tally EXCEPT !.running = @ + 1, !.calls = @ + 1]
    /\ allowance' = allowance - 1
    /\ inFlight' = TRUE
    /\ pc' = "target"
    /\ UNCHANGED <<files, trial, asked, request, cancelling, uncertain, history>>

(* The environment sends the request.                                      *)
SendRequest ==
    /\ pc = "target"
    /\ contacted' = contacted \cup {Here}
    /\ ranWith' = [ranWith EXCEPT ![Here] = draw]
    /\ lateStarts' = lateStarts + (IF request = "none" THEN 0 ELSE 1)
    /\ pc' = "waiting"
    /\ UNCHANGED <<files, trial, control, tally, invocations, interrupts, suspect,
                   notices, ending>>

(* _execute_trial returns: with an outcome, without a usable one, after a  *)
(* timeout that leaves the target in doubt, or with a lifecycle failure    *)
(* after which its state may remain.                                       *)
TargetAnswers(state, doubt) ==
    /\ pc = "waiting" \/ (pc = "target" /\ state = "inconclusive")
    /\ state = "quarantined" => doubt
    /\ state = "completed" => ~doubt
    /\ result' = state
    /\ uncertain' = doubt
    /\ suspect' = suspect \cup (IF ~doubt THEN {}
                              ELSE IF state = "quarantined" THEN {"unfinished"} ELSE {"timeout"})
    /\ pc' = "record"
    /\ UNCHANGED <<files, case, place, draw, asked, allowance, request, inFlight, cancelling,
                   tally, invocations, interrupts, contacted, ranWith, lateStarts, notices, ending>>

(* trial_terminal: the task is unregistered ...                            *)
UnregisterTrial ==
    /\ pc = "record"
    /\ inFlight' = FALSE
    /\ pc' = "finish"
    /\ UNCHANGED <<files, trial, asked, allowance, request, cancelling, uncertain, tally,
                   history>>

CountedAsCompleted(t, started, state) ==                        \* mutant
    IF started THEN [t EXCEPT !.running = @ - 1, !.completed = @ + 1]
    ELSE [t EXCEPT !.skipped = @ + 1]

(* trial_terminal or trial_skipped of the tracker.                         *)
Counted(t, started, state) ==
    IF ~started THEN [t EXCEPT !.skipped = @ + 1]
    ELSE IF state = "completed"
         THEN [t EXCEPT !.running = @ - 1, !.completed = @ + 1]
         ELSE [t EXCEPT !.running = @ - 1, !.failed = @ + 1]

(* ... and the journal, then the progress tracker, record the trial.       *)
FinishTrial ==
    /\ pc = "finish"
    /\ outcome[Here] \in {"planned", "running"}
    /\ outcome' = [outcome EXCEPT ![Here] = result]
    /\ tally' = Counted(tally, outcome[Here] = "running", result)
    /\ result' = "none"
    /\ place' = place + 1
    /\ pc' = "after"
    /\ UNCHANGED <<plan, retains, created, receipt, ledger, evidence, torn, attested, case, draw,
                   control, history>>

AfterBoundary ==
    /\ pc = "after"
    /\ BoundaryThen("trial")
    /\ UNCHANGED <<files, record>>

(* The materiality judge has answered for every finding.                   *)
Judge ==
    /\ pc = "judge"
    /\ pc' = "write"
    /\ UNCHANGED <<files, trial, control, tally, history>>

WriteEvidence ==
    /\ pc = "write"
    /\ evidence' = Append(evidence, [case |-> case, kind |-> "result", draw |-> draw])
    /\ TakeUpNext(Processed \cup {case})
    /\ UNCHANGED <<plan, retains, created, receipt, outcome, ledger, torn, attested, control,
                   tally, history>>

(* The connections are closed, the findings written, the results reported. *)
Report ==
    /\ pc = "cleanup"
    /\ Leave("completed")
    /\ notices' = notices + 1
    /\ UNCHANGED <<files, record>>
---------------------------------------------------------------------------
(* CampaignSignalControl.interrupt, while its handler is installed.        *)
Interruptible == {"preflight", "case", "skip", "gate", "augment", "save", "compare",
                  "failing", "settling", "trial", "start", "register", "target",
                  "waiting", "record", "finish", "after", "judge", "write",
                  "cleanup", "handler"}

Interrupt ==
    /\ pc \in Interruptible
    /\ interrupts < plan.interrupts
    /\ interrupts' = interrupts + 1
    /\ IF inFlight
       THEN cancelling' = TRUE /\ UNCHANGED request
       ELSE request' = (IF request = "pause" THEN "cancel" ELSE "pause") /\ UNCHANGED cancelling
    /\ UNCHANGED <<files, pc, trial, asked, allowance, inFlight, uncertain, tally, invocations,
                   contacted, suspect, ranWith, lateStarts, notices, ending>>

(* The cancellation arrives at an await of the trial in flight.            *)
CancelTrial ==
    /\ pc \in {"target", "waiting"}
    /\ cancelling
    /\ cancelling' = FALSE /\ inFlight' = FALSE
    /\ suspect' = suspect \cup AbandonedCall
    /\ pc' = "handler"
    /\ UNCHANGED <<files, trial, asked, allowance, request, uncertain, tally, invocations,
                   interrupts,
                   contacted, ranWith, lateStarts, notices, ending>>

QuarantineTrial ==
    /\ pc = "handler"
    /\ outcome' = [outcome EXCEPT ![Here] = "quarantined"]
    /\ Leave("failed")
    /\ notices' = notices + 1
    /\ UNCHANGED <<plan, retains, created, receipt, ledger, evidence, torn, attested, record>>

(* It arrives after that trial is over: at another await of runner.run,    *)
(* whose handler asserts that some trial is active, or while closing.      *)
CancelLate ==
    /\ pc \in {"augment", "judge", "cleanup"}
    /\ cancelling
    /\ Leave(IF pc = "cleanup" THEN "cancelled" ELSE "asserted")
    /\ UNCHANGED <<files, record, notices>>

(* The journal's own checks of the transition it is asked to append.       *)
JournalRefuses ==
    \/ pc = "start" /\ outcome[Here] # "planned"
    \/ pc = "finish" /\ outcome[Here] \notin {"planned", "running"}

(* An exception nobody expects ends the command: from the model provider,  *)
(* from the target, or from the journal.                                   *)
Abort ==
    /\ pc \in {"augment", "target", "waiting", "judge"} \/ JournalRefuses
    /\ Leave("failed")
    /\ notices' = IF notices = 0 THEN 1 ELSE notices
    /\ suspect' = suspect \cup AbandonedCall
    /\ UNCHANGED <<files, invocations, interrupts, contacted, ranWith, lateStarts>>

(* The process is killed, possibly in the middle of writing a line.        *)
Kill ==
    /\ pc # "down"
    /\ torn' \in {torn} \cup (IF pc = "save" THEN {torn \cup {"ledger"}} ELSE {})
                        \cup (IF pc \in {"failing", "write"} THEN {torn \cup {"evidence"}} ELSE {})
    /\ Leave("killed")
    /\ suspect' = suspect \cup AbandonedCall
    /\ UNCHANGED <<plan, retains, created, receipt, outcome, ledger, evidence, attested, invocations,
                   interrupts, contacted, ranWith, lateStarts, notices>>

Prepare ==
    \/ StartFresh \/ CreateNext \/ \E r \in Request : OpenForResume(r)
    \/ Reconcile \/ RefuseEvidence \/ RefuseManifest \/ NotAuthorised
    \/ \E flag \in BOOLEAN : ResolveQuarantine(flag)
    \/ Preflight \/ PreflightFails \/ OpenPersistence

PrepareCase ==
    \/ BeginCase \/ SkipEnds \/ CaseBoundary
    \/ \E u \in Planned : SkipDeclined(u) \/ SettleFailed(u)
    \/ \E verdict \in [1 .. Operators -> Verdict], comparable \in BOOLEAN :
           Augment(verdict, comparable)
    \/ AugmentFails \/ SaveAugmentation \/ CompareSurface
    \/ WriteFailure \/ SettlingEnds

RunTrial ==
    \/ PassOver \/ NotExecuted \/ TrialBoundary \/ TrialsEnd
    \/ StartTrial \/ RegisterTrial \/ SendRequest
    \/ \E state \in {"completed", "inconclusive", "quarantined"}, doubt \in BOOLEAN :
           TargetAnswers(state, doubt)
    \/ UnregisterTrial \/ FinishTrial \/ AfterBoundary

Conclude == Judge \/ WriteEvidence \/ Report

Stop == CancelTrial \/ QuarantineTrial \/ CancelLate \/ Abort

Next == Prepare \/ PrepareCase \/ RunTrial \/ Conclude \/ Stop \/ Interrupt \/ Kill

Spec == Init /\ [][Next]_vars

(* A process that stands somewhere goes on: the event loop resumes what it *)
(* waits for, since every await is bounded by a timeout.  No fairness for  *)
(* the user, the interrupts and the kills.                                 *)
Work == (Prepare \/ PrepareCase \/ RunTrial \/ Conclude \/ Stop) /\ pc # "down"

FairSpec == Spec /\ WF_vars(Work)
---------------------------------------------------------------------------
Label == Interruptible \cup {"down", "creating", "opened", "reconciled", "persistence"}

(* The shape of the state: the counters stay natural numbers (the tracker  *)
(* clamps running at zero, which would hide a miscount), every trial has a *)
(* known state.                                                            *)
TypeOK ==
    /\ plan \in Plans /\ retains \in BOOLEAN /\ created \in 0 .. 3 /\ receipt \in BOOLEAN
    /\ outcome \in [Unit -> State]
    /\ ledger \in [Case -> Draw \cup {NoDraw}]
    /\ evidence \in Seq([case : Case, kind : {"result", "failure"},
                         draw : Draw \cup {NoDraw}])
    /\ torn \subseteq {"evidence", "ledger"}
    /\ attested \subseteq Unit
    /\ pc \in Label
    /\ asked \in [differs : SUBSET Aspect, dry : BOOLEAN] /\ allowance \in Int
    /\ case \in Case /\ place \in Nat \ {0}
    /\ draw \in Draw \cup {NoDraw}
    /\ result \in {"none", "completed", "inconclusive", "quarantined", "skipped"}
    /\ request \in {"none", "pause", "cancel"}
    /\ inFlight \in BOOLEAN /\ cancelling \in BOOLEAN /\ uncertain \in BOOLEAN
    /\ tally \in [{"completed", "skipped", "failed", "running", "calls"} -> Nat]
    /\ invocations \in 0 .. plan.invocations /\ interrupts \in 0 .. plan.interrupts
    /\ contacted \subseteq Unit /\ suspect \subseteq {"unfinished", "timeout"}
    /\ ranWith \in [Unit -> Draw \cup {NoDraw}]
    /\ lateStarts \in Nat /\ notices \in Nat
    /\ ending \in {"none", "completed", "planned", "stopped", "failed", "refused",
                   "cancelled", "asserted", "killed"}

(* Once a trial ended without the target's state being known to be clean,  *)
(* no request is sent, in this invocation or a later one, before an        *)
(* operator attested a reset that covers exactly the trials in doubt.      *)
SuspectTargetIsLeftAlone == pc = "waiting" => "unfinished" \notin suspect

(* Every trial of a case, and its evidence, come from one generation of    *)
(* its variations, however often the campaign was interrupted: outcomes of *)
(* different texts are never compared with each other.                     *)
OneDrawPerCase ==
    /\ \A u, v \in contacted : u.case = v.case => ranWith[u] = ranWith[v]
    /\ \A i \in DOMAIN evidence : \A u \in contacted :
          u.case = evidence[i].case => ranWith[u] = evidence[i].draw

(* "No target calls were made for those sources" (reporting.py): a case    *)
(* whose preparation failed was never sent to the target, not even by an   *)
(* earlier invocation.                                                     *)
FailedSourcesAreNeverCalled == \A u \in contacted : u.case \notin Failed

(* After a timeout that cannot be known to have stopped the target, nothing*)
(* is sent either until somebody attested a reset (docs/state-hooks.md).   *)
TimedOutTargetIsLeftAlone == pc = "waiting" => "timeout" \notin suspect

(* A variation is sent only when the original of its own repetition gave a *)
(* usable outcome, in this invocation or an earlier one: every comparison  *)
(* has its baseline, and a target that fails the original is not pursued.  *)
VariationsFollowTheirOriginal ==
    \A u \in contacted : u.op # 0 => outcome[Original(u)] = "completed"

(* A case has at most one line of evidence; with a result, all its trials  *)
(* are settled, none is left for a later invocation to run.                *)
EvidenceIsFinal ==
    /\ \A i, j \in DOMAIN evidence : evidence[i].case = evidence[j].case => i = j
    /\ \A i \in DOMAIN evidence : evidence[i].kind = "result" =>
          \A u \in UnitsOf(evidence[i].case) : outcome[u] \in Settled

(* A campaign that stopped at a boundary left no trial running: a pause    *)
(* never costs a quarantine, and what was sent is settled.                 *)
StopLeavesNothingRunning ==
    ending = "stopped" =>
        /\ UnitsIn({"running"}) = {}
        /\ \A u \in contacted : outcome[u] \in Settled

(* The user's request is honoured within one trial: at most the one whose  *)
(* boundary had just been passed is still sent.                            *)
StopLetsOneTrialStart == lateStarts <= 1

(* Between trials the progress counters are exactly what the journal says, *)
(* and what a resumed invocation would start from.                         *)
ProgressIsTheJournal ==
    pc \in {"gate", "compare", "trial", "judge", "write", "cleanup"}
        => tally = TallyOfJournal

(* No call is forgotten in the budget: a unit whose request was sent is    *)
(* running or counted as attempted, never skipped or errored.              *)
CallsAreCounted == \A u \in contacted : outcome[u] = "running" \/ u \in Attempted

(* Every call is made under exactly the settings of the manifest, by a     *)
(* command that may call: whatever a resume asks otherwise, at whichever   *)
(* of the four files the difference would show, is refused first.          *)
CallsAreAsRecorded == pc \in {"target", "waiting"} => asked = AsRecorded

(* An invocation makes no more target calls than the plan it announced,    *)
(* and gave to the connection as its budget, whatever was saved, declined, *)
(* recovered or already called before.                                     *)
CallsStayInThePlan == allowance >= 0

(* The journal's own checks never fire: no path of the campaign starts or  *)
(* finishes a trial that it has already settled.                           *)
JournalNeverRefuses == ~JournalRefuses

(* "completed" is reported only when every case has its evidence and every *)
(* unit its outcome.                                                       *)
CompletedIsComplete ==
    ending = "completed" => Remaining = {} /\ UnitsIn({"planned", "running"}) = {}

(* No target call is lost, misplaced or owed to the wrong texts: one draw  *)
(* per case, no call for a source that failed, no variation without its    *)
(* original, none to a target in doubt, none left uncounted.               *)
CallsAreJustified ==
    /\ OneDrawPerCase /\ FailedSourcesAreNeverCalled /\ VariationsFollowTheirOriginal
    /\ SuspectTargetIsLeftAlone /\ CallsAreCounted
    /\ CallsAreAsRecorded /\ CallsStayInThePlan

(* A stop by the user is prompt, leaves nothing half done and is announced *)
(* with the command that goes on.                                          *)
StopIsHonoured ==
    /\ StopLeavesNothingRunning /\ StopLetsOneTrialStart
    /\ ending = "stopped" => notices >= 1

(* The journal, the progress counters and the report agree with each other *)
(* at every point of every invocation.                                     *)
RecordsAgree ==
    TypeOK /\ ProgressIsTheJournal /\ JournalNeverRefuses /\ CompletedIsComplete

(* Every invocation ends, whatever the user does.                          *)
InvocationsEnd == pc # "down" ~> pc = "down"

(* The journal's promise is what the campaign sees.                        *)
Outcomes == INSTANCE TrialOutcomes WITH Terminal <- Settled
KeepsOutcomes == Outcomes!Spec
=============================================================================
