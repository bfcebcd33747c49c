----------------------------- MODULE ProbeCommand -----------------------------
(***************************************************************************)
(* `ul probe` (cli/src/ul_cli/probe.py): several invocations against one   *)
(* target, from one or more shells, each with an output of its own choice. *)
(*                                                                         *)
(* Per target there is a lock file, held with flock from the first look at *)
(* the target's safety receipt to the end of the invocation, and the       *)
(* receipt: "reusable" or "quarantined".  Per output there are a smoke     *)
(* checkpoint, the evaluator's preflight receipt and a campaign (manifest, *)
(* trial journal, evidence), of which the trials are what matters here:    *)
(* TrialJournal and Campaign model them in detail.                         *)
(*                                                                         *)
(* An invocation may be killed, or end with an exception the command does  *)
(* not handle, between any two steps: both release the lock and leave the  *)
(* files as they are.                                                      *)
(***************************************************************************)
EXTENDS Naturals

CONSTANTS
    Shells,         \* who runs the command
    Outputs,        \* the --output paths
    Trials,         \* the trials of a campaign
    MaxStarts,      \* bound: invocations
    MaxKills        \* bound: kills and receipts that cannot be written

ASSUME BoundsAreNat == {MaxStarts, MaxKills} \subseteq Nat

Nobody == "nobody"
ASSUME NobodyIsNoShell == Nobody \notin Shells
ASSUME OutputsExist == Outputs # {}
AnOutput == CHOOSE o \in Outputs : TRUE

VARIABLES
    lockFile,       \* the target's lock file exists
    holder,         \* the shell whose invocation holds the flock
    receipt,        \* the safety receipt: "missing", "reusable", "quarantined"
    config,         \* .ul/probe.json exists
    checkpoints,    \* outputs with a smoke checkpoint
    preflights,     \* outputs with a preflight receipt
    campaign,       \* campaign[o]: "absent", "partial", "durable"
    journal,        \* journal[o][t]
    runs,           \* runs[s]: the invocation of shell s
    told,           \* (history) a quarantine was reported and not lifted since
    doubted,        \* (history) an invocation stopped as unsafe, and no attestation since
    calls,          \* (history) calls[o]: for each trial the calls of the target
    starts, kills   \* (bounds) so far

files == <<lockFile, receipt, config, checkpoints, preflights, campaign, journal>>
history == <<told, doubted, calls>>
probeVars == <<files, holder, runs, history, starts, kills>>

Ended == [stage |-> "ended", output |-> AnOutput, resume |-> FALSE,
          attested |-> FALSE, configured |-> FALSE, confirmed |-> FALSE,
          created |-> FALSE, suspect |-> FALSE]

ProbeInit ==
    /\ lockFile = FALSE /\ holder = Nobody /\ receipt = "missing" /\ config = FALSE
    /\ checkpoints = {} /\ preflights = {}
    /\ campaign = [o \in Outputs |-> "absent"]
    /\ journal = [o \in Outputs |-> [t \in Trials |-> "planned"]]
    /\ runs = [s \in Shells |-> Ended]
    /\ told = FALSE /\ doubted = FALSE
    /\ calls = [o \in Outputs |-> [t \in Trials |-> 0]]
    /\ starts = 0 /\ kills = 0

At(s, stage) == runs[s].stage = stage
Output(s) == runs[s].output
Goto(s, stage) == runs' = [runs EXCEPT ![s].stage = stage]

\* Mutant: only a failure releases the lock.
UnlockedByFailure(s) == holder' = IF holder = s /\ At(s, "unsafe") THEN Nobody ELSE holder

\* _close_probe_target_lock
Unlocked(s) == holder' = IF holder = s THEN Nobody ELSE holder

\* The command returns, or fails in a way that leaves the target reusable.
Leave(s) == runs' = [runs EXCEPT ![s] = Ended] /\ Unlocked(s)

\* Mutant: whoever created the lock file need not look at the receipt.
ClearForCreator(s) ==
    \/ runs[s].created
    \/ receipt = "reusable"

\* _enforce_probe_quarantine: the target may be called as things stand.
Clear(s) ==
    \/ receipt = "reusable"
    \/ receipt = "missing" /\ runs[s].created

(***************************************************************************)
(* Before the target is called.                                            *)
(***************************************************************************)
\* --resume-checkpoint names a file that exists.  Whether the lock file is
\* there decides if the target is confirmed before or after it is locked.
Start(s) ==
    \E o \in Outputs, resume \in BOOLEAN, attested \in BOOLEAN :
        /\ starts < MaxStarts /\ At(s, "ended")
        /\ resume => o \in checkpoints
        /\ runs' = [runs EXCEPT ![s] =
               [Ended EXCEPT !.stage = IF lockFile THEN "open" ELSE "confirm",
                             !.output = o, !.resume = resume, !.attested = attested,
                             !.configured = config]]
        /\ starts' = starts + 1
        /\ UNCHANGED <<files, holder, history, kills>>

\* _confirm_target
Confirm(s) ==
    /\ At(s, "confirm")
    /\ runs' = [runs EXCEPT ![s] =
           [@ EXCEPT !.confirmed = TRUE,
                     !.stage = IF holder = s THEN "prepared" ELSE "open"]]
    /\ UNCHANGED <<files, holder, history, starts, kills>>

\* _open_probe_target_lock: the file, then the flock
OpenLock(s) ==
    /\ At(s, "open")
    /\ lockFile' = TRUE
    /\ runs' = [runs EXCEPT ![s] = [@ EXCEPT !.created = ~lockFile, !.stage = "waiting"]]
    /\ UNCHANGED <<holder, receipt, config, checkpoints, preflights, campaign, journal>>
    /\ UNCHANGED <<history, starts, kills>>

Lock(s) ==
    /\ At(s, "waiting") /\ holder = Nobody
    /\ holder' = s
    /\ Goto(s, "locked")
    /\ UNCHANGED <<files, history, starts, kills>>

\* _persist_probe_safety_state
Receipt(status) ==
    /\ receipt' = status
    /\ UNCHANGED <<lockFile, config, checkpoints, preflights, campaign, journal>>

Attested ==
    /\ Receipt("reusable")
    /\ told' = FALSE /\ doubted' = FALSE
    /\ UNCHANGED calls

\* _enforce_probe_quarantine
Enforce(s) ==
    /\ At(s, "locked")
    /\ LET onwards == IF runs[s].confirmed THEN "prepared" ELSE "confirm" IN
       \/ /\ Clear(s) /\ Receipt("reusable")
          /\ Goto(s, onwards) /\ UNCHANGED history
       \/ /\ ~Clear(s) /\ runs[s].attested /\ Attested
          /\ Goto(s, onwards)
       \/ /\ ~Clear(s) /\ ~runs[s].attested
          /\ Goto(s, "unsafe") /\ UNCHANGED <<files, history>>
    /\ UNCHANGED <<holder, starts, kills>>

\* A safe ProbeFailure: the target is reported reusable.
Stop(s, stages) ==
    /\ runs[s].stage \in stages
    /\ Leave(s)
    /\ UNCHANGED <<files, history, starts, kills>>

\* The operator does not trust the target, or its digest has changed.
NotConfirmed(s) == Stop(s, {"confirm"})

\* The lock file cannot be opened, or the campaign cannot be planned.
NotPrepared(s) == Stop(s, {"open", "prepared"})

(***************************************************************************)
(* The smoke call and its checkpoint.                                      *)
(***************************************************************************)
Smoke(s) ==
    /\ At(s, "prepared") /\ ~runs[s].resume
    /\ Goto(s, "smoke")
    /\ UNCHANGED <<files, holder, history, starts, kills>>

\* _run_smoke: evidence, a failure that left no doubt, or one that did.
Smoked(s) ==
    /\ At(s, "smoke")
    /\ \/ Goto(s, "smoked") /\ UNCHANGED <<holder, doubted>>
       \/ Leave(s) /\ UNCHANGED doubted
       \/ Goto(s, "unsafe") /\ doubted' = TRUE /\ UNCHANGED holder
    /\ UNCHANGED <<files, told, calls, starts, kills>>

\* _save_probe_config: an invocation that saw no configuration when it
\* started will not overwrite one that was saved since.
SaveConfig(s) ==
    /\ At(s, "smoked")
    /\ IF config /\ ~runs[s].configured
       THEN Leave(s)
       ELSE Goto(s, "saved") /\ UNCHANGED holder
    /\ config' = TRUE
    /\ UNCHANGED <<lockFile, receipt, checkpoints, preflights, campaign, journal>>
    /\ UNCHANGED <<history, starts, kills>>

\* _persist_probe_checkpoint
SaveCheckpoint(s) ==
    /\ At(s, "saved")
    /\ IF Output(s) \in checkpoints
       THEN Leave(s)
       ELSE Goto(s, "budget") /\ UNCHANGED holder
    /\ checkpoints' = checkpoints \cup {Output(s)}
    /\ UNCHANGED <<lockFile, receipt, config, preflights, campaign, journal>>
    /\ UNCHANGED <<history, starts, kills>>

\* _load_probe_checkpoint and load_evaluator_preflight
LoadCheckpoint(s) ==
    /\ At(s, "prepared") /\ runs[s].resume
    /\ IF Output(s) \in checkpoints \cap preflights
       THEN Goto(s, "budget") /\ UNCHANGED holder
       ELSE Leave(s)
    /\ UNCHANGED <<files, history, starts, kills>>

\* _confirm_paid_execution: to decline removes the checkpoint.
Pay(s) ==
    /\ At(s, "budget")
    /\ \/ Goto(s, "opening") /\ UNCHANGED <<holder, checkpoints>>
       \/ Leave(s) /\ checkpoints' = checkpoints \ {Output(s)}
    /\ UNCHANGED <<lockFile, receipt, config, preflights, campaign, journal>>
    /\ UNCHANGED <<history, starts, kills>>

\* The smoke used up the target's time, the budget's digest has changed, or
\* semantic calls are disabled: the checkpoint stays.
NotAffordable(s) == Stop(s, {"budget"})

\* A file of the project or of the output cannot be written.
NotSaved(s) == Stop(s, {"smoked", "saved", "opening"})

(***************************************************************************)
(* The campaign.                                                           *)
(***************************************************************************)
Journal(o) == journal[o]

\* Mutant: a trial that was running when the process died is planned again.
RecoveredAsPlanned(o) ==
    [t \in Trials |-> IF Journal(o)[t] = "running" THEN "planned" ELSE Journal(o)[t]]

\* open_dataset_trial_journal
Recovered(o) ==
    [t \in Trials |-> IF Journal(o)[t] = "running" THEN "quarantined" ELSE Journal(o)[t]]

\* _run_campaign creates the manifest, the journal, the evidence and the
\* ledger, each a new file.
Create(s) ==
    /\ At(s, "opening") /\ ~runs[s].resume
    /\ \E reached \in {"partial", "durable"} :
         /\ campaign' = [campaign EXCEPT ![Output(s)] = IF @ = "absent" THEN reached ELSE @]
         /\ IF campaign[Output(s)] = "absent" /\ reached = "durable"
            THEN Goto(s, "preflight") /\ UNCHANGED holder
            ELSE Leave(s)
    /\ UNCHANGED <<lockFile, receipt, config, checkpoints, preflights, journal>>
    /\ UNCHANGED <<history, starts, kills>>

Reopen(s) ==
    LET o == Output(s)
        inDoubt == \E t \in Trials : Recovered(o)[t] = "quarantined" IN
    /\ At(s, "opening") /\ runs[s].resume
    /\ journal' = [journal EXCEPT ![o] = Recovered(o)]
    /\ \/ ~inDoubt /\ Goto(s, "campaign") /\ UNCHANGED <<receipt, history>>
       \/ /\ inDoubt /\ runs[s].attested
          /\ receipt' = "reusable" /\ told' = FALSE /\ doubted' = FALSE
          /\ Goto(s, "campaign") /\ UNCHANGED calls
       \/ /\ inDoubt /\ ~runs[s].attested
          /\ receipt' = "quarantined" /\ told' = TRUE /\ doubted' = TRUE
          /\ Goto(s, "unsafe") /\ UNCHANGED calls
    /\ UNCHANGED <<lockFile, config, checkpoints, preflights, campaign>>
    /\ UNCHANGED <<holder, starts, kills>>

\* PROBE_DURABLE_STATE_INVALID is unsafe on a resume.
CannotReopen(s) ==
    /\ At(s, "opening") /\ runs[s].resume
    /\ Goto(s, "unsafe")
    /\ UNCHANGED <<files, holder, history, starts, kills>>

\* preflight_evaluator and persist_evaluator_preflight
Preflight(s) ==
    /\ At(s, "preflight")
    /\ preflights' = preflights \cup {Output(s)}
    /\ Goto(s, "campaign")
    /\ UNCHANGED <<lockFile, receipt, config, checkpoints, campaign, journal>>
    /\ UNCHANGED <<holder, history, starts, kills>>

\* The evaluator does not qualify, or the user stops after the preflight.
NotQualified(s) == Stop(s, {"preflight"})

\* The user stops at a boundary between trials, or the sources cannot be
\* compared.
Pause(s) == Stop(s, {"campaign"})

\* evaluate_interaction_records sends the next trial.
SendTrial(s, t) ==
    LET o == Output(s) IN
    /\ At(s, "campaign") /\ ~runs[s].suspect
    /\ journal[o][t] = "planned"
    /\ journal' = [journal EXCEPT ![o][t] = "running"]
    /\ calls' = [calls EXCEPT ![o][t] = @ + 1]
    /\ Goto(s, "trial")
    /\ UNCHANGED <<lockFile, receipt, config, checkpoints, preflights, campaign>>
    /\ UNCHANGED <<holder, told, doubted, starts, kills>>

\* The trial is settled; it may leave the target in doubt (a timeout or an
\* uncertain cleanup, of which the receipt is told nothing), or raise.
EndTrial(s, t) ==
    LET o == Output(s)
        Settle(state) == journal' = [journal EXCEPT ![o][t] = state] IN
    /\ At(s, "trial") /\ journal[o][t] = "running"
    /\ \/ /\ Settle("settled") /\ UNCHANGED doubted
          /\ \E suspect \in BOOLEAN :
                runs' = [runs EXCEPT ![s] = [@ EXCEPT !.stage = "campaign",
                                                    !.suspect = suspect]]
       \/ /\ Settle("quarantined") /\ UNCHANGED doubted
          /\ runs' = [runs EXCEPT ![s] = [@ EXCEPT !.stage = "campaign",
                                                   !.suspect = TRUE]]
       \/ /\ Settle("quarantined") /\ doubted' = TRUE
          /\ Goto(s, "unsafe")
    /\ UNCHANGED <<lockFile, receipt, config, checkpoints, preflights, campaign>>
    /\ UNCHANGED <<holder, told, calls, starts, kills>>

\* A trial that is passed over because the target is in doubt.
SkipTrial(s, t) ==
    /\ At(s, "campaign") /\ runs[s].suspect
    /\ journal[Output(s)][t] = "planned"
    /\ journal' = [journal EXCEPT ![Output(s)][t] = "settled"]
    /\ UNCHANGED <<lockFile, receipt, config, checkpoints, preflights, campaign>>
    /\ UNCHANGED <<holder, runs, history, starts, kills>>

\* A provider fails while results are judged, or the evidence cannot be
\* written: no trial is in flight, and the target is quarantined all the same.
Abort(s) ==
    /\ At(s, "campaign")
    /\ Goto(s, "unsafe") /\ doubted' = TRUE
    /\ UNCHANGED <<files, holder, told, calls, starts, kills>>

\* The report; an outcome that could not be projected from a response with
\* doubtful state is unsafe (_campaign_projection_failure).
Report(s) ==
    /\ At(s, "campaign")
    /\ \A t \in Trials : journal[Output(s)][t] \in {"settled", "quarantined"}
    /\ \/ Leave(s) /\ UNCHANGED doubted
       \/ /\ \E t \in Trials : journal[Output(s)][t] = "quarantined"
          /\ Goto(s, "unsafe") /\ doubted' = TRUE /\ UNCHANGED holder
    /\ UNCHANGED <<files, told, calls, starts, kills>>

(***************************************************************************)
(* The handler of an unsafe ProbeFailure, and what it does not survive.    *)
(***************************************************************************)
Quarantine(s) ==
    /\ At(s, "unsafe")
    /\ Receipt("quarantined") /\ told' = TRUE
    /\ Leave(s)
    /\ UNCHANGED <<doubted, calls, starts, kills>>

\* A kill at any point; at "unsafe" also PROBE_QUARANTINE_PERSIST_FAILED.  The
\* doubt that only this invocation knew of is forgotten with it.
Kill(s) ==
    /\ kills < MaxKills /\ ~At(s, "ended")
    /\ Leave(s)
    /\ kills' = kills + 1
    /\ doubted' = (doubted /\ (At(s, "unsafe") => receipt = "quarantined"))
    /\ UNCHANGED <<files, told, calls, starts>>

Step(s) ==
    \/ Confirm(s) \/ OpenLock(s) \/ Lock(s) \/ Enforce(s)
    \/ NotConfirmed(s) \/ NotPrepared(s) \/ NotAffordable(s) \/ NotSaved(s)
    \/ NotQualified(s) \/ Pause(s)
    \/ Smoke(s) \/ Smoked(s) \/ SaveConfig(s) \/ SaveCheckpoint(s)
    \/ LoadCheckpoint(s) \/ Pay(s) \/ Create(s) \/ Reopen(s) \/ CannotReopen(s)
    \/ Preflight(s)
    \/ \E t \in Trials : SendTrial(s, t) \/ EndTrial(s, t) \/ SkipTrial(s, t)
    \/ Abort(s) \/ Report(s) \/ Quarantine(s)

ProbeNext == \E s \in Shells : Start(s) \/ Step(s) \/ Kill(s)

\* The operator answers the prompts, the target and the provider answer or
\* time out, and the lock is not withheld from a process for ever.
ProbeSpec == ProbeInit /\ [][ProbeNext]_probeVars /\ \A s \in Shells : WF_probeVars(Step(s))

(***************************************************************************)
(* Properties.                                                             *)
(***************************************************************************)
Stages == {"ended", "confirm", "open", "waiting", "locked", "prepared", "smoke",
           "smoked", "saved", "budget", "opening", "preflight", "campaign", "trial",
           "unsafe"}

Run == [stage : Stages, output : Outputs, resume : BOOLEAN, attested : BOOLEAN,
        configured : BOOLEAN, confirmed : BOOLEAN, created : BOOLEAN, suspect : BOOLEAN]

ProbeTypeOK ==
    /\ lockFile \in BOOLEAN /\ config \in BOOLEAN
    /\ holder \in Shells \cup {Nobody}
    /\ receipt \in {"missing", "reusable", "quarantined"}
    /\ checkpoints \subseteq Outputs /\ preflights \subseteq Outputs
    /\ campaign \in [Outputs -> {"absent", "partial", "durable"}]
    /\ journal \in [Outputs -> [Trials -> {"planned", "running", "settled", "quarantined"}]]
    /\ runs \in [Shells -> Run]
    /\ told \in BOOLEAN /\ doubted \in BOOLEAN
    /\ calls \in [Outputs -> [Trials -> Nat]]
    /\ starts \in Nat /\ kills \in Nat

Calling(s) == runs[s].stage \in {"smoke", "trial"}

\* Two invocations never call the target at once, and while one does, the
\* receipt on disk says that it may.
CallsAreAlone == \A s \in Shells : Calling(s) => holder = s /\ receipt = "reusable"

\* No trial of a campaign is sent twice, whoever resumes it after whatever kill.
TrialsAreSentOnce == \A o \in Outputs, t \in Trials : calls[o][t] <= 1

\* When nobody is working with the target, every doubt that an invocation
\* stopped with and lived to record is on disk, and so is every quarantine
\* that was reported to the operator.
DoubtIsOnRecord ==
    /\ told => receipt = "quarantined"
    /\ doubted /\ holder = Nobody => receipt = "quarantined"

\* What _run_smoke, _run_campaign, the lock and the receipt of probe.py
\* maintain together, whatever the shells, outputs and kills.
ProbesAreSafe == ProbeTypeOK /\ CallsAreAlone /\ TrialsAreSentOnce /\ DoubtIsOnRecord

\* No call begins between a doubt, or the report of a quarantine, and the
\* attestation that lifts it: what _enforce_probe_quarantine read under the
\* lock still holds when the call is made, whoever created the lock file.
NoCallInDoubt ==
    [][\A s \in Shells : Calling(s)' /\ ~Calling(s) => ~told /\ ~doubted]_probeVars

\* Every invocation of `ul probe` ends: neither a failure nor a kill leaves the
\* target's lock behind for the next one to wait for.
ProbesEnd == \A s \in Shells : ~At(s, "ended") ~> At(s, "ended")
=============================================================================
