-------------------------- MODULE ConcurrentTrials --------------------------
(***************************************************************************)
(* The trials of one case with more than one target request in flight      *)
(* (DatasetEvaluationRunner.run of sdk/src/ul/dataset_evaluation.py, with  *)
(* the callbacks of cli/src/ul_cli/dataset/evaluation/runner.py).          *)
(*                                                                         *)
(* A task group of workers takes repetitions from one iterator.  A worker  *)
(* runs the original trial of its repetition itself and every variation in *)
(* a child task of a group of its own.  A semaphore bounds the target      *)
(* requests, not the judging that follows them.  One task that fails makes *)
(* its group cancel the others; a task that is cancelled before it sent    *)
(* anything ends silently, one that sent a request raises the uncertainty  *)
(* of its delivery.                                                        *)
(*                                                                         *)
(* One action is what a task does between two awaits.                      *)
(***************************************************************************)
EXTENDS Integers, FiniteSets

CONSTANTS
    Repetitions,        \* repetitions of the case
    Operators,          \* accepted variations
    MaxRequests,        \* max_concurrent_target_requests, above 1
    MaxInterrupts       \* bound: interrupts sent by the user

ASSUME PlanIsNotEmpty == Repetitions \in Nat \ {0} /\ Operators \in Nat \ {0}
ASSUME RequestsMayOverlap == MaxRequests \in Nat \ {0, 1}
ASSUME InterruptsAreBounded == MaxInterrupts \in Nat

Unit == (1 .. Repetitions) \X (0 .. Operators)      \* <<repetition, operator>>
Child == (1 .. Repetitions) \X (1 .. Operators)     \* the task of a variation

WorkerCount ==
    IF Repetitions < 2 * MaxRequests THEN Repetitions ELSE 2 * MaxRequests
Worker == {0} \X (1 .. WorkerCount)
Task == Worker \cup Child

VARIABLES
    at,             \* at[t]: where task t awaits
    repetition,     \* repetition[w]: what worker w took from the iterator
    next,           \* the iterator
    slots,          \* free slots of the semaphore
    cancelled,      \* tasks that get a CancelledError at their next step
    scheduled,      \* tasks whose cancellation the signal handler scheduled
    leaving,        \* workers that leave their group with a CancelledError
    errors,         \* errors[g]: what tasks of the group of worker g raised
    failures,       \* what workers raised
    uncertain,      \* _target_state_uncertain
    outcome,        \* outcome[u]: what the trial journal says of unit u
    paused,         \* the user asked for a pause
    interrupts,     \* (bound) interrupts so far
    ending          \* how the run of the case ended

tasks == <<at, repetition, next, slots>>
doom  == <<cancelled, scheduled, leaving, errors, failures>>
vars  == <<tasks, doom, uncertain, outcome, paused, interrupts, ending>>

Init ==
    /\ at = [t \in Task |-> IF t \in Worker THEN "created" ELSE "absent"]
    /\ repetition = [w \in Worker |-> 0] /\ next = 1
    /\ slots = MaxRequests
    /\ cancelled = {} /\ scheduled = {} /\ leaving = {}
    /\ errors = [w \in Worker |-> {}] /\ failures = {}
    /\ uncertain = FALSE
    /\ outcome = [u \in Unit |-> "planned"]
    /\ paused = FALSE /\ interrupts = 0 /\ ending = "none"
-----------------------------------------------------------------------------
UnitOf(t) == IF t \in Worker THEN <<repetition[t], 0>> ELSE t
ChildrenOf(w) == {c \in Child : c[1] = repetition[w]}
ParentOf(c) == CHOOSE w \in Worker : c \in ChildrenOf(w)
Alive(t) == at[t] \notin {"absent", "ended"}

(* active_trials, and the tasks registered with the signal control.        *)
Active == {u \in Unit : outcome[u] = "running"}
TaskOf(u) == CHOOSE t \in Task : Alive(t) /\ UnitOf(t) = u

(* Nothing interrupts what task t does next.                               *)
Ready(t) == ending = "none" /\ t \notin cancelled

(* The tasks of a group take their first steps in the order of creation.   *)
FirstOf(t, group) == \A s \in group : s[2] < t[2] => at[s] # "created"

(* Task t raises e: its group cancels its other tasks and, if t is a child,*)
(* its parent raises in turn once they have ended.                         *)
Raise(t, e) ==
    IF t \in Worker
    THEN /\ failures' = failures \cup {e}
         /\ cancelled' = (cancelled \cup {w \in Worker : Alive(w)}) \ {t}
         /\ UNCHANGED errors
    ELSE /\ errors' = [errors EXCEPT ![ParentOf(t)] = @ \cup {e}]
         /\ cancelled' = (cancelled \cup {c \in ChildrenOf(ParentOf(t)) : Alive(c)}) \ {t}
         /\ UNCHANGED failures

(* The worker takes the next repetition and asks for its original trial.   *)
TakeRepetition(w) ==
    IF next <= Repetitions
    THEN /\ repetition' = [repetition EXCEPT ![w] = next]
         /\ next' = next + 1
         /\ at' = [at EXCEPT ![w] = "queued"]
    ELSE at' = [at EXCEPT ![w] = "ended"] /\ UNCHANGED <<repetition, next>>

StartWorker(w) ==
    /\ Ready(w) /\ at[w] = "created" /\ FirstOf(w, Worker)
    /\ TakeRepetition(w)
    /\ UNCHANGED <<slots, doom, uncertain, outcome, paused, interrupts, ending>>

(* A variation whose original was inconclusive is not executed.            *)
StartChild(c) ==
    /\ Ready(c) /\ at[c] = "created" /\ FirstOf(c, {d \in Child : d[1] = c[1]})
    /\ IF outcome[<<c[1], 0>>] = "completed"
       THEN at' = [at EXCEPT ![c] = "queued"] /\ UNCHANGED outcome
       ELSE /\ at' = [at EXCEPT ![c] = "ended"]
            /\ outcome' = [outcome EXCEPT ![c] = "skipped"]
    /\ UNCHANGED <<repetition, next, slots, doom, uncertain, paused, interrupts, ending>>

(* Mutant: the doubt is not looked at again once the semaphore is taken.   *)
SendAnyway(t) ==
    /\ Ready(t) /\ at[t] = "queued" /\ slots > 0
    /\ at' = [at EXCEPT ![t] = "calling"]
    /\ slots' = slots - 1
    /\ outcome' = [outcome EXCEPT ![UnitOf(t)] = "running"]
    /\ UNCHANGED <<repetition, next, doom, uncertain, paused, interrupts, ending>>

(* The semaphore is taken (it is fair; any order is allowed here), the     *)
(* trial journaled and registered, the request sent.                       *)
Send(t) ==
    /\ Ready(t) /\ at[t] = "queued" /\ slots > 0 /\ ~uncertain
    /\ at' = [at EXCEPT ![t] = "calling"]
    /\ slots' = slots - 1
    /\ outcome' = [outcome EXCEPT ![UnitOf(t)] = "running"]
    /\ UNCHANGED <<repetition, next, doom, uncertain, paused, interrupts, ending>>

(* "target state is uncertain; queued trials were stopped", before or after*)
(* the semaphore.                                                          *)
StopQueued(t) ==
    /\ Ready(t) /\ at[t] = "queued" /\ uncertain
    /\ at' = [at EXCEPT ![t] = "ended"]
    /\ Raise(t, "uncertain")
    /\ UNCHANGED <<repetition, next, slots, scheduled, leaving, uncertain, outcome,
                   paused, interrupts, ending>>
-----------------------------------------------------------------------------
(* After its original trial a worker opens the group of the variations; a  *)
(* child is done.                                                          *)
AfterTrial(t) ==
    at' = IF t \in Worker
          THEN [x \in Task |-> IF x = t THEN "group"
                               ELSE IF x \in ChildrenOf(t) THEN "created" ELSE at[x]]
          ELSE [at EXCEPT ![t] = "ended"]

(* The request fails or times out.  The environment is attested isolated:  *)
(* neither leaves a doubt.                                                 *)
Fails(t) ==
    /\ Ready(t) /\ at[t] = "calling"
    /\ slots' = slots + 1
    /\ outcome' = [outcome EXCEPT ![UnitOf(t)] = "inconclusive"]
    /\ AfterTrial(t)
    /\ UNCHANGED <<repetition, next, doom, uncertain, paused, interrupts, ending>>

(* The outcome cannot be projected from the response, which leaves the     *)
(* target's reuse unverified: the trial is journaled as quarantined, and   *)
(* then stops the others.                                                  *)
Unprojectable(t) ==
    /\ Ready(t) /\ at[t] = "calling"
    /\ slots' = slots + 1
    /\ uncertain' = TRUE
    /\ outcome' = [outcome EXCEPT ![UnitOf(t)] = "quarantined"]
    /\ at' = [at EXCEPT ![t] = "ended"]
    /\ Raise(t, "uncertain")
    /\ UNCHANGED <<repetition, next, scheduled, leaving, paused, interrupts, ending>>

(* The response is there; the slot is returned before it is judged.        *)
Answers(t) ==
    /\ Ready(t) /\ at[t] = "calling"
    /\ slots' = slots + 1
    /\ at' = [at EXCEPT ![t] = "judging"]
    /\ UNCHANGED <<repetition, next, doom, uncertain, outcome, paused, interrupts, ending>>

Judge(t, verdict) ==
    /\ Ready(t) /\ at[t] = "judging"
    /\ outcome' = [outcome EXCEPT ![UnitOf(t)] = verdict]
    /\ AfterTrial(t)
    /\ UNCHANGED <<repetition, next, slots, doom, uncertain, paused, interrupts, ending>>

(* The semantic provider fails: the trial stays started.                   *)
JudgeFails(t) ==
    /\ Ready(t) /\ at[t] = "judging"
    /\ at' = [at EXCEPT ![t] = "ended"]
    /\ Raise(t, "error")
    /\ UNCHANGED <<repetition, next, slots, scheduled, leaving, uncertain, outcome,
                   paused, interrupts, ending>>
-----------------------------------------------------------------------------
(* CancelledError before anything was sent.                                *)
CancelledUnsent(t) ==
    /\ ending = "none" /\ t \in cancelled /\ at[t] \in {"created", "queued"}
    /\ at' = [at EXCEPT ![t] = "ended"]
    /\ cancelled' = cancelled \ {t}
    /\ UNCHANGED <<repetition, next, slots, scheduled, leaving, errors, failures,
                   uncertain, outcome, paused, interrupts, ending>>

(* Mutant: a trial cancelled while it is judged is not in doubt.           *)
CancelledSentOnly(t) ==
    /\ ending = "none" /\ t \in cancelled /\ at[t] \in {"calling", "judging"}
    /\ slots' = IF at[t] = "calling" THEN slots + 1 ELSE slots
    /\ uncertain' = (uncertain \/ at[t] = "calling")
    /\ at' = [at EXCEPT ![t] = "ended"]
    /\ IF at[t] = "calling" THEN Raise(t, "uncertain")
       ELSE cancelled' = cancelled \ {t} /\ UNCHANGED <<errors, failures>>
    /\ UNCHANGED <<repetition, next, scheduled, leaving, outcome, paused, interrupts, ending>>

(* CancelledError once the request was sent, also while it is judged.      *)
CancelledSent(t) ==
    /\ ending = "none" /\ t \in cancelled /\ at[t] \in {"calling", "judging"}
    /\ slots' = IF at[t] = "calling" THEN slots + 1 ELSE slots
    /\ uncertain' = TRUE
    /\ at' = [at EXCEPT ![t] = "ended"]
    /\ Raise(t, "uncertain")
    /\ UNCHANGED <<repetition, next, scheduled, leaving, outcome, paused, interrupts, ending>>

(* Mutant: the worker goes on awaiting its group with the cancellation.    *)
CancelledInGroupAgain(w) ==
    /\ ending = "none" /\ w \in cancelled /\ at[w] = "group"
    /\ leaving' = leaving \cup {w}
    /\ cancelled' = cancelled \cup {c \in ChildrenOf(w) : Alive(c)}
    /\ UNCHANGED <<tasks, scheduled, errors, failures, uncertain, outcome, paused,
                   interrupts, ending>>

(* A worker that awaits its group passes the cancellation on.              *)
CancelledInGroup(w) ==
    /\ ending = "none" /\ w \in cancelled /\ at[w] = "group"
    /\ leaving' = leaving \cup {w}
    /\ cancelled' = (cancelled \ {w}) \cup {c \in ChildrenOf(w) : Alive(c)}
    /\ UNCHANGED <<tasks, scheduled, errors, failures, uncertain, outcome, paused,
                   interrupts, ending>>

GroupIsDone(w) == at[w] = "group" /\ \A c \in ChildrenOf(w) : ~Alive(c)

(* The group of a repetition is left: with the next repetition, with what  *)
(* its tasks raised, or with the cancellation that came from outside,      *)
(* which a group of workers does not regard as a failure.                  *)
GroupEnds(w) ==
    /\ Ready(w) /\ GroupIsDone(w)
    /\ \/ /\ errors[w] = {} /\ w \notin leaving
          /\ TakeRepetition(w)
          /\ UNCHANGED <<cancelled, errors, failures>>
       \/ /\ errors[w] = {} /\ w \in leaving
          /\ at' = [at EXCEPT ![w] = "ended"]
          /\ UNCHANGED <<repetition, next, cancelled, errors, failures>>
       \/ /\ errors[w] # {}
          /\ at' = [at EXCEPT ![w] = "ended"]
          /\ failures' = failures \cup errors[w]
          /\ cancelled' = (cancelled \cup {v \in Worker : Alive(v)}) \ {w}
          /\ UNCHANGED <<repetition, next, errors>>
    /\ UNCHANGED <<slots, scheduled, leaving, uncertain, outcome, paused, interrupts, ending>>
-----------------------------------------------------------------------------
(* SIGINT: with requests in flight every one is to be cancelled, else the  *)
(* case ends with a pause.                                                 *)
Interrupt ==
    /\ ending = "none" /\ interrupts < MaxInterrupts
    /\ interrupts' = interrupts + 1
    /\ IF Active = {}
       THEN paused' = TRUE /\ UNCHANGED scheduled
       ELSE /\ scheduled' = scheduled \cup {TaskOf(u) : u \in {v \in Active :
                                \E t \in Task : Alive(t) /\ UnitOf(t) = v}}
            /\ UNCHANGED paused
    /\ UNCHANGED <<tasks, cancelled, leaving, errors, failures, uncertain, outcome, ending>>

(* The event loop runs task.cancel, whatever the task does by now.         *)
DeliverCancel(t) ==
    /\ ending = "none" /\ t \in scheduled
    /\ scheduled' = scheduled \ {t}
    /\ cancelled' = IF Alive(t) THEN cancelled \cup {t} ELSE cancelled
    /\ UNCHANGED <<tasks, leaving, errors, failures, uncertain, outcome, paused,
                   interrupts, ending>>

Results == {u \in Unit : outcome[u] \notin {"planned", "running"}}

(* The handler quarantines whatever is still active.                       *)
QuarantineActive ==
    [u \in Unit |-> IF u \in Active THEN "quarantined" ELSE outcome[u]]

(* All workers have ended: uncertainty wins over other failures; without a *)
(* failure the trials are collected, or one of them is missing (KeyError). *)
RunEnds ==
    /\ ending = "none" /\ \A w \in Worker : at[w] = "ended"
    /\ CASE "uncertain" \in failures /\ Active # {} ->
                ending' = "uncertain" /\ outcome' = QuarantineActive
         [] "uncertain" \in failures /\ Active = {} ->
                ending' = "asserted" /\ UNCHANGED outcome
         [] failures = {"error"} ->
                ending' = "error" /\ UNCHANGED outcome
         [] failures = {} ->
                /\ ending' = IF Results # Unit THEN "missing"
                             ELSE IF paused THEN "paused" ELSE "finished"
                /\ UNCHANGED outcome
    /\ UNCHANGED <<tasks, doom, uncertain, paused, interrupts>>
-----------------------------------------------------------------------------
Step(t) ==
    \/ Send(t) \/ StopQueued(t) \/ Fails(t) \/ Unprojectable(t) \/ Answers(t)
    \/ \E verdict \in {"completed", "inconclusive"} : Judge(t, verdict)
    \/ JudgeFails(t) \/ CancelledUnsent(t) \/ CancelledSent(t) \/ DeliverCancel(t)

Work ==
    \/ \E w \in Worker : StartWorker(w) \/ CancelledInGroup(w) \/ GroupEnds(w)
    \/ \E c \in Child : StartChild(c)
    \/ \E t \in Task : Step(t)
    \/ RunEnds

Rest == ending # "none" /\ UNCHANGED vars

Next == Work \/ Interrupt \/ Rest

Spec == Init /\ [][Next]_vars

(* The event loop goes on; a request is answered or times out.             *)
FairSpec == Spec /\ WF_vars(Work)
-----------------------------------------------------------------------------
(* The shape of the runner's state; the semaphore counts its free slots.   *)
TypeOK ==
    /\ at \in [Task -> {"absent", "created", "queued", "calling", "judging",
                        "group", "ended"}]
    /\ repetition \in [Worker -> 0 .. Repetitions] /\ next \in 1 .. Repetitions + 1
    /\ slots \in 0 .. MaxRequests
    /\ cancelled \subseteq Task /\ scheduled \subseteq Task /\ leaving \subseteq Worker
    /\ errors \in [Worker -> SUBSET {"uncertain", "error"}]
    /\ failures \subseteq {"uncertain", "error"}
    /\ uncertain \in BOOLEAN /\ paused \in BOOLEAN
    /\ outcome \in [Unit -> {"planned", "running", "completed", "inconclusive",
                             "quarantined", "skipped"}]
    /\ interrupts \in 0 .. MaxInterrupts
    /\ ending \in {"none", "finished", "paused", "uncertain", "error", "asserted",
                   "missing"}

(* "in-flight trials were stopped": once the target is in doubt no request *)
(* is sent any more, also by the trials that had waited for a slot.        *)
NothingIsSentInDoubt ==
    [][uncertain => \A u \in Unit : outcome'[u] = "running" => outcome[u] = "running"]_vars

(* When the run of the case ends, none of its tasks is left behind that    *)
(* could still send or journal something.                                  *)
NoTaskIsLeftBehind == ending # "none" => \A t \in Task : ~Alive(t)

(* Two tasks never run the same trial, and the slots taken are those of    *)
(* the requests in flight, whatever was cancelled meanwhile.               *)
SlotsAreTheRequests ==
    /\ slots + Cardinality({t \in Task : at[t] = "calling"}) = MaxRequests
    /\ \A s, t \in Task : at[s] \in {"queued", "calling", "judging"}
            /\ at[t] \in {"queued", "calling", "judging"} /\ UnitOf(s) = UnitOf(t) => s = t

(* A trial that was started and was not concluded makes the run fail: it   *)
(* never ends as if all was well.                                          *)
StartedTrialsAreNeverDropped ==
    ending \in {"finished", "paused", "missing"} => Active = {}

(* Tasks, trials and slots are given back, never shared and never dropped, *)
(* whatever was cancelled, failed or ended first.                          *)
NothingIsLeaked ==
    /\ TypeOK /\ NoTaskIsLeftBehind /\ SlotsAreTheRequests
    /\ StartedTrialsAreNeverDropped

(* The run of the case ends.                                               *)
TheRunEnds == <>(ending # "none")
=============================================================================
