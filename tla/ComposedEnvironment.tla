------------------------- MODULE ComposedEnvironment -------------------------
(***************************************************************************)
(* One ComposedEnvironmentExecutor (sdk/src/ul/probe_execution.py): the    *)
(* target's invoker, an optional state environment that resets, sets up,   *)
(* photographs and cleans the target's fixture around every case, and an   *)
(* optional observation source.  Each of them may be synchronous: then its *)
(* operations run on a thread that outlives the await which gave it up.    *)
(*                                                                         *)
(* A case may be cut short at any await: by its own timeout, by a          *)
(* cancellation of its caller, by the grace of its cleanup.  What was      *)
(* given up may still change the fixture later, and no later case may run  *)
(* against that.                                                           *)
(*                                                                         *)
(* The adapters and the outside world are the action Land: an operation    *)
(* takes effect and answers at any time, or never.                         *)
(***************************************************************************)
EXTENDS Integers, FiniteSets

CONSTANTS
    Cases,          \* the evaluation cases that callers execute
    Compositions,   \* the executors considered, by what they are made of
    CancelLimit,    \* bound: cancellations by the callers
    Before          \* what earlier use left in the fixture

(* turns: user turns of a case; state: the state environment, if any       *)
(* ("callback": a CallbackStateEnvironment around synchronous callbacks);  *)
(* setup: it supports setup; observer, flusher: observation source and     *)
(* worker trace flusher, if any.                                           *)
Composition == [turns : Nat \ {0}, setup : BOOLEAN,
                invoker  : {"async", "sync"},
                state    : {"none", "async", "sync", "callback"},
                observer : {"none", "async", "sync"},
                flusher  : {"none", "async", "sync"}]

ASSUME TheseAreCompositions == Compositions \subseteq Composition
ASSUME CancellationsAreBounded == CancelLimit \in Nat
ASSUME BeforeIsNoCase == Before \notin Cases

Lifecycle == {"reset", "setup", "initial", "invoke", "flush", "snapshot", "cleanup"}
Op == Lifecycle \cup {"observe"}

VARIABLES
    made,           \* what the executor was constructed with
    task,           \* task[c]: the coroutine that executes case c
    uncertain,      \* _state_uncertain
    unavailable,    \* runners that gave up an operation
    working,        \* operations the outside world is still performing
    dirt,           \* whose effects are in the fixture
    cancels         \* (bound) cancellations so far

vars == <<made, task, uncertain, unavailable, working, dirt, cancels>>

HasState    == made.state # "none"
HasObserver == made.observer # "none"
HasFlusher  == made.flusher # "none"

(* The runner on whose thread an operation runs, or "loop".  The executor  *)
(* gives cleanup a runner of its own; a CallbackStateEnvironment runs all  *)
(* its synchronous callbacks on one.                                       *)
RunnerOf(op) ==
    CASE op = "invoke"  -> IF made.invoker  = "sync" THEN "invoker"  ELSE "loop"
      [] op = "flush"   -> IF made.flusher  = "sync" THEN "flusher"  ELSE "loop"
      [] op = "observe" -> IF made.observer = "sync" THEN "observer" ELSE "loop"
      [] op = "cleanup" /\ made.state = "sync" -> "cleanup"
      [] OTHER -> IF made.state = "async" THEN "loop" ELSE "state"

(* at: the operation awaited, or where the coroutine stands; answer: what  *)
(* that operation gave, "refused" when its runner did not take it;         *)
(* answered: turns with a response; started: the reset succeeded; error:   *)
(* what the lifecycle failed with; unwinding: CancelledError is on its way *)
(* out; timed: the case's timeout fired; left: observations still to make. *)
Task == [at : Op \cup {"idle", "queued", "ended"},
         answer : {"none", "ok", "known", "doubt", "undelivered", "refused"},
         answered : 0 .. made.turns, started : BOOLEAN,
         error : {"none", "known", "doubt", "undelivered"},
         unwinding : BOOLEAN, timed : BOOLEAN, left : 0 .. made.turns,
         result : {"none", "succeeded", "failed", "blocked", "raised"}]

NewTask == [at |-> "idle", answer |-> "none", answered |-> 0, started |-> FALSE,
            error |-> "none", unwinding |-> FALSE, timed |-> FALSE, left |-> 0,
            result |-> "none"]

Init ==
    /\ made \in Compositions
    /\ task = [c \in Cases |-> NewTask]
    /\ uncertain = FALSE /\ unavailable = {} /\ working = {}
    /\ dirt = {Before} /\ cancels = 0
-----------------------------------------------------------------------------
LockFree == \A c \in Cases : task[c].at \notin Op

(* The runner of op takes it: it gave up no operation and runs none.       *)
Takes(op, gone) ==
    \/ RunnerOf(op) = "loop"
    \/ /\ RunnerOf(op) \notin gone
       /\ \A w \in working : RunnerOf(w.op) # RunnerOf(op)

(* The coroutine of c, now t, calls op and awaits it; the runners in gone  *)
(* gave up an operation.                                                   *)
Await(c, t, op, gone) ==
    /\ task' = [task EXCEPT ![c] = [t EXCEPT !.at = op,
                    !.answer = IF Takes(op, gone) THEN "none" ELSE "refused"]]
    /\ working' = working \cup (IF Takes(op, gone) THEN {[case |-> c, op |-> op]} ELSE {})
    /\ unavailable' = gone

End(c, t, gone, result) ==
    /\ task' = [task EXCEPT ![c] = [t EXCEPT !.at = "ended", !.answer = "none",
                                    !.result = result]]
    /\ unavailable' = gone
    /\ UNCHANGED working

(* The evidence is built; with an observation source every answered turn   *)
(* is observed, inside the lock and outside the case's timeout.            *)
Conclude(c, t, gone, result) ==
    IF HasObserver /\ t.answered > 0
    THEN Await(c, [t EXCEPT !.result = result, !.left = t.answered], "observe", gone)
    ELSE End(c, t, gone, result)
-----------------------------------------------------------------------------
Submit(c) ==
    /\ task[c].at = "idle"
    /\ task' = [task EXCEPT ![c].at = "queued"]
    /\ UNCHANGED <<made, uncertain, unavailable, working, dirt, cancels>>

(* execute takes the lock (it is fair; any order is allowed here).  Only an *)
(* attested response-only composition, which shares nothing, runs without. *)
(* An environment whose state is uncertain is not touched again.           *)
Enter(c) ==
    /\ task[c].at = "queued" /\ LockFree
    /\ \/ /\ HasState /\ uncertain
          /\ End(c, task[c], unavailable, "blocked") /\ UNCHANGED uncertain
       \/ /\ HasState /\ ~uncertain
          /\ uncertain' = TRUE
          /\ Await(c, task[c], "reset", unavailable)
       \/ /\ ~HasState
          /\ Await(c, task[c], "invoke", unavailable) /\ UNCHANGED uncertain
    /\ UNCHANGED <<made, dirt, cancels>>
-----------------------------------------------------------------------------
(* What the fixture may be after an operation with that outcome.           *)
Effects(w, outcome) ==
    CASE outcome = "undelivered" -> {dirt}
      [] w.op \in {"reset", "cleanup"} -> IF outcome = "ok" THEN {{}} ELSE {dirt, {}}
      [] w.op \in {"setup", "invoke"} ->
            IF outcome = "ok" THEN {dirt \cup {w.case}} ELSE {dirt, dirt \cup {w.case}}
      [] OTHER -> {dirt}

(* The outside world performs an operation, awaited or given up.  "known": *)
(* a failure that says the operation is over; "undelivered": it never      *)
(* began; "doubt": anything else, after which a remote operation may still *)
(* be under way.  An awaited operation answers once.                       *)
Land(w, outcome) ==
    /\ w \in working
    /\ outcome = "undelivered" => w.op = "reset"
    /\ dirt' \in Effects(w, outcome)
    /\ \/ working' = working \ {w}
       \/ outcome = "doubt" /\ RunnerOf(w.op) = "loop" /\ UNCHANGED working
    /\ IF task[w.case].at = w.op /\ task[w.case].answer = "none"
       THEN task' = [task EXCEPT ![w.case].answer = outcome]
       ELSE outcome = "ok" /\ UNCHANGED task
    /\ UNCHANGED <<made, uncertain, unavailable, cancels>>
-----------------------------------------------------------------------------
(* What the lifecycle does once the awaited operation succeeded.           *)
AfterTurn(t) ==
    CASE t.answered < made.turns -> "invoke"
      [] HasState -> "cleanup"
      [] OTHER -> "conclude"

NextOp(t) ==
    CASE t.at = "reset"    -> IF made.setup THEN "setup" ELSE "initial"
      [] t.at = "setup"    -> "initial"
      [] t.at = "initial"  -> "invoke"
      [] t.at = "invoke" /\ HasFlusher -> "flush"
      [] t.at \in {"invoke", "flush"} /\ HasState -> "snapshot"
      [] OTHER -> AfterTurn(t)

(* The lifecycle goes on; a flusher's failure is swallowed.  A turn counts *)
(* as answered once _invoke returned.                                      *)
Proceed(c) ==
    LET old == task[c]
        answers == old.at = IF HasFlusher THEN "flush" ELSE "invoke"
        t == [old EXCEPT !.started = @ \/ old.at = "reset",
                         !.answered = IF answers THEN @ + 1 ELSE @]
    IN  /\ old.at \in Lifecycle \ {"cleanup"}
        /\ old.answer = "ok" \/ (old.at = "flush" /\ old.answer # "none")
        /\ IF NextOp(t) = "conclude" THEN Conclude(c, t, unavailable, "succeeded")
                                     ELSE Await(c, t, NextOp(t), unavailable)
        /\ UNCHANGED <<made, uncertain, dirt, cancels>>

(* An operation failed, or its answer did not pass the checks.  A fixture  *)
(* that was reset is cleaned; one that was not is trusted only if the      *)
(* reset never reached it.                                                 *)
Fail(c) ==
    LET old == task[c]
        t == [old EXCEPT !.error = IF old.answer = "refused" THEN "doubt" ELSE old.answer]
    IN  /\ old.at \in Lifecycle \ {"flush", "cleanup"}
        /\ old.answer \notin {"none", "ok"}
        /\ IF t.started
           THEN Await(c, t, "cleanup", unavailable) /\ UNCHANGED uncertain
           ELSE /\ Conclude(c, t, unavailable, "failed")
                /\ uncertain' = (HasState /\ t.error # "undelivered")
        /\ UNCHANGED <<made, dirt, cancels>>

(* Mutant: a failure of the lifecycle does not matter once the fixture was *)
(* cleaned.                                                                *)
ReusableOnceCleaned(t, cleaned) == cleaned

(* The fixture can be trusted again after a case that was not cut short.   *)
Reusable(t, cleaned) == cleaned /\ t.error # "doubt"

(* Past the cleanup.  A CancelledError on its way out leaves the state     *)
(* uncertain.  A projection that fails is raised to the caller instead of  *)
(* the evidence.                                                           *)
Settle(c, t, gone, cleaned) ==
    IF t.unwinding THEN End(c, t, gone, "raised") /\ UNCHANGED uncertain
    ELSE /\ uncertain' = ~Reusable(t, cleaned)
         /\ IF t.error = "none" /\ cleaned
            THEN Conclude(c, t, gone, "succeeded") \/ End(c, t, gone, "raised")
            ELSE Conclude(c, t, gone, "failed")

Cleaned(c) ==
    /\ task[c].at = "cleanup" /\ task[c].answer # "none"
    /\ Settle(c, task[c], unavailable, task[c].answer = "ok")
    /\ UNCHANGED <<made, dirt, cancels>>

(* The next observation of t, or the end.                                  *)
ObserveNext(c, t, gone) ==
    IF t.left > 1 THEN Await(c, [t EXCEPT !.left = @ - 1], "observe", gone)
                  ELSE End(c, t, gone, t.result)

(* An observation, or a placeholder that says it is missing.               *)
Observed(c) ==
    /\ task[c].at = "observe" /\ task[c].answer # "none"
    /\ ObserveNext(c, task[c], unavailable)
    /\ UNCHANGED <<made, uncertain, dirt, cancels>>
-----------------------------------------------------------------------------
(* The runners that gave up an operation once what c awaits is cancelled:  *)
(* its thread may still be working.                                        *)
GivenUp(c) == unavailable \cup ({RunnerOf(task[c].at)} \ {"loop"})

(* A call that its runner refused is not awaited.                          *)
Awaiting(c) == task[c].at \in Op /\ task[c].answer # "refused"

(* Mutant: a cancelled case leaves without cleaning.                       *)
InterruptWithoutCleanup(c, t) == End(c, t, GivenUp(c), "raised")

(* CancelledError at the await of c: a fixture that was reset is cleaned   *)
(* on the way out, unless it was the cleanup that was cancelled.           *)
Interrupt(c, t) ==
    IF t.started /\ t.at \notin {"cleanup", "observe"}
    THEN Await(c, [t EXCEPT !.unwinding = TRUE], "cleanup", GivenUp(c))
    ELSE End(c, t, GivenUp(c), "raised")

(* The case's timeout spans the lifecycle, cleanup included.               *)
CaseExpires(c) ==
    /\ Awaiting(c) /\ task[c].at # "observe" /\ ~task[c].timed
    /\ Interrupt(c, [task[c] EXCEPT !.timed = TRUE])
    /\ UNCHANGED <<made, uncertain, dirt, cancels>>

(* The caller cancels: the user's stop, or a timeout around execute.       *)
CallerCancels(c) ==
    /\ cancels < CancelLimit
    /\ cancels' = cancels + 1
    /\ \/ task[c].at = "queued" /\ End(c, task[c], unavailable, "raised")
       \/ Awaiting(c) /\ Interrupt(c, task[c])
    /\ UNCHANGED <<made, uncertain, dirt>>

(* Mutant: only a lifecycle that failed bounds its cleanup.                *)
GraceOfFailures(c) ==
    /\ task[c].at = "cleanup" /\ Awaiting(c) /\ task[c].error # "none"
    /\ Settle(c, task[c], GivenUp(c), FALSE)
    /\ UNCHANGED <<made, dirt, cancels>>

(* The grace of the cleanup is over.                                       *)
GraceExpires(c) ==
    /\ task[c].at = "cleanup" /\ Awaiting(c)
    /\ Settle(c, task[c], GivenUp(c), FALSE)
    /\ UNCHANGED <<made, dirt, cancels>>

ObservationExpires(c) ==
    /\ task[c].at = "observe" /\ Awaiting(c)
    /\ ObserveNext(c, task[c], GivenUp(c))
    /\ UNCHANGED <<made, uncertain, dirt, cancels>>
-----------------------------------------------------------------------------
(* What the event loop resumes, and its timers.                            *)
Resume(c) ==
    \/ Enter(c) \/ Proceed(c) \/ Fail(c) \/ Cleaned(c) \/ Observed(c)
    \/ CaseExpires(c) \/ GraceExpires(c) \/ ObservationExpires(c)

World == \E w \in working, outcome \in {"ok", "known", "doubt", "undelivered"} :
             Land(w, outcome)

Rest == (\A c \in Cases : task[c].at = "ended") /\ UNCHANGED vars

Next ==
    \/ \E c \in Cases : Submit(c) \/ Resume(c) \/ CallerCancels(c)
    \/ World \/ Rest

Spec == Init /\ [][Next]_vars

(* The event loop runs what is ready and fires what is due.  Nothing is    *)
(* assumed of the adapters: an operation may hang for ever.                *)
FairSpec == Spec /\ \A c \in Cases : WF_vars(Resume(c))
-----------------------------------------------------------------------------
(* The shape of the state of probe_execution.py: at most one coroutine per *)
(* case, a boolean quarantine, runners that are marked as unavailable.     *)
TypeOK ==
    /\ made \in Compositions
    /\ task \in [Cases -> Task]
    /\ uncertain \in BOOLEAN
    /\ unavailable \subseteq {"invoker", "observer", "flusher", "state", "cleanup"}
    /\ working \subseteq [case : Cases, op : Op]
    /\ dirt \subseteq Cases \cup {Before}
    /\ cancels \in 0 .. CancelLimit

(* "preventing another case from running against state that may be dirty"  *)
(* (docs/state-hooks.md): between the reset of a case and its cleanup the  *)
(* fixture holds its own effects only, and nothing that an earlier case    *)
(* gave up can still change it.                                            *)
Isolation ==
    \A c \in Cases : task[c].started /\ task[c].at \in Lifecycle \ {"cleanup"} =>
        /\ dirt \subseteq {c}
        /\ \A w \in working : w.case = c \/ w.op \in {"observe", "flush"}

(* An environment that is free and does not call its state uncertain is    *)
(* clean, whatever ended the last case: nobody's effects are left in the   *)
(* fixture and no lifecycle operation is under way.                        *)
ReusableIsClean ==
    HasState /\ ~uncertain =>
        dirt \subseteq {Before} /\ \A w \in working : w.op \in {"observe", "flush"}

(* "Quarantine has no in-place recovery" (docs/state-hooks.md): once the   *)
(* environment is free with its state uncertain, no operation is called on *)
(* any adapter again.                                                      *)
QuarantineIsPermanent ==
    [][HasState /\ LockFree /\ uncertain =>
          uncertain' /\ working' \subseteq working]_vars

(* "They do not run concurrently" (docs/state-hooks.md): a runner has one  *)
(* thread, also after it gave up an operation that is still running.       *)
OneThreadPerRunner ==
    \A v, w \in working :
        RunnerOf(v.op) = RunnerOf(w.op) /\ RunnerOf(v.op) # "loop" => v = w

(* What a case meets is its own: in the fixture, in the threads that serve *)
(* it, and in the environment it leaves behind for the next case.          *)
CasesAreIsolated == TypeOK /\ Isolation /\ ReusableIsClean /\ OneThreadPerRunner

(* A fixture that was reset is never left without its cleanup being asked  *)
(* for, whatever cuts the case short.                                      *)
CleanupIsAskedFor ==
    [][\A c \in Cases : task[c].started /\ task[c].at \in Lifecycle \ {"cleanup"} =>
          task'[c].at \in Lifecycle]_vars

(* Both hold in every step, of any case.                                   *)
HooksAreHonoured == QuarantineIsPermanent /\ CleanupIsAskedFor

(* Every case that is executed ends, although any adapter may hang.        *)
EveryCaseEnds == \A c \in Cases : task[c].at = "queued" ~> task[c].at = "ended"
=============================================================================
