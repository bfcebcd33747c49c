---------------------- MODULE ComposedEnvironmentProofs ----------------------
(***************************************************************************)
(* Theorems about the composed environment, for any cases, executors and   *)
(* number of cancellations.                                                *)
(*                                                                         *)
(* The argument: IInv is inductive.  One case at a time holds the lock     *)
(* (OneHolds); while it is within its lifecycle the environment counts as  *)
(* uncertain, so that it is enough to know the fixture of the holder       *)
(* (FixtureOK): what can still change it is the holder's own, and as long  *)
(* as nothing was given up or left in doubt (Trusted) it is at most the    *)
(* operation that is awaited.  The environment is called certain again     *)
(* only by a trusted holder whose cleanup answered, or whose reset never   *)
(* began, and then nothing is under way.                                   *)
(***************************************************************************)
EXTENDS ComposedEnvironment, TLAPS

Runner == {"invoker", "observer", "flusher", "state", "cleanup"}

(* Operations under way that may change the fixture.                       *)
Changing == {w \in working : w.op \notin {"observe", "flush"}}

(* Nothing of this task was given up, or left in doubt; a flusher's        *)
(* failure does not count.                                                 *)
Trusted(t) ==
    ~t.unwinding /\ t.error # "doubt" /\ (t.answer # "doubt" \/ t.at = "flush")

OneHolds == \A c, d \in Cases : task[c].at \in Op /\ task[d].at \in Op => c = d

(* What a coroutine knows at the place where it stands.                    *)
TaskOK(c) ==
    LET t == task[c]
    IN  /\ t.at \in {"idle", "queued"} => ~t.started /\ t.error = "none" /\ ~t.unwinding
        /\ t.at \in {"idle", "queued", "reset", "setup", "initial"} => t.answered = 0
        /\ t.at \in {"invoke", "flush"} => t.answered < made.turns
        /\ t.at \in Lifecycle \ {"cleanup"} => t.error = "none" /\ ~t.unwinding
        /\ t.at \in {"reset", "setup", "initial", "snapshot", "cleanup"} => HasState
        /\ t.at = "reset" => ~t.started
        /\ HasState /\ t.at \in Lifecycle \ {"reset"} => t.started
        /\ t.started => HasState
        /\ HasState /\ t.at \in Lifecycle => uncertain

(* The fixture of the case that holds the lock.                            *)
FixtureOK(c) ==
    LET t == task[c]
    IN  HasState /\ t.at \in Lifecycle =>
            /\ \A w \in Changing : w.case = c
            /\ t.at = "reset" => dirt \subseteq {Before} /\ \A w \in Changing : w.op = "reset"
            /\ t.started => dirt \subseteq {c}
            /\ Trusted(t) => \A w \in Changing : w.op = t.at /\ t.answer = "none"
            /\ Trusted(t) /\ t.at \in {"reset", "cleanup"} /\ t.answer = "ok" => dirt = {}

IInv ==
    /\ TypeOK /\ OneHolds
    /\ \A c \in Cases : TaskOK(c) /\ FixtureOK(c)
    /\ ReusableIsClean /\ OneThreadPerRunner
-----------------------------------------------------------------------------
(* The parts of the state that every step needs.                           *)
LEMMA Shapes ==
    ASSUME TypeOK
    PROVE  /\ made \in Composition /\ made.turns \in Nat \ {0}
           /\ \A c \in Cases : task[c] \in Task
           /\ \A w \in working : w \in [case : Cases, op : Op]
           /\ \A op \in Op : RunnerOf(op) \in Runner \cup {"loop"}
<1>1. made \in Composition
  BY TheseAreCompositions DEF TypeOK
<1>2. made.turns \in Nat \ {0}
  BY <1>1 DEF Composition
<1>3. \A op \in Op : RunnerOf(op) \in Runner \cup {"loop"}
  BY <1>1 DEF Composition, Runner, RunnerOf
<1> QED
  BY <1>1, <1>2, <1>3 DEF TypeOK

(* A task that stands elsewhere and has another answer is otherwise itself.*)
At(t, place, answer) == [t EXCEPT !.at = place, !.answer = answer]

LEMMA Restated ==
    ASSUME TypeOK, NEW t \in Task, NEW a \in Op \cup {"idle", "queued", "ended"},
           NEW x \in {"none", "ok", "known", "doubt", "undelivered", "refused"}
    PROVE  /\ At(t, a, x) \in Task /\ At(t, a, x).at = a /\ At(t, a, x).answer = x
           /\ At(t, a, x).answered = t.answered /\ At(t, a, x).started = t.started
           /\ At(t, a, x).error = t.error /\ At(t, a, x).unwinding = t.unwinding
           /\ At(t, a, x).timed = t.timed /\ At(t, a, x).left = t.left
  BY DEF Task, At

(* What awaiting an operation changes.                                     *)
LEMMA AwaitGives ==
    ASSUME TypeOK, OneThreadPerRunner, NEW c \in Cases, NEW t \in Task, NEW op \in Op,
           NEW gone \in SUBSET Runner, Await(c, t, op, gone), made' = made
    PROVE  /\ task' \in [Cases -> Task] /\ working' \subseteq [case : Cases, op : Op]
           /\ \A d \in Cases : d # c => task'[d] = task[d]
           /\ task'[c].at = op /\ task'[c].answer \in {"none", "refused"}
           /\ task'[c].answered = t.answered /\ task'[c].started = t.started
           /\ task'[c].error = t.error /\ task'[c].unwinding = t.unwinding
           /\ task'[c].timed = t.timed /\ task'[c].left = t.left
           /\ \A w \in working' : w \in working \/ w = [case |-> c, op |-> op]
           /\ task'[c].answer = "refused" => working' = working
           /\ OneThreadPerRunner' /\ unavailable' \in SUBSET Runner
<1>1. PICK given \in {"none", "refused"} : given = IF Takes(op, gone) THEN "none" ELSE "refused"
  OBVIOUS
<1> DEFINE s == At(t, op, given)
<1>2. /\ s \in Task /\ s.at = op /\ s.answer = given
      /\ s.answered = t.answered /\ s.started = t.started /\ s.error = t.error
      /\ s.unwinding = t.unwinding /\ s.timed = t.timed /\ s.left = t.left
  <2> QED
    <3>1. op \in Op \cup {"idle", "queued", "ended"}
      OBVIOUS
    <3>2. given \in {"none", "ok", "known", "doubt", "undelivered", "refused"}
      BY <1>1
    <3> QED
      BY <3>1, <3>2, Restated, Z3 DEF s
<1>3. task' = [task EXCEPT ![c] = s] /\ unavailable' = gone
  BY <1>1 DEF Await, At
<1>4. task \in [Cases -> Task]
  BY DEF TypeOK
<1>5. /\ task' \in [Cases -> Task] /\ task'[c] = s
      /\ \A d \in Cases : d # c => task'[d] = task[d]
  <2> HIDE DEF s
  <2> QED
    BY <1>2, <1>3, <1>4
<1>6. /\ working' \subseteq [case : Cases, op : Op]
      /\ \A w \in working' : w \in working \/ w = [case |-> c, op |-> op]
      /\ given = "refused" => working' = working
  BY <1>1, Shapes DEF Await
<1>7. OneThreadPerRunner'
  <2>1. \A a \in Op : RunnerOf(a)' = RunnerOf(a)
    BY DEF RunnerOf
  <2>2. CASE ~Takes(op, gone)
    BY <2>1, <2>2, Shapes DEF Await, OneThreadPerRunner
  <2>3. CASE Takes(op, gone)
    <3> DEFINE new == [case |-> c, op |-> op]
    <3>1. working' = working \cup {new}
      BY <2>3 DEF Await
    <3>2. RunnerOf(op) # "loop" => \A w \in working : RunnerOf(w.op) # RunnerOf(op)
      BY <2>3 DEF Takes
    <3>3. new.op = op
      OBVIOUS
    <3>4. \A w \in working' : w.op \in Op
      BY <1>6
    <3> HIDE DEF new
    <3> QED
      BY <2>1, <3>1, <3>2, <3>3, <3>4, Shapes DEF OneThreadPerRunner
  <2> QED
    BY <2>2, <2>3
<1> QED
  BY <1>1, <1>2, <1>3, <1>5, <1>6, <1>7

(* What the end of a coroutine changes.                                    *)
LEMMA EndGives ==
    ASSUME TypeOK, OneThreadPerRunner, NEW c \in Cases, NEW t \in Task,
           NEW gone \in SUBSET Runner,
           NEW result \in {"none", "succeeded", "failed", "blocked", "raised"},
           End(c, t, gone, result), made' = made
    PROVE  /\ task' \in [Cases -> Task] /\ working' = working
           /\ \A d \in Cases : d # c => task'[d] = task[d]
           /\ task'[c].at = "ended" /\ task'[c].started = t.started
           /\ OneThreadPerRunner' /\ unavailable' \in SUBSET Runner
<1> DEFINE s == [t EXCEPT !.at = "ended", !.answer = "none", !.result = result]
<1>1. s \in Task /\ s.at = "ended" /\ s.started = t.started
  BY DEF Task
<1>2. task' = [task EXCEPT ![c] = s] /\ unavailable' = gone /\ working' = working
  BY DEF End
<1>3. task \in [Cases -> Task]
  BY DEF TypeOK
<1>4. /\ task' \in [Cases -> Task] /\ task'[c] = s
      /\ \A d \in Cases : d # c => task'[d] = task[d]
  <2> HIDE DEF s
  <2> QED
    BY <1>1, <1>2, <1>3
<1>5. OneThreadPerRunner'
  BY <1>2, Shapes DEF OneThreadPerRunner, RunnerOf
<1> QED
  BY <1>1, <1>2, <1>4, <1>5

-----------------------------------------------------------------------------
(* A step of the holder of the lock that awaits its next operation keeps   *)
(* the invariant if it keeps what concerns the holder.                     *)
LEMMA AwaitKeeps ==
    ASSUME IInv, NEW c \in Cases, NEW t \in Task, NEW op \in Op,
           NEW gone \in SUBSET Runner, Await(c, t, op, gone),
           made' = made, dirt' = dirt, cancels' \in 0 .. CancelLimit, uncertain' \in BOOLEAN,
           \A d \in Cases : d # c => task[d].at \notin Op,
           TaskOK(c)', FixtureOK(c)', ReusableIsClean'
    PROVE  IInv'
<1>1. TypeOK /\ OneThreadPerRunner
  BY DEF IInv
<1>2. /\ task' \in [Cases -> Task] /\ working' \subseteq [case : Cases, op : Op]
      /\ \A d \in Cases : d # c => task'[d] = task[d]
      /\ OneThreadPerRunner' /\ unavailable' \in SUBSET Runner
  BY <1>1, AwaitGives
<1>3. TypeOK'
  BY <1>1, <1>2 DEF TypeOK, Task, Runner
<1>4. OneHolds'
  BY <1>2 DEF OneHolds
<1>5. \A d \in Cases : d # c => TaskOK(d)' /\ FixtureOK(d)'
  <2> TAKE d \in Cases
  <2> HAVE d # c
  <2>1. task'[d] = task[d] /\ task[d].at \notin Op /\ TaskOK(d)
    BY <1>2 DEF IInv
  <2> QED
    BY <2>1 DEF TaskOK, FixtureOK, Op, Lifecycle, HasState
<1> QED
  BY <1>2, <1>3, <1>4, <1>5 DEF IInv

(* So does the end of a coroutine, whether or not it held the lock.        *)
LEMMA EndKeeps ==
    ASSUME IInv, NEW c \in Cases, NEW t \in Task, NEW gone \in SUBSET Runner,
           NEW result \in {"none", "succeeded", "failed", "blocked", "raised"},
           End(c, t, gone, result),
           made' = made, dirt' = dirt, cancels' \in 0 .. CancelLimit,
           t.started => HasState,
           \/ uncertain' = uncertain
           \/ /\ uncertain' \in BOOLEAN
              /\ \A d \in Cases : d # c => task[d].at \notin Op
              /\ ReusableIsClean'
    PROVE  IInv'
<1>1. TypeOK /\ OneThreadPerRunner
  BY DEF IInv
<1>2. /\ task' \in [Cases -> Task] /\ working' = working
      /\ \A d \in Cases : d # c => task'[d] = task[d]
      /\ task'[c].at = "ended" /\ task'[c].started = t.started
      /\ OneThreadPerRunner' /\ unavailable' \in SUBSET Runner
  BY <1>1, EndGives
<1>3. TypeOK'
  BY <1>1, <1>2 DEF TypeOK, Task, Runner
<1>4. OneHolds'
  BY <1>2 DEF OneHolds, IInv, Op, Lifecycle
<1>5. TaskOK(c)' /\ FixtureOK(c)'
  BY <1>2 DEF TaskOK, FixtureOK, Lifecycle, HasState
<1>6. \A d \in Cases : d # c => TaskOK(d)' /\ FixtureOK(d)'
  <2> TAKE d \in Cases
  <2> HAVE d # c
  <2>1. task'[d] = task[d] /\ TaskOK(d) /\ FixtureOK(d)
    BY <1>2 DEF IInv
  <2>2. CASE uncertain' = uncertain
    BY <1>2, <2>1, <2>2 DEF TaskOK, FixtureOK, HasState, Changing
  <2>3. CASE task[d].at \notin Op
    BY <2>1, <2>3 DEF TaskOK, FixtureOK, Op, Lifecycle, HasState
  <2> QED
    BY <2>2, <2>3
<1>7. ReusableIsClean'
  BY <1>2 DEF IInv, ReusableIsClean, HasState
<1> QED
  BY <1>2, <1>3, <1>4, <1>5, <1>6, <1>7 DEF IInv

LEMMA Alone ==
    ASSUME IInv, NEW c \in Cases, task[c].at \in Op
    PROVE  \A d \in Cases : d # c => task[d].at \notin Op
  BY DEF IInv, OneHolds

LEMMA GivenUpRunners ==
    ASSUME IInv, NEW c \in Cases, task[c].at \in Op
    PROVE  GivenUp(c) \in SUBSET Runner /\ unavailable \in SUBSET Runner
<1>1. RunnerOf(task[c].at) \in Runner \cup {"loop"} /\ unavailable \subseteq Runner
  BY Shapes DEF IInv, TypeOK, Runner
<1> QED
  BY <1>1 DEF GivenUp

(* The evidence is built, and observed.                                    *)
LEMMA ConcludeKeeps ==
    ASSUME IInv, NEW c \in Cases, NEW t \in Task, NEW gone \in SUBSET Runner,
           NEW result \in {"succeeded", "failed"}, Conclude(c, t, gone, result),
           made' = made, dirt' = dirt, cancels' \in 0 .. CancelLimit, uncertain' \in BOOLEAN,
           \A d \in Cases : d # c => task[d].at \notin Op,
           t.started => HasState,
           HasState /\ ~uncertain' => dirt \subseteq {Before} /\ Changing = {}
    PROVE  IInv'
<1>1. CASE HasObserver /\ t.answered > 0
  <2> DEFINE s == [t EXCEPT !.result = result, !.left = t.answered]
  <2>1. s \in Task /\ s.started = t.started
    BY DEF Task
  <2>2. Await(c, s, "observe", gone)
    BY <1>1 DEF Conclude
  <2>3. TypeOK /\ OneThreadPerRunner /\ "observe" \in Op
    BY DEF IInv, Op
  <2> HIDE DEF s
  <2>4. /\ task'[c].at = "observe" /\ task'[c].started = t.started
        /\ \A w \in working' : w \in working \/ w = [case |-> c, op |-> "observe"]
    BY <2>1, <2>2, <2>3, AwaitGives
  <2>5. TaskOK(c)' /\ FixtureOK(c)'
    BY <2>4 DEF TaskOK, FixtureOK, Lifecycle, HasState
  <2>6. ReusableIsClean'
    BY <2>4 DEF ReusableIsClean, HasState, Changing
  <2> QED
    BY <2>1, <2>2, <2>3, <2>5, <2>6, AwaitKeeps
<1>2. CASE ~(HasObserver /\ t.answered > 0)
  <2>1. End(c, t, gone, result)
    BY <1>2 DEF Conclude
  <2>2. ReusableIsClean'
    BY <2>1 DEF End, ReusableIsClean, HasState, Changing
  <2> QED
    BY <2>1, <2>2, EndKeeps
<1> QED
  BY <1>1, <1>2

LEMMA ObserveNextKeeps ==
    ASSUME IInv, NEW c \in Cases, task[c].at = "observe", NEW gone \in SUBSET Runner,
           ObserveNext(c, task[c], gone), UNCHANGED <<made, uncertain, dirt, cancels>>
    PROVE  IInv'
<1> DEFINE t == task[c]
<1>1. /\ TypeOK /\ OneThreadPerRunner /\ t \in Task /\ "observe" \in Op
      /\ cancels' \in 0 .. CancelLimit /\ uncertain' \in BOOLEAN
      /\ t.started => HasState
  BY DEF IInv, TypeOK, Op, TaskOK
<1>2. \A d \in Cases : d # c => task[d].at \notin Op
  BY <1>1, Alone
<1>3. CASE t.left > 1
  <2> DEFINE s == [t EXCEPT !.left = t.left - 1]
  <2>1. s \in Task /\ s.started = t.started
    BY <1>1, <1>3, Shapes DEF Task
  <2>2. Await(c, s, "observe", gone)
    BY <1>3 DEF ObserveNext
  <2> HIDE DEF s
  <2>3. /\ task'[c].at = "observe" /\ task'[c].started = t.started
        /\ \A w \in working' : w \in working \/ w = [case |-> c, op |-> "observe"]
    BY <1>1, <2>1, <2>2, AwaitGives
  <2>4. TaskOK(c)' /\ FixtureOK(c)'
    BY <1>1, <2>3 DEF TaskOK, FixtureOK, Lifecycle, HasState
  <2>5. ReusableIsClean'
    BY <2>3 DEF ReusableIsClean, HasState, IInv
  <2> QED
    BY <1>1, <1>2, <2>1, <2>2, <2>4, <2>5, AwaitKeeps
<1>4. CASE ~(t.left > 1)
  <2>1. End(c, t, gone, t.result) /\ t.result \in {"none", "succeeded", "failed", "blocked", "raised"}
    BY <1>1, <1>4 DEF ObserveNext, Task
  <2> HIDE DEF t
  <2> QED
    BY <1>1, <2>1, EndKeeps
<1> QED
  BY <1>3, <1>4

(* A CancelledError: what was under way is no longer trusted.              *)
LEMMA InterruptKeeps ==
    ASSUME IInv, NEW c \in Cases, task[c].at \in Op, NEW t \in Task,
           t.at = task[c].at, t.started = task[c].started,
           Interrupt(c, t),
           UNCHANGED <<made, uncertain, dirt>>, cancels' \in 0 .. CancelLimit
    PROVE  IInv'
<1>1. /\ TypeOK /\ OneThreadPerRunner /\ "cleanup" \in Op /\ uncertain' \in BOOLEAN
      /\ TaskOK(c) /\ FixtureOK(c) /\ ReusableIsClean
  BY DEF IInv, TypeOK, Op, Lifecycle
<1>2. \A d \in Cases : d # c => task[d].at \notin Op
  BY Alone
<1>3. GivenUp(c) \in SUBSET Runner
  BY GivenUpRunners
<1>4. CASE t.started /\ t.at \notin {"cleanup", "observe"}
  <2> DEFINE s == [t EXCEPT !.unwinding = TRUE]
  <2>1. s \in Task /\ s.started = t.started /\ s.unwinding = TRUE
    BY DEF Task
  <2>2. Await(c, s, "cleanup", GivenUp(c))
    BY <1>4 DEF Interrupt
  <2> HIDE DEF s
  <2>3. /\ task'[c].at = "cleanup" /\ task'[c].started /\ task'[c].unwinding
        /\ \A w \in working' : w \in working \/ w = [case |-> c, op |-> "cleanup"]
    BY <1>1, <1>3, <1>4, <2>1, <2>2, AwaitGives
  <2>4. task[c].at \in Lifecycle /\ HasState /\ uncertain
    BY <1>1, <1>4 DEF TaskOK, Op
  <2>5. TaskOK(c)'
    BY <2>3, <2>4 DEF TaskOK, Lifecycle, HasState
  <2>6. FixtureOK(c)'
    BY <1>1, <1>4, <2>3, <2>4 DEF FixtureOK, Lifecycle, HasState, Changing, Trusted
  <2>7. ReusableIsClean'
    BY <2>4 DEF ReusableIsClean
  <2> QED
    BY <1>1, <1>2, <1>3, <2>1, <2>2, <2>5, <2>6, <2>7, AwaitKeeps
<1>5. CASE ~(t.started /\ t.at \notin {"cleanup", "observe"})
  <2>1. End(c, t, GivenUp(c), "raised") /\ (t.started => HasState)
    BY <1>1, <1>5 DEF Interrupt, TaskOK
  <2> QED
    BY <1>3, <2>1, EndKeeps
<1> QED
  BY <1>4, <1>5

(* Past the cleanup: the environment is called certain only if the cleanup *)
(* answered and nothing was given up before it.                            *)
LEMMA SettleKeeps ==
    ASSUME IInv, NEW c \in Cases, task[c].at = "cleanup", NEW gone \in SUBSET Runner,
           NEW cleaned \in BOOLEAN, cleaned => task[c].answer = "ok",
           Settle(c, task[c], gone, cleaned), UNCHANGED <<made, dirt, cancels>>
    PROVE  IInv'
<1> DEFINE t == task[c]
<1>1. /\ TypeOK /\ t \in Task /\ t.at \in Op /\ t.at \in Lifecycle
      /\ cancels' \in 0 .. CancelLimit
      /\ TaskOK(c) /\ FixtureOK(c) /\ (t.started => HasState) /\ HasState
  BY DEF IInv, TypeOK, Op, Lifecycle, TaskOK
<1>2. \A d \in Cases : d # c => task[d].at \notin Op
  BY <1>1, Alone
<1>3. CASE t.unwinding
  <2>1. End(c, t, gone, "raised") /\ uncertain' = uncertain
    BY <1>3 DEF Settle
  <2> HIDE DEF t
  <2> QED
    BY <1>1, <2>1, EndKeeps
<1>4. CASE ~t.unwinding
  <2>1. uncertain' = ~Reusable(t, cleaned)
    BY <1>4 DEF Settle
  <2>2. uncertain' \in BOOLEAN
    BY <2>1
  <2>3. ~uncertain' => dirt = {} /\ Changing = {}
    <3>1. SUFFICES ASSUME ~uncertain' PROVE dirt = {} /\ Changing = {}
      OBVIOUS
    <3>2. t.answer = "ok" /\ t.error # "doubt" /\ t.at = "cleanup"
      BY <2>1, <3>1 DEF Reusable
    <3>3. Trusted(t)
      BY <1>4, <3>2 DEF Trusted
    <3> QED
      BY <1>1, <3>2, <3>3 DEF FixtureOK
  <2>4. \/ End(c, t, gone, "raised")
        \/ \E result \in {"succeeded", "failed"} : Conclude(c, t, gone, result)
    BY <1>4 DEF Settle
  <2>5. CASE End(c, t, gone, "raised")
    <3>1. ReusableIsClean'
      BY <2>3, <2>5 DEF End, ReusableIsClean, Changing
    <3> HIDE DEF t
    <3> QED
      BY <1>1, <1>2, <2>2, <2>5, <3>1, EndKeeps
  <2>6. ASSUME NEW result \in {"succeeded", "failed"}, Conclude(c, t, gone, result)
        PROVE  IInv'
    <3> HIDE DEF t
    <3> QED
      BY <1>1, <1>2, <2>2, <2>3, <2>6, ConcludeKeeps
  <2> QED
    BY <2>4, <2>5, <2>6
<1> QED
  BY <1>3, <1>4
-----------------------------------------------------------------------------
LEMMA SubmitKeeps ==
    ASSUME IInv, NEW c \in Cases, Submit(c)
    PROVE  IInv'
<1> DEFINE s == [task[c] EXCEPT !.at = "queued"]
<1>1. TypeOK /\ task[c] \in Task /\ task \in [Cases -> Task] /\ task[c].at = "idle"
  BY DEF IInv, TypeOK, Submit
<1>2. /\ s \in Task /\ s.at = "queued" /\ s.answered = task[c].answered
      /\ s.started = task[c].started /\ s.error = task[c].error
      /\ s.unwinding = task[c].unwinding
  BY <1>1 DEF Task
<1>3. task' = [task EXCEPT ![c] = s]
  BY DEF Submit
<1> HIDE DEF s
<1>4. /\ task' \in [Cases -> Task] /\ task'[c] = s
      /\ \A d \in Cases : d # c => task'[d] = task[d]
  BY <1>1, <1>2, <1>3
<1>5. UNCHANGED <<made, uncertain, unavailable, working, dirt, cancels>>
  BY DEF Submit
<1>6. TypeOK'
  BY <1>1, <1>4, <1>5 DEF TypeOK, Task
<1>7. OneHolds'
  BY <1>2, <1>4 DEF IInv, OneHolds, Op, Lifecycle
<1>8. TaskOK(c)' /\ FixtureOK(c)'
  <2>1. TaskOK(c)
    BY DEF IInv
  <2> QED
    BY <1>1, <1>2, <1>4, <1>5, <2>1 DEF TaskOK, FixtureOK, Lifecycle, HasState
<1>9. \A d \in Cases : d # c => TaskOK(d)' /\ FixtureOK(d)'
  BY <1>4, <1>5 DEF IInv, TaskOK, FixtureOK, HasState, Changing
<1>10. ReusableIsClean' /\ OneThreadPerRunner'
  BY <1>5 DEF IInv, ReusableIsClean, OneThreadPerRunner, HasState, RunnerOf
<1> QED
  BY <1>6, <1>7, <1>8, <1>9, <1>10 DEF IInv

LEMMA EnterKeeps ==
    ASSUME IInv, NEW c \in Cases, Enter(c)
    PROVE  IInv'
<1> DEFINE t == task[c]
<1>1. /\ TypeOK /\ OneThreadPerRunner /\ t \in Task /\ t.at = "queued"
      /\ ~t.started /\ t.error = "none" /\ ~t.unwinding /\ t.answered = 0
      /\ unavailable \in SUBSET Runner /\ ReusableIsClean
      /\ cancels' \in 0 .. CancelLimit
      /\ made' = made /\ dirt' = dirt
  BY DEF IInv, TypeOK, TaskOK, Enter, Runner
<1>2. \A d \in Cases : d # c => task[d].at \notin Op
  BY DEF Enter, LockFree
<1>3. CASE HasState /\ uncertain
  <2>1. End(c, t, unavailable, "blocked") /\ uncertain' = uncertain
    BY <1>3 DEF Enter
  <2> HIDE DEF t
  <2> QED
    BY <1>1, <2>1, EndKeeps
<1>4. CASE HasState /\ ~uncertain
  <2>1. Await(c, t, "reset", unavailable) /\ uncertain' = TRUE /\ "reset" \in Op
    BY <1>4 DEF Enter, Op, Lifecycle
  <2> HIDE DEF t
  <2>2. /\ task'[c].at = "reset" /\ ~task'[c].started /\ task'[c].error = "none"
        /\ ~task'[c].unwinding /\ task'[c].answered = 0
        /\ task'[c].answer \in {"none", "refused"}
        /\ task'[c].answer = "refused" => working' = working
        /\ \A w \in working' : w \in working \/ w = [case |-> c, op |-> "reset"]
    BY <1>1, <2>1, AwaitGives
  <2>3. TaskOK(c)'
    BY <1>1, <1>4, <2>1, <2>2 DEF TaskOK, Lifecycle, HasState
  <2>4. FixtureOK(c)'
    BY <1>1, <1>4, <2>1, <2>2 DEF FixtureOK, ReusableIsClean, Changing
  <2>5. ReusableIsClean' /\ uncertain' \in BOOLEAN
    BY <2>1 DEF ReusableIsClean
  <2> QED
    BY <1>1, <1>2, <2>1, <2>3, <2>4, <2>5, AwaitKeeps
<1>5. CASE ~HasState
  <2>1. Await(c, t, "invoke", unavailable) /\ uncertain' = uncertain /\ "invoke" \in Op
    BY <1>5 DEF Enter, Op, Lifecycle
  <2> HIDE DEF t
  <2>2. /\ task'[c].at = "invoke" /\ ~task'[c].started /\ task'[c].error = "none"
        /\ ~task'[c].unwinding /\ task'[c].answered = 0
    BY <1>1, <2>1, AwaitGives
  <2>3. made'.turns \in Nat \ {0} /\ ~HasState'
    BY <1>1, <1>5, Shapes DEF HasState
  <2>4. TaskOK(c)'
    BY <2>2, <2>3 DEF TaskOK, Lifecycle
  <2>5. FixtureOK(c)' /\ ReusableIsClean' /\ uncertain' \in BOOLEAN
    BY <1>1, <2>1, <2>3 DEF FixtureOK, ReusableIsClean, TypeOK
  <2> QED
    BY <1>1, <1>2, <2>1, <2>4, <2>5, AwaitKeeps
<1> QED
  BY <1>3, <1>4, <1>5

(* What is counted when the awaited operation succeeded.                   *)
Gone(t) == [t EXCEPT !.started = @ \/ t.at = "reset",
                     !.answered = IF t.at = (IF HasFlusher THEN "flush" ELSE "invoke")
                                  THEN @ + 1 ELSE @]

LEMMA Counting ==
    ASSUME TypeOK, NEW c \in Cases, TaskOK(c), NEW t, t = Gone(task[c])
    PROVE  /\ t \in Task /\ t.at = task[c].at /\ t.error = task[c].error
           /\ t.unwinding = task[c].unwinding
           /\ t.started = (task[c].started \/ task[c].at = "reset")
           /\ t.answered \in 0 .. made.turns
           /\ task[c].at = "flush" \/ task[c].at = "invoke" \/ t.answered = task[c].answered
           /\ task[c].at = "invoke" /\ HasFlusher => t.answered = task[c].answered
<1> DEFINE old == task[c]
<1>1. old \in Task /\ made.turns \in Nat \ {0}
  BY Shapes
<1>2. old.at \in {"invoke", "flush"} => old.answered < made.turns
  BY DEF TaskOK
<1>3. t = Gone(old)
  OBVIOUS
<1> HIDE DEF old
<1>4. old.answered \in 0 .. made.turns
  BY <1>1 DEF Task
<1>5. PICK n \in 0 .. made.turns :
          /\ n = IF old.at = (IF HasFlusher THEN "flush" ELSE "invoke")
                 THEN old.answered + 1 ELSE old.answered
          /\ old.at = "flush" \/ old.at = "invoke" \/ n = old.answered
          /\ old.at = "invoke" /\ HasFlusher => n = old.answered
  BY <1>1, <1>2, <1>4
<1>6. t = [old EXCEPT !.started = old.started \/ old.at = "reset", !.answered = n]
  BY <1>1, <1>3, <1>5 DEF Gone, Task
<1>7. /\ t \in Task /\ t.at = old.at /\ t.error = old.error /\ t.unwinding = old.unwinding
      /\ t.started = (old.started \/ old.at = "reset") /\ t.answered = n
  BY <1>1, <1>5, <1>6 DEF Task
<1> QED
  BY <1>5, <1>7 DEF old

LEMMA ProceedKeeps ==
    ASSUME IInv, NEW c \in Cases, Proceed(c)
    PROVE  IInv'
<1> DEFINE old == task[c]
<1>1. /\ TypeOK /\ OneThreadPerRunner /\ old \in Task /\ old.at \in Op
      /\ old.at \in Lifecycle \ {"cleanup"}
      /\ old.answer = "ok" \/ (old.at = "flush" /\ old.answer # "none")
      /\ unavailable \in SUBSET Runner /\ ReusableIsClean
      /\ cancels' \in 0 .. CancelLimit /\ uncertain' \in BOOLEAN
      /\ TaskOK(c) /\ FixtureOK(c)
      /\ UNCHANGED <<made, uncertain, dirt, cancels>>
  BY DEF IInv, TypeOK, Proceed, Runner, Op
<1>2. \A d \in Cases : d # c => task[d].at \notin Op
  BY <1>1, Alone
<1>3. PICK t : t = Gone(old)
  OBVIOUS
<1>4. made.turns \in Nat \ {0} /\ made' = made
  BY <1>1, Shapes
<1>5. /\ t \in Task /\ t.at = old.at /\ t.error = old.error /\ t.unwinding = old.unwinding
      /\ t.started = (old.started \/ old.at = "reset")
      /\ t.answered \in 0 .. made.turns
      /\ old.at = "flush" \/ old.at = "invoke" \/ t.answered = old.answered
      /\ old.at = "invoke" /\ HasFlusher => t.answered = old.answered
  BY <1>1, <1>3, Counting
<1>6. IF NextOp(t) = "conclude" THEN Conclude(c, t, unavailable, "succeeded")
                                ELSE Await(c, t, NextOp(t), unavailable)
  BY <1>3 DEF Proceed, Gone
<1>7. /\ t.at \in Lifecycle \ {"cleanup"} /\ t.error = "none" /\ ~t.unwinding
      /\ t.started <=> HasState
      /\ HasState => uncertain
  BY <1>1, <1>5 DEF TaskOK, Lifecycle
(* The operation that comes next.                                          *)
<1>8. /\ NextOp(t) \in {"setup", "initial", "invoke", "flush", "snapshot", "cleanup", "conclude"}
      /\ NextOp(t) \in {"setup", "initial", "snapshot", "cleanup"} => HasState
      /\ NextOp(t) = "conclude" => ~HasState
      /\ NextOp(t) \in {"invoke", "flush"} => t.answered < made.turns
      /\ NextOp(t) \in {"setup", "initial"} => t.answered = 0
  BY <1>1, <1>4, <1>5, <1>7 DEF NextOp, AfterTurn, TaskOK, Lifecycle, HasState
<1>9. HasState => dirt \subseteq {c} /\ Changing = {}
  <2> SUFFICES ASSUME HasState PROVE dirt \subseteq {c} /\ Changing = {}
    OBVIOUS
  <2>1. Trusted(old)
    BY <1>1, <1>5, <1>7 DEF Trusted
  <2>2. Changing = {}
    BY <1>1, <2>1 DEF FixtureOK, Changing
  <2>3. dirt \subseteq {c}
    BY <1>1, <1>5, <1>7, <2>1 DEF FixtureOK
  <2> QED
    BY <2>2, <2>3
<1> HIDE DEF old
<1>10. CASE NextOp(t) = "conclude"
  BY <1>1, <1>2, <1>5, <1>6, <1>7, <1>8, <1>10, ConcludeKeeps
<1>11. CASE NextOp(t) # "conclude"
  <2>1. PICK op : op = NextOp(t)
    OBVIOUS
  <2>2. Await(c, t, op, unavailable)
    BY <1>6, <1>11, <2>1
  <2>3. /\ op \in {"setup", "initial", "invoke", "flush", "snapshot", "cleanup"}
        /\ op \in {"setup", "initial", "snapshot", "cleanup"} => HasState
        /\ op \in {"invoke", "flush"} => t.answered < made.turns
        /\ op \in {"setup", "initial"} => t.answered = 0
    BY <1>8, <1>11, <2>1
  <2>4. op \in Op
    BY <2>3 DEF Op, Lifecycle
  <2>5. /\ task'[c].at = op /\ task'[c].started = t.started /\ task'[c].error = "none"
        /\ ~task'[c].unwinding /\ task'[c].answered = t.answered
        /\ task'[c].answer \in {"none", "refused"}
        /\ task'[c].answer = "refused" => working' = working
        /\ \A w \in working' : w \in working \/ w = [case |-> c, op |-> op]
    BY <1>1, <1>5, <1>7, <2>2, <2>4, AwaitGives
  <2>6. TaskOK(c)'
    BY <1>1, <1>7, <2>3, <2>5 DEF TaskOK, Lifecycle, HasState
  <2>7. FixtureOK(c)'
    <3>1. HasState' = HasState /\ dirt' = dirt
      BY <1>1 DEF HasState
    <3>2. HasState => \A w \in Changing' : w = [case |-> c, op |-> op] /\ task'[c].answer = "none"
      BY <1>9, <2>5 DEF Changing
    <3> QED
      BY <1>9, <2>3, <2>5, <3>1, <3>2 DEF FixtureOK
  <2>8. ReusableIsClean'
    BY <1>1, <1>7, <2>5 DEF ReusableIsClean, HasState
  <2> QED
    BY <1>1, <1>2, <1>5, <2>2, <2>4, <2>6, <2>7, <2>8, AwaitKeeps
<1> QED
  BY <1>10, <1>11

LEMMA FailKeeps ==
    ASSUME IInv, NEW c \in Cases, Fail(c)
    PROVE  IInv'
<1> DEFINE old == task[c]
<1>1. /\ TypeOK /\ OneThreadPerRunner /\ old \in Task /\ old.at \in Op
      /\ old.at \in Lifecycle \ {"flush", "cleanup"}
      /\ old.answer \in {"known", "doubt", "undelivered", "refused"}
      /\ unavailable \in SUBSET Runner /\ ReusableIsClean
      /\ cancels' \in 0 .. CancelLimit
      /\ TaskOK(c) /\ FixtureOK(c)
      /\ UNCHANGED <<made, dirt, cancels>>
  <2>1. old \in Task /\ old.at \in Lifecycle \ {"flush", "cleanup"} /\ old.answer \notin {"none", "ok"}
    BY DEF IInv, TypeOK, Fail
  <2>2. old.answer \in {"known", "doubt", "undelivered", "refused"}
    BY <2>1 DEF Task
  <2> QED
    BY <2>1, <2>2 DEF IInv, TypeOK, Fail, Runner, Op
<1>2. \A d \in Cases : d # c => task[d].at \notin Op
  BY <1>1, Alone
<1>3. PICK t : t = [old EXCEPT !.error = IF old.answer = "refused" THEN "doubt" ELSE old.answer]
  OBVIOUS
<1>4. /\ t \in Task /\ t.at = old.at /\ t.answer = old.answer /\ t.unwinding = old.unwinding
      /\ t.started = old.started /\ t.answered = old.answered
      /\ t.error = IF old.answer = "refused" THEN "doubt" ELSE old.answer
  BY <1>1, <1>3 DEF Task
<1>5. IF t.started
      THEN Await(c, t, "cleanup", unavailable) /\ UNCHANGED uncertain
      ELSE /\ Conclude(c, t, unavailable, "failed")
           /\ uncertain' = (HasState /\ t.error # "undelivered")
  BY <1>3 DEF Fail
<1>6. ~old.unwinding /\ old.error = "none" /\ (HasState => uncertain)
  BY <1>1 DEF TaskOK, Lifecycle
<1>7. CASE t.started
  <2>1. HasState /\ "cleanup" \in Op /\ uncertain' = uncertain /\ Await(c, t, "cleanup", unavailable)
    BY <1>1, <1>4, <1>5, <1>7 DEF TaskOK, Op, Lifecycle
  <2> HIDE DEF old
  <2>2. /\ task'[c].at = "cleanup" /\ task'[c].started /\ task'[c].error = t.error
        /\ task'[c].answer \in {"none", "refused"}
        /\ task'[c].answer = "refused" => working' = working
        /\ \A w \in working' : w \in working \/ w = [case |-> c, op |-> "cleanup"]
    BY <1>1, <1>4, <1>7, <2>1, AwaitGives
  <2>3. TaskOK(c)'
    BY <1>1, <1>6, <2>1, <2>2 DEF TaskOK, Lifecycle, HasState
  <2>4. /\ \A w \in Changing : w.case = c
        /\ dirt \subseteq {c}
        /\ t.error # "doubt" => Changing = {}
    BY <1>1, <1>4, <1>6, <1>7, <2>1 DEF FixtureOK, Trusted, old
  <2>5. FixtureOK(c)'
    BY <1>1, <2>2, <2>4 DEF FixtureOK, Changing, Trusted
  <2>6. ReusableIsClean' /\ uncertain' \in BOOLEAN
    BY <1>1, <1>6, <2>1 DEF ReusableIsClean, HasState, TypeOK
  <2> QED
    BY <1>1, <1>2, <1>4, <2>1, <2>3, <2>5, <2>6, AwaitKeeps
<1>8. CASE ~t.started
  <2>1. /\ Conclude(c, t, unavailable, "failed")
        /\ uncertain' = (HasState /\ t.error # "undelivered")
    BY <1>5, <1>8
  <2>2. uncertain' \in BOOLEAN
    BY <2>1
  <2>3. HasState /\ ~uncertain' => dirt \subseteq {Before} /\ Changing = {}
    <3> SUFFICES ASSUME HasState, ~uncertain' PROVE dirt \subseteq {Before} /\ Changing = {}
      OBVIOUS
    <3>1. old.answer = "undelivered"
      BY <1>4, <2>1
    <3>2. old.at = "reset"
      BY <1>1, <1>4, <1>8 DEF TaskOK, Lifecycle
    <3>3. Trusted(old)
      BY <1>6, <3>1 DEF Trusted
    <3> QED
      BY <1>1, <3>1, <3>2, <3>3 DEF FixtureOK
  <2> HIDE DEF old
  <2> QED
    BY <1>1, <1>2, <1>4, <1>8, <2>1, <2>2, <2>3, ConcludeKeeps
<1> QED
  BY <1>7, <1>8

(* What the outside world may do to the fixture is bounded by who holds    *)
(* the lock: only the holder's own operations are under way.               *)
LEMMA LandKeeps ==
    ASSUME IInv, NEW w \in working, NEW outcome \in {"ok", "known", "doubt", "undelivered"},
           Land(w, outcome)
    PROVE  IInv'
<1> DEFINE b == w.case
           t == task[b]
           answers == t.at = w.op /\ t.answer = "none"
<1>1. /\ TypeOK /\ OneThreadPerRunner /\ OneHolds /\ ReusableIsClean
      /\ w \in [case : Cases, op : Op] /\ b \in Cases /\ w.op \in Op /\ t \in Task
      /\ task \in [Cases -> Task]
      /\ working \subseteq [case : Cases, op : Op] /\ dirt \subseteq Cases \cup {Before}
  BY DEF IInv, TypeOK
<1>2. UNCHANGED <<made, uncertain, unavailable, cancels>>
  BY DEF Land
<1>3. /\ working' \subseteq working
      /\ outcome # "doubt" => w \notin working'
  BY DEF Land
<1>4. PICK s : s = [t EXCEPT !.answer = outcome]
  OBVIOUS
<1>5. /\ s \in Task /\ s.at = t.at /\ s.answer = outcome /\ s.answered = t.answered
      /\ s.started = t.started /\ s.error = t.error /\ s.unwinding = t.unwinding
  BY <1>1, <1>4 DEF Task
<1>6. IF answers THEN task' = [task EXCEPT ![b] = s] ELSE outcome = "ok" /\ task' = task
  BY <1>4 DEF Land
<1>7. /\ task' \in [Cases -> Task]
      /\ \A c \in Cases :
            /\ task'[c].at = task[c].at /\ task'[c].answered = task[c].answered
            /\ task'[c].started = task[c].started /\ task'[c].error = task[c].error
            /\ task'[c].unwinding = task[c].unwinding
            /\ c # b \/ ~answers => task'[c].answer = task[c].answer
      /\ answers => task'[b].answer = outcome
  BY <1>1, <1>5, <1>6
<1>8. dirt' \in Effects(w, outcome)
  BY DEF Land
<1>9. /\ w.op \notin {"reset", "cleanup", "setup", "invoke"} => dirt' = dirt
      /\ w.op \in {"reset", "cleanup"} => dirt' \subseteq dirt
      /\ w.op \in {"reset", "cleanup"} /\ outcome = "ok" => dirt' = {}
      /\ dirt' \subseteq dirt \cup {b}
  BY <1>8 DEF Effects
<1>10. HasState' = HasState /\ Changing' \subseteq Changing /\ (outcome # "doubt" => w \notin Changing')
  BY <1>2, <1>3 DEF HasState, Changing
<1>11. w.op \notin {"observe", "flush"} => w \in Changing
  BY DEF Changing
<1> HIDE DEF answers
<1>12. TypeOK' /\ OneHolds' /\ OneThreadPerRunner'
  <2>1. dirt' \subseteq Cases \cup {Before}
    BY <1>1, <1>9
  <2>2. TypeOK'
    BY <1>1, <1>2, <1>3, <1>7, <2>1 DEF TypeOK, Task
  <2>3. OneHolds'
    BY <1>1, <1>7 DEF OneHolds
  <2>4. OneThreadPerRunner'
    BY <1>1, <1>2, <1>3 DEF OneThreadPerRunner, RunnerOf
  <2> QED
    BY <2>2, <2>3, <2>4
<1>13. ASSUME NEW c \in Cases PROVE TaskOK(c)'
  <2>1. TaskOK(c)
    BY DEF IInv
  <2> QED
    BY <1>2, <1>7, <1>10, <2>1 DEF TaskOK
<1>14. ASSUME NEW c \in Cases PROVE FixtureOK(c)'
  <2> SUFFICES ASSUME HasState, task[c].at \in Lifecycle
               PROVE  FixtureOK(c)'
    BY <1>7, <1>10 DEF FixtureOK
  <2>1. FixtureOK(c) /\ TaskOK(c)
    BY DEF IInv
  <2>2. \A v \in Changing : v.case = c
    BY <2>1 DEF FixtureOK
  <2>3. w \in Changing => b = c
    BY <2>2
  <2>4. task[c].at = "reset" =>
            dirt' \subseteq {Before} /\ \A v \in Changing' : v.op = "reset"
    <3> SUFFICES ASSUME task[c].at = "reset"
                 PROVE  dirt' \subseteq {Before} /\ \A v \in Changing' : v.op = "reset"
      OBVIOUS
    <3>1. dirt \subseteq {Before} /\ \A v \in Changing : v.op = "reset"
      BY <2>1 DEF FixtureOK
    <3>2. dirt' \subseteq dirt
      BY <1>9, <1>11, <3>1
    <3> QED
      BY <1>10, <3>1, <3>2
  <2>5. task[c].started => dirt' \subseteq {c}
    <3>1. task[c].started => dirt \subseteq {c}
      BY <2>1 DEF FixtureOK
    <3> QED
      BY <1>9, <1>11, <2>3, <3>1
  <2>6. Trusted(task'[c]) => Trusted(task[c])
    <3>1. answers => t.answer = "none"
      BY DEF answers
    <3> QED
      BY <1>7, <3>1 DEF Trusted
  <2>7. Trusted(task[c]) => \A v \in Changing : v.op = task[c].at /\ task[c].answer = "none"
    BY <2>1 DEF FixtureOK
  <2>8. Trusted(task'[c]) => \A v \in Changing' : v.op = task[c].at /\ task'[c].answer = "none"
    <3> SUFFICES ASSUME Trusted(task'[c]), NEW v \in Changing'
                 PROVE  v.op = task[c].at /\ task'[c].answer = "none"
      OBVIOUS
    <3>1. v \in Changing /\ v.op = task[c].at /\ task[c].answer = "none" /\ v.case = c
      BY <1>10, <2>2, <2>6, <2>7
    <3>2. CASE c = b /\ answers
      <4>1. w.op = v.op /\ w.case = v.case
        BY <3>1, <3>2 DEF answers
      <4>2. v \in [case : Cases, op : Op]
        BY <1>1, <3>1 DEF Changing
      <4>3. w = v
        BY <1>1, <4>1, <4>2
      <4>4. outcome = "doubt"
        BY <1>10, <4>3
      <4>5. task[c].at # "flush"
        BY <3>1 DEF Changing
      <4> QED
        BY <1>7, <3>2, <4>4, <4>5 DEF Trusted
    <3>3. CASE ~(c = b /\ answers)
      BY <1>7, <3>1, <3>3
    <3> QED
      BY <3>2, <3>3
  <2>9. Trusted(task'[c]) /\ task[c].at \in {"reset", "cleanup"} /\ task'[c].answer = "ok"
            => dirt' = {}
    <3> SUFFICES ASSUME Trusted(task'[c]), task[c].at \in {"reset", "cleanup"},
                        task'[c].answer = "ok"
                 PROVE  dirt' = {}
      OBVIOUS
    <3>1. CASE c = b /\ answers
      BY <1>7, <1>9, <3>1 DEF answers
    <3>2. CASE ~(c = b /\ answers)
      <4>1. task[c].answer = "ok" /\ Trusted(task[c])
        BY <1>7, <2>6, <3>2
      <4>2. dirt = {} /\ Changing = {}
        BY <2>1, <2>7, <4>1 DEF FixtureOK
      <4> QED
        BY <1>9, <1>11, <4>2
    <3> QED
      BY <3>1, <3>2
  <2> QED
    BY <1>7, <1>10, <2>2, <2>4, <2>5, <2>8, <2>9 DEF FixtureOK
<1>15. ReusableIsClean'
  <2> SUFFICES ASSUME HasState, ~uncertain
               PROVE  dirt' \subseteq {Before} /\ Changing' = {}
    BY <1>2, <1>10 DEF ReusableIsClean, Changing
  <2>1. dirt \subseteq {Before} /\ Changing = {}
    BY <1>1 DEF ReusableIsClean, Changing
  <2> QED
    BY <1>9, <1>10, <1>11, <2>1
<1> QED
  BY <1>12, <1>13, <1>14, <1>15 DEF IInv
-----------------------------------------------------------------------------
LEMMA InitHolds ==
    ASSUME Init PROVE IInv
<1>1. \A c \in Cases : task[c] = NewTask
  BY DEF Init
<1>2. made \in Composition /\ made.turns \in Nat \ {0}
  BY TheseAreCompositions DEF Init, Composition
<1>3. NewTask \in Task
  BY <1>2 DEF NewTask, Task
<1>4. TypeOK
  <2>1. cancels \in 0 .. CancelLimit
    BY CancellationsAreBounded DEF Init
  <2>2. task \in [Cases -> Task]
    BY <1>3 DEF Init
  <2> QED
    BY <2>1, <2>2 DEF Init, TypeOK
<1>5. \A c \in Cases : /\ task[c].at = "idle" /\ ~task[c].started /\ task[c].answered = 0
                       /\ task[c].error = "none" /\ ~task[c].unwinding
  BY <1>1 DEF NewTask
<1>6. OneHolds /\ \A c \in Cases : TaskOK(c) /\ FixtureOK(c)
  BY <1>5 DEF OneHolds, TaskOK, FixtureOK, Op, Lifecycle
<1>7. ReusableIsClean /\ OneThreadPerRunner
  BY DEF Init, ReusableIsClean, OneThreadPerRunner
<1> QED
  BY <1>4, <1>6, <1>7 DEF IInv

(* One step per action.                                                    *)
LEMMA NextKeeps ==
    ASSUME IInv, [Next]_vars PROVE IInv'
<1>1. ASSUME NEW c \in Cases, Cleaned(c) PROVE IInv'
  <2>1. /\ task[c].at = "cleanup" /\ unavailable \in SUBSET Runner
        /\ Settle(c, task[c], unavailable, task[c].answer = "ok")
        /\ UNCHANGED <<made, dirt, cancels>>
    BY <1>1 DEF Cleaned, IInv, TypeOK, Runner
  <2>2. PICK cleaned \in BOOLEAN : cleaned = (task[c].answer = "ok")
    OBVIOUS
  <2>3. Settle(c, task[c], unavailable, cleaned)
    BY <2>1, <2>2
  <2> QED
    BY <2>1, <2>2, <2>3, SettleKeeps
<1>2. ASSUME NEW c \in Cases, GraceExpires(c) PROVE IInv'
  <2>1. task[c].at = "cleanup" /\ task[c].at \in Op
    BY <1>2 DEF GraceExpires, Op, Lifecycle
  <2>2. GivenUp(c) \in SUBSET Runner
    BY <2>1, GivenUpRunners
  <2> QED
    BY <1>2, <2>1, <2>2, SettleKeeps DEF GraceExpires
<1>3. ASSUME NEW c \in Cases, Observed(c) PROVE IInv'
  <2>1. unavailable \in SUBSET Runner
    BY DEF IInv, TypeOK, Runner
  <2> QED
    BY <1>3, <2>1, ObserveNextKeeps DEF Observed
<1>4. ASSUME NEW c \in Cases, ObservationExpires(c) PROVE IInv'
  <2>1. GivenUp(c) \in SUBSET Runner
    BY <1>4, GivenUpRunners DEF ObservationExpires, Op
  <2> QED
    BY <1>4, <2>1, ObserveNextKeeps DEF ObservationExpires
<1>5. ASSUME NEW c \in Cases, CaseExpires(c) PROVE IInv'
  <2>1. PICK t : t = [task[c] EXCEPT !.timed = TRUE]
    OBVIOUS
  <2>2. task[c] \in Task /\ cancels \in 0 .. CancelLimit
    BY DEF IInv, TypeOK
  <2>3. t \in Task /\ t.at = task[c].at /\ t.started = task[c].started
    BY <2>1, <2>2 DEF Task
  <2>4. Interrupt(c, t) /\ task[c].at \in Op /\ UNCHANGED <<made, uncertain, dirt, cancels>>
    BY <1>5, <2>1 DEF CaseExpires, Awaiting
  <2> QED
    BY <2>2, <2>3, <2>4, InterruptKeeps
<1>6. ASSUME NEW c \in Cases, CallerCancels(c) PROVE IInv'
  <2>1. /\ task[c] \in Task /\ cancels' \in 0 .. CancelLimit
        /\ UNCHANGED <<made, uncertain, dirt>> /\ unavailable \in SUBSET Runner
        /\ TaskOK(c)
    BY <1>6, CancellationsAreBounded DEF CallerCancels, IInv, TypeOK, Runner
  <2>2. CASE task[c].at = "queued" /\ End(c, task[c], unavailable, "raised")
    BY <2>1, <2>2, EndKeeps DEF TaskOK
  <2>3. CASE Awaiting(c) /\ Interrupt(c, task[c])
    BY <2>1, <2>3, InterruptKeeps DEF Awaiting
  <2> QED
    BY <1>6, <2>2, <2>3 DEF CallerCancels
<1>7. CASE UNCHANGED vars
  <2>1. UNCHANGED <<made, task, uncertain, unavailable, working, dirt, cancels>>
    BY <1>7 DEF vars
  <2>2. TypeOK' /\ OneHolds' /\ ReusableIsClean' /\ OneThreadPerRunner'
    BY <2>1 DEF IInv, TypeOK, Task, OneHolds, ReusableIsClean, OneThreadPerRunner, HasState, RunnerOf
  <2>3. \A c \in Cases : TaskOK(c)' /\ FixtureOK(c)'
    BY <2>1 DEF IInv, TaskOK, FixtureOK, HasState, Changing
  <2> QED
    BY <2>2, <2>3 DEF IInv
<1> QED
  BY <1>1, <1>2, <1>3, <1>4, <1>5, <1>6, <1>7,
     SubmitKeeps, EnterKeeps, ProceedKeeps, FailKeeps, LandKeeps
     DEF Next, Resume, World, Rest

(* Every state of every executor satisfies the inductive invariant.        *)
THEOREM Invariance == Spec => []IInv
<1> QED
  BY InitHolds, NextKeeps, PTL DEF Spec

(* The property the runs check: what a case meets is its own, in the       *)
(* fixture, in the threads that serve it, and in the environment it leaves *)
(* behind (probe_execution.py's lock, quarantine and cleanup).             *)
THEOREM IsolationOfCases == Spec => []CasesAreIsolated
<1>1. IInv => CasesAreIsolated
  <2> SUFFICES ASSUME IInv PROVE Isolation
    BY DEF IInv, CasesAreIsolated
  <2> SUFFICES ASSUME NEW c \in Cases, task[c].started, task[c].at \in Lifecycle \ {"cleanup"}
               PROVE  /\ dirt \subseteq {c}
                      /\ \A w \in working : w.case = c \/ w.op \in {"observe", "flush"}
    BY DEF Isolation
  <2>1. TaskOK(c) /\ FixtureOK(c)
    BY DEF IInv
  <2>2. HasState
    BY <2>1 DEF TaskOK
  <2> QED
    BY <2>1, <2>2 DEF FixtureOK, Changing
<1> QED
  BY <1>1, Invariance, PTL

(* No step from a free environment whose state is uncertain touches it.    *)
LEMMA QuarantineStep ==
    ASSUME HasState, LockFree, uncertain, [Next]_vars
    PROVE  uncertain' /\ working' \subseteq working
<1>1. \A c \in Cases : task[c].at \notin Op
  BY DEF LockFree
<1>2. ASSUME NEW c \in Cases, Enter(c) PROVE uncertain' /\ working' \subseteq working
  BY <1>2 DEF Enter, End
<1>3. ASSUME NEW c \in Cases, CallerCancels(c) PROVE uncertain' /\ working' \subseteq working
  BY <1>1, <1>3 DEF CallerCancels, Awaiting, End
<1>4. ASSUME NEW c \in Cases, Submit(c) PROVE uncertain' /\ working' \subseteq working
  BY <1>4 DEF Submit
<1>5. CASE World
  BY <1>5 DEF World, Land
<1>6. CASE UNCHANGED vars
  BY <1>6 DEF vars
<1>7. ASSUME NEW c \in Cases
      PROVE  ~(\/ Proceed(c) \/ Fail(c) \/ Cleaned(c) \/ Observed(c)
               \/ CaseExpires(c) \/ GraceExpires(c) \/ ObservationExpires(c))
  BY <1>1 DEF Proceed, Fail, Cleaned, Observed, CaseExpires, GraceExpires,
              ObservationExpires, Awaiting, Op, Lifecycle
<1> QED
  BY <1>2, <1>3, <1>4, <1>5, <1>6, <1>7 DEF Next, Resume, Rest

(* What a case that is not done may do next keeps it in its lifecycle.     *)
LEMMA CleanupStep ==
    ASSUME IInv, [Next]_vars, NEW c \in Cases, task[c].started,
           task[c].at \in Lifecycle \ {"cleanup"}
    PROVE  task'[c].at \in Lifecycle
<1>1. /\ TypeOK /\ OneThreadPerRunner /\ task \in [Cases -> Task] /\ task[c] \in Task
      /\ task[c].at \in Op /\ TaskOK(c) /\ HasState
  BY DEF IInv, TypeOK, Op, TaskOK
<1>2. \A d \in Cases : d # c => task[d].at \notin Op
  BY <1>1, Alone
<1>3. \A gone \in SUBSET Runner, t \in Task, op \in Lifecycle :
          Await(c, t, op, gone) /\ made' = made => task'[c].at \in Lifecycle
  BY <1>1, AwaitGives DEF Op
<1>4. unavailable \in SUBSET Runner /\ GivenUp(c) \in SUBSET Runner
  BY <1>1, GivenUpRunners
<1>5. ASSUME NEW d \in Cases, Submit(d) \/ Enter(d) PROVE task'[c].at \in Lifecycle
  BY <1>1, <1>5 DEF Submit, Enter, LockFree, Op, Lifecycle
<1>6. CASE Proceed(c)
  <2>1. PICK t : t = Gone(task[c])
    OBVIOUS
  <2>2. t \in Task /\ t.at = task[c].at
    BY <1>1, <2>1, Counting
  <2>3. NextOp(t) \in Lifecycle /\ NextOp(t) # "conclude"
    BY <1>1, <2>2 DEF NextOp, AfterTurn, Lifecycle
  <2>4. Await(c, t, NextOp(t), unavailable) /\ made' = made
    BY <1>6, <2>1, <2>3 DEF Proceed, Gone
  <2>5. PICK op \in Lifecycle : op = NextOp(t)
    BY <2>3
  <2>6. Await(c, t, op, unavailable)
    BY <2>4, <2>5
  <2> QED
    BY <1>3, <1>4, <2>2, <2>4, <2>6
<1>7. CASE Fail(c)
  <2>1. PICK t : t = [task[c] EXCEPT !.error = IF task[c].answer = "refused" THEN "doubt"
                                              ELSE task[c].answer]
    OBVIOUS
  <2>2. task[c].answer \in {"known", "doubt", "undelivered", "refused"}
    BY <1>1, <1>7 DEF Fail, Task
  <2>3. t \in Task /\ t.started
    BY <1>1, <2>1, <2>2 DEF Task
  <2>4. Await(c, t, "cleanup", unavailable) /\ made' = made
    BY <1>7, <2>1, <2>3 DEF Fail
  <2> QED
    BY <1>3, <1>4, <2>3, <2>4 DEF Lifecycle
<1>8. ASSUME NEW t \in Task, t.started, t.at = task[c].at, Interrupt(c, t), made' = made
      PROVE  task'[c].at \in Lifecycle
  <2>1. PICK s : s = [t EXCEPT !.unwinding = TRUE]
    OBVIOUS
  <2>2. s \in Task
    BY <2>1 DEF Task
  <2>3. Await(c, s, "cleanup", GivenUp(c))
    BY <1>8, <2>1 DEF Interrupt, Lifecycle
  <2> QED
    BY <1>3, <1>4, <1>8, <2>2, <2>3 DEF Lifecycle
<1>9. CASE CaseExpires(c)
  <2>1. PICK t : t = [task[c] EXCEPT !.timed = TRUE]
    OBVIOUS
  <2>2. t \in Task /\ t.at = task[c].at /\ t.started
    BY <1>1, <2>1 DEF Task
  <2> QED
    BY <1>8, <1>9, <2>1, <2>2 DEF CaseExpires
<1>10. CASE CallerCancels(c)
  BY <1>1, <1>8, <1>10 DEF CallerCancels, Op, Lifecycle
<1>11. CASE Cleaned(c) \/ Observed(c) \/ GraceExpires(c) \/ ObservationExpires(c)
  BY <1>11 DEF Cleaned, Observed, GraceExpires, ObservationExpires, Lifecycle
<1>12. ASSUME NEW d \in Cases, d # c,
              \/ Proceed(d) \/ Fail(d) \/ Cleaned(d) \/ Observed(d) \/ CallerCancels(d)
              \/ CaseExpires(d) \/ GraceExpires(d) \/ ObservationExpires(d)
       PROVE  task'[c].at \in Lifecycle
  <2>1. CallerCancels(d) /\ End(d, task[d], unavailable, "raised")
    BY <1>2, <1>12 DEF Proceed, Fail, Cleaned, Observed, CallerCancels, CaseExpires,
                       GraceExpires, ObservationExpires, Awaiting, Op, Lifecycle
  <2> QED
    BY <1>1, <1>12, <2>1 DEF End
<1>13. ASSUME NEW w \in working, NEW outcome \in {"ok", "known", "doubt", "undelivered"},
              Land(w, outcome)
       PROVE  task'[c].at \in Lifecycle
  <2>1. task' = task \/ task' = [task EXCEPT ![w.case].answer = outcome]
    BY <1>13 DEF Land
  <2>2. PICK s : s = [task[c] EXCEPT !.answer = outcome]
    OBVIOUS
  <2>3. s.at = task[c].at
    BY <1>1, <2>2 DEF Task
  <2>4. task'[c] = task[c] \/ task'[c] = s
    BY <1>1, <2>1, <2>2
  <2> QED
    BY <2>3, <2>4
<1>14. CASE UNCHANGED vars
  BY <1>14 DEF vars
<1> QED
  BY <1>5, <1>6, <1>7, <1>9, <1>10, <1>11, <1>12, <1>13, <1>14 DEF Next, Resume, World, Rest

(* The promises of docs/state-hooks.md, step by step: a quarantined        *)
(* environment is never called again, and a fixture that was reset is      *)
(* never left before its cleanup was asked for.                            *)
THEOREM HooksHonoured == Spec => HooksAreHonoured
<1>1. [Next]_vars => [HasState /\ LockFree /\ uncertain =>
                         uncertain' /\ working' \subseteq working]_vars
  BY QuarantineStep
<1>2. IInv /\ [Next]_vars =>
          [\A c \in Cases : task[c].started /\ task[c].at \in Lifecycle \ {"cleanup"} =>
               task'[c].at \in Lifecycle]_vars
  BY CleanupStep
<1>3. Spec => QuarantineIsPermanent
  BY <1>1, PTL DEF Spec, QuarantineIsPermanent
<1>4. Spec => CleanupIsAskedFor
  BY <1>2, Invariance, PTL DEF Spec, CleanupIsAskedFor
<1> QED
  BY <1>3, <1>4 DEF HooksAreHonoured
=============================================================================
