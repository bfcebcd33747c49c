----------------------- MODULE ConcurrentTrialsProofs -----------------------
(***************************************************************************)
(* Theorems about the trials of one case that overlap, for any number of   *)
(* repetitions, variations, request slots and interrupts.                  *)
(*                                                                         *)
(* The argument: a repetition belongs to one worker; the task of a         *)
(* variation is alive only while the worker of its repetition awaits the   *)
(* group of it; and a trial that was started either belongs to a task that *)
(* is at it or has left an error behind, in its group or among those of    *)
(* the workers.  Cancellations do not occur in the invariant: whichever    *)
(* tasks they reach, and in whichever order, it is kept.                   *)
(***************************************************************************)
EXTENDS ConcurrentTrials, FiniteSetTheorems, TLAPS

Busy == {"queued", "calling", "judging"}
Calling == {t \in Task : at[t] = "calling"}

SlotsOK == slots + Cardinality(Calling) = MaxRequests

(* Each repetition is taken by one worker.                                 *)
RepetitionsOK ==
    /\ \A w \in Worker : /\ repetition[w] < next
                         /\ at[w] \in Busy \cup {"group"} => repetition[w] # 0
    /\ \A v, w \in Worker : repetition[v] = repetition[w] /\ repetition[v] # 0 => v = w

(* The variations begin after their original and end before their group.   *)
ChildrenOK ==
    /\ \A c \in Child : Alive(c) => \E w \in Worker : at[w] = "group" /\ c \in ChildrenOf(w)
    /\ \A c \in Child : c[1] >= next => at[c] = "absent"
    /\ \A w \in Worker : \A c \in ChildrenOf(w) : at[w] \in Busy => at[c] = "absent"

(* A started trial is being run, or what happened to it was raised.        *)
Raised == failures # {} \/ \E w \in Worker : at[w] = "group" /\ errors[w] # {}
StartedOK ==
    ending = "none" =>
        \A u \in Active : Raised \/ \E t \in Task : at[t] \in {"calling", "judging"} /\ UnitOf(t) = u

EndingOK ==
    /\ ending # "none" => \A w \in Worker : at[w] = "ended"
    /\ StartedTrialsAreNeverDropped

IInv == TypeOK /\ SlotsOK /\ RepetitionsOK /\ ChildrenOK /\ StartedOK /\ EndingOK
-----------------------------------------------------------------------------
(* Tasks and units.                                                        *)
LEMMA Shapes ==
    /\ Worker \cap Child = {} /\ Child \subseteq Unit
    /\ \A r \in 1 .. Repetitions : <<r, 0>> \in Unit
    /\ \A c \in Child : c[1] \in 1 .. Repetitions /\ \A r : c # <<r, 0>>
    /\ IsFiniteSet(Task)
  <1>1. Repetitions \in Nat \ {0} /\ Operators \in Nat \ {0} /\ WorkerCount \in Nat
    BY PlanIsNotEmpty, RequestsMayOverlap DEF WorkerCount
  <1>2. \A c \in Child : c[1] \in 1 .. Repetitions /\ c[2] \in 1 .. Operators
    BY DEF Child
  <1>3. \A w \in Worker : w[1] = 0
    BY DEF Worker
  <1>4. Child \subseteq Unit /\ \A r \in 1 .. Repetitions : <<r, 0>> \in Unit
    BY <1>1 DEF Child, Unit
  <1>5. \A c \in Child : \A r : c # <<r, 0>>
    BY <1>1, <1>2
  <1>6. Worker \cap Child = {}
    BY <1>1, <1>2, <1>3
  <1>7. IsFiniteSet(Task)
    <2>1. IsFiniteSet(1 .. WorkerCount) /\ IsFiniteSet(1 .. Repetitions) /\ IsFiniteSet(1 .. Operators)
      BY <1>1, FS_Interval
    <2>2. IsFiniteSet({0})
      BY FS_Singleton
    <2>3. IsFiniteSet(Worker) /\ IsFiniteSet(Child)
      BY <2>1, <2>2, FS_Product DEF Worker, Child
    <2> QED BY <2>3, FS_Union DEF Task
  <1> QED BY <1>2, <1>4, <1>5, <1>6, <1>7

(* What a busy task is at is a trial of the case.                          *)
LEMMA UnitsAreTrials ==
    ASSUME TypeOK, RepetitionsOK, NEW t \in Task, at[t] \in Busy
    PROVE  UnitOf(t) \in Unit
  <1>1. CASE t \in Worker
    <2>1. repetition[t] \in 1 .. Repetitions
      BY <1>1, PlanIsNotEmpty DEF TypeOK, RepetitionsOK
    <2> QED BY <1>1, <2>1, Shapes DEF UnitOf
  <1>2. CASE t \notin Worker
    BY <1>2, Shapes DEF UnitOf, Task
  <1> QED BY <1>1, <1>2

(* No trial has two tasks.                                                 *)
LEMMA TrialsAreNotShared ==
    ASSUME TypeOK, RepetitionsOK, NEW s \in Task, NEW t \in Task, at[s] \in Busy, at[t] \in Busy,
           UnitOf(s) = UnitOf(t)
    PROVE  s = t
  <1>1. CASE s \in Worker /\ t \in Worker
    <2>1. repetition[s] = repetition[t]
      BY <1>1 DEF UnitOf
    <2> QED BY <1>1, <2>1 DEF RepetitionsOK
  <1>2. CASE s \notin Worker /\ t \notin Worker
    BY <1>2 DEF UnitOf
  <1>3. CASE s \in Worker /\ t \notin Worker
    BY <1>3, Shapes DEF UnitOf, Task
  <1>4. CASE s \notin Worker /\ t \in Worker
    BY <1>4, Shapes DEF UnitOf, Task
  <1> QED BY <1>1, <1>2, <1>3, <1>4

(* The worker of an alive variation is the one that awaits its group.      *)
LEMMA ParentAwaits ==
    ASSUME ChildrenOK, NEW c \in Child, Alive(c)
    PROVE  ParentOf(c) \in Worker /\ c \in ChildrenOf(ParentOf(c))
  BY DEF ChildrenOK, ParentOf

LEMMA ParentIsTheOne ==
    ASSUME TypeOK, RepetitionsOK, ChildrenOK, NEW c \in Child, Alive(c)
    PROVE  ParentOf(c) \in Worker /\ at[ParentOf(c)] = "group" /\ c \in ChildrenOf(ParentOf(c))
  <1>1. PICK w \in Worker : at[w] = "group" /\ c \in ChildrenOf(w)
    BY DEF ChildrenOK
  <1>2. ParentOf(c) \in Worker /\ c \in ChildrenOf(ParentOf(c))
    BY ParentAwaits
  <1>3. repetition[ParentOf(c)] = repetition[w] /\ repetition[w] # 0
    BY <1>1, <1>2 DEF ChildrenOf, RepetitionsOK
  <1>4. ParentOf(c) = w
    BY <1>1, <1>2, <1>3 DEF RepetitionsOK
  <1> QED BY <1>1, <1>2, <1>4

-----------------------------------------------------------------------------
(* The three ways in which tasks move.  A task goes on, or ends.           *)
LEMMA TaskMoves ==
    ASSUME TypeOK, RepetitionsOK, ChildrenOK, NEW t \in Task, NEW l \in Busy \cup {"ended"},
           at' = [at EXCEPT ![t] = l], UNCHANGED <<repetition, next>>,
           t \in Child => Alive(t),
           t \in Worker => \/ at[t] \in Busy
                           \/ l = "ended" /\ \A c \in ChildrenOf(t) : ~Alive(c)
    PROVE  RepetitionsOK' /\ ChildrenOK' /\ at' \in [Task -> {"absent", "created", "queued", "calling", "judging", "group", "ended"}]
  <1>1. /\ \A s \in Task : at'[s] = IF s = t THEN l ELSE at[s]
        /\ at' \in [Task -> {"absent", "created", "queued", "calling", "judging", "group", "ended"}]
        /\ Worker \subseteq Task /\ Child \subseteq Task /\ (t \in Child => t \notin Worker)
    BY Shapes DEF TypeOK, Task, Busy
  <1>2. RepetitionsOK'
    BY <1>1 DEF RepetitionsOK, Busy
  <1>3. \A c \in Child : Alive(c)' => Alive(c)
    BY <1>1, Shapes DEF Alive, Busy, Task
  <1>4. ASSUME NEW c \in Child, Alive(c)' PROVE \E w \in Worker : at'[w] = "group" /\ c \in ChildrenOf(w)'
    <2>1. PICK w \in Worker : at[w] = "group" /\ c \in ChildrenOf(w)
      BY <1>3, <1>4 DEF ChildrenOK
    <2>2. w # t
      BY <1>3, <1>4, <2>1 DEF Busy
    <2> QED BY <1>1, <2>1, <2>2 DEF ChildrenOf
  <1>5. ASSUME NEW c \in Child, c[1] >= next PROVE at'[c] = "absent"
    <2>1. at[c] = "absent"
      BY <1>5 DEF ChildrenOK
    <2> QED BY <1>1, <2>1 DEF Alive
  <1>6. ASSUME NEW w \in Worker, NEW c \in ChildrenOf(w), at'[w] \in Busy PROVE at'[c] = "absent"
    <2>1. at[w] \in Busy /\ c \in Child
      BY <1>1, <1>6 DEF Busy, ChildrenOf
    <2>2. at[c] = "absent"
      BY <2>1 DEF ChildrenOK
    <2> QED BY <1>1, <2>1, <2>2 DEF Alive
  <1> QED BY <1>1, <1>2, <1>4, <1>5, <1>6 DEF ChildrenOK, ChildrenOf

(* A worker takes the next repetition, or there is none.                   *)
LEMMA WorkerGoesOn ==
    ASSUME TypeOK, RepetitionsOK, ChildrenOK, NEW w \in Worker, TakeRepetition(w),
           \A c \in ChildrenOf(w) : ~Alive(c)
    PROVE  /\ RepetitionsOK' /\ ChildrenOK'
           /\ at' \in [Task -> {"absent", "created", "queued", "calling", "judging", "group", "ended"}]
           /\ repetition' \in [Worker -> 0 .. Repetitions] /\ next' \in 1 .. Repetitions + 1
           /\ \E l \in {"queued", "ended"} : at' = [at EXCEPT ![w] = l]
           /\ \A v \in Worker : v # w => repetition'[v] = repetition[v]
  <1>0. w \in Task /\ w \notin Child /\ Repetitions \in Nat
    BY Shapes, PlanIsNotEmpty DEF Task
  <1>1. CASE next <= Repetitions
    <2>1. /\ repetition' = [repetition EXCEPT ![w] = next] /\ next' = next + 1
          /\ at' = [at EXCEPT ![w] = "queued"]
      BY <1>1 DEF TakeRepetition
    <2>2. next \in 1 .. Repetitions
      BY <1>1, PlanIsNotEmpty DEF TypeOK
    <2>3. /\ repetition' \in [Worker -> 0 .. Repetitions] /\ next' \in 1 .. Repetitions + 1
          /\ at' \in [Task -> {"absent", "created", "queued", "calling", "judging", "group", "ended"}]
          /\ \A v \in Worker : repetition'[v] = IF v = w THEN next ELSE repetition[v]
          /\ \A s \in Task : at'[s] = IF s = w THEN "queued" ELSE at[s]
      <3>1. next' \in 1 .. Repetitions + 1 /\ next \in 0 .. Repetitions
        BY <1>0, <2>1, <2>2
      <3>2. /\ repetition' \in [Worker -> 0 .. Repetitions]
            /\ \A v \in Worker : repetition'[v] = IF v = w THEN next ELSE repetition[v]
        BY <2>1, <3>1 DEF TypeOK
      <3>3. /\ at' \in [Task -> {"absent", "created", "queued", "calling", "judging", "group", "ended"}]
            /\ \A s \in Task : at'[s] = IF s = w THEN "queued" ELSE at[s]
        BY <2>1, <1>0 DEF TypeOK
      <3> QED BY <3>1, <3>2, <3>3
    <2>4. RepetitionsOK'
      <3>1. \A v \in Worker : repetition[v] < next /\ repetition[v] \in Nat
        BY DEF RepetitionsOK, TypeOK
      <3>2. \A v \in Worker : /\ repetition'[v] < next'
                              /\ at'[v] \in Busy \cup {"group"} => repetition'[v] # 0
        BY <2>1, <2>2, <2>3, <3>1 DEF RepetitionsOK, Task
      <3>3. \A u, v \in Worker : repetition'[u] = repetition'[v] /\ repetition'[u] # 0 => u = v
        BY <2>2, <2>3, <3>1 DEF RepetitionsOK
      <3> QED BY <3>2, <3>3 DEF RepetitionsOK
    <2>5. \A c \in Child : at'[c] = at[c] /\ c \in Task /\ c # w
      BY <1>0, <2>3 DEF Task
    <2>6. ASSUME NEW c \in Child, Alive(c)' PROVE \E v \in Worker : at'[v] = "group" /\ c \in ChildrenOf(v)'
      <3>1. PICK v \in Worker : at[v] = "group" /\ c \in ChildrenOf(v)
        BY <2>5, <2>6 DEF ChildrenOK, Alive
      <3>2. v # w
        BY <2>5, <2>6, <3>1 DEF Alive
      <3> QED BY <2>3, <3>1, <3>2 DEF ChildrenOf, Task
    <2>7. ASSUME NEW c \in Child, c[1] >= next' PROVE at'[c] = "absent"
      <3>1. c[1] >= next
        BY <2>1, <2>2, <2>7, Shapes
      <3> QED BY <2>5, <3>1 DEF ChildrenOK
    <2>8. ASSUME NEW v \in Worker, NEW c \in ChildrenOf(v)', at'[v] \in Busy PROVE at'[c] = "absent"
      <3>1. CASE v = w
        <4>1. c \in Child /\ c[1] = next
          BY <2>3, <3>1 DEF ChildrenOf
        <4>2. at[c] = "absent"
          BY <4>1, <2>2 DEF ChildrenOK
        <4> QED BY <2>5, <4>1, <4>2
      <3>2. CASE v # w
        <4>1. c \in ChildrenOf(v) /\ c \in Child /\ at[v] \in Busy
          BY <2>3, <2>8, <3>2 DEF ChildrenOf, Task
        <4>2. at[c] = "absent"
          BY <4>1 DEF ChildrenOK
        <4> QED BY <2>5, <4>1, <4>2
      <3> QED BY <3>1, <3>2
    <2>9. ChildrenOK'
      BY <2>6, <2>7, <2>8 DEF ChildrenOK
    <2> QED BY <2>1, <2>3, <2>4, <2>9
  <1>2. CASE ~(next <= Repetitions)
    <2>1. at' = [at EXCEPT ![w] = "ended"] /\ UNCHANGED <<repetition, next>>
      BY <1>2 DEF TakeRepetition
    <2>2. RepetitionsOK' /\ ChildrenOK' /\ at' \in [Task -> {"absent", "created", "queued", "calling", "judging", "group", "ended"}]
      BY <1>0, <2>1, TaskMoves
    <2> QED BY <2>1, <2>2 DEF TypeOK
  <1> QED BY <1>1, <1>2

(* After an original its variations are created; a variation is done.      *)
LEMMA TrialIsOver ==
    ASSUME TypeOK, RepetitionsOK, ChildrenOK, NEW t \in Task, AfterTrial(t), at[t] \in Busy,
           UNCHANGED <<repetition, next>>
    PROVE  /\ RepetitionsOK' /\ ChildrenOK'
           /\ at' \in [Task -> {"absent", "created", "queued", "calling", "judging", "group", "ended"}]
           /\ \A s \in Task : s # t /\ at[s] # "absent" => at'[s] = at[s]
           /\ at'[t] \notin Busy
           /\ \A s \in Task : at'[s] \in Busy \cup {"group"} => s = t \/ at'[s] = at[s]
  <1>1. CASE t \in Worker
    <2>0. t \in Task /\ t \notin Child /\ t \notin ChildrenOf(t)
      BY <1>1, Shapes DEF Task, ChildrenOf
    <2>1. at' = [x \in Task |-> IF x = t THEN "group"
                                ELSE IF x \in ChildrenOf(t) THEN "created" ELSE at[x]]
      BY <1>1 DEF AfterTrial
    <2>2. /\ at' \in [Task -> {"absent", "created", "queued", "calling", "judging", "group", "ended"}]
          /\ at'[t] = "group"
          /\ \A x \in Task : x # t /\ x \in ChildrenOf(t) => at'[x] = "created"
          /\ \A x \in Task : x # t /\ x \notin ChildrenOf(t) => at'[x] = at[x]
      BY <2>1 DEF TypeOK
    <2>3. \A c \in ChildrenOf(t) : at[c] = "absent" /\ c \in Child
      BY <1>1 DEF ChildrenOK, ChildrenOf
    <2>4. \A v \in Worker : v # t => at'[v] = at[v] /\ v \in Task
      BY <2>2, Shapes DEF Task, ChildrenOf
    <2>5. RepetitionsOK'
      BY <1>1, <2>2, <2>4 DEF RepetitionsOK
    <2>6. ASSUME NEW c \in Child, Alive(c)' PROVE \E v \in Worker : at'[v] = "group" /\ c \in ChildrenOf(v)'
      <3>1. CASE c \in ChildrenOf(t)
        BY <1>1, <2>2, <3>1 DEF ChildrenOf
      <3>2. CASE c \notin ChildrenOf(t)
        <4>1. Alive(c)
          BY <2>0, <2>2, <2>6, <3>2 DEF Alive, Task
        <4>2. PICK v \in Worker : at[v] = "group" /\ c \in ChildrenOf(v)
          BY <4>1 DEF ChildrenOK
        <4> QED BY <2>2, <2>4, <4>2 DEF ChildrenOf
      <3> QED BY <3>1, <3>2
    <2>7. ASSUME NEW c \in Child, c[1] >= next PROVE at'[c] = "absent"
      <3>1. repetition[t] < next /\ repetition[t] \in Nat /\ next \in Nat /\ c[1] \in Nat
        BY <1>1, Shapes DEF RepetitionsOK, TypeOK
      <3>2. c \notin ChildrenOf(t) /\ c # t /\ c \in Task
        BY <2>0, <2>7, <3>1 DEF ChildrenOf, Task
      <3> QED BY <2>2, <2>7, <3>2 DEF ChildrenOK
    <2>8. ASSUME NEW v \in Worker, NEW c \in ChildrenOf(v), at'[v] \in Busy PROVE at'[c] = "absent"
      <3>1. v # t /\ at[v] \in Busy
        BY <2>2, <2>4, <2>8 DEF Busy
      <3>2. at[c] = "absent" /\ c \in Child
        BY <3>1 DEF ChildrenOK, ChildrenOf
      <3>3. c \notin ChildrenOf(t)
        <4>1. repetition[v] # 0
          BY <3>1 DEF RepetitionsOK
        <4> QED BY <1>1, <3>1, <4>1 DEF ChildrenOf, RepetitionsOK
      <3> QED BY <2>0, <2>2, <3>2, <3>3 DEF Task
    <2>9. ChildrenOK'
      BY <2>6, <2>7, <2>8 DEF ChildrenOK, ChildrenOf
    <2>10. /\ \A s \in Task : s # t /\ at[s] # "absent" => at'[s] = at[s]
           /\ at'[t] \notin Busy
           /\ \A s \in Task : at'[s] \in Busy \cup {"group"} => s = t \/ at'[s] = at[s]
      BY <2>2, <2>3 DEF Busy
    <2> QED BY <2>2, <2>5, <2>9, <2>10
  <1>2. CASE t \notin Worker
    <2>1. at' = [at EXCEPT ![t] = "ended"] /\ t \in Child /\ Alive(t)
      BY <1>2 DEF AfterTrial, Task, Busy, Alive
    <2>2. RepetitionsOK' /\ ChildrenOK' /\ at' \in [Task -> {"absent", "created", "queued", "calling", "judging", "group", "ended"}]
      BY <1>2, <2>1, TaskMoves
    <2>3. \A s \in Task : at'[s] = IF s = t THEN "ended" ELSE at[s]
      BY <2>1 DEF TypeOK
    <2> QED BY <2>2, <2>3 DEF Busy
  <1> QED BY <1>1, <1>2

-----------------------------------------------------------------------------
(* The slots.                                                              *)
LEMMA SlotTaken ==
    ASSUME TypeOK, SlotsOK, slots > 0, slots' = slots - 1, NEW t \in Task, t \notin Calling,
           Calling' = Calling \cup {t}
    PROVE  SlotsOK' /\ slots' \in 0 .. MaxRequests
  <1>1. IsFiniteSet(Calling)
    BY Shapes, FS_Subset DEF Calling
  <1>2. Cardinality(Calling') = Cardinality(Calling) + 1 /\ Cardinality(Calling) \in Nat
    BY <1>1, FS_AddElement, FS_CardinalityType
  <1> QED BY <1>2, RequestsMayOverlap DEF SlotsOK, TypeOK

LEMMA SlotReturned ==
    ASSUME TypeOK, SlotsOK, slots' = slots + 1, NEW t \in Calling, Calling' = Calling \ {t}
    PROVE  SlotsOK' /\ slots' \in 0 .. MaxRequests
  <1>1. IsFiniteSet(Calling)
    BY Shapes, FS_Subset DEF Calling
  <1>2. Cardinality(Calling') = Cardinality(Calling) - 1 /\ Cardinality(Calling') \in Nat
        /\ Cardinality(Calling) \in Nat
    <2>1. IsFiniteSet(Calling')
      BY <1>1, FS_Subset
    <2> QED BY <1>1, <2>1, FS_RemoveElement, FS_CardinalityType
  <1> QED BY <1>2, RequestsMayOverlap DEF SlotsOK, TypeOK

LEMMA SlotKept ==
    ASSUME TypeOK, SlotsOK, slots' = slots, Calling' = Calling
    PROVE  SlotsOK' /\ slots' \in 0 .. MaxRequests
  BY DEF SlotsOK, TypeOK
-----------------------------------------------------------------------------
(* The trials that were started.                                           *)
LEMMA NothingIsStarted ==
    ASSUME StartedOK, ending = "none", Raised => Raised',
           \A u \in Unit : outcome'[u] = "running" => outcome[u] = "running",
           \A s \in Task : at[s] \in {"calling", "judging"} =>
              \/ at'[s] \in {"calling", "judging"} /\ UnitOf(s)' = UnitOf(s)
              \/ UnitOf(s) \notin Active'
              \/ Raised'
    PROVE  StartedOK'
  <1>1. ASSUME NEW u \in Active'
        PROVE  Raised' \/ \E s \in Task : at'[s] \in {"calling", "judging"} /\ UnitOf(s)' = u
    <2>1. u \in Active
      BY DEF Active
    <2>2. CASE Raised
      BY <2>2
    <2>3. CASE ~Raised
      <3>1. PICK s \in Task : at[s] \in {"calling", "judging"} /\ UnitOf(s) = u
        BY <2>1, <2>3 DEF StartedOK
      <3> QED BY <3>1
    <2> QED BY <2>2, <2>3
  <1> QED BY <1>1 DEF StartedOK

(* What a task raises stays, in its group or among the failures.           *)
LEMMA Raising ==
    ASSUME TypeOK, RepetitionsOK, ChildrenOK, NEW t \in Task, NEW e \in {"uncertain", "error"},
           Raise(t, e), at' = [at EXCEPT ![t] = "ended"], t \in Child => Alive(t),
           UNCHANGED repetition
    PROVE  /\ Raised'
           /\ cancelled' \subseteq Task /\ failures' \subseteq {"uncertain", "error"}
           /\ errors' \in [Worker -> SUBSET {"uncertain", "error"}]
  <1>1. CASE t \in Worker
    BY <1>1 DEF Raise, Raised, TypeOK, Task
  <1>2. CASE t \notin Worker
    <2>0. t \in Child /\ Child \subseteq Task
      BY <1>2 DEF Task
    <2>1. PICK p : p = ParentOf(t)
      OBVIOUS
    <2>2. p \in Worker /\ p \in Task /\ at[p] = "group" /\ p # t
      BY <1>2, <2>0, <2>1, ParentIsTheOne DEF Task
    <2>3. /\ errors' = [errors EXCEPT ![p] = @ \cup {e}] /\ failures' = failures
          /\ cancelled' = (cancelled \cup {c \in ChildrenOf(p) : Alive(c)}) \ {t}
      BY <1>2, <2>1 DEF Raise
    <2>4. ChildrenOf(p) \subseteq Task
      BY <2>0 DEF ChildrenOf
    <2>5. /\ errors' \in [Worker -> SUBSET {"uncertain", "error"}] /\ errors'[p] # {}
      BY <2>2, <2>3 DEF TypeOK
    <2>6. at'[p] = "group"
      BY <2>2 DEF TypeOK
    <2> QED BY <2>2, <2>3, <2>4, <2>5, <2>6 DEF Raised, TypeOK
  <1> QED BY <1>1, <1>2

LEMMA StillRunning ==
    ASSUME ending = "none", UNCHANGED ending
    PROVE  EndingOK'
  BY DEF EndingOK, StartedTrialsAreNeverDropped

(* A task that ends with an error, without having been at the target or    *)
(* from there.                                                             *)
LEMMA FailingKeeps ==
    ASSUME IInv, ending = "none", NEW t \in Task, NEW e \in {"uncertain", "error"}, Raise(t, e),
           at' = [at EXCEPT ![t] = "ended"], at[t] \in Busy,
           UNCHANGED <<repetition, next, scheduled, leaving, paused, interrupts, ending>>,
           slots' = (IF at[t] = "calling" THEN slots + 1 ELSE slots),
           uncertain' \in BOOLEAN, outcome' \in [Unit -> {"planned", "running", "completed",
                                            "inconclusive", "quarantined", "skipped"}]
    PROVE  IInv'
  <1>0. TypeOK /\ RepetitionsOK /\ ChildrenOK /\ SlotsOK /\ (t \in Child => Alive(t))
    BY DEF IInv, Busy, Alive
  <1>1. /\ RepetitionsOK' /\ ChildrenOK'
        /\ at' \in [Task -> {"absent", "created", "queued", "calling", "judging", "group", "ended"}]
    BY <1>0, TaskMoves
  <1>2. /\ Raised' /\ cancelled' \subseteq Task /\ failures' \subseteq {"uncertain", "error"}
        /\ errors' \in [Worker -> SUBSET {"uncertain", "error"}]
    BY <1>0, Raising
  <1>3. Calling' = Calling \ {t}
    BY <1>0 DEF Calling, TypeOK
  <1>4. SlotsOK' /\ slots' \in 0 .. MaxRequests
    <2>1. CASE at[t] = "calling"
      BY <1>0, <1>3, <2>1, SlotReturned DEF Calling
    <2>2. CASE at[t] # "calling"
      BY <1>0, <1>3, <2>2, SlotKept DEF Calling
    <2> QED BY <2>1, <2>2
  <1>5. TypeOK'
    BY <1>0, <1>1, <1>2, <1>4 DEF TypeOK
  <1>6. StartedOK'
    BY <1>2 DEF StartedOK
  <1> QED BY <1>1, <1>4, <1>5, <1>6, StillRunning DEF IInv

(* Steps that leave the tasks alone.                                       *)
LEMMA CancellingKeeps ==
    ASSUME IInv, ending = "none", UNCHANGED <<tasks, errors, failures, uncertain, outcome, ending>>,
           cancelled' \subseteq Task, scheduled' \subseteq Task, leaving' \subseteq Worker,
           paused' \in BOOLEAN, interrupts' \in 0 .. MaxInterrupts
    PROVE  IInv'
  <1> USE DEF tasks
  <1>1. TypeOK'
    BY DEF IInv, TypeOK
  <1>2. SlotsOK'
    BY DEF IInv, SlotsOK, Calling
  <1>3. RepetitionsOK' /\ ChildrenOK'
    BY DEF IInv, RepetitionsOK, ChildrenOK, Alive, ChildrenOf
  <1>4. StartedOK'
    BY DEF IInv, StartedOK, Raised, Active, UnitOf
  <1> QED BY <1>1, <1>2, <1>3, <1>4, StillRunning DEF IInv

(* A worker that takes a repetition, or finds that there is none, whose    *)
(* group is empty and without errors.                                      *)
LEMMA GoingOnKeeps ==
    ASSUME IInv, ending = "none", NEW w \in Worker, TakeRepetition(w),
           at[w] = "created" \/ (at[w] = "group" /\ errors[w] = {}),
           \A c \in ChildrenOf(w) : ~Alive(c),
           UNCHANGED <<slots, doom, uncertain, outcome, paused, interrupts, ending>>
    PROVE  IInv'
  <1>0. TypeOK /\ RepetitionsOK /\ ChildrenOK /\ SlotsOK /\ StartedOK /\ w \in Task
    BY DEF IInv, Task
  <1>1. /\ RepetitionsOK' /\ ChildrenOK'
        /\ at' \in [Task -> {"absent", "created", "queued", "calling", "judging", "group", "ended"}]
        /\ repetition' \in [Worker -> 0 .. Repetitions] /\ next' \in 1 .. Repetitions + 1
    BY <1>0, WorkerGoesOn
  <1>2. PICK l \in {"queued", "ended"} : at' = [at EXCEPT ![w] = l]
    BY <1>0, WorkerGoesOn
  <1>3. \A s \in Task : s # w => at'[s] = at[s] /\ UnitOf(s)' = UnitOf(s)
    BY <1>0, <1>2, WorkerGoesOn DEF UnitOf, TypeOK
  <1>4. SlotsOK'
    <2>1. Calling' = Calling
      BY <1>0, <1>2 DEF Calling, TypeOK
    <2> QED BY <1>0, <2>1, SlotKept
  <1>5. StartedOK'
    <2>1. Raised => Raised'
      BY <1>3 DEF Raised, doom, Task
    <2> QED BY <1>0, <1>3, <2>1, NothingIsStarted
  <1>6. TypeOK'
    BY <1>0, <1>1 DEF TypeOK, doom
  <1> QED BY <1>1, <1>4, <1>5, <1>6, StillRunning DEF IInv
-----------------------------------------------------------------------------
(* The actions.                                                            *)
LEMMA StartWorkerKeeps ==
    ASSUME IInv, NEW w \in Worker, StartWorker(w)
    PROVE  IInv'
  <1>0. /\ TypeOK /\ SlotsOK /\ RepetitionsOK /\ ChildrenOK /\ StartedOK /\ ending = "none"
        /\ at[w] = "created" /\ TakeRepetition(w) /\ w \in Task
        /\ UNCHANGED <<slots, doom, uncertain, outcome, paused, interrupts, ending>>
    BY DEF IInv, StartWorker, Ready, Task
  <1>1. \A c \in ChildrenOf(w) : ~Alive(c)
    <2>1. ASSUME NEW c \in ChildrenOf(w), Alive(c) PROVE FALSE
      <3>1. PICK v \in Worker : at[v] = "group" /\ c \in ChildrenOf(v)
        BY <1>0, <2>1 DEF ChildrenOK, ChildrenOf
      <3>2. repetition[v] = repetition[w] /\ repetition[v] # 0
        BY <1>0, <2>1, <3>1 DEF ChildrenOf, RepetitionsOK
      <3>3. v = w
        BY <1>0, <3>2 DEF RepetitionsOK
      <3> QED BY <1>0, <3>1, <3>3
    <2> QED BY <2>1
  <1> QED BY <1>0, <1>1, GoingOnKeeps

LEMMA StartChildKeeps ==
    ASSUME IInv, NEW c \in Child, StartChild(c)
    PROVE  IInv'
  <1>0. /\ TypeOK /\ SlotsOK /\ RepetitionsOK /\ ChildrenOK /\ StartedOK /\ ending = "none"
        /\ at[c] = "created" /\ c \in Task /\ Alive(c) /\ c \notin Worker
        /\ UNCHANGED <<repetition, next, slots, doom, uncertain, paused, interrupts, ending>>
    BY Shapes DEF IInv, StartChild, Ready, Task, Alive
  <1>1. PICK l \in {"queued", "ended"} : at' = [at EXCEPT ![c] = l]
    BY DEF StartChild
  <1>2. /\ RepetitionsOK' /\ ChildrenOK'
        /\ at' \in [Task -> {"absent", "created", "queued", "calling", "judging", "group", "ended"}]
    BY <1>0, <1>1, TaskMoves DEF Busy
  <1>3. /\ outcome' \in [Unit -> {"planned", "running", "completed", "inconclusive",
                                  "quarantined", "skipped"}]
        /\ \A u \in Unit : outcome'[u] = "running" => outcome[u] = "running"
    BY <1>0 DEF StartChild, TypeOK
  <1>4. \A s \in Task : at[s] \in {"calling", "judging"} =>
                           at'[s] = at[s] /\ UnitOf(s)' = UnitOf(s)
    BY <1>0, <1>1 DEF TypeOK, UnitOf
  <1>5. StartedOK'
    <2>1. Raised => Raised'
      BY <1>0, <1>1 DEF Raised, doom, TypeOK, Task
    <2> QED BY <1>0, <1>3, <1>4, <2>1, NothingIsStarted
  <1>6. SlotsOK'
    <2>1. Calling' = Calling
      BY <1>0, <1>1 DEF Calling, TypeOK
    <2> QED BY <1>0, <2>1, SlotKept
  <1>7. TypeOK'
    BY <1>0, <1>2, <1>3 DEF TypeOK, doom
  <1> QED BY <1>0, <1>2, <1>5, <1>6, <1>7, StillRunning DEF IInv

LEMMA SendKeeps ==
    ASSUME IInv, NEW t \in Task, Send(t)
    PROVE  IInv'
  <1>0. /\ TypeOK /\ SlotsOK /\ RepetitionsOK /\ ChildrenOK /\ StartedOK /\ ending = "none"
        /\ at[t] = "queued" /\ at[t] \in Busy /\ Alive(t) /\ slots > 0 /\ slots' = slots - 1
        /\ at' = [at EXCEPT ![t] = "calling"] /\ "calling" \in Busy
        /\ UNCHANGED <<repetition, next, doom, uncertain, paused, interrupts, ending>>
    BY DEF IInv, Send, Ready, Busy, Alive
  <1>1. PICK h \in Unit : h = UnitOf(t)
    BY <1>0, UnitsAreTrials
  <1>2. outcome' = [outcome EXCEPT ![h] = "running"]
    BY <1>1 DEF Send
  <1>3. /\ RepetitionsOK' /\ ChildrenOK'
        /\ at' \in [Task -> {"absent", "created", "queued", "calling", "judging", "group", "ended"}]
    BY <1>0, TaskMoves
  <1>4. SlotsOK' /\ slots' \in 0 .. MaxRequests
    <2>1. Calling' = Calling \cup {t} /\ t \notin Calling
      BY <1>0 DEF Calling, TypeOK
    <2> QED BY <1>0, <2>1, SlotTaken
  <1>5. TypeOK'
    <2>1. outcome' \in [Unit -> {"planned", "running", "completed", "inconclusive",
                                 "quarantined", "skipped"}]
      BY <1>0, <1>2 DEF TypeOK
    <2> QED BY <1>0, <1>3, <1>4, <2>1 DEF TypeOK, doom
  <1>6. StartedOK'
    <2>1. Raised => Raised'
      BY <1>0 DEF Raised, doom, TypeOK, Task
    <2>2. ASSUME NEW u \in Active'
          PROVE  Raised' \/ \E s \in Task : at'[s] \in {"calling", "judging"} /\ UnitOf(s)' = u
      <3>1. UnitOf(t)' = h /\ at'[t] = "calling"
        BY <1>0, <1>1 DEF UnitOf, TypeOK
      <3>2. CASE u = h
        BY <3>1, <3>2
      <3>3. CASE u # h
        <4>1. u \in Active
          BY <1>0, <1>2, <3>3 DEF Active, TypeOK
        <4>2. Raised \/ \E s \in Task : at[s] \in {"calling", "judging"} /\ UnitOf(s) = u
          BY <1>0, <4>1 DEF StartedOK
        <4>3. \A s \in Task : at[s] \in {"calling", "judging"} =>
                                 at'[s] = at[s] /\ UnitOf(s)' = UnitOf(s)
          BY <1>0 DEF TypeOK, UnitOf
        <4> QED BY <2>1, <4>2, <4>3
      <3> QED BY <3>2, <3>3
    <2> QED BY <2>2 DEF StartedOK
  <1> QED BY <1>0, <1>3, <1>4, <1>5, <1>6, StillRunning DEF IInv

LEMMA StopQueuedKeeps ==
    ASSUME IInv, NEW t \in Task, StopQueued(t)
    PROVE  IInv'
  <1>1. /\ ending = "none" /\ at[t] \in Busy /\ Raise(t, "uncertain")
        /\ at' = [at EXCEPT ![t] = "ended"] /\ slots' = slots /\ at[t] # "calling"
        /\ UNCHANGED <<repetition, next, scheduled, leaving, paused, interrupts, ending>>
        /\ uncertain' \in BOOLEAN
        /\ outcome' \in [Unit -> {"planned", "running", "completed", "inconclusive",
                                  "quarantined", "skipped"}]
    BY DEF StopQueued, Ready, Busy, IInv, TypeOK
  <1> QED BY <1>1, FailingKeeps

LEMMA UnprojectableKeeps ==
    ASSUME IInv, NEW t \in Task, Unprojectable(t)
    PROVE  IInv'
  <1>1. /\ ending = "none" /\ at[t] \in Busy /\ Raise(t, "uncertain")
        /\ at' = [at EXCEPT ![t] = "ended"] /\ slots' = slots + 1 /\ at[t] = "calling"
        /\ UNCHANGED <<repetition, next, scheduled, leaving, paused, interrupts, ending>>
        /\ uncertain' \in BOOLEAN
        /\ outcome' \in [Unit -> {"planned", "running", "completed", "inconclusive",
                                  "quarantined", "skipped"}]
    BY DEF Unprojectable, Ready, Busy, IInv, TypeOK
  <1> QED BY <1>1, FailingKeeps

LEMMA JudgeFailsKeeps ==
    ASSUME IInv, NEW t \in Task, JudgeFails(t)
    PROVE  IInv'
  <1>1. /\ ending = "none" /\ at[t] \in Busy /\ Raise(t, "error")
        /\ at' = [at EXCEPT ![t] = "ended"] /\ slots' = slots /\ at[t] # "calling"
        /\ UNCHANGED <<repetition, next, scheduled, leaving, paused, interrupts, ending>>
        /\ uncertain' \in BOOLEAN
        /\ outcome' \in [Unit -> {"planned", "running", "completed", "inconclusive",
                                  "quarantined", "skipped"}]
    BY DEF JudgeFails, Ready, Busy, IInv, TypeOK
  <1> QED BY <1>1, FailingKeeps

LEMMA CancelledSentKeeps ==
    ASSUME IInv, NEW t \in Task, CancelledSent(t)
    PROVE  IInv'
  <1>1. /\ ending = "none" /\ at[t] \in Busy /\ Raise(t, "uncertain")
        /\ at' = [at EXCEPT ![t] = "ended"]
        /\ slots' = (IF at[t] = "calling" THEN slots + 1 ELSE slots)
        /\ UNCHANGED <<repetition, next, scheduled, leaving, paused, interrupts, ending>>
        /\ uncertain' \in BOOLEAN
        /\ outcome' \in [Unit -> {"planned", "running", "completed", "inconclusive",
                                  "quarantined", "skipped"}]
    BY DEF CancelledSent, Busy, IInv, TypeOK
  <1> QED BY <1>1, FailingKeeps

LEMMA CancelledUnsentKeeps ==
    ASSUME IInv, NEW t \in Task, CancelledUnsent(t)
    PROVE  IInv'
  <1>0. /\ TypeOK /\ SlotsOK /\ RepetitionsOK /\ ChildrenOK /\ StartedOK /\ ending = "none"
        /\ at[t] \in {"created", "queued"} /\ Alive(t)
        /\ at' = [at EXCEPT ![t] = "ended"] /\ cancelled' \subseteq Task
        /\ UNCHANGED <<repetition, next, slots, scheduled, leaving, errors, failures,
                       uncertain, outcome, paused, interrupts, ending>>
    BY DEF IInv, CancelledUnsent, Alive, TypeOK
  <1>1. t \in Worker /\ at[t] \notin Busy => \A c \in ChildrenOf(t) : ~Alive(c)
    <2>1. ASSUME t \in Worker, at[t] = "created", NEW c \in ChildrenOf(t), Alive(c) PROVE FALSE
      <3>1. PICK v \in Worker : at[v] = "group" /\ c \in ChildrenOf(v)
        BY <1>0, <2>1 DEF ChildrenOK, ChildrenOf
      <3>2. repetition[v] = repetition[t] /\ repetition[v] # 0
        BY <1>0, <2>1, <3>1 DEF ChildrenOf, RepetitionsOK
      <3>3. v = t
        BY <1>0, <2>1, <3>2 DEF RepetitionsOK
      <3> QED BY <2>1, <3>1, <3>3
    <2> QED BY <1>0, <2>1 DEF Busy
  <1>2. /\ RepetitionsOK' /\ ChildrenOK'
        /\ at' \in [Task -> {"absent", "created", "queued", "calling", "judging", "group", "ended"}]
    BY <1>0, <1>1, TaskMoves
  <1>3. SlotsOK'
    <2>1. Calling' = Calling
      BY <1>0 DEF Calling, TypeOK
    <2> QED BY <1>0, <2>1, SlotKept
  <1>4. StartedOK'
    <2>1. Raised => Raised'
      BY <1>0 DEF Raised, TypeOK, Task
    <2>2. \A s \in Task : at[s] \in {"calling", "judging"} =>
                             at'[s] = at[s] /\ UnitOf(s)' = UnitOf(s)
      BY <1>0 DEF TypeOK, UnitOf
    <2> QED BY <1>0, <2>1, <2>2, NothingIsStarted
  <1>5. TypeOK'
    BY <1>0, <1>2 DEF TypeOK
  <1> QED BY <1>0, <1>2, <1>3, <1>4, <1>5, StillRunning DEF IInv

(* A trial that is over for its task.                                      *)
LEMMA OverKeeps ==
    ASSUME IInv, ending = "none", NEW t \in Task, at[t] \in {"calling", "judging"}, AfterTrial(t),
           NEW s \in {"completed", "inconclusive"},
           outcome' = [outcome EXCEPT ![UnitOf(t)] = s],
           slots' = (IF at[t] = "calling" THEN slots + 1 ELSE slots),
           UNCHANGED <<repetition, next, doom, uncertain, paused, interrupts, ending>>
    PROVE  IInv'
  <1>0. TypeOK /\ RepetitionsOK /\ ChildrenOK /\ SlotsOK /\ StartedOK /\ at[t] \in Busy
    BY DEF IInv, Busy
  <1>1. /\ RepetitionsOK' /\ ChildrenOK'
        /\ at' \in [Task -> {"absent", "created", "queued", "calling", "judging", "group", "ended"}]
        /\ \A x \in Task : x # t /\ at[x] # "absent" => at'[x] = at[x]
        /\ at'[t] \notin Busy
        /\ \A x \in Task : at'[x] \in Busy \cup {"group"} => x = t \/ at'[x] = at[x]
    BY <1>0, TrialIsOver
  <1>2. PICK h \in Unit : h = UnitOf(t)
    BY <1>0, UnitsAreTrials
  <1>3. /\ outcome' \in [Unit -> {"planned", "running", "completed", "inconclusive",
                                  "quarantined", "skipped"}]
        /\ \A u \in Unit : outcome'[u] = IF u = h THEN s ELSE outcome[u]
    BY <1>0, <1>2 DEF TypeOK
  <1>4. SlotsOK' /\ slots' \in 0 .. MaxRequests
    <2>1. Calling' = Calling \ {t}
      BY <1>1 DEF Calling, Busy
    <2>2. CASE at[t] = "calling"
      BY <1>0, <2>1, <2>2, SlotReturned DEF Calling
    <2>3. CASE at[t] # "calling"
      BY <1>0, <2>1, <2>3, SlotKept DEF Calling
    <2> QED BY <2>2, <2>3
  <1>5. StartedOK'
    <2>1. Raised => Raised'
      <3>1. \A w \in Worker : at[w] = "group" => at'[w] = "group"
        BY <1>0, <1>1 DEF Task, Busy
      <3> QED BY <3>1 DEF Raised, doom
    <2>2. \A x \in Task : at[x] \in {"calling", "judging"} =>
              \/ at'[x] \in {"calling", "judging"} /\ UnitOf(x)' = UnitOf(x)
              \/ UnitOf(x) \notin Active'
      <3>1. h \notin Active'
        BY <1>3 DEF Active
      <3>2. \A x \in Task : x # t /\ at[x] \in {"calling", "judging"} => at'[x] = at[x]
        BY <1>1
      <3> QED BY <1>2, <3>1, <3>2 DEF UnitOf
    <2>3. \A u \in Unit : outcome'[u] = "running" => outcome[u] = "running"
      BY <1>3
    <2> QED BY <1>0, <2>1, <2>2, <2>3, NothingIsStarted
  <1>6. TypeOK'
    BY <1>0, <1>1, <1>3, <1>4 DEF TypeOK, doom
  <1> QED BY <1>1, <1>4, <1>5, <1>6, StillRunning DEF IInv

LEMMA FailsKeeps ==
    ASSUME IInv, NEW t \in Task, Fails(t)
    PROVE  IInv'
  BY OverKeeps DEF Fails, Ready

LEMMA JudgeKeeps ==
    ASSUME IInv, NEW t \in Task, NEW verdict \in {"completed", "inconclusive"}, Judge(t, verdict)
    PROVE  IInv'
  BY OverKeeps DEF Judge, Ready

LEMMA AnswersKeeps ==
    ASSUME IInv, NEW t \in Task, Answers(t)
    PROVE  IInv'
  <1>0. /\ TypeOK /\ SlotsOK /\ RepetitionsOK /\ ChildrenOK /\ StartedOK /\ ending = "none"
        /\ at[t] = "calling" /\ at[t] \in Busy /\ Alive(t) /\ slots' = slots + 1
        /\ at' = [at EXCEPT ![t] = "judging"] /\ "judging" \in Busy
        /\ UNCHANGED <<repetition, next, doom, uncertain, outcome, paused, interrupts, ending>>
    BY DEF IInv, Answers, Ready, Busy, Alive
  <1>1. /\ RepetitionsOK' /\ ChildrenOK'
        /\ at' \in [Task -> {"absent", "created", "queued", "calling", "judging", "group", "ended"}]
    BY <1>0, TaskMoves
  <1>2. SlotsOK' /\ slots' \in 0 .. MaxRequests
    <2>1. Calling' = Calling \ {t} /\ t \in Calling
      BY <1>0 DEF Calling, TypeOK
    <2> QED BY <1>0, <2>1, SlotReturned
  <1>3. StartedOK'
    <2>1. Raised => Raised'
      BY <1>0 DEF Raised, doom, TypeOK, Task
    <2>2. \A s \in Task : at[s] \in {"calling", "judging"} =>
                             at'[s] \in {"calling", "judging"} /\ UnitOf(s)' = UnitOf(s)
      BY <1>0 DEF TypeOK, UnitOf
    <2> QED BY <1>0, <2>1, <2>2, NothingIsStarted
  <1>4. TypeOK'
    BY <1>0, <1>1, <1>2 DEF TypeOK, doom
  <1> QED BY <1>0, <1>1, <1>2, <1>3, <1>4, StillRunning DEF IInv

LEMMA CancelledInGroupKeeps ==
    ASSUME IInv, NEW w \in Worker, CancelledInGroup(w)
    PROVE  IInv'
  <1>1. /\ ending = "none" /\ cancelled' \subseteq Task /\ leaving' \subseteq Worker
        /\ UNCHANGED <<tasks, errors, failures, uncertain, outcome, ending>>
        /\ scheduled' \subseteq Task /\ paused' \in BOOLEAN /\ interrupts' \in 0 .. MaxInterrupts
    BY DEF CancelledInGroup, IInv, TypeOK, ChildrenOf, Task
  <1> QED BY <1>1, CancellingKeeps

LEMMA DeliverCancelKeeps ==
    ASSUME IInv, NEW t \in Task, DeliverCancel(t)
    PROVE  IInv'
  <1>1. /\ ending = "none" /\ cancelled' \subseteq Task /\ leaving' \subseteq Worker
        /\ UNCHANGED <<tasks, errors, failures, uncertain, outcome, ending>>
        /\ scheduled' \subseteq Task /\ paused' \in BOOLEAN /\ interrupts' \in 0 .. MaxInterrupts
    BY DEF DeliverCancel, IInv, TypeOK
  <1> QED BY <1>1, CancellingKeeps

LEMMA InterruptKeeps ==
    ASSUME IInv, Interrupt
    PROVE  IInv'
  <1>1. scheduled' \subseteq Task
    <2>1. ASSUME NEW u, \E t \in Task : Alive(t) /\ UnitOf(t) = u PROVE TaskOf(u) \in Task
      BY <2>1 DEF TaskOf
    <2> QED BY <2>1 DEF Interrupt, IInv, TypeOK
  <1>2. interrupts' \in 0 .. MaxInterrupts
    BY InterruptsAreBounded DEF Interrupt, IInv, TypeOK
  <1>3. /\ ending = "none" /\ cancelled' \subseteq Task /\ leaving' \subseteq Worker
        /\ UNCHANGED <<tasks, errors, failures, uncertain, outcome, ending>>
        /\ paused' \in BOOLEAN
    BY DEF Interrupt, IInv, TypeOK
  <1> QED BY <1>1, <1>2, <1>3, CancellingKeeps

LEMMA GroupEndsKeeps ==
    ASSUME IInv, NEW w \in Worker, GroupEnds(w)
    PROVE  IInv'
  <1>0. /\ TypeOK /\ SlotsOK /\ RepetitionsOK /\ ChildrenOK /\ StartedOK /\ ending = "none"
        /\ at[w] = "group" /\ w \in Task /\ \A c \in ChildrenOf(w) : ~Alive(c)
        /\ UNCHANGED <<slots, scheduled, leaving, uncertain, outcome, paused, interrupts, ending>>
    BY DEF IInv, GroupEnds, GroupIsDone, Ready, Task
  <1>1. CASE errors[w] = {} /\ TakeRepetition(w) /\ UNCHANGED <<cancelled, errors, failures>>
    BY <1>0, <1>1, GoingOnKeeps DEF doom
  <1>2. CASE at' = [at EXCEPT ![w] = "ended"] /\ UNCHANGED <<repetition, next>>
    <2>1. /\ errors' = errors /\ cancelled' \subseteq Task
          /\ failures' = failures \cup errors[w]
      BY <1>0, <1>2 DEF GroupEnds, TakeRepetition, TypeOK, Task
    <2>2. failures' \subseteq {"uncertain", "error"}
      BY <1>0, <2>1 DEF TypeOK
    <2>3. w \notin Child
      BY Shapes
    <2>4. /\ RepetitionsOK' /\ ChildrenOK'
          /\ at' \in [Task -> {"absent", "created", "queued", "calling", "judging", "group", "ended"}]
      BY <1>0, <1>2, <2>3, TaskMoves
    <2>5. SlotsOK'
      <3>1. Calling' = Calling
        BY <1>0, <1>2 DEF Calling, TypeOK
      <3> QED BY <1>0, <3>1, SlotKept
    <2>6. StartedOK'
      <3>1. Raised => Raised'
        BY <1>0, <1>2, <2>1 DEF Raised, TypeOK, Task
      <3>2. \A s \in Task : at[s] \in {"calling", "judging"} =>
                               at'[s] = at[s] /\ UnitOf(s)' = UnitOf(s)
        BY <1>0, <1>2 DEF TypeOK, UnitOf
      <3> QED BY <1>0, <3>1, <3>2, NothingIsStarted
    <2>7. TypeOK'
      BY <1>0, <1>2, <2>1, <2>2, <2>4 DEF TypeOK
    <2> QED BY <1>0, <2>4, <2>5, <2>6, <2>7, StillRunning DEF IInv
  <1> QED BY <1>1, <1>2 DEF GroupEnds

(* How the run is concluded.                                               *)
LEMMA Conclusion ==
    ASSUME TypeOK, RunEnds
    PROVE  /\ ending' \in {"finished", "paused", "uncertain", "error", "asserted", "missing"}
           /\ ending' \in {"finished", "paused", "missing"} => failures = {} /\ outcome' = outcome
           /\ outcome' = QuarantineActive \/ outcome' = outcome
  <1>1. \/ "uncertain" \in failures /\ Active # {}
        \/ "uncertain" \in failures /\ Active = {}
        \/ failures = {"error"} \/ failures = {}
    BY DEF TypeOK
  <1>2. CASE "uncertain" \in failures /\ Active # {}
    <2>1. failures # {"error"} /\ failures # {} /\ ("uncertain" \in failures) = TRUE
          /\ (Active # {}) = TRUE
      BY <1>2
    <2> QED BY <2>1 DEF RunEnds
  <1>3. CASE "uncertain" \in failures /\ Active = {}
    <2>1. failures # {"error"} /\ failures # {} /\ ("uncertain" \in failures) = TRUE
          /\ (Active # {}) = FALSE
      BY <1>3
    <2> QED BY <1>3, <2>1 DEF RunEnds
  <1>4. CASE failures = {"error"}
    BY <1>4 DEF RunEnds
  <1>5. CASE failures = {}
    BY <1>5 DEF RunEnds
  <1> QED BY <1>1, <1>2, <1>3, <1>4, <1>5

(* The run ends once its workers have ended: no group is left, and what    *)
(* was raised is among the failures.                                       *)
LEMMA RunEndsKeeps ==
    ASSUME IInv, RunEnds
    PROVE  IInv'
  <1>0. /\ TypeOK /\ SlotsOK /\ RepetitionsOK /\ ChildrenOK /\ StartedOK /\ ending = "none"
        /\ \A w \in Worker : at[w] = "ended"
        /\ UNCHANGED <<tasks, doom, uncertain, paused, interrupts>>
    BY DEF IInv, RunEnds
  <1>1. \A t \in Task : ~Alive(t)
    BY <1>0 DEF Alive, ChildrenOK, Task
  <1>2. failures = {} => Active = {}
    <2>1. failures = {} => ~Raised
      BY <1>0 DEF Raised
    <2> QED BY <1>0, <1>1, <2>1 DEF StartedOK, Alive
  <1>3. /\ ending' \in {"finished", "paused", "uncertain", "error", "asserted", "missing"}
        /\ ending' \in {"finished", "paused", "missing"} => failures = {} /\ outcome' = outcome
        /\ outcome' \in [Unit -> {"planned", "running", "completed", "inconclusive",
                                  "quarantined", "skipped"}]
    <2>1. QuarantineActive \in [Unit -> {"planned", "running", "completed", "inconclusive",
                                         "quarantined", "skipped"}]
      BY <1>0 DEF QuarantineActive, TypeOK
    <2> QED BY <1>0, <2>1, Conclusion DEF TypeOK
  <1>4. TypeOK'
    BY <1>0, <1>3 DEF TypeOK, tasks, doom
  <1>5. SlotsOK' /\ RepetitionsOK' /\ ChildrenOK'
    BY <1>0 DEF tasks, SlotsOK, Calling, RepetitionsOK, ChildrenOK, Alive, ChildrenOf
  <1>6. StartedOK'
    BY <1>3 DEF StartedOK
  <1>7. EndingOK'
    <2>1. ending' \in {"finished", "paused", "missing"} => Active' = {}
      BY <1>2, <1>3 DEF Active
    <2> QED BY <1>0, <2>1 DEF EndingOK, StartedTrialsAreNeverDropped, tasks
  <1> QED BY <1>4, <1>5, <1>6, <1>7 DEF IInv

LEMMA StutteringKeeps ==
    ASSUME IInv, UNCHANGED vars
    PROVE  IInv'
  <1> USE DEF vars, tasks, doom
  <1>1. TypeOK' /\ SlotsOK' /\ RepetitionsOK' /\ ChildrenOK'
    BY DEF IInv, TypeOK, SlotsOK, Calling, RepetitionsOK, ChildrenOK, Alive, ChildrenOf
  <1>2. StartedOK' /\ EndingOK'
    BY DEF IInv, StartedOK, EndingOK, Raised, Active, UnitOf, StartedTrialsAreNeverDropped
  <1> QED BY <1>1, <1>2 DEF IInv
-----------------------------------------------------------------------------
LEMMA InitHolds ==
    ASSUME Init
    PROVE  IInv
  <1>0. /\ at = [t \in Task |-> IF t \in Worker THEN "created" ELSE "absent"]
        /\ \A t \in Task : at[t] = IF t \in Worker THEN "created" ELSE "absent"
        /\ \A w \in Worker : repetition[w] = 0 /\ w \in Task
        /\ \A c \in Child : c \notin Worker /\ c \in Task
    BY Shapes DEF Init, Task
  <1>1. TypeOK
    <2>1. /\ at \in [Task -> {"absent", "created", "queued", "calling", "judging", "group", "ended"}]
          /\ repetition \in [Worker -> 0 .. Repetitions] /\ next \in 1 .. Repetitions + 1
          /\ slots \in 0 .. MaxRequests /\ interrupts \in 0 .. MaxInterrupts
      BY PlanIsNotEmpty, RequestsMayOverlap, InterruptsAreBounded DEF Init
    <2>2. /\ cancelled \subseteq Task /\ scheduled \subseteq Task /\ leaving \subseteq Worker
          /\ errors \in [Worker -> SUBSET {"uncertain", "error"}]
          /\ failures \subseteq {"uncertain", "error"}
      BY DEF Init
    <2>3. /\ uncertain \in BOOLEAN /\ paused \in BOOLEAN
          /\ outcome \in [Unit -> {"planned", "running", "completed", "inconclusive",
                                   "quarantined", "skipped"}]
          /\ ending \in {"none", "finished", "paused", "uncertain", "error", "asserted", "missing"}
      BY DEF Init
    <2> QED BY <2>1, <2>2, <2>3 DEF TypeOK
  <1>2. SlotsOK
    <2>1. Calling = {}
      BY <1>0 DEF Calling
    <2> QED BY <2>1, FS_EmptySet, RequestsMayOverlap DEF SlotsOK, Init
  <1>3. RepetitionsOK /\ ChildrenOK
    BY <1>0 DEF RepetitionsOK, ChildrenOK, Init, Busy, Alive, ChildrenOf
  <1>4. StartedOK /\ EndingOK
    BY DEF StartedOK, EndingOK, StartedTrialsAreNeverDropped, Active, Init
  <1> QED BY <1>1, <1>2, <1>3, <1>4 DEF IInv

LEMMA NextKeeps ==
    ASSUME IInv, [Next]_vars
    PROVE  IInv'
  <1>1. CASE \E w \in Worker : StartWorker(w) \/ CancelledInGroup(w) \/ GroupEnds(w)
    BY <1>1, StartWorkerKeeps, CancelledInGroupKeeps, GroupEndsKeeps
  <1>2. CASE \E c \in Child : StartChild(c)
    BY <1>2, StartChildKeeps
  <1>3. CASE \E t \in Task : Step(t)
    <2>1. PICK t \in Task : Step(t)
      BY <1>3
    <2> QED BY <2>1, SendKeeps, StopQueuedKeeps, FailsKeeps, UnprojectableKeeps, AnswersKeeps,
               JudgeKeeps, JudgeFailsKeeps, CancelledUnsentKeeps, CancelledSentKeeps,
               DeliverCancelKeeps DEF Step
  <1>4. CASE RunEnds \/ Interrupt \/ UNCHANGED vars
    BY <1>4, RunEndsKeeps, InterruptKeeps, StutteringKeeps
  <1> QED BY <1>1, <1>2, <1>3, <1>4 DEF Next, Work, Rest

(* The inductive invariant holds in every run of a case.                   *)
THEOREM Invariance == Spec => []IInv
  <1> QED BY InitHolds, NextKeeps, PTL DEF Spec

(* Two tasks never run the same trial, the slots taken are those of the    *)
(* requests in flight, no task outlives the run, and a run that ends as if *)
(* all was well has dropped no trial that was started: whatever was        *)
(* cancelled, failed or ended first.                                       *)
THEOREM NothingLeaks == Spec => []NothingIsLeaked
  <1>1. ASSUME IInv PROVE NothingIsLeaked
    <2>1. NoTaskIsLeftBehind
      BY <1>1 DEF IInv, EndingOK, ChildrenOK, NoTaskIsLeftBehind, Alive, Task
    <2>2. SlotsAreTheRequests
      BY <1>1, TrialsAreNotShared DEF IInv, SlotsOK, Calling, SlotsAreTheRequests, Busy
    <2> QED BY <1>1, <2>1, <2>2 DEF NothingIsLeaked, IInv, EndingOK
  <1> QED BY <1>1, Invariance, PTL

(* Once the target is in doubt no request is sent any more, also by the    *)
(* trials that had waited for a slot when the doubt arose.                 *)
THEOREM NothingSentInDoubt == Spec => NothingIsSentInDoubt
  <1>1. ASSUME IInv, [Next]_vars, uncertain, NEW u \in Unit, outcome'[u] = "running"
        PROVE  outcome[u] = "running"
    <2>0. outcome \in [Unit -> {"planned", "running", "completed", "inconclusive",
                                "quarantined", "skipped"}]
      BY <1>1 DEF IInv, TypeOK
    <2>1. CASE \E w \in Worker : StartWorker(w) \/ CancelledInGroup(w) \/ GroupEnds(w)
      BY <1>1, <2>1 DEF StartWorker, CancelledInGroup, GroupEnds
    <2>2. CASE \E c \in Child : StartChild(c)
      BY <1>1, <2>0, <2>2 DEF StartChild
    <2>3. CASE \E t \in Task : Step(t)
      <3>1. PICK t \in Task : Step(t)
        BY <2>3
      <3>2. \/ outcome' = outcome
            \/ \E s \in {"completed", "inconclusive", "quarantined"} :
                  outcome' = [outcome EXCEPT ![UnitOf(t)] = s]
        BY <1>1, <3>1 DEF Step, Send, StopQueued, Fails, Unprojectable, Answers, Judge, JudgeFails,
           CancelledUnsent, CancelledSent, DeliverCancel
      <3> QED BY <1>1, <2>0, <3>2
    <2>4. CASE RunEnds
      <3>1. outcome' = QuarantineActive \/ outcome' = outcome
        BY <1>1, <2>4, Conclusion DEF IInv
      <3>2. QuarantineActive[u] # "running"
        BY DEF QuarantineActive, Active
      <3> QED BY <1>1, <3>1, <3>2
    <2>5. CASE Interrupt \/ UNCHANGED vars
      BY <1>1, <2>5 DEF Interrupt, vars
    <2> QED BY <1>1, <2>1, <2>2, <2>3, <2>4, <2>5 DEF Next, Work, Rest
  <1>2. IInv /\ [Next]_vars =>
           [uncertain => \A u \in Unit : outcome'[u] = "running" => outcome[u] = "running"]_vars
    BY <1>1
  <1> QED BY <1>2, Invariance, PTL DEF Spec, NothingIsSentInDoubt
=============================================================================
