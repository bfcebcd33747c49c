--------------------------- MODULE CampaignProofs ---------------------------
(***************************************************************************)
(* Theorems about a campaign, for any number of cases, repetitions,        *)
(* operators, interrupts and invocations.                                  *)
(*                                                                         *)
(* The argument: IInv is inductive.  It has two halves.  Stored is what    *)
(* the files and the history of the calls satisfy wherever a process may   *)
(* stand or be killed; it is all that a later invocation can rely on.      *)
(* AtWork is what a live process knows at the place where it stands: that  *)
(* the case at hand has no evidence yet, that the variations in memory are *)
(* the ones its earlier trials were run with, which trials are settled,    *)
(* and that the target is not in doubt when a trial begins.                *)
(***************************************************************************)
EXTENDS Campaign, FiniteSetTheorems, WellFoundedInduction, TLAPS

(* Where a process stands: in the loop over the cases, or in one trial.    *)
Loop == {"case", "skip", "gate", "augment", "save", "compare", "failing", "settling",
         "trial", "start", "register", "target", "waiting", "record", "finish", "after",
         "judge", "write", "cleanup", "handler"}
AtTrial == {"start", "register", "target", "waiting", "record", "finish", "handler"}
Sending == {"start", "register", "target", "waiting"}

Untouched(c) == \A u \in UnitsOf(c) : outcome[u] = "planned"

(* What is recorded of case c is what the variations d make of it.         *)
SameDraw(c, d) ==
    \A u \in UnitsOf(c) :
        /\ outcome[u] \in {"rejected", "inapplicable"} => outcome[u] = d.verdict[u.op]
        /\ u \in contacted => ranWith[u] = d

Pristine ==
    /\ evidence = <<>> /\ contacted = {} /\ suspect = {} /\ attested = {}
    /\ \A c \in Case : Untouched(c) /\ ledger[c] = NoDraw

(* The outcomes of the journal, whatever the process does.                 *)
OutcomesOK ==
    \A u \in Planned :
        /\ outcome[u] = "errored" => u.case \in Failed
        /\ outcome[u] \in {"rejected", "inapplicable"} => u.op # 0

(* The units that were sent.                                               *)
CallsOK ==
    /\ contacted \subseteq Planned
    /\ \A u \in contacted :
          /\ outcome[u] \in {"running", "completed", "inconclusive", "quarantined"}
          /\ u.case \notin Failed
          /\ ranWith[u] \in Draw /\ ranWith[u].comparable
          /\ u.op # 0 => outcome[Original(u)] = "completed"
    /\ \A u, v \in contacted : u.case = v.case => ranWith[u] = ranWith[v]

(* The lines of evidence.                                                  *)
EvidenceOK ==
    /\ \A i, j \in DOMAIN evidence : evidence[i].case = evidence[j].case => i = j
    /\ \A i \in DOMAIN evidence : evidence[i].kind = "result" =>
          \A u \in UnitsOf(evidence[i].case) :
              /\ outcome[u] \in Settled
              /\ u \in contacted => ranWith[u] = evidence[i].draw

(* The augmentation ledger.                                                *)
LedgerOK ==
    \A c \in Case :
        /\ ~retains => ledger[c] = NoDraw
        /\ retains /\ ledger[c] = NoDraw /\ c \notin Failed => Untouched(c)
        /\ ledger[c] # NoDraw => SameDraw(c, ledger[c])

(* The doubts that were attested, and those that were not.                 *)
DoubtOK ==
    /\ attested \subseteq UnitsIn({"quarantined"})
    /\ "unfinished" \in suspect => UnitsIn({"running", "quarantined"}) \ attested # {}

Stored ==
    /\ created < 3 => Pristine
    /\ OutcomesOK /\ CallsOK /\ EvidenceOK /\ LedgerOK /\ DoubtOK

-----------------------------------------------------------------------------
(* Before the loop, and at its ends.                                       *)
PhasesOK ==
    /\ pc \in {"creating", "preflight"} => Pristine
    /\ pc # "down" => invocations >= 1
    /\ pc = "creating" => created \in {1, 2}
    /\ pc \notin {"down", "creating"} => created = 3
    /\ pc \in Loop \cup {"down", "persistence", "creating", "preflight"} => asked = AsRecorded
    /\ pc = "persistence" => Remaining # {} /\ (~retains => \A c \in Remaining : Untouched(c))
    /\ pc = "save" => retains
    /\ pc = "cleanup" => Case \subseteq Processed
    /\ pc \in Loop \ {"settling", "cleanup"} => case \notin Processed
    /\ pc = "settling" => case \in Failed
    /\ pc \notin {"down", "opened"} =>
          (\A u \in Planned :
               u.case \in Failed /\ ~(pc = "settling" /\ u.case = case)
                   => outcome[u] # "planned")
    /\ pc \notin Loop => ~uncertain
    /\ pc \notin Loop \cup {"preflight"} => request = "none"
    /\ pc = "down" => case = 1 /\ place = 1
    /\ pc \notin Loop => draw = NoDraw /\ place = 1

(* The variations of the case at hand.                                     *)
DrawOK ==
    /\ pc \in Loop /\ ~retains =>
          \A c \in Remaining : c # case \/ pc = "case" => Untouched(c)
    /\ pc \in {"case", "augment"} => draw = NoDraw
    /\ pc \in {"skip", "save", "compare", "judge", "write", "trial", "after"} \cup AtTrial
          => draw \in Draw
    /\ pc \in Loop \ {"case", "settling", "cleanup"} =>
          /\ draw = NoDraw => Untouched(case)
          /\ draw # NoDraw => SameDraw(case, draw)
          /\ retains /\ pc # "save" => ledger[case] = draw
    /\ pc = "save" => Untouched(case) /\ ledger[case] = NoDraw
    /\ pc = "failing" => \A u \in UnitsOf(case) : u \notin contacted
    /\ pc \in {"trial", "after", "judge", "write"} \cup AtTrial => Accepted = {} \/ draw.comparable

(* The trials of the case at hand.                                         *)
TrialsOK ==
    /\ \A u \in Planned : outcome[u] = "running" =>
          pc = "down" \/ (pc \in AtTrial \ {"start"} /\ u = Here)
    /\ pc \in AtTrial => place \in Places
    /\ pc \in Loop \ ({"trial", "after", "judge", "write", "cleanup"} \cup AtTrial) => place = 1
    /\ pc \in {"register", "target", "waiting", "handler"} => outcome[Here] = "running"
    /\ pc \in {"register", "target"} => Here \notin contacted
    /\ pc = "start" => outcome[Here] = "planned"
    /\ pc \in {"record", "finish"} =>
          \/ /\ outcome[Here] = "planned"
             /\ result = "skipped" \/ (result = "inconclusive" /\ StopRequested)
          \/ /\ outcome[Here] = "running"
             /\ result \in {"completed", "inconclusive", "quarantined"}
    /\ pc \in {"record", "finish"} /\ outcome[Here] = "running" /\ "unfinished" \in suspect =>
          result = "quarantined"
    /\ pc \in Sending =>
          /\ ~uncertain
          /\ Here.op = 0 => Accepted # {}
          /\ Here.op # 0 => Here.op \in Accepted /\ outcome[Original(Here)] = "completed"
    /\ pc \in {"compare", "trial", "after", "judge", "write"} \cup AtTrial
              \/ (pc = "gate" /\ draw # NoDraw) =>
          \A u \in Declined : outcome[u] # "planned"
    /\ pc \in {"trial", "after"} \cup AtTrial =>
          \A k \in Places : k < place => outcome[UnitAt(k)] \in Settled
    /\ pc \in {"judge", "write"} => \A u \in UnitsOf(case) : outcome[u] \in Settled
    /\ pc \in Loop \cup {"persistence"} /\ "unfinished" \in suspect =>
          uncertain \/ pc = "handler"

(* A stop that was asked for.                                              *)
StopOK ==
    /\ pc # "down" => ending = "none"
    /\ ending = "stopped" => notices >= 1 /\ UnitsIn({"running"}) = {}
    /\ ending = "completed" => Remaining = {} /\ UnitsIn({"planned", "running"}) = {}
    /\ lateStarts <= 1
    /\ pc # "down" /\ lateStarts = 1 =>
          StopRequested /\ pc \notin {"start", "register", "target"}

(* The counters, between and within trials.                                *)
TallyOfStarted == [TallyOfJournal EXCEPT !.running = 1, !.calls = @ + 1]
TallyOK ==
    /\ pc \in {"case", "skip", "gate", "augment", "save", "compare", "failing", "trial",
               "start", "register", "judge", "write", "cleanup"} => tally = TallyOfJournal
    /\ pc = "settling" =>
          tally = [TallyOfJournal EXCEPT
                      !.failed = @ - Cardinality(UnitsOf(case) \cap UnitsIn({"errored"}))]
    /\ pc \in {"target", "waiting", "handler"} => tally = TallyOfStarted
    /\ pc \in {"record", "finish"} =>
          tally = IF outcome[Here] = "running" THEN TallyOfStarted ELSE TallyOfJournal
    /\ pc = "after" => tally = TallyOfJournal \/ StopRequested

(* The calls an invocation may still make.                                 *)
Callable ==
    {u \in Planned : /\ u.case \in Remaining /\ outcome[u] = "planned"
                     /\ u.op = 0 \/ OperatorStatus(u.case, u.op) # "ineligible"}

AllowanceOK ==
    IF pc \in Loop \cup {"preflight", "persistence"}
    THEN Cardinality(Callable) + (IF pc = "register" THEN 1 ELSE 0) <= allowance
    ELSE allowance = 0

AtWork == PhasesOK /\ DrawOK /\ TrialsOK /\ StopOK /\ TallyOK /\ AllowanceOK

IInv == TypeOK /\ Stored /\ AtWork
-----------------------------------------------------------------------------
(* Arithmetic of the order of trials.                                      *)
LEMMA DivMod ==
    ASSUME NEW W \in Nat \ {0}, NEW k \in Nat
    PROVE  /\ k \div W \in Nat /\ k % W \in 0 .. W - 1
           /\ k = W * (k \div W) + (k % W)
  BY Z3

LEMMA Products ==
    ASSUME NEW W \in Nat, NEW a \in Nat, NEW b \in Nat, a <= b
    PROVE  W * a <= W * b
  BY Z3

LEMMA QuotientIsBounded ==
    ASSUME NEW W \in Nat \ {0}, NEW R \in Nat, NEW k \in 0 .. R * W - 1
    PROVE  k \div W \in 0 .. R - 1
  <1>1. k \in Nat
    OBVIOUS
  <1>2. k = W * (k \div W) + (k % W) /\ k \div W \in Nat /\ k % W \in Nat
    BY <1>1, DivMod
  <1>3. k \div W < R
    <2>1. SUFFICES ASSUME R <= k \div W PROVE FALSE
      BY <1>2
    <2>2. W * R <= W * (k \div W)
      BY <2>1, <1>2, Products
    <2>3. PICK q \in Nat : q = W * (k \div W)
      BY <1>2
    <2>4. PICK m \in Nat : m = W * R
      OBVIOUS
    <2> QED BY <2>2, <2>3, <2>4, <1>2
  <1> QED BY <1>2, <1>3

LEMMA QuotientIsUnique ==
    ASSUME NEW W \in Nat \ {0}, NEW q \in Nat, NEW r \in 0 .. W - 1
    PROVE  (W * q + r) \div W = q /\ (W * q + r) % W = r
  BY Z3

(* A nonempty set of numbers has a least one.                              *)
LEMMA LeastNumber ==
    ASSUME NEW S, S \subseteq Nat, S # {}
    PROVE  \E n \in S : \A m \in S : n <= m
  <1> DEFINE upTo == {0 .. m : m \in S}
  <1>1. upTo \subseteq FiniteSubsetsOf(Nat) /\ upTo # {}
    <2>1. ASSUME NEW m \in S PROVE 0 .. m \in FiniteSubsetsOf(Nat)
      BY FS_Interval DEF FiniteSubsetsOf
    <2> QED BY <2>1
  <1>2. PICK x \in upTo : \A y \in upTo : ~ (<<y, x>> \in StrictSubsetOrdering(Nat))
    BY <1>1, WFMin, FS_StrictSubsetOrderingWellFounded
  <1>3. PICK n \in S : x = 0 .. n
    BY <1>2
  <1>4. ASSUME NEW m \in S, m < n PROVE FALSE
    <2>1. 0 .. m \subseteq 0 .. n /\ n \in 0 .. n /\ n \notin 0 .. m
      BY <1>4
    <2>2. <<0 .. m, 0 .. n>> \in StrictSubsetOrdering(Nat)
      BY <2>1 DEF StrictSubsetOrdering
    <2> QED BY <2>2, <1>2, <1>3
  <1> QED BY <1>4

(* The sizes of the plan.                                                  *)
LEMMA PlanShape ==
    ASSUME plan \in Plans
    PROVE  /\ plan.cases \in Nat \ {0} /\ plan.repetitions \in Nat \ {0}
           /\ plan.interrupts \in Nat /\ plan.invocations \in Nat
           /\ plan.invocations <= MaxInvocations
           /\ Operators \in Nat \ {0} /\ MaxInvocations \in Nat
           /\ 1 \in Case /\ Case \subseteq Nat
           /\ Planned \subseteq Unit
  BY PlansAreNotEmpty, BoundsAreNumbers DEF Case, Planned, Unit

(* The order of trials goes through the units of the case, all of them.    *)
LEMMA UnitsInOrder ==
    ASSUME TypeOK
    PROVE  /\ \A k \in Places : UnitAt(k) \in UnitsOf(case)
           /\ \A u \in UnitsOf(case) : \E k \in Places : u = UnitAt(k)
           /\ Places \subseteq Nat \ {0}
  <1> DEFINE W == 1 + Operators
  <1> DEFINE R == plan.repetitions
  <1>1. W \in Nat \ {0} /\ R \in Nat \ {0} /\ case \in Case
    BY PlanShape DEF TypeOK
  <1>2. Places = 1 .. R * W
    BY DEF Places
  <1>3. ASSUME NEW k \in Places PROVE UnitAt(k) \in UnitsOf(case)
    <2>0. R * W \in Nat
      BY <1>1
    <2>1. k - 1 \in 0 .. R * W - 1
      BY <1>2, <2>0
    <2>2. (k - 1) \div W \in 0 .. R - 1
      BY <1>1, <2>1, QuotientIsBounded
    <2>3. (k - 1) % W \in 0 .. W - 1
      BY <1>1, <2>1, DivMod
    <2>4. 1 + (k - 1) \div W \in 1 .. R /\ (k - 1) % W \in 0 .. Operators
      BY <2>2, <2>3, <1>1, BoundsAreNumbers
    <2> QED BY <2>4, <1>1 DEF UnitAt, UnitsOf, Planned, UnitOfPlan, Case
  <1>4. ASSUME NEW u \in UnitsOf(case) PROVE \E k \in Places : u = UnitAt(k)
    <2>1. /\ u = [case |-> u.case, rep |-> u.rep, op |-> u.op]
          /\ u.rep \in 1 .. R /\ u.op \in 0 .. Operators /\ u.case = case
      BY DEF UnitsOf, Planned, UnitOfPlan
    <2>2. PICK q \in Nat : q = u.rep - 1 /\ q <= R - 1
      BY <2>1, <1>1
    <2>3. PICK k : k = (W * q + u.op) + 1
      OBVIOUS
    <2>4. u.op \in 0 .. W - 1 /\ W * q \in Nat
      BY <2>1, <2>2, <1>1, BoundsAreNumbers
    <2>5. (k - 1) \div W = q /\ (k - 1) % W = u.op
      <3>1. k - 1 = W * q + u.op
        BY <2>3, <2>4
      <3> HIDE DEF W
      <3>2. (W * q + u.op) \div W = q /\ (W * q + u.op) % W = u.op
        BY <2>4, <2>2, <1>1, QuotientIsUnique
      <3> QED BY <3>1, <3>2
    <2>6. k \in Places
      <3>1. W * q <= W * (R - 1) /\ R - 1 \in Nat
        BY <2>2, <1>1, Products
      <3>2. W * (R - 1) = R * W - W
        BY <1>1, Z3
      <3>3. PICK a \in Nat : a = W * q
        BY <2>4
      <3>4. PICK b \in Nat : b = R * W
        BY <1>1
      <3> HIDE DEF W, R
      <3> QED BY <3>1, <3>2, <3>3, <3>4, <2>3, <2>4, <1>2, <1>1
    <2>7. u = UnitAt(k)
      BY <2>1, <2>2, <2>5 DEF UnitAt
    <2> QED BY <2>6, <2>7
  <1>5. Places \subseteq Nat \ {0}
    BY <1>2, <1>1
  <1> QED BY <1>3, <1>4, <1>5

LEMMA OriginalIsPlanned ==
    ASSUME NEW u \in Planned
    PROVE  Original(u) \in Planned /\ Original(u).case = u.case
  BY BoundsAreNumbers DEF Original, Planned, UnitOfPlan

(* The unit at hand is one of the plan's.                                  *)
LEMMA HereIsPlanned ==
    ASSUME TypeOK, place \in Places
    PROVE  /\ Here \in Planned /\ Here \in Unit /\ Here \in UnitsOf(case)
           /\ Here.case = case /\ Here.op \in 0 .. Operators
           /\ Original(Here) \in Planned
  <1>1. Here \in UnitsOf(case)
    BY UnitsInOrder DEF Here
  <1>2. PICK u \in Planned : u = Here /\ u.case = case
    BY <1>1 DEF UnitsOf
  <1>3. u.op \in 0 .. Operators /\ u \in Unit
    BY PlanShape DEF TypeOK, Planned, UnitOfPlan
  <1> QED BY <1>1, <1>2, <1>3, OriginalIsPlanned
-----------------------------------------------------------------------------
(* Counting units.                                                         *)
LEMMA PlannedIsFinite ==
    ASSUME plan \in Plans
    PROVE  /\ IsFiniteSet(Planned) /\ IsFiniteSet(Case)
           /\ \A S : IsFiniteSet(UnitsIn(S)) /\ Cardinality(UnitsIn(S)) \in Nat
  <1> DEFINE C == 1 .. plan.cases
  <1> DEFINE R == 1 .. plan.repetitions
  <1> DEFINE O == 0 .. Operators
  <1>1. IsFiniteSet(C) /\ IsFiniteSet(R) /\ IsFiniteSet(O)
    <2>1. plan.cases \in Int /\ plan.repetitions \in Int /\ Operators \in Int
      BY PlanShape
    <2>2. \A b \in Int : IsFiniteSet(1 .. b) /\ IsFiniteSet(0 .. b)
      BY FS_Interval
    <2> QED BY <2>1, <2>2
  <1>2. IsFiniteSet((C \X R) \X O)
    <2> HIDE DEF C, R, O
    <2> QED BY <1>1, FS_Product
  <1> DEFINE f == [x \in (C \X R) \X O |-> [case |-> x[1][1], rep |-> x[1][2], op |-> x[2]]]
  <1>3. f \in Surjection((C \X R) \X O, Planned)
    <2>1. f \in [(C \X R) \X O -> Planned]
      BY DEF Planned, UnitOfPlan
    <2>2. ASSUME NEW u \in Planned PROVE \E x \in (C \X R) \X O : f[x] = u
      <3>1. /\ u = [case |-> u.case, rep |-> u.rep, op |-> u.op]
            /\ u.case \in C /\ u.rep \in R /\ u.op \in O
        BY DEF Planned, UnitOfPlan
      <3>2. <<<<u.case, u.rep>>, u.op>> \in (C \X R) \X O
        BY <3>1
      <3> HIDE DEF C, R, O
      <3>3. f[<<<<u.case, u.rep>>, u.op>>] = u
        BY <3>1, <3>2
      <3> QED BY <3>2, <3>3
    <2> QED BY <2>1, <2>2 DEF Surjection
  <1>4. IsFiniteSet(Planned)
    BY <1>2, <1>3, FS_Surjection
  <1>5. ASSUME NEW S PROVE IsFiniteSet(UnitsIn(S)) /\ Cardinality(UnitsIn(S)) \in Nat
    <2>1. UnitsIn(S) \in SUBSET Planned
      BY DEF UnitsIn
    <2> QED BY <2>1, <1>4, FS_Subset, FS_CardinalityType
  <1> QED BY <1>1, <1>4, <1>5 DEF Case

(* One unit gets another outcome: what that means for a count.             *)
LEMMA Recount ==
    ASSUME plan \in Plans, plan' = plan, NEW u \in Planned, NEW s, NEW S,
           outcome \in [Unit -> State], outcome' = [outcome EXCEPT ![u] = s],
           outcome[u] \notin S
    PROVE  /\ s \in S => Cardinality(UnitsIn(S)') = Cardinality(UnitsIn(S)) + 1
           /\ s \notin S => Cardinality(UnitsIn(S)') = Cardinality(UnitsIn(S))
  <1>1. Planned' = Planned /\ Planned \subseteq Unit
    BY PlanShape DEF Planned
  <1>2. PICK before : before = UnitsIn(S)
    OBVIOUS
  <1>3. PICK after : after = UnitsIn(S)'
    OBVIOUS
  <1>4. IsFiniteSet(before)
    BY <1>2, PlannedIsFinite
  <1>5. ASSUME s \in S PROVE Cardinality(after) = Cardinality(before) + 1
    <2>1. after = before \cup {u} /\ u \notin before
      BY <1>1, <1>2, <1>3, <1>5 DEF UnitsIn
    <2> QED BY <2>1, <1>4, FS_AddElement
  <1>6. ASSUME s \notin S PROVE after = before
    BY <1>1, <1>2, <1>3, <1>6 DEF UnitsIn
  <1> QED BY <1>2, <1>3, <1>5, <1>6

(* The counters that the journal stands for, when one unit moves on.       *)
LEMMA TallyShape ==
    ASSUME plan \in Plans
    PROVE  /\ TallyOfJournal \in [completed : Nat, skipped : Nat, failed : Nat,
                                  running : {0}, calls : Nat]
           /\ TallyOfJournal.completed = Cardinality(UnitsIn({"completed"}))
           /\ TallyOfJournal.skipped
                 = Cardinality(UnitsIn({"skipped", "inapplicable", "rejected"}))
           /\ TallyOfJournal.failed
                 = Cardinality(UnitsIn({"errored", "inconclusive", "quarantined"}))
           /\ TallyOfJournal.running = 0
           /\ TallyOfJournal.calls
                 = Cardinality(UnitsIn({"completed", "inconclusive", "quarantined"}))
  BY PlannedIsFinite DEF TallyOfJournal, Attempted

LEMMA TallyMoves ==
    ASSUME TypeOK, plan' = plan, NEW u \in Planned, NEW s,
           outcome' = [outcome EXCEPT ![u] = s],
           outcome[u] \in {"planned", "running"}
    PROVE  /\ s = "running" => TallyOfJournal' = TallyOfJournal
           /\ s \in {"skipped", "inapplicable", "rejected"} =>
                TallyOfJournal' = [TallyOfJournal EXCEPT !.skipped = @ + 1]
           /\ s = "errored" =>
                TallyOfJournal' = [TallyOfJournal EXCEPT !.failed = @ + 1]
           /\ s = "completed" =>
                TallyOfJournal' = [TallyOfJournal EXCEPT !.completed = @ + 1, !.calls = @ + 1]
           /\ s \in {"inconclusive", "quarantined"} =>
                TallyOfJournal' = [TallyOfJournal EXCEPT !.failed = @ + 1, !.calls = @ + 1]
  <1>0. plan \in Plans /\ plan' \in Plans /\ outcome \in [Unit -> State]
    BY DEF TypeOK
  <1>1. PICK t : t = TallyOfJournal
    OBVIOUS
  <1>2. PICK n : n = TallyOfJournal'
    OBVIOUS
  <1>3. /\ n \in [completed : Nat, skipped : Nat, failed : Nat, running : {0}, calls : Nat]
        /\ t \in [completed : Nat, skipped : Nat, failed : Nat, running : {0}, calls : Nat]
    <2>1. t \in [completed : Nat, skipped : Nat, failed : Nat, running : {0}, calls : Nat]
      BY <1>0, <1>1, TallyShape
    <2>2. IsFiniteSet(Planned) /\ \A S : IsFiniteSet(UnitsIn(S)') /\ Cardinality(UnitsIn(S)') \in Nat
      <3>1. Planned' = Planned /\ IsFiniteSet(Planned)
        BY <1>0, PlannedIsFinite DEF Planned
      <3>2. ASSUME NEW S PROVE IsFiniteSet(UnitsIn(S)') /\ Cardinality(UnitsIn(S)') \in Nat
        <4>1. UnitsIn(S)' \in SUBSET Planned
          BY <3>1 DEF UnitsIn
        <4> QED BY <4>1, <3>1, FS_Subset, FS_CardinalityType
      <3> QED BY <3>1, <3>2
    <2> QED BY <2>1, <2>2, <1>2 DEF TallyOfJournal, Attempted
  <1>4. /\ n.completed = Cardinality(UnitsIn({"completed"})')
        /\ n.skipped = Cardinality(UnitsIn({"skipped", "inapplicable", "rejected"})')
        /\ n.failed = Cardinality(UnitsIn({"errored", "inconclusive", "quarantined"})')
        /\ n.calls = Cardinality(UnitsIn({"completed", "inconclusive", "quarantined"})')
    BY <1>2 DEF TallyOfJournal, Attempted
  <1>5. /\ t.completed = Cardinality(UnitsIn({"completed"}))
        /\ t.skipped = Cardinality(UnitsIn({"skipped", "inapplicable", "rejected"}))
        /\ t.failed = Cardinality(UnitsIn({"errored", "inconclusive", "quarantined"}))
        /\ t.calls = Cardinality(UnitsIn({"completed", "inconclusive", "quarantined"}))
    BY <1>1, <1>0, TallyShape
  <1> DEFINE move(S) == IF s \in S THEN 1 ELSE 0
  <1>6. /\ n.completed = t.completed + move({"completed"})
        /\ n.skipped = t.skipped + move({"skipped", "inapplicable", "rejected"})
        /\ n.failed = t.failed + move({"errored", "inconclusive", "quarantined"})
        /\ n.calls = t.calls + move({"completed", "inconclusive", "quarantined"})
    <2>1. ASSUME NEW S, "planned" \notin S, "running" \notin S
          PROVE  Cardinality(UnitsIn(S)') = Cardinality(UnitsIn(S)) + move(S)
      <3>1. outcome[u] \notin S
        BY <2>1
      <3>2. Cardinality(UnitsIn(S)) \in Nat
        BY <1>0, PlannedIsFinite
      <3>3. /\ s \in S => Cardinality(UnitsIn(S)') = Cardinality(UnitsIn(S)) + 1
            /\ s \notin S => Cardinality(UnitsIn(S)') = Cardinality(UnitsIn(S))
        BY <1>0, <3>1, Recount
      <3> QED BY <3>2, <3>3
    <2> HIDE DEF move
    <2>2. Cardinality(UnitsIn({"completed"})')
             = Cardinality(UnitsIn({"completed"})) + move({"completed"})
      BY <2>1
    <2>3. Cardinality(UnitsIn({"skipped", "inapplicable", "rejected"})')
             = Cardinality(UnitsIn({"skipped", "inapplicable", "rejected"}))
               + move({"skipped", "inapplicable", "rejected"})
      BY <2>1
    <2>4. Cardinality(UnitsIn({"errored", "inconclusive", "quarantined"})')
             = Cardinality(UnitsIn({"errored", "inconclusive", "quarantined"}))
               + move({"errored", "inconclusive", "quarantined"})
      BY <2>1
    <2>5. Cardinality(UnitsIn({"completed", "inconclusive", "quarantined"})')
             = Cardinality(UnitsIn({"completed", "inconclusive", "quarantined"}))
               + move({"completed", "inconclusive", "quarantined"})
      BY <2>1
    <2> QED BY <2>2, <2>3, <2>4, <2>5, <1>4, <1>5
  <1>7. /\ s = "running" => n = t
        /\ s \in {"skipped", "inapplicable", "rejected"} => n = [t EXCEPT !.skipped = @ + 1]
        /\ s = "errored" => n = [t EXCEPT !.failed = @ + 1]
        /\ s = "completed" => n = [t EXCEPT !.completed = @ + 1, !.calls = @ + 1]
        /\ s \in {"inconclusive", "quarantined"} =>
             n = [t EXCEPT !.failed = @ + 1, !.calls = @ + 1]
    <2>1. ASSUME s = "running" PROVE n = t
      BY <1>3, <1>6, <2>1
    <2>2. ASSUME s \in {"skipped", "inapplicable", "rejected"}
          PROVE  n = [t EXCEPT !.skipped = @ + 1]
      BY <1>3, <1>6, <2>2
    <2>3. ASSUME s = "errored" PROVE n = [t EXCEPT !.failed = @ + 1]
      BY <1>3, <1>6, <2>3
    <2>4. ASSUME s = "completed" PROVE n = [t EXCEPT !.completed = @ + 1, !.calls = @ + 1]
      <3>1. /\ n.completed = t.completed + 1 /\ n.skipped = t.skipped
            /\ n.failed = t.failed /\ n.calls = t.calls + 1
        BY <1>3, <1>6, <2>4
      <3> QED BY <3>1, <1>3
    <2>5. ASSUME s \in {"inconclusive", "quarantined"}
          PROVE  n = [t EXCEPT !.failed = @ + 1, !.calls = @ + 1]
      <3>1. /\ n.completed = t.completed /\ n.skipped = t.skipped
            /\ n.failed = t.failed + 1 /\ n.calls = t.calls + 1
        BY <1>3, <1>6, <2>5
      <3> QED BY <3>1, <1>3
    <2> QED BY <2>1, <2>2, <2>3, <2>4, <2>5
  <1> QED BY <1>7, <1>1, <1>2
-----------------------------------------------------------------------------
(* The calls that may still be made are no more than the plan announces.   *)
LEMMA CallableIsFinite ==
    ASSUME TypeOK
    PROVE  IsFiniteSet(Callable) /\ Cardinality(Callable) \in Nat
  <1>1. Callable \in SUBSET Planned /\ IsFiniteSet(Planned)
    BY PlannedIsFinite DEF Callable, TypeOK
  <1> QED BY <1>1, FS_Subset, FS_CardinalityType

LEMMA CallsArePlanned ==
    ASSUME TypeOK
    PROVE  Cardinality(Callable) <= PlannedCalls /\ PlannedCalls \in Nat
  <1> DEFINE planned(c, o) == o = 0 \/ OperatorStatus(c, o) # "ineligible"
  <1> DEFINE texts == {t \in Remaining \X (0 .. Operators) : planned(t[1], t[2])}
  <1> DEFINE reps == 1 .. plan.repetitions
  <1>1. plan.repetitions \in Nat \ {0} /\ Operators \in Nat /\ IsFiniteSet(Case)
    BY PlanShape, PlannedIsFinite DEF TypeOK
  <1>2. IsFiniteSet(Remaining) /\ IsFiniteSet(0 .. Operators)
    <2>1. Remaining \in SUBSET Case
      BY DEF Remaining
    <2>2. IsFiniteSet(Remaining)
      BY <2>1, <1>1, FS_Subset
    <2>3. IsFiniteSet(0 .. Operators)
      BY <1>1, FS_Interval
    <2> QED BY <2>2, <2>3
  <1>3. IsFiniteSet(texts)
    <2>1. IsFiniteSet(Remaining \X (0 .. Operators))
      BY <1>2, FS_Product
    <2>2. texts \in SUBSET (Remaining \X (0 .. Operators))
      OBVIOUS
    <2> HIDE DEF texts
    <2> QED BY <2>1, <2>2, FS_Subset
  <1>4. IsFiniteSet(reps) /\ Cardinality(reps) = plan.repetitions
    BY <1>1, FS_Interval
  <1>5. IsFiniteSet(texts \X reps) /\ Cardinality(texts \X reps) = Cardinality(texts) * plan.repetitions
    <2> HIDE DEF texts, reps
    <2> QED BY <1>3, <1>4, FS_Product
  <1> DEFINE f == [u \in Callable |-> <<<<u.case, u.op>>, u.rep>>]
  <1>6. f \in Injection(Callable, texts \X reps)
    <2>1. ASSUME NEW u \in Callable PROVE <<<<u.case, u.op>>, u.rep>> \in texts \X reps
      <3>1. /\ u.case \in Remaining /\ u.op \in 0 .. Operators /\ u.rep \in reps
            /\ planned(u.case, u.op)
        BY DEF Callable, Planned, UnitOfPlan
      <3>2. <<u.case, u.op>> \in texts
        <4> HIDE DEF planned
        <4> QED BY <3>1
      <3> HIDE DEF texts, reps
      <3> QED BY <3>1, <3>2
    <2>2. f \in [Callable -> texts \X reps]
      <3> HIDE DEF texts, reps
      <3> QED BY <2>1
    <2>3. ASSUME NEW u \in Callable, NEW v \in Callable, f[u] = f[v] PROVE u = v
      <3>1. u.case = v.case /\ u.op = v.op /\ u.rep = v.rep
        BY <2>3
      <3>2. u \in Planned /\ v \in Planned
        BY DEF Callable
      <3> QED BY <3>1, <3>2 DEF Planned, UnitOfPlan
    <2> HIDE DEF f
    <2> QED BY <2>2, <2>3 DEF Injection, IsInjective
  <1>7. Cardinality(Callable) <= Cardinality(texts \X reps)
    <2> HIDE DEF f, texts, reps
    <2> QED BY <1>5, <1>6, FS_Injection
  <1>8. PlannedCalls = plan.repetitions * Cardinality(texts)
    BY DEF PlannedCalls
  <1>9. Cardinality(texts) \in Nat
    BY <1>3, FS_CardinalityType
  <1> HIDE DEF texts, reps
  <1> QED BY <1>1, <1>5, <1>7, <1>8, <1>9

(* Fewer calls may be made.                                                *)
LEMMA FewerCalls ==
    ASSUME TypeOK, Callable' \subseteq Callable
    PROVE  /\ Cardinality(Callable') <= Cardinality(Callable)
           /\ Cardinality(Callable') \in Nat /\ Cardinality(Callable) \in Nat
  <1>1. PICK a : a = Callable
    OBVIOUS
  <1>2. PICK b : b = Callable'
    OBVIOUS
  <1>3. IsFiniteSet(a) /\ b \in SUBSET a
    BY <1>1, <1>2, CallableIsFinite
  <1>4. Cardinality(b) <= Cardinality(a) /\ Cardinality(b) \in Nat /\ Cardinality(a) \in Nat
    BY <1>3, FS_Subset, FS_CardinalityType
  <1> QED BY <1>1, <1>2, <1>4

(* The case that is taken up is one of those that are left.                *)
LEMMA LeastIsChosen ==
    ASSUME NEW D, D \subseteq Nat, D # {}
    PROVE  (CHOOSE c \in D : \A d \in D : c <= d) \in D
  BY LeastNumber

(* A line more of evidence.                                                *)
LEMMA EvidenceGrows ==
    ASSUME NEW line, NEW L, line \in L, evidence \in Seq(L), evidence' = Append(evidence, line)
    PROVE  /\ evidence' \in Seq(L)
           /\ DOMAIN evidence = 1 .. Len(evidence) /\ Len(evidence) \in Nat
           /\ DOMAIN evidence' = DOMAIN evidence \cup {Len(evidence) + 1}
           /\ \A i \in DOMAIN evidence : evidence'[i] = evidence[i]
           /\ evidence'[Len(evidence) + 1] = line
           /\ Len(evidence) + 1 \notin DOMAIN evidence
           /\ Processed' = Processed \cup {line.case}
           /\ Failed' = Failed \cup (IF line.kind = "failure" THEN {line.case} ELSE {})
  <1>1. /\ evidence' \in Seq(L)
        /\ DOMAIN evidence = 1 .. Len(evidence) /\ Len(evidence) \in Nat
        /\ DOMAIN evidence' = DOMAIN evidence \cup {Len(evidence) + 1}
        /\ \A i \in DOMAIN evidence : evidence'[i] = evidence[i]
        /\ evidence'[Len(evidence) + 1] = line
        /\ Len(evidence) + 1 \notin DOMAIN evidence
    OBVIOUS
  <1>2. Processed' = Processed \cup {line.case}
    BY <1>1 DEF Processed
  <1>3. Failed' = Failed \cup (IF line.kind = "failure" THEN {line.case} ELSE {})
    BY <1>1 DEF Failed
  <1> QED BY <1>1, <1>2, <1>3

LEMMA LinesOfEvidence ==
    ASSUME TypeOK
    PROVE  Processed \subseteq Case /\ Failed \subseteq Processed /\ Remaining = Case \ Processed
  <1>1. ASSUME NEW i \in DOMAIN evidence PROVE evidence[i].case \in Case
    <2>1. PICK L : L = [case : Case, kind : {"result", "failure"}, draw : Draw \cup {NoDraw}]
      OBVIOUS
    <2>2. evidence \in Seq(L)
      BY <2>1 DEF TypeOK
    <2>3. evidence[i] \in L
      BY <2>2
    <2> QED BY <2>1, <2>3
  <1> QED BY <1>1 DEF Processed, Failed, Remaining

(* What depends on the files only.                                         *)
LEMMA Frame ==
    ASSUME UNCHANGED <<plan, outcome, evidence, ledger>>
    PROVE  /\ Case' = Case /\ Planned' = Planned /\ Places' = Places
           /\ Processed' = Processed /\ Failed' = Failed /\ Remaining' = Remaining
           /\ TallyOfJournal' = TallyOfJournal /\ TallyOfStarted' = TallyOfStarted
           /\ Callable' = Callable
           /\ \A S : UnitsIn(S)' = UnitsIn(S)
  BY DEF Case, Planned, Places, Processed, Failed, Remaining, TallyOfJournal, TallyOfStarted,
         Callable, UnitsIn, Attempted, OperatorStatus
-----------------------------------------------------------------------------
(* What is stored stays sound when the files and the history do not change.*)
Kept == UNCHANGED <<plan, retains, outcome, evidence, ledger, attested, contacted, ranWith, suspect>>

LEMMA StoredKept ==
    ASSUME Stored, Kept, created' < 3 => created < 3
    PROVE  Stored'
  <1>1. /\ Case' = Case /\ Planned' = Planned /\ Failed' = Failed
        /\ \A S : UnitsIn(S)' = UnitsIn(S)
    BY Frame DEF Kept
  <1>2. Pristine => Pristine'
    BY <1>1 DEF Kept, Pristine, Untouched, UnitsOf
  <1>3. OutcomesOK'
    BY <1>1 DEF Stored, Kept, OutcomesOK
  <1>4. CallsOK'
    BY <1>1 DEF Stored, Kept, CallsOK, Original
  <1>5. EvidenceOK'
    BY <1>1 DEF Stored, Kept, EvidenceOK, UnitsOf
  <1>6. LedgerOK'
    BY <1>1 DEF Stored, Kept, LedgerOK, Untouched, SameDraw, UnitsOf
  <1>7. DoubtOK'
    BY <1>1 DEF Stored, Kept, DoubtOK
  <1> QED BY <1>2, <1>3, <1>4, <1>5, <1>6, <1>7 DEF Stored

(* Outcomes change, in a way that keeps what was settled: then the calls   *)
(* and the evidence stay sound.                                            *)
LEMMA SettledKept ==
    ASSUME TypeOK, Stored, created = 3,
           UNCHANGED <<plan, retains, created, evidence, ledger, attested, contacted, ranWith,
                       suspect>>,
           outcome' \in [Unit -> State],
           \A u \in Planned :
               /\ outcome[u] \in Settled => outcome'[u] = outcome[u]
               /\ u \in contacted => outcome'[u] \in {"running", "completed", "inconclusive",
                                                      "quarantined"}
               /\ outcome'[u] = "errored" => u.case \in Failed
               /\ outcome'[u] \in {"rejected", "inapplicable"} => u.op # 0
    PROVE  (created < 3 => Pristine)' /\ OutcomesOK' /\ CallsOK' /\ EvidenceOK'
  <1>1. /\ Case' = Case /\ Planned' = Planned /\ Failed' = Failed
    BY DEF Case, Planned, Failed
  <1>2. (created < 3 => Pristine)'
    OBVIOUS
  <1>3. OutcomesOK'
    BY <1>1 DEF OutcomesOK
  <1>4. CallsOK'
    <2>1. \A u \in contacted : Original(u) \in Planned
      BY OriginalIsPlanned DEF Stored, CallsOK
    <2> QED BY <1>1, <2>1 DEF Stored, CallsOK, Settled
  <1>5. EvidenceOK'
    <2>1. \A c : UnitsOf(c) \subseteq Planned
      BY DEF UnitsOf
    <2>2. \A c : UnitsOf(c)' = UnitsOf(c)
      BY <1>1 DEF UnitsOf
    <2> QED BY <2>1, <2>2 DEF Stored, EvidenceOK
  <1> QED BY <1>2, <1>3, <1>4, <1>5
-----------------------------------------------------------------------------
(* The invocation ends.                                                    *)
Ending == {"none", "completed", "planned", "stopped", "failed", "refused", "cancelled",
           "asserted", "killed"}

(* The parts of the type invariant.                                        *)
FilesTyped ==
    /\ plan \in Plans /\ retains \in BOOLEAN /\ created \in 0 .. 3 /\ receipt \in BOOLEAN
    /\ outcome \in [Unit -> State]
    /\ ledger \in [Case -> Draw \cup {NoDraw}]
    /\ evidence \in Seq([case : Case, kind : {"result", "failure"},
                         draw : Draw \cup {NoDraw}])
    /\ torn \subseteq {"evidence", "ledger"}
    /\ attested \subseteq Unit

WorkTyped ==
    /\ pc \in Label
    /\ asked \in [differs : SUBSET Aspect, dry : BOOLEAN] /\ allowance \in Int
    /\ case \in Case /\ place \in Nat \ {0}
    /\ draw \in Draw \cup {NoDraw}
    /\ result \in {"none", "completed", "inconclusive", "quarantined", "skipped"}
    /\ request \in {"none", "pause", "cancel"}
    /\ inFlight \in BOOLEAN /\ cancelling \in BOOLEAN /\ uncertain \in BOOLEAN
    /\ tally \in [{"completed", "skipped", "failed", "running", "calls"} -> Nat]

HistoryTyped ==
    /\ invocations \in 0 .. plan.invocations /\ interrupts \in 0 .. plan.interrupts
    /\ contacted \subseteq Unit /\ suspect \subseteq {"unfinished", "timeout"}
    /\ ranWith \in [Unit -> Draw \cup {NoDraw}]
    /\ lateStarts \in Nat /\ notices \in Nat
    /\ ending \in Ending

LEMMA TypeParts == TypeOK <=> FilesTyped /\ WorkTyped /\ HistoryTyped
  BY DEF TypeOK, FilesTyped, WorkTyped, HistoryTyped, Ending

LEMMA LeavingIsNoWork ==
    ASSUME NEW how, Leave(how)
    PROVE  PhasesOK' /\ DrawOK' /\ TrialsOK' /\ TallyOK' /\ AllowanceOK'
  <1>1. PhasesOK'
    BY DEF Leave, PhasesOK, Loop
  <1>2. DrawOK'
    BY DEF Leave, DrawOK, Loop, AtTrial
  <1>3. TrialsOK'
    BY DEF Leave, TrialsOK, Loop, AtTrial, Sending
  <1>4. TallyOK' /\ AllowanceOK'
    BY DEF Leave, TallyOK, AllowanceOK, Loop
  <1> QED BY <1>1, <1>2, <1>3, <1>4

LEMMA LeavingInTime ==
    ASSUME StopOK, NEW how, Leave(how), lateStarts' = lateStarts,
           how # "stopped" /\ how # "completed"
    PROVE  StopOK'
  BY DEF Leave, StopOK

LEMMA LeavingIsTyped ==
    ASSUME TypeOK, NEW how \in Ending, Leave(how),
           UNCHANGED <<plan, retains, created, ledger, evidence, contacted, ranWith,
                       invocations, interrupts, lateStarts>>,
           outcome' \in [Unit -> State], receipt' \in BOOLEAN, torn' \subseteq {"evidence", "ledger"},
           attested' \subseteq Unit, suspect' \subseteq {"unfinished", "timeout"}, notices' \in Nat
    PROVE  TypeOK'
  <1>1. Case' = Case /\ 1 \in Case
    BY PlanShape DEF Case, TypeOK
  <1>2. NoWork \in [{"completed", "skipped", "failed", "running", "calls"} -> Nat]
    BY DEF NoWork
  <1>3. AsRecorded \in [differs : SUBSET Aspect, dry : BOOLEAN]
    BY DEF AsRecorded
  <1>4. FilesTyped'
    BY <1>1 DEF TypeOK, FilesTyped
  <1>5. WorkTyped'
    <2>1. (pc \in Label /\ allowance \in Int /\ case \in Case /\ place \in Nat \ {0})'
      BY <1>1 DEF Leave, Label
    <2>2. (inFlight \in BOOLEAN /\ cancelling \in BOOLEAN /\ uncertain \in BOOLEAN)'
      BY DEF Leave
    <2>3. (/\ asked \in [differs : SUBSET Aspect, dry : BOOLEAN]
           /\ tally \in [{"completed", "skipped", "failed", "running", "calls"} -> Nat])'
      BY <1>2, <1>3 DEF Leave
    <2>4. (/\ draw \in Draw \cup {NoDraw}
           /\ result \in {"none", "completed", "inconclusive", "quarantined", "skipped"}
           /\ request \in {"none", "pause", "cancel"})'
      BY DEF Leave
    <2> QED BY <2>1, <2>2, <2>3, <2>4 DEF WorkTyped
  <1>6. HistoryTyped'
    BY DEF Leave, TypeOK, HistoryTyped, Ending
  <1> QED BY <1>4, <1>5, <1>6 DEF TypeOK, FilesTyped, WorkTyped, HistoryTyped, Ending

(* A step that only ends the invocation.                                   *)
LEMMA LeavingOnly ==
    ASSUME IInv, NEW how \in Ending, Leave(how), UNCHANGED <<files, record>>,
           how # "stopped" /\ how # "completed", notices' \in Nat
    PROVE  IInv'
  <1>1. TypeOK'
    BY LeavingIsTyped DEF IInv, files, record, TypeOK
  <1>2. Stored'
    BY StoredKept DEF IInv, files, record, Kept
  <1>3. StopOK'
    BY LeavingInTime DEF IInv, AtWork, record
  <1> QED BY <1>1, <1>2, <1>3, LeavingIsNoWork DEF IInv, AtWork

LEMMA RefuseEvidenceKeeps ==
    ASSUME IInv, RefuseEvidence
    PROVE  IInv'
  BY LeavingOnly DEF RefuseEvidence, Ending, IInv, TypeOK

LEMMA RefuseManifestKeeps ==
    ASSUME IInv, RefuseManifest
    PROVE  IInv'
  BY LeavingOnly DEF RefuseManifest, Ending, IInv, TypeOK

LEMMA NotAuthorisedKeeps ==
    ASSUME IInv, NotAuthorised
    PROVE  IInv'
  BY LeavingOnly DEF NotAuthorised, Ending, IInv, TypeOK

LEMMA PreflightFailsKeeps ==
    ASSUME IInv, PreflightFails
    PROVE  IInv'
  <1>1. notices' \in Nat
    BY DEF PreflightFails, IInv, TypeOK
  <1> QED BY <1>1, LeavingOnly DEF PreflightFails, Ending

LEMMA CancelLateKeeps ==
    ASSUME IInv, CancelLate
    PROVE  IInv'
  <1>1. PICK how \in {"cancelled", "asserted"} : Leave(how)
    BY DEF CancelLate
  <1> QED BY <1>1, LeavingOnly DEF CancelLate, Ending, IInv, TypeOK
-----------------------------------------------------------------------------
(* Steps that leave a part of the state alone keep its type.               *)
LEMMA FilesKept ==
    ASSUME FilesTyped, UNCHANGED files
    PROVE  FilesTyped'
  <1>1. Case' = Case
    BY DEF files, Case
  <1> QED BY <1>1 DEF FilesTyped, files

LEMMA HistoryKept ==
    ASSUME HistoryTyped, UNCHANGED <<plan, history>>
    PROVE  HistoryTyped'
  BY DEF HistoryTyped, history

(* What is pristine has nothing running and nothing processed.             *)
LEMMA PristineFacts ==
    ASSUME TypeOK, Pristine
    PROVE  /\ \A u \in Planned : outcome[u] = "planned" /\ u.case \in Case
           /\ Processed = {} /\ Failed = {} /\ Remaining = Case /\ Remaining # {}
           /\ \A S : "planned" \notin S => UnitsIn(S) = {}
  <1>1. ASSUME NEW u \in Planned PROVE outcome[u] = "planned" /\ u.case \in Case
    <2>1. u.case \in Case /\ u \in UnitsOf(u.case)
      BY DEF Planned, UnitOfPlan, Case, UnitsOf
    <2> QED BY <2>1 DEF Pristine, Untouched
  <1>2. Processed = {} /\ Failed = {}
    BY DEF Pristine, Processed, Failed
  <1>3. Remaining = Case /\ Remaining # {}
    BY <1>2, PlanShape DEF Remaining, TypeOK
  <1> QED BY <1>1, <1>2, <1>3 DEF UnitsIn

LEMMA StartFreshKeeps ==
    ASSUME IInv, StartFresh
    PROVE  IInv'
  <1> USE DEF StartFresh, trial, control
  <1>0. TypeOK /\ Pristine /\ pc = "down" /\ pc' = "creating" /\ created' = 1
    BY DEF IInv, TypeOK, Stored
  <1>1. TypeOK'
    <2>1. FilesTyped' /\ WorkTyped'
      <3>1. Case' = Case
        BY DEF Case
      <3> QED BY <3>1, <1>0, TypeParts DEF FilesTyped, WorkTyped, Label
    <2>2. HistoryTyped'
      <3>1. invocations + 1 <= plan.invocations /\ invocations \in Nat /\ plan.invocations \in Nat
        BY <1>0, PlanShape DEF TypeOK
      <3> QED BY <3>1, <1>0, TypeParts DEF HistoryTyped, Ending
    <2> QED BY <2>1, <2>2 DEF TypeOK, FilesTyped, WorkTyped, HistoryTyped, Ending
  <1>2. Stored'
    <2>1. Kept
      BY DEF Kept
    <2>2. created < 3
      BY <1>0 DEF TypeOK
    <2> QED BY <2>1, <2>2, StoredKept DEF IInv
  <1>3. Pristine' /\ created' = 1
    BY <1>2, <1>0 DEF Stored
  <1>4. PhasesOK'
    <2>1. (\A u \in Planned : u.case \in Failed => FALSE)'
      BY <1>1, <1>3 DEF Pristine, Failed
    <2>2. invocations' >= 1
      BY <1>0 DEF TypeOK
    <2> QED BY <1>0, <1>3, <2>1, <2>2 DEF IInv, AtWork, PhasesOK, Loop
  <1>5. DrawOK'
    BY <1>0 DEF DrawOK, Loop, AtTrial
  <1>6. TrialsOK'
    <2>1. Planned' = Planned
      BY DEF Planned
    <2> QED BY <2>1, <1>0, PristineFacts DEF TrialsOK, Loop, AtTrial, Sending
  <1>7. StopOK'
    BY <1>0 DEF StopOK, StopRequested
  <1>8. TallyOK' /\ AllowanceOK'
    BY <1>0 DEF TallyOK, AllowanceOK, Loop, IInv, AtWork
  <1> QED BY <1>1, <1>2, <1>4, <1>5, <1>6, <1>7, <1>8 DEF IInv, AtWork

LEMMA CreateNextKeeps ==
    ASSUME IInv, CreateNext
    PROVE  IInv'
  <1> USE DEF CreateNext, trial, control
  <1>0. /\ TypeOK /\ Pristine /\ pc = "creating" /\ created \in {1, 2}
        /\ created' = created + 1 /\ pc' \in {"creating", "preflight"}
        /\ pc' = "creating" => allowance' = allowance
        /\ pc' = "preflight" => created' = 3 /\ allowance' = PlannedCalls
        /\ pc' = "creating" => created' # 3
    BY DEF IInv, AtWork, PhasesOK
  <1>a. Cardinality(Callable) <= PlannedCalls /\ PlannedCalls \in Int
    BY <1>0, CallsArePlanned
  <1>1. TypeOK'
    <2>1. FilesTyped'
      <3>1. Case' = Case
        BY DEF Case
      <3> QED BY <3>1, <1>0, TypeParts DEF FilesTyped
    <2>2. WorkTyped'
      <3>1. Case' = Case
        BY DEF Case
      <3> QED BY <3>1, <1>a, <1>0, TypeParts DEF WorkTyped, Label, Interruptible
    <2>3. HistoryTyped'
      BY <1>0, TypeParts, HistoryKept
    <2> QED BY <2>1, <2>2, <2>3 DEF TypeOK, FilesTyped, WorkTyped, HistoryTyped, Ending
  <1>2. Stored'
    <2>1. Kept /\ created < 3
      BY <1>0 DEF Kept, history
    <2> QED BY <2>1, StoredKept DEF IInv
  <1>b. /\ Case' = Case /\ Planned' = Planned /\ Failed' = Failed /\ Callable' = Callable
        /\ Pristine'
    <2>1. Pristine'
      BY <1>0 DEF Pristine, Case, Untouched, UnitsOf, Planned, history
    <2> QED BY <2>1, Frame
  <1>3. PhasesOK'
    <2>1. Failed = {}
      BY <1>0, PristineFacts
    <2>2. invocations' = invocations
      BY DEF history
    <2> QED BY <1>0, <1>b, <2>1, <2>2 DEF IInv, AtWork, PhasesOK, Loop
  <1>4. DrawOK'
    BY <1>0 DEF DrawOK, Loop, AtTrial
  <1>5. TrialsOK'
    BY <1>0, <1>b, PristineFacts DEF TrialsOK, Loop, AtTrial, Sending
  <1>6. StopOK'
    BY <1>0 DEF StopOK, StopRequested, IInv, AtWork, history
  <1>7. TallyOK'
    BY <1>0 DEF TallyOK
  <1>8. AllowanceOK'
    <2>1. pc' = "creating" => allowance' = 0
      BY <1>0 DEF IInv, AtWork, AllowanceOK, Loop
    <2>2. pc' = "preflight" => Cardinality(Callable') <= allowance'
      BY <1>0, <1>a, <1>b
    <2>3. Cardinality(Callable') + 0 = Cardinality(Callable')
      BY <1>0, <1>b, CallableIsFinite
    <2> QED BY <1>0, <2>1, <2>2, <2>3 DEF AllowanceOK, Loop
  <1> QED BY <1>1, <1>2, <1>3, <1>4, <1>5, <1>6, <1>7, <1>8 DEF IInv, AtWork

LEMMA UnitsHaveCases ==
    ASSUME NEW u \in Planned
    PROVE  u.case \in Case /\ u \in UnitsOf(u.case) /\ u.op \in 0 .. Operators
  BY DEF Planned, UnitOfPlan, Case, UnitsOf

LEMMA OpenForResumeKeeps ==
    ASSUME IInv, NEW r \in Request, OpenForResume(r)
    PROVE  IInv'
  <1> USE DEF OpenForResume, trial
  <1>0. TypeOK /\ Stored /\ pc = "down" /\ pc' = "opened" /\ created = 3
    BY DEF IInv, SidecarsAreComplete
  <1>a. Case' = Case /\ Planned' = Planned /\ Failed' = Failed /\ Planned \subseteq Unit
    BY <1>0, PlanShape DEF Case, Planned, Failed, TypeOK
  <1>b. /\ outcome' \in [Unit -> State]
        /\ \A u \in Unit :
              /\ outcome[u] # "running" => outcome'[u] = outcome[u]
              /\ outcome[u] = "running" => outcome'[u] = "quarantined"
    BY <1>0 DEF TypeOK, RecoveredState, State, Settled
  <1>1. TypeOK'
    <2>1. FilesTyped'
      BY <1>a, <1>b, <1>0, TypeParts DEF FilesTyped
    <2>2. WorkTyped'
      <3>1. asked' \in [differs : SUBSET Aspect, dry : BOOLEAN]
        BY DEF Normalised, Request
      <3>2. case' = case /\ place' = place /\ draw' = draw /\ result' = result
        OBVIOUS
      <3> QED BY <1>a, <1>0, <3>1, <3>2, TypeParts DEF WorkTyped, Label
    <2>3. HistoryTyped'
      <3>1. invocations + 1 <= plan.invocations /\ invocations \in Nat /\ plan.invocations \in Nat
        BY <1>0, PlanShape DEF TypeOK
      <3> QED BY <3>1, <1>0, TypeParts DEF HistoryTyped, Ending
    <2> QED BY <2>1, <2>2, <2>3 DEF TypeOK, FilesTyped, WorkTyped, HistoryTyped, Ending
  <1>2. Stored'
    <2>1. ((created < 3 => Pristine) /\ OutcomesOK /\ CallsOK /\ EvidenceOK)'
      <3>1. \A u \in Planned :
               /\ outcome[u] \in Settled => outcome'[u] = outcome[u]
               /\ u \in contacted => outcome'[u] \in {"running", "completed", "inconclusive",
                                                      "quarantined"}
               /\ outcome'[u] = "errored" => u.case \in Failed
               /\ outcome'[u] \in {"rejected", "inapplicable"} => u.op # 0
        BY <1>0, <1>a, <1>b DEF Stored, OutcomesOK, CallsOK, Settled
      <3> QED BY <1>0, <1>b, <3>1, SettledKept
    <2>2. LedgerOK'
      BY <1>0, <1>a, <1>b DEF Stored, LedgerOK, Untouched, SameDraw, UnitsOf
    <2>3. DoubtOK'
      BY <1>0, <1>a, <1>b DEF Stored, DoubtOK, UnitsIn
    <2> QED BY <2>1, <2>2, <2>3 DEF Stored
  <1>3. PhasesOK'
    BY <1>0 DEF IInv, AtWork, PhasesOK, Loop, TypeOK
  <1>4. DrawOK'
    BY <1>0 DEF DrawOK, Loop, AtTrial
  <1>5. TrialsOK'
    BY <1>0, <1>a, <1>b DEF TrialsOK, Loop, AtTrial, Sending
  <1>6. StopOK'
    BY <1>0 DEF StopOK, StopRequested
  <1>7. TallyOK' /\ AllowanceOK'
    BY <1>0 DEF TallyOK, AllowanceOK, Loop, IInv, AtWork
  <1> QED BY <1>1, <1>2, <1>3, <1>4, <1>5, <1>6, <1>7 DEF IInv, AtWork

LEMMA ReconcileKeeps ==
    ASSUME IInv, Reconcile
    PROVE  IInv'
  <1> USE DEF Reconcile
  <1>0. TypeOK /\ Stored /\ pc = "opened" /\ created = 3
    BY DEF IInv, AtWork, PhasesOK
  <1>a. /\ Case' = Case /\ Planned' = Planned /\ Failed' = Failed /\ Planned \subseteq Unit
        /\ Processed' = Processed /\ Remaining' = Remaining
    BY <1>0, PlanShape DEF Case, Planned, Failed, Processed, Remaining, TypeOK
  <1>b. /\ outcome' \in [Unit -> State]
        /\ \A u \in Unit : outcome[u] # "planned" => outcome'[u] = outcome[u]
        /\ \A u \in Planned :
              /\ u.case \notin Failed => outcome'[u] = outcome[u]
              /\ outcome[u] = "planned" /\ u.case \in Failed => outcome'[u] = "errored"
    <2>1. outcome' = [u \in Unit |-> ReconciledOutcome(u)]
      OBVIOUS
    <2>2. ASSUME NEW u \in Unit
          PROVE  /\ ReconciledOutcome(u) \in State
                 /\ outcome[u] # "planned" => ReconciledOutcome(u) = outcome[u]
                 /\ u \in Planned /\ u.case \notin Failed => ReconciledOutcome(u) = outcome[u]
                 /\ u \in Planned /\ outcome[u] = "planned" /\ u.case \in Failed =>
                       ReconciledOutcome(u) = "errored"
      BY <1>0 DEF ReconciledOutcome, State, Settled, TypeOK
    <2> QED BY <2>1, <2>2, <1>a
  <1>2. Stored'
    <2>1. ((created < 3 => Pristine) /\ OutcomesOK /\ CallsOK /\ EvidenceOK)'
      <3>1. \A u \in Planned :
               /\ outcome[u] \in Settled => outcome'[u] = outcome[u]
               /\ u \in contacted => outcome'[u] \in {"running", "completed", "inconclusive",
                                                      "quarantined"}
               /\ outcome'[u] = "errored" => u.case \in Failed
               /\ outcome'[u] \in {"rejected", "inapplicable"} => u.op # 0
        BY <1>0, <1>a, <1>b DEF Stored, OutcomesOK, CallsOK, Settled
      <3> QED BY <1>0, <1>b, <3>1, SettledKept DEF record
    <2>2. LedgerOK'
      BY <1>0, <1>a, <1>b DEF Stored, LedgerOK, Untouched, SameDraw, UnitsOf, record
    <2>3. DoubtOK'
      BY <1>0, <1>a, <1>b DEF Stored, DoubtOK, UnitsIn, record
    <2> QED BY <2>1, <2>2, <2>3 DEF Stored
  <1>3. CASE Leave("refused")
    <2>1. TypeOK'
      BY <1>0, <1>b, <1>3, LeavingIsTyped DEF TypeOK, Ending, record
    <2>2. StopOK'
      BY <1>3, LeavingInTime DEF IInv, AtWork, record
    <2> QED BY <1>2, <1>3, <2>1, <2>2, LeavingIsNoWork DEF IInv, AtWork
  <1>4. CASE pc' = "reconciled" /\ UNCHANGED <<trial, control, tally, ending>>
    <2> USE DEF trial, control, record
    <2>1. TypeOK'
      <3>1. FilesTyped'
        BY <1>a, <1>b, <1>0, TypeParts DEF FilesTyped
      <3>2. WorkTyped'
        BY <1>a, <1>4, <1>0, TypeParts DEF WorkTyped, Label
      <3>3. HistoryTyped'
        BY <1>4, <1>0, TypeParts, HistoryKept DEF history
      <3> QED BY <3>1, <3>2, <3>3 DEF TypeOK, FilesTyped, WorkTyped, HistoryTyped, Ending
    <2>2. PhasesOK'
      <3>1. \A u \in Planned : u.case \in Failed => outcome'[u] # "planned"
        BY <1>a, <1>b
      <3> QED BY <1>0, <1>4, <1>a, <3>1 DEF IInv, AtWork, PhasesOK, Loop
    <2>3. DrawOK'
      BY <1>4 DEF DrawOK, Loop, AtTrial
    <2>4. TrialsOK'
      <3>1. \A u \in Planned : outcome'[u] # "running"
        <4>1. \A u \in Planned : outcome[u] # "running"
          BY <1>0 DEF IInv, AtWork, TrialsOK, AtTrial
        <4> QED BY <4>1, <1>a, <1>b
      <3> QED BY <3>1, <1>4, <1>a DEF TrialsOK, Loop, AtTrial, Sending
    <2>5. StopOK'
      BY <1>0, <1>4 DEF StopOK, StopRequested, IInv, AtWork
    <2>6. TallyOK' /\ AllowanceOK'
      BY <1>0, <1>4 DEF TallyOK, AllowanceOK, Loop, IInv, AtWork
    <2> QED BY <1>2, <2>1, <2>2, <2>3, <2>4, <2>5, <2>6 DEF IInv, AtWork
  <1> QED BY <1>3, <1>4

(* A stop at a boundary between trials.                                    *)
LEMMA StoppingKeeps ==
    ASSUME IInv, pc \in {"preflight", "gate", "after"}, Leave("stopped"), notices' = notices + 1,
           UNCHANGED <<plan, retains, created, outcome, ledger, evidence, torn, attested, record>>,
           receipt' \in BOOLEAN
    PROVE  IInv'
  <1> USE DEF record
  <1>1. TypeOK'
    <2>1. notices' \in Nat
      BY DEF IInv, TypeOK
    <2> QED BY <2>1, LeavingIsTyped DEF IInv, TypeOK, Ending
  <1>2. Stored'
    BY StoredKept DEF IInv, Kept
  <1>3. StopOK'
    <2>1. \A u \in Planned : outcome[u] # "running"
      BY DEF IInv, AtWork, TrialsOK, AtTrial
    <2>2. UnitsIn({"running"})' = {}
      BY <2>1, Frame DEF UnitsIn
    <2> QED BY <2>2 DEF IInv, AtWork, StopOK, Leave, TypeOK
  <1> QED BY <1>1, <1>2, <1>3, LeavingIsNoWork DEF IInv, AtWork

(* When no trial is running, every trial of a case with evidence is        *)
(* settled.                                                                *)
LEMMA ProcessedIsSettled ==
    ASSUME IInv, pc \notin {"down", "opened", "settling"} \cup AtTrial
    PROVE  /\ \A u \in Planned : outcome[u] # "running"
           /\ \A u \in Planned : u.case \in Processed => outcome[u] \in Settled
  <1>1. \A u \in Planned : outcome[u] # "running"
    BY DEF IInv, AtWork, TrialsOK, AtTrial
  <1>2. ASSUME NEW u \in Planned, u.case \in Processed PROVE outcome[u] \in Settled
    <2>1. outcome[u] \in State
      BY PlanShape DEF IInv, TypeOK
    <2>2. PICK i \in DOMAIN evidence : u.case = evidence[i].case
      BY <1>2 DEF Processed
    <2>3. CASE evidence[i].kind = "result"
      BY <2>2, <2>3, UnitsHaveCases DEF IInv, Stored, EvidenceOK
    <2>4. CASE evidence[i].kind = "failure"
      <3>1. u.case \in Failed
        BY <2>2, <2>4 DEF Failed
      <3>2. outcome[u] # "planned"
        BY <3>1 DEF IInv, AtWork, PhasesOK
      <3> QED BY <2>1, <3>2, <1>1 DEF State
    <2>5. evidence[i].kind \in {"result", "failure"}
      <3>1. PICK L : L = [case : Case, kind : {"result", "failure"}, draw : Draw \cup {NoDraw}]
        OBVIOUS
      <3>2. evidence \in Seq(L)
        BY <3>1 DEF IInv, TypeOK
      <3>3. evidence[i] \in L
        BY <3>2
      <3> QED BY <3>1, <3>3
    <2> QED BY <2>3, <2>4, <2>5
  <1> QED BY <1>1, <1>2

LEMMA ResolveQuarantineKeeps ==
    ASSUME IInv, NEW flag \in BOOLEAN, ResolveQuarantine(flag)
    PROVE  IInv'
  <1> DEFINE quarantined == UnitsIn({"quarantined"})
  <1> DEFINE resolution == IF attested = {} /\ flag THEN quarantined ELSE attested
  <1> DEFINE resolved == IsResolved(quarantined, resolution, flag) /\ AugmentationsAreDurable
  <1>0. /\ TypeOK /\ Stored /\ pc = "reconciled" /\ created = 3
        /\ attested' = resolution
        /\ suspect' = IF attested' = attested THEN suspect ELSE {}
        /\ AsksForTheRecordedCampaign(asked)
        /\ UNCHANGED <<plan, retains, created, receipt, outcome, ledger, evidence, torn,
                       invocations, interrupts, contacted, ranWith, lateStarts, notices>>
        /\ resolved \/ Leave("refused")
        /\ resolved => GoOnWithResume
    BY DEF IInv, AtWork, PhasesOK, ResolveQuarantine
  <1>a. /\ Case' = Case /\ Planned' = Planned /\ Failed' = Failed /\ Planned \subseteq Unit
        /\ Remaining' = Remaining /\ Callable' = Callable /\ \A S : UnitsIn(S)' = UnitsIn(S)
    BY <1>0, Frame, PlanShape DEF TypeOK
  <1>b. \A u \in Planned : outcome[u] # "running"
    BY <1>0 DEF IInv, AtWork, TrialsOK, AtTrial
  <1>c. attested' \subseteq Unit /\ suspect' \subseteq {"unfinished", "timeout"}
    BY <1>0, <1>a DEF TypeOK, UnitsIn
  <1>2. Stored'
    <2>1. (created < 3 => Pristine)'
      BY <1>0
    <2>2. OutcomesOK' /\ CallsOK' /\ EvidenceOK'
      <3>1. OutcomesOK'
        BY <1>0, <1>a DEF Stored, OutcomesOK
      <3>2. CallsOK'
        BY <1>0, <1>a DEF Stored, CallsOK, Original
      <3>3. EvidenceOK'
        BY <1>0, <1>a DEF Stored, EvidenceOK, UnitsOf
      <3> QED BY <3>1, <3>2, <3>3
    <2>3. LedgerOK'
      BY <1>0, <1>a DEF Stored, LedgerOK, Untouched, SameDraw, UnitsOf
    <2>4. DoubtOK'
      BY <1>0, <1>a DEF Stored, DoubtOK
    <2> QED BY <2>1, <2>2, <2>3, <2>4 DEF Stored
  <1>3. ASSUME NEW how \in Ending, Leave(how), how # "stopped",
               how = "completed" => Remaining = {}
        PROVE  IInv'
    <2>1. TypeOK'
      BY <1>0, <1>c, <1>3, LeavingIsTyped DEF TypeOK
    <2>2. StopOK'
      <3>1. how = "completed" => UnitsIn({"planned", "running"}) = {}
        <4>1. ASSUME Remaining = {}, NEW u \in Planned PROVE outcome[u] \in Settled
          <5>1. u.case \in Processed
            BY <4>1, UnitsHaveCases DEF Remaining
          <5> QED BY <5>1, <1>0, ProcessedIsSettled DEF AtTrial
        <4> QED BY <4>1, <1>3 DEF UnitsIn, Settled
      <3>2. /\ lateStarts' <= 1 /\ pc' = "down" /\ ending' = how
            /\ how = "completed" => Remaining' = {} /\ UnitsIn({"planned", "running"})' = {}
        BY <3>1, <1>3, <1>0, <1>a DEF IInv, AtWork, StopOK, Leave
      <3> QED BY <3>2, <1>3 DEF StopOK
    <2> QED BY <1>2, <1>3, <2>1, <2>2, LeavingIsNoWork DEF IInv, AtWork
  <1>4. CASE Leave("refused")
    BY <1>3, <1>4 DEF Ending
  <1>5. CASE resolved
    <2>1. \/ Leave("refused") \/ Leave("planned") \/ (Remaining = {} /\ Leave("completed"))
          \/ /\ ~(Remaining # {} /\ ~receipt)
             /\ ~(asked.dry /\ (Remaining # {} => receipt))
             /\ ~(Remaining = {} /\ ~asked.dry)
             /\ pc' = "persistence"
             /\ allowance' = PlannedCalls
             /\ UNCHANGED <<trial, asked, request, inFlight, cancelling, uncertain, tally, ending>>
      BY <1>0, <1>5 DEF GoOnWithResume
    <2>2. CASE /\ ~(Remaining # {} /\ ~receipt)
               /\ ~(asked.dry /\ (Remaining # {} => receipt))
               /\ ~(Remaining = {} /\ ~asked.dry)
               /\ pc' = "persistence"
               /\ allowance' = PlannedCalls
               /\ UNCHANGED <<trial, asked, request, inFlight, cancelling, uncertain, tally, ending>>
      <3> USE <2>2 DEF trial
      <3>1. TypeOK'
        <4>1. FilesTyped'
          BY <1>a, <1>c, <1>0, TypeParts DEF FilesTyped
        <4>2. WorkTyped'
          BY <1>a, <1>0, TypeParts, CallsArePlanned DEF WorkTyped, Label
        <4>3. HistoryTyped'
          BY <1>0, <1>c, TypeParts DEF HistoryTyped
        <4> QED BY <4>1, <4>2, <4>3 DEF TypeOK, FilesTyped, WorkTyped, HistoryTyped, Ending
      <3>2. Remaining # {} /\ asked = AsRecorded
        <4>1. asked.differs = {} /\ asked.dry = FALSE
          BY <1>0 DEF AsksForTheRecordedCampaign, TypeOK
        <4> QED BY <4>1, <1>0 DEF AsRecorded, TypeOK
      <3>3. ~retains => \A c \in Remaining : \A u \in UnitsOf(c) : outcome[u] = "planned"
        <4>1. ASSUME ~retains, NEW c \in Remaining, NEW u \in UnitsOf(c)
              PROVE  outcome[u] = "planned"
          <5>1. u \in Planned /\ u.case \notin Failed
            BY <1>0, LinesOfEvidence DEF UnitsOf
          <5>2. u \notin UnitsIn(Settled)
            BY <5>1, <1>5, <4>1 DEF AugmentationsAreDurable
          <5>3. outcome[u] \in State
            BY <5>1, <1>0, <1>a DEF TypeOK
          <5> QED BY <5>1, <5>2, <5>3, <1>b DEF UnitsIn, State
        <4> QED BY <4>1
      <3>4. PhasesOK'
        <4>1. /\ asked' = AsRecorded /\ Remaining' # {}
              /\ (~retains => \A c \in Remaining : Untouched(c))'
          BY <3>2, <3>3, <1>0, <1>a DEF Untouched, UnitsOf
        <4>2. (\A u \in Planned : u.case \in Failed => outcome[u] # "planned")'
          BY <1>0, <1>a DEF IInv, AtWork, PhasesOK
        <4>3. /\ ~uncertain' /\ request' = "none" /\ draw' = NoDraw /\ place' = 1
              /\ created' = 3 /\ invocations' >= 1
          BY <1>0 DEF IInv, AtWork, PhasesOK, Loop
        <4> QED BY <4>1, <4>2, <4>3 DEF PhasesOK, Loop
      <3>5. DrawOK'
        BY DEF DrawOK, Loop, AtTrial
      <3>6. TrialsOK'
        <4>1. "unfinished" \notin suspect'
          <5>1. CASE attested' # attested
            BY <5>1, <1>0
          <5>2. CASE attested' = attested
            <6>1. quarantined # {} => attested = quarantined
              BY <5>2, <1>0, <1>5 DEF IsResolved
            <6>2. UnitsIn({"running", "quarantined"}) = quarantined
              BY <1>b DEF UnitsIn
            <6>3. UnitsIn({"running", "quarantined"}) \ attested = {}
              BY <6>1, <6>2
            <6> QED BY <6>3, <5>2, <1>0 DEF Stored, DoubtOK
          <5> QED BY <5>1, <5>2
        <4> QED BY <4>1, <1>a, <1>b, <1>0 DEF TrialsOK, Loop, AtTrial, Sending
      <3>7. StopOK'
        BY <1>0 DEF StopOK, StopRequested, IInv, AtWork
      <3>8. TallyOK'
        BY <1>0 DEF TallyOK
      <3>9. AllowanceOK'
        <4>1. Cardinality(Callable') + 0 <= allowance'
          BY <1>0, <1>a, CallsArePlanned, CallableIsFinite
        <4> QED BY <4>1 DEF AllowanceOK, Loop
      <3> QED BY <1>2, <3>1, <3>4, <3>5, <3>6, <3>7, <3>8, <3>9 DEF IInv, AtWork
    <2>3. CASE \/ Leave("refused") \/ Leave("planned") \/ (Remaining = {} /\ Leave("completed"))
      BY <2>3, <1>3 DEF Ending
    <2> QED BY <2>1, <2>2, <2>3
  <1> QED BY <1>0, <1>4, <1>5
-----------------------------------------------------------------------------
(* The loop over the cases.                                                *)
Calling == Loop \cup {"preflight", "persistence"}

LEMMA AllowanceKept ==
    ASSUME IInv, pc \in Calling \ {"register"}, pc' \in Calling \ {"register"},
           Callable' \subseteq Callable, allowance' = allowance
    PROVE  AllowanceOK'
  <1>1. /\ Cardinality(Callable') <= Cardinality(Callable)
        /\ Cardinality(Callable') \in Nat /\ Cardinality(Callable) \in Nat /\ allowance \in Int
    BY FewerCalls DEF IInv, TypeOK
  <1>2. Cardinality(Callable) + 0 <= allowance
    BY DEF IInv, AtWork, AllowanceOK, Calling
  <1>3. Cardinality(Callable') + 0 <= allowance'
    BY <1>1, <1>2
  <1> QED BY <1>3 DEF AllowanceOK, Calling

(* Where the counters are those of the journal.                            *)
Even == {"case", "skip", "gate", "augment", "save", "compare", "failing", "trial",
         "start", "register", "judge", "write", "cleanup"}

LEMMA TallyKept ==
    ASSUME IInv, pc \in Even, pc' \in Even, TallyOfJournal' = TallyOfJournal, tally' = tally
    PROVE  TallyOK'
  BY DEF IInv, AtWork, TallyOK, Even

(* A step that leaves what is stored and the history alone, but for what   *)
(* the user is told.                                                       *)
Quiet == UNCHANGED <<files, record, ending>> /\ notices' \in Nat

LEMMA QuietSteps ==
    ASSUME IInv, Quiet, WorkTyped'
    PROVE  /\ TypeOK' /\ Stored'
           /\ Case' = Case /\ Planned' = Planned /\ Places' = Places
           /\ Processed' = Processed /\ Failed' = Failed /\ Remaining' = Remaining
           /\ TallyOfJournal' = TallyOfJournal /\ TallyOfStarted' = TallyOfStarted
           /\ Callable' = Callable
           /\ \A S : UnitsIn(S)' = UnitsIn(S)
           /\ outcome' = outcome /\ evidence' = evidence /\ ledger' = ledger
           /\ contacted' = contacted /\ suspect' = suspect /\ ranWith' = ranWith
           /\ created' = created /\ retains' = retains /\ plan' = plan /\ attested' = attested
           /\ invocations' = invocations /\ ending' = ending
           /\ lateStarts' = lateStarts
  <1>1. FilesTyped' /\ HistoryTyped'
    BY TypeParts, FilesKept DEF IInv, Quiet, files, record, HistoryTyped
  <1>2. TypeOK'
    BY <1>1 DEF TypeOK, FilesTyped, WorkTyped, HistoryTyped, Ending
  <1>3. Stored'
    BY StoredKept DEF IInv, Quiet, files, record, Kept
  <1> QED BY <1>2, <1>3, Frame DEF Quiet, files, record

(* Its stops are as they were, if it does not begin a trial.               *)
LEMMA QuietStops ==
    ASSUME IInv, Quiet, pc # "down", pc' # "down", request' = request,
           pc' \in {"start", "register", "target"} => pc \in {"start", "register", "target"}
    PROVE  StopOK'
  <1>1. \A S : UnitsIn(S)' = UnitsIn(S)
    BY Frame DEF Quiet, files
  <1> QED BY <1>1 DEF IInv, AtWork, StopOK, StopRequested, Quiet, record

LEMMA PreflightKeeps ==
    ASSUME IInv, Preflight
    PROVE  IInv'
  <1> USE DEF Preflight, record
  <1>1. CASE StopRequested
    BY <1>1, StoppingKeeps DEF BoundaryThen
  <1>2. CASE ~StopRequested
    <2>0. /\ pc' = "persistence" /\ UNCHANGED <<trial, control, tally, notices, ending>>
          /\ TypeOK /\ Stored /\ Pristine /\ created = 3 /\ request = "none"
      BY <1>2 DEF BoundaryThen, IInv, AtWork, PhasesOK, StopRequested
    <2>a. /\ Case' = Case /\ Planned' = Planned /\ Failed' = Failed /\ Callable' = Callable
          /\ Remaining' = Remaining
      BY Frame
    <2>1. TypeOK'
      <3>1. FilesTyped'
        BY <2>a, <2>0, TypeParts DEF FilesTyped
      <3>2. WorkTyped'
        BY <2>a, <2>0, TypeParts DEF WorkTyped, Label, trial, control
      <3>3. HistoryTyped'
        BY <2>0, TypeParts DEF HistoryTyped
      <3> QED BY <3>1, <3>2, <3>3 DEF TypeOK, FilesTyped, WorkTyped, HistoryTyped, Ending
    <2>2. Stored'
      BY <2>0, StoredKept DEF Kept
    <2>3. PhasesOK'
      <3>1. Failed = {} /\ Remaining # {} /\ \A c \in Case : \A u \in UnitsOf(c) : outcome[u] = "planned"
        BY <2>0, PristineFacts DEF UnitsOf
      <3>2. (\A c \in Remaining : Untouched(c))'
        BY <3>1, <2>a DEF Untouched, UnitsOf, Remaining
      <3> QED BY <2>0, <2>a, <3>1, <3>2 DEF IInv, AtWork, PhasesOK, Loop, trial, control
    <2>4. DrawOK'
      BY <2>0 DEF DrawOK, Loop, AtTrial
    <2>5. TrialsOK'
      BY <2>0, <2>a, PristineFacts DEF TrialsOK, Loop, AtTrial, Sending, Pristine
    <2>6. StopOK'
      BY <2>0 DEF StopOK, StopRequested, IInv, AtWork, control
    <2>7. TallyOK'
      BY <2>0 DEF TallyOK
    <2>8. AllowanceOK'
      BY <2>0, <2>a, AllowanceKept DEF Calling, Loop, control
    <2> QED BY <2>1, <2>2, <2>3, <2>4, <2>5, <2>6, <2>7, <2>8 DEF IInv, AtWork
  <1> QED BY <1>1, <1>2

LEMMA OpenPersistenceKeeps ==
    ASSUME IInv, OpenPersistence
    PROVE  IInv'
  <1> USE DEF OpenPersistence, control
  <1>0. /\ TypeOK /\ Stored /\ pc = "persistence" /\ pc' = "case" /\ Remaining # {}
        /\ UNCHANGED <<files, place, draw, result, control, history>>
        /\ Quiet /\ tally' = TallyOfJournal
    BY DEF IInv, AtWork, PhasesOK, Quiet, record, history, TypeOK
  <1>a. case' \in Remaining
    <2>1. Remaining \subseteq Nat
      BY <1>0, PlanShape DEF Remaining, TypeOK
    <2>2. PICK D : D = Remaining
      OBVIOUS
    <2>3. case' = CHOOSE c \in D : \A d \in D : c <= d
      BY <2>2 DEF FirstRemaining
    <2> QED BY <1>0, <2>1, <2>2, <2>3, LeastIsChosen
  <1>b. WorkTyped'
    <2>1. Case' = Case /\ Remaining \subseteq Case
      BY DEF Case, Remaining, files
    <2>2. tally' \in [{"completed", "skipped", "failed", "running", "calls"} -> Nat]
      BY <1>0, PlannedIsFinite DEF TallyOfJournal, TypeOK, Attempted
    <2> QED BY <1>a, <2>1, <2>2, <1>0, TypeParts DEF WorkTyped, Label, Interruptible
  <1>1. TypeOK' /\ Stored'
    BY <1>0, <1>b, QuietSteps
  <1>2. PhasesOK'
    <2>1. case' \notin Processed'
      BY <1>a, <1>0, <1>b, QuietSteps DEF Remaining
    <2>2. (\A u \in Planned : u.case \in Failed => outcome[u] # "planned")'
      BY <1>0, <1>b, QuietSteps DEF IInv, AtWork, PhasesOK
    <2> QED BY <1>0, <1>b, <2>1, <2>2, QuietSteps DEF IInv, AtWork, PhasesOK, Loop
  <1>3. DrawOK'
    <2>1. ~retains => \A c \in Remaining : Untouched(c)
      BY <1>0 DEF IInv, AtWork, PhasesOK
    <2>2. ~retains' => (\A c \in Remaining : Untouched(c))'
      BY <2>1, <1>0, <1>b, QuietSteps DEF Untouched, UnitsOf
    <2>3. draw' = NoDraw
      BY <1>0 DEF IInv, AtWork, PhasesOK, Loop
    <2> QED BY <1>0, <2>2, <2>3 DEF DrawOK, Loop, AtTrial
  <1>4. TrialsOK'
    <2>1. \A u \in Planned : outcome[u] # "running"
      BY <1>0 DEF IInv, AtWork, TrialsOK, AtTrial
    <2>2. place' = 1 /\ ("unfinished" \in suspect => uncertain)
      BY <1>0 DEF IInv, AtWork, TrialsOK, PhasesOK, Loop
    <2> QED BY <1>0, <1>b, <2>1, <2>2, QuietSteps DEF TrialsOK, Loop, AtTrial, Sending
  <1>5. StopOK'
    BY <1>0, QuietStops
  <1>6. TallyOK'
    BY <1>0, <1>b, QuietSteps DEF TallyOK
  <1>7. AllowanceOK'
    BY <1>0, <1>b, QuietSteps, AllowanceKept DEF Calling, Loop
  <1> QED BY <1>1, <1>2, <1>3, <1>4, <1>5, <1>6, <1>7 DEF IInv, AtWork

(* Within the loop, before the trials of the case.                         *)
Preparing == {"skip", "gate", "augment", "save", "compare", "failing"}

LEMMA PhasesMove ==
    ASSUME IInv, Quiet, WorkTyped', UNCHANGED <<case, request, uncertain, asked>>,
           pc \in Loop \ {"settling", "cleanup"}, pc' \in Loop \ {"settling", "cleanup"},
           pc' = "save" => retains
    PROVE  PhasesOK'
  <1>1. (\A u \in Planned : u.case \in Failed => outcome[u] # "planned")'
    BY QuietSteps DEF IInv, AtWork, PhasesOK, Loop
  <1> QED BY <1>1, QuietSteps DEF IInv, AtWork, PhasesOK, Loop

LEMMA TrialsBefore ==
    ASSUME IInv, Quiet, WorkTyped', pc \in Preparing \cup {"case"}, pc' \in Preparing,
           UNCHANGED <<case, place, request, uncertain>>,
           pc' = "compare" \/ (pc' = "gate" /\ draw' # NoDraw) =>
               draw' = draw /\ \A u \in Declined : outcome[u] # "planned"
    PROVE  TrialsOK'
  <1>1. \A u \in Planned : outcome[u] # "running"
    BY DEF IInv, AtWork, TrialsOK, AtTrial, Preparing
  <1>2. place = 1 /\ ("unfinished" \in suspect => uncertain)
    BY DEF IInv, AtWork, TrialsOK, Loop, AtTrial, Preparing
  <1>3. draw' = draw => Declined' = Declined
    BY QuietSteps DEF Declined, UnitsOf, Accepted
  <1> QED BY <1>1, <1>2, <1>3, QuietSteps DEF TrialsOK, Loop, AtTrial, Sending, Preparing

(* What the draw in memory means does not change when the files do not.    *)
LEMMA DrawMeaning ==
    ASSUME IInv, Quiet, WorkTyped'
    PROVE  \A c : /\ Untouched(c) => Untouched(c)'
                  /\ \A d : SameDraw(c, d) => SameDraw(c, d)'
  BY QuietSteps DEF Untouched, SameDraw, UnitsOf

LEMMA BeginCaseKeeps ==
    ASSUME IInv, BeginCase
    PROVE  IInv'
  <1> USE DEF BeginCase, control
  <1>0. /\ TypeOK /\ Stored /\ pc = "case" /\ draw' = ledger[case] /\ Quiet
        /\ pc' = IF draw' = NoDraw THEN "gate" ELSE "skip"
        /\ case \in Remaining /\ ledger[case] \in Draw \cup {NoDraw}
    BY DEF IInv, AtWork, PhasesOK, Loop, Quiet, record, history, TypeOK, Remaining
  <1>b. WorkTyped'
    <2>1. Case' = Case
      BY DEF Case, files
    <2> QED BY <2>1, <1>0, TypeParts DEF WorkTyped, Label, Interruptible
  <1>1. TypeOK' /\ Stored'
    BY <1>0, <1>b, QuietSteps
  <1>2. PhasesOK'
    BY <1>0, <1>b, PhasesMove DEF Loop
  <1>3. DrawOK'
    <2>1. draw' = NoDraw => Untouched(case)
      <3>1. CASE ~retains
        BY <3>1, <1>0 DEF IInv, AtWork, DrawOK, Loop
      <3>2. CASE retains
        BY <3>2, <1>0, LinesOfEvidence DEF Stored, LedgerOK, Remaining
      <3> QED BY <3>1, <3>2
    <2>2. draw' # NoDraw => SameDraw(case, draw') /\ retains
      BY <1>0 DEF Stored, LedgerOK, Remaining
    <2>3. PICK c : c = case
      OBVIOUS
    <2>4. PICK d : d = draw'
      OBVIOUS
    <2>5. /\ d = NoDraw => Untouched(c)'
          /\ d # NoDraw => SameDraw(c, d)'
      BY <2>1, <2>2, <2>3, <2>4, <1>0, <1>b, DrawMeaning
    <2>6. ~retains' => (\A e \in Remaining : Untouched(e))'
      <3>1. ~retains => \A e \in Remaining : Untouched(e)
        BY <1>0 DEF IInv, AtWork, DrawOK, Loop
      <3> QED BY <3>1, <1>0, <1>b, QuietSteps, DrawMeaning
    <2>7. c = case' /\ d = draw' /\ (retains' => ledger'[case'] = draw') /\ pc' \in {"gate", "skip"}
      BY <2>3, <2>4, <1>0, <1>b, QuietSteps
    <2>8. pc' = "skip" => draw' \in Draw
      BY <1>0
    <2>9. /\ draw' = NoDraw => Untouched(case)'
          /\ draw' # NoDraw => SameDraw(case, draw)'
      BY <2>5, <2>7 DEF Untouched, SameDraw, UnitsOf
    <2> QED BY <2>6, <2>7, <2>8, <2>9 DEF DrawOK, Loop, AtTrial
  <1>4. TrialsOK'
    BY <1>0, <1>b, TrialsBefore DEF Preparing
  <1>5. StopOK'
    BY <1>0, QuietStops
  <1>6. TallyOK'
    BY <1>0, <1>b, QuietSteps, TallyKept DEF Even
  <1>7. AllowanceOK'
    BY <1>0, <1>b, QuietSteps, AllowanceKept DEF Calling, Loop
  <1> QED BY <1>1, <1>2, <1>3, <1>4, <1>5, <1>6, <1>7 DEF IInv, AtWork

(* The variations in memory stay those of the case.                        *)
AtTrials == {"trial", "after", "judge", "write"} \cup AtTrial

LEMMA DrawKept ==
    ASSUME IInv, Quiet, WorkTyped', UNCHANGED <<case, draw>>,
           pc \in Loop \ {"case", "settling", "cleanup", "save"},
           pc' \in Loop \ {"case", "settling", "cleanup", "save"},
           pc' = "augment" => draw = NoDraw,
           pc' \in {"skip", "compare"} \cup AtTrials => draw # NoDraw,
           pc' = "failing" => \A u \in UnitsOf(case) : u \notin contacted,
           pc' \in AtTrials => Accepted = {} \/ draw.comparable
    PROVE  DrawOK'
  <1>1. PICK c : c = case
    OBVIOUS
  <1>2. PICK d : d = draw
    OBVIOUS
  <1>3. /\ d = NoDraw => Untouched(c)
        /\ d # NoDraw => SameDraw(c, d)
        /\ retains => ledger[case] = draw
    BY <1>1, <1>2 DEF IInv, AtWork, DrawOK
  <1>4. /\ d = NoDraw => Untouched(c)'
        /\ d # NoDraw => SameDraw(c, d)'
    BY <1>3, DrawMeaning
  <1>5. ~retains' => (\A e \in Remaining : e # case => Untouched(e))'
    <2>1. ~retains => \A e \in Remaining : e # case => Untouched(e)
      BY DEF IInv, AtWork, DrawOK, Loop
    <2> QED BY <2>1, QuietSteps, DrawMeaning
  <1>6. /\ draw' = NoDraw => Untouched(case)'
        /\ draw' # NoDraw => SameDraw(case, draw)'
    BY <1>4, <1>1, <1>2 DEF Untouched, SameDraw, UnitsOf
  <1>7. /\ Accepted' = Accepted /\ draw \in Draw \cup {NoDraw}
        /\ pc' = "failing" => (\A u \in UnitsOf(case) : u \notin contacted)'
        /\ retains' => ledger'[case'] = draw'
    <2>1. Accepted' = Accepted
      BY DEF Accepted
    <2>2. draw \in Draw \cup {NoDraw}
      BY DEF IInv, TypeOK
    <2>3. pc' = "failing" => (\A u \in UnitsOf(case) : u \notin contacted)'
      BY QuietSteps DEF UnitsOf
    <2>4. retains' => ledger'[case'] = draw'
      BY <1>3, QuietSteps
    <2> QED BY <2>1, <2>2, <2>3, <2>4
  <1> QED BY <1>5, <1>6, <1>7 DEF DrawOK, Loop, AtTrial, AtTrials

LEMMA SkipEndsKeeps ==
    ASSUME IInv, SkipEnds
    PROVE  IInv'
  <1> USE DEF SkipEnds, control, trial
  <1>0. /\ TypeOK /\ pc = "skip" /\ pc' \in {"gate", "compare"} /\ Quiet /\ draw \in Draw
        /\ \A u \in Declined : outcome[u] # "planned"
    BY DEF IInv, AtWork, DrawOK, Quiet, record, history, TypeOK
  <1>b. WorkTyped'
    <2>1. Case' = Case
      BY DEF Case, files
    <2> QED BY <2>1, <1>0, TypeParts DEF WorkTyped, Label, Interruptible
  <1>1. TypeOK' /\ Stored'
    BY <1>0, <1>b, QuietSteps
  <1>2. PhasesOK'
    BY <1>0, <1>b, PhasesMove DEF Loop
  <1>3. DrawOK'
    BY <1>0, <1>b, DrawKept, NoDrawIsNotADraw DEF Loop, AtTrial, AtTrials
  <1>4. TrialsOK'
    BY <1>0, <1>b, TrialsBefore DEF Preparing
  <1>5. StopOK'
    BY <1>0, QuietStops
  <1>6. TallyOK'
    BY <1>0, <1>b, QuietSteps, TallyKept DEF Even
  <1>7. AllowanceOK'
    BY <1>0, <1>b, QuietSteps, AllowanceKept DEF Calling, Loop
  <1> QED BY <1>1, <1>2, <1>3, <1>4, <1>5, <1>6, <1>7 DEF IInv, AtWork

LEMMA CaseBoundaryKeeps ==
    ASSUME IInv, CaseBoundary
    PROVE  IInv'
  <1> USE DEF CaseBoundary
  <1>1. CASE StopRequested
    BY <1>1, StoppingKeeps DEF BoundaryThen, files, IInv, TypeOK
  <1>2. CASE ~StopRequested
    <2>0. /\ TypeOK /\ pc = "gate" /\ Quiet /\ UNCHANGED <<trial, control, tally>>
          /\ pc' = IF draw = NoDraw THEN "augment" ELSE "compare"
          /\ draw # NoDraw => \A u \in Declined : outcome[u] # "planned"
      BY <1>2 DEF IInv, AtWork, TrialsOK, Quiet, BoundaryThen, record, history, TypeOK
    <2> USE DEF control, trial
    <2>b. WorkTyped'
      <3>1. Case' = Case
        BY DEF Case, files
      <3> QED BY <3>1, <2>0, TypeParts DEF WorkTyped, Label, Interruptible
    <2>1. TypeOK' /\ Stored'
      BY <2>0, <2>b, QuietSteps
    <2>2. PhasesOK'
      BY <2>0, <2>b, PhasesMove DEF Loop
    <2>3. DrawOK'
      BY <2>0, <2>b, DrawKept DEF Loop, AtTrial, AtTrials
    <2>4. TrialsOK'
      BY <2>0, <2>b, TrialsBefore DEF Preparing
    <2>5. StopOK'
      BY <2>0, QuietStops
    <2>6. TallyOK'
      BY <2>0, <2>b, QuietSteps, TallyKept DEF Even
    <2>7. AllowanceOK'
      BY <2>0, <2>b, QuietSteps, AllowanceKept DEF Calling, Loop
    <2> QED BY <2>1, <2>2, <2>3, <2>4, <2>5, <2>6, <2>7 DEF IInv, AtWork
  <1> QED BY <1>1, <1>2

LEMMA AugmentKeeps ==
    ASSUME IInv, NEW verdict \in [1 .. Operators -> Verdict], NEW comparable \in BOOLEAN,
           Augment(verdict, comparable)
    PROVE  IInv'
  <1> USE DEF Augment, control
  <1>0. /\ TypeOK /\ pc = "augment" /\ Quiet /\ draw = NoDraw /\ Untouched(case)
        /\ retains => ledger[case] = NoDraw
        /\ pc' = (IF retains THEN "save" ELSE "skip") /\ case' = case
    BY DEF IInv, AtWork, DrawOK, Quiet, record, history, TypeOK, Loop
  <1>a. draw' \in Draw /\ draw' # NoDraw
    <2>1. invocations \in 1 .. MaxInvocations
      BY <1>0, PlanShape DEF IInv, AtWork, PhasesOK, TypeOK
    <2> QED BY <2>1, NoDrawIsNotADraw DEF Draw
  <1>b. WorkTyped'
    <2>1. Case' = Case
      BY DEF Case, files
    <2> QED BY <2>1, <1>a, <1>0, TypeParts DEF WorkTyped, Label, Interruptible
  <1>1. TypeOK' /\ Stored'
    BY <1>0, <1>b, QuietSteps
  <1>2. PhasesOK'
    BY <1>0, <1>b, PhasesMove DEF Loop
  <1>3. DrawOK'
    <2>1. \A u \in UnitsOf(case) : outcome[u] = "planned" /\ u \notin contacted
      BY <1>0 DEF Untouched, IInv, Stored, CallsOK, UnitsOf
    <2>2. Untouched(case)' /\ SameDraw(case, draw)'
      BY <2>1, <1>0, <1>b, QuietSteps DEF Untouched, SameDraw, UnitsOf
    <2>3. ~retains' => (\A e \in Remaining : e # case => Untouched(e))'
      <3>1. ~retains => \A e \in Remaining : e # case => Untouched(e)
        BY <1>0 DEF IInv, AtWork, DrawOK, Loop
      <3> QED BY <3>1, <1>0, <1>b, QuietSteps, DrawMeaning
    <2>4. /\ pc' \in {"save", "skip"} /\ (pc' = "save" => retains /\ ledger'[case'] = NoDraw)
          /\ (pc' = "skip" => ~retains') /\ draw' \in Draw /\ draw' # NoDraw
      BY <1>0, <1>a, <1>b, QuietSteps
    <2> QED BY <2>2, <2>3, <2>4 DEF DrawOK, Loop, AtTrial
  <1>4. TrialsOK'
    BY <1>0, <1>b, TrialsBefore DEF Preparing
  <1>5. StopOK'
    BY <1>0, QuietStops
  <1>6. TallyOK'
    BY <1>0, <1>b, QuietSteps, TallyKept DEF Even
  <1>7. AllowanceOK'
    BY <1>0, <1>b, QuietSteps, AllowanceKept DEF Calling, Loop
  <1> QED BY <1>1, <1>2, <1>3, <1>4, <1>5, <1>6, <1>7 DEF IInv, AtWork

LEMMA AugmentFailsKeeps ==
    ASSUME IInv, AugmentFails
    PROVE  IInv'
  <1> USE DEF AugmentFails, control, trial
  <1>0. /\ TypeOK /\ pc = "augment" /\ pc' = "failing" /\ Quiet /\ draw = NoDraw
        /\ Untouched(case)
    BY DEF IInv, AtWork, DrawOK, Quiet, record, history, TypeOK, Loop
  <1>a. \A u \in UnitsOf(case) : u \notin contacted
    BY <1>0 DEF Untouched, IInv, Stored, CallsOK
  <1>b. WorkTyped'
    <2>1. Case' = Case
      BY DEF Case, files
    <2> QED BY <2>1, <1>0, TypeParts DEF WorkTyped, Label, Interruptible
  <1>1. TypeOK' /\ Stored'
    BY <1>0, <1>b, QuietSteps
  <1>2. PhasesOK'
    BY <1>0, <1>b, PhasesMove DEF Loop
  <1>3. DrawOK'
    BY <1>0, <1>a, <1>b, DrawKept DEF Loop, AtTrial, AtTrials
  <1>4. TrialsOK'
    BY <1>0, <1>b, TrialsBefore DEF Preparing
  <1>5. StopOK'
    BY <1>0, QuietStops
  <1>6. TallyOK'
    BY <1>0, <1>b, QuietSteps, TallyKept DEF Even
  <1>7. AllowanceOK'
    BY <1>0, <1>b, QuietSteps, AllowanceKept DEF Calling, Loop
  <1> QED BY <1>1, <1>2, <1>3, <1>4, <1>5, <1>6, <1>7 DEF IInv, AtWork

(* The trials that are left to the order of trials.                        *)
LEMMA CompareSurfaceKeeps ==
    ASSUME IInv, CompareSurface
    PROVE  IInv'
  <1> USE DEF CompareSurface, control, trial
  <1>0. /\ TypeOK /\ pc = "compare" /\ Quiet /\ draw \in Draw
        /\ pc' = IF Accepted = {} \/ draw.comparable THEN "trial" ELSE "failing"
        /\ SameDraw(case, draw)
    BY NoDrawIsNotADraw DEF IInv, AtWork, DrawOK, Quiet, record, history, TypeOK, Loop
  <1>a. ~draw.comparable => \A u \in UnitsOf(case) : u \notin contacted
    BY <1>0 DEF SameDraw, IInv, Stored, CallsOK
  <1>b. WorkTyped'
    <2>1. Case' = Case
      BY DEF Case, files
    <2> QED BY <2>1, <1>0, TypeParts DEF WorkTyped, Label, Interruptible
  <1>1. TypeOK' /\ Stored'
    BY <1>0, <1>b, QuietSteps
  <1>2. PhasesOK'
    BY <1>0, <1>b, PhasesMove DEF Loop
  <1>3. DrawOK'
    BY <1>0, <1>a, <1>b, DrawKept, NoDrawIsNotADraw DEF Loop, AtTrial, AtTrials
  <1>4. TrialsOK'
    <2>1. CASE pc' = "failing"
      BY <2>1, <1>0, <1>b, TrialsBefore DEF Preparing
    <2>2. CASE pc' = "trial"
      <3>1. /\ \A u \in Planned : outcome[u] # "running"
            /\ place = 1 /\ ("unfinished" \in suspect => uncertain)
            /\ \A u \in Declined : outcome[u] # "planned"
        BY <1>0 DEF IInv, AtWork, TrialsOK, AtTrial, Loop
      <3>2. /\ Declined' = Declined /\ Places \subseteq Nat \ {0}
        BY <1>0, <1>b, QuietSteps, UnitsInOrder DEF Declined, UnitsOf, Accepted
      <3>3. \A k \in Places : ~(k < 1)
        BY <3>2
      <3> QED BY <2>2, <1>0, <1>b, <3>1, <3>2, <3>3, QuietSteps
              DEF TrialsOK, Loop, AtTrial, Sending
    <2> QED BY <2>1, <2>2, <1>0
  <1>5. StopOK'
    BY <1>0, QuietStops
  <1>6. TallyOK'
    BY <1>0, <1>b, QuietSteps, TallyKept DEF Even
  <1>7. AllowanceOK'
    BY <1>0, <1>b, QuietSteps, AllowanceKept DEF Calling, Loop
  <1> QED BY <1>1, <1>2, <1>3, <1>4, <1>5, <1>6, <1>7 DEF IInv, AtWork

(* A unit of the plan gets another outcome; nothing else that is stored    *)
(* changes.                                                                *)
LEMMA OutcomeSteps ==
    ASSUME IInv, NEW u \in Planned, NEW s \in State, outcome' = [outcome EXCEPT ![u] = s],
           UNCHANGED <<plan, retains, created, receipt, ledger, evidence, torn, attested>>
    PROVE  /\ Case' = Case /\ Planned' = Planned /\ Places' = Places /\ Planned \subseteq Unit
           /\ Processed' = Processed /\ Failed' = Failed /\ Remaining' = Remaining
           /\ outcome' \in [Unit -> State] /\ outcome'[u] = s
           /\ \A v \in Unit : v # u => outcome'[v] = outcome[v]
           /\ FilesTyped'
           /\ s # "planned" => Callable' \subseteq Callable
  <1>1. /\ Case' = Case /\ Planned' = Planned /\ Places' = Places /\ Planned \subseteq Unit
        /\ Processed' = Processed /\ Failed' = Failed /\ Remaining' = Remaining
    BY PlanShape DEF Case, Planned, Places, Processed, Failed, Remaining, IInv, TypeOK
  <1>2. /\ outcome' \in [Unit -> State] /\ outcome'[u] = s
        /\ \A v \in Unit : v # u => outcome'[v] = outcome[v]
    BY <1>1 DEF IInv, TypeOK
  <1>3. FilesTyped'
    BY <1>1, <1>2, TypeParts DEF IInv, FilesTyped
  <1>4. s # "planned" => Callable' \subseteq Callable
    BY <1>1, <1>2 DEF Callable, OperatorStatus
  <1> QED BY <1>1, <1>2, <1>3, <1>4

LEMMA SaveAugmentationKeeps ==
    ASSUME IInv, SaveAugmentation
    PROVE  IInv'
  <1> USE DEF SaveAugmentation, control, trial
  <1>0. /\ TypeOK /\ Stored /\ pc = "save" /\ pc' = "skip" /\ created = 3 /\ retains
        /\ draw \in Draw /\ Untouched(case) /\ SameDraw(case, draw) /\ case \in Case
        /\ ledger' = [ledger EXCEPT ![case] = draw]
    BY NoDrawIsNotADraw DEF IInv, AtWork, PhasesOK, DrawOK, Loop, TypeOK
  <1>a. /\ Case' = Case /\ Planned' = Planned /\ Failed' = Failed /\ Processed' = Processed
        /\ Remaining' = Remaining /\ TallyOfJournal' = TallyOfJournal
        /\ \A S : UnitsIn(S)' = UnitsIn(S)
    BY DEF Case, Planned, Failed, Processed, Remaining, TallyOfJournal, Attempted, UnitsIn
  <1>c. /\ ledger'[case] = draw /\ \A c \in Case : c # case => ledger'[c] = ledger[c]
        /\ ledger' \in [Case -> Draw \cup {NoDraw}]
    BY <1>0 DEF TypeOK
  <1>1. TypeOK'
    <2>1. FilesTyped'
      BY <1>a, <1>c, <1>0, TypeParts DEF FilesTyped
    <2>2. WorkTyped'
      BY <1>a, <1>0, TypeParts DEF WorkTyped, Label, Interruptible
    <2>3. HistoryTyped'
      BY <1>0, TypeParts, HistoryKept
    <2> QED BY <2>1, <2>2, <2>3 DEF TypeOK, FilesTyped, WorkTyped, HistoryTyped, Ending
  <1>2. Stored'
    <2>1. (created < 3 => Pristine)'
      BY <1>0
    <2>2. OutcomesOK' /\ DoubtOK'
      BY <1>0, <1>a DEF Stored, OutcomesOK, DoubtOK, history
    <2>3. CallsOK'
      BY <1>0, <1>a DEF Stored, CallsOK, Original, history
    <2>4. EvidenceOK'
      BY <1>0, <1>a DEF Stored, EvidenceOK, UnitsOf, history
    <2>5. LedgerOK'
      BY <1>0, <1>a, <1>c, NoDrawIsNotADraw
         DEF Stored, LedgerOK, Untouched, SameDraw, UnitsOf, history
    <2> QED BY <2>1, <2>2, <2>3, <2>4, <2>5 DEF Stored
  <1>3. PhasesOK'
    BY <1>0, <1>a DEF IInv, AtWork, PhasesOK, Loop, history
  <1>4. DrawOK'
    <2>1. SameDraw(case, draw)'
      BY <1>0, <1>a DEF SameDraw, UnitsOf, history
    <2> QED BY <1>0, <1>c, <2>1, NoDrawIsNotADraw DEF DrawOK, Loop, AtTrial
  <1>5. TrialsOK'
    BY <1>0, <1>a DEF IInv, AtWork, TrialsOK, Loop, AtTrial, Sending, history
  <1>6. StopOK'
    BY <1>0, <1>a DEF IInv, AtWork, StopOK, StopRequested, history
  <1>7. TallyOK'
    BY <1>0, <1>a, TallyKept DEF Even
  <1>8. AllowanceOK'
    <2>1. Callable' \subseteq Callable
      <3>1. ASSUME NEW u \in Planned, u.case \in Remaining,
                   u.op # 0 => OperatorStatus(u.case, u.op)' # "ineligible"
            PROVE  u.op = 0 \/ OperatorStatus(u.case, u.op) # "ineligible"
        <4>1. CASE u.case = case
          BY <4>1, <1>0 DEF IInv, AtWork, DrawOK, OperatorStatus
        <4>2. CASE u.case # case
          BY <4>2, <3>1, <1>c, UnitsHaveCases DEF OperatorStatus
        <4> QED BY <4>1, <4>2
      <3> QED BY <3>1, <1>a DEF Callable
    <2> QED BY <1>0, <2>1, AllowanceKept DEF Calling, Loop
  <1> QED BY <1>1, <1>2, <1>3, <1>4, <1>5, <1>6, <1>7, <1>8 DEF IInv, AtWork

(* The counters.                                                           *)
Counters == [completed : Nat, skipped : Nat, failed : Nat, running : Nat, calls : Nat]

(* Counters are a record of numbers.                                       *)
LEMMA CountersAreRecords ==
    Counters = [{"completed", "skipped", "failed", "running", "calls"} -> Nat]
  <1>1. ASSUME NEW t \in Counters
        PROVE  t \in [{"completed", "skipped", "failed", "running", "calls"} -> Nat]
    BY DEF Counters
  <1>2. ASSUME NEW t \in [{"completed", "skipped", "failed", "running", "calls"} -> Nat]
        PROVE  t \in Counters
    BY DEF Counters
  <1> QED BY <1>1, <1>2

LEMMA CounterGrows ==
    ASSUME NEW t \in Counters
    PROVE  /\ [t EXCEPT !.skipped = @ + 1] \in Counters
           /\ \A n \in Nat : [t EXCEPT !.failed = @ + n] \in Counters
           /\ [t EXCEPT !.running = @ + 1, !.calls = @ + 1] \in Counters
           /\ t.running # 0 => [t EXCEPT !.running = @ - 1, !.completed = @ + 1] \in Counters
           /\ t.running # 0 => [t EXCEPT !.running = @ - 1, !.failed = @ + 1] \in Counters
  <1>1. [t EXCEPT !.skipped = @ + 1] \in Counters
    BY DEF Counters
  <1>2. ASSUME NEW n \in Nat PROVE [t EXCEPT !.failed = @ + n] \in Counters
    BY DEF Counters
  <1>3. PICK r \in Nat, a \in Nat, b \in Nat, c \in Nat :
              r = t.running + 1 /\ a = t.completed + 1 /\ b = t.failed + 1 /\ c = t.calls + 1
    BY DEF Counters
  <1>4. [t EXCEPT !.running = @ + 1, !.calls = @ + 1] \in Counters
    <2>1. [t EXCEPT !.running = r, !.calls = c] \in Counters
      BY DEF Counters
    <2> QED BY <2>1, <1>3
  <1>5. ASSUME t.running # 0
        PROVE  /\ [t EXCEPT !.running = @ - 1, !.completed = @ + 1] \in Counters
               /\ [t EXCEPT !.running = @ - 1, !.failed = @ + 1] \in Counters
    <2>1. PICK q \in Nat : q = t.running - 1
      BY <1>5 DEF Counters
    <2>2. /\ [t EXCEPT !.running = q, !.completed = a] \in Counters
          /\ [t EXCEPT !.running = q, !.failed = b] \in Counters
      BY DEF Counters
    <2> QED BY <2>1, <2>2, <1>3
  <1> QED BY <1>1, <1>2, <1>4, <1>5

LEMMA SkipDeclinedKeeps ==
    ASSUME IInv, NEW u \in Planned, SkipDeclined(u)
    PROVE  IInv'
  <1> USE DEF SkipDeclined, control, trial
  <1>0. /\ TypeOK /\ Stored /\ pc = "skip" /\ pc' = "skip" /\ created = 3
        /\ draw \in Draw /\ SameDraw(case, draw) /\ case \in Case
        /\ retains => ledger[case] = draw
        /\ outcome[u] = "planned" /\ u.case = case
        /\ tally' = [tally EXCEPT !.skipped = @ + 1]
    BY NoDrawIsNotADraw DEF IInv, AtWork, PhasesOK, DrawOK, Loop, TypeOK, Declined, UnitsOf
  <1> DEFINE s == draw.verdict[u.op]
  <1>a. s \in {"rejected", "inapplicable"} /\ u.op # 0
    <2>1. u.op \in 1 .. Operators /\ u.op \notin Accepted
      BY UnitsHaveCases, BoundsAreNumbers DEF Declined, UnitsOf
    <2>2. draw.verdict[u.op] \in Verdict
      BY <1>0, <2>1 DEF Draw
    <2> QED BY <2>1, <2>2 DEF Accepted, Verdict
  <1>b. outcome' = [outcome EXCEPT ![u] = s] /\ s \in State
    BY <1>a DEF State, Settled
  <1>c. u \notin contacted
    BY <1>0 DEF Stored, CallsOK
  <1> HIDE DEF s
  <1>d. /\ Case' = Case /\ Planned' = Planned /\ Places' = Places /\ Planned \subseteq Unit
        /\ Processed' = Processed /\ Failed' = Failed /\ Remaining' = Remaining
        /\ outcome' \in [Unit -> State] /\ outcome'[u] = s
        /\ \A v \in Unit : v # u => outcome'[v] = outcome[v]
        /\ FilesTyped' /\ Callable' \subseteq Callable
    BY <1>a, <1>b, OutcomeSteps
  <1>1. TypeOK'
    <2>1. WorkTyped'
      <3>1. tally' \in [{"completed", "skipped", "failed", "running", "calls"} -> Nat]
        <4>1. tally \in Counters
          BY <1>0, CountersAreRecords DEF TypeOK
        <4>2. tally' \in Counters
          BY <1>0, <4>1, CounterGrows
        <4> QED BY <4>2, CountersAreRecords
      <3> QED BY <3>1, <1>d, <1>0, TypeParts DEF WorkTyped
    <2>2. HistoryTyped'
      BY <1>0, TypeParts, HistoryKept
    <2> QED BY <1>d, <2>1, <2>2 DEF TypeOK, FilesTyped, WorkTyped, HistoryTyped, Ending
  <1>2. Stored'
    <2>1. ((created < 3 => Pristine) /\ OutcomesOK /\ CallsOK /\ EvidenceOK)'
      <3>1. \A v \in Planned :
               /\ outcome[v] \in Settled => outcome'[v] = outcome[v]
               /\ v \in contacted => outcome'[v] \in {"running", "completed", "inconclusive",
                                                      "quarantined"}
               /\ outcome'[v] = "errored" => v.case \in Failed
               /\ outcome'[v] \in {"rejected", "inapplicable"} => v.op # 0
        BY <1>0, <1>a, <1>c, <1>d DEF Stored, OutcomesOK, CallsOK, Settled
      <3> QED BY <1>0, <1>d, <3>1, SettledKept DEF history
    <2>2. LedgerOK'
      <3>1. ASSUME NEW c \in Case
            PROVE  /\ ~retains => ledger[c] = NoDraw
                   /\ retains /\ ledger[c] = NoDraw /\ c \notin Failed => Untouched(c)'
                   /\ ledger[c] # NoDraw => SameDraw(c, ledger[c])'
        <4>1. CASE c = case
          BY <4>1, <1>0, <1>a, <1>c, <1>d, NoDrawIsNotADraw
             DEF Stored, LedgerOK, SameDraw, UnitsOf, history, s
        <4>2. CASE c # case
          BY <4>2, <1>0, <1>d DEF Stored, LedgerOK, Untouched, SameDraw, UnitsOf, history
        <4> QED BY <4>1, <4>2
      <3> QED BY <3>1, <1>d DEF LedgerOK, SameDraw
    <2>3. DoubtOK'
      BY <1>0, <1>a, <1>d DEF Stored, DoubtOK, UnitsIn, history
    <2> QED BY <2>1, <2>2, <2>3 DEF Stored
  <1>3. PhasesOK'
    <2>1. (\A v \in Planned : v.case \in Failed => outcome[v] # "planned")'
      BY <1>0, <1>a, <1>d DEF IInv, AtWork, PhasesOK
    <2> QED BY <1>0, <1>d, <2>1 DEF IInv, AtWork, PhasesOK, Loop, history
  <1>4. DrawOK'
    <2>1. SameDraw(case, draw)'
      BY <1>0, <1>a, <1>c, <1>d DEF SameDraw, UnitsOf, history, s
    <2>2. ~retains' => (\A c \in Remaining : c # case => Untouched(c))'
      BY <1>0, <1>d DEF IInv, AtWork, DrawOK, Loop, Untouched, UnitsOf
    <2> QED BY <1>0, <2>1, <2>2, NoDrawIsNotADraw DEF DrawOK, Loop, AtTrial
  <1>5. TrialsOK'
    <2>1. \A v \in Planned : outcome'[v] # "running"
      BY <1>0, <1>a, <1>d DEF IInv, AtWork, TrialsOK, AtTrial
    <2> QED BY <1>0, <1>d, <2>1 DEF IInv, AtWork, TrialsOK, Loop, AtTrial, Sending, history
  <1>6. StopOK'
    BY <1>0 DEF IInv, AtWork, StopOK, StopRequested, history
  <1>7. TallyOK'
    <2>1. tally = TallyOfJournal
      BY <1>0 DEF IInv, AtWork, TallyOK
    <2>2. TallyOfJournal' = [TallyOfJournal EXCEPT !.skipped = @ + 1]
      BY <1>0, <1>a, <1>b, TallyMoves
    <2> QED BY <1>0, <2>1, <2>2 DEF TallyOK
  <1>8. AllowanceOK'
    BY <1>0, <1>d, AllowanceKept DEF Calling, Loop
  <1> QED BY <1>1, <1>2, <1>3, <1>4, <1>5, <1>6, <1>7, <1>8 DEF IInv, AtWork
-----------------------------------------------------------------------------
(* A case that cannot be prepared, and the way to the next case.           *)
LEMMA SettleFailedKeeps ==
    ASSUME IInv, NEW u \in Planned, SettleFailed(u)
    PROVE  IInv'
  <1> USE DEF SettleFailed, control, trial
  <1>0. /\ TypeOK /\ Stored /\ pc = "settling" /\ pc' = "settling" /\ created = 3
        /\ case \in Failed /\ case \in Processed /\ outcome[u] = "planned" /\ u.case = case
        /\ outcome' = [outcome EXCEPT ![u] = "errored"]
    BY LinesOfEvidence DEF IInv, AtWork, PhasesOK, Loop
  <1>a. "errored" \in State
    BY DEF State, Settled
  <1>c. u \notin contacted
    BY <1>0 DEF Stored, CallsOK
  <1>d. /\ Case' = Case /\ Planned' = Planned /\ Places' = Places /\ Planned \subseteq Unit
        /\ Processed' = Processed /\ Failed' = Failed /\ Remaining' = Remaining
        /\ outcome' \in [Unit -> State] /\ outcome'[u] = "errored"
        /\ \A v \in Unit : v # u => outcome'[v] = outcome[v]
        /\ FilesTyped' /\ Callable' \subseteq Callable
    BY <1>0, <1>a, OutcomeSteps
  <1>1. TypeOK'
    <2>1. WorkTyped'
      BY <1>d, <1>0, TypeParts DEF WorkTyped
    <2>2. HistoryTyped'
      BY <1>0, TypeParts, HistoryKept
    <2> QED BY <1>d, <2>1, <2>2 DEF TypeOK, FilesTyped, WorkTyped, HistoryTyped, Ending
  <1>2. Stored'
    <2>1. ((created < 3 => Pristine) /\ OutcomesOK /\ CallsOK /\ EvidenceOK)'
      <3>1. \A v \in Planned :
               /\ outcome[v] \in Settled => outcome'[v] = outcome[v]
               /\ v \in contacted => outcome'[v] \in {"running", "completed", "inconclusive",
                                                      "quarantined"}
               /\ outcome'[v] = "errored" => v.case \in Failed
               /\ outcome'[v] \in {"rejected", "inapplicable"} => v.op # 0
        BY <1>0, <1>c, <1>d DEF Stored, OutcomesOK, CallsOK, Settled
      <3> QED BY <1>0, <1>d, <3>1, SettledKept DEF history
    <2>2. LedgerOK'
      <3>1. ASSUME NEW c \in Case
            PROVE  /\ ~retains => ledger[c] = NoDraw
                   /\ retains /\ ledger[c] = NoDraw /\ c \notin Failed => Untouched(c)'
                   /\ ledger[c] # NoDraw => SameDraw(c, ledger[c])'
        BY <1>0, <1>d DEF Stored, LedgerOK, Untouched, SameDraw, UnitsOf, history
      <3> QED BY <3>1, <1>d DEF LedgerOK, SameDraw
    <2>3. DoubtOK'
      BY <1>0, <1>d DEF Stored, DoubtOK, UnitsIn, history
    <2> QED BY <2>1, <2>2, <2>3 DEF Stored
  <1>3. PhasesOK'
    <2>1. (\A v \in Planned : v.case \in Failed /\ v.case # case => outcome[v] # "planned")'
      BY <1>0, <1>d DEF IInv, AtWork, PhasesOK
    <2> QED BY <1>0, <1>d, <2>1 DEF IInv, AtWork, PhasesOK, Loop, history
  <1>4. DrawOK'
    <2>2. ~retains' => (\A c \in Remaining : c # case => Untouched(c))'
      BY <1>0, <1>d DEF IInv, AtWork, DrawOK, Loop, Untouched, UnitsOf
    <2> QED BY <1>0, <2>2 DEF DrawOK, Loop, AtTrial
  <1>5. TrialsOK'
    <2>1. \A v \in Planned : outcome'[v] # "running"
      BY <1>0, <1>d DEF IInv, AtWork, TrialsOK, AtTrial
    <2> QED BY <1>0, <1>d, <2>1 DEF IInv, AtWork, TrialsOK, Loop, AtTrial, Sending, history
  <1>6. StopOK'
    BY <1>0 DEF IInv, AtWork, StopOK, StopRequested, history
  <1>7. TallyOK'
    <2>1. PICK before : before = UnitsOf(case) \cap UnitsIn({"errored"})
      OBVIOUS
    <2>2. PICK after : after = (UnitsOf(case) \cap UnitsIn({"errored"}))'
      OBVIOUS
    <2>3. after = before \cup {u} /\ u \notin before
      BY <2>1, <2>2, <1>0, <1>d DEF UnitsOf, UnitsIn
    <2>4. IsFiniteSet(before)
      <3>1. IsFiniteSet(UnitsIn({"errored"})) /\ before \in SUBSET UnitsIn({"errored"})
        BY <2>1, <1>0, PlannedIsFinite DEF TypeOK
      <3> QED BY <3>1, FS_Subset
    <2>5. Cardinality(after) = Cardinality(before) + 1 /\ Cardinality(before) \in Nat
      BY <2>3, <2>4, FS_AddElement, FS_CardinalityType
    <2>6. PICK t \in Counters : t = TallyOfJournal
      BY <1>0, TallyShape DEF TypeOK, Counters
    <2>7. TallyOfJournal' = [t EXCEPT !.failed = @ + 1]
      BY <2>6, <1>0, TallyMoves
    <2>8. tally = [t EXCEPT !.failed = @ - Cardinality(before)]
      BY <1>0, <2>1, <2>6 DEF IInv, AtWork, TallyOK
    <2>9. [[t EXCEPT !.failed = @ + 1] EXCEPT !.failed = @ - Cardinality(after)]
             = [t EXCEPT !.failed = @ - Cardinality(before)]
      <3>1. PICK n \in Nat : n = Cardinality(before)
        BY <2>5
      <3>2. PICK f \in Nat : f = t.failed
        BY DEF Counters
      <3>3. [[t EXCEPT !.failed = f + 1] EXCEPT !.failed = (f + 1) - (n + 1)]
               = [t EXCEPT !.failed = f - n]
        <4>1. PICK g \in Nat, h \in Int : g = f + 1 /\ h = f - n /\ h = (f + 1) - (n + 1)
          OBVIOUS
        <4>2. [[t EXCEPT !.failed = g] EXCEPT !.failed = h] = [t EXCEPT !.failed = h]
          BY DEF Counters
        <4> QED BY <4>1, <4>2
      <3>4. [t EXCEPT !.failed = f + 1].failed = f + 1
        BY DEF Counters
      <3> QED BY <3>1, <3>2, <3>3, <3>4, <2>5
    <2>10. (tally = [TallyOfJournal EXCEPT
                      !.failed = @ - Cardinality(UnitsOf(case) \cap UnitsIn({"errored"}))])'
      BY <2>2, <2>7, <2>8, <2>9
    <2> QED BY <1>0, <2>10 DEF TallyOK
  <1>8. AllowanceOK'
    BY <1>0, <1>d, AllowanceKept DEF Calling, Loop
  <1> QED BY <1>1, <1>2, <1>3, <1>4, <1>5, <1>6, <1>7, <1>8 DEF IInv, AtWork

LEMMA WriteFailureKeeps ==
    ASSUME IInv, WriteFailure
    PROVE  IInv'
  <1> USE DEF WriteFailure, control, trial
  <1>0. /\ TypeOK /\ Stored /\ pc = "failing" /\ pc' = "settling" /\ created = 3
        /\ case \in Case /\ case \notin Processed /\ case \notin Failed /\ place = 1
        /\ \A u \in UnitsOf(case) : u \notin contacted
        /\ \A u \in Planned : outcome[u] # "running"
    BY LinesOfEvidence DEF IInv, AtWork, PhasesOK, DrawOK, TrialsOK, AtTrial, Loop, TypeOK
  <1>a. PICK L : L = [case : Case, kind : {"result", "failure"}, draw : Draw \cup {NoDraw}]
    OBVIOUS
  <1>b. PICK line : line = [case |-> case, kind |-> "failure", draw |-> draw]
    OBVIOUS
  <1>c. /\ line \in L /\ evidence \in Seq(L) /\ evidence' = Append(evidence, line)
        /\ line.case = case /\ line.kind = "failure"
    BY <1>a, <1>b, <1>0 DEF TypeOK
  <1>d. /\ evidence' \in Seq(L)
        /\ DOMAIN evidence' = DOMAIN evidence \cup {Len(evidence) + 1}
        /\ \A i \in DOMAIN evidence : evidence'[i] = evidence[i]
        /\ evidence'[Len(evidence) + 1] = line
        /\ Processed' = Processed \cup {case}
        /\ Failed' = Failed \cup {case}
    BY <1>c, EvidenceGrows
  <1>e. /\ Case' = Case /\ Planned' = Planned /\ Remaining' \subseteq Remaining
        /\ TallyOfJournal' = TallyOfJournal /\ \A S : UnitsIn(S)' = UnitsIn(S)
    BY <1>d DEF Case, Planned, Remaining, TallyOfJournal, Attempted, UnitsIn
  <1>1. TypeOK'
    <2>1. FilesTyped'
      BY <1>a, <1>d, <1>e, <1>0, TypeParts DEF FilesTyped
    <2>2. WorkTyped'
      BY <1>e, <1>0, TypeParts DEF WorkTyped, Label, Interruptible
    <2>3. HistoryTyped'
      BY <1>0, TypeParts, HistoryKept
    <2> QED BY <2>1, <2>2, <2>3 DEF TypeOK, FilesTyped, WorkTyped, HistoryTyped, Ending
  <1>2. Stored'
    <2>1. (created < 3 => Pristine)' /\ OutcomesOK' /\ DoubtOK'
      BY <1>0, <1>d, <1>e DEF Stored, OutcomesOK, DoubtOK, history
    <2>2. CallsOK'
      <3>1. \A u \in contacted : u.case # case
        BY <1>0 DEF UnitsOf, Stored, CallsOK
      <3> QED BY <1>0, <1>d, <1>e, <3>1 DEF Stored, CallsOK, Original, history
    <2>3. EvidenceOK'
      <3>1. \A i \in DOMAIN evidence : evidence[i].case # case
        BY <1>0 DEF Processed
      <3>2. \A i, j \in DOMAIN evidence' : evidence'[i].case = evidence'[j].case => i = j
        BY <1>0, <1>c, <1>d, <3>1 DEF Stored, EvidenceOK
      <3>3. ASSUME NEW i \in DOMAIN evidence', evidence'[i].kind = "result",
                   NEW u \in UnitsOf(evidence'[i].case)
            PROVE  outcome[u] \in Settled /\ (u \in contacted => ranWith[u] = evidence'[i].draw)
        <4>1. i \in DOMAIN evidence /\ evidence'[i] = evidence[i]
          BY <3>3, <1>c, <1>d
        <4> QED BY <4>1, <3>3, <1>0 DEF Stored, EvidenceOK
      <3> QED BY <3>2, <3>3, <1>e DEF EvidenceOK, UnitsOf, history
    <2>4. LedgerOK'
      BY <1>0, <1>d, <1>e DEF Stored, LedgerOK, Untouched, SameDraw, UnitsOf, history
    <2> QED BY <2>1, <2>2, <2>3, <2>4 DEF Stored
  <1>3. PhasesOK'
    <2>1. (\A u \in Planned : u.case \in Failed /\ u.case # case => outcome[u] # "planned")'
      BY <1>0, <1>d, <1>e DEF IInv, AtWork, PhasesOK
    <2> QED BY <1>0, <1>d, <1>e, <2>1 DEF IInv, AtWork, PhasesOK, Loop, history
  <1>4. DrawOK'
    <2>1. ~retains' => (\A c \in Remaining : c # case => Untouched(c))'
      BY <1>0, <1>e DEF IInv, AtWork, DrawOK, Loop, Untouched, UnitsOf
    <2> QED BY <1>0, <2>1 DEF DrawOK, Loop, AtTrial
  <1>5. TrialsOK'
    BY <1>0, <1>e DEF IInv, AtWork, TrialsOK, Loop, AtTrial, Sending, history
  <1>6. StopOK'
    BY <1>0 DEF IInv, AtWork, StopOK, StopRequested, history
  <1>7. TallyOK'
    <2>1. (UnitsOf(case) \cap UnitsIn({"errored"}))' = {}
      BY <1>0, <1>e DEF Stored, OutcomesOK, UnitsOf, UnitsIn
    <2>2. Cardinality({}) = 0
      BY FS_EmptySet
    <2>3. PICK t \in Counters : t = TallyOfJournal
      BY <1>0, TallyShape DEF TypeOK, Counters
    <2>4. tally = t
      BY <1>0, <2>3 DEF IInv, AtWork, TallyOK
    <2>5. t = [t EXCEPT !.failed = @ - 0]
      BY DEF Counters
    <2>6. (tally = [TallyOfJournal EXCEPT
                      !.failed = @ - Cardinality(UnitsOf(case) \cap UnitsIn({"errored"}))])'
      BY <2>1, <2>2, <2>3, <2>4, <2>5, <1>e
    <2> QED BY <1>0, <2>6 DEF TallyOK
  <1>8. AllowanceOK'
    <2>1. Callable' \subseteq Callable
      BY <1>e DEF Callable, OperatorStatus
    <2> QED BY <1>0, <2>1, AllowanceKept DEF Calling, Loop
  <1> QED BY <1>1, <1>2, <1>3, <1>4, <1>5, <1>6, <1>7, <1>8 DEF IInv, AtWork

(* The loop moves on to the next case, or ends.                            *)
LEMMA NextCase ==
    ASSUME TypeOK, NEW D, TakeUpNext(D)
    PROVE  /\ \/ pc' = "cleanup" /\ Case \subseteq D /\ case' = case
              \/ pc' = "case" /\ case' \in Case \ D
           /\ place' = 1 /\ draw' = NoDraw /\ result' = result
  <1>1. CASE Case \subseteq D
    BY <1>1 DEF TakeUpNext
  <1>2. CASE ~(Case \subseteq D)
    <2>1. PICK S : S = Case \ D
      OBVIOUS
    <2>2. S \subseteq Nat /\ S # {}
      BY <2>1, <1>2, PlanShape DEF TypeOK
    <2>3. case' = CHOOSE c \in S : \A d \in S : c <= d
      BY <2>1, <1>2 DEF TakeUpNext
    <2> QED BY <2>1, <2>2, <2>3, <1>2, LeastIsChosen DEF TakeUpNext
  <1> QED BY <1>1, <1>2

LEMMA MovingOn ==
    ASSUME IInv, pc \in {"settling", "write"},
           UNCHANGED <<plan, retains, created, outcome, ledger, control, history>>,
           \/ pc' = "cleanup" /\ Case \subseteq Processed' /\ case' = case
           \/ pc' = "case" /\ case' \in Case \ Processed',
           place' = 1, draw' = NoDraw, case \in Processed', Processed \subseteq Processed',
           Failed' = Failed, \A u \in Planned : u.case \in Failed => outcome[u] # "planned"
    PROVE  PhasesOK' /\ DrawOK' /\ TrialsOK' /\ StopOK' /\ AllowanceOK'
  <1> USE DEF control
  <1>a. /\ Case' = Case /\ Planned' = Planned /\ Remaining' \subseteq Remaining
        /\ \A c \in Remaining' : c # case
        /\ \A S : UnitsIn(S)' = UnitsIn(S)
    BY DEF Case, Planned, Remaining, UnitsIn
  <1>1. PhasesOK'
    BY <1>a DEF IInv, AtWork, PhasesOK, Loop, history
  <1>2. DrawOK'
    <2>1. ~retains' => (\A c \in Remaining : Untouched(c))'
      BY <1>a DEF IInv, AtWork, DrawOK, Loop, Untouched, UnitsOf
    <2> QED BY <2>1 DEF DrawOK, Loop, AtTrial
  <1>3. TrialsOK'
    BY <1>a DEF IInv, AtWork, TrialsOK, Loop, AtTrial, Sending, history
  <1>4. StopOK'
    BY DEF IInv, AtWork, StopOK, StopRequested, history
  <1>5. AllowanceOK'
    <2>1. Callable' \subseteq Callable
      BY <1>a DEF Callable, OperatorStatus
    <2> QED BY <2>1, AllowanceKept DEF Calling, Loop
  <1> QED BY <1>1, <1>2, <1>3, <1>4, <1>5

LEMMA SettlingEndsKeeps ==
    ASSUME IInv, SettlingEnds
    PROVE  IInv'
  <1> USE DEF SettlingEnds, control
  <1>0. /\ TypeOK /\ Stored /\ pc = "settling" /\ case \in Failed /\ case \in Processed
        /\ UNCHANGED <<files, control, history>> /\ Quiet /\ case \in Case
        /\ \A u \in UnitsOf(case) : outcome[u] # "planned"
    BY LinesOfEvidence DEF IInv, AtWork, PhasesOK, Loop, TypeOK, Quiet, record, history
  <1>a. /\ \/ pc' = "cleanup" /\ Case \subseteq Processed /\ case' = case
           \/ pc' = "case" /\ case' \in Case \ Processed
        /\ place' = 1 /\ draw' = NoDraw /\ result' = result
    <2>1. PICK D : D = Processed
      OBVIOUS
    <2>2. TakeUpNext(D)
      BY <2>1
    <2> QED BY <2>1, <2>2, <1>0, NextCase
  <1>c. TallyOfJournal' = TallyOfJournal /\ Processed' = Processed /\ Failed' = Failed /\ Case' = Case
    BY <1>0, Frame DEF files
  <1>d. tally' = TallyOfJournal
    <2>1. PICK errored : errored = UnitsOf(case) \cap UnitsIn({"errored"})
      OBVIOUS
    <2>2. Cardinality(errored) \in Nat
      <3>1. IsFiniteSet(UnitsIn({"errored"})) /\ errored \in SUBSET UnitsIn({"errored"})
        BY <2>1, <1>0, PlannedIsFinite DEF TypeOK
      <3> QED BY <3>1, FS_Subset, FS_CardinalityType
    <2>3. PICK t \in Counters : t = TallyOfJournal
      BY <1>0, TallyShape DEF TypeOK, Counters
    <2>4. PICK f \in Nat, n \in Nat : f = t.failed /\ n = Cardinality(errored)
      BY <2>2 DEF Counters
    <2>5. tally = [t EXCEPT !.failed = f - n]
      BY <1>0, <2>1, <2>3, <2>4 DEF IInv, AtWork, TallyOK
    <2>6. tally' = [tally EXCEPT !.failed = @ + n]
      BY <1>0, <2>1, <2>4
    <2>7. PICK h \in Int : h = f - n /\ h + n = f
      BY <2>4
    <2>8. [t EXCEPT !.failed = h].failed = h
      BY DEF Counters
    <2>9. [[t EXCEPT !.failed = h] EXCEPT !.failed = f] = t
      BY <2>4 DEF Counters
    <2> QED BY <2>3, <2>5, <2>6, <2>7, <2>8, <2>9
  <1>b. WorkTyped'
    <2>0. tally' \in Counters
      BY <1>0, <1>d, TallyShape DEF TypeOK, Counters
    <2>1. tally' \in [{"completed", "skipped", "failed", "running", "calls"} -> Nat]
      BY <2>0, CountersAreRecords
    <2> QED BY <1>a, <1>c, <2>1, <1>0, TypeParts DEF WorkTyped, Label, Interruptible
  <1>1. TypeOK' /\ Stored'
    BY <1>0, <1>b, QuietSteps
  <1>2. \A u \in Planned : u.case \in Failed => outcome[u] # "planned"
    BY <1>0 DEF UnitsOf, IInv, AtWork, PhasesOK
  <1>3. PhasesOK' /\ DrawOK' /\ TrialsOK' /\ StopOK' /\ AllowanceOK'
    BY <1>0, <1>a, <1>c, <1>2, MovingOn DEF files
  <1>4. TallyOK'
    BY <1>a, <1>c, <1>d DEF TallyOK
  <1> QED BY <1>1, <1>3, <1>4 DEF IInv, AtWork

LEMMA WriteEvidenceKeeps ==
    ASSUME IInv, WriteEvidence
    PROVE  IInv'
  <1> USE DEF WriteEvidence, control
  <1>0. /\ TypeOK /\ Stored /\ pc = "write" /\ created = 3
        /\ case \in Case /\ case \notin Processed /\ draw \in Draw
        /\ \A u \in UnitsOf(case) : outcome[u] \in Settled
        /\ \A u \in Planned : outcome[u] # "running"
        /\ SameDraw(case, draw)
    BY NoDrawIsNotADraw DEF IInv, AtWork, PhasesOK, DrawOK, TrialsOK, AtTrial, Loop, TypeOK
  <1>a. PICK L : L = [case : Case, kind : {"result", "failure"}, draw : Draw \cup {NoDraw}]
    OBVIOUS
  <1>b. PICK line : line = [case |-> case, kind |-> "result", draw |-> draw]
    OBVIOUS
  <1>c. /\ line \in L /\ evidence \in Seq(L) /\ evidence' = Append(evidence, line)
        /\ line.case = case /\ line.kind = "result" /\ line.draw = draw
    BY <1>a, <1>b, <1>0 DEF TypeOK
  <1>d. /\ evidence' \in Seq(L)
        /\ DOMAIN evidence' = DOMAIN evidence \cup {Len(evidence) + 1}
        /\ \A i \in DOMAIN evidence : evidence'[i] = evidence[i]
        /\ evidence'[Len(evidence) + 1] = line
        /\ Processed' = Processed \cup {case}
        /\ Failed' = Failed
    BY <1>c, EvidenceGrows
  <1>e. /\ Case' = Case /\ Planned' = Planned /\ TallyOfJournal' = TallyOfJournal
        /\ \A S : UnitsIn(S)' = UnitsIn(S)
    BY DEF Case, Planned, TallyOfJournal, Attempted, UnitsIn
  <1>f. /\ \/ pc' = "cleanup" /\ Case \subseteq Processed' /\ case' = case
           \/ pc' = "case" /\ case' \in Case \ Processed'
        /\ place' = 1 /\ draw' = NoDraw /\ result' = result
    <2>1. PICK D : D = Processed \cup {case}
      OBVIOUS
    <2>2. TakeUpNext(D)
      BY <2>1
    <2> QED BY <2>1, <2>2, <1>0, <1>d, NextCase
  <1>1. TypeOK'
    <2>1. FilesTyped'
      BY <1>a, <1>d, <1>e, <1>0, TypeParts DEF FilesTyped
    <2>2. WorkTyped'
      BY <1>e, <1>f, <1>0, TypeParts DEF WorkTyped, Label, Interruptible
    <2>3. HistoryTyped'
      BY <1>0, TypeParts, HistoryKept
    <2> QED BY <2>1, <2>2, <2>3 DEF TypeOK, FilesTyped, WorkTyped, HistoryTyped, Ending
  <1>2. Stored'
    <2>1. (created < 3 => Pristine)' /\ OutcomesOK' /\ DoubtOK'
      BY <1>0, <1>d, <1>e DEF Stored, OutcomesOK, DoubtOK, history
    <2>2. CallsOK'
      BY <1>0, <1>d, <1>e DEF Stored, CallsOK, Original, history
    <2>3. EvidenceOK'
      <3>1. \A i \in DOMAIN evidence : evidence[i].case # case
        BY <1>0 DEF Processed
      <3>2. \A i, j \in DOMAIN evidence' : evidence'[i].case = evidence'[j].case => i = j
        BY <1>0, <1>c, <1>d, <3>1 DEF Stored, EvidenceOK
      <3>3. ASSUME NEW i \in DOMAIN evidence', evidence'[i].kind = "result",
                   NEW u \in UnitsOf(evidence'[i].case)
            PROVE  outcome[u] \in Settled /\ (u \in contacted => ranWith[u] = evidence'[i].draw)
        <4>1. CASE i \in DOMAIN evidence
          BY <4>1, <3>3, <1>0, <1>d DEF Stored, EvidenceOK
        <4>2. CASE i = Len(evidence) + 1
          BY <4>2, <3>3, <1>0, <1>c, <1>d DEF SameDraw
        <4> QED BY <4>1, <4>2, <3>3, <1>d
      <3> QED BY <3>2, <3>3, <1>e DEF EvidenceOK, UnitsOf, history
    <2>4. LedgerOK'
      BY <1>0, <1>d, <1>e DEF Stored, LedgerOK, Untouched, SameDraw, UnitsOf, history
    <2> QED BY <2>1, <2>2, <2>3, <2>4 DEF Stored
  <1>3. \A u \in Planned : u.case \in Failed => outcome[u] # "planned"
    BY <1>0 DEF IInv, AtWork, PhasesOK
  <1>4. PhasesOK' /\ DrawOK' /\ TrialsOK' /\ StopOK' /\ AllowanceOK'
    BY <1>0, <1>d, <1>f, <1>3, MovingOn
  <1>5. TallyOK'
    BY <1>0, <1>e, <1>f, TallyKept DEF Even
  <1> QED BY <1>1, <1>2, <1>4, <1>5 DEF IInv, AtWork

LEMMA ReportKeeps ==
    ASSUME IInv, Report
    PROVE  IInv'
  <1> USE DEF Report, record
  <1>0. /\ TypeOK /\ Stored /\ pc = "cleanup" /\ Case \subseteq Processed
        /\ UNCHANGED <<files, record>> /\ Leave("completed") /\ notices' = notices + 1
    BY DEF IInv, AtWork, PhasesOK
  <1>1. TypeOK'
    <2>1. notices' \in Nat /\ "completed" \in Ending
      BY <1>0 DEF TypeOK, Ending
    <2> QED BY <1>0, <2>1, LeavingIsTyped DEF files, TypeOK
  <1>2. Stored'
    BY <1>0, StoredKept DEF files, Kept
  <1>3. StopOK'
    <2>1. Remaining = {} /\ \A u \in Planned : outcome[u] \in Settled
      BY <1>0, ProcessedIsSettled, UnitsHaveCases DEF AtTrial, Remaining
    <2>2. Remaining' = {} /\ UnitsIn({"planned", "running"})' = {}
      BY <2>1, Frame DEF files, UnitsIn, Settled
    <2> QED BY <1>0, <2>2 DEF IInv, AtWork, StopOK, Leave
  <1> QED BY <1>0, <1>1, <1>2, <1>3, LeavingIsNoWork DEF IInv, AtWork
-----------------------------------------------------------------------------
(* The trials of a case.  What a step at them does not change.             *)
LEMMA SameTrial ==
    ASSUME Quiet, UNCHANGED <<case, draw>>
    PROVE  /\ \A k : UnitAt(k)' = UnitAt(k)
           /\ place' = place => Here' = Here
           /\ Accepted' = Accepted /\ Declined' = Declined
           /\ \A S : UnitsIn(S)' = UnitsIn(S)
           /\ \A c : UnitsOf(c)' = UnitsOf(c)
  <1>1. Planned' = Planned /\ outcome' = outcome
    BY DEF Quiet, files, Planned
  <1>2. \A k : UnitAt(k)' = UnitAt(k)
    BY DEF UnitAt
  <1>3. place' = place => Here' = Here
    BY <1>2 DEF Here, UnitAt
  <1> QED BY <1>1, <1>2, <1>3 DEF Accepted, Declined, UnitsOf, UnitsIn

(* The trial at hand is either to be run and planned, or settled.          *)
LEMMA TrialAtHand ==
    ASSUME IInv, pc = "trial", place \in Places
    PROVE  /\ Here \in Planned /\ Here \in UnitsOf(case) /\ Here.op \in 0 .. Operators
           /\ ToBeRun(Here) => outcome[Here] = "planned"
           /\ ~ToBeRun(Here) => outcome[Here] \in Settled
  <1>1. /\ Here \in Planned /\ Here \in UnitsOf(case) /\ Here.op \in 0 .. Operators
        /\ Here.case = case /\ Here \in Unit
    BY HereIsPlanned DEF IInv
  <1>2. /\ outcome[Here] \in State /\ outcome[Here] # "running" /\ case \notin Failed
        /\ draw \in Draw /\ SameDraw(case, draw)
    BY <1>1, LinesOfEvidence, NoDrawIsNotADraw
       DEF IInv, TypeOK, AtWork, TrialsOK, DrawOK, PhasesOK, AtTrial, Loop
  <1>3. ASSUME ToBeRun(Here) PROVE outcome[Here] = "planned"
    <2>1. outcome[Here] \notin {"completed", "inconclusive", "skipped", "quarantined"}
      BY <1>3 DEF ToBeRun, Recovered
    <2>2. outcome[Here] # "errored"
      BY <1>1, <1>2 DEF IInv, Stored, OutcomesOK
    <2>3. outcome[Here] \notin {"rejected", "inapplicable"}
      <3>1. SUFFICES ASSUME outcome[Here] \in {"rejected", "inapplicable"} PROVE FALSE
        OBVIOUS
      <3>2. outcome[Here] = draw.verdict[Here.op] /\ Here.op # 0
        BY <3>1, <1>1, <1>2 DEF SameDraw, IInv, Stored, OutcomesOK
      <3>3. Here.op \in Accepted
        BY <3>2, <1>3 DEF ToBeRun
      <3> QED BY <3>1, <3>2, <3>3 DEF Accepted
    <2> QED BY <1>2, <2>1, <2>2, <2>3 DEF State, Settled
  <1>4. ASSUME ~ToBeRun(Here) PROVE outcome[Here] \in Settled
    <2>1. CASE Recovered(Here)
      BY <2>1 DEF Recovered, Settled
    <2>2. CASE Here.op # 0 /\ Here.op \notin Accepted
      <3>1. Here \in Declined
        BY <2>2, <1>1 DEF Declined
      <3>2. outcome[Here] # "planned"
        BY <3>1 DEF IInv, AtWork, TrialsOK
      <3> QED BY <3>2, <1>2 DEF State
    <2> QED BY <1>4, <2>1, <2>2 DEF ToBeRun
  <1> QED BY <1>1, <1>3, <1>4

LEMMA PassOverKeeps ==
    ASSUME IInv, PassOver
    PROVE  IInv'
  <1> USE DEF PassOver, control
  <1>0. /\ TypeOK /\ pc = "trial" /\ pc' = "trial" /\ Quiet /\ draw \in Draw
        /\ place \in Nat /\ outcome[Here] \in Settled /\ Places \subseteq Nat
    BY TrialAtHand, UnitsInOrder DEF IInv, AtWork, DrawOK, Quiet, record, history, TypeOK
  <1>b. WorkTyped'
    <2>1. Case' = Case
      BY DEF Case, files
    <2> QED BY <2>1, <1>0, TypeParts DEF WorkTyped
  <1>1. TypeOK' /\ Stored'
    BY <1>0, <1>b, QuietSteps
  <1>2. PhasesOK'
    BY <1>0, <1>b, PhasesMove DEF Loop
  <1>3. DrawOK'
    <2>1. Accepted = {} \/ draw.comparable
      BY <1>0 DEF IInv, AtWork, DrawOK
    <2> QED BY <1>0, <1>b, <2>1, DrawKept, NoDrawIsNotADraw DEF Loop, AtTrial, AtTrials
  <1>4. TrialsOK'
    <2>1. \A k \in Places : k < place + 1 => outcome[UnitAt(k)] \in Settled
      <3>1. \A k \in Places : k < place => outcome[UnitAt(k)] \in Settled
        BY <1>0 DEF IInv, AtWork, TrialsOK
      <3>2. \A k \in Places : k < place + 1 => k < place \/ k = place
        BY <1>0
      <3> QED BY <3>1, <3>2, <1>0 DEF Here
    <2>2. \A k \in Places' : k < place' => outcome'[UnitAt(k)'] \in Settled
      BY <2>1, <1>0, <1>b, QuietSteps, SameTrial
    <2>3. (\A k \in Places : k < place => outcome[UnitAt(k)] \in Settled)'
      BY <2>2
    <2>4. /\ (\A u \in Declined : outcome[u] # "planned")'
          /\ (\A u \in Planned : outcome[u] # "running")'
          /\ ("unfinished" \in suspect => uncertain)'
      BY <1>0, <1>b, QuietSteps, SameTrial DEF IInv, AtWork, TrialsOK, AtTrial, Loop
    <2> QED BY <1>0, <2>3, <2>4 DEF TrialsOK, Loop, AtTrial, Sending
  <1>5. StopOK'
    BY <1>0, QuietStops
  <1>6. TallyOK'
    BY <1>0, <1>b, QuietSteps, TallyKept DEF Even
  <1>7. AllowanceOK'
    BY <1>0, <1>b, QuietSteps, AllowanceKept DEF Calling, Loop
  <1> QED BY <1>1, <1>2, <1>3, <1>4, <1>5, <1>6, <1>7 DEF IInv, AtWork

(* A trial that is not run, and one that is stopped before it begins.      *)
LEMMA NotRunKeeps ==
    ASSUME IInv, pc = "trial", place \in Places, ToBeRun(Here), pc' = "record", Quiet,
           result' = "skipped" \/ (result' = "inconclusive" /\ StopRequested),
           UNCHANGED <<case, place, draw, control, tally>>
    PROVE  IInv'
  <1> USE DEF control
  <1>0. /\ TypeOK /\ draw \in Draw /\ outcome[Here] = "planned"
    BY TrialAtHand DEF IInv, AtWork, DrawOK
  <1>b. WorkTyped'
    <2>1. Case' = Case
      BY DEF Case, files, Quiet
    <2> QED BY <2>1, <1>0, TypeParts DEF WorkTyped, Label, Interruptible
  <1>1. TypeOK' /\ Stored'
    BY <1>0, <1>b, QuietSteps
  <1>2. PhasesOK'
    BY <1>0, <1>b, PhasesMove DEF Loop
  <1>3. DrawOK'
    <2>1. Accepted = {} \/ draw.comparable
      BY <1>0 DEF IInv, AtWork, DrawOK
    <2> QED BY <1>0, <1>b, <2>1, DrawKept, NoDrawIsNotADraw DEF Loop, AtTrial, AtTrials
  <1>c. /\ outcome'[Here'] = "planned" /\ Places' = Places /\ Here' = Here
        /\ UnitsIn({"running"})' = UnitsIn({"running"})
    BY <1>0, <1>b, QuietSteps, SameTrial
  <1>4. TrialsOK'
    <2>1. \A k \in Places : k < place => outcome[UnitAt(k)] \in Settled
      BY <1>0 DEF IInv, AtWork, TrialsOK
    <2>2. \A k \in Places' : k < place' => outcome'[UnitAt(k)'] \in Settled
      BY <2>1, <1>0, <1>b, QuietSteps, SameTrial
    <2>3. (\A k \in Places : k < place => outcome[UnitAt(k)] \in Settled)'
      BY <2>2
    <2>4. /\ (\A u \in Declined : outcome[u] # "planned")'
          /\ (\A u \in Planned : outcome[u] # "running")'
          /\ ("unfinished" \in suspect => uncertain)'
      BY <1>0, <1>b, QuietSteps, SameTrial DEF IInv, AtWork, TrialsOK, AtTrial, Loop
    <2>5. (result = "skipped" \/ (result = "inconclusive" /\ StopRequested))'
      BY DEF StopRequested
    <2> QED BY <1>c, <2>3, <2>4, <2>5 DEF TrialsOK, Loop, AtTrial, Sending
  <1>5. StopOK'
    BY <1>0, QuietStops
  <1>6. TallyOK'
    <2>1. tally' = TallyOfJournal'
      BY <1>0, <1>b, QuietSteps DEF IInv, AtWork, TallyOK
    <2> QED BY <1>c, <2>1 DEF TallyOK
  <1>7. AllowanceOK'
    BY <1>0, <1>b, QuietSteps, AllowanceKept DEF Calling, Loop
  <1> QED BY <1>1, <1>2, <1>3, <1>4, <1>5, <1>6, <1>7 DEF IInv, AtWork

LEMMA NotExecutedKeeps ==
    ASSUME IInv, NotExecuted
    PROVE  IInv'
  <1>1. Quiet
    BY DEF NotExecuted, Quiet, record, history, IInv, TypeOK
  <1> QED BY <1>1, NotRunKeeps DEF NotExecuted

LEMMA TrialBoundaryKeeps ==
    ASSUME IInv, TrialBoundary
    PROVE  IInv'
  <1>a. Quiet
    BY DEF TrialBoundary, Quiet, record, IInv, TypeOK
  <1>1. CASE StopRequested
    BY <1>a, <1>1, NotRunKeeps DEF TrialBoundary
  <1>2. CASE ~StopRequested
    <2> USE DEF TrialBoundary, control
    <2>0. /\ TypeOK /\ draw \in Draw /\ outcome[Here] = "planned" /\ pc = "trial" /\ pc' = "start"
          /\ UNCHANGED <<case, place, draw, result, control, tally>> /\ place \in Places
      BY <1>2, TrialAtHand DEF IInv, AtWork, DrawOK
    <2>b. WorkTyped'
      <3>1. Case' = Case
        BY DEF Case, files
      <3> QED BY <3>1, <2>0, TypeParts DEF WorkTyped, Label, Interruptible
    <2>1. TypeOK' /\ Stored'
      BY <1>a, <2>0, <2>b, QuietSteps
    <2>2. PhasesOK'
      BY <1>a, <2>0, <2>b, PhasesMove DEF Loop
    <2>3. DrawOK'
      <3>1. Accepted = {} \/ draw.comparable
        BY <2>0 DEF IInv, AtWork, DrawOK
      <3> QED BY <1>a, <2>0, <2>b, <3>1, DrawKept, NoDrawIsNotADraw DEF Loop, AtTrial, AtTrials
    <2>c. /\ outcome'[Here'] = "planned" /\ Places' = Places /\ Here' = Here /\ Accepted' = Accepted
          /\ outcome' = outcome
      BY <1>a, <2>0, <2>b, QuietSteps, SameTrial
    <2>4. TrialsOK'
      <3>1. \A k \in Places : k < place => outcome[UnitAt(k)] \in Settled
        BY <2>0 DEF IInv, AtWork, TrialsOK
      <3>2. \A k \in Places' : k < place' => outcome'[UnitAt(k)'] \in Settled
        BY <3>1, <1>a, <2>0, <2>b, QuietSteps, SameTrial
      <3>3. (\A k \in Places : k < place => outcome[UnitAt(k)] \in Settled)'
        BY <3>2
      <3>4. /\ (\A u \in Declined : outcome[u] # "planned")'
            /\ (\A u \in Planned : outcome[u] # "running")'
            /\ ("unfinished" \in suspect => uncertain)'
        BY <1>a, <2>0, <2>b, QuietSteps, SameTrial DEF IInv, AtWork, TrialsOK, AtTrial, Loop
      <3>5. /\ ~uncertain
            /\ Here.op = 0 => Accepted # {}
            /\ Here.op # 0 => Here.op \in Accepted /\ outcome[Original(Here)] = "completed"
        BY DEF NotToBeExecuted, ToBeRun
      <3>6. /\ ~uncertain'
            /\ Here'.op = 0 => Accepted' # {}
            /\ Here'.op # 0 => Here'.op \in Accepted' /\ outcome'[Original(Here)'] = "completed"
        BY <3>5, <2>c DEF Original
      <3> QED BY <2>0, <2>c, <3>3, <3>4, <3>6 DEF TrialsOK, Loop, AtTrial, Sending
    <2>5. StopOK'
      <3>1. lateStarts = 0 /\ ending = "none"
        BY <1>2, <2>0 DEF IInv, AtWork, StopOK, TypeOK
      <3> QED BY <3>1, <2>0, <1>a DEF StopOK, Quiet, record
    <2>6. TallyOK'
      BY <1>a, <2>0, <2>b, QuietSteps, TallyKept DEF Even
    <2>7. AllowanceOK'
      BY <1>a, <2>0, <2>b, QuietSteps, AllowanceKept DEF Calling, Loop
    <2> QED BY <2>1, <2>2, <2>3, <2>4, <2>5, <2>6, <2>7 DEF IInv, AtWork
  <1> QED BY <1>1, <1>2

LEMMA TrialsEndKeeps ==
    ASSUME IInv, TrialsEnd
    PROVE  IInv'
  <1> USE DEF TrialsEnd, control, trial
  <1>0. /\ TypeOK /\ pc = "trial" /\ pc' = "judge" /\ Quiet /\ draw \in Draw
        /\ place \notin Places
    BY DEF IInv, AtWork, DrawOK, Quiet, record, history, TypeOK
  <1>b. WorkTyped'
    <2>1. Case' = Case
      BY DEF Case, files
    <2> QED BY <2>1, <1>0, TypeParts DEF WorkTyped, Label, Interruptible
  <1>1. TypeOK' /\ Stored'
    BY <1>0, <1>b, QuietSteps
  <1>2. PhasesOK'
    BY <1>0, <1>b, PhasesMove DEF Loop
  <1>3. DrawOK'
    <2>1. Accepted = {} \/ draw.comparable
      BY <1>0 DEF IInv, AtWork, DrawOK
    <2> QED BY <1>0, <1>b, <2>1, DrawKept, NoDrawIsNotADraw DEF Loop, AtTrial, AtTrials
  <1>4. TrialsOK'
    <2>1. \A k \in Places : k < place
      <3>1. PICK n \in Nat : n = plan.repetitions * (1 + Operators)
        BY <1>0, PlanShape DEF TypeOK
      <3> QED BY <3>1, <1>0 DEF Places, TypeOK
    <2>2. \A u \in UnitsOf(case) : outcome[u] \in Settled
      BY <2>1, <1>0, UnitsInOrder DEF IInv, AtWork, TrialsOK
    <2>3. (\A u \in UnitsOf(case) : outcome[u] \in Settled)'
      BY <2>2, <1>0, <1>b, QuietSteps, SameTrial
    <2>4. /\ (\A u \in Declined : outcome[u] # "planned")'
          /\ (\A u \in Planned : outcome[u] # "running")'
          /\ ("unfinished" \in suspect => uncertain)'
      BY <1>0, <1>b, QuietSteps, SameTrial DEF IInv, AtWork, TrialsOK, AtTrial, Loop
    <2> QED BY <1>0, <2>3, <2>4 DEF TrialsOK, Loop, AtTrial, Sending
  <1>5. StopOK'
    BY <1>0, QuietStops
  <1>6. TallyOK'
    BY <1>0, <1>b, QuietSteps, TallyKept DEF Even
  <1>7. AllowanceOK'
    BY <1>0, <1>b, QuietSteps, AllowanceKept DEF Calling, Loop
  <1> QED BY <1>1, <1>2, <1>3, <1>4, <1>5, <1>6, <1>7 DEF IInv, AtWork

LEMMA JudgeKeeps ==
    ASSUME IInv, Judge
    PROVE  IInv'
  <1> USE DEF Judge, control, trial
  <1>0. /\ TypeOK /\ pc = "judge" /\ pc' = "write" /\ Quiet /\ draw \in Draw
    BY DEF IInv, AtWork, DrawOK, Quiet, record, history, TypeOK
  <1>b. WorkTyped'
    <2>1. Case' = Case
      BY DEF Case, files
    <2> QED BY <2>1, <1>0, TypeParts DEF WorkTyped, Label, Interruptible
  <1>1. TypeOK' /\ Stored'
    BY <1>0, <1>b, QuietSteps
  <1>2. PhasesOK'
    BY <1>0, <1>b, PhasesMove DEF Loop
  <1>3. DrawOK'
    <2>1. Accepted = {} \/ draw.comparable
      BY <1>0 DEF IInv, AtWork, DrawOK
    <2> QED BY <1>0, <1>b, <2>1, DrawKept, NoDrawIsNotADraw DEF Loop, AtTrial, AtTrials
  <1>4. TrialsOK'
    <2>1. \A u \in UnitsOf(case) : outcome[u] \in Settled
      BY <1>0 DEF IInv, AtWork, TrialsOK
    <2>2. (\A u \in UnitsOf(case) : outcome[u] \in Settled)'
      BY <2>1, <1>0, <1>b, QuietSteps, SameTrial
    <2>3. /\ (\A u \in Declined : outcome[u] # "planned")'
          /\ (\A u \in Planned : outcome[u] # "running")'
          /\ ("unfinished" \in suspect => uncertain)'
      BY <1>0, <1>b, QuietSteps, SameTrial DEF IInv, AtWork, TrialsOK, AtTrial, Loop
    <2> QED BY <1>0, <2>2, <2>3 DEF TrialsOK, Loop, AtTrial, Sending
  <1>5. StopOK'
    BY <1>0, QuietStops
  <1>6. TallyOK'
    BY <1>0, <1>b, QuietSteps, TallyKept DEF Even
  <1>7. AllowanceOK'
    BY <1>0, <1>b, QuietSteps, AllowanceKept DEF Calling, Loop
  <1> QED BY <1>1, <1>2, <1>3, <1>4, <1>5, <1>6, <1>7 DEF IInv, AtWork
-----------------------------------------------------------------------------
(* The outcome of the trial at hand is recorded.                           *)
LEMMA HereIsRecorded ==
    ASSUME IInv, pc \in AtTrial, outcome[Here] \in {"planned", "running"},
           NEW s \in {"running", "completed", "inconclusive", "skipped", "quarantined"},
           outcome' = [outcome EXCEPT ![Here] = s],
           outcome[Here] = "running" => s \in {"completed", "inconclusive", "quarantined"},
           outcome[Here] = "running" /\ "unfinished" \in suspect => s = "quarantined",
           UNCHANGED <<plan, retains, created, receipt, ledger, evidence, torn, attested,
                       contacted, ranWith, suspect>>
    PROVE  /\ Stored' /\ FilesTyped' /\ Callable' \subseteq Callable
           /\ Case' = Case /\ Planned' = Planned /\ Places' = Places /\ Planned \subseteq Unit
           /\ Processed' = Processed /\ Failed' = Failed /\ Remaining' = Remaining
           /\ Here \in Planned /\ Here \in UnitsOf(case) /\ outcome'[Here] = s
           /\ outcome' \in [Unit -> State]
           /\ \A v \in Unit : v # Here => outcome'[v] = outcome[v]
           /\ \A c, d : SameDraw(c, d) => SameDraw(c, d)'
  <1>0. /\ TypeOK /\ Stored /\ place \in Places /\ created = 3 /\ draw \in Draw
        /\ case \notin Processed
        /\ retains => ledger[case] = draw
    BY NoDrawIsNotADraw DEF IInv, AtWork, PhasesOK, DrawOK, TrialsOK, AtTrial, Loop
  <1>1. /\ Here \in Planned /\ Here \in UnitsOf(case) /\ Here.case = case
    BY <1>0, HereIsPlanned
  <1>2. s \in State /\ s # "planned"
    BY DEF State, Settled
  <1>3. PICK u \in Planned : u = Here
    BY <1>1
  <1>4. /\ Case' = Case /\ Planned' = Planned /\ Places' = Places /\ Planned \subseteq Unit
        /\ Processed' = Processed /\ Failed' = Failed /\ Remaining' = Remaining
        /\ outcome' \in [Unit -> State] /\ outcome'[u] = s
        /\ \A v \in Unit : v # u => outcome'[v] = outcome[v]
        /\ FilesTyped' /\ Callable' \subseteq Callable
    BY <1>2, <1>3, OutcomeSteps
  <1>6. Stored'
    <2>1. ((created < 3 => Pristine) /\ OutcomesOK /\ CallsOK /\ EvidenceOK)'
      <3>1. \A v \in Planned :
               /\ outcome[v] \in Settled => outcome'[v] = outcome[v]
               /\ v \in contacted => outcome'[v] \in {"running", "completed", "inconclusive",
                                                      "quarantined"}
               /\ outcome'[v] = "errored" => v.case \in Failed
               /\ outcome'[v] \in {"rejected", "inapplicable"} => v.op # 0
        BY <1>0, <1>3, <1>4 DEF Stored, OutcomesOK, CallsOK, Settled
      <3> QED BY <1>0, <1>4, <3>1, SettledKept
    <2>2. LedgerOK'
      <3>1. ASSUME NEW c \in Case
            PROVE  /\ ~retains => ledger[c] = NoDraw
                   /\ retains /\ ledger[c] = NoDraw /\ c \notin Failed => Untouched(c)'
                   /\ ledger[c] # NoDraw => SameDraw(c, ledger[c])'
        <4>1. CASE c = case
          <5>1. ~retains => ledger[c] = NoDraw
            BY <1>0 DEF Stored, LedgerOK
          <5>2. retains => ledger[c] # NoDraw
            BY <4>1, <1>0, NoDrawIsNotADraw
          <5>3. ledger[c] # NoDraw => SameDraw(c, ledger[c])
            BY <1>0 DEF Stored, LedgerOK
          <5>4. ledger[c] # NoDraw => SameDraw(c, ledger[c])'
            <6>1. PICK d : d = ledger[c]
              OBVIOUS
            <6> QED BY <5>3, <6>1, <1>4 DEF SameDraw, UnitsOf
          <5> QED BY <5>1, <5>2, <5>4
        <4>2. CASE c # case
          BY <4>2, <1>0, <1>1, <1>3, <1>4 DEF Stored, LedgerOK, Untouched, SameDraw, UnitsOf
        <4> QED BY <4>1, <4>2
      <3> QED BY <3>1, <1>4 DEF LedgerOK, SameDraw
    <2>3. DoubtOK'
      <3>1. attested \subseteq UnitsIn({"quarantined"})'
        BY <1>0, <1>3, <1>4 DEF Stored, DoubtOK, UnitsIn
      <3>2. "unfinished" \in suspect =>
               UnitsIn({"running", "quarantined"}) \subseteq UnitsIn({"running", "quarantined"})'
        BY <1>3, <1>4 DEF UnitsIn
      <3> QED BY <3>1, <3>2, <1>0 DEF Stored, DoubtOK
    <2> QED BY <2>1, <2>2, <2>3 DEF Stored
  <1>7. \A c, d : SameDraw(c, d) => SameDraw(c, d)'
    BY <1>4 DEF SameDraw, UnitsOf
  <1> QED BY <1>1, <1>3, <1>4, <1>6, <1>7

(* journal.start: the trial at hand is no longer one that may be called.   *)
LEMMA StartTrialKeeps ==
    ASSUME IInv, StartTrial
    PROVE  IInv'
  <1> USE DEF StartTrial, control, trial
  <1>0. /\ TypeOK /\ Stored /\ pc = "start" /\ pc' = "register" /\ pc \in AtTrial
        /\ outcome[Here] = "planned" /\ place \in Places /\ draw \in Draw
        /\ outcome' = [outcome EXCEPT ![Here] = "running"] /\ created = 3
        /\ SameDraw(case, draw) /\ case \in Case /\ case \notin Processed
    BY NoDrawIsNotADraw DEF IInv, AtWork, PhasesOK, DrawOK, TrialsOK, AtTrial, Loop, TypeOK
  <1>a. /\ Stored' /\ FilesTyped' /\ Callable' \subseteq Callable
        /\ Case' = Case /\ Planned' = Planned /\ Places' = Places /\ Planned \subseteq Unit
        /\ Processed' = Processed /\ Failed' = Failed /\ Remaining' = Remaining
        /\ Here \in Planned /\ Here \in UnitsOf(case) /\ outcome'[Here] = "running"
        /\ outcome' \in [Unit -> State]
        /\ \A v \in Unit : v # Here => outcome'[v] = outcome[v]
        /\ \A c, d : SameDraw(c, d) => SameDraw(c, d)'
    BY <1>0, HereIsRecorded DEF history
  <1>c. Here' = Here /\ (\A k : UnitAt(k)' = UnitAt(k)) /\ Accepted' = Accepted
    BY DEF Here, UnitAt, Accepted
  <1>1. TypeOK'
    <2>1. WorkTyped'
      BY <1>a, <1>0, TypeParts DEF WorkTyped, Label, Interruptible
    <2>2. HistoryTyped'
      BY <1>0, TypeParts, HistoryKept
    <2> QED BY <1>a, <2>1, <2>2 DEF TypeOK, FilesTyped, WorkTyped, HistoryTyped, Ending
  <1>3. PhasesOK'
    <2>1. (\A u \in Planned : u.case \in Failed => outcome[u] # "planned")'
      BY <1>0, <1>a DEF IInv, AtWork, PhasesOK
    <2> QED BY <1>0, <1>a, <2>1 DEF IInv, AtWork, PhasesOK, Loop, history
  <1>4. DrawOK'
    <2>1. SameDraw(case, draw)'
      <3>1. PICK c, d : c = case /\ d = draw
        OBVIOUS
      <3> QED BY <3>1, <1>0, <1>a DEF SameDraw, UnitsOf
    <2>2. ~retains' => (\A c \in Remaining : c # case => Untouched(c))'
      BY <1>0, <1>a DEF IInv, AtWork, DrawOK, Loop, Untouched, UnitsOf
    <2>3. Accepted' = {} \/ draw'.comparable
      BY <1>0, <1>c DEF IInv, AtWork, DrawOK
    <2> QED BY <1>0, <2>1, <2>2, <2>3, NoDrawIsNotADraw
            DEF IInv, AtWork, DrawOK, Loop, AtTrial
  <1>5. TrialsOK'
    <2>1. (\A u \in Planned : outcome[u] = "running" => u = Here)'
      BY <1>0, <1>a, <1>c DEF IInv, AtWork, TrialsOK, AtTrial
    <2>2. (\A u \in Declined : outcome[u] # "planned")'
      BY <1>0, <1>a, <1>c DEF IInv, AtWork, TrialsOK, AtTrial, Declined, UnitsOf
    <2>3. (\A k \in Places : k < place => outcome[UnitAt(k)] \in Settled)'
      <3>1. \A k \in Places : k < place => UnitAt(k) \in Unit /\ outcome[UnitAt(k)] \in Settled
        BY <1>0, <1>a, UnitsInOrder DEF IInv, AtWork, TrialsOK, AtTrial, UnitsOf
      <3> QED BY <3>1, <1>0, <1>a, <1>c DEF Settled
    <2>4. /\ ~uncertain'
          /\ Here'.op = 0 => Accepted' # {}
          /\ Here'.op # 0 => Here'.op \in Accepted' /\ outcome'[Original(Here)'] = "completed"
      <3>1. /\ ~uncertain
            /\ Here.op = 0 => Accepted # {}
            /\ Here.op # 0 => Here.op \in Accepted /\ outcome[Original(Here)] = "completed"
        BY <1>0 DEF IInv, AtWork, TrialsOK, Sending
      <3>2. Original(Here)' = Original(Here) /\ Original(Here) \in Unit
        BY <1>a, <1>c, OriginalIsPlanned DEF Original
      <3>3. outcome[Original(Here)] = "completed" => outcome'[Original(Here)] = "completed"
        BY <3>2, <1>0, <1>a
      <3> QED BY <3>1, <3>2, <3>3, <1>c
    <2>5. Here' \notin contacted' /\ ~("unfinished" \in suspect')
      BY <1>0, <1>c DEF Stored, CallsOK, IInv, AtWork, TrialsOK, Sending, Loop, history
    <2> QED BY <1>0, <1>a, <1>c, <2>1, <2>2, <2>3, <2>4, <2>5 DEF TrialsOK, Loop, AtTrial, Sending
  <1>6. StopOK'
    BY <1>0 DEF IInv, AtWork, StopOK, StopRequested, history
  <1>7. TallyOK'
    <2>1. TallyOfJournal' = TallyOfJournal
      BY <1>0, <1>a, TallyMoves
    <2> QED BY <1>0, <2>1, TallyKept DEF Even
  <1>8. AllowanceOK'
    <2>1. Here \in Callable /\ Here \notin Callable'
      <3>1. Here.case \in Remaining /\ Here.case = case
        BY <1>0, HereIsPlanned DEF Remaining
      <3>2. Here.op # 0 => OperatorStatus(case, Here.op) # "ineligible"
        <4>1. Here.op # 0 => draw.verdict[Here.op] = "passed"
          BY <1>0 DEF IInv, AtWork, TrialsOK, Sending, Accepted
        <4>2. CASE retains
          BY <4>1, <4>2, <1>0, NoDrawIsNotADraw
             DEF OperatorStatus, IInv, AtWork, DrawOK, Loop
        <4>3. CASE ~retains
          BY <4>3, <1>0 DEF OperatorStatus, Stored, LedgerOK
        <4> QED BY <4>2, <4>3
      <3> QED BY <3>1, <3>2, <1>0, <1>a DEF Callable
    <2>2. PICK a, b, h : a = Callable /\ b = Callable' /\ h = Here
      OBVIOUS
    <2>3. IsFiniteSet(a) /\ h \in a /\ b \in SUBSET (a \ {h})
      BY <2>1, <2>2, <1>0, <1>a, CallableIsFinite
    <2>4. IsFiniteSet(a \ {h}) /\ Cardinality(a \ {h}) = Cardinality(a) - 1
      BY <2>3, FS_RemoveElement
    <2>5. Cardinality(b) <= Cardinality(a \ {h}) /\ Cardinality(b) \in Nat
      BY <2>3, <2>4, FS_Subset, FS_CardinalityType
    <2>6. Cardinality(a) \in Nat /\ Cardinality(a) + 0 <= allowance /\ allowance \in Int
      BY <2>2, <1>0, CallableIsFinite DEF IInv, AtWork, AllowanceOK, Loop, TypeOK
    <2>7. Cardinality(b) + 1 <= allowance
      BY <2>4, <2>5, <2>6
    <2> QED BY <1>0, <2>2, <2>7 DEF AllowanceOK, Loop
  <1> QED BY <1>a, <1>1, <1>3, <1>4, <1>5, <1>6, <1>7, <1>8 DEF IInv, AtWork

LEMMA RegisterTrialKeeps ==
    ASSUME IInv, RegisterTrial
    PROVE  IInv'
  <1> USE DEF RegisterTrial, trial
  <1>0. /\ TypeOK /\ pc = "register" /\ pc' = "target" /\ Quiet /\ draw \in Draw
        /\ place \in Places /\ outcome[Here] = "running" /\ Here \notin contacted
        /\ tally = TallyOfJournal /\ UNCHANGED <<case, draw, place>>
    BY DEF IInv, AtWork, DrawOK, TrialsOK, TallyOK, AtTrial, Quiet, record, history, TypeOK
  <1>t. tally' = TallyOfStarted /\ tally' \in Counters
    <2>1. PICK t \in Counters : t = TallyOfJournal /\ t.running = 0
      BY <1>0, TallyShape DEF TypeOK, Counters
    <2>2. tally' = [t EXCEPT !.running = @ + 1, !.calls = @ + 1]
      BY <2>1, <1>0
    <2>3. TallyOfStarted = [t EXCEPT !.running = 1, !.calls = @ + 1]
      BY <2>1 DEF TallyOfStarted
    <2>4. [t EXCEPT !.running = @ + 1, !.calls = @ + 1] = [t EXCEPT !.running = 1, !.calls = @ + 1]
      BY <2>1
    <2> QED BY <2>2, <2>3, <2>4, CounterGrows
  <1>b. WorkTyped'
    <2>1. Case' = Case
      BY DEF Case, files
    <2>2. tally' \in [{"completed", "skipped", "failed", "running", "calls"} -> Nat]
      BY <1>t, CountersAreRecords
    <2> QED BY <2>1, <2>2, <1>0, TypeParts DEF WorkTyped, Label, Interruptible
  <1>1. TypeOK' /\ Stored'
    BY <1>0, <1>b, QuietSteps
  <1>2. PhasesOK'
    BY <1>0, <1>b, PhasesMove DEF Loop
  <1>3. DrawOK'
    <2>1. Accepted = {} \/ draw.comparable
      BY <1>0 DEF IInv, AtWork, DrawOK, AtTrial
    <2> QED BY <1>0, <1>b, <2>1, DrawKept, NoDrawIsNotADraw DEF Loop, AtTrial, AtTrials
  <1>c. /\ outcome'[Here'] = "running" /\ Places' = Places /\ Here' = Here /\ Accepted' = Accepted
        /\ outcome' = outcome /\ Here' \notin contacted'
    BY <1>0, <1>b, QuietSteps, SameTrial
  <1>4. TrialsOK'
    <2>1. \A k \in Places : k < place => outcome[UnitAt(k)] \in Settled
      BY <1>0 DEF IInv, AtWork, TrialsOK, AtTrial
    <2>2. \A k \in Places' : k < place' => outcome'[UnitAt(k)'] \in Settled
      BY <2>1, <1>0, <1>b, QuietSteps, SameTrial
    <2>3. (\A k \in Places : k < place => outcome[UnitAt(k)] \in Settled)'
      BY <2>2
    <2>4. /\ (\A u \in Declined : outcome[u] # "planned")'
          /\ (\A u \in Planned : outcome[u] = "running" => u = Here)'
          /\ ("unfinished" \in suspect => uncertain)'
      BY <1>0, <1>b, <1>c, QuietSteps, SameTrial DEF IInv, AtWork, TrialsOK, AtTrial, Loop
    <2>5. /\ ~uncertain'
          /\ Here'.op = 0 => Accepted' # {}
          /\ Here'.op # 0 => Here'.op \in Accepted' /\ outcome'[Original(Here)'] = "completed"
      BY <1>0, <1>c DEF Original, IInv, AtWork, TrialsOK, Sending
    <2> QED BY <1>0, <1>c, <2>3, <2>4, <2>5 DEF TrialsOK, Loop, AtTrial, Sending
  <1>5. StopOK'
    BY <1>0, QuietStops
  <1>6. TallyOK'
    BY <1>0, <1>t, <1>b, QuietSteps DEF TallyOK
  <1>7. AllowanceOK'
    <2>1. Cardinality(Callable) + 1 <= allowance /\ allowance \in Int /\ Cardinality(Callable) \in Nat
      BY <1>0, CallableIsFinite DEF IInv, AtWork, AllowanceOK, Loop, TypeOK
    <2>2. Cardinality(Callable') + 0 <= allowance'
      BY <2>1, <1>0, <1>b, QuietSteps
    <2> QED BY <1>0, <2>2 DEF AllowanceOK, Loop
  <1> QED BY <1>1, <1>2, <1>3, <1>4, <1>5, <1>6, <1>7 DEF IInv, AtWork

(* The call: it is made with the variations of its case, for the first     *)
(* time, and its baseline is there.                                        *)
LEMMA SendRequestKeeps ==
    ASSUME IInv, SendRequest
    PROVE  IInv'
  <1> USE DEF SendRequest, control, trial, files
  <1>0. /\ TypeOK /\ Stored /\ pc = "target" /\ pc' = "waiting" /\ pc \in AtTrial
        /\ outcome[Here] = "running" /\ place \in Places /\ draw \in Draw /\ created = 3
        /\ SameDraw(case, draw) /\ case \in Case /\ case \notin Processed /\ case \notin Failed
        /\ Here \in Planned /\ Here.case = case /\ Here \in Unit
        /\ retains => ledger[case] = draw
    <2>1. /\ TypeOK /\ Stored /\ pc = "target" /\ pc' = "waiting" /\ pc \in AtTrial
          /\ outcome[Here] = "running" /\ place \in Places /\ draw \in Draw /\ created = 3
          /\ SameDraw(case, draw) /\ case \in Case /\ case \notin Processed
          /\ retains => ledger[case] = draw
      BY NoDrawIsNotADraw DEF IInv, AtWork, PhasesOK, DrawOK, TrialsOK, AtTrial, Loop, TypeOK
    <2> QED BY <2>1, HereIsPlanned, LinesOfEvidence
  <1>c. draw.comparable /\ (Here.op # 0 => outcome[Original(Here)] = "completed")
    <2>1. /\ Here.op = 0 => Accepted # {}
          /\ Here.op # 0 => Here.op \in Accepted /\ outcome[Original(Here)] = "completed"
      BY <1>0 DEF IInv, AtWork, TrialsOK, Sending
    <2>2. Accepted = {} \/ draw.comparable
      BY <1>0 DEF IInv, AtWork, DrawOK
    <2> QED BY <2>1, <2>2
  <1>a. /\ Case' = Case /\ Planned' = Planned /\ Places' = Places
        /\ Processed' = Processed /\ Failed' = Failed /\ Remaining' = Remaining
        /\ TallyOfJournal' = TallyOfJournal /\ TallyOfStarted' = TallyOfStarted
        /\ Callable' = Callable
        /\ \A S : UnitsIn(S)' = UnitsIn(S)
    BY Frame
  <1>d. /\ contacted' = contacted \cup {Here} /\ ranWith'[Here] = draw
        /\ \A u \in Unit : u # Here => ranWith'[u] = ranWith[u]
        /\ ranWith' \in [Unit -> Draw \cup {NoDraw}]
        /\ contacted \subseteq Unit
    BY <1>0 DEF TypeOK
  <1>e. Here' = Here /\ (\A k : UnitAt(k)' = UnitAt(k)) /\ Accepted' = Accepted /\ Declined' = Declined
    BY <1>a DEF Here, UnitAt, Accepted, Declined, UnitsOf
  <1>l. lateStarts = 0
    BY <1>0 DEF IInv, AtWork, StopOK, TypeOK
  <1>1. TypeOK'
    <2>1. FilesTyped'
      BY <1>0, TypeParts, FilesKept
    <2>2. WorkTyped'
      BY <1>a, <1>0, TypeParts DEF WorkTyped, Label, Interruptible
    <2>3. HistoryTyped'
      BY <1>0, <1>d, <1>l, TypeParts DEF HistoryTyped
    <2> QED BY <2>1, <2>2, <2>3 DEF TypeOK, FilesTyped, WorkTyped, HistoryTyped, Ending
  <1>2. Stored'
    <2>1. (created < 3 => Pristine)' /\ OutcomesOK' /\ DoubtOK'
      BY <1>0, <1>a DEF Stored, OutcomesOK, DoubtOK
    <2>2. CallsOK'
      <3>1. \A u \in contacted : u.case = case => ranWith[u] = draw
        BY <1>0 DEF SameDraw, UnitsOf, Stored, CallsOK
      <3>2. ASSUME NEW u \in contacted'
            PROVE  /\ u \in Planned
                   /\ outcome[u] \in {"running", "completed", "inconclusive", "quarantined"}
                   /\ u.case \notin Failed
                   /\ ranWith'[u] \in Draw /\ ranWith'[u].comparable
                   /\ u.op # 0 => outcome[Original(u)] = "completed"
        <4>1. CASE u = Here
          BY <4>1, <1>0, <1>c, <1>d
        <4>2. CASE u # Here
          BY <4>2, <1>0, <1>d DEF Stored, CallsOK
        <4> QED BY <4>1, <4>2
      <3>3. ASSUME NEW u \in contacted', NEW v \in contacted', u.case = v.case
            PROVE  ranWith'[u] = ranWith'[v]
        <4>1. CASE u.case = case
          BY <4>1, <3>1, <3>3, <1>d
        <4>2. CASE u.case # case
          BY <4>2, <3>3, <1>0, <1>d DEF Stored, CallsOK
        <4> QED BY <4>1, <4>2
      <3> QED BY <3>2, <3>3, <1>a DEF CallsOK, Original
    <2>3. EvidenceOK'
      <3>1. ASSUME NEW i \in DOMAIN evidence, evidence[i].kind = "result",
                   NEW u \in UnitsOf(evidence[i].case)
            PROVE  outcome[u] \in Settled /\ (u \in contacted' => ranWith'[u] = evidence[i].draw)
        <4>1. u.case # case /\ u \in Unit
          BY <3>1, <1>0, PlanShape DEF Processed, UnitsOf, TypeOK
        <4>2. u # Here
          BY <4>1, <1>0
        <4> QED BY <4>1, <4>2, <3>1, <1>0, <1>d DEF Stored, EvidenceOK
      <3> QED BY <3>1, <1>0, <1>a DEF Stored, EvidenceOK, UnitsOf
    <2>4. LedgerOK'
      <3>1. ASSUME NEW c \in Case
            PROVE  /\ ~retains => ledger[c] = NoDraw
                   /\ retains /\ ledger[c] = NoDraw /\ c \notin Failed => Untouched(c)
                   /\ ledger[c] # NoDraw => SameDraw(c, ledger[c])'
        <4>1. PICK d : d = ledger[c]
          OBVIOUS
        <4>2. ASSUME d # NoDraw PROVE SameDraw(c, d)'
          <5>1. SameDraw(c, d)
            BY <4>1, <4>2, <1>0 DEF Stored, LedgerOK
          <5>2. c = case => d = draw
            BY <4>1, <4>2, <1>0 DEF Stored, LedgerOK
          <5> QED BY <5>1, <5>2, <1>0, <1>a, <1>d DEF SameDraw, UnitsOf
        <4>3. ledger[c] # NoDraw => SameDraw(c, ledger[c])'
          BY <4>1, <4>2 DEF SameDraw, UnitsOf
        <4> QED BY <4>3, <1>0 DEF Stored, LedgerOK
      <3> QED BY <3>1, <1>a DEF LedgerOK, SameDraw, Untouched, UnitsOf
    <2> QED BY <2>1, <2>2, <2>3, <2>4 DEF Stored
  <1>3. PhasesOK'
    <2>1. (\A u \in Planned : u.case \in Failed => outcome[u] # "planned")'
      BY <1>0, <1>a DEF IInv, AtWork, PhasesOK
    <2> QED BY <1>0, <1>a, <2>1 DEF IInv, AtWork, PhasesOK, Loop
  <1>4. DrawOK'
    <2>1. SameDraw(case, draw)'
      <3>1. PICK c, d : c = case /\ d = draw
        OBVIOUS
      <3>2. SameDraw(c, d)'
        BY <3>1, <1>0, <1>a, <1>d DEF SameDraw, UnitsOf
      <3> QED BY <3>1, <3>2 DEF SameDraw, UnitsOf
    <2>2. ~retains' => (\A c \in Remaining : c # case => Untouched(c))'
      BY <1>0, <1>a DEF IInv, AtWork, DrawOK, Loop, Untouched, UnitsOf
    <2> QED BY <1>0, <1>c, <2>1, <2>2, NoDrawIsNotADraw DEF DrawOK, Loop, AtTrial
  <1>5. TrialsOK'
    <2>1. (\A u \in Planned : outcome[u] = "running" => u = Here)'
      BY <1>0, <1>a, <1>e DEF IInv, AtWork, TrialsOK
    <2>2. (\A u \in Declined : outcome[u] # "planned")'
      BY <1>0, <1>e DEF IInv, AtWork, TrialsOK
    <2>3. (\A k \in Places : k < place => outcome[UnitAt(k)] \in Settled)'
      BY <1>0, <1>a, <1>e DEF IInv, AtWork, TrialsOK
    <2>4. /\ ~uncertain'
          /\ Here'.op = 0 => Accepted' # {}
          /\ Here'.op # 0 => Here'.op \in Accepted' /\ outcome'[Original(Here)'] = "completed"
      BY <1>0, <1>e DEF Original, IInv, AtWork, TrialsOK, Sending
    <2>5. "unfinished" \notin suspect'
      BY <1>0 DEF IInv, AtWork, TrialsOK, Sending, Loop
    <2> QED BY <1>0, <1>a, <1>e, <2>1, <2>2, <2>3, <2>4, <2>5 DEF TrialsOK, Loop, AtTrial, Sending
  <1>6. StopOK'
    <2>1. ending' = "none" /\ (lateStarts' = 0 \/ (lateStarts' = 1 /\ StopRequested'))
      BY <1>0, <1>l DEF IInv, AtWork, StopOK, StopRequested
    <2> QED BY <1>0, <2>1 DEF StopOK
  <1>7. TallyOK'
    BY <1>0, <1>a DEF IInv, AtWork, TallyOK
  <1>8. AllowanceOK'
    BY <1>0, <1>a, AllowanceKept DEF Calling, Loop
  <1> QED BY <1>1, <1>2, <1>3, <1>4, <1>5, <1>6, <1>7, <1>8 DEF IInv, AtWork

(* A doubt about the target is always about a trial that is running or     *)
(* quarantined, and that nobody attested.                                  *)
LEMMA DoubtIsRecorded ==
    ASSUME IInv, pc # "down",
           UNCHANGED <<plan, retains, created, outcome, evidence, ledger, attested, contacted, ranWith>>,
           "unfinished" \in suspect' \ suspect => pc \in {"target", "waiting"},
           suspect' # suspect => pc \in {"target", "waiting"}
    PROVE  Stored'
  <1>1. CASE suspect' = suspect
    BY <1>1, StoredKept DEF IInv, Kept
  <1>2. CASE suspect' # suspect
    <2>0. /\ TypeOK /\ Stored /\ created = 3 /\ pc \in {"target", "waiting"}
          /\ Here \in Planned /\ outcome[Here] = "running"
      BY <1>2, HereIsPlanned DEF IInv, AtWork, PhasesOK, TrialsOK, AtTrial
    <2>a. /\ Case' = Case /\ Planned' = Planned /\ Failed' = Failed
          /\ \A S : UnitsIn(S)' = UnitsIn(S)
      BY Frame
    <2>1. (created < 3 => Pristine)' /\ OutcomesOK'
      BY <2>0, <2>a DEF Stored, OutcomesOK
    <2>2. CallsOK'
      BY <2>0, <2>a DEF Stored, CallsOK, Original
    <2>3. EvidenceOK'
      BY <2>0, <2>a DEF Stored, EvidenceOK, UnitsOf
    <2>4. LedgerOK'
      BY <2>0, <2>a DEF Stored, LedgerOK, Untouched, SameDraw, UnitsOf
    <2>5. DoubtOK'
      <3>1. Here \in UnitsIn({"running", "quarantined"}) /\ Here \notin attested
        BY <2>0 DEF Stored, DoubtOK, UnitsIn
      <3> QED BY <3>1, <2>0, <2>a DEF Stored, DoubtOK
    <2> QED BY <2>1, <2>2, <2>3, <2>4, <2>5 DEF Stored
  <1> QED BY <1>1, <1>2

(* Steps of a trial under way that only the target, or a cancellation,     *)
(* may bring.                                                              *)
LEMMA TrialGoesOn ==
    ASSUME IInv, pc \in {"target", "waiting"}, pc' \in {"record", "handler"},
           UNCHANGED <<files, case, place, draw, asked, allowance, request, tally, invocations,
                       interrupts, contacted, ranWith, lateStarts, notices, ending>>,
           suspect' \subseteq {"unfinished", "timeout"}, uncertain' \in BOOLEAN,
           inFlight' \in BOOLEAN, cancelling' \in BOOLEAN,
           result' \in {"none", "completed", "inconclusive", "quarantined", "skipped"},
           pc' = "record" => result' \in {"completed", "inconclusive", "quarantined"},
           "unfinished" \in suspect' =>
               pc' = "handler" \/ (uncertain' /\ result' = "quarantined")
    PROVE  IInv'
  <1> USE DEF files
  <1>0. /\ TypeOK /\ pc \in AtTrial /\ outcome[Here] = "running" /\ place \in Places
        /\ draw \in Draw /\ "unfinished" \notin suspect
    BY DEF IInv, AtWork, DrawOK, TrialsOK, AtTrial, Sending, Loop
  <1>a. /\ Case' = Case /\ Planned' = Planned /\ Places' = Places
        /\ Processed' = Processed /\ Failed' = Failed /\ Remaining' = Remaining
        /\ TallyOfJournal' = TallyOfJournal /\ TallyOfStarted' = TallyOfStarted
        /\ Callable' = Callable
        /\ \A S : UnitsIn(S)' = UnitsIn(S)
    BY Frame
  <1>e. Here' = Here /\ (\A k : UnitAt(k)' = UnitAt(k)) /\ Accepted' = Accepted /\ Declined' = Declined
    BY <1>a DEF Here, UnitAt, Accepted, Declined, UnitsOf
  <1>1. TypeOK'
    <2>1. FilesTyped'
      BY <1>0, TypeParts, FilesKept
    <2>2. WorkTyped'
      <3>1. (pc \in Label /\ allowance \in Int /\ case \in Case /\ place \in Nat \ {0})'
        BY <1>a, <1>0 DEF Label, Interruptible, TypeOK
      <3>2. (inFlight \in BOOLEAN /\ cancelling \in BOOLEAN /\ uncertain \in BOOLEAN)'
        OBVIOUS
      <3>3. (/\ asked \in [differs : SUBSET Aspect, dry : BOOLEAN]
             /\ tally \in [{"completed", "skipped", "failed", "running", "calls"} -> Nat])'
        BY <1>0 DEF TypeOK
      <3>4. (/\ draw \in Draw \cup {NoDraw}
             /\ result \in {"none", "completed", "inconclusive", "quarantined", "skipped"}
             /\ request \in {"none", "pause", "cancel"})'
        BY <1>0 DEF TypeOK
      <3> QED BY <3>1, <3>2, <3>3, <3>4 DEF WorkTyped
    <2>3. HistoryTyped'
      BY <1>0, TypeParts DEF HistoryTyped
    <2> QED BY <2>1, <2>2, <2>3 DEF TypeOK, FilesTyped, WorkTyped, HistoryTyped, Ending
  <1>2. Stored'
    BY DoubtIsRecorded
  <1>3. PhasesOK'
    <2>1. (\A u \in Planned : u.case \in Failed => outcome[u] # "planned")'
      BY <1>0, <1>a DEF IInv, AtWork, PhasesOK
    <2> QED BY <1>0, <1>a, <2>1 DEF IInv, AtWork, PhasesOK, Loop
  <1>4. DrawOK'
    <2>1. SameDraw(case, draw)'
      <3>1. SameDraw(case, draw)
        BY <1>0, NoDrawIsNotADraw DEF IInv, AtWork, DrawOK, Loop
      <3> QED BY <3>1, <1>a DEF SameDraw, UnitsOf
    <2>2. ~retains' => (\A c \in Remaining : c # case => Untouched(c))'
      BY <1>0, <1>a DEF IInv, AtWork, DrawOK, Loop, Untouched, UnitsOf
    <2>3. /\ Accepted' = {} \/ draw'.comparable
          /\ retains' => ledger'[case'] = draw'
      BY <1>0, <1>e DEF IInv, AtWork, DrawOK, Loop
    <2> QED BY <1>0, <2>1, <2>2, <2>3, NoDrawIsNotADraw DEF DrawOK, Loop, AtTrial
  <1>5. TrialsOK'
    <2>1. (\A u \in Planned : outcome[u] = "running" => u = Here)'
      BY <1>0, <1>a, <1>e DEF IInv, AtWork, TrialsOK, AtTrial
    <2>2. (\A u \in Declined : outcome[u] # "planned")'
      BY <1>0, <1>e DEF IInv, AtWork, TrialsOK
    <2>3. (\A k \in Places : k < place => outcome[UnitAt(k)] \in Settled)'
      BY <1>0, <1>a, <1>e DEF IInv, AtWork, TrialsOK
    <2>4. outcome'[Here'] = "running"
      BY <1>0, <1>e
    <2> QED BY <1>0, <1>a, <2>1, <2>2, <2>3, <2>4 DEF TrialsOK, Loop, AtTrial, Sending
  <1>6. StopOK'
    BY <1>0 DEF IInv, AtWork, StopOK, StopRequested
  <1>7. TallyOK'
    <2>1. tally' = TallyOfStarted' /\ outcome'[Here'] = "running"
      BY <1>0, <1>a, <1>e DEF IInv, AtWork, TallyOK
    <2> QED BY <2>1 DEF TallyOK
  <1>8. AllowanceOK'
    BY <1>0, <1>a, AllowanceKept DEF Calling, Loop
  <1> QED BY <1>1, <1>2, <1>3, <1>4, <1>5, <1>6, <1>7, <1>8 DEF IInv, AtWork

LEMMA TargetAnswersKeeps ==
    ASSUME IInv, NEW state \in {"completed", "inconclusive", "quarantined"},
           NEW doubt \in BOOLEAN, TargetAnswers(state, doubt)
    PROVE  IInv'
  <1>0. pc \in {"target", "waiting"} /\ "unfinished" \notin suspect
    BY DEF TargetAnswers, IInv, AtWork, TrialsOK, Sending, Loop
  <1>1. /\ suspect' \subseteq {"unfinished", "timeout"}
        /\ "unfinished" \in suspect' => uncertain' /\ result' = "quarantined"
    BY <1>0 DEF TargetAnswers, IInv, TypeOK
  <1>2. /\ inFlight' \in BOOLEAN /\ cancelling' \in BOOLEAN /\ uncertain' \in BOOLEAN
        /\ pc' = "record" /\ result' = state
    BY DEF TargetAnswers, IInv, TypeOK
  <1> QED BY <1>0, <1>1, <1>2, TrialGoesOn DEF TargetAnswers

LEMMA CancelTrialKeeps ==
    ASSUME IInv, CancelTrial
    PROVE  IInv'
  <1>0. pc \in {"target", "waiting"} /\ pc' = "handler"
    BY DEF CancelTrial
  <1>1. suspect' \subseteq {"unfinished", "timeout"}
    BY DEF CancelTrial, AbandonedCall, IInv, TypeOK
  <1>2. /\ inFlight' \in BOOLEAN /\ cancelling' \in BOOLEAN /\ uncertain' \in BOOLEAN
        /\ result' \in {"none", "completed", "inconclusive", "quarantined", "skipped"}
    BY DEF CancelTrial, trial, IInv, TypeOK
  <1> QED BY <1>0, <1>1, <1>2, TrialGoesOn DEF CancelTrial, trial

LEMMA UnregisterTrialKeeps ==
    ASSUME IInv, UnregisterTrial
    PROVE  IInv'
  <1> USE DEF UnregisterTrial, trial
  <1>0. /\ TypeOK /\ pc = "record" /\ pc' = "finish" /\ Quiet /\ draw \in Draw
        /\ place \in Places /\ UNCHANGED <<case, draw, place>>
    BY DEF IInv, AtWork, DrawOK, TrialsOK, AtTrial, Quiet, record, history, TypeOK
  <1>b. WorkTyped'
    <2>1. Case' = Case
      BY DEF Case, files
    <2> QED BY <2>1, <1>0, TypeParts DEF WorkTyped, Label, Interruptible
  <1>1. TypeOK' /\ Stored'
    BY <1>0, <1>b, QuietSteps
  <1>2. PhasesOK'
    BY <1>0, <1>b, PhasesMove DEF Loop
  <1>3. DrawOK'
    <2>1. Accepted = {} \/ draw.comparable
      BY <1>0 DEF IInv, AtWork, DrawOK, AtTrial
    <2> QED BY <1>0, <1>b, <2>1, DrawKept, NoDrawIsNotADraw DEF Loop, AtTrial, AtTrials
  <1>c. /\ Places' = Places /\ Here' = Here /\ outcome' = outcome
        /\ TallyOfJournal' = TallyOfJournal /\ TallyOfStarted' = TallyOfStarted
    BY <1>0, <1>b, QuietSteps, SameTrial
  <1>4. TrialsOK'
    <2>1. \A k \in Places : k < place => outcome[UnitAt(k)] \in Settled
      BY <1>0 DEF IInv, AtWork, TrialsOK, AtTrial
    <2>2. \A k \in Places' : k < place' => outcome'[UnitAt(k)'] \in Settled
      BY <2>1, <1>0, <1>b, QuietSteps, SameTrial
    <2>3. (\A k \in Places : k < place => outcome[UnitAt(k)] \in Settled)'
      BY <2>2
    <2>4. /\ (\A u \in Declined : outcome[u] # "planned")'
          /\ (\A u \in Planned : outcome[u] = "running" => u = Here)'
          /\ ("unfinished" \in suspect => uncertain)'
      BY <1>0, <1>b, <1>c, QuietSteps, SameTrial DEF IInv, AtWork, TrialsOK, AtTrial, Loop
    <2>5. /\ \/ /\ outcome'[Here'] = "planned"
                /\ result' = "skipped" \/ (result' = "inconclusive" /\ StopRequested')
             \/ /\ outcome'[Here'] = "running"
                /\ result' \in {"completed", "inconclusive", "quarantined"}
          /\ outcome'[Here'] = "running" /\ "unfinished" \in suspect' => result' = "quarantined"
      BY <1>0, <1>b, <1>c, QuietSteps DEF IInv, AtWork, TrialsOK, StopRequested
    <2> QED BY <1>0, <1>c, <2>3, <2>4, <2>5 DEF TrialsOK, Loop, AtTrial, Sending
  <1>5. StopOK'
    BY <1>0, QuietStops
  <1>6. TallyOK'
    BY <1>0, <1>c DEF IInv, AtWork, TallyOK
  <1>7. AllowanceOK'
    BY <1>0, <1>b, QuietSteps, AllowanceKept DEF Calling, Loop
  <1> QED BY <1>1, <1>2, <1>3, <1>4, <1>5, <1>6, <1>7 DEF IInv, AtWork

(* The outcome in the journal, and the counters with it.                   *)
LEMMA CountsAgree ==
    ASSUME TypeOK, plan' = plan, NEW u \in Planned, NEW s, NEW started \in BOOLEAN,
           outcome' = [outcome EXCEPT ![u] = s],
           outcome[u] \in {"planned", "running"},
           ~started => s = "skipped" \/ s = "inconclusive",
           started => s \in {"completed", "inconclusive", "quarantined"},
           tally = IF started THEN TallyOfStarted ELSE TallyOfJournal
    PROVE  /\ Counted(tally, started, s) \in Counters
           /\ started \/ s = "skipped" => Counted(tally, started, s) = TallyOfJournal'
  <1>1. PICK t \in Counters : t = TallyOfJournal /\ t.running = 0
    BY TallyShape DEF TypeOK, Counters
  <1>2. PICK m : m = TallyOfJournal'
    OBVIOUS
  <1>3. PICK n : n = tally
    OBVIOUS
  <1>4. /\ s = "skipped" => m = [t EXCEPT !.skipped = @ + 1]
        /\ s = "completed" => m = [t EXCEPT !.completed = @ + 1, !.calls = @ + 1]
        /\ s \in {"inconclusive", "quarantined"} =>
             m = [t EXCEPT !.failed = @ + 1, !.calls = @ + 1]
    BY <1>1, <1>2, TallyMoves
  <1>5. CASE ~started
    <2>1. n = t /\ Counted(n, started, s) = [t EXCEPT !.skipped = @ + 1]
      BY <1>1, <1>3, <1>5 DEF Counted
    <2>2. [t EXCEPT !.skipped = @ + 1] \in Counters
      BY CounterGrows
    <2> QED BY <2>1, <2>2, <1>2, <1>3, <1>4, <1>5
  <1>6. CASE started
    <2>1. PICK c \in Nat, a \in Nat, b \in Nat :
              c = t.calls + 1 /\ a = t.completed + 1 /\ b = t.failed + 1
      BY DEF Counters
    <2>2. n = [t EXCEPT !.running = 1, !.calls = c]
      BY <1>1, <1>3, <1>6, <2>1 DEF TallyOfStarted
    <2>3. n \in Counters /\ n.running = 1
      BY <2>2 DEF Counters
    <2>4. /\ n.completed = t.completed /\ n.failed = t.failed /\ n.skipped = t.skipped
          /\ n.calls = c
      BY <2>2 DEF Counters
    <2>5. CASE s = "completed"
      <3>1. m = [t EXCEPT !.completed = a, !.calls = c]
        BY <1>4, <2>1, <2>5
      <3>2. /\ m \in Counters /\ m.completed = a /\ m.failed = t.failed /\ m.skipped = t.skipped
            /\ m.running = 0 /\ m.calls = c
        BY <3>1, <1>1 DEF Counters
      <3>3. Counted(n, started, s) = [n EXCEPT !.running = 0, !.completed = a]
        BY <1>6, <2>1, <2>3, <2>4, <2>5 DEF Counted
      <3>4. [n EXCEPT !.running = 0, !.completed = a] = m
        BY <3>2, <2>3, <2>4 DEF Counters
      <3> QED BY <3>2, <3>3, <3>4, <1>2, <1>3
    <2>6. CASE s \in {"inconclusive", "quarantined"}
      <3>1. m = [t EXCEPT !.failed = b, !.calls = c]
        BY <1>4, <2>1, <2>6
      <3>2. /\ m \in Counters /\ m.completed = t.completed /\ m.failed = b /\ m.skipped = t.skipped
            /\ m.running = 0 /\ m.calls = c
        BY <3>1, <1>1 DEF Counters
      <3>3. Counted(n, started, s) = [n EXCEPT !.running = 0, !.failed = b]
        BY <1>6, <2>1, <2>3, <2>4, <2>6 DEF Counted
      <3>4. [n EXCEPT !.running = 0, !.failed = b] = m
        BY <3>2, <2>3, <2>4 DEF Counters
      <3> QED BY <3>2, <3>3, <3>4, <1>2, <1>3
    <2> QED BY <2>5, <2>6, <1>6
  <1> QED BY <1>5, <1>6

LEMMA FinishTrialKeeps ==
    ASSUME IInv, FinishTrial
    PROVE  IInv'
  <1> USE DEF FinishTrial, control
  <1>0. /\ TypeOK /\ Stored /\ pc = "finish" /\ pc' = "after" /\ pc \in AtTrial
        /\ outcome[Here] \in {"planned", "running"} /\ place \in Places /\ draw \in Draw
        /\ created = 3 /\ SameDraw(case, draw) /\ case \in Case /\ case \notin Processed
        /\ Here \in Planned
    <2>1. /\ TypeOK /\ Stored /\ pc = "finish" /\ pc' = "after" /\ pc \in AtTrial
          /\ outcome[Here] \in {"planned", "running"} /\ place \in Places /\ draw \in Draw
          /\ created = 3 /\ SameDraw(case, draw) /\ case \in Case /\ case \notin Processed
      BY NoDrawIsNotADraw DEF IInv, AtWork, PhasesOK, DrawOK, TrialsOK, AtTrial, Loop, TypeOK
    <2> QED BY <2>1, HereIsPlanned
  <1>s. PICK s : s = result
    OBVIOUS
  <1>r. /\ \/ outcome[Here] = "planned" /\ (s = "skipped" \/ (s = "inconclusive" /\ StopRequested))
           \/ outcome[Here] = "running" /\ s \in {"completed", "inconclusive", "quarantined"}
        /\ outcome[Here] = "running" /\ "unfinished" \in suspect => s = "quarantined"
        /\ outcome' = [outcome EXCEPT ![Here] = s]
    BY <1>s, <1>0 DEF IInv, AtWork, TrialsOK
  <1>a. /\ Stored' /\ FilesTyped' /\ Callable' \subseteq Callable
        /\ Case' = Case /\ Planned' = Planned /\ Places' = Places /\ Planned \subseteq Unit
        /\ Processed' = Processed /\ Failed' = Failed /\ Remaining' = Remaining
        /\ Here \in UnitsOf(case) /\ outcome'[Here] = s
        /\ outcome' \in [Unit -> State]
        /\ \A v \in Unit : v # Here => outcome'[v] = outcome[v]
        /\ \A c, d : SameDraw(c, d) => SameDraw(c, d)'
    BY <1>0, <1>r, HereIsRecorded DEF history
  <1>t. tally' \in Counters /\ (tally' = TallyOfJournal' \/ StopRequested)
    <2>1. PICK h, started : h = Here /\ started = (outcome[Here] = "running")
      OBVIOUS
    <2>2. tally = IF started THEN TallyOfStarted ELSE TallyOfJournal
      BY <2>1, <1>0 DEF IInv, AtWork, TallyOK
    <2>3. tally' = Counted(tally, started, s)
      BY <2>1, <1>s
    <2>4. /\ ~started => s = "skipped" \/ (s = "inconclusive" /\ StopRequested)
          /\ started => s \in {"completed", "inconclusive", "quarantined"}
          /\ started \in BOOLEAN
      BY <2>1, <1>r
    <2>5. h \in Planned /\ outcome' = [outcome EXCEPT ![h] = s] /\ outcome[h] \in {"planned", "running"}
      BY <2>1, <1>0, <1>r
    <2>6. /\ Counted(tally, started, s) \in Counters
          /\ started \/ s = "skipped" => Counted(tally, started, s) = TallyOfJournal'
      BY <1>0, <2>2, <2>4, <2>5, CountsAgree
    <2> QED BY <2>3, <2>4, <2>6
  <1>1. TypeOK'
    <2>1. WorkTyped'
      <3>1. tally' \in [{"completed", "skipped", "failed", "running", "calls"} -> Nat]
        BY <1>t, CountersAreRecords
      <3>2. place' \in Nat \ {0} /\ result' = "none" /\ case' = case /\ draw' = draw
        BY <1>0 DEF TypeOK
      <3> QED BY <3>1, <3>2, <1>a, <1>0, TypeParts DEF WorkTyped, Label, Interruptible
    <2>2. HistoryTyped'
      BY <1>0, TypeParts, HistoryKept
    <2> QED BY <1>a, <2>1, <2>2 DEF TypeOK, FilesTyped, WorkTyped, HistoryTyped, Ending
  <1>3. PhasesOK'
    <2>1. (\A u \in Planned : u.case \in Failed => outcome[u] # "planned")'
      BY <1>0, <1>a, <1>r DEF IInv, AtWork, PhasesOK
    <2> QED BY <1>0, <1>a, <2>1 DEF IInv, AtWork, PhasesOK, Loop, history
  <1>4. DrawOK'
    <2>1. SameDraw(case, draw)'
      <3>1. PICK c, d : c = case /\ d = draw
        OBVIOUS
      <3> QED BY <3>1, <1>0, <1>a DEF SameDraw, UnitsOf
    <2>2. ~retains' => (\A c \in Remaining : c # case => Untouched(c))'
      BY <1>0, <1>a DEF IInv, AtWork, DrawOK, Loop, Untouched, UnitsOf
    <2>3. Accepted' = {} \/ draw'.comparable
      <3>1. Accepted' = Accepted
        BY DEF Accepted
      <3> QED BY <3>1, <1>0 DEF IInv, AtWork, DrawOK
    <2> QED BY <1>0, <2>1, <2>2, <2>3, NoDrawIsNotADraw
            DEF IInv, AtWork, DrawOK, Loop, AtTrial
  <1>5. TrialsOK'
    <2>1. (\A u \in Planned : outcome[u] # "running")'
      BY <1>0, <1>a, <1>r DEF IInv, AtWork, TrialsOK
    <2>2. (\A u \in Declined : outcome[u] # "planned")'
      BY <1>0, <1>a, <1>r DEF IInv, AtWork, TrialsOK, Declined, UnitsOf, Accepted
    <2>3. (\A k \in Places : k < place => outcome[UnitAt(k)] \in Settled)'
      <3>1. \A k \in Places : /\ k \in Nat /\ UnitAt(k) \in Unit
                              /\ k < place => outcome[UnitAt(k)] \in Settled
        BY <1>0, <1>a, UnitsInOrder DEF IInv, AtWork, TrialsOK, AtTrial, UnitsOf
      <3>2. \A k \in Places : k < place + 1 => k < place \/ UnitAt(k) = Here
        BY <3>1, <1>0 DEF Here, TypeOK
      <3>3. \A k \in Places : k < place + 1 => outcome'[UnitAt(k)] \in Settled
        BY <3>1, <3>2, <1>a, <1>r DEF Settled
      <3>4. \A k : UnitAt(k)' = UnitAt(k)
        BY DEF UnitAt
      <3> QED BY <3>3, <3>4, <1>a
    <2>4. "unfinished" \in suspect' => uncertain'
      BY <1>0 DEF IInv, AtWork, TrialsOK, Loop, history
    <2> QED BY <1>0, <1>a, <2>1, <2>2, <2>3, <2>4 DEF TrialsOK, Loop, AtTrial, Sending
  <1>6. StopOK'
    BY <1>0 DEF IInv, AtWork, StopOK, StopRequested, history
  <1>7. TallyOK'
    BY <1>0, <1>t DEF TallyOK, StopRequested
  <1>8. AllowanceOK'
    BY <1>0, <1>a, AllowanceKept DEF Calling, Loop
  <1> QED BY <1>a, <1>1, <1>3, <1>4, <1>5, <1>6, <1>7, <1>8 DEF IInv, AtWork

LEMMA AfterBoundaryKeeps ==
    ASSUME IInv, AfterBoundary
    PROVE  IInv'
  <1> USE DEF AfterBoundary
  <1>1. CASE StopRequested
    BY <1>1, StoppingKeeps DEF BoundaryThen, files, IInv, TypeOK
  <1>2. CASE ~StopRequested
    <2> USE DEF control, trial
    <2>0. /\ TypeOK /\ pc = "after" /\ pc' = "trial" /\ Quiet /\ draw \in Draw
          /\ UNCHANGED <<trial, control, tally>> /\ tally = TallyOfJournal
      BY <1>2 DEF IInv, AtWork, DrawOK, TallyOK, Quiet, BoundaryThen, record, history, TypeOK
    <2>b. WorkTyped'
      <3>1. Case' = Case
        BY DEF Case, files
      <3> QED BY <3>1, <2>0, TypeParts DEF WorkTyped, Label, Interruptible
    <2>1. TypeOK' /\ Stored'
      BY <2>0, <2>b, QuietSteps
    <2>2. PhasesOK'
      BY <2>0, <2>b, PhasesMove DEF Loop
    <2>3. DrawOK'
      <3>1. Accepted = {} \/ draw.comparable
        BY <2>0 DEF IInv, AtWork, DrawOK
      <3> QED BY <2>0, <2>b, <3>1, DrawKept, NoDrawIsNotADraw DEF Loop, AtTrial, AtTrials
    <2>4. TrialsOK'
      <3>1. \A k \in Places : k < place => outcome[UnitAt(k)] \in Settled
        BY <2>0 DEF IInv, AtWork, TrialsOK
      <3>2. \A k \in Places' : k < place' => outcome'[UnitAt(k)'] \in Settled
        BY <3>1, <2>0, <2>b, QuietSteps, SameTrial
      <3>3. (\A k \in Places : k < place => outcome[UnitAt(k)] \in Settled)'
        BY <3>2
      <3>4. /\ (\A u \in Declined : outcome[u] # "planned")'
            /\ (\A u \in Planned : outcome[u] # "running")'
            /\ ("unfinished" \in suspect => uncertain)'
        BY <2>0, <2>b, QuietSteps, SameTrial DEF IInv, AtWork, TrialsOK, AtTrial, Loop
      <3> QED BY <2>0, <3>3, <3>4 DEF TrialsOK, Loop, AtTrial, Sending
    <2>5. StopOK'
      BY <2>0, QuietStops
    <2>6. TallyOK'
      BY <2>0, <2>b, QuietSteps DEF TallyOK
    <2>7. AllowanceOK'
      BY <2>0, <2>b, QuietSteps, AllowanceKept DEF Calling, Loop
    <2> QED BY <2>1, <2>2, <2>3, <2>4, <2>5, <2>6, <2>7 DEF IInv, AtWork
  <1> QED BY <1>1, <1>2
-----------------------------------------------------------------------------
(* Interrupts, failures and kills.                                         *)
LEMMA InterruptKeeps ==
    ASSUME IInv, Interrupt
    PROVE  IInv'
  <1> USE DEF Interrupt, trial
  <1>0. /\ TypeOK /\ pc \in Interruptible /\ pc' = pc /\ pc \in Loop \cup {"preflight"}
        /\ UNCHANGED <<plan, retains, created, outcome, ledger, evidence, attested, contacted,
                       suspect, ranWith, lateStarts, ending, case, place, draw, result,
                       asked, allowance, uncertain, tally, invocations>>
        /\ request' \in {"none", "pause", "cancel"} /\ (StopRequested => StopRequested')
        /\ cancelling' \in BOOLEAN
    BY DEF IInv, TypeOK, Interruptible, Loop, StopRequested, files
  <1>a. /\ Case' = Case /\ Planned' = Planned /\ Places' = Places
        /\ Processed' = Processed /\ Failed' = Failed /\ Remaining' = Remaining
        /\ TallyOfJournal' = TallyOfJournal /\ TallyOfStarted' = TallyOfStarted
        /\ Callable' = Callable
        /\ \A S : UnitsIn(S)' = UnitsIn(S)
    BY <1>0, Frame
  <1>e. /\ Here' = Here /\ (\A k : UnitAt(k)' = UnitAt(k)) /\ Accepted' = Accepted
        /\ Declined' = Declined /\ (\A c : UnitsOf(c)' = UnitsOf(c)) /\ UnitsOf(case)' = UnitsOf(case)
        /\ Original(Here)' = Original(Here)
    BY <1>0, <1>a DEF Here, UnitAt, Accepted, Declined, UnitsOf, Original
  <1>1. TypeOK'
    <2>1. FilesTyped'
      BY <1>0, TypeParts, FilesKept
    <2>2. WorkTyped'
      BY <1>a, <1>0, TypeParts DEF WorkTyped
    <2>3. HistoryTyped'
      <3>1. interrupts + 1 <= plan.interrupts /\ interrupts \in Nat /\ plan.interrupts \in Nat
        BY <1>0, PlanShape DEF TypeOK
      <3> QED BY <3>1, <1>0, TypeParts DEF HistoryTyped
    <2> QED BY <2>1, <2>2, <2>3 DEF TypeOK, FilesTyped, WorkTyped, HistoryTyped, Ending
  <1>2. Stored'
    BY <1>0, StoredKept DEF IInv, Kept
  <1>3. PhasesOK'
    <2>1. Pristine => Pristine'
      BY <1>0, <1>a, <1>e DEF Pristine, Untouched
    <2>2. (\A u \in Planned : u.case \in Failed /\ ~(pc = "settling" /\ u.case = case)
                                 => outcome[u] # "planned")'
      BY <1>0, <1>a DEF IInv, AtWork, PhasesOK, Loop
    <2> QED BY <1>0, <1>a, <2>1, <2>2 DEF IInv, AtWork, PhasesOK, Loop
  <1>4. DrawOK'
    <2>1. \A c : Untouched(c) => Untouched(c)'
      BY <1>0, <1>e DEF Untouched
    <2>2. (Untouched(case) => Untouched(case)') /\ (SameDraw(case, draw) => SameDraw(case, draw)')
      BY <1>0, <1>e DEF Untouched, SameDraw
    <2>3. (pc \in Loop /\ ~retains =>
              \A c \in Remaining : c # case \/ pc = "case" => Untouched(c))'
      BY <1>0, <1>a, <2>1 DEF IInv, AtWork, DrawOK
    <2>4. (pc = "failing" => \A u \in UnitsOf(case) : u \notin contacted)'
      BY <1>0, <1>e DEF IInv, AtWork, DrawOK
    <2>5. /\ (pc \in {"case", "augment"} => draw = NoDraw)'
          /\ (pc \in {"skip", "save", "compare", "judge", "write", "trial", "after"} \cup AtTrial
                 => draw \in Draw)'
          /\ (pc \in {"trial", "after", "judge", "write"} \cup AtTrial =>
                 Accepted = {} \/ draw.comparable)'
      BY <1>0, <1>e DEF IInv, AtWork, DrawOK
    <2>6. /\ (pc \in Loop \ {"case", "settling", "cleanup"} =>
                 /\ draw = NoDraw => Untouched(case)
                 /\ draw # NoDraw => SameDraw(case, draw)
                 /\ retains /\ pc # "save" => ledger[case] = draw)'
          /\ (pc = "save" => Untouched(case) /\ ledger[case] = NoDraw)'
      BY <1>0, <2>2 DEF IInv, AtWork, DrawOK
    <2> QED BY <2>3, <2>4, <2>5, <2>6 DEF DrawOK
  <1>5. TrialsOK'
    BY <1>0, <1>a, <1>e DEF IInv, AtWork, TrialsOK
  <1>6. StopOK'
    BY <1>0 DEF IInv, AtWork, StopOK, Loop
  <1>7. TallyOK'
    BY <1>0, <1>a, <1>e DEF IInv, AtWork, TallyOK
  <1>8. AllowanceOK'
    BY <1>0, <1>a DEF IInv, AtWork, AllowanceOK
  <1> QED BY <1>1, <1>2, <1>3, <1>4, <1>5, <1>6, <1>7, <1>8 DEF IInv, AtWork

LEMMA QuarantineTrialKeeps ==
    ASSUME IInv, QuarantineTrial
    PROVE  IInv'
  <1> USE DEF QuarantineTrial, record
  <1>0. /\ TypeOK /\ pc = "handler" /\ pc \in AtTrial /\ outcome[Here] = "running"
        /\ outcome' = [outcome EXCEPT ![Here] = "quarantined"] /\ Leave("failed")
    BY DEF IInv, AtWork, TrialsOK, AtTrial
  <1>a. Stored' /\ outcome' \in [Unit -> State]
    BY <1>0, HereIsRecorded
  <1>1. TypeOK'
    <2>1. notices' \in Nat /\ "failed" \in Ending
      BY <1>0 DEF TypeOK, Ending
    <2> QED BY <1>0, <1>a, <2>1, LeavingIsTyped DEF TypeOK
  <1>2. StopOK'
    BY <1>0, LeavingInTime DEF IInv, AtWork
  <1> QED BY <1>0, <1>a, <1>1, <1>2, LeavingIsNoWork DEF IInv, AtWork

LEMMA AbandoningKeeps ==
    ASSUME IInv, pc # "down", NEW how \in {"failed", "killed"}, Leave(how),
           suspect' = suspect \cup AbandonedCall, torn' \subseteq {"evidence", "ledger"},
           UNCHANGED <<plan, retains, created, receipt, outcome, ledger, evidence, attested,
                       invocations, interrupts, contacted, ranWith, lateStarts>>,
           notices' \in Nat
    PROVE  IInv'
  <1>1. TypeOK'
    <2>1. suspect' \subseteq {"unfinished", "timeout"} /\ how \in Ending
      BY DEF AbandonedCall, IInv, TypeOK, Ending
    <2> QED BY <2>1, LeavingIsTyped DEF IInv, TypeOK
  <1>2. Stored'
    <2>1. suspect' # suspect => pc \in {"target", "waiting"}
      BY DEF AbandonedCall
    <2> QED BY <2>1, DoubtIsRecorded
  <1>3. StopOK'
    BY LeavingInTime DEF IInv, AtWork
  <1> QED BY <1>1, <1>2, <1>3, LeavingIsNoWork DEF IInv, AtWork

LEMMA AbortKeeps ==
    ASSUME IInv, Abort
    PROVE  IInv'
  <1>1. pc # "down"
    BY DEF Abort, JournalRefuses
  <1>2. notices' \in Nat /\ torn' \subseteq {"evidence", "ledger"}
    BY DEF Abort, files, IInv, TypeOK
  <1> QED BY <1>1, <1>2, AbandoningKeeps DEF Abort, files

LEMMA KillKeeps ==
    ASSUME IInv, Kill
    PROVE  IInv'
  <1>1. notices' \in Nat /\ torn' \subseteq {"evidence", "ledger"}
    BY DEF Kill, IInv, TypeOK
  <1> QED BY <1>1, AbandoningKeeps DEF Kill

LEMMA StutteringKeeps ==
    ASSUME IInv, UNCHANGED vars
    PROVE  IInv'
  <1> USE DEF vars, files, trial, control, history
  <1>1. UNCHANGED <<plan, outcome, ledger, evidence>>
    OBVIOUS
  <1>a. /\ Case' = Case /\ Planned' = Planned /\ Places' = Places
        /\ Processed' = Processed /\ Failed' = Failed /\ Remaining' = Remaining
        /\ TallyOfJournal' = TallyOfJournal /\ TallyOfStarted' = TallyOfStarted
        /\ Callable' = Callable
        /\ \A S : UnitsIn(S)' = UnitsIn(S)
    BY <1>1, Frame
  <1>e. /\ Here' = Here /\ (\A k : UnitAt(k)' = UnitAt(k)) /\ Accepted' = Accepted
        /\ Declined' = Declined /\ (\A c : UnitsOf(c)' = UnitsOf(c)) /\ UnitsOf(case)' = UnitsOf(case)
        /\ Original(Here)' = Original(Here) /\ StopRequested' = StopRequested
    BY <1>a DEF Here, UnitAt, Accepted, Declined, UnitsOf, Original, StopRequested
  <1>2. TypeOK'
    BY <1>a DEF IInv, TypeOK
  <1>3. Stored'
    BY StoredKept DEF IInv, Kept
  <1>4. PhasesOK'
    <2>1. Pristine => Pristine'
      BY <1>a, <1>e DEF Pristine, Untouched
    <2>2. (\A c \in Remaining : Untouched(c)) => (\A c \in Remaining : Untouched(c))'
      BY <1>a, <1>e DEF Untouched
    <2> QED BY <1>a, <2>1, <2>2 DEF IInv, AtWork, PhasesOK
  <1>5. DrawOK'
    <2>1. \A c : Untouched(c) => Untouched(c)'
      BY <1>e DEF Untouched
    <2>2. (Untouched(case) => Untouched(case)') /\ (SameDraw(case, draw) => SameDraw(case, draw)')
      BY <1>e DEF Untouched, SameDraw
    <2> QED BY <1>a, <1>e, <2>1, <2>2 DEF IInv, AtWork, DrawOK
  <1>6. TrialsOK'
    BY <1>a, <1>e DEF IInv, AtWork, TrialsOK
  <1>7. StopOK'
    BY <1>a, <1>e DEF IInv, AtWork, StopOK
  <1>8. TallyOK'
    BY <1>a, <1>e DEF IInv, AtWork, TallyOK
  <1>9. AllowanceOK'
    BY <1>a DEF IInv, AtWork, AllowanceOK
  <1> QED BY <1>2, <1>3, <1>4, <1>5, <1>6, <1>7, <1>8, <1>9 DEF IInv, AtWork
-----------------------------------------------------------------------------
(* The campaign begins with empty files ...                                *)
LEMMA InitHolds ==
    ASSUME Init
    PROVE  IInv
  <1> USE DEF Init
  <1>0. plan \in Plans /\ pc = "down" /\ Planned \subseteq Unit /\ 1 \in Case
    BY PlanShape
  <1>1. TypeOK
    <2>1. FilesTyped
      <3>1. "planned" \in State
        BY DEF State
      <3>2. evidence \in Seq([case : Case, kind : {"result", "failure"}, draw : Draw \cup {NoDraw}])
        OBVIOUS
      <3>3. outcome \in [Unit -> State] /\ ledger \in [Case -> Draw \cup {NoDraw}]
        BY <3>1
      <3>4. plan \in Plans /\ created \in 0 .. 3
        BY <1>0
      <3>5. retains \in BOOLEAN /\ receipt \in BOOLEAN
        OBVIOUS
      <3>6. torn \subseteq {"evidence", "ledger"} /\ attested \subseteq Unit
        OBVIOUS
      <3> HIDE DEF Init
      <3> QED BY <3>2, <3>3, <3>4, <3>5, <3>6 DEF FilesTyped
    <2>2. WorkTyped
      <3>1. NoWork \in [{"completed", "skipped", "failed", "running", "calls"} -> Nat]
        BY DEF NoWork
      <3>2. AsRecorded \in [differs : SUBSET Aspect, dry : BOOLEAN]
        BY DEF AsRecorded
      <3>3. (pc \in Label /\ allowance \in Int /\ case \in Case /\ place \in Nat \ {0})
        BY <1>0 DEF Label
      <3>4. (inFlight \in BOOLEAN /\ cancelling \in BOOLEAN /\ uncertain \in BOOLEAN)
        OBVIOUS
      <3>5. (/\ draw \in Draw \cup {NoDraw}
             /\ result \in {"none", "completed", "inconclusive", "quarantined", "skipped"}
             /\ request \in {"none", "pause", "cancel"})
        OBVIOUS
      <3> QED BY <3>1, <3>2, <3>3, <3>4, <3>5 DEF WorkTyped
    <2>3. HistoryTyped
      BY <1>0, PlanShape DEF HistoryTyped, Ending
    <2> QED BY <2>1, <2>2, <2>3, TypeParts
  <1>2. \A u \in Planned : outcome[u] = "planned" /\ u.case \in Case
    BY <1>0, UnitsHaveCases
  <1>3. Stored
    <2>1. Pristine
      BY <1>2 DEF Pristine, Untouched, UnitsOf
    <2>2. Failed = {}
      BY DEF Failed
    <2>3. OutcomesOK /\ CallsOK /\ EvidenceOK
      BY <1>2 DEF OutcomesOK, CallsOK, EvidenceOK
    <2>4. LedgerOK
      BY <1>2 DEF LedgerOK, Untouched, UnitsOf
    <2>5. DoubtOK
      BY DEF DoubtOK
    <2> QED BY <2>1, <2>3, <2>4, <2>5 DEF Stored
  <1>4. PhasesOK
    BY <1>0 DEF PhasesOK, Loop
  <1>5. DrawOK
    BY <1>0 DEF DrawOK, Loop, AtTrial
  <1>6. TrialsOK
    BY <1>0, <1>2 DEF TrialsOK, Loop, AtTrial, Sending
  <1>7. StopOK /\ TallyOK /\ AllowanceOK
    BY <1>0 DEF StopOK, TallyOK, AllowanceOK, Loop
  <1> QED BY <1>1, <1>3, <1>4, <1>5, <1>6, <1>7 DEF IInv, AtWork

(* ... and every step of it keeps the invariant.                           *)
LEMMA NextKeeps ==
    ASSUME IInv, [Next]_vars
    PROVE  IInv'
  <1>1. CASE Prepare
    <2>1. CASE \E r \in Request : OpenForResume(r)
      BY <2>1, OpenForResumeKeeps
    <2>2. CASE \E flag \in BOOLEAN : ResolveQuarantine(flag)
      BY <2>2, ResolveQuarantineKeeps
    <2>3. CASE \/ StartFresh \/ CreateNext \/ Reconcile \/ RefuseEvidence \/ RefuseManifest
               \/ NotAuthorised \/ Preflight \/ PreflightFails \/ OpenPersistence
      BY <2>3, StartFreshKeeps, CreateNextKeeps, ReconcileKeeps, RefuseEvidenceKeeps,
         RefuseManifestKeeps, NotAuthorisedKeeps, PreflightKeeps, PreflightFailsKeeps,
         OpenPersistenceKeeps
    <2> QED BY <1>1, <2>1, <2>2, <2>3 DEF Prepare
  <1>2. CASE PrepareCase
    <2>1. CASE \E u \in Planned : SkipDeclined(u) \/ SettleFailed(u)
      BY <2>1, SkipDeclinedKeeps, SettleFailedKeeps
    <2>2. CASE \E verdict \in [1 .. Operators -> Verdict], comparable \in BOOLEAN :
                   Augment(verdict, comparable)
      BY <2>2, AugmentKeeps
    <2>3. CASE \/ BeginCase \/ SkipEnds \/ CaseBoundary \/ AugmentFails \/ SaveAugmentation
               \/ CompareSurface \/ WriteFailure \/ SettlingEnds
      BY <2>3, BeginCaseKeeps, SkipEndsKeeps, CaseBoundaryKeeps, AugmentFailsKeeps,
         SaveAugmentationKeeps, CompareSurfaceKeeps, WriteFailureKeeps, SettlingEndsKeeps
    <2> QED BY <1>2, <2>1, <2>2, <2>3 DEF PrepareCase
  <1>3. CASE RunTrial
    <2>1. CASE \E state \in {"completed", "inconclusive", "quarantined"}, doubt \in BOOLEAN :
                   TargetAnswers(state, doubt)
      BY <2>1, TargetAnswersKeeps
    <2>2. CASE \/ PassOver \/ NotExecuted \/ TrialBoundary \/ TrialsEnd \/ StartTrial
               \/ RegisterTrial \/ SendRequest \/ UnregisterTrial \/ FinishTrial \/ AfterBoundary
      BY <2>2, PassOverKeeps, NotExecutedKeeps, TrialBoundaryKeeps, TrialsEndKeeps,
         StartTrialKeeps, RegisterTrialKeeps, SendRequestKeeps, UnregisterTrialKeeps,
         FinishTrialKeeps, AfterBoundaryKeeps
    <2> QED BY <1>3, <2>1, <2>2 DEF RunTrial
  <1>4. CASE Conclude
    BY <1>4, JudgeKeeps, WriteEvidenceKeeps, ReportKeeps DEF Conclude
  <1>5. CASE Stop
    BY <1>5, CancelTrialKeeps, QuarantineTrialKeeps, CancelLateKeeps, AbortKeeps DEF Stop
  <1>6. CASE Interrupt \/ Kill \/ UNCHANGED vars
    BY <1>6, InterruptKeeps, KillKeeps, StutteringKeeps
  <1> QED BY <1>1, <1>2, <1>3, <1>4, <1>5, <1>6 DEF Next

(* The inductive invariant holds in every campaign: whatever the user, the *)
(* target and the kills do, in any number of invocations.                  *)
THEOREM Invariance == Spec => []IInv
  <1> QED BY InitHolds, NextKeeps, PTL DEF Spec

(* Every call is justified: one generation of variations per case, no call *)
(* for a source whose preparation failed, no variation without the         *)
(* original of its repetition, none to a target in doubt, none that is not *)
(* counted, none under other settings, none beyond the announced plan.     *)
THEOREM JustifiedCalls == Spec => []CallsAreJustified
  <1>1. ASSUME IInv PROVE CallsAreJustified
    <2>1. OneDrawPerCase
      <3>1. ASSUME NEW i \in DOMAIN evidence, NEW u \in contacted, u.case = evidence[i].case
            PROVE  ranWith[u] = evidence[i].draw
        <4>1. u \in Planned /\ u.case \notin Failed /\ u \in UnitsOf(evidence[i].case)
          BY <1>1, <3>1 DEF IInv, Stored, CallsOK, UnitsOf
        <4>2. evidence[i].kind = "result"
          <5>1. PICK L : L = [case : Case, kind : {"result", "failure"},
                              draw : Draw \cup {NoDraw}]
            OBVIOUS
          <5>2. evidence \in Seq(L)
            BY <5>1, <1>1 DEF IInv, TypeOK
          <5>3. evidence[i] \in L
            BY <5>2
          <5>4. evidence[i].kind # "failure"
            BY <4>1, <3>1 DEF Failed
          <5> QED BY <5>1, <5>3, <5>4
        <4> QED BY <4>1, <4>2, <1>1 DEF IInv, Stored, EvidenceOK
      <3> QED BY <3>1, <1>1 DEF OneDrawPerCase, IInv, Stored, CallsOK
    <2>2. FailedSourcesAreNeverCalled /\ VariationsFollowTheirOriginal
      BY <1>1 DEF FailedSourcesAreNeverCalled, VariationsFollowTheirOriginal, IInv, Stored, CallsOK
    <2>3. SuspectTargetIsLeftAlone
      BY <1>1 DEF SuspectTargetIsLeftAlone, IInv, AtWork, TrialsOK, Sending, Loop
    <2>4. CallsAreCounted
      BY <1>1 DEF CallsAreCounted, Attempted, UnitsIn, IInv, Stored, CallsOK
    <2>5. CallsAreAsRecorded
      BY <1>1 DEF CallsAreAsRecorded, IInv, AtWork, PhasesOK, Loop
    <2>6. CallsStayInThePlan
      <3>1. Cardinality(Callable) \in Nat /\ allowance \in Int
        BY <1>1, CallableIsFinite DEF IInv, TypeOK
      <3> QED BY <3>1, <1>1 DEF CallsStayInThePlan, IInv, AtWork, AllowanceOK
    <2> QED BY <2>1, <2>2, <2>3, <2>4, <2>5, <2>6 DEF CallsAreJustified
  <1> QED BY <1>1, Invariance, PTL

(* A stop that the user asks for lets at most one trial start, leaves none *)
(* running, and is announced.                                              *)
THEOREM HonouredStops == Spec => []StopIsHonoured
  <1>1. ASSUME IInv PROVE StopIsHonoured
    <2>1. ending = "stopped" =>
             UnitsIn({"running"}) = {} /\ \A u \in contacted : outcome[u] \in Settled
      BY <1>1 DEF IInv, AtWork, StopOK, Stored, CallsOK, UnitsIn, Settled
    <2> QED BY <2>1, <1>1 DEF StopIsHonoured, StopLeavesNothingRunning, StopLetsOneTrialStart,
               IInv, AtWork, StopOK
  <1> QED BY <1>1, Invariance, PTL

(* The progress counters are what the journal says, the journal never      *)
(* refuses a transition, and what is reported as completed is complete.    *)
THEOREM AgreeingRecords == Spec => []RecordsAgree
  <1>1. ASSUME IInv PROVE RecordsAgree
    <2>1. ProgressIsTheJournal
      BY <1>1 DEF ProgressIsTheJournal, IInv, AtWork, TallyOK
    <2>2. JournalNeverRefuses
      BY <1>1 DEF JournalNeverRefuses, JournalRefuses, IInv, AtWork, TrialsOK
    <2>3. CompletedIsComplete
      BY <1>1 DEF CompletedIsComplete, IInv, AtWork, StopOK
    <2> QED BY <2>1, <2>2, <2>3, <1>1 DEF RecordsAgree, IInv
  <1> QED BY <1>1, Invariance, PTL

(* A case has at most one line of evidence, and what it says is settled.   *)
THEOREM FinalEvidence == Spec => []EvidenceIsFinal
  <1>1. ASSUME IInv PROVE EvidenceIsFinal
    BY <1>1 DEF EvidenceIsFinal, IInv, Stored, EvidenceOK
  <1> QED BY <1>1, Invariance, PTL
-----------------------------------------------------------------------------
(* The refinement: what the journal does is a step of TrialOutcomes.       *)
LEMMA Recorded ==
    ASSUME TypeOK, UNCHANGED contacted, outcome' \in [Unit -> State],
           \A u \in Unit : \/ outcome'[u] = outcome[u]
                           \/ outcome[u] = "planned"
                           \/ outcome[u] = "running" /\ outcome'[u] \in Settled
    PROVE  Outcomes!Record
  <1>1. outcome' \in [Unit -> {"planned", "running"} \cup Settled]
    BY DEF State, Settled
  <1>2. ASSUME NEW u \in Unit PROVE outcome'[u] \in Outcomes!Successors(outcome[u])
    <2>1. outcome[u] \in {"planned", "running"} \cup Settled /\ outcome'[u] \in {"planned", "running"} \cup Settled
      BY <1>1 DEF TypeOK, State, Settled
    <2>2. CASE outcome'[u] = outcome[u]
      BY <2>1, <2>2 DEF Outcomes!Successors
    <2>3. CASE outcome[u] = "planned"
      BY <2>1, <2>3 DEF Outcomes!Successors
    <2>4. CASE outcome[u] = "running" /\ outcome'[u] \in Settled
      BY <2>1, <2>4 DEF Outcomes!Successors
    <2> QED BY <2>2, <2>3, <2>4
  <1> QED BY <1>1, <1>2 DEF Outcomes!Record

LEMMA OneIsRecorded ==
    ASSUME TypeOK, UNCHANGED contacted, NEW v \in Unit, NEW s \in State,
           outcome' = [outcome EXCEPT ![v] = s],
           outcome[v] = "planned" \/ (outcome[v] = "running" /\ s \in Settled)
    PROVE  Outcomes!Record
  <1>1. /\ outcome' \in [Unit -> State]
        /\ \A u \in Unit : outcome'[u] = IF u = v THEN s ELSE outcome[u]
    BY DEF TypeOK
  <1> QED BY <1>1, Recorded

LEMMA QuietStepsStutter ==
    ASSUME UNCHANGED <<outcome, contacted>>
    PROVE  UNCHANGED Outcomes!ovars
  <1> QED BY DEF Outcomes!ovars

(* Only seven actions write the journal, and one contacts the target.      *)
LEMMA QuietActions ==
    ASSUME \/ StartFresh \/ CreateNext \/ RefuseEvidence \/ RefuseManifest \/ NotAuthorised
           \/ (\E flag \in BOOLEAN : ResolveQuarantine(flag))
           \/ Preflight \/ PreflightFails \/ OpenPersistence
           \/ BeginCase \/ SkipEnds \/ CaseBoundary
           \/ (\E verdict \in [1 .. Operators -> Verdict], comparable \in BOOLEAN :
                   Augment(verdict, comparable))
           \/ AugmentFails \/ SaveAugmentation \/ CompareSurface \/ WriteFailure \/ SettlingEnds
           \/ PassOver \/ NotExecuted \/ TrialBoundary \/ TrialsEnd \/ RegisterTrial
           \/ (\E state \in {"completed", "inconclusive", "quarantined"}, doubt \in BOOLEAN :
                   TargetAnswers(state, doubt))
           \/ UnregisterTrial \/ AfterBoundary \/ Conclude
           \/ CancelTrial \/ CancelLate \/ Abort \/ Interrupt \/ Kill \/ UNCHANGED vars
    PROVE  UNCHANGED <<outcome, contacted>>
  <1> USE DEF files, history, record, vars
  <1>1. CASE \/ StartFresh \/ CreateNext \/ RefuseEvidence \/ RefuseManifest \/ NotAuthorised
             \/ (\E flag \in BOOLEAN : ResolveQuarantine(flag))
             \/ Preflight \/ PreflightFails \/ OpenPersistence
    BY <1>1 DEF StartFresh, CreateNext, RefuseEvidence, RefuseManifest, NotAuthorised,
       ResolveQuarantine, Preflight, PreflightFails, OpenPersistence
  <1>2. CASE \/ BeginCase \/ SkipEnds \/ CaseBoundary
             \/ (\E verdict \in [1 .. Operators -> Verdict], comparable \in BOOLEAN :
                     Augment(verdict, comparable))
             \/ AugmentFails \/ SaveAugmentation \/ CompareSurface \/ WriteFailure \/ SettlingEnds
    BY <1>2 DEF BeginCase, SkipEnds, CaseBoundary, Augment, AugmentFails, SaveAugmentation,
       CompareSurface, WriteFailure, SettlingEnds
  <1>3. CASE \/ PassOver \/ NotExecuted \/ TrialBoundary \/ TrialsEnd \/ RegisterTrial
             \/ (\E state \in {"completed", "inconclusive", "quarantined"}, doubt \in BOOLEAN :
                     TargetAnswers(state, doubt))
             \/ UnregisterTrial \/ AfterBoundary
    BY <1>3 DEF PassOver, NotExecuted, TrialBoundary, TrialsEnd, RegisterTrial, TargetAnswers,
       UnregisterTrial, AfterBoundary
  <1>4. CASE \/ Conclude \/ CancelTrial \/ CancelLate \/ Abort \/ Interrupt \/ Kill
             \/ UNCHANGED vars
    BY <1>4 DEF Conclude, Judge, WriteEvidence, Report, CancelTrial, CancelLate, Abort, Interrupt,
       Kill
  <1> QED BY <1>1, <1>2, <1>3, <1>4

LEMMA WritesAreRecorded ==
    ASSUME IInv,
           \/ (\E r \in Request : OpenForResume(r)) \/ Reconcile
           \/ (\E u \in Planned : SkipDeclined(u) \/ SettleFailed(u))
           \/ StartTrial \/ FinishTrial \/ QuarantineTrial
    PROVE  Outcomes!Record
  <1>0. TypeOK /\ Planned \subseteq Unit /\ (pc \in AtTrial => Here \in Unit)
    <2>1. TypeOK /\ TrialsOK
      BY DEF IInv, AtWork
    <2>2. plan \in Plans
      BY <2>1 DEF TypeOK
    <2>3. pc \in AtTrial => place \in Places
      BY <2>1 DEF TrialsOK
    <2> QED BY <2>1, <2>2, <2>3, PlanShape, HereIsPlanned
  <1>1. CASE (\E r \in Request : OpenForResume(r)) \/ Reconcile
    <2>1. UNCHANGED contacted
      BY <1>1 DEF OpenForResume, Reconcile, record
    <2>2. /\ outcome' \in [Unit -> State]
          /\ \A u \in Unit : \/ outcome'[u] = outcome[u]
                             \/ outcome[u] = "planned"
                             \/ outcome[u] = "running" /\ outcome'[u] \in Settled
      BY <1>0, <1>1 DEF OpenForResume, Reconcile, RecoveredState, ReconciledOutcome, TypeOK, State,
         Settled
    <2> QED BY <1>0, <2>1, <2>2, Recorded
  <1>2. CASE \E u \in Planned : SkipDeclined(u)
    <2>1. PICK u \in Planned : SkipDeclined(u)
      BY <1>2
    <2>2. draw.verdict[u.op] \in State /\ UNCHANGED contacted
      <3>1. pc = "skip" /\ u \in Declined /\ draw \in Draw
        BY <2>1 DEF SkipDeclined, IInv, AtWork, DrawOK
      <3>2. draw.verdict[u.op] \in {"rejected", "inapplicable"}
        <4>1. u.op \in 1 .. Operators /\ u.op \notin Accepted
          BY <3>1, UnitsHaveCases, BoundsAreNumbers DEF Declined, UnitsOf
        <4>2. draw.verdict[u.op] \in Verdict
          BY <3>1, <4>1 DEF Draw
        <4> QED BY <4>1, <4>2 DEF Accepted, Verdict
      <3> QED BY <2>1, <3>2 DEF SkipDeclined, history, State, Settled
    <2>3. outcome[u] = "planned" /\ outcome' = [outcome EXCEPT ![u] = draw.verdict[u.op]]
      BY <2>1 DEF SkipDeclined
    <2> QED BY <1>0, <2>2, <2>3, OneIsRecorded
  <1>3. CASE \E u \in Planned : SettleFailed(u)
    <2>1. PICK u \in Planned : SettleFailed(u)
      BY <1>3
    <2>2. /\ outcome[u] = "planned" /\ outcome' = [outcome EXCEPT ![u] = "errored"]
          /\ UNCHANGED contacted /\ "errored" \in State
      BY <2>1 DEF SettleFailed, history, State, Settled
    <2> QED BY <1>0, <2>2, OneIsRecorded
  <1>4. CASE StartTrial
    <2>1. /\ outcome[Here] = "planned" /\ outcome' = [outcome EXCEPT ![Here] = "running"]
          /\ UNCHANGED contacted /\ "running" \in State /\ pc \in AtTrial
      BY <1>4 DEF StartTrial, history, State, AtTrial
    <2> QED BY <1>0, <2>1, OneIsRecorded
  <1>5. CASE FinishTrial
    <2>1. /\ outcome' = [outcome EXCEPT ![Here] = result] /\ UNCHANGED contacted
          /\ pc = "finish" /\ pc \in AtTrial
      BY <1>5 DEF FinishTrial, history, AtTrial
    <2>2. outcome[Here] \in {"planned", "running"} /\ result \in State /\ result \in Settled
      BY <2>1 DEF IInv, AtWork, TrialsOK, State, Settled
    <2> QED BY <1>0, <2>1, <2>2, OneIsRecorded
  <1>6. CASE QuarantineTrial
    <2>1. /\ outcome' = [outcome EXCEPT ![Here] = "quarantined"] /\ UNCHANGED contacted
          /\ pc = "handler" /\ pc \in AtTrial /\ "quarantined" \in State
          /\ "quarantined" \in Settled
      BY <1>6 DEF QuarantineTrial, record, AtTrial, State, Settled
    <2>2. outcome[Here] = "running"
      BY <2>1 DEF IInv, AtWork, TrialsOK
    <2> QED BY <1>0, <2>1, <2>2, OneIsRecorded
  <1> QED BY <1>1, <1>2, <1>3, <1>4, <1>5, <1>6

(* The campaign implements the journal's promise: every step of it is a    *)
(* recorded transition, the one contact of a running unit, or neither.     *)
THEOREM OutcomesKept == Spec => KeepsOutcomes
  <1>1. ASSUME Init PROVE Outcomes!Init
    BY <1>1 DEF Init, Outcomes!Init
  <1>2. ASSUME IInv, [Next]_vars PROVE [Outcomes!Next]_(Outcomes!ovars)
    <2>1. CASE \/ (\E r \in Request : OpenForResume(r)) \/ Reconcile
               \/ (\E u \in Planned : SkipDeclined(u) \/ SettleFailed(u))
               \/ StartTrial \/ FinishTrial \/ QuarantineTrial
      BY <1>2, <2>1, WritesAreRecorded DEF Outcomes!Next
    <2>2. CASE SendRequest
      <3>1. PICK h : h = Here
        OBVIOUS
      <3>2. h \in Unit /\ outcome[h] = "running" /\ h \notin contacted
        BY <1>2, <2>2, <3>1, HereIsPlanned, PlanShape
           DEF SendRequest, IInv, AtWork, TrialsOK, AtTrial
      <3>3. contacted' = contacted \cup {h} /\ UNCHANGED outcome
        BY <2>2, <3>1 DEF SendRequest, files
      <3> QED BY <3>2, <3>3 DEF Outcomes!Next, Outcomes!Contact
    <2>3. CASE ~ \/ (\E r \in Request : OpenForResume(r)) \/ Reconcile
                 \/ (\E u \in Planned : SkipDeclined(u) \/ SettleFailed(u))
                 \/ StartTrial \/ FinishTrial \/ QuarantineTrial \/ SendRequest
      <3>1. UNCHANGED <<outcome, contacted>>
        BY <1>2, <2>3, QuietActions DEF Next, Prepare, PrepareCase, RunTrial, Stop
      <3> QED BY <3>1, QuietStepsStutter
    <2> QED BY <2>1, <2>2, <2>3
  <1> QED BY <1>1, <1>2, Invariance, PTL DEF Spec, KeepsOutcomes, Outcomes!Spec
=============================================================================
