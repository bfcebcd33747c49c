--------------------------- MODULE EvidenceProofs ---------------------------
(***************************************************************************)
(* Theorems about what a campaign leaves behind and what is told of it:    *)
(* the journal of its trials, the file of its findings, and the exit codes *)
(* and reports on its evidence.                                            *)
(*                                                                         *)
(* Of the journal (TrialJournal), for every work plan, every set of        *)
(* processes and every size limit: Inv is inductive.  Its core is          *)
(* NothingForgotten: whatever chain a process may append to, and whatever  *)
(* anchor a later process may read, already contains every acknowledged    *)
(* transition.  An append extends a chain by one legal transition and is   *)
(* acknowledged only after that chain is what the anchor, visible and      *)
(* durable, digests.                                                       *)
(*                                                                         *)
(* Of the findings file (FindingRuns), for every campaign and whatever its *)
(* sources are judged to be: the key is there before the first source is   *)
(* judged, all sources are judged before the file is written, and a run    *)
(* that writes it again writes what is there.                              *)
(*                                                                         *)
(* Of the reports (CampaignReports), for every evidence and every set of   *)
(* reviews: what a finding is like follows from the case or the rule it is *)
(* of, so what the contract of a report demands, what the headline looks   *)
(* at and what the exit codes count can be told from the cases.  All that  *)
(* is assumed of judging is what a line of the evidence looks like         *)
(* (IsJudged, in EvidenceForm).                                            *)
(***************************************************************************)
EXTENDS TrialJournal, CampaignReports, FiniteSetTheorems, WellFoundedInduction, TLAPS

-----------------------------------------------------------------------------
(***************************************************************************)
(*                               THE JOURNAL                               *)
(***************************************************************************)

(* A non-empty set of indices of a chain has a largest element: the        *)
(* distances from the end have a least one.                                *)
LEMMA LastIndexExists ==
    ASSUME NEW n \in Nat, NEW I, I \subseteq 1 .. n, I # {}
    PROVE  \E i \in I : \A j \in I : ~(j > i)
<1> DEFINE D == {d \in Nat : n - d \in I}
<1>1. D # {}
  <2>1. PICK i \in I : TRUE
    OBVIOUS
  <2>2. n - i \in Nat /\ n - (n - i) = i
    BY <2>1
  <2> QED
    BY <2>1, <2>2
<1>2. \E d \in D : \A e \in D : ~(<<e, d>> \in OpToRel(<, Nat))
  BY <1>1, WFMin, NatLessThanWellFounded
<1>3. PICK d \in D : \A e \in D : ~(e < d)
  BY <1>2 DEF OpToRel
<1>4. \A j \in I : n - j \in D
  OBVIOUS
<1> QED
  BY <1>3, <1>4

(* The state of a unit in a chain with one record more: the record's, if   *)
(* it is about that unit, and otherwise what it was.                       *)
LEMMA StateOfAppend ==
    ASSUME NEW chain \in Chain, NEW e \in Entry, NEW u
    PROVE  StateOf(Append(chain, e), u) =
              IF e.unit = u THEN e.state ELSE StateOf(chain, u)
<1> DEFINE long == Append(chain, e)
<1> DEFINE Last(c, i) == /\ c[i].unit = u
                         /\ \A j \in DOMAIN c : j > i => c[j].unit # u
<1>1. /\ Len(long) = Len(chain) + 1 /\ Len(chain) \in Nat
      /\ DOMAIN long = 1 .. Len(chain) + 1
      /\ DOMAIN chain = 1 .. Len(chain)
      /\ long[Len(chain) + 1] = e
      /\ \A i \in DOMAIN chain : long[i] = chain[i]
  BY DEF Chain
<1>2. CASE e.unit = u
  <2>1. u \in Units(long)
    BY <1>1, <1>2 DEF Units
  <2>2. Last(long, Len(chain) + 1)
    BY <1>1, <1>2
  <2>3. \A i \in DOMAIN long : Last(long, i) => i = Len(chain) + 1
    BY <1>1, <1>2
  <2>4. (CHOOSE i \in DOMAIN long : Last(long, i)) = Len(chain) + 1
    BY <2>2, <2>3, <1>1
  <2> QED
    BY <2>1, <2>4, <1>1, <1>2 DEF StateOf
<1>3. CASE e.unit # u
  <2>1. u \in Units(long) <=> u \in Units(chain)
    BY <1>1, <1>3 DEF Units
  <2>2. \A i : (i \in DOMAIN long /\ Last(long, i)) <=> (i \in DOMAIN chain /\ Last(chain, i))
    BY <1>1, <1>3
  <2>3. (CHOOSE i \in DOMAIN long : Last(long, i)) = (CHOOSE i \in DOMAIN chain : Last(chain, i))
    BY <2>2
  <2>4. CASE u \in Units(chain)
    <3> DEFINE I == {i \in DOMAIN chain : chain[i].unit = u}
    <3>a. I # {} /\ I \subseteq 1 .. Len(chain) /\ Len(chain) \in Nat
      BY <2>4, <1>1 DEF Units
    <3>b. PICK last \in I : \A j \in I : ~(j > last)
      BY <3>a, LastIndexExists
    <3>1. \E i \in DOMAIN chain : Last(chain, i)
      BY <3>b
    <3> QED
      BY <2>1, <2>2, <2>3, <2>4, <3>1, <1>1, <1>3 DEF StateOf
  <2>5. CASE u \notin Units(chain)
    BY <2>1, <2>5, <1>3 DEF StateOf
  <2> QED
    BY <2>4, <2>5
<1> QED
  BY <1>2, <1>3

(* The state of a unit in a chain is the state of one of its records.      *)
LEMMA StateOfType ==
    ASSUME NEW chain \in Chain, NEW u \in Units(chain)
    PROVE  StateOf(chain, u) \in State \ {"planned"}
<1> DEFINE I == {i \in DOMAIN chain : chain[i].unit = u}
<1>1. /\ I # {} /\ I \subseteq 1 .. Len(chain) /\ Len(chain) \in Nat
      /\ \A i \in DOMAIN chain : chain[i] \in Entry
  BY DEF Units, Chain
<1>2. PICK last \in I : \A j \in I : ~(j > last)
  BY <1>1, LastIndexExists
<1>3. /\ last \in DOMAIN chain
      /\ chain[last].unit = u
      /\ \A j \in DOMAIN chain : j > last => chain[j].unit # u
  BY <1>2
<1> QED
  BY <1>1, <1>3 DEF StateOf, Entry

LEMMA StateOfEmpty == \A u : StateOf(<<>>, u) = "planned"
  BY DEF StateOf, Units

(* The first record of a unit makes it known; a record is never "planned". *)
LEMMA ExtendRemembers ==
    ASSUME NEW chain \in Chain, NEW e \in Entry, TypeOK, Remembers(chain),
           StateOf(chain, e.unit) \notin Terminal
    PROVE  Remembers(Append(chain, e))
<1> SUFFICES ASSUME NEW u \in Unit
             PROVE  /\ acked[u] \in Terminal => StateOf(Append(chain, e), u) = acked[u]
                    /\ acked[u] = "running" => StateOf(Append(chain, e), u) # "planned"
                    /\ starts[u] > 0 => StateOf(Append(chain, e), u) # "planned"
  BY DEF Remembers
<1>1. StateOf(Append(chain, e), u) = IF e.unit = u THEN e.state ELSE StateOf(chain, u)
  BY StateOfAppend
<1>2. e.state # "planned"
  BY DEF Entry
<1> QED
  BY <1>1, <1>2 DEF Remembers

---------------------------------------------------------------------------
LEMMA AppendType ==
    ASSUME NEW chain \in Chain, NEW e \in Entry
    PROVE  /\ Append(chain, e) \in Chain
           /\ Len(Append(chain, e)) = Len(chain) + 1
           /\ Len(chain) \in Nat
  BY DEF Chain

LEMMA PrefixType ==
    ASSUME NEW chain \in Chain, NEW n \in 0 .. Len(chain)
    PROVE  SubSeq(chain, 1, n) \in Chain /\ Len(SubSeq(chain, 1, n)) = n
  BY DEF Chain

LEMMA PendingType ==
    ASSUME TypeOK, PendingIsLegal, NEW p \in Proc, step[p] \in Appending
    PROVE  pending[p][1] \in Entry
<1>1. pending[p] \in Seq(Entry) /\ Len(pending[p]) = 1
  BY DEF TypeOK, PendingIsLegal, Chain
<1> QED
  BY <1>1

(* The state keeps its shape through every step.                           *)
LEMMA NextKeepsType ==
    ASSUME TypeOK, PendingIsLegal, [Next]_vars
    PROVE  TypeOK'
<1> USE DEF TypeOK
<1>0. <<>> \in Chain /\ Len(<<>>) = 0
  BY DEF Chain
<1>1. ASSUME NEW p \in Proc, Create(p)
      PROVE  TypeOK'
  <2>1. CASE CreateFile(p)
    BY <2>1, <1>0 DEF CreateFile, Step, history
  <2>2. CASE LockNew(p)
    BY <2>2 DEF LockNew, Step, disk, history
  <2>3. CASE LinkAnchor(p)
    BY <2>3, <1>0 DEF LinkAnchor, Step, history
  <2>4. CASE FinishCreate(p)
    BY <2>4 DEF FinishCreate, Step, history
  <2> QED
    BY <1>1, <2>1, <2>2, <2>3, <2>4 DEF Create
<1>2. ASSUME NEW p \in Proc, Open(p)
      PROVE  TypeOK'
  <2>1. CASE OpenLock(p)
    BY <2>1 DEF OpenLock, Step, disk, history
  <2>2. CASE OpenAccept(p)
    BY <2>2 DEF OpenAccept, Step, disk, history
  <2>3. CASE OpenReject(p)
    BY <2>3, <1>0 DEF OpenReject, Leave, Step, disk, history
  <2>4. CASE OpenReturns(p)
    BY <2>4 DEF OpenReturns, disk, history
  <2> QED
    BY <1>2, <2>1, <2>2, <2>3, <2>4 DEF Open
<1>3. ASSUME NEW p \in Proc, AppendRecord(p)
      PROVE  TypeOK'
  <2>1. ASSUME NEW u \in Unit, NEW s \in State \ {"planned"}, WriteLine(p, u, s)
        PROVE  TypeOK'
    <3> DEFINE e == [unit |-> u, state |-> s]
    <3>1. e \in Entry /\ <<e>> \in Chain
      BY DEF Entry, Chain
    <3>2. /\ file' \in Chain /\ Len(file') = Len(file) + 1 /\ Len(file) \in Nat
      BY <2>1, <3>1, AppendType DEF WriteLine
    <3>3. goodLen' \in 0 .. Len(file') /\ synced' \in 0 .. Len(file')
      BY <2>1, <3>2 DEF WriteLine
    <3> QED
      BY <2>1, <3>1, <3>2, <3>3 DEF WriteLine, Step, history
  <2>2. CASE FsyncFile(p)
    <3>1. Len(file) \in Nat
      BY DEF Chain
    <3> QED
      BY <2>2, <3>1 DEF FsyncFile, Step, history
  <2>3. CASE StageAnchor(p)
    BY <2>3 DEF StageAnchor, Step, history
  <2>4. CASE ReplaceAnchor(p)
    <3>1. pending[p][1] \in Entry
      BY <2>4, PendingType DEF ReplaceAnchor, Appending
    <3> QED
      BY <2>4, <3>1, AppendType DEF ReplaceAnchor, Step, history
  <2>5. CASE FsyncDirectory(p)
    BY <2>5 DEF FsyncDirectory, Step, history
  <2>6. CASE AppendReturns(p)
    <3>1. pending[p][1] \in Entry
      BY <2>6, PendingType DEF AppendReturns, Appending
    <3>2. pending[p][1].unit \in Unit /\ pending[p][1].state \in State
      BY <3>1 DEF Entry
    <3>3. acked' \in [Unit -> State] /\ starts' \in [Unit -> Nat]
      BY <2>6, <3>2 DEF AppendReturns
    <3> QED
      BY <2>6, <3>1, <3>3, <1>0, AppendType DEF AppendReturns, Step, disk
  <2> QED
    BY <1>3, <2>1, <2>2, <2>3, <2>4, <2>5, <2>6 DEF AppendRecord
<1>4. ASSUME NEW p \in Proc, Flush(p) \/ Close(p)
      PROVE  TypeOK'
  <2>1. Len(file) \in Nat
    BY DEF Chain
  <2> QED
    BY <1>4, <1>0, <2>1 DEF Flush, Close, Leave, Step, disk, history, process
<1>5. ASSUME NEW p \in Proc, Fault(p)
      PROVE  TypeOK'
  <2>1. CASE CreateFails(p)
    BY <2>1, <1>0 DEF CreateFails, Leave, Step
  <2>2. ASSUME NEW u \in Unit, NEW s \in State \ {"planned"}, TearLine(p, u, s)
        PROVE  TypeOK'
    <3>1. [unit |-> u, state |-> s] \in Entry
      BY DEF Entry
    <3>2. file' \in Chain /\ Len(file') = Len(file) + 1 /\ Len(file) \in Nat
      BY <2>2, <3>1, AppendType DEF TearLine
    <3> QED
      BY <2>2, <3>2 DEF TearLine, Step
  <2>3. CASE AppendFails(p)
    BY <2>3, <1>0 DEF AppendFails, Step
  <2>4. CASE Kill(p)
    BY <2>4, <1>0 DEF Kill, Leave, Step, disk
  <2> QED
    BY <1>5, <2>1, <2>2, <2>3, <2>4 DEF Fault
<1>6. CASE PowerLoss
  <2>1. PICK n \in synced .. Len(file) :
            /\ file' = SubSeq(file, 1, n)
            /\ synced' = n
            /\ goodLen' \in {Smaller(goodLen, n)} \cup
                            (IF n > synced THEN {Smaller(goodLen, n - 1)} ELSE {})
    BY <1>6 DEF PowerLoss
  <2>2. Len(file) \in Nat /\ n \in 0 .. Len(file)
    BY DEF Chain
  <2>3. file' \in Chain /\ Len(file') = n
    BY <2>1, <2>2, PrefixType
  <2>4. goodLen' \in 0 .. Len(file') /\ synced' \in 0 .. Len(file')
    BY <2>1, <2>2, <2>3 DEF Smaller
  <2> QED
    BY <1>6, <1>0, <2>3, <2>4 DEF PowerLoss, Step
<1>7. CASE UNCHANGED vars
  BY <1>7 DEF vars, disk, process, history
<1> QED
  BY <1>1, <1>2, <1>3, <1>4, <1>5, <1>6, <1>7 DEF Next

---------------------------------------------------------------------------
(* Inside its critical section a process owns the flock, and only a        *)
(* process that holds it changes the journal or the anchor.                *)
LEMMA NextKeepsLock ==
    ASSUME TypeOK, LockProtects, [Next]_vars
    PROVE  LockProtects'
<1> USE DEF TypeOK, LockProtects, Appending
<1>1. ASSUME NEW p \in Proc, Create(p)
      PROVE  LockProtects'
  BY <1>1, NobodyIsNotAProcess DEF Create, CreateFile, LockNew, LinkAnchor, FinishCreate
<1>2. ASSUME NEW p \in Proc, Open(p)
      PROVE  LockProtects'
  BY <1>2, NobodyIsNotAProcess DEF Open, OpenLock, OpenAccept, OpenReject, OpenReturns, Leave
<1>3. ASSUME NEW p \in Proc, AppendRecord(p)
      PROVE  LockProtects'
  BY <1>3 DEF AppendRecord, WriteLine, MayAppend, FsyncFile, StageAnchor, ReplaceAnchor,
              FsyncDirectory, AppendReturns
<1>4. ASSUME NEW p \in Proc, Flush(p) \/ Close(p)
      PROVE  LockProtects'
  BY <1>4 DEF Flush, Close, Leave, process
<1>5. ASSUME NEW p \in Proc, Fault(p)
      PROVE  LockProtects'
  <2>1. CASE CreateFails(p)
    BY <2>1 DEF CreateFails, Leave
  <2>2. ASSUME NEW u \in Unit, NEW s \in State \ {"planned"}, TearLine(p, u, s)
        PROVE  LockProtects'
    BY <2>2 DEF TearLine, MayAppend
  <2>3. CASE AppendFails(p)
    BY <2>3 DEF AppendFails
  <2>4. CASE Kill(p)
    BY <2>4 DEF Kill, Leave
  <2> QED
    BY <1>5, <2>1, <2>2, <2>3, <2>4 DEF Fault
<1>6. CASE PowerLoss
  BY <1>6 DEF PowerLoss
<1>7. CASE UNCHANGED vars
  BY <1>7 DEF vars, process
<1> QED
  BY <1>1, <1>2, <1>3, <1>4, <1>5, <1>6, <1>7 DEF Next

LEMMA NextKeepsPending ==
    ASSUME TypeOK, PendingIsLegal, [Next]_vars
    PROVE  PendingIsLegal'
<1> USE DEF TypeOK, PendingIsLegal, Appending
<1>1. ASSUME NEW p \in Proc, Create(p)
      PROVE  PendingIsLegal'
  BY <1>1 DEF Create, CreateFile, LockNew, LinkAnchor, FinishCreate
<1>2. ASSUME NEW p \in Proc, Open(p)
      PROVE  PendingIsLegal'
  BY <1>2 DEF Open, OpenLock, OpenAccept, OpenReject, OpenReturns, Leave
<1>3. ASSUME NEW p \in Proc, AppendRecord(p)
      PROVE  PendingIsLegal'
  <2>1. ASSUME NEW u \in Unit, NEW s \in State \ {"planned"}, WriteLine(p, u, s)
        PROVE  PendingIsLegal'
    <3>1. /\ Len(<<[unit |-> u, state |-> s]>>) = 1
          /\ <<[unit |-> u, state |-> s]>>[1] = [unit |-> u, state |-> s]
      OBVIOUS
    <3> QED
      BY <2>1, <3>1 DEF WriteLine, MayAppend
  <2>2. CASE FsyncFile(p) \/ StageAnchor(p) \/ ReplaceAnchor(p) \/ FsyncDirectory(p)
    BY <2>2 DEF FsyncFile, StageAnchor, ReplaceAnchor, FsyncDirectory
  <2>3. CASE AppendReturns(p)
    BY <2>3 DEF AppendReturns
  <2> QED
    BY <1>3, <2>1, <2>2, <2>3 DEF AppendRecord
<1>4. ASSUME NEW p \in Proc, Flush(p) \/ Close(p)
      PROVE  PendingIsLegal'
  BY <1>4 DEF Flush, Close, Leave, process
<1>5. ASSUME NEW p \in Proc, Fault(p)
      PROVE  PendingIsLegal'
  <2>1. CASE CreateFails(p)
    BY <2>1 DEF CreateFails, Leave
  <2>2. ASSUME NEW u \in Unit, NEW s \in State \ {"planned"}, TearLine(p, u, s)
        PROVE  PendingIsLegal'
    BY <2>2 DEF TearLine, MayAppend
  <2>3. CASE AppendFails(p)
    BY <2>3 DEF AppendFails
  <2>4. CASE Kill(p)
    BY <2>4 DEF Kill, Leave
  <2> QED
    BY <1>5, <2>1, <2>2, <2>3, <2>4 DEF Fault
<1>6. CASE PowerLoss
  BY <1>6 DEF PowerLoss
<1>7. CASE UNCHANGED vars
  BY <1>7 DEF vars, process
<1> QED
  BY <1>1, <1>2, <1>3, <1>4, <1>5, <1>6, <1>7 DEF Next

LEMMA NextKeepsAnchorOrder ==
    ASSUME TypeOK, LockProtects, AnchorFollowsMemory, [Next]_vars
    PROVE  AnchorFollowsMemory'
<1> USE DEF TypeOK, LockProtects, AnchorFollowsMemory, Appending
<1>1. ASSUME NEW p \in Proc, Create(p)
      PROVE  AnchorFollowsMemory'
  <2>1. CASE CreateFile(p)
    BY <2>1 DEF CreateFile
  <2>2. CASE LockNew(p)
    BY <2>2 DEF LockNew, disk
  <2>3. CASE LinkAnchor(p)
    <3>1. \A q \in Proc : q # p => step[q] \in {"down", "created"}
      BY <2>3 DEF LinkAnchor
    <3> QED
      BY <2>3, <3>1 DEF LinkAnchor
  <2>4. CASE FinishCreate(p)
    BY <2>4 DEF FinishCreate
  <2> QED
    BY <1>1, <2>1, <2>2, <2>3, <2>4 DEF Create
<1>2. ASSUME NEW p \in Proc, Open(p)
      PROVE  AnchorFollowsMemory'
  BY <1>2 DEF Open, OpenLock, OpenAccept, OpenReject, OpenReturns, Leave, disk
<1>3. ASSUME NEW p \in Proc, AppendRecord(p)
      PROVE  AnchorFollowsMemory'
  <2>1. ASSUME NEW u \in Unit, NEW s \in State \ {"planned"}, WriteLine(p, u, s)
        PROVE  AnchorFollowsMemory'
    BY <2>1 DEF WriteLine, MayAppend
  <2>2. CASE FsyncFile(p) \/ StageAnchor(p)
    BY <2>2 DEF FsyncFile, StageAnchor
  <2>3. CASE ReplaceAnchor(p)
    BY <2>3 DEF ReplaceAnchor
  <2>4. CASE FsyncDirectory(p)
    BY <2>4 DEF FsyncDirectory
  <2>5. CASE AppendReturns(p)
    BY <2>5 DEF AppendReturns, disk
  <2> QED
    BY <1>3, <2>1, <2>2, <2>3, <2>4, <2>5 DEF AppendRecord
<1>4. ASSUME NEW p \in Proc, Flush(p) \/ Close(p)
      PROVE  AnchorFollowsMemory'
  BY <1>4 DEF Flush, Close, Leave, process, disk
<1>5. ASSUME NEW p \in Proc, Fault(p)
      PROVE  AnchorFollowsMemory'
  <2>1. CASE CreateFails(p)
    BY <2>1 DEF CreateFails, Leave
  <2>2. ASSUME NEW u \in Unit, NEW s \in State \ {"planned"}, TearLine(p, u, s)
        PROVE  AnchorFollowsMemory'
    BY <2>2 DEF TearLine, MayAppend
  <2>3. CASE AppendFails(p)
    BY <2>3 DEF AppendFails
  <2>4. CASE Kill(p)
    BY <2>4 DEF Kill, Leave, disk
  <2> QED
    BY <1>5, <2>1, <2>2, <2>3, <2>4 DEF Fault
<1>6. CASE PowerLoss
  BY <1>6 DEF PowerLoss
<1>7. CASE UNCHANGED vars
  BY <1>7 DEF vars, process, disk
<1> QED
  BY <1>1, <1>2, <1>3, <1>4, <1>5, <1>6, <1>7 DEF Next

---------------------------------------------------------------------------
(* No step loses an acknowledged transition from a chain that matters, and *)
(* permission to contact the target is given only for a unit that no such  *)
(* chain had started.                                                      *)
LEMMA NextForgetsNothing ==
    ASSUME Inv, [Next]_vars
    PROVE  NothingForgotten' /\ StartsAtMostOnce'
<1> USE DEF Inv, NothingForgotten
<1> DEFINE Writer(p) == step[p] \in {"idle"} \cup Appending
<1>1. Remembers(<<>>) \/ anchor # NoAnchor
  BY DEF Visible
<1>2. ASSUME UNCHANGED <<starts, acked>>,
             Remembers(Visible'), Remembers(Durable'),
             \A p \in Proc : Writer(p)' => Remembers(mem'[p])
      PROVE  NothingForgotten' /\ StartsAtMostOnce'
  BY <1>2 DEF Remembers, Visible, Durable, StartsAtMostOnce
<1>3. ASSUME UNCHANGED <<starts, acked, anchor, stableAnchor>>,
             \A p \in Proc : Writer(p)' => (Writer(p) /\ mem'[p] = mem[p])
      PROVE  NothingForgotten' /\ StartsAtMostOnce'
  BY <1>2, <1>3 DEF Visible, Durable
<1>4. ASSUME NEW p \in Proc, Create(p)
      PROVE  NothingForgotten' /\ StartsAtMostOnce'
  <2> USE DEF TypeOK, Appending
  <2>1. CASE CreateFile(p)
    BY <2>1, <1>3 DEF CreateFile, history
  <2>2. CASE LockNew(p)
    BY <2>2, <1>3 DEF LockNew, history, disk
  <2>3. CASE LinkAnchor(p)
    <3>1. Remembers(Visible') /\ Durable' = Durable
      BY <2>3, <1>1, NoAnchorIsNotAChain DEF LinkAnchor, Visible, Durable
    <3>2. \A q \in Proc : Writer(q)' => (Writer(q) /\ mem'[q] = mem[q])
      BY <2>3 DEF LinkAnchor
    <3> QED
      BY <2>3, <1>2, <3>1, <3>2 DEF LinkAnchor, history
  <2>4. CASE FinishCreate(p)
    <3>1. <<>> \in Chain
      BY DEF Chain
    <3>2. anchor = <<>> /\ Visible = <<>> /\ Remembers(<<>>)
      BY <2>4, <3>1, NoAnchorIsNotAChain DEF FinishCreate, AnchorFollowsMemory, Visible
    <3>3. Visible' = <<>> /\ Durable' = <<>>
      BY <2>4, <3>2 DEF FinishCreate, Visible, Durable
    <3>4. Remembers(mem[p])
      BY <3>2, StateOfEmpty, TerminalStates DEF Remembers
    <3> QED
      BY <2>4, <1>2, <3>2, <3>3, <3>4 DEF FinishCreate, history
  <2> QED
    BY <1>4, <2>1, <2>2, <2>3, <2>4 DEF Create
<1>5. ASSUME NEW p \in Proc, Open(p)
      PROVE  NothingForgotten' /\ StartsAtMostOnce'
  <2> USE DEF TypeOK, Appending
  <2>1. CASE OpenLock(p)
    BY <2>1, <1>3 DEF OpenLock, history, disk
  <2>2. CASE OpenAccept(p)
    <3>1. anchor = file /\ anchor # NoAnchor /\ Remembers(file)
      BY <2>2, NoAnchorIsNotAChain DEF OpenAccept, Reopenable, Visible
    <3>2. Visible' = Visible /\ Durable' = Durable
      BY <2>2 DEF OpenAccept, Visible, Durable, disk
    <3> QED
      BY <2>2, <1>2, <3>1, <3>2 DEF OpenAccept, history
  <2>3. CASE OpenReject(p)
    BY <2>3, <1>3 DEF OpenReject, Leave, history, disk
  <2>4. CASE OpenReturns(p)
    BY <2>4, <1>3 DEF OpenReturns, history, disk
  <2> QED
    BY <1>5, <2>1, <2>2, <2>3, <2>4 DEF Open
<1>6. ASSUME NEW p \in Proc, AppendRecord(p)
      PROVE  NothingForgotten' /\ StartsAtMostOnce'
  <2> USE DEF TypeOK, Appending
  <2>1. ASSUME NEW u \in Unit, NEW s \in State \ {"planned"}, WriteLine(p, u, s)
        PROVE  NothingForgotten' /\ StartsAtMostOnce'
    BY <2>1, <1>3 DEF WriteLine, MayAppend, history
  <2>2. CASE FsyncFile(p) \/ StageAnchor(p)
    BY <2>2, <1>3 DEF FsyncFile, StageAnchor, history
  <2>3. CASE ReplaceAnchor(p)
    <3>1. pending[p][1] \in Entry /\ mem[p] \in Chain /\ Remembers(mem[p])
      BY <2>3, PendingType DEF ReplaceAnchor
    <3>2. Remembers(Append(mem[p], pending[p][1]))
      BY <2>3, <3>1, ExtendRemembers DEF ReplaceAnchor, PendingIsLegal
    <3>3. Visible' = Append(mem[p], pending[p][1]) /\ Durable' = Durable
      BY <2>3, <3>1, AppendType, NoAnchorIsNotAChain DEF ReplaceAnchor, Visible, Durable
    <3> QED
      BY <2>3, <1>2, <3>2, <3>3 DEF ReplaceAnchor, history
  <2>4. CASE FsyncDirectory(p)
    <3>1. Visible' = Visible /\ Durable' = Visible
      BY <2>4 DEF FsyncDirectory, Visible, Durable
    <3> QED
      BY <2>4, <1>2, <3>1 DEF FsyncDirectory, history
  <2>5. CASE AppendReturns(p)
    <3>0. PICK e, long : e = pending[p][1] /\ long = Append(mem[p], e)
      OBVIOUS
    <3>1. /\ e \in Entry /\ mem[p] \in Chain /\ Remembers(mem[p])
          /\ e.unit \in Unit /\ e.state \in State /\ e.state # "planned"
      BY <2>5, <3>0, PendingType DEF AppendReturns, Entry
    <3>2. /\ long \in Chain /\ anchor = long /\ stableAnchor = long /\ mem'[p] = long
          /\ StateOf(mem[p], e.unit) \notin Terminal
          /\ e.state = "running" => StateOf(mem[p], e.unit) = "planned"
      BY <2>5, <3>0, <3>1, AppendType DEF AppendReturns, AnchorFollowsMemory, PendingIsLegal
    <3>3. \A u \in Unit : StateOf(long, u) = IF e.unit = u THEN e.state ELSE StateOf(mem[p], u)
      BY <3>0, <3>1, StateOfAppend
    <3>4. /\ acked' = [acked EXCEPT ![e.unit] = e.state]
          /\ starts' = IF e.state = "running" THEN [starts EXCEPT ![e.unit] = @ + 1]
                                              ELSE starts
      BY <2>5, <3>0 DEF AppendReturns
    <3>5. Remembers(long)'
      <4> SUFFICES ASSUME NEW u \in Unit
                   PROVE  /\ acked'[u] \in Terminal => StateOf(long, u) = acked'[u]
                          /\ acked'[u] = "running" => StateOf(long, u) # "planned"
                          /\ starts'[u] > 0 => StateOf(long, u) # "planned"
        BY DEF Remembers
      <4>1. CASE u = e.unit
        BY <4>1, <3>1, <3>3, <3>4
      <4>2. CASE u # e.unit
        <5>1. /\ acked[u] \in Terminal => StateOf(mem[p], u) = acked[u]
              /\ acked[u] = "running" => StateOf(mem[p], u) # "planned"
              /\ starts[u] > 0 => StateOf(mem[p], u) # "planned"
          BY <3>1 DEF Remembers
        <5>2. acked'[u] = acked[u] /\ starts'[u] = starts[u]
          BY <4>2, <3>1, <3>4
        <5> QED
          BY <4>2, <3>3, <5>1, <5>2
      <4> QED
        BY <4>1, <4>2
    <3>6. Visible' = long /\ Durable' = long
      BY <2>5, <3>2, NoAnchorIsNotAChain DEF AppendReturns, Visible, Durable, disk
    <3>7. \A q \in Proc : Writer(q)' => q = p
      BY <2>5 DEF AppendReturns, LockProtects
    <3>8. NothingForgotten'
      BY <3>2, <3>5, <3>6, <3>7 DEF Remembers
    <3>9. StartsAtMostOnce'
      BY <3>1, <3>2, <3>4 DEF StartsAtMostOnce, Remembers
    <3> QED
      BY <3>8, <3>9
  <2> QED
    BY <1>6, <2>1, <2>2, <2>3, <2>4, <2>5 DEF AppendRecord
<1>7. ASSUME NEW p \in Proc, Flush(p) \/ Close(p)
      PROVE  NothingForgotten' /\ StartsAtMostOnce'
  BY <1>7, <1>3 DEF Flush, Close, Leave, process, disk, history, TypeOK, Appending
<1>8. ASSUME NEW p \in Proc, Fault(p)
      PROVE  NothingForgotten' /\ StartsAtMostOnce'
  <2> USE DEF TypeOK, Appending
  <2>1. CASE CreateFails(p)
    BY <2>1, <1>3 DEF CreateFails, Leave
  <2>2. ASSUME NEW u \in Unit, NEW s \in State \ {"planned"}, TearLine(p, u, s)
        PROVE  NothingForgotten' /\ StartsAtMostOnce'
    BY <2>2, <1>3 DEF TearLine, MayAppend
  <2>3. CASE AppendFails(p)
    BY <2>3, <1>3 DEF AppendFails
  <2>4. CASE Kill(p)
    BY <2>4, <1>3 DEF Kill, Leave, disk
  <2> QED
    BY <1>8, <2>1, <2>2, <2>3, <2>4 DEF Fault
<1>9. CASE PowerLoss
  <2>1. Visible' \in {Visible, Durable} /\ Durable' = Visible'
    BY <1>9 DEF PowerLoss, Visible, Durable
  <2>2. \A q \in Proc : ~Writer(q)'
    BY <1>9 DEF PowerLoss, Appending
  <2> QED
    BY <1>9, <1>2, <2>1, <2>2 DEF PowerLoss
<1>10. CASE UNCHANGED vars
  BY <1>10, <1>3 DEF vars, process, disk, history
<1> QED
  BY <1>4, <1>5, <1>6, <1>7, <1>8, <1>9, <1>10 DEF Next

---------------------------------------------------------------------------
(* What is true at the start and kept by every step.                       *)
LEMMA InitInv == Init => Inv
<1> SUFFICES ASSUME Init PROVE Inv
  OBVIOUS
<1>1. <<>> \in Chain /\ Len(<<>>) = 0
  BY DEF Chain
<1>2. TypeOK
  <2>1. /\ step \in [Proc -> Step] /\ acked \in [Unit -> State]
        /\ starts \in [Unit -> Nat] /\ mem \in [Proc -> Chain] /\ pending \in [Proc -> Chain]
    BY <1>1 DEF Init, Step, State
  <2>2. file \in Chain /\ goodLen \in 0 .. Len(file) /\ synced \in 0 .. Len(file)
    BY <1>1 DEF Init
  <2> QED
    BY <2>1, <2>2 DEF Init, TypeOK
<1>3. LockProtects /\ PendingIsLegal /\ AnchorFollowsMemory
  BY DEF Init, LockProtects, PendingIsLegal, AnchorFollowsMemory, Appending
<1>4. Remembers(<<>>)
  BY TerminalStates DEF Init, Remembers
<1>5. NothingForgotten
  BY <1>4 DEF Init, NothingForgotten, Visible, Durable, Appending
<1> QED
  BY <1>2, <1>3, <1>5 DEF Init, Inv, StartsAtMostOnce

LEMMA NextInv == Inv /\ [Next]_vars => Inv'
<1> SUFFICES ASSUME Inv, [Next]_vars PROVE Inv'
  OBVIOUS
<1> QED
  BY NextKeepsType, NextKeepsLock, NextKeepsPending, NextKeepsAnchorOrder,
     NextForgetsNothing DEF Inv

LEMMA Invariance == Spec => []Inv
<1> QED
  BY InitInv, NextInv, PTL DEF Spec

(* Type correctness.                                                       *)
THEOREM TypeCorrect == Spec => []TypeOK
<1>1. Inv => TypeOK
  BY DEF Inv
<1> QED
  BY <1>1, Invariance, PTL

(* However often the campaign is killed, fails, loses power and is         *)
(* resumed, start returns at most once for a unit: no trial is retried.    *)
THEOREM NoTrialStartsTwice == Spec => []StartsAtMostOnce
<1>1. Inv => StartsAtMostOnce
  BY DEF Inv
<1> QED
  BY <1>1, Invariance, PTL

(* An outcome the journal acknowledged survives everything.                *)
THEOREM AcknowledgedOutcomesSurvive == Spec => []AcknowledgedIsDurable
<1>1. Inv => AcknowledgedIsDurable
  BY DEF Inv, NothingForgotten, Remembers, AcknowledgedIsDurable
<1> QED
  BY <1>1, Invariance, PTL

(* A resumed campaign starts with every earlier delivery settled: the unit *)
(* is in the chain read from the disk, and the loop that quarantines the   *)
(* running units has none left when open returns.                          *)
THEOREM ResumeSettles == Spec => ResumeSettlesEveryDelivery
<1> DEFINE Settles ==
        \A p \in Proc : (p \in recovering /\ p \notin recovering' /\ step'[p] = "idle")
            => \A u \in Unit : starts[u] > 0 => StateOf(mem[p], u) \in Terminal
<1>1. Inv /\ [Next]_vars => [Settles]_vars
  <2> SUFFICES ASSUME Inv, [Next]_vars, NEW p \in Proc,
                      p \in recovering, p \notin recovering', step'[p] = "idle",
                      NEW u \in Unit, starts[u] > 0
               PROVE  StateOf(mem[p], u) \in Terminal
    OBVIOUS
  <2> USE DEF Inv, TypeOK
  <2>1. OpenReturns(p)
    <3>1. ASSUME NEW q \in Proc, Create(q)
          PROVE  FALSE
      BY <3>1 DEF Create, CreateFile, LockNew, LinkAnchor, FinishCreate
    <3>2. ASSUME NEW q \in Proc, Open(q)
          PROVE  OpenReturns(p)
      BY <3>2 DEF Open, OpenLock, OpenAccept, OpenReject, OpenReturns, Leave
    <3>3. ASSUME NEW q \in Proc, AppendRecord(q)
          PROVE  FALSE
      BY <3>3 DEF AppendRecord, WriteLine, FsyncFile, StageAnchor, ReplaceAnchor,
                  FsyncDirectory, AppendReturns
    <3>4. ASSUME NEW q \in Proc, Flush(q) \/ Close(q) \/ Fault(q)
          PROVE  FALSE
      BY <3>4 DEF Flush, Close, Fault, CreateFails, TearLine, AppendFails, Kill, Leave, process
    <3>5. ~PowerLoss /\ ~(UNCHANGED vars)
      BY DEF PowerLoss, vars, process
    <3> QED
      BY <3>1, <3>2, <3>3, <3>4, <3>5 DEF Next
  <2>2. step[p] = "idle" /\ RunningUnits(mem[p]) = {}
    BY <2>1 DEF OpenReturns
  <2>3. StateOf(mem[p], u) # "planned"
    BY <2>2 DEF NothingForgotten, Remembers
  <2>4. u \in Units(mem[p])
    BY <2>3 DEF StateOf
  <2>5. StateOf(mem[p], u) # "running"
    BY <2>2, <2>4 DEF RunningUnits
  <2>6. StateOf(mem[p], u) \in State \ {"planned"}
    BY <2>4, StateOfType
  <2> QED
    BY <2>5, <2>6 DEF State
<1> QED
  BY <1>1, Invariance, PTL DEF Spec, ResumeSettlesEveryDelivery
---------------------------------------------------------------------------
(* What else is true as long as nothing was cut short: the file is what    *)
(* the lock holder's memory, with the record it appends, says; and both    *)
(* anchors lag behind it only between the steps of that append.            *)
Quiet(p) == step[p] \in {"down", "idle", "opening"}

Untouched ==
    /\ file = <<>> /\ goodLen = 0 /\ synced = 0
    /\ anchor = NoAnchor /\ stableAnchor = NoAnchor /\ ~extraLink

Undisturbed ==
    /\ ~exists => Untouched /\ \A p \in Proc : step[p] = "down"
    /\ \A p \in Proc :
        /\ step[p] # "failed"
        /\ step[p] \in {"created", "locked"} =>
               Untouched /\ \A q \in Proc : q # p => step[q] \in {"down", "opening"}
        /\ step[p] = "linked" => file = <<>> /\ goodLen = 0 /\ synced = 0
        /\ step[p] \in {"down", "created", "locked", "linked", "opening"} => mem[p] = <<>>
        /\ step[p] = "idle" => mem[p] = file
        /\ step[p] \in Appending =>
               /\ exists /\ ~extraLink
               /\ file = Append(mem[p], pending[p][1]) /\ goodLen = Len(file)
               /\ step[p] # "written" => synced = Len(file)
               /\ step[p] \in {"written", "synced", "staged"} =>
                      anchor = mem[p] /\ stableAnchor = mem[p]
    /\ exists /\ (\A p \in Proc : Quiet(p)) =>
           Reopenable /\ synced = Len(file) /\ stableAnchor = anchor

UndisturbedInv == Inv /\ (~disturbed => Undisturbed)

(* Where the others stand, seen from a process that is at work.            *)
LEMMA OthersStand ==
    ASSUME Inv, Undisturbed, NEW p \in Proc, step[p] \in {"idle", "linked"} \cup Appending
    PROVE  \A q \in Proc : q # p => step[q] = "down"
<1>1. lock = p
  BY DEF Inv, LockProtects, Appending
<1>2. \A q \in Proc : q # p => step[q] \in {"down", "created"}
  BY <1>1, NobodyIsNotAProcess DEF Inv, LockProtects
<1>3. \A q \in Proc : step[q] = "created" => q = p
  BY DEF Undisturbed, Appending
<1> QED
  BY <1>2, <1>3

LEMMA NextKeepsUndisturbed ==
    ASSUME Inv, Undisturbed, ~disturbed, [Next]_vars, ~disturbed'
    PROVE  Undisturbed'
<1> USE DEF Inv, TypeOK
<1>0. <<>> \in Chain /\ Len(<<>>) = 0 /\ NoAnchor \notin Chain /\ Len(file) \in Nat
  BY NoAnchorIsNotAChain DEF Chain
<1>1. ASSUME NEW p \in Proc, Create(p)
      PROVE  Undisturbed'
  <2>1. CASE CreateFile(p)
    BY <2>1 DEF CreateFile, Undisturbed, Untouched, Quiet, Appending, Reopenable
  <2>2. CASE LockNew(p)
    BY <2>2 DEF LockNew, disk, Undisturbed, Untouched, Quiet, Appending, Reopenable
  <2>3. CASE LinkAnchor(p)
    <3>1. \A q \in Proc : q # p => step[q] = "down"
      <4>1. lock = p
        BY <2>3 DEF LinkAnchor, LockProtects
      <4> QED BY <2>3, <4>1 DEF LinkAnchor, Undisturbed, LockProtects
    <3> QED BY <2>3, <3>1, <1>0 DEF LinkAnchor, Undisturbed, Untouched, Quiet, Appending
  <2>4. CASE FinishCreate(p)
    <3>1. \A q \in Proc : q # p => step[q] = "down"
      BY <2>4, OthersStand DEF FinishCreate
    <3>2. exists /\ anchor = <<>> /\ file = <<>> /\ goodLen = 0 /\ synced = 0 /\ mem[p] = <<>>
      BY <2>4 DEF FinishCreate, Undisturbed, AnchorFollowsMemory
    <3> QED BY <2>4, <3>1, <3>2, <1>0 DEF FinishCreate, Undisturbed, Quiet, Appending, Reopenable
  <2> QED
    BY <1>1, <2>1, <2>2, <2>3, <2>4 DEF Create
<1>2. ASSUME NEW p \in Proc, Open(p)
      PROVE  Undisturbed'
  <2>1. CASE OpenLock(p)
    <3>1. \A q \in Proc : q # p => step[q] \in {"down", "created"}
      BY <2>1, NobodyIsNotAProcess DEF OpenLock, LockProtects
    <3> QED BY <2>1, <3>1 DEF OpenLock, disk, Undisturbed, Untouched, Quiet, Appending, Reopenable
  <2>2. CASE OpenAccept(p)
    <3>1. \A q \in Proc : step[q] \notin {"created", "locked"}
      BY <2>2, <1>0 DEF OpenAccept, Reopenable, Undisturbed, Untouched
    <3>2. \A q \in Proc : q # p => step[q] = "down"
      BY <2>2, <3>1 DEF OpenAccept, LockProtects
    <3> QED BY <2>2, <3>1, <3>2 DEF OpenAccept, disk, Undisturbed, Untouched, Quiet, Appending, Reopenable
  <2>3. CASE OpenReject(p)
    BY <2>3 DEF OpenReject, Leave, disk, Undisturbed, Untouched, Quiet, Appending, Reopenable
  <2>4. CASE OpenReturns(p)
    BY <2>4 DEF OpenReturns, disk, Undisturbed, Untouched, Quiet, Appending, Reopenable
  <2> QED
    BY <1>2, <2>1, <2>2, <2>3, <2>4 DEF Open
<1>3. ASSUME NEW p \in Proc, AppendRecord(p)
      PROVE  Undisturbed'
  <2>0. /\ \A q \in Proc : q # p => step[q] = "down"
        /\ step[p] \in {"idle"} \cup Appending
    <3>1. step[p] \in {"idle"} \cup Appending
      BY <1>3 DEF AppendRecord, WriteLine, MayAppend, FsyncFile, StageAnchor, ReplaceAnchor,
                  FsyncDirectory, AppendReturns, Appending
    <3> QED BY <3>1, OthersStand
  <2>1. ASSUME NEW u \in Unit, NEW s \in State \ {"planned"}, WriteLine(p, u, s)
        PROVE  Undisturbed'
    <3> DEFINE e == [unit |-> u, state |-> s]
    <3>1. e \in Entry /\ <<e>>[1] = e
      BY DEF Entry
    <3>2. /\ step[p] = "idle" /\ exists /\ mem[p] = file /\ goodLen = Len(file) /\ anchor = file
          /\ stableAnchor = anchor /\ ~extraLink /\ synced = Len(file)
      <4>1. step[p] = "idle"
        BY <2>1 DEF WriteLine, MayAppend
      <4>2. exists /\ \A q \in Proc : Quiet(q)
        BY <2>0, <4>1 DEF Undisturbed, Quiet
      <4> QED BY <4>1, <4>2 DEF Undisturbed, Reopenable
    <3>3. file' = Append(file, e) /\ Len(file') = Len(file) + 1
      BY <2>1, <3>1, AppendType DEF WriteLine
    <3>4. /\ pending'[p] = <<e>> /\ step'[p] = "written" /\ goodLen' = Len(file')
          /\ \A q \in Proc : q # p => step'[q] = "down" /\ mem'[q] = mem[q]
          /\ UNCHANGED <<exists, synced, anchor, stableAnchor, extraLink, mem>>
      BY <2>0, <2>1, <3>2, <3>3 DEF WriteLine
    <3> HIDE DEF e
    <3>5. \A q \in Proc : q # p => step'[q] = "down" /\ mem'[q] = <<>>
      BY <2>0, <3>4 DEF Undisturbed
    <3> QED BY <3>1, <3>2, <3>3, <3>4, <3>5 DEF Undisturbed, Quiet, Appending
  <2>2. CASE FsyncFile(p)
    BY <2>0, <2>2 DEF FsyncFile, Undisturbed, Untouched, Quiet, Appending
  <2>3. CASE StageAnchor(p)
    BY <2>0, <2>3 DEF StageAnchor, Undisturbed, Untouched, Quiet, Appending
  <2>4. CASE ReplaceAnchor(p)
    BY <2>0, <2>4 DEF ReplaceAnchor, Undisturbed, Untouched, Quiet, Appending
  <2>5. CASE FsyncDirectory(p)
    BY <2>0, <2>5 DEF FsyncDirectory, Undisturbed, Untouched, Quiet, Appending
  <2>6. CASE AppendReturns(p)
    <3>1. /\ exists /\ ~extraLink /\ file = Append(mem[p], pending[p][1]) /\ goodLen = Len(file)
          /\ synced = Len(file) /\ anchor = file /\ stableAnchor = anchor
      BY <2>6 DEF AppendReturns, Undisturbed, Appending, AnchorFollowsMemory
    <3>2. /\ mem'[p] = file /\ step'[p] = "idle"
          /\ \A q \in Proc : q # p => step'[q] = "down" /\ mem'[q] = mem[q]
          /\ UNCHANGED disk
      BY <2>0, <2>6, <3>1 DEF AppendReturns
    <3>3. \A q \in Proc : q # p => step'[q] = "down" /\ mem'[q] = <<>>
      BY <2>0, <3>2 DEF Undisturbed
    <3> QED BY <3>1, <3>2, <3>3 DEF Undisturbed, Quiet, Appending, Reopenable, disk
  <2> QED
    BY <1>3, <2>1, <2>2, <2>3, <2>4, <2>5, <2>6 DEF AppendRecord
<1>4. ASSUME NEW p \in Proc, Flush(p) \/ Close(p)
      PROVE  Undisturbed'
  <2>1. step[p] = "idle"
    BY <1>4 DEF Flush, Close, Undisturbed
  <2>2. \A q \in Proc : q # p => step[q] = "down"
    BY <2>1, OthersStand
  <2>3. CASE Flush(p)
    BY <2>1, <2>2, <2>3 DEF Flush, process, Undisturbed, Untouched, Quiet, Appending, Reopenable
  <2>4. CASE Close(p)
    BY <2>1, <2>2, <2>4 DEF Close, Leave, disk, Undisturbed, Untouched, Quiet, Appending, Reopenable
  <2> QED
    BY <1>4, <2>3, <2>4
<1>5. ASSUME NEW p \in Proc, Fault(p)
      PROVE  FALSE
  BY <1>5 DEF Fault, CreateFails, TearLine, AppendFails, Kill
<1>6. CASE PowerLoss
  <2>1. /\ \A p \in Proc : Quiet(p) /\ step'[p] = "down" /\ mem'[p] = <<>>
    BY <1>6 DEF PowerLoss, Quiet
  <2>2. PICK n \in synced .. Len(file) :
            /\ file' = SubSeq(file, 1, n)
            /\ synced' = n
            /\ goodLen' \in {Smaller(goodLen, n)} \cup
                            (IF n > synced THEN {Smaller(goodLen, n - 1)} ELSE {})
    BY <1>6 DEF PowerLoss
  <2>3. synced = Len(file) /\ stableAnchor = anchor /\ goodLen = Len(file) /\ ~extraLink
        /\ (~exists => Untouched) /\ (exists => anchor = file)
    BY <2>1, <1>0 DEF Undisturbed, Untouched, Reopenable
  <2>4. n = Len(file) /\ file' = file /\ synced' = n /\ goodLen' = Len(file)
    <3>1. n = Len(file)
      BY <2>2, <2>3, <1>0
    <3>2. SubSeq(file, 1, Len(file)) = file
      BY <1>0 DEF Chain
    <3> QED BY <2>2, <2>3, <3>1, <3>2, <1>0 DEF Smaller
  <2>5. anchor' = anchor /\ stableAnchor' = anchor /\ exists' = exists /\ ~extraLink'
    <3>1. anchor' = anchor /\ stableAnchor' = anchor
      BY <1>6, <2>3 DEF PowerLoss
    <3>2. exists' = exists
      <4>1. exists => anchor' # NoAnchor
        BY <2>3, <3>1, <1>0
      <4> QED BY <1>6, <4>1 DEF PowerLoss
    <3> QED BY <1>6, <2>3, <3>1, <3>2 DEF PowerLoss
  <2> QED BY <2>1, <2>3, <2>4, <2>5 DEF Undisturbed, Untouched, Quiet, Appending, Reopenable
<1>7. CASE UNCHANGED vars
  BY <1>7 DEF vars, process, disk, history, Undisturbed, Untouched, Quiet, Appending, Reopenable
<1> QED
  BY <1>1, <1>2, <1>3, <1>4, <1>5, <1>6, <1>7 DEF Next

(* A pause between two transitions never costs the campaign its journal:   *)
(* as long as no append and no creation was cut short, what is on the disk *)
(* is what the last append left there, and open accepts it.                *)
THEOREM UndisturbedJournalReopens == Spec => []UndisturbedReopens
<1>1. Init => UndisturbedInv
  BY InitInv DEF Init, UndisturbedInv, Undisturbed, Untouched, Appending, Reopenable, Quiet
<1>2. UndisturbedInv /\ [Next]_vars => UndisturbedInv'
  <2> SUFFICES ASSUME UndisturbedInv, [Next]_vars PROVE UndisturbedInv'
    OBVIOUS
  <2>1. disturbed => disturbed'
    BY DEF Next, Create, CreateFile, LockNew, LinkAnchor, FinishCreate, Open, OpenLock, OpenAccept,
           OpenReject, OpenReturns, AppendRecord, WriteLine, FsyncFile, StageAnchor, ReplaceAnchor,
           FsyncDirectory, AppendReturns, Flush, Close, Fault, CreateFails, TearLine, AppendFails,
           Kill, PowerLoss, vars, history
  <2> QED
    BY <2>1, NextInv, NextKeepsUndisturbed DEF UndisturbedInv
<1>3. UndisturbedInv => UndisturbedReopens
  BY DEF UndisturbedInv, Undisturbed, UndisturbedReopens, Quiet
<1> QED
  BY <1>1, <1>2, <1>3, PTL DEF Spec
---------------------------------------------------------------------------
(* Chain b is what chain a may have become.                                *)
Leads(a, b) == \A u \in Unit : StateOf(b, u) \in Outcomes!Successors(StateOf(a, u))

(* The visible anchor, and the memory of whoever may still replace it,     *)
(* continue what is durable.                                               *)
DurableLeads ==
    /\ Leads(Durable, Visible)
    /\ \A p \in Proc : step[p] \in {"idle"} \cup (Appending \ {"anchored"}) =>
           Leads(Durable, mem[p])

LEMMA StateOfIsState ==
    ASSUME NEW chain \in Chain, NEW u
    PROVE  StateOf(chain, u) \in State
<1>1. CASE u \in Units(chain)
  BY <1>1, StateOfType
<1>2. CASE u \notin Units(chain)
  BY <1>2 DEF StateOf, State
<1> QED
  BY <1>1, <1>2

LEMMA EmptyLeads ==
    ASSUME NEW chain \in Chain
    PROVE  Leads(<<>>, chain) /\ Leads(chain, chain)
<1>1. \A u \in Unit : StateOf(chain, u) \in State /\ StateOf(<<>>, u) = "planned"
  BY StateOfIsState, StateOfEmpty
<1> QED
  BY <1>1, TerminalStates DEF Leads, State, Outcomes!Successors

(* A legal transition continues what the chain continues.                  *)
LEMMA ExtendLeads ==
    ASSUME NEW a \in Chain, NEW chain \in Chain, NEW e \in Entry, Leads(a, chain),
           StateOf(chain, e.unit) \notin Terminal,
           e.state = "running" => StateOf(chain, e.unit) = "planned"
    PROVE  Leads(a, Append(chain, e))
<1> SUFFICES ASSUME NEW u \in Unit
             PROVE  StateOf(Append(chain, e), u) \in Outcomes!Successors(StateOf(a, u))
  BY DEF Leads
<1>1. StateOf(Append(chain, e), u) = IF e.unit = u THEN e.state ELSE StateOf(chain, u)
  BY StateOfAppend
<1>2. StateOf(chain, u) \in Outcomes!Successors(StateOf(a, u)) /\ StateOf(a, u) \in State
  BY StateOfIsState DEF Leads
<1>3. e.state \in State \ {"planned"}
  BY DEF Entry
<1>4. CASE e.unit = u
  <2>1. StateOf(a, u) = "planned" \/ StateOf(a, u) = "running"
    BY <1>2, <1>4, TerminalStates DEF State, Outcomes!Successors
  <2>2. CASE StateOf(a, u) = "planned"
    BY <1>1, <1>3, <1>4, <2>2 DEF State, Outcomes!Successors
  <2>3. CASE StateOf(a, u) = "running"
    <3>1. StateOf(chain, u) # "planned"
      BY <1>2, <2>3, TerminalStates DEF Outcomes!Successors
    <3> QED BY <1>1, <1>3, <1>4, <2>3, <3>1 DEF State, Outcomes!Successors
  <2> QED BY <2>1, <2>2, <2>3
<1>5. CASE e.unit # u
  BY <1>1, <1>2, <1>5
<1> QED
  BY <1>4, <1>5

(* The durable record only moves to what it leads to.                      *)
LEMMA NextLeads ==
    ASSUME Inv, DurableLeads, [Next]_vars
    PROVE  /\ DurableLeads'
           /\ Durable' = Durable \/ (Durable' \in Chain /\ Leads(Durable, Durable') /\ starts' = starts)
<1> USE DEF Inv, TypeOK
<1> DEFINE Writer(p) == step[p] \in {"idle"} \cup (Appending \ {"anchored"})
<1> DEFINE Goal == /\ DurableLeads'
                   /\ \/ Durable' = Durable
                      \/ Durable' \in Chain /\ Leads(Durable, Durable') /\ starts' = starts
<1>0. <<>> \in Chain /\ Visible \in Chain /\ Durable \in Chain /\ NoAnchor \notin Chain
  BY NoAnchorIsNotAChain DEF Chain, Visible, Durable
<1>1. ASSUME UNCHANGED <<anchor, stableAnchor>>,
             \A p \in Proc : Writer(p)' => (Writer(p) /\ mem'[p] = mem[p])
      PROVE  Goal
  BY <1>1 DEF Visible, Durable, DurableLeads
<1>2. ASSUME NEW p \in Proc, Create(p)
      PROVE  Goal
  <2>1. CASE CreateFile(p)
    BY <2>1, <1>1 DEF CreateFile, Appending
  <2>2. CASE LockNew(p)
    BY <2>2, <1>1 DEF LockNew, disk, Appending
  <2>3. CASE LinkAnchor(p)
    <3>1. Visible' = Visible /\ Durable' = Durable
      BY <2>3, <1>0 DEF LinkAnchor, Visible, Durable
    <3>2. \A q \in Proc : Writer(q)' => (Writer(q) /\ mem'[q] = mem[q])
      BY <2>3 DEF LinkAnchor, Appending
    <3> QED BY <3>1, <3>2 DEF DurableLeads
  <2>4. CASE FinishCreate(p)
    <3>1. anchor = <<>> /\ Visible = <<>>
      BY <2>4, <1>0 DEF FinishCreate, AnchorFollowsMemory, Visible
    <3>2. Visible' = <<>> /\ Durable' = <<>>
      BY <2>4, <3>1, <1>0 DEF FinishCreate, Visible, Durable
    <3>3. \A q \in Proc : mem'[q] \in Chain
      BY <2>4 DEF FinishCreate
    <3>4. DurableLeads'
      BY <1>0, <3>2, <3>3, EmptyLeads DEF DurableLeads
    <3>5. Leads(Durable, Durable')
      BY <3>1, <3>2 DEF DurableLeads
    <3> QED BY <1>0, <2>4, <3>2, <3>4, <3>5 DEF FinishCreate, history
  <2> QED
    BY <1>2, <2>1, <2>2, <2>3, <2>4 DEF Create
<1>3. ASSUME NEW p \in Proc, Open(p)
      PROVE  Goal
  <2>1. CASE OpenLock(p)
    BY <2>1, <1>1 DEF OpenLock, disk, Appending
  <2>2. CASE OpenAccept(p)
    <3>1. Visible = file /\ Visible' = Visible /\ Durable' = Durable
      BY <2>2, <1>0 DEF OpenAccept, Reopenable, Visible, Durable, disk
    <3>2. \A q \in Proc : Writer(q)' => \/ Writer(q) /\ mem'[q] = mem[q]
                                        \/ mem'[q] = file
      BY <2>2 DEF OpenAccept, Appending
    <3> QED BY <3>1, <3>2 DEF DurableLeads
  <2>3. CASE OpenReject(p)
    BY <2>3, <1>1 DEF OpenReject, Leave, disk, Appending
  <2>4. CASE OpenReturns(p)
    BY <2>4, <1>1 DEF OpenReturns, disk, Appending
  <2> QED
    BY <1>3, <2>1, <2>2, <2>3, <2>4 DEF Open
<1>4. ASSUME NEW p \in Proc, AppendRecord(p)
      PROVE  Goal
  <2>1. ASSUME NEW u \in Unit, NEW s \in State \ {"planned"}, WriteLine(p, u, s)
        PROVE  Goal
    BY <2>1, <1>1 DEF WriteLine, MayAppend, Appending
  <2>2. CASE FsyncFile(p) \/ StageAnchor(p)
    BY <2>2, <1>1 DEF FsyncFile, StageAnchor, Appending
  <2>3. CASE ReplaceAnchor(p)
    <3>0. PICK e, long : e = pending[p][1] /\ long = Append(mem[p], e)
      OBVIOUS
    <3>1. e \in Entry /\ mem[p] \in Chain /\ Leads(Durable, mem[p]) /\ step[p] = "staged"
      BY <2>3, <3>0, PendingType DEF ReplaceAnchor, Appending, DurableLeads
    <3>2. long \in Chain /\ Leads(Durable, long)
      BY <1>0, <3>0, <3>1, AppendType, ExtendLeads DEF PendingIsLegal, Appending
    <3>3. Visible' = long /\ Durable' = Durable
      BY <2>3, <1>0, <3>0, <3>2 DEF ReplaceAnchor, Visible, Durable
    <3>4. \A q \in Proc : Writer(q)' => (Writer(q) /\ mem'[q] = mem[q])
      BY <2>3 DEF ReplaceAnchor, Appending
    <3> QED BY <3>2, <3>3, <3>4 DEF DurableLeads
  <2>4. CASE FsyncDirectory(p)
    <3>1. Visible' = Visible /\ Durable' = Visible
      BY <2>4 DEF FsyncDirectory, Visible, Durable
    <3>2. \A q \in Proc : ~Writer(q)'
      BY <2>4 DEF FsyncDirectory, LockProtects, Appending
    <3> QED BY <1>0, <2>4, <3>1, <3>2, EmptyLeads DEF DurableLeads, FsyncDirectory, history
  <2>5. CASE AppendReturns(p)
    <3>0. PICK e, long : e = pending[p][1] /\ long = Append(mem[p], e)
      OBVIOUS
    <3>1. step[p] = "anchored" /\ stableAnchor = anchor /\ anchor = long
      BY <2>5, <3>0 DEF AppendReturns, AnchorFollowsMemory
    <3>2. mem'[p] = long
      BY <2>5, <3>0 DEF AppendReturns
    <3>5. e \in Entry /\ mem[p] \in Chain
      BY <3>0, <3>1, PendingType DEF Appending
    <3>6. long \in Chain
      BY <3>0, <3>5, AppendType
    <3>7. Durable = long /\ Visible = long
      BY <1>0, <3>1, <3>6 DEF Durable, Visible
    <3>3. Visible' = Visible /\ Durable' = Durable
      BY <2>5 DEF AppendReturns, Visible, Durable, disk
    <3>4. \A q \in Proc : Writer(q)' => q = p
      BY <2>5 DEF AppendReturns, LockProtects, Appending
    <3> QED BY <3>2, <3>3, <3>4, <3>6, <3>7, EmptyLeads DEF DurableLeads
  <2> QED
    BY <1>4, <2>1, <2>2, <2>3, <2>4, <2>5 DEF AppendRecord
<1>5. ASSUME NEW p \in Proc, Flush(p) \/ Close(p)
      PROVE  Goal
  BY <1>5, <1>1 DEF Flush, Close, Leave, process, disk, Appending
<1>6. ASSUME NEW p \in Proc, Fault(p)
      PROVE  Goal
  <2>1. CASE CreateFails(p)
    BY <2>1, <1>1 DEF CreateFails, Leave, Appending
  <2>2. ASSUME NEW u \in Unit, NEW s \in State \ {"planned"}, TearLine(p, u, s)
        PROVE  Goal
    BY <2>2, <1>1 DEF TearLine, MayAppend, Appending
  <2>3. CASE AppendFails(p)
    BY <2>3, <1>1 DEF AppendFails, Appending
  <2>4. CASE Kill(p)
    BY <2>4, <1>1 DEF Kill, Leave, disk, Appending
  <2> QED
    BY <1>6, <2>1, <2>2, <2>3, <2>4 DEF Fault
<1>7. CASE PowerLoss
  <2>1. Visible' \in {Visible, Durable} /\ Durable' = Visible'
    BY <1>7 DEF PowerLoss, Visible, Durable
  <2>2. \A q \in Proc : ~Writer(q)'
    BY <1>7 DEF PowerLoss, Appending
  <2> QED BY <1>0, <1>7, <2>1, <2>2, EmptyLeads DEF DurableLeads, PowerLoss
<1>8. CASE UNCHANGED vars
  BY <1>8, <1>1 DEF vars, process, disk, Appending
<1> QED
  BY <1>2, <1>3, <1>4, <1>5, <1>6, <1>7, <1>8 DEF Next

(* A start that returns is the first contact of a unit that is durably     *)
(* running.                                                                *)
LEMMA StartsAreContacts ==
    ASSUME Inv, [Next]_vars, starts' # starts
    PROVE  /\ Durable' = Durable
           /\ \E u \in Unit : /\ StateOf(Durable, u) = "running" /\ starts[u] = 0
                              /\ starts' = [starts EXCEPT ![u] = 1]
<1> USE DEF Inv, TypeOK
<1>1. PICK p \in Proc : AppendReturns(p)
  BY DEF Next, Create, CreateFile, LockNew, LinkAnchor, FinishCreate, Open, OpenLock, OpenAccept,
         OpenReject, OpenReturns, AppendRecord, WriteLine, FsyncFile, StageAnchor, ReplaceAnchor,
         FsyncDirectory, Flush, Close, Fault, CreateFails, TearLine, AppendFails,
         Kill, PowerLoss, vars, history
<1>2. PICK e, long : e = pending[p][1] /\ long = Append(mem[p], e)
  OBVIOUS
<1>3. e \in Entry /\ e.unit \in Unit /\ mem[p] \in Chain /\ step[p] = "anchored"
  BY <1>1, <1>2, PendingType DEF AppendReturns, Appending, Entry
<1>4. long \in Chain /\ stableAnchor = long
  BY <1>2, <1>3, AppendType DEF AnchorFollowsMemory
<1>5. e.state = "running" /\ starts' = [starts EXCEPT ![e.unit] = @ + 1]
  BY <1>1, <1>2 DEF AppendReturns
<1>6. StateOf(mem[p], e.unit) = "planned"
  BY <1>2, <1>3, <1>5 DEF PendingIsLegal, Appending
<1>7. starts[e.unit] = 0
  <2>1. ~(starts[e.unit] > 0)
    BY <1>3, <1>6 DEF NothingForgotten, Remembers, Appending
  <2> QED BY <1>3, <2>1
<1>8. StateOf(long, e.unit) = "running"
  BY <1>2, <1>3, <1>5, StateOfAppend
<1>9. Durable = long /\ Durable' = Durable
  BY <1>1, <1>4, NoAnchorIsNotAChain DEF AppendReturns, Durable, disk
<1>10. PICK u \in Unit : u = e.unit
  BY <1>3
<1>11. starts' = [starts EXCEPT ![u] = 1] /\ starts[u] = 0
  BY <1>5, <1>7, <1>10
<1>12. StateOf(Durable, u) = "running"
  BY <1>8, <1>9, <1>10
<1> QED
  BY <1>9, <1>11, <1>12

(* The journal, with its two files, its fsyncs and every crash between     *)
(* them, implements the atomic record of outcomes: durable outcomes only   *)
(* move forward, and a target is contacted once, while durably running.    *)
THEOREM JournalImplementsOutcomes == Spec => ImplementsOutcomes
<1>1. Init => DurableLeads /\ Outcomes!Init
  <2> SUFFICES ASSUME Init PROVE DurableLeads /\ Outcomes!Init
    OBVIOUS
  <2>1. Durable = <<>> /\ Visible = <<>> /\ <<>> \in Chain
    BY DEF Init, Durable, Visible, Chain
  <2>2. DurableLeads
    BY <2>1, EmptyLeads DEF DurableLeads, Init, Appending
  <2>3. Outcomes!Init
    BY <2>1, StateOfEmpty DEF Init, Outcomes!Init
  <2> QED BY <2>2, <2>3
<1>2. Inv /\ DurableLeads /\ [Next]_vars => DurableLeads' /\ [Outcomes!Next]_(Outcomes!ovars)
  <2> SUFFICES ASSUME Inv, DurableLeads, [Next]_vars
               PROVE  DurableLeads' /\ [Outcomes!Next]_(Outcomes!ovars)
    OBVIOUS
  <2>1. CASE starts' # starts
    <3>1. PICK u \in Unit : /\ StateOf(Durable, u) = "running" /\ starts[u] = 0
                            /\ starts' = [starts EXCEPT ![u] = 1] /\ Durable' = Durable
      BY <2>1, StartsAreContacts
    <3>2. {v \in Unit : starts'[v] > 0} = {v \in Unit : starts[v] > 0} \cup {u}
      BY <3>1 DEF Inv, TypeOK
    <3>3. u \notin {v \in Unit : starts[v] > 0}
      BY <3>1
    <3>4. Outcomes!Contact(u)
      BY <3>1, <3>2, <3>3 DEF Outcomes!Contact
    <3> QED BY <3>4, NextLeads DEF Outcomes!Next
  <2>2. CASE starts' = starts /\ Durable' = Durable
    BY <2>2, NextLeads DEF Outcomes!ovars
  <2>3. CASE starts' = starts /\ Durable' # Durable
    <3>1. Durable' \in Chain /\ Leads(Durable, Durable')
      BY <2>3, NextLeads
    <3>2. \A u \in Unit : StateOf(Durable', u) \in {"planned", "running"} \cup Terminal
      BY <3>1, StateOfIsState DEF State
    <3>3. Outcomes!Record
      BY <2>3, <3>1, <3>2 DEF Outcomes!Record, Leads
    <3> QED BY <3>3, NextLeads DEF Outcomes!Next
  <2> QED BY <2>1, <2>2, <2>3
<1> QED
  BY <1>1, <1>2, Invariance, PTL DEF Spec, ImplementsOutcomes, Outcomes!Spec

-----------------------------------------------------------------------------
(***************************************************************************)
(*                            THE FINDINGS FILE                            *)
(***************************************************************************)

(***************************************************************************)
(* Where the run is says how far its files have come: the key was read or  *)
(* written before the first source is judged, all sources are judged       *)
(* before the findings file is reconciled with them, and it is written     *)
(* before anything is reported.                                            *)
(***************************************************************************)
AtWork == {"judging", "reconciling", "reporting", "reconciled"}

StageOK ==
    /\ stage \in Stages
    /\ stage = "naming" => key = "torn" /\ snapshot = <<>>
    /\ stage \in AtWork => key \in {"lucky", "unlucky"}
    /\ stage \in {"reconciling", "reporting", "reconciled"} => Complete
    /\ stage \in {"reporting", "reconciled"} => snapshot # <<>>

FileIsWritten ==
    snapshot # <<>> =>
        /\ Complete
        /\ key \in {"lucky", "unlucky"}
        /\ snapshot = <<[key |-> key, lines |-> LinesOf(evidence)]>>
        /\ \A line \in LinesOf(evidence) : IsAccepted(line, evidence, campaign.suite, key)

ExitOK == exit \in {"0", "1"} => snapshot # <<>>

RunInv == StageOK /\ FileIsWritten /\ ExitOK

(* The findings file that a run would write again is the one that is there. *)
LEMMA RunStep ==
    ASSUME RunInv, [RunNext]_runVars
    PROVE  RunInv' /\ (snapshot # <<>> => snapshot' = snapshot)
  <1> USE DEF RunInv, StageOK, FileIsWritten, ExitOK, Stages, AtWork
  <1>1. CASE Run
    BY <1>1 DEF Run, Complete
  <1>2. CASE CreateKey
    BY <1>2 DEF CreateKey, Complete
  <1>3. CASE FillKey
    BY <1>3 DEF FillKey, ResolvedStage, Complete
  <1>4. CASE LoadKey
    BY <1>4 DEF LoadKey, ResolvedStage, Complete
  <1>5. CASE RefuseKey
    BY <1>5 DEF RefuseKey, End, Complete
  <1>6. CASE Judge
    <2>1. stage = "judging" /\ ~Complete /\ snapshot = <<>>
      BY <1>6 DEF Judge
    <2>2. UNCHANGED <<campaign, key, snapshot, stops, reviews>>
      BY <1>6 DEF Judge
    <2>3. \/ stage' = stage /\ exit' = exit
          \/ stage' = "idle" /\ exit' = "crash"
      BY <1>6 DEF Judge, End
    <2> QED BY <2>1, <2>2, <2>3
  <1>7. CASE WriteSnapshot
    <2>1. /\ stage \in {"reconciling", "judging"} /\ Complete
          /\ UNCHANGED <<campaign, key, evidence, stops, reviews>>
      BY <1>7 DEF WriteSnapshot
    <2>2. CASE \E line \in LinesOf(evidence) :
                   ~IsAccepted(line, evidence, campaign.suite, key)
      <3>1. stage' = "idle" /\ exit' = "2" /\ snapshot' = snapshot
        BY <1>7, <2>2 DEF WriteSnapshot, End
      <3> QED BY <2>1, <3>1 DEF Complete
    <2>3. CASE ~\E line \in LinesOf(evidence) :
                   ~IsAccepted(line, evidence, campaign.suite, key)
      <3>1. /\ snapshot' = <<[key |-> key, lines |-> LinesOf(evidence)]>>
            /\ stage' \in {"reporting", "reconciled"} /\ exit' = exit
        BY <1>7, <2>3 DEF WriteSnapshot
      <3>2. snapshot' # <<>>
        BY <3>1
      <3> QED BY <2>1, <2>3, <3>1, <3>2 DEF Complete
    <2> QED BY <2>2, <2>3
  <1>8. CASE Report
    BY <1>8 DEF Report, End, Complete
  <1>9. CASE Stop
    BY <1>9 DEF Stop, End, Complete
  <1>10. CASE KillRun
    BY <1>10 DEF KillRun, End, Complete
  <1>11. CASE Review
    BY <1>11 DEF Review, Complete
  <1>12. CASE UNCHANGED runVars
    BY <1>12 DEF runVars, Complete
  <1> QED
    BY <1>1, <1>2, <1>3, <1>4, <1>5, <1>6, <1>7, <1>8, <1>9, <1>10, <1>11, <1>12 DEF RunNext

(* RunInv holds whatever the runs of a campaign go through.                *)
THEOREM RunsInvariance == RunSpec => []RunInv
  <1>1. RunInit => RunInv
    BY DEF RunInit, RunInv, StageOK, FileIsWritten, ExitOK, Stages, AtWork
  <1>2. RunInv /\ [RunNext]_runVars => RunInv'
    BY RunStep
  <1> QED BY <1>1, <1>2, PTL DEF RunSpec

(* A findings file has the packages of the whole evidence, as their        *)
(* contract wants them and under the key that is on disk; no run ended     *)
(* with 0 or 1 without one.                                                *)
THEOREM FileIsTheEvidence == RunSpec => []SnapshotIsTheEvidence
  <1>1. RunInv => SnapshotIsTheEvidence
    BY DEF RunInv, FileIsWritten, ExitOK, SnapshotIsTheEvidence
  <1> QED BY <1>1, RunsInvariance, PTL

(* Once it is written, no run, resume, kill or review changes it.          *)
THEOREM FileIsFinal == RunSpec => SnapshotIsFinal
  <1>1. RunInv /\ [RunNext]_runVars => [snapshot # <<>> => snapshot' = snapshot]_runVars
    BY RunStep
  <1> QED BY <1>1, RunsInvariance, PTL DEF RunSpec, SnapshotIsFinal

-----------------------------------------------------------------------------
(***************************************************************************)
(*                               THE REPORTS                               *)
(***************************************************************************)

(* What f makes of the elements of a finite set is no more than they are,  *)
(* and as many when it tells them apart.                                   *)
LEMMA ImageIsFinite ==
    ASSUME NEW S, IsFiniteSet(S), NEW f, DOMAIN f = S
    PROVE  LET T == {f[x] : x \in S}
           IN /\ IsFiniteSet(T) /\ Cardinality(T) <= Cardinality(S)
              /\ (\A x, y \in S : f[x] = f[y] => x = y) => Cardinality(T) = Cardinality(S)
<1> DEFINE T == {f[x] : x \in S}
           g == [x \in S |-> f[x]]
<1>1. g \in Surjection(S, T)
  BY DEF Surjection
<1>2. IsFiniteSet(T) /\ Cardinality(T) <= Cardinality(S)
  BY <1>1, FS_Surjection
<1>3. ASSUME \A x, y \in S : f[x] = f[y] => x = y
      PROVE  Cardinality(T) = Cardinality(S)
  <2>1. g \in Injection(S, T)
    BY <1>3 DEF Injection, IsInjective
  <2> QED BY <1>1, <2>1, FS_Bijection DEF Bijection, ExistsBijection
<1> QED
  BY <1>2, <1>3

(* Counting the elements of a finite set that are of some kind.            *)
LEMMA PartIsFinite ==
    ASSUME NEW S, IsFiniteSet(S), NEW P, P \subseteq S
    PROVE  /\ IsFiniteSet(P) /\ Cardinality(P) \in Nat
           /\ (Cardinality(P) > 0) = (P # {})
<1>1. IsFiniteSet(P)
  BY FS_Subset
<1>2. Cardinality(P) \in Nat /\ (Cardinality(P) = 0 <=> P = {})
  BY <1>1, FS_CardinalityType, FS_EmptySet
<1> QED
  BY <1>1, <1>2

(* The same for the positions of a sequence.                               *)
LEMMA RangeIsFinite ==
    ASSUME NEW s, IsSequence(s), NEW P, P \subseteq DOMAIN s
    PROVE  Len(s) \in Nat /\ IsFiniteSet(DOMAIN s) /\ Cardinality(P) \in Nat
<1>1. IsFiniteSet(DOMAIN s)
  BY FS_Interval DEF IsSequence
<1> QED
  BY <1>1, PartIsFinite DEF IsSequence

-----------------------------------------------------------------------------
(* The four kinds of findings.                                             *)

\* every review in force is a judgment that `ul dataset review` can make
AreReviews(judgments) == \A n \in DOMAIN judgments : judgments[n] \in Judgments

(* A finding with a name has a status that a review can have, and may be   *)
(* in a pattern.                                                           *)
NameIsGiven(f) ==
    /\ f.name = <<f.name[1]>>
    /\ f.status \in ReviewStatuses
    /\ \/ /\ f.category \in DifferenceCategories /\ f.authorities = ModelDerived
       \/ f.category = "customer_invariant_violation" /\ f.authorities = Deterministic

(* A finding has the status of its review, or the automatic one of its     *)
(* materiality; only a confirmed one has a severity.                       *)
LEMMA EffectiveIsReview ==
    ASSUME NEW judgments, AreReviews(judgments), NEW name,
           NEW automatic \in {"needs_review", "expected", "inconclusive"}
    PROVE  LET review == Effective(name, automatic, judgments)
           IN /\ review.status \in ReviewStatuses
              /\ review.severity \in {"high", "unrated"}
              /\ review.status # "confirmed" => review.severity = "unrated"
<1>1. CASE name \in DOMAIN judgments
  BY <1>1 DEF AreReviews, Judgments, Effective, ReviewStatuses
<1>2. CASE name \notin DOMAIN judgments
  BY <1>2 DEF Effective, ReviewStatuses
<1> QED BY <1>1, <1>2

(* A case that differs, is stable or not, or has trials is one that was    *)
(* run: it has repetitions, each of them conclusive or not.                *)
LEMMA CaseRun ==
    ASSUME NEW j, IsJudged(j), NEW c \in DOMAIN j.cases,
           j.cases[c].trials # <<>> \/ j.cases[c].stability # "none" \/ j.cases[c].findings # {}
    PROVE  LET case == j.cases[c]
               n == CaseRepetitions(case)
           IN /\ WasRun(j, case) /\ CaseIsJudged(j, case)
              /\ case.trials # <<>> /\ case.stability # "none"
              /\ case.verdict # "augmentation_rejected"
              /\ n[1] \in Nat /\ n[1] >= 1 /\ n[2] + n[3] = n[1]
<1> DEFINE case == j.cases[c]
<1>1. CaseIsJudged(j, case)
  BY DEF IsJudged
<1>2. WasRun(j, case)
  BY <1>1 DEF CaseIsJudged, WasRejected
<1>3. Len(case.trials) \in Nat /\ Len(case.trials) > 0 /\ IsSequence(case.trials)
  BY <1>2 DEF WasRun, IsSequence
<1>4. case.trials # <<>>
  BY <1>3
<1>5. Cardinality({k \in DOMAIN case.trials : case.trials[k].inconclusive}) \in Nat
  BY <1>3, RangeIsFinite
<1>6. LET n == CaseRepetitions(case)
      IN n[1] = Len(case.trials) /\ n[2] + n[3] = n[1]
  BY <1>3, <1>5 DEF CaseRepetitions, RunSummary
<1>7. case.stability # "none" /\ case.verdict # "augmentation_rejected"
  BY <1>2 DEF WasRun, Stabilities, VerdictOf
<1> QED
  BY <1>1, <1>2, <1>3, <1>4, <1>6, <1>7

\* what is reported of an unstable variation without findings of its own
UnstableIs(f, k, case) ==
    /\ f.name = <<>> /\ f.status = "unreviewed"
    /\ f.at = <<k, case.operator>> /\ case.operator # Baseline
    /\ FindingSummaryAccepted(f)
    /\ Bucket(case) = "unstable"

(* It is unreviewed, accepted, and stands for a case that is unstable.     *)
LEMMA UnstableFacts ==
    ASSUME NEW j, IsJudged(j), NEW c \in DOMAIN j.cases, NEW k,
           j.cases[c].findings = {}, j.cases[c].stability = "unstable"
    PROVE  UnstableIs(UnstableSummary(k, j.cases[c]), k, j.cases[c])
<1> DEFINE case == j.cases[c]
           n == CaseRepetitions(case)
           f == UnstableSummary(k, case)
<1>1. /\ WasRun(j, case) /\ CaseIsJudged(j, case) /\ case.trials # <<>>
      /\ case.verdict # "augmentation_rejected"
      /\ n[1] \in Nat /\ n[1] >= 1 /\ n[2] + n[3] = n[1]
  BY CaseRun
<1>2. /\ f.name = <<>> /\ f.status = "unreviewed" /\ f.severity = "none" /\ f.rule = <<>>
      /\ f.at = <<k, case.operator>> /\ f.category = "unstable_behavior"
      /\ f.requested = n[1] /\ f.conclusive = n[2] /\ f.inconclusive = n[3]
  BY DEF UnstableSummary, FindingSummary, Unreviewed
<1> HIDE DEF f, n
<1>3. FindingSummaryAccepted(f)
  BY <1>1, <1>2 DEF FindingSummaryAccepted
<1>4. case.materiality = "none" /\ case.operator # Baseline
  BY <1>1 DEF CaseIsJudged
<1>5. Bucket(case) = "unstable"
  BY <1>1, <1>4 DEF Bucket
<1> QED
  BY <1>2, <1>3, <1>4, <1>5 DEF f, UnstableIs

\* what is reported of a difference between a variation and its baseline
BehaviorIs(f, k, case, name, judgments) ==
    /\ f.name = <<name>> /\ f.at = <<k, case.operator>>
    /\ name.identity[1] \in DifferenceCategories
    /\ f.status = Effective(name, FindingStatus(case), judgments).status
    /\ FindingStatus(case) \in {"needs_review", "expected", "inconclusive"}
    /\ NameIsGiven(f) /\ FindingSummaryAccepted(f)

(* It has a name, the status of its review or of its materiality, and fits *)
(* the contract.                                                           *)
LEMMA BehaviorFacts ==
    ASSUME NEW j, IsJudged(j), NEW c \in DOMAIN j.cases, NEW g \in j.cases[c].findings, NEW k,
           NEW judgments, AreReviews(judgments)
    PROVE  BehaviorIs(BehaviorSummary(k, j.cases[c], g, judgments), k, j.cases[c],
                      BehaviorName(k, j.cases[c], g), judgments)
<1> DEFINE case == j.cases[c]
           n == CaseRepetitions(case)
           name == BehaviorName(k, case, g)
           review == Effective(name, FindingStatus(case), judgments)
           f == BehaviorSummary(k, case, g, judgments)
<1>1. /\ WasRun(j, case) /\ CaseIsJudged(j, case)
      /\ n[1] \in Nat /\ n[1] >= 1 /\ n[2] + n[3] = n[1]
  BY CaseRun
<1>2. FindingStatus(case) \in {"needs_review", "expected", "inconclusive"}
  BY <1>1 DEF CaseIsJudged, Materialities, FindingStatus
<1>3. /\ review.status \in ReviewStatuses /\ review.severity \in {"high", "unrated"}
      /\ review.status # "confirmed" => review.severity = "unrated"
  BY <1>2, EffectiveIsReview
<1>4. g.category \in DifferenceCategories
  BY <1>1 DEF CaseIsJudged
<1>5. name.identity[1] \in DifferenceCategories
  BY <1>4 DEF BehaviorName, Identity
<1> HIDE DEF name, review, n
<1>6. /\ f.name = <<name>> /\ f.status = review.status /\ f.severity = review.severity
      /\ f.rule = <<>> /\ f.at = <<k, case.operator>> /\ f.category = g.category
      /\ f.requested = n[1] /\ f.conclusive = n[2] /\ f.inconclusive = n[3]
      /\ f.authorities = ModelDerived
  BY DEF BehaviorSummary, FindingSummary, name, review, n
<1> HIDE DEF f
<1>7. FindingSummaryAccepted(f)
  BY <1>1, <1>3, <1>4, <1>6
     DEF FindingSummaryAccepted, ReviewStatuses, DifferenceCategories
<1>8. NameIsGiven(f)
  BY <1>3, <1>4, <1>6 DEF NameIsGiven
<1> QED
  BY <1>2, <1>4, <1>5, <1>6, <1>7, <1>8 DEF f, name, review, BehaviorIs

\* what is reported of a rule that every repetition of a variation violates
ReproducedIs(f, k, j, operator, name, judgments) ==
    /\ f.name = <<name>> /\ f.at = <<k, operator>> /\ name.identity[1] = "rule"
    /\ f.status = Effective(name, "needs_review", judgments).status
    /\ \E c \in DOMAIN j.cases : j.cases[c].operator = operator /\ j.cases[c].trials # <<>>
    /\ NameIsGiven(f) /\ FindingSummaryAccepted(f)

(* It is named for its rule and is of a variation that was run.            *)
LEMMA ReproducedFacts ==
    ASSUME NEW j, IsJudged(j), NEW a \in DOMAIN j.evaluation, a # 1,
           NEW r \in DOMAIN j.evaluation[a].rules, NEW k,
           NEW judgments, AreReviews(judgments)
    PROVE  LET operator == j.evaluation[a].operator
               result == j.evaluation[a].rules[r]
           IN ReproducedIs(ReproducedSummary(k, operator, result, judgments), k, j, operator,
                           RuleName(k, operator, result.rule), judgments)
<1> DEFINE operator == j.evaluation[a].operator
           result == j.evaluation[a].rules[r]
           name == RuleName(k, operator, result.rule)
           review == Effective(name, "needs_review", judgments)
           f == ReproducedSummary(k, operator, result, judgments)
<1>1. ArmIsEvaluated(j, j.evaluation[a]) /\ operator # Baseline
  BY DEF IsJudged
<1>2. \E c \in DOMAIN j.cases : j.cases[c].operator = operator /\ j.cases[c].trials # <<>>
  BY <1>1 DEF ArmIsEvaluated
<1>3. RuleIsEvaluated(result)
  BY <1>1 DEF ArmIsEvaluated
<1>4. Len(result.trials) \in Nat /\ Len(result.trials) >= 1
  BY <1>3 DEF RuleIsEvaluated, IsSequence
<1>5. /\ review.status \in ReviewStatuses /\ review.severity \in {"high", "unrated"}
      /\ review.status # "confirmed" => review.severity = "unrated"
  BY EffectiveIsReview
<1>6. name.identity[1] = "rule"
  BY DEF RuleName
<1> HIDE DEF name, review
<1>7. /\ f.name = <<name>> /\ f.status = review.status /\ f.severity = review.severity
      /\ f.rule = <<result.rule>> /\ f.at = <<k, operator>>
      /\ f.category = "customer_invariant_violation"
      /\ f.requested = Len(result.trials) /\ f.conclusive = Len(result.trials)
      /\ f.inconclusive = 0
      /\ f.authorities = Deterministic
  BY DEF ReproducedSummary, FindingSummary, name, review
<1> HIDE DEF f
<1>8. FindingSummaryAccepted(f)
  BY <1>4, <1>5, <1>7 DEF FindingSummaryAccepted, ReviewStatuses
<1>9. NameIsGiven(f)
  BY <1>5, <1>7 DEF NameIsGiven
<1> QED
  BY <1>2, <1>6, <1>7, <1>8, <1>9 DEF f, name, review, ReproducedIs

\* what is reported of any other violation
OtherIs(f, k, operator) ==
    /\ f.name = <<>> /\ f.at = <<k, operator>>
    /\ f.status \in {"inconclusive", "unreviewed"}
    /\ f.status = "unreviewed" => operator = Baseline
    /\ FindingSummaryAccepted(f)

(* It has no name; of a variation it is inconclusive.                      *)
LEMMA OtherFacts ==
    ASSUME NEW j, IsJudged(j), NEW a \in DOMAIN j.evaluation,
           NEW r \in DOMAIN j.evaluation[a].rules, NEW k
    PROVE  OtherIs(OtherViolation(k, j.evaluation[a].operator, j.evaluation[a].rules[r]), k,
                   j.evaluation[a].operator)
<1> DEFINE operator == j.evaluation[a].operator
           result == j.evaluation[a].rules[r]
           n == RuleRepetitions(result)
           f == OtherViolation(k, operator, result)
<1>1. ArmIsEvaluated(j, j.evaluation[a])
  BY DEF IsJudged
<1>2. RuleIsEvaluated(result)
  BY <1>1 DEF ArmIsEvaluated
<1>3. Len(result.trials) \in Nat /\ Len(result.trials) > 0 /\ IsSequence(result.trials)
  BY <1>2 DEF RuleIsEvaluated, IsSequence
<1>4. Cardinality({i \in DOMAIN result.trials : result.trials[i].status = "not_evaluable"})
        \in Nat
  BY <1>3, RangeIsFinite
<1>5. n[1] \in Nat /\ n[1] >= 1 /\ n[2] + n[3] = n[1]
  <2> DEFINE unknown == Cardinality({i \in DOMAIN result.trials :
                                       result.trials[i].status = "not_evaluable"})
             total == Len(result.trials)
  <2>1. n[1] = total /\ n[2] = total - unknown /\ n[3] = unknown
    BY DEF RuleRepetitions
  <2>2. unknown \in Nat /\ total \in Nat /\ total > 0
    BY <1>3, <1>4
  <2> HIDE DEF unknown, total, n
  <2> QED BY <2>1, <2>2
<1> HIDE DEF n
<1>6. /\ f.name = <<>> /\ f.rule = <<result.rule>> /\ f.at = <<k, operator>>
      /\ f.category = "customer_invariant_violation"
      /\ f.requested = n[1] /\ f.conclusive = n[2] /\ f.inconclusive = n[3]
  BY DEF OtherViolation, FindingSummary, n
<1>7. \/ f.status = "inconclusive" /\ f.severity = "unrated"
      \/ f.status = "unreviewed" /\ f.severity = "none" /\ operator = Baseline
  BY DEF OtherViolation, FindingSummary, Unreviewed
<1> HIDE DEF f
<1>8. FindingSummaryAccepted(f)
  BY <1>5, <1>6, <1>7 DEF FindingSummaryAccepted
<1> QED
  BY <1>6, <1>7, <1>8 DEF f, OtherIs

-----------------------------------------------------------------------------
(* The findings of a line, one kind after the other.                       *)

\* which finding a case or an arm contributes, by its kind
IsUnstableFinding(f, k, case) ==
    case.findings = {} /\ case.stability = "unstable" /\ f = UnstableSummary(k, case)
IsBehaviorFinding(f, k, case, judgments) ==
    \E g \in case.findings : f = BehaviorSummary(k, case, g, judgments)
IsRuleFinding(f, k, evaluation, a, judgments) ==
    \E r \in DOMAIN evaluation[a].rules :
        /\ evaluation[a].rules[r].status = "violated"
        /\ a # 1 /\ r \in ReproducedRules(evaluation, a)
        /\ f = ReproducedSummary(k, evaluation[a].operator, evaluation[a].rules[r], judgments)
IsOtherFinding(f, k, evaluation, a) ==
    \E r \in DOMAIN evaluation[a].rules :
        /\ evaluation[a].rules[r].status = "violated"
        /\ ~(a # 1 /\ r \in ReproducedRules(evaluation, a))
        /\ f = OtherViolation(k, evaluation[a].operator, evaluation[a].rules[r])

(* A case contributes itself, when it is unstable, or its differences.     *)
LEMMA CaseFindings ==
    ASSUME NEW judgments, NEW k, NEW case, NEW f
    PROVE  f \in CaseSummaries(k, case, judgments)
              <=> IsUnstableFinding(f, k, case) \/ IsBehaviorFinding(f, k, case, judgments)
<1>1. CASE case.findings = {} /\ case.stability = "unstable"
  BY <1>1 DEF CaseSummaries, IsUnstableFinding, IsBehaviorFinding
<1>2. CASE ~(case.findings = {} /\ case.stability = "unstable")
  BY <1>2 DEF CaseSummaries, IsUnstableFinding, IsBehaviorFinding
<1> QED BY <1>1, <1>2

(* The rules contribute every violation, reproduced or not.                *)
LEMMA RuleFindings ==
    ASSUME NEW judgments, NEW k, NEW evaluation, NEW f
    PROVE  f \in RuleSummaries(k, evaluation, judgments)
              <=> \E a \in DOMAIN evaluation :
                      \/ IsRuleFinding(f, k, evaluation, a, judgments)
                      \/ IsOtherFinding(f, k, evaluation, a)
<1> DEFINE Violated(a) == {r \in DOMAIN evaluation[a].rules :
                              evaluation[a].rules[r].status = "violated"}
           Of(a, r) == IF a # 1 /\ r \in ReproducedRules(evaluation, a)
                       THEN ReproducedSummary(k, evaluation[a].operator, evaluation[a].rules[r],
                                              judgments)
                       ELSE OtherViolation(k, evaluation[a].operator, evaluation[a].rules[r])
<1>1. RuleSummaries(k, evaluation, judgments)
        = UNION {{Of(a, r) : r \in Violated(a)} : a \in DOMAIN evaluation}
  BY DEF RuleSummaries
<1>2. f \in RuleSummaries(k, evaluation, judgments)
        <=> \E a \in DOMAIN evaluation : \E r \in Violated(a) : f = Of(a, r)
  BY <1>1
<1>3. \A a \in DOMAIN evaluation : \A r \in Violated(a) :
        f = Of(a, r) <=> IF a # 1 /\ r \in ReproducedRules(evaluation, a)
                       THEN f = ReproducedSummary(k, evaluation[a].operator,
                                                  evaluation[a].rules[r], judgments)
                       ELSE f = OtherViolation(k, evaluation[a].operator, evaluation[a].rules[r])
  OBVIOUS
<1> QED
  BY <1>2, <1>3 DEF IsRuleFinding, IsOtherFinding

(* The findings of a line are those of its cases and of its rules.         *)
LEMMA LineFindings ==
    ASSUME NEW judgments, NEW k, NEW j, NEW f
    PROVE  f \in SummariesOf(k, j, judgments)
              <=> \/ \E c \in DOMAIN j.cases :
                        \/ IsUnstableFinding(f, k, j.cases[c])
                        \/ IsBehaviorFinding(f, k, j.cases[c], judgments)
                  \/ \E a \in DOMAIN j.evaluation :
                        \/ IsRuleFinding(f, k, j.evaluation, a, judgments)
                        \/ IsOtherFinding(f, k, j.evaluation, a)
<1>1. f \in SummariesOf(k, j, judgments)
        <=> \/ \E c \in DOMAIN j.cases : f \in CaseSummaries(k, j.cases[c], judgments)
            \/ f \in RuleSummaries(k, j.evaluation, judgments)
  BY DEF SummariesOf, Elements
<1> QED
  BY <1>1, CaseFindings, RuleFindings

(* A line has finitely many findings, as it has cases, arms and rules.     *)
LEMMA LineFindingsAreFinite ==
    ASSUME NEW j, IsJudged(j), NEW k, NEW judgments
    PROVE  IsFiniteSet(SummariesOf(k, j, judgments))
<1>1. ASSUME NEW c \in DOMAIN j.cases
      PROVE  IsFiniteSet(CaseSummaries(k, j.cases[c], judgments))
  <2> DEFINE case == j.cases[c]
             g == [f \in case.findings |-> BehaviorSummary(k, case, f, judgments)]
  <2>1. IsFiniteSet(case.findings)
    BY DEF IsJudged, CaseIsJudged
  <2>2. IsFiniteSet({g[f] : f \in case.findings})
    BY <2>1, ImageIsFinite
  <2>3. {g[f] : f \in case.findings}
          = {BehaviorSummary(k, case, f, judgments) : f \in case.findings}
    OBVIOUS
  <2> QED BY <2>2, <2>3, FS_Singleton DEF CaseSummaries
<1>2. IsFiniteSet(RuleSummaries(k, j.evaluation, judgments))
  <2> DEFINE evaluation == j.evaluation
             Violated(b) == {r \in DOMAIN evaluation[b].rules :
                                evaluation[b].rules[r].status = "violated"}
             Of(b, r) ==
                 IF b # 1 /\ r \in ReproducedRules(evaluation, b)
                 THEN ReproducedSummary(k, evaluation[b].operator, evaluation[b].rules[r],
                                        judgments)
                 ELSE OtherViolation(k, evaluation[b].operator, evaluation[b].rules[r])
             ofArm(b) == {Of(b, r) : r \in Violated(b)}
             g == [b \in DOMAIN evaluation |-> ofArm(b)]
  <2>1. ASSUME NEW b \in DOMAIN evaluation
        PROVE  IsFiniteSet(ofArm(b))
    <3> DEFINE h == [r \in Violated(b) |-> Of(b, r)]
    <3>1. IsSequence(evaluation[b].rules)
      BY DEF IsJudged, ArmIsEvaluated
    <3>2. IsFiniteSet(Violated(b))
      <4>1. IsFiniteSet(DOMAIN evaluation[b].rules)
        BY <3>1, RangeIsFinite
      <4> QED BY <4>1, PartIsFinite
    <3>3. IsFiniteSet({h[r] : r \in Violated(b)})
      BY <3>2, ImageIsFinite
    <3>4. {h[r] : r \in Violated(b)} = ofArm(b)
      OBVIOUS
    <3> QED BY <3>3, <3>4
  <2>2. IsFiniteSet(DOMAIN evaluation)
    BY RangeIsFinite DEF IsJudged
  <2>3. IsFiniteSet({g[b] : b \in DOMAIN evaluation})
    BY <2>2, ImageIsFinite
  <2>4. \A T \in {g[b] : b \in DOMAIN evaluation} : IsFiniteSet(T)
    BY <2>1
  <2>5. RuleSummaries(k, evaluation, judgments) = UNION {g[b] : b \in DOMAIN evaluation}
    <3>1. RuleSummaries(k, evaluation, judgments) = UNION {ofArm(b) : b \in DOMAIN evaluation}
      BY DEF RuleSummaries
    <3>2. {g[b] : b \in DOMAIN evaluation} = {ofArm(b) : b \in DOMAIN evaluation}
      OBVIOUS
    <3> QED BY <3>1, <3>2
  <2> HIDE DEF g
  <2> QED BY <2>3, <2>4, <2>5, FS_UNION
<1>3. IsFiniteSet(UNION {CaseSummaries(k, c, judgments) : c \in Elements(j.cases)})
  <2> DEFINE g == [c \in DOMAIN j.cases |-> CaseSummaries(k, j.cases[c], judgments)]
  <2>1. IsFiniteSet(DOMAIN j.cases)
    BY RangeIsFinite DEF IsJudged
  <2>2. IsFiniteSet({g[c] : c \in DOMAIN j.cases})
    BY <2>1, ImageIsFinite
  <2>3. {g[c] : c \in DOMAIN j.cases} = {CaseSummaries(k, c, judgments) : c \in Elements(j.cases)}
    BY DEF Elements
  <2>4. \A T \in {g[c] : c \in DOMAIN j.cases} : IsFiniteSet(T)
    BY <1>1
  <2> HIDE DEF g
  <2> QED BY <2>2, <2>3, <2>4, FS_UNION
<1> QED
  BY <1>2, <1>3, FS_Union DEF SummariesOf

(* What every finding is like, and where a finding that has a name is.     *)
LEMMA LineFindingFacts ==
    ASSUME NEW j, IsJudged(j), NEW k, NEW judgments, AreReviews(judgments),
           NEW f \in SummariesOf(k, j, judgments)
    PROVE  /\ FindingSummaryAccepted(f)
           /\ f.name # <<>> =>
                /\ NameIsGiven(f)
                /\ \E c \in DOMAIN j.cases : /\ j.cases[c].trials # <<>>
                                             /\ f.at = <<k, j.cases[c].operator>>
                /\ \/ \E c \in DOMAIN j.cases : \E g \in j.cases[c].findings :
                            f = BehaviorSummary(k, j.cases[c], g, judgments)
                   \/ \E a \in DOMAIN j.evaluation : \E r \in DOMAIN j.evaluation[a].rules :
                            /\ a # 1
                            /\ f = ReproducedSummary(k, j.evaluation[a].operator,
                                                     j.evaluation[a].rules[r], judgments)
<1>1. CASE \E c \in DOMAIN j.cases : IsUnstableFinding(f, k, j.cases[c])
  <2>1. PICK c \in DOMAIN j.cases : UnstableIs(f, k, j.cases[c])
    BY <1>1, UnstableFacts DEF IsUnstableFinding
  <2> QED BY <2>1 DEF UnstableIs
<1>2. CASE \E c \in DOMAIN j.cases : IsBehaviorFinding(f, k, j.cases[c], judgments)
  <2> PICK c \in DOMAIN j.cases : IsBehaviorFinding(f, k, j.cases[c], judgments)
    BY <1>2
  <2>1. PICK g \in j.cases[c].findings : f = BehaviorSummary(k, j.cases[c], g, judgments)
    BY DEF IsBehaviorFinding
  <2>2. BehaviorIs(f, k, j.cases[c], BehaviorName(k, j.cases[c], g), judgments)
    BY <2>1, BehaviorFacts
  <2>3. j.cases[c].trials # <<>>
    BY <2>1, CaseRun
  <2> QED BY <2>1, <2>2, <2>3 DEF BehaviorIs
<1>3. CASE \E a \in DOMAIN j.evaluation : IsRuleFinding(f, k, j.evaluation, a, judgments)
  <2> PICK a \in DOMAIN j.evaluation : IsRuleFinding(f, k, j.evaluation, a, judgments)
    BY <1>3
  <2>1. PICK r \in DOMAIN j.evaluation[a].rules :
            /\ a # 1
            /\ f = ReproducedSummary(k, j.evaluation[a].operator, j.evaluation[a].rules[r],
                                     judgments)
    BY DEF IsRuleFinding
  <2>2. ReproducedIs(f, k, j, j.evaluation[a].operator,
                     RuleName(k, j.evaluation[a].operator, j.evaluation[a].rules[r].rule), judgments)
    BY <2>1, ReproducedFacts
  <2> QED BY <2>1, <2>2 DEF ReproducedIs
<1>4. CASE \E a \in DOMAIN j.evaluation : IsOtherFinding(f, k, j.evaluation, a)
  <2>1. PICK a \in DOMAIN j.evaluation : OtherIs(f, k, j.evaluation[a].operator)
    BY <1>4, OtherFacts DEF IsOtherFinding
  <2> QED BY <2>1 DEF OtherIs
<1> QED
  BY <1>1, <1>2, <1>3, <1>4, LineFindings

(* The name of a finding tells which line it is of.                        *)
LEMMA LineOfName ==
    ASSUME NEW j, IsJudged(j), NEW k, NEW judgments, AreReviews(judgments),
           NEW f \in SummariesOf(k, j, judgments), f.name # <<>>
    PROVE  f.name[1].line = k
<1>1. CASE \E c \in DOMAIN j.cases : \E g \in j.cases[c].findings :
                f = BehaviorSummary(k, j.cases[c], g, judgments)
  <2>1. PICK c \in DOMAIN j.cases : \E g \in j.cases[c].findings :
                f = BehaviorSummary(k, j.cases[c], g, judgments)
    BY <1>1
  <2>2. PICK g \in j.cases[c].findings : f = BehaviorSummary(k, j.cases[c], g, judgments)
    BY <2>1
  <2>3. f.name = <<BehaviorName(k, j.cases[c], g)>>
    BY <2>2 DEF BehaviorSummary, FindingSummary
  <2> QED BY <2>3 DEF BehaviorName
<1>2. CASE \E a \in DOMAIN j.evaluation : \E r \in DOMAIN j.evaluation[a].rules :
                f = ReproducedSummary(k, j.evaluation[a].operator, j.evaluation[a].rules[r],
                                      judgments)
  <2>1. PICK a \in DOMAIN j.evaluation : \E r \in DOMAIN j.evaluation[a].rules :
                f = ReproducedSummary(k, j.evaluation[a].operator, j.evaluation[a].rules[r],
                                      judgments)
    BY <1>2
  <2>2. \E operator, rule : f.name = <<RuleName(k, operator, rule)>>
    BY <2>1 DEF ReproducedSummary, FindingSummary
  <2> QED BY <2>2 DEF RuleName
<1> QED
  BY <1>1, <1>2, LineFindingFacts

(* No two findings of a line have the same name.                           *)
LEMMA LineNamesDiffer ==
    ASSUME NEW j, IsJudged(j), NEW k, NEW judgments, AreReviews(judgments),
           NEW f \in SummariesOf(k, j, judgments), NEW h \in SummariesOf(k, j, judgments),
           f.name # <<>>, h.name = f.name
    PROVE  f = h
<1> DEFINE Behavior(x, c, g) == x = BehaviorSummary(k, j.cases[c], g, judgments)
           Rule(x, a, r) == /\ a # 1
                            /\ x = ReproducedSummary(k, j.evaluation[a].operator,
                                                     j.evaluation[a].rules[r], judgments)
           BehaviorAt(x) == \E c \in DOMAIN j.cases : \E g \in j.cases[c].findings :
                                Behavior(x, c, g)
           RuleAt(x) == \E a \in DOMAIN j.evaluation : \E r \in DOMAIN j.evaluation[a].rules :
                                Rule(x, a, r)
<1>1. (BehaviorAt(f) \/ RuleAt(f)) /\ (BehaviorAt(h) \/ RuleAt(h))
  BY LineFindingFacts
<1>2. ASSUME NEW x, NEW c \in DOMAIN j.cases, NEW g \in j.cases[c].findings, Behavior(x, c, g)
      PROVE  /\ x.name = <<BehaviorName(k, j.cases[c], g)>>
             /\ x.name[1] = BehaviorName(k, j.cases[c], g)
             /\ x.name[1].identity[1] \in DifferenceCategories
  <2>1. BehaviorIs(x, k, j.cases[c], BehaviorName(k, j.cases[c], g), judgments)
    BY <1>2, BehaviorFacts
  <2> QED BY <2>1 DEF BehaviorIs
<1>3. ASSUME NEW x, NEW a \in DOMAIN j.evaluation, NEW r \in DOMAIN j.evaluation[a].rules,
             Rule(x, a, r)
      PROVE  /\ x.name[1] = RuleName(k, j.evaluation[a].operator, j.evaluation[a].rules[r].rule)
             /\ x.name[1].identity[1] = "rule"
  <2>1. ReproducedIs(x, k, j, j.evaluation[a].operator,
                     RuleName(k, j.evaluation[a].operator, j.evaluation[a].rules[r].rule),
                     judgments)
    BY <1>3, ReproducedFacts
  <2> QED BY <2>1 DEF ReproducedIs
<1>4. CASE BehaviorAt(f) /\ BehaviorAt(h)
  <2>1. PICK c \in DOMAIN j.cases : \E g \in j.cases[c].findings : Behavior(f, c, g)
    BY <1>4
  <2>2. PICK g \in j.cases[c].findings : Behavior(f, c, g)
    BY <2>1
  <2>3. PICK d \in DOMAIN j.cases : \E g2 \in j.cases[d].findings : Behavior(h, d, g2)
    BY <1>4
  <2>4. PICK g2 \in j.cases[d].findings : Behavior(h, d, g2)
    BY <2>3
  <2>5. /\ f.name[1] = BehaviorName(k, j.cases[c], g)
        /\ h.name[1] = BehaviorName(k, j.cases[d], g2)
    BY <1>2, <2>2, <2>4
  <2>6. BehaviorName(k, j.cases[c], g) = BehaviorName(k, j.cases[d], g2)
    BY <2>5
  <2>7. c = d /\ g = g2
    <3>1. j.cases[c].operator = j.cases[d].operator
      BY <2>6 DEF BehaviorName
    <3>2. c = d
      BY <3>1 DEF IsJudged
    <3> DEFINE case == j.cases[c]
               Alike(y) == {x \in case.findings : Identity(x) = Identity(y)}
               ordinal(y) == IF Alike(y) = {y} THEN <<>> ELSE <<y>>
    <3>3. Identity(g) = Identity(g2) /\ ordinal(g) = ordinal(g2)
      BY <2>6, <3>2 DEF BehaviorName
    <3>4. Alike(g) = Alike(g2)
      BY <3>3
    <3>5. g = g2
      <4>1. CASE Alike(g) = {g}
        <5>1. g2 \in Alike(g)
          BY <3>2, <3>3
        <5> QED BY <4>1, <5>1
      <4>2. CASE Alike(g) # {g}
        <5>1. Alike(g2) # {g2}
          <6>1. SUFFICES ASSUME Alike(g2) = {g2} PROVE FALSE
            OBVIOUS
          <6>2. g \in Alike(g2)
            BY <3>2, <3>3
          <6> QED BY <3>4, <4>2, <6>1, <6>2
        <5> QED BY <3>3, <4>2, <5>1
      <4> QED BY <4>1, <4>2
    <3> QED
      BY <3>2, <3>5
  <2> QED BY <2>2, <2>4, <2>7
<1>5. CASE RuleAt(f) /\ RuleAt(h)
  <2>1. PICK a \in DOMAIN j.evaluation : \E r \in DOMAIN j.evaluation[a].rules : Rule(f, a, r)
    BY <1>5
  <2>2. PICK r \in DOMAIN j.evaluation[a].rules : Rule(f, a, r)
    BY <2>1
  <2>3. PICK b \in DOMAIN j.evaluation : \E q \in DOMAIN j.evaluation[b].rules : Rule(h, b, q)
    BY <1>5
  <2>4. PICK q \in DOMAIN j.evaluation[b].rules : Rule(h, b, q)
    BY <2>3
  <2>5. /\ f.name[1] = RuleName(k, j.evaluation[a].operator, j.evaluation[a].rules[r].rule)
        /\ h.name[1] = RuleName(k, j.evaluation[b].operator, j.evaluation[b].rules[q].rule)
    BY <1>3, <2>2, <2>4
  <2>6. /\ j.evaluation[a].operator = j.evaluation[b].operator
        /\ j.evaluation[a].rules[r].rule.id = j.evaluation[b].rules[q].rule.id
    BY <2>5 DEF RuleName
  <2>7. a = b
    BY <2>6 DEF IsJudged
  <2>8. r = q
    BY <2>6, <2>7 DEF IsJudged, ArmIsEvaluated
  <2> QED BY <2>2, <2>4, <2>7, <2>8
<1>6. ~(BehaviorAt(f) /\ RuleAt(h)) /\ ~(RuleAt(f) /\ BehaviorAt(h))
  <2>1. \A x : BehaviorAt(x) => x.name[1].identity[1] \in DifferenceCategories
    BY <1>2
  <2>2. \A x : RuleAt(x) => x.name[1].identity[1] = "rule"
    BY <1>3
  <2>3. "rule" \notin DifferenceCategories
    BY DEF DifferenceCategories
  <2> QED BY <2>1, <2>2, <2>3
<1> QED
  BY <1>1, <1>4, <1>5, <1>6

-----------------------------------------------------------------------------
(* The findings of the evidence.                                           *)

\* evidence whose every line is judged or stands for an unprepared source
JudgedLines(lines) ==
    /\ IsSequence(lines)
    /\ \A k \in DOMAIN lines : lines[k] # <<>> => IsJudged(lines[k][1])

(* The findings of all lines: each fits its contract, a named one is of a  *)
(* case that was run, and no two share a name.                             *)
LEMMA FindingFacts ==
    ASSUME NEW lines, JudgedLines(lines), NEW judgments, AreReviews(judgments)
    PROVE  LET findings == Summaries(lines, judgments)
           IN /\ IsFiniteSet(findings)
              /\ \A f \in findings :
                    /\ FindingSummaryAccepted(f)
                    /\ f.name # <<>> => NameIsGiven(f)
              /\ \A f \in Named(findings) : \E k \in Prepared(lines) :
                    \E c \in DOMAIN lines[k][1].cases :
                        /\ lines[k][1].cases[c].trials # <<>>
                        /\ f.at = <<k, lines[k][1].cases[c].operator>>
              /\ \A f, h \in Named(findings) : f.name = h.name => f = h
<1> DEFINE findings == Summaries(lines, judgments)
           g == [k \in Prepared(lines) |-> SummariesOf(k, lines[k][1], judgments)]
<1>1. \A k \in Prepared(lines) : IsJudged(lines[k][1])
  BY DEF JudgedLines, Prepared
<1>2. IsFiniteSet(findings)
  <2>1. IsFiniteSet(Prepared(lines))
    <3>1. IsFiniteSet(DOMAIN lines)
      BY RangeIsFinite DEF JudgedLines
    <3> QED BY <3>1, PartIsFinite DEF Prepared
  <2>2. IsFiniteSet({g[k] : k \in Prepared(lines)})
    BY <2>1, ImageIsFinite
  <2>3. \A T \in {g[k] : k \in Prepared(lines)} : IsFiniteSet(T)
    BY <1>1, LineFindingsAreFinite
  <2>4. findings = UNION {g[k] : k \in Prepared(lines)}
    BY DEF Summaries
  <2> HIDE DEF g
  <2> QED BY <2>2, <2>3, <2>4, FS_UNION
<1>3. \A f \in findings : \E k \in Prepared(lines) : f \in SummariesOf(k, lines[k][1], judgments)
  BY DEF Summaries
<1>4. ASSUME NEW f \in findings
      PROVE  /\ FindingSummaryAccepted(f)
             /\ f.name # <<>> =>
                /\ NameIsGiven(f)
                /\ \E k \in Prepared(lines) : \E c \in DOMAIN lines[k][1].cases :
                        /\ lines[k][1].cases[c].trials # <<>>
                        /\ f.at = <<k, lines[k][1].cases[c].operator>>
  <2>1. PICK k \in Prepared(lines) : f \in SummariesOf(k, lines[k][1], judgments)
    BY <1>3
  <2>2. PICK j : j = lines[k][1]
    OBVIOUS
  <2>3. /\ FindingSummaryAccepted(f)
        /\ f.name # <<>> =>
            /\ NameIsGiven(f)
            /\ \E c \in DOMAIN j.cases : /\ j.cases[c].trials # <<>>
                                         /\ f.at = <<k, j.cases[c].operator>>
    BY <1>1, <2>1, <2>2, LineFindingFacts
  <2> QED BY <2>2, <2>3
<1>5. ASSUME NEW f \in Named(findings), NEW h \in Named(findings), f.name = h.name
      PROVE  f = h
  <2>1. PICK k \in Prepared(lines) : f \in SummariesOf(k, lines[k][1], judgments)
    BY <1>3 DEF Named
  <2>2. PICK l \in Prepared(lines) : h \in SummariesOf(l, lines[l][1], judgments)
    BY <1>3 DEF Named
  <2>3. f.name[1].line = k
    BY <1>1, <2>1, LineOfName DEF Named
  <2>4. h.name[1].line = l
    BY <1>1, <2>2, LineOfName DEF Named
  <2>5. k = l
    BY <1>5, <2>3, <2>4
  <2> QED BY <1>1, <1>5, <2>1, <2>2, <2>5, LineNamesDiffer DEF Named
<1> QED
  BY <1>2, <1>4, <1>5 DEF Named

-----------------------------------------------------------------------------
(* Patterns.                                                               *)

\* all that the patterns need to know of the findings
AreFindings(findings) ==
    /\ IsFiniteSet(findings)
    /\ \A f \in findings : /\ FindingSummaryAccepted(f)
                           /\ f.name # <<>> => NameIsGiven(f)
    /\ \A f, h \in Named(findings) : f.name = h.name => f = h

\* the findings that a pattern names
NamedBy(pattern, findings) ==
    {f \in Named(findings) : f.name[1] \in {m.name : m \in pattern.members}}

(* The members of a pattern share everything they are grouped by; so all   *)
(* of them have one status, and each is counted and named once.            *)
LEMMA PatternFacts ==
    ASSUME NEW findings, AreFindings(findings), NEW M, M \subseteq Named(findings), M # {},
           \A f, h \in M : GroupingKey(f) = GroupingKey(h)
    PROVE  LET p == PatternOf(M)
           IN /\ PatternAccepted(p) /\ NamedBy(p, findings) = M
              /\ p.count = Cardinality(M) /\ p.severity = Gravest(M)
              /\ \A f \in M :
                    /\ Facets(f) = p.facets
                    /\ [name |-> f.name[1], status |-> f.status, severity |-> f.severity]
                            \in p.members
<1> DEFINE first == CHOOSE f \in M : TRUE
           record(f) == [name |-> f.name[1], status |-> f.status, severity |-> f.severity]
           records == [f \in M |-> record(f)]
           names == [f \in M |-> f.name[1]]
           lines == [f \in M |-> f.at[1]]
           members == {record(f) : f \in M}
           category == first.category
           status == first.status
           p == PatternOf(M)
<1>1. first \in M
  OBVIOUS
<1>2. \A f \in M : Facets(f) = Facets(first) /\ f.status = status
  <2>1. \A f \in M : GroupingKey(f) = GroupingKey(first)
    BY <1>1
  <2> HIDE DEF first
  <2> QED BY <2>1 DEF GroupingKey
<1>3. \A f \in M : NameIsGiven(f) /\ FindingSummaryAccepted(f)
  BY DEF AreFindings, Named
<1>4. \A f, h \in M : f.name[1] = h.name[1] => f = h
  <2>1. \A f, h \in M : f.name = h.name => f = h
    BY DEF AreFindings
  <2>2. \A f \in M : f.name = <<f.name[1]>>
    BY <1>3 DEF NameIsGiven
  <2> QED BY <2>1, <2>2
<1>5. IsFiniteSet(M) /\ Cardinality(M) \in Nat /\ Cardinality(M) > 0
  <2>1. IsFiniteSet(M)
    BY PartIsFinite DEF AreFindings, Named
  <2> QED BY <2>1, PartIsFinite
<1>6. status \in ReviewStatuses
  BY <1>1, <1>3 DEF NameIsGiven
<1>7. /\ p.facets = Facets(first) /\ p.severity = Gravest(M)
      /\ p.level = EvidenceLevel(category, first.authorities)
      /\ p.count = Cardinality(M) /\ p.sources = Cardinality({f.at[1] : f \in M})
      /\ p.counts = Counts(M) /\ p.members = members
  BY DEF PatternOf
<1> HIDE DEF p, first, status
<1>8. /\ {m.name : m \in p.members} = {f.name[1] : f \in M}
      /\ Cardinality({m.name : m \in p.members}) = Cardinality(M)
  <2>1. \A m \in p.members : \E f \in M : m.name = f.name[1]
    BY <1>7
  <2>2. \A f \in M : \E m \in p.members : m.name = f.name[1]
    <3> SUFFICES ASSUME NEW f \in M PROVE \E m \in p.members : m.name = f.name[1]
      OBVIOUS
    <3>1. record(f) \in p.members /\ record(f).name = f.name[1]
      BY <1>7
    <3> HIDE DEF record
    <3> QED BY <3>1
  <2> DEFINE T == {m.name : m \in p.members}
  <2>3. T = {f.name[1] : f \in M}
    BY <2>1, <2>2
  <2>4. T = {names[f] : f \in M} /\ DOMAIN names = M
    BY <2>3
  <2>5. \A f, h \in M : names[f] = names[h] => f = h
    BY <1>4
  <2> HIDE DEF names, T
  <2>6. Cardinality(T) = Cardinality(M)
    BY <1>5, <2>4, <2>5, ImageIsFinite
  <2> QED BY <2>3, <2>6 DEF T
<1>9. p.sources <= p.count
  <2> DEFINE T == {f.at[1] : f \in M}
  <2>1. T = {lines[f] : f \in M} /\ DOMAIN lines = M /\ p.sources = Cardinality(T)
    BY <1>7
  <2> HIDE DEF lines, T
  <2> QED BY <1>5, <1>7, <2>1, ImageIsFinite
<1>10. Cardinality(members) = Cardinality(M)
  <2>1. members = {records[f] : f \in M} /\ DOMAIN records = M
    OBVIOUS
  <2>2. \A f, h \in M : records[f] = records[h] => f = h
    BY <1>4
  <2> HIDE DEF members, records
  <2> QED BY <1>5, <2>1, <2>2, ImageIsFinite
<1>11. \A s \in ReviewStatuses :
          /\ CountOf(M, s) = IF s = status THEN Cardinality(M) ELSE 0
          /\ Cardinality({m \in p.members : m.status = s})
                = IF s = status THEN Cardinality(M) ELSE 0
  <2> TAKE s \in ReviewStatuses
  <2>1. \A m \in p.members : m.status = status
    BY <1>2, <1>7
  <2>2. CASE s = status
    <3>1. {f \in M : f.status = s} = M /\ {m \in p.members : m.status = s} = p.members
      BY <1>2, <2>1, <2>2
    <3> QED BY <1>7, <1>10, <2>2, <3>1 DEF CountOf
  <2>3. CASE s # status
    <3>1. {f \in M : f.status = s} = {} /\ {m \in p.members : m.status = s} = {}
      BY <1>2, <2>1, <2>3
    <3> QED BY <2>3, <3>1, FS_EmptySet DEF CountOf
  <2> QED BY <2>2, <2>3
<1>12. \A s \in ReviewStatuses :
          /\ p.counts[s] = IF s = status THEN Cardinality(M) ELSE 0
          /\ p.counts[s] = Cardinality({m \in p.members : m.status = s})
  BY <1>7, <1>11 DEF Counts
<1>13. p.counts["needs_review"] + p.counts["confirmed"] + p.counts["expected"]
          + p.counts["unsupported"] + p.counts["inconclusive"] = p.count
  <2>1. \A s \in ReviewStatuses : p.counts[s] = IF s = status THEN Cardinality(M) ELSE 0
    BY <1>12
  <2> HIDE DEF members
  <2> QED BY <1>5, <1>6, <1>7, <2>1 DEF ReviewStatuses
<1>14. /\ p.facets.category = category /\ p.facets.authorities = first.authorities
       /\ \/ category \in DifferenceCategories /\ first.authorities = ModelDerived
          \/ category = "customer_invariant_violation" /\ first.authorities = Deterministic
  BY <1>1, <1>3, <1>7 DEF Facets, NameIsGiven
<1>15. /\ p.facets.authorities # {}
       /\ p.level[1] = CASE category = "customer_invariant_violation" -> "rule"
                         [] category = "changed_response" -> "outcome"
                         [] OTHER -> "action"
       /\ (p.level[2] = "model_derived") = (ModelDerived \subseteq p.facets.authorities)
  BY <1>7, <1>14 DEF EvidenceLevel, ModelDerived, Deterministic, DifferenceCategories
<1>16. \A m \in p.members : m.status # "confirmed" => m.severity = "unrated"
  <2>1. \A f \in M : f.status # "confirmed" => f.severity = "unrated"
    BY <1>3 DEF NameIsGiven, FindingSummaryAccepted, ReviewStatuses
  <2> QED BY <1>7, <2>1
<1>17. PatternAccepted(p)
  BY <1>7, <1>8, <1>9, <1>12, <1>13, <1>14, <1>15, <1>16 DEF PatternAccepted
<1>18. NamedBy(p, findings) = M
  <2>1. {m.name : m \in p.members} = {f.name[1] : f \in M}
    BY <1>8
  <2>2. \A f \in Named(findings) : f.name[1] \in {h.name[1] : h \in M} => f \in M
    <3> TAKE f \in Named(findings)
    <3> SUFFICES ASSUME NEW h \in M, f.name[1] = h.name[1] PROVE f \in M
      OBVIOUS
    <3>1. f.name = <<f.name[1]>> /\ h.name = <<h.name[1]>>
      BY <1>3 DEF AreFindings, Named, NameIsGiven
    <3> QED BY <3>1 DEF AreFindings
  <2> QED BY <2>1, <2>2 DEF NamedBy
<1>19. \A f \in M : Facets(f) = p.facets /\ record(f) \in p.members
  BY <1>2, <1>7
<1> QED
  BY <1>7, <1>17, <1>18, <1>19 DEF p

(* The findings of judged lines are such.                                  *)
LEMMA FindingsAreFindings ==
    ASSUME NEW lines, JudgedLines(lines), NEW judgments, AreReviews(judgments)
    PROVE  AreFindings(Summaries(lines, judgments))
BY FindingFacts DEF AreFindings

(* What `ul report` writes, its contract accepts.                          *)
LEMMA ReportsAreAccepted ==
    ASSUME NEW lines, JudgedLines(lines), NEW judgments, AreReviews(judgments)
    PROVE  ReportAccepted(ReportOn(lines, judgments))
<1> DEFINE findings == Summaries(lines, judgments)
           report == ReportOn(lines, judgments)
           grouped == {f \in Named(findings) : f.mechanism # <<>>}
           Group(like) == {f \in grouped : GroupingKey(f) = like}
           keys == {GroupingKey(f) : f \in grouped}
<1>1. AreFindings(findings)
  BY FindingsAreFindings
<1>2. /\ report.findings = findings /\ report.patterns = Patterns(findings)
      /\ report.counts = Counts(findings)
      /\ report.exit = "1" => Actionables(findings) # {}
      /\ report.exit = "0" => /\ Actionables(findings) = {}
                              /\ ~(CountOf(findings, "inconclusive") > 0)
  BY DEF ReportOn, ReportOf
<1> HIDE DEF findings, report
<1>3. Patterns(findings) = {PatternOf(Group(like)) : like \in keys}
  BY DEF Patterns
<1>4. ASSUME NEW like \in keys
      PROVE  LET p == PatternOf(Group(like))
             IN /\ PatternAccepted(p) /\ NamedBy(p, findings) = Group(like)
                /\ p.count = Cardinality(Group(like)) /\ p.severity = Gravest(Group(like))
                /\ \A f \in Group(like) :
                    /\ Facets(f) = p.facets
                    /\ [name |-> f.name[1], status |-> f.status, severity |-> f.severity]
                            \in p.members
  <2>1. Group(like) \subseteq Named(findings) /\ Group(like) # {}
    BY <1>4
  <2>2. \A f, h \in Group(like) : GroupingKey(f) = GroupingKey(h)
    OBVIOUS
  <2> HIDE DEF Group
  <2> QED BY <1>1, <2>1, <2>2, PatternFacts
<1> HIDE DEF Group, keys
<1>5. ASSUME NEW p \in Patterns(findings)
      PROVE  /\ PatternAccepted(p)
             /\ Cardinality(NamedBy(p, findings)) = p.count
             /\ \A f \in NamedBy(p, findings) :
                    /\ Facets(f) = p.facets
                    /\ [name |-> f.name[1], status |-> f.status, severity |-> f.severity]
                            \in p.members
             /\ p.severity = Gravest(NamedBy(p, findings))
  <2>1. PICK like \in keys : p = PatternOf(Group(like))
    BY <1>3, <1>5
  <2> QED BY <1>4, <2>1
<1>6. ASSUME NEW p \in Patterns(findings), NEW q \in Patterns(findings), p # q
      PROVE  NamedBy(p, findings) \cap NamedBy(q, findings) = {}
  <2>1. PICK like \in keys : p = PatternOf(Group(like))
    BY <1>3
  <2>2. PICK other \in keys : q = PatternOf(Group(other))
    BY <1>3
  <2>3. like # other
    BY <1>6, <2>1, <2>2
  <2>4. NamedBy(p, findings) = Group(like) /\ NamedBy(q, findings) = Group(other)
    BY <1>4, <2>1, <2>2
  <2>5. Group(like) \cap Group(other) = {}
    BY <2>3 DEF Group
  <2> QED BY <2>4, <2>5
<1>7. report.exit = "0" => report.counts["inconclusive"] = 0
  <2>1. CountOf(findings, "inconclusive") \in Nat
    <3>1. {f \in findings : f.status = "inconclusive"} \subseteq findings
      OBVIOUS
    <3> QED BY <1>1, <3>1, PartIsFinite DEF AreFindings, CountOf
  <2>2. report.counts["inconclusive"] = CountOf(findings, "inconclusive")
    BY <1>2 DEF Counts, ReviewStatuses
  <2> QED BY <1>2, <2>1, <2>2
<1>8. /\ \A f \in findings : FindingSummaryAccepted(f)
      /\ \A f, h \in Named(findings) : f.name = h.name => f = h
  BY <1>1 DEF AreFindings
<1>9. /\ \A f, h \in Named(report.findings) : f.name = h.name => f = h
      /\ \A f \in report.findings : FindingSummaryAccepted(f)
      /\ \A p \in report.patterns :
            /\ PatternAccepted(p)
            /\ Cardinality(NamedBy(p, report.findings)) = p.count
            /\ \A f \in NamedBy(p, report.findings) :
                    /\ Facets(f) = p.facets
                    /\ [name |-> f.name[1], status |-> f.status, severity |-> f.severity]
                            \in p.members
            /\ p.severity = Gravest(NamedBy(p, report.findings))
      /\ \A p, q \in report.patterns :
            p # q => NamedBy(p, report.findings) \cap NamedBy(q, report.findings) = {}
      /\ report.counts = Counts(report.findings)
      /\ report.exit = "0" =>
            Actionables(report.findings) = {} /\ report.counts["inconclusive"] = 0
      /\ report.exit = "1" => Actionables(report.findings) # {}
  BY <1>2, <1>5, <1>6, <1>7, <1>8
<1>10. ReportAccepted(report)
  BY <1>9 DEF ReportAccepted, NamedBy
<1> QED
  BY <1>10 DEF report

-----------------------------------------------------------------------------
(* What the headline and the exit codes are about.                         *)

(* The cases of the evidence, with the lines they are of.                  *)
LEMMA CasesAre ==
    ASSUME NEW lines, NEW at
    PROVE  at \in CasesOf(lines)
              <=> \E k \in Prepared(lines) : \E c \in DOMAIN lines[k][1].cases :
                      at = <<k, lines[k][1].cases[c]>>
BY DEF CasesOf, Elements

(* A case was run and has a verdict of its own, or its variation was       *)
(* rejected; what it is called follows from what was found of it.          *)
CaseIs(j, case) ==
    /\ case.operator # Baseline
    /\ (Bucket(case) = "not_evaluated") = (case.trials = <<>>)
    /\ Bucket(case) = "consequential" => case.findings # {}
    /\ Bucket(case) = "unclassified" => case.findings # {}
    /\ Bucket(case) = "inconclusive" /\ case.findings = {} => case.verdict = "inconclusive"
    /\ Bucket(case) = "unstable" => case.stability = "unstable"
    /\ case.findings # {} => case.trials # <<>>
    /\ case.verdict = "inconclusive" => case.trials # <<>>
    /\ case.verdict = "inconclusive" /\ case.findings = {} =>
            Bucket(case) = IF case.stability = "unstable" THEN "unstable" ELSE "inconclusive"
    /\ case.stability = "unstable" /\ case.findings = {} => Bucket(case) = "unstable"
    /\ j.stability # "stable" /\ case.trials # <<>> => case.verdict = "inconclusive"
    /\ case.verdict = "divergence_needs_review" => case.trials # <<>>
    /\ case.trials # <<>> /\ case.verdict # "inconclusive" => CompletedComparison(case)

(* So is every case of a judged source.                                    *)
LEMMA CaseFacts ==
    ASSUME NEW j, IsJudged(j), NEW c \in DOMAIN j.cases
    PROVE  CaseIs(j, j.cases[c])
<1> DEFINE case == j.cases[c]
<1>1. CaseIsJudged(j, case)
  BY DEF IsJudged
<1>2. CASE WasRejected(case)
  <2>1. /\ case.verdict = "augmentation_rejected" /\ case.stability = "none"
        /\ case.trials = <<>> /\ case.findings = {} /\ case.operator # Baseline
    BY <1>1, <1>2 DEF CaseIsJudged, WasRejected
  <2>2. Bucket(case) = "not_evaluated"
    BY <2>1 DEF Bucket
  <2> QED BY <2>1, <2>2 DEF CaseIs
<1>3. CASE WasRun(j, case)
  <2>1. case.trials # <<>> /\ 1 \in DOMAIN case.trials
    <3>1. Len(case.trials) \in Nat /\ Len(case.trials) > 0
          /\ DOMAIN case.trials = 1 .. Len(case.trials)
      BY <1>3 DEF WasRun, IsSequence
    <3> QED BY <3>1
  <2>2. case.verdict \in {"inconclusive", "divergence_needs_review", "no_divergence"}
    BY <1>3 DEF WasRun, VerdictOf
  <2>3. case.materiality \in Materialities /\ (case.findings = {} => case.materiality = "none")
    BY <1>1 DEF CaseIsJudged
  <2>4. /\ case.materiality = "material_variance" => Bucket(case) = "consequential"
        /\ case.materiality = "operationally_equivalent" => Bucket(case) = "equivalent"
        /\ case.materiality = "insufficient_evidence" => Bucket(case) = "inconclusive"
        /\ case.materiality = "none" =>
              Bucket(case) = IF case.stability = "unstable" THEN "unstable"
                             ELSE IF case.verdict = "inconclusive" THEN "inconclusive"
                             ELSE IF case.findings # {} THEN "unclassified" ELSE "no_difference"
    <3>1. case.materiality = "material_variance" => Bucket(case) = "consequential"
      BY <2>1, <2>2 DEF Bucket
    <3>2. case.materiality = "operationally_equivalent" => Bucket(case) = "equivalent"
      BY <2>1, <2>2 DEF Bucket
    <3>3. case.materiality = "insufficient_evidence" => Bucket(case) = "inconclusive"
      BY <2>1, <2>2 DEF Bucket
    <3>4. case.materiality = "none" =>
              Bucket(case) = IF case.stability = "unstable" THEN "unstable"
                             ELSE IF case.verdict = "inconclusive" THEN "inconclusive"
                             ELSE IF case.findings # {} THEN "unclassified" ELSE "no_difference"
      BY <2>1, <2>2 DEF Bucket
    <3> QED BY <3>1, <3>2, <3>3, <3>4
  <2>5. case.findings # {} => case.stability = "stable" /\ case.verdict # "inconclusive"
    BY <1>3 DEF WasRun, VerdictOf
  <2>6. j.stability # "stable" => case.verdict = "inconclusive"
    BY <1>3 DEF WasRun, VerdictOf
  <2>7. case.verdict # "inconclusive" => case.stability # "inconclusive"
    BY <1>3 DEF WasRun, VerdictOf
  <2>8. case.verdict # "inconclusive" => CompletedComparison(case)
    BY <1>3, <2>1, <2>7 DEF WasRun, CompletedComparison
  <2>9. case.operator # Baseline
    BY <1>1 DEF CaseIsJudged
  <2> QED BY <2>1, <2>2, <2>3, <2>4, <2>5, <2>6, <2>8, <2>9 DEF CaseIs, Materialities
<1> QED
  BY <1>1, <1>2, <1>3 DEF CaseIsJudged

(* Every case that differs, or is unstable, is among the findings, and     *)
(* every finding that has a name, or demands action, is of a case or of a  *)
(* baseline.                                                               *)
CasesAreReported(lines, findings) ==
    /\ \A at \in CasesOf(lines) :
        /\ \E k \in Prepared(lines) :
              at[1] = k /\ CaseIs(lines[k][1], at[2])
        /\ at[2].findings # {} => Represented(findings, at)
        /\ at[2].findings = {} /\ at[2].stability = "unstable" =>
              \E f \in findings : f.name = <<>> /\ f.status = "unreviewed"
    /\ \A f \in Named(findings) :
        /\ f.status \in ReviewStatuses
        /\ \E at \in CasesOf(lines) : f.at = <<at[1], at[2].operator>>
    /\ \A f \in findings : f.name = <<>> =>
        /\ f.status \in {"unreviewed", "inconclusive"}
        /\ f.status = "unreviewed" =>
              \/ f.at[2] = Baseline
              \/ \E at \in CasesOf(lines) : /\ f.at = <<at[1], at[2].operator>>
                                            /\ Bucket(at[2]) = "unstable"

(* So are the findings of judged lines, whatever was reviewed.             *)
LEMMA CasesReported ==
    ASSUME NEW lines, JudgedLines(lines), NEW judgments, AreReviews(judgments)
    PROVE  CasesAreReported(lines, Summaries(lines, judgments))
<1> DEFINE findings == Summaries(lines, judgments)
<1>1. \A k \in Prepared(lines) : IsJudged(lines[k][1])
  BY DEF JudgedLines, Prepared
<1>2. \A f : f \in findings
                <=> \E k \in Prepared(lines) : f \in SummariesOf(k, lines[k][1], judgments)
  BY DEF Summaries
<1> HIDE DEF findings
<1>3. ASSUME NEW at \in CasesOf(lines)
      PROVE  /\ \E k \in Prepared(lines) : at[1] = k /\ CaseIs(lines[k][1], at[2])
             /\ at[2].findings # {} => Represented(findings, at)
             /\ at[2].findings = {} /\ at[2].stability = "unstable" =>
                    \E f \in findings : f.name = <<>> /\ f.status = "unreviewed"
  <2>1. PICK k \in Prepared(lines) : \E c \in DOMAIN lines[k][1].cases :
                at = <<k, lines[k][1].cases[c]>>
    BY CasesAre
  <2>2. PICK j : j = lines[k][1] /\ IsJudged(j)
    BY <1>1
  <2>3. PICK c \in DOMAIN j.cases : at = <<k, j.cases[c]>>
    BY <2>1, <2>2
  <2>4. CaseIs(j, j.cases[c])
    BY <2>2, CaseFacts
  <2>5. ASSUME j.cases[c].findings # {} PROVE Represented(findings, at)
    <3>1. PICK g \in j.cases[c].findings : TRUE
      BY <2>5
    <3>2. PICK f : f = BehaviorSummary(k, j.cases[c], g, judgments)
      OBVIOUS
    <3>3. BehaviorIs(f, k, j.cases[c], BehaviorName(k, j.cases[c], g), judgments)
      BY <2>2, <3>2, BehaviorFacts
    <3>4. f \in SummariesOf(k, j, judgments)
      BY <3>2, LineFindings DEF IsBehaviorFinding
    <3>5. f \in findings /\ f.name # <<>> /\ f.at = <<at[1], at[2].operator>>
      BY <1>2, <2>2, <2>3, <3>3, <3>4 DEF BehaviorIs
    <3> QED BY <3>5 DEF Represented, StatusesAt, Named
  <2>6. ASSUME j.cases[c].findings = {}, j.cases[c].stability = "unstable"
        PROVE  \E f \in findings : f.name = <<>> /\ f.status = "unreviewed"
    <3>1. PICK f : f = UnstableSummary(k, j.cases[c])
      OBVIOUS
    <3>2. UnstableIs(f, k, j.cases[c])
      BY <2>2, <2>6, <3>1, UnstableFacts
    <3>3. f \in SummariesOf(k, j, judgments)
      BY <2>6, <3>1, LineFindings DEF IsUnstableFinding
    <3> QED BY <1>2, <2>2, <3>2, <3>3 DEF UnstableIs
  <2> QED BY <2>2, <2>3, <2>4, <2>5, <2>6
<1>4. ASSUME NEW f \in Named(findings)
      PROVE  /\ f.status \in ReviewStatuses
             /\ \E at \in CasesOf(lines) : f.at = <<at[1], at[2].operator>>
  <2>1. f.status \in ReviewStatuses
    BY FindingFacts DEF findings, Named, NameIsGiven
  <2>2. PICK k \in Prepared(lines) : \E c \in DOMAIN lines[k][1].cases :
                f.at = <<k, lines[k][1].cases[c].operator>>
    BY FindingFacts DEF findings
  <2>3. PICK c \in DOMAIN lines[k][1].cases : f.at = <<k, lines[k][1].cases[c].operator>>
    BY <2>2
  <2>4. PICK at : at = <<k, lines[k][1].cases[c]>>
    OBVIOUS
  <2>5. at \in CasesOf(lines)
    BY <2>4, CasesAre
  <2>6. f.at = <<at[1], at[2].operator>>
    BY <2>3, <2>4
  <2> QED BY <2>1, <2>5, <2>6
<1>5. ASSUME NEW f \in findings, f.name = <<>>
      PROVE  /\ f.status \in {"unreviewed", "inconclusive"}
             /\ f.status = "unreviewed" =>
                    \/ f.at[2] = Baseline
                    \/ \E at \in CasesOf(lines) : /\ f.at = <<at[1], at[2].operator>>
                                                  /\ Bucket(at[2]) = "unstable"
  <2>1. PICK k \in Prepared(lines) : f \in SummariesOf(k, lines[k][1], judgments)
    BY <1>2
  <2>2. PICK j : j = lines[k][1] /\ IsJudged(j)
    BY <1>1
  <2>3. CASE \E c \in DOMAIN j.cases : IsUnstableFinding(f, k, j.cases[c])
    <3>1. PICK c \in DOMAIN j.cases : IsUnstableFinding(f, k, j.cases[c])
      BY <2>3
    <3>2. UnstableIs(f, k, j.cases[c])
      BY <2>2, <3>1, UnstableFacts DEF IsUnstableFinding
    <3>3. PICK at : at = <<k, j.cases[c]>>
      OBVIOUS
    <3>4. at \in CasesOf(lines)
      BY <2>2, <3>3, CasesAre
    <3> QED BY <3>2, <3>3, <3>4 DEF UnstableIs
  <2>4. CASE \E c \in DOMAIN j.cases : IsBehaviorFinding(f, k, j.cases[c], judgments)
    <3>1. PICK c \in DOMAIN j.cases : IsBehaviorFinding(f, k, j.cases[c], judgments)
      BY <2>4
    <3>2. PICK g \in j.cases[c].findings : f = BehaviorSummary(k, j.cases[c], g, judgments)
      BY <3>1 DEF IsBehaviorFinding
    <3>3. BehaviorIs(f, k, j.cases[c], BehaviorName(k, j.cases[c], g), judgments)
      BY <2>2, <3>2, BehaviorFacts
    <3>4. f.name = <<BehaviorName(k, j.cases[c], g)>>
      BY <3>3 DEF BehaviorIs
    <3>5. f.name # <<>>
      BY <3>4
    <3> QED BY <1>5, <3>5
  <2>5. CASE \E a \in DOMAIN j.evaluation : IsRuleFinding(f, k, j.evaluation, a, judgments)
    <3>1. PICK a \in DOMAIN j.evaluation : IsRuleFinding(f, k, j.evaluation, a, judgments)
      BY <2>5
    <3>2. PICK r \in DOMAIN j.evaluation[a].rules :
              /\ a # 1
              /\ f = ReproducedSummary(k, j.evaluation[a].operator, j.evaluation[a].rules[r],
                                       judgments)
      BY <3>1 DEF IsRuleFinding
    <3>3. ReproducedIs(f, k, j, j.evaluation[a].operator,
              RuleName(k, j.evaluation[a].operator, j.evaluation[a].rules[r].rule), judgments)
      BY <2>2, <3>2, ReproducedFacts
    <3>4. \E name : f.name = <<name>>
      BY <3>3 DEF ReproducedIs
    <3>5. f.name # <<>>
      BY <3>4
    <3> QED BY <1>5, <3>5
  <2>6. CASE \E a \in DOMAIN j.evaluation : IsOtherFinding(f, k, j.evaluation, a)
    <3>1. PICK a \in DOMAIN j.evaluation : IsOtherFinding(f, k, j.evaluation, a)
      BY <2>6
    <3>2. PICK r \in DOMAIN j.evaluation[a].rules :
              f = OtherViolation(k, j.evaluation[a].operator, j.evaluation[a].rules[r])
      BY <3>1 DEF IsOtherFinding
    <3>3. OtherIs(f, k, j.evaluation[a].operator)
      BY <2>2, <3>2, OtherFacts
    <3> QED BY <3>3 DEF OtherIs
  <2> QED BY <2>1, <2>2, <2>3, <2>4, <2>5, <2>6, LineFindings
<1> QED
  BY <1>3, <1>4, <1>5 DEF CasesAreReported, findings

(* With what is known of its cases and findings, the report on any         *)
(* evidence agrees with the headline on it.                                *)
LEMMA HeadlineAgrees ==
    ASSUME JudgedLines(evidence), evidence # <<>>, AreReviews(reviews)
    PROVE  ReportsAgree(ReportOn(evidence, reviews))
<1> DEFINE findings == Summaries(evidence, reviews)
           report == ReportOn(evidence, reviews)
           cases == CasesOf(evidence)
           headline == Headline(evidence, findings)
           demanded == Sections(evidence, findings) \cap ActionSections
           acting == \E at \in cases : ConsequentialCase(findings, at)
           open == \/ Prepared(evidence) # DOMAIN evidence
                   \/ \E at \in cases : UnresolvedCase(findings, at)
                   \/ cases # {} /\ \A at \in cases : Bucket(at[2]) = "not_evaluated"
           unresolved == \/ Prepared(evidence) # DOMAIN evidence
                         \/ \E f \in findings : f.status = "inconclusive"
                         \/ \E k \in Prepared(evidence) :
                                "not_evaluable" \in RuleStatuses(evidence[k][1])
                         \/ InconclusiveEvidence(evidence)
<1>1. CasesAreReported(evidence, findings)
  BY CasesReported
<1>2. /\ report.findings = findings
      /\ report.exit = IF Actionables(findings) # {} THEN "1"
                       ELSE IF unresolved THEN "2" ELSE "0"
  <2>1. (CountOf(findings, "inconclusive") > 0) = (\E f \in findings : f.status = "inconclusive")
    <3> DEFINE T == {f \in findings : f.status = "inconclusive"}
    <3>1. IsFiniteSet(findings)
      BY FindingFacts
    <3> HIDE DEF findings
    <3>2. T \subseteq findings /\ CountOf(findings, "inconclusive") = Cardinality(T)
          /\ (T # {}) = (\E f \in findings : f.status = "inconclusive")
      BY DEF CountOf
    <3> HIDE DEF T
    <3> QED BY <3>1, <3>2, PartIsFinite
  <2> QED BY <2>1 DEF ReportOn, ReportOf
<1>3. headline = IF acting THEN "action_required" ELSE IF open THEN "inconclusive" ELSE "clear"
  BY DEF Headline
<1>4. ReportAccepted(report)
  BY ReportsAreAccepted
<1> HIDE DEF findings, report, headline
<1>5. \A f \in Named(findings) : \E at \in cases : f.status \in StatusesAt(findings, at)
  BY <1>1 DEF CasesAreReported, StatusesAt
<1>6. \A at \in cases : \A s \in StatusesAt(findings, at) :
          s \in ReviewStatuses /\ \E f \in findings : f.name # <<>> /\ f.status = s
  BY <1>1 DEF CasesAreReported, StatusesAt, Named
<1>7. \A at \in cases : StatusesAt(findings, at) = {} => at[2].findings = {}
  BY <1>1 DEF CasesAreReported, Represented
<1>8. \A at \in cases : \E j : CaseIs(j, at[2])
  BY <1>1 DEF CasesAreReported
<1>9. ASSUME NEW at \in cases, Bucket(at[2]) = "unstable", StatusesAt(findings, at) = {}
      PROVE  Actionables(findings) # {}
  <2>1. at[2].findings = {} /\ at[2].stability = "unstable"
    BY <1>7, <1>8, <1>9 DEF CaseIs
  <2> QED BY <1>1, <2>1 DEF CasesAreReported, Actionables, Actions
<1>10. acting => report.exit = "1"
  <2> SUFFICES ASSUME NEW at \in cases, ConsequentialCase(findings, at)
               PROVE  Actionables(findings) # {}
    BY <1>2
  <2>1. CASE StatusesAt(findings, at) = {}
    <3>1. Bucket(at[2]) \in {"consequential", "unstable"}
      BY <2>1 DEF ConsequentialCase
    <3>2. Bucket(at[2]) # "consequential"
      BY <1>7, <1>8, <2>1 DEF CaseIs
    <3> QED BY <1>9, <2>1, <3>1, <3>2
  <2>2. CASE StatusesAt(findings, at) # {}
    <3>1. PICK s \in StatusesAt(findings, at) : s \in {"confirmed", "needs_review"}
      BY <2>2 DEF ConsequentialCase
    <3> QED BY <1>6, <3>1 DEF Actionables, Actions
  <2> QED BY <2>1, <2>2
<1>11. headline = "inconclusive" => report.exit # "0"
  <2> SUFFICES ASSUME open PROVE unresolved
    BY <1>2, <1>3
  <2>1. CASE \E at \in cases : UnresolvedCase(findings, at)
    <3>1. PICK at \in cases : UnresolvedCase(findings, at)
      BY <2>1
    <3>2. CASE StatusesAt(findings, at) = {}
      <4>1. at[2].findings = {} /\ Bucket(at[2]) \in {"inconclusive", "unclassified"}
        BY <1>7, <3>1, <3>2 DEF UnresolvedCase
      <4>2. at[2].verdict = "inconclusive"
        BY <1>8, <4>1 DEF CaseIs
      <4>3. PICK k \in Prepared(evidence) : \E c \in DOMAIN evidence[k][1].cases :
                    at = <<k, evidence[k][1].cases[c]>>
        BY CasesAre
      <4>4. InconclusiveEvidence(evidence)
        BY <4>2, <4>3 DEF InconclusiveEvidence
      <4> QED BY <4>4
    <3>3. CASE StatusesAt(findings, at) # {}
      <4>1. "inconclusive" \in StatusesAt(findings, at)
        BY <3>1, <3>3 DEF UnresolvedCase
      <4> QED BY <1>6, <4>1
    <3> QED BY <3>2, <3>3
  <2>2. CASE \A at \in cases : Bucket(at[2]) = "not_evaluated"
    <3>1. ASSUME NEW k \in Prepared(evidence), NEW c \in DOMAIN evidence[k][1].cases
          PROVE  evidence[k][1].cases[c].trials = <<>>
      <4>1. PICK at : at = <<k, evidence[k][1].cases[c]>>
        OBVIOUS
      <4>2. at \in cases
        BY <4>1, CasesAre
      <4>3. at[2].trials = <<>>
        BY <1>8, <2>2, <4>2 DEF CaseIs
      <4> QED BY <4>1, <4>3
    <3> QED BY <3>1 DEF InconclusiveEvidence
  <2> QED BY <2>1, <2>2
<1>12. ASSUME demanded # {}
       PROVE  \/ acting
              \/ \E at \in cases : Bucket(at[2]) = "unstable" /\ Represented(findings, at)
  <2>1. PICK s \in demanded : s \in {"consequential", "needs_review"}
    BY <1>12 DEF ActionSections
  <2>2. CASE \E at \in cases : \E f \in Named(findings) :
                /\ f.at = <<at[1], at[2].operator>> /\ s = Section(f, at[2].materiality)
    <3>1. PICK at \in cases : \E f \in Named(findings) :
                /\ f.at = <<at[1], at[2].operator>> /\ s = Section(f, at[2].materiality)
      BY <2>2
    <3>2. PICK f \in Named(findings) :
                /\ f.at = <<at[1], at[2].operator>> /\ s = Section(f, at[2].materiality)
      BY <3>1
    <3>3. f.status \in ReviewStatuses
      BY <1>1 DEF CasesAreReported
    <3>4. f.status \in {"confirmed", "needs_review"}
      BY <2>1, <3>2, <3>3 DEF Section, ReviewStatuses
    <3>5. f.status \in StatusesAt(findings, at)
      BY <3>2 DEF StatusesAt
    <3>6. ConsequentialCase(findings, at)
      BY <3>4, <3>5 DEF ConsequentialCase
    <3> QED BY <3>6
  <2>3. CASE \E at \in cases : Bucket(at[2]) = "unstable"
    <3>1. PICK at \in cases : Bucket(at[2]) = "unstable"
      BY <2>3
    <3>2. CASE StatusesAt(findings, at) = {}
      BY <3>1, <3>2 DEF ConsequentialCase
    <3>3. CASE StatusesAt(findings, at) # {}
      BY <3>1, <3>3 DEF Represented
    <3> QED BY <3>2, <3>3
  <2> QED BY <2>1, <2>2, <2>3 DEF Sections
<1>13. ASSUME acting PROVE demanded # {}
  <2>1. PICK at \in cases : ConsequentialCase(findings, at)
    BY <1>13
  <2>2. CASE StatusesAt(findings, at) = {}
    <3>1. Bucket(at[2]) \in {"consequential", "unstable"}
      BY <2>1, <2>2 DEF ConsequentialCase
    <3>2. at[2].findings = {} /\ Bucket(at[2]) # "consequential"
      BY <1>7, <1>8, <2>2 DEF CaseIs
    <3>3. "consequential" \in Sections(evidence, findings)
      BY <3>1, <3>2 DEF Sections
    <3> QED BY <3>3 DEF ActionSections
  <2>3. CASE StatusesAt(findings, at) # {}
    <3>1. PICK s \in StatusesAt(findings, at) : s \in {"confirmed", "needs_review"}
      BY <2>1, <2>3 DEF ConsequentialCase
    <3>2. PICK f \in Named(findings) : f.at = <<at[1], at[2].operator>> /\ f.status = s
      BY <3>1 DEF StatusesAt
    <3>3. Section(f, at[2].materiality) \in {"consequential", "needs_review"}
      BY <3>1, <3>2 DEF Section
    <3>4. Section(f, at[2].materiality) \in Sections(evidence, findings)
      BY <3>2, <3>3 DEF Sections
    <3> QED BY <3>3, <3>4 DEF ActionSections
  <2> QED BY <2>2, <2>3
<1>14. ASSUME ~acting, NEW f \in Actionables(findings)
       PROVE  BeyondReview(f, findings)
  <2>1. f \in findings /\ f.status \in {"unreviewed", "needs_review", "confirmed"}
    BY DEF Actionables, Actions
  <2>2. f.name = <<>>
    <3> SUFFICES ASSUME f.name # <<>> PROVE FALSE
      OBVIOUS
    <3>1. f \in Named(findings)
      BY <2>1 DEF Named
    <3>2. PICK at \in cases : f.status \in StatusesAt(findings, at)
      BY <1>5, <3>1
    <3>3. f.status \in {"needs_review", "confirmed"}
      BY <1>6, <2>1, <3>2 DEF ReviewStatuses
    <3>4. ConsequentialCase(findings, at)
      BY <3>2, <3>3 DEF ConsequentialCase
    <3> QED BY <1>14, <3>4
  <2>3. f.status = "unreviewed"
    BY <1>1, <2>1, <2>2 DEF CasesAreReported
  <2>4. CASE f.at[2] = Baseline
    BY <2>2, <2>4 DEF BeyondReview
  <2>5. CASE \E at \in cases : f.at = <<at[1], at[2].operator>> /\ Bucket(at[2]) = "unstable"
    <3>1. PICK at \in cases : f.at = <<at[1], at[2].operator>> /\ Bucket(at[2]) = "unstable"
      BY <2>5
    <3>2. StatusesAt(findings, at) # {}
      BY <1>14, <3>1 DEF ConsequentialCase
    <3>3. \E other \in Named(findings) : other.at = f.at
      BY <3>1, <3>2 DEF StatusesAt
    <3> QED BY <2>2, <3>3 DEF BeyondReview
  <2> QED BY <1>1, <2>1, <2>2, <2>3, <2>4, <2>5 DEF CasesAreReported
<1>15. ASSUME report.exit = "2"
       PROVE  ~acting /\ (open \/ BeyondHeadline(findings))
  <2>1. ~acting
    BY <1>10, <1>15
  <2>2. unresolved
    BY <1>2, <1>15
  <2>3. CASE \E f \in findings : f.status = "inconclusive"
    <3>1. PICK f \in findings : f.status = "inconclusive"
      BY <2>3
    <3>2. CASE f.name = <<>>
      BY <2>1, <3>1, <3>2 DEF BeyondHeadline
    <3>3. CASE f.name # <<>>
      <4>1. f \in Named(findings)
        BY <3>3 DEF Named
      <4>2. PICK at \in cases : "inconclusive" \in StatusesAt(findings, at)
        BY <1>5, <3>1, <4>1
      <4>3. UnresolvedCase(findings, at)
        BY <2>1, <4>2 DEF UnresolvedCase
      <4> QED BY <2>1, <4>3
    <3> QED BY <3>2, <3>3
  <2>4. CASE \E k \in Prepared(evidence) : "not_evaluable" \in RuleStatuses(evidence[k][1])
    BY <2>1, <2>4 DEF BeyondHeadline, UnevaluableRules, Results
  <2>5. ASSUME NEW at \in cases, at[2].verdict = "inconclusive"
        PROVE  open \/ BeyondHeadline(findings)
    <3>1. CASE Represented(findings, at)
      BY <2>5, <3>1 DEF BeyondHeadline
    <3>2. CASE ~Represented(findings, at)
      <4>1. StatusesAt(findings, at) = {}
        BY <3>2 DEF Represented
      <4>2. at[2].findings = {}
        BY <1>7, <4>1
      <4>3. Bucket(at[2]) \in {"unstable", "inconclusive"}
        BY <1>8, <2>5, <4>2 DEF CaseIs
      <4>4. Bucket(at[2]) # "unstable"
        BY <2>1, <4>1 DEF ConsequentialCase
      <4>5. UnresolvedCase(findings, at)
        BY <4>1, <4>3, <4>4 DEF UnresolvedCase
      <4> QED BY <4>5
    <3> QED BY <2>1, <3>1, <3>2
  <2>6. CASE InconclusiveEvidence(evidence)
    <3>1. CASE \E k \in Prepared(evidence) : \E c \in DOMAIN evidence[k][1].cases :
                  evidence[k][1].cases[c].verdict = "inconclusive"
      <4>1. PICK k \in Prepared(evidence) : \E c \in DOMAIN evidence[k][1].cases :
                  evidence[k][1].cases[c].verdict = "inconclusive"
        BY <3>1
      <4>2. PICK c \in DOMAIN evidence[k][1].cases :
                  evidence[k][1].cases[c].verdict = "inconclusive"
        BY <4>1
      <4>3. PICK at : at = <<k, evidence[k][1].cases[c]>>
        OBVIOUS
      <4>4. at \in cases /\ at[2].verdict = "inconclusive"
        BY <4>2, <4>3, CasesAre
      <4> QED BY <2>1, <2>5, <4>4
    <3>2. ASSUME NEW k \in Prepared(evidence), evidence[k][1].stability # "stable"
          PROVE  open \/ BeyondHeadline(findings)
      <4>1. PICK j : j = evidence[k][1] /\ IsJudged(j)
        BY DEF JudgedLines, Prepared
      <4>2. CASE \E c \in DOMAIN j.cases : j.cases[c].trials # <<>>
        <5>1. PICK c \in DOMAIN j.cases : j.cases[c].trials # <<>>
          BY <4>2
        <5>2. j.cases[c].verdict = "inconclusive"
          BY <3>2, <4>1, <5>1, CaseFacts DEF CaseIs
        <5>3. PICK at : at = <<k, j.cases[c]>>
          OBVIOUS
        <5>4. at \in cases /\ at[2].verdict = "inconclusive"
          BY <4>1, <5>2, <5>3, CasesAre
        <5> QED BY <2>5, <5>4
      <4>3. CASE \A c \in DOMAIN j.cases : j.cases[c].trials = <<>>
        BY <4>1, <4>3 DEF BeyondHeadline, NothingWasRun, Results
      <4> QED BY <4>2, <4>3
    <3>3. CASE \A k \in Prepared(evidence) : NothingWasRun(evidence[k][1])
      <4>1. CASE Prepared(evidence) = {}
        <5>1. Prepared(evidence) # DOMAIN evidence
          BY <4>1 DEF JudgedLines, IsSequence
        <5> QED BY <2>1, <5>1
      <4>2. CASE Prepared(evidence) # {}
        <5>1. PICK k \in Prepared(evidence) : TRUE
          BY <4>2
        <5>2. evidence[k][1] \in Results(evidence)
          BY <5>1 DEF Results
        <5>3. NothingWasRun(evidence[k][1])
          BY <3>3, <5>1
        <5> QED BY <2>1, <5>2, <5>3 DEF BeyondHeadline
      <4> QED BY <4>1, <4>2
    <3> QED BY <2>1, <2>6, <3>1, <3>2, <3>3 DEF InconclusiveEvidence, NothingWasRun
  <2> QED BY <2>1, <2>2, <2>3, <2>4, <2>6
<1>16. report.exit = "1" => Actionables(findings) # {}
  BY <1>2
<1> HIDE DEF acting, open, demanded, unresolved
<1>17. /\ headline = "action_required" => demanded # {} /\ report.exit = "1"
       /\ headline = "inconclusive" => report.exit # "0"
       /\ demanded # {} => \/ headline = "action_required"
                           \/ \E at \in cases :
                                Bucket(at[2]) = "unstable" /\ Represented(findings, at)
       /\ report.exit = "1" => \/ headline = "action_required"
                               \/ \A f \in Actionables(findings) : BeyondReview(f, findings)
       /\ report.exit = "2" => headline = "inconclusive" \/ BeyondHeadline(findings)
  BY <1>3, <1>10, <1>11, <1>12, <1>13, <1>14, <1>15
<1>18. ReportsAgree(report)
  BY <1>2, <1>4, <1>17 DEF ReportsAgree, headline, demanded
<1> QED
  BY <1>18 DEF report

-----------------------------------------------------------------------------
(* The exit codes of the run and of its report.                            *)

(* A case that asks for a review was compared; it is a case with findings, *)
(* which have its materiality, or one whose repetitions differ.            *)
Diverges(j, case) ==
    /\ case.verdict = "divergence_needs_review" =>
        /\ CompletedComparison(case)
        /\ case.findings = {} => case.stability = "unstable" /\ case.materiality = "none"
    /\ case.findings # {} => case.verdict = "divergence_needs_review"
    /\ case.findings = {} /\ case.stability = "unstable" =>
        /\ case.materiality = "none"
        /\ j.stability = "unstable" \/ case.verdict = "divergence_needs_review"

(* So does every case of a judged source.                                  *)
LEMMA Divergences ==
    ASSUME NEW j, IsJudged(j), NEW c \in DOMAIN j.cases
    PROVE  Diverges(j, j.cases[c])
<1> DEFINE case == j.cases[c]
<1>1. CaseIsJudged(j, case) /\ CaseIs(j, case) /\ j.stability \in Stabilities
  BY CaseFacts DEF IsJudged
<1>2. case.findings = {} => case.materiality = "none"
  BY <1>1 DEF CaseIsJudged
<1>3. CASE WasRejected(case)
  BY <1>2, <1>3 DEF WasRejected, Diverges
<1>4. CASE WasRun(j, case)
  <2>1. case.verdict = "divergence_needs_review" => CompletedComparison(case)
    BY <1>1 DEF CaseIs
  <2>2. case.verdict = "divergence_needs_review" /\ case.findings = {}
            => case.stability = "unstable"
    BY <1>4 DEF WasRun, VerdictOf
  <2>3. case.findings # {} => case.verdict = "divergence_needs_review"
    BY <1>4 DEF WasRun, VerdictOf
  <2>4. case.stability = "unstable"
            => j.stability = "unstable" \/ case.verdict = "divergence_needs_review"
    BY <1>1, <1>4 DEF WasRun, VerdictOf, Stabilities
  <2> QED BY <1>2, <2>1, <2>2, <2>3, <2>4 DEF Diverges
<1> QED
  BY <1>1, <1>3, <1>4 DEF CaseIsJudged

(* Before any review, what a line asks for is what its findings ask for.   *)
LineAgrees(j, findings) ==
    /\ NeedsReview(j) => \E f \in findings : f.status \in Actions
    /\ InsufficientMateriality(j) => \E f \in findings : f.status = "inconclusive"
    /\ "violated" \in RuleStatuses(j) =>
            \E f \in findings : f.status \in Actions \cup {"inconclusive"}
    /\ \A f \in findings : f.status \in Actions =>
            NeedsReview(j) \/ "violated" \in RuleStatuses(j) \/ j.stability = "unstable"
    /\ NeedsReview(j) \/ InsufficientMateriality(j) => Compared(j)

(* So do the findings of every judged line.                                *)
LEMMA LinesAgree ==
    ASSUME NEW j, IsJudged(j), NEW k
    PROVE  LineAgrees(j, SummariesOf(k, j, <<>>))
<1> DEFINE findings == SummariesOf(k, j, <<>>)
<1>1. AreReviews(<<>>)
  BY DEF AreReviews
<1>2. \A name, automatic : Effective(name, automatic, <<>>).status = automatic
  BY DEF Effective
<1>3. \A c \in DOMAIN j.cases : Diverges(j, j.cases[c])
  BY Divergences
<1>4. ASSUME NEW c \in DOMAIN j.cases, NEW g \in j.cases[c].findings
      PROVE  BehaviorSummary(k, j.cases[c], g, <<>>).status = FindingStatus(j.cases[c])
  <2>1. BehaviorIs(BehaviorSummary(k, j.cases[c], g, <<>>), k, j.cases[c],
                   BehaviorName(k, j.cases[c], g), <<>>)
    BY <1>1, BehaviorFacts
  <2> QED BY <1>2, <2>1 DEF BehaviorIs
<1>5. ASSUME NEW c \in DOMAIN j.cases, j.cases[c].findings # {}
      PROVE  \E f \in findings : f.status = FindingStatus(j.cases[c])
  <2>1. PICK g \in j.cases[c].findings : TRUE
    BY <1>5
  <2>2. BehaviorSummary(k, j.cases[c], g, <<>>) \in findings
    BY LineFindings DEF IsBehaviorFinding
  <2> QED BY <1>4, <2>2
<1>6. ASSUME NEW c \in DOMAIN j.cases, j.cases[c].findings = {},
             j.cases[c].stability = "unstable"
      PROVE  \E f \in findings : f.status = "unreviewed"
  <2>1. UnstableSummary(k, j.cases[c]) \in findings
    BY <1>6, LineFindings DEF IsUnstableFinding
  <2>2. UnstableSummary(k, j.cases[c]).status = "unreviewed"
    BY <1>6, UnstableFacts DEF UnstableIs
  <2> QED BY <2>1, <2>2
<1>7. ASSUME NeedsReview(j)
      PROVE  \E f \in findings : f.status \in Actions
  <2>1. PICK c \in DOMAIN j.cases : /\ j.cases[c].verdict = "divergence_needs_review"
                                    /\ j.cases[c].materiality \in {"none", "material_variance"}
    BY <1>7 DEF NeedsReview, Diverging
  <2>2. CASE j.cases[c].findings = {}
    BY <1>3, <1>6, <2>1, <2>2 DEF Diverges, Actions
  <2>3. CASE j.cases[c].findings # {}
    <3>1. FindingStatus(j.cases[c]) = "needs_review"
      BY <2>1 DEF FindingStatus
    <3> QED BY <1>5, <2>3, <3>1 DEF Actions
  <2> QED BY <2>2, <2>3
<1>8. ASSUME InsufficientMateriality(j)
      PROVE  \E f \in findings : f.status = "inconclusive"
  <2>1. PICK c \in DOMAIN j.cases : /\ j.cases[c].verdict = "divergence_needs_review"
                                    /\ j.cases[c].materiality = "insufficient_evidence"
    BY <1>8 DEF InsufficientMateriality, Diverging
  <2>2. j.cases[c].findings # {}
    BY <1>3, <2>1 DEF Diverges
  <2>3. FindingStatus(j.cases[c]) = "inconclusive"
    BY <2>1 DEF FindingStatus
  <2> QED BY <1>5, <2>2, <2>3
<1>9. ASSUME "violated" \in RuleStatuses(j)
      PROVE  \E f \in findings : f.status \in Actions \cup {"inconclusive"}
  <2>1. PICK a \in DOMAIN j.evaluation : \E r \in DOMAIN j.evaluation[a].rules :
                j.evaluation[a].rules[r].status = "violated"
    BY <1>9 DEF RuleStatuses
  <2>2. PICK r \in DOMAIN j.evaluation[a].rules : j.evaluation[a].rules[r].status = "violated"
    BY <2>1
  <2> DEFINE operator == j.evaluation[a].operator
             result == j.evaluation[a].rules[r]
  <2>3. CASE a # 1 /\ r \in ReproducedRules(j.evaluation, a)
    <3>1. ReproducedSummary(k, operator, result, <<>>) \in findings
      BY <2>2, <2>3, LineFindings DEF IsRuleFinding
    <3>2. ReproducedIs(ReproducedSummary(k, operator, result, <<>>), k, j, operator,
                       RuleName(k, operator, result.rule), <<>>)
      BY <1>1, <2>3, ReproducedFacts
    <3>3. ReproducedSummary(k, operator, result, <<>>).status = "needs_review"
      BY <1>2, <3>2 DEF ReproducedIs
    <3> QED BY <3>1, <3>3 DEF Actions
  <2>4. CASE ~(a # 1 /\ r \in ReproducedRules(j.evaluation, a))
    <3>1. OtherViolation(k, operator, result) \in findings
      BY <2>2, <2>4, LineFindings DEF IsOtherFinding
    <3>2. OtherViolation(k, operator, result).status \in {"inconclusive", "unreviewed"}
      BY OtherFacts DEF OtherIs
    <3> QED BY <3>1, <3>2 DEF Actions
  <2> QED BY <2>3, <2>4
<1>10. ASSUME NEW f \in findings, f.status \in Actions
       PROVE  NeedsReview(j) \/ "violated" \in RuleStatuses(j) \/ j.stability = "unstable"
  <2>1. CASE \E c \in DOMAIN j.cases : IsUnstableFinding(f, k, j.cases[c])
    <3>1. PICK c \in DOMAIN j.cases : IsUnstableFinding(f, k, j.cases[c])
      BY <2>1
    <3>2. j.cases[c].findings = {} /\ j.cases[c].stability = "unstable"
      BY <3>1 DEF IsUnstableFinding
    <3>3. \/ j.stability = "unstable"
          \/ /\ j.cases[c].verdict = "divergence_needs_review"
             /\ j.cases[c].materiality = "none"
      BY <1>3, <3>2 DEF Diverges
    <3> QED BY <3>3 DEF NeedsReview, Diverging
  <2>2. CASE \E c \in DOMAIN j.cases : IsBehaviorFinding(f, k, j.cases[c], <<>>)
    <3>1. PICK c \in DOMAIN j.cases : IsBehaviorFinding(f, k, j.cases[c], <<>>)
      BY <2>2
    <3>2. PICK g \in j.cases[c].findings : f = BehaviorSummary(k, j.cases[c], g, <<>>)
      BY <3>1 DEF IsBehaviorFinding
    <3>3. FindingStatus(j.cases[c]) \in Actions
      BY <1>4, <1>10, <3>2
    <3>4. j.cases[c].materiality \in Materialities
      BY DEF IsJudged, CaseIsJudged
    <3>5. j.cases[c].materiality \in {"none", "material_variance"}
      BY <3>3, <3>4 DEF FindingStatus, Actions, Materialities
    <3>6. j.cases[c].verdict = "divergence_needs_review"
      BY <1>3, <3>2 DEF Diverges
    <3> QED BY <3>5, <3>6 DEF NeedsReview, Diverging
  <2>3. CASE \E a \in DOMAIN j.evaluation : \/ IsRuleFinding(f, k, j.evaluation, a, <<>>)
                                            \/ IsOtherFinding(f, k, j.evaluation, a)
    <3>1. PICK a \in DOMAIN j.evaluation : \/ IsRuleFinding(f, k, j.evaluation, a, <<>>)
                                           \/ IsOtherFinding(f, k, j.evaluation, a)
      BY <2>3
    <3>2. \E r \in DOMAIN j.evaluation[a].rules : j.evaluation[a].rules[r].status = "violated"
      BY <3>1 DEF IsRuleFinding, IsOtherFinding
    <3> QED BY <3>2 DEF RuleStatuses
  <2> QED BY <2>1, <2>2, <2>3, LineFindings
<1>11. NeedsReview(j) \/ InsufficientMateriality(j) => Compared(j)
  BY <1>3 DEF NeedsReview, InsufficientMateriality, Diverging, Compared, Diverges
<1> HIDE DEF findings
<1>12. LineAgrees(j, findings)
  BY <1>7, <1>8, <1>9, <1>10, <1>11 DEF LineAgrees
<1> QED
  BY <1>12 DEF findings

(* The run, its resume and the report on it, before any review.            *)
LEMMA ExitsAgree ==
    ASSUME JudgedLines(evidence), evidence # <<>>
    PROVE  RunAndReportAgree(ReportOn(evidence, <<>>))
<1> DEFINE findings == Summaries(evidence, <<>>)
           report == ReportOn(evidence, <<>>)
           line(k) == SummariesOf(k, evidence[k][1], <<>>)
<1>1. \A k \in Prepared(evidence) : IsJudged(evidence[k][1])
  BY DEF JudgedLines, Prepared
<1>2. \A k \in Prepared(evidence) : LineAgrees(evidence[k][1], line(k))
  BY <1>1, LinesAgree
<1>3. \A f : f \in findings <=> \E k \in Prepared(evidence) : f \in line(k)
  BY DEF Summaries
<1>4. /\ report.findings = findings
      /\ report.exit = "0" => /\ Actionables(findings) = {}
                              /\ \A f \in findings : f.status # "inconclusive"
                              /\ Prepared(evidence) = DOMAIN evidence
                              /\ ~InconclusiveEvidence(evidence)
                              /\ \A k \in Prepared(evidence) :
                                    "not_evaluable" \notin RuleStatuses(evidence[k][1])
      /\ (report.exit = "1") = (Actionables(findings) # {})
  <2>1. (CountOf(findings, "inconclusive") > 0) = (\E f \in findings : f.status = "inconclusive")
    <3> DEFINE T == {f \in findings : f.status = "inconclusive"}
    <3>1. IsFiniteSet(findings)
      BY FindingFacts DEF AreReviews
    <3> HIDE DEF findings
    <3>2. T \subseteq findings /\ CountOf(findings, "inconclusive") = Cardinality(T)
          /\ (T # {}) = (\E f \in findings : f.status = "inconclusive")
      BY DEF CountOf
    <3> HIDE DEF T
    <3> QED BY <3>1, <3>2, PartIsFinite
  <2> QED BY <2>1 DEF ReportOn, ReportOf
<1> HIDE DEF findings, report, line
<1>5. \A j \in Results(evidence) : \E k \in Prepared(evidence) : j = evidence[k][1]
  BY DEF Results
<1>6. \A k \in Prepared(evidence) : evidence[k][1] \in Results(evidence)
  BY DEF Results
<1>7. \A j \in Results(evidence) :
        /\ NeedsReview(j) => Actionables(findings) # {}
        /\ InsufficientMateriality(j) => \E f \in findings : f.status = "inconclusive"
        /\ "violated" \in RuleStatuses(j) =>
                Actionables(findings) # {} \/ \E f \in findings : f.status = "inconclusive"
        /\ NeedsReview(j) \/ InsufficientMateriality(j) => Compared(j)
  <2> SUFFICES ASSUME NEW k \in Prepared(evidence), NEW j, j = evidence[k][1]
               PROVE  /\ NeedsReview(j) => Actionables(findings) # {}
                      /\ InsufficientMateriality(j) => \E f \in findings : f.status = "inconclusive"
                      /\ "violated" \in RuleStatuses(j) => \/ Actionables(findings) # {}
                                                           \/ \E f \in findings : f.status = "inconclusive"
                      /\ NeedsReview(j) \/ InsufficientMateriality(j) => Compared(j)
    BY <1>5
  <2>1. LineAgrees(j, line(k))
    BY <1>2
  <2>2. \A f \in line(k) : f \in findings
    BY <1>3
  <2> QED BY <2>1, <2>2 DEF LineAgrees, Actionables
<1>8. Actionables(findings) # {} => \E j \in Results(evidence) :
        NeedsReview(j) \/ "violated" \in RuleStatuses(j) \/ j.stability = "unstable"
  <2> SUFFICES ASSUME NEW f \in findings, f.status \in Actions
               PROVE  \E j \in Results(evidence) :
                          NeedsReview(j) \/ "violated" \in RuleStatuses(j) \/ j.stability = "unstable"
    BY DEF Actionables
  <2>1. PICK k \in Prepared(evidence) : f \in line(k)
    BY <1>3
  <2>2. LineAgrees(evidence[k][1], line(k)) /\ evidence[k][1] \in Results(evidence)
    BY <1>2, <1>6
  <2> QED BY <2>1, <2>2 DEF LineAgrees
<1>9. /\ InvariantExit(evidence) \in {"0", "1", "2"}
      /\ InvariantExit(evidence) = "1" <=> ViolatedRules
      /\ InvariantExit(evidence) = "2" => UnevaluableRules
  BY DEF InvariantExit, ViolatedRules, UnevaluableRules
<1>10. /\ ResultsExit(evidence) \in {"0", "1", "2"}
       /\ ResultsExit(evidence) = "1" <=> \E j \in Results(evidence) : NeedsReview(j)
       /\ (\E j \in Results(evidence) : InsufficientMateriality(j)) => ResultsExit(evidence) # "0"
       /\ ResultsExit(evidence) = "2" => \/ \E j \in Results(evidence) : InsufficientMateriality(j)
                                         \/ \A j \in Results(evidence) : ~Compared(j)
  <2> DEFINE compared == {j \in Results(evidence) : Compared(j)}
             codes == {ResultExit(j) : j \in compared}
  <2>1. ResultsExit(evidence) = IF Results(evidence) = {} THEN "0"
                                ELSE IF "1" \in codes THEN "1"
                                ELSE IF "2" \in codes \/ codes = {} THEN "2" ELSE "0"
    BY DEF ResultsExit
  <2>2. "1" \in codes <=> \E j \in Results(evidence) : NeedsReview(j)
    BY <1>7 DEF ResultExit
  <2>3. (\E j \in Results(evidence) : InsufficientMateriality(j))
            => "1" \in codes \/ "2" \in codes
    <3> SUFFICES ASSUME NEW j \in Results(evidence), InsufficientMateriality(j)
                 PROVE  "1" \in codes \/ "2" \in codes
      OBVIOUS
    <3>1. j \in compared
      BY <1>7
    <3>2. ResultExit(j) \in {"1", "2"}
      BY DEF ResultExit
    <3> QED BY <3>1, <3>2
  <2>4. "2" \in codes => \E j \in Results(evidence) : InsufficientMateriality(j)
    BY DEF ResultExit
  <2>5. codes = {} => \A j \in Results(evidence) : ~Compared(j)
    OBVIOUS
  <2>6. /\ (\E j \in Results(evidence) : NeedsReview(j)) => Results(evidence) # {}
        /\ (\E j \in Results(evidence) : InsufficientMateriality(j)) => Results(evidence) # {}
    OBVIOUS
  <2> HIDE DEF codes
  <2> QED BY <2>1, <2>2, <2>3, <2>4, <2>5, <2>6
<1>11. CampaignExit(evidence) = CompletedResumeExit(evidence)
  BY <1>9, <1>10 DEF CampaignExit, CompletedResumeExit
<1>12. ASSUME report.exit = "0"
       PROVE  CampaignExit(evidence) = "0"
  <2>1. InvariantExit(evidence) = "0"
    BY <1>4, <1>5, <1>7, <1>9, <1>12 DEF ViolatedRules, UnevaluableRules
  <2>2. ~(\E j \in Results(evidence) : NeedsReview(j) \/ InsufficientMateriality(j))
    BY <1>4, <1>7, <1>12
  <2>3. \E j \in Results(evidence) : Compared(j)
    <3>1. ~InconclusiveEvidence(evidence)
      BY <1>4, <1>12
    <3>2. PICK k \in Prepared(evidence) : \E c \in DOMAIN evidence[k][1].cases :
                evidence[k][1].cases[c].trials # <<>>
      BY <3>1 DEF InconclusiveEvidence
    <3>3. PICK c \in DOMAIN evidence[k][1].cases : evidence[k][1].cases[c].trials # <<>>
      BY <3>2
    <3>4. evidence[k][1].cases[c].verdict # "inconclusive"
      BY <3>1 DEF InconclusiveEvidence
    <3>5. CaseIs(evidence[k][1], evidence[k][1].cases[c])
      BY <1>1, CaseFacts
    <3>6. Compared(evidence[k][1])
      BY <3>3, <3>4, <3>5 DEF CaseIs, Compared
    <3> QED BY <1>6, <3>6
  <2>4. ResultsExit(evidence) = "0"
    BY <1>10, <2>2, <2>3
  <2>5. SourceFailures(evidence) = {}
    BY <1>4, <1>12 DEF SourceFailures
  <2> QED BY <2>1, <2>4, <2>5 DEF CampaignExit
<1>13. CampaignExit(evidence) = "0" => report.exit # "1" \/ Unstable
  BY <1>4, <1>8, <1>9, <1>10 DEF CampaignExit, Unstable, ViolatedRules
<1>14. CampaignExit(evidence) = "1" => report.exit = "1" \/ ViolatedRules
  BY <1>4, <1>7, <1>9, <1>10 DEF CampaignExit
<1>15. RunAndReportAgree(report)
  BY <1>11, <1>12, <1>13, <1>14 DEF RunAndReportAgree
<1> QED
  BY <1>15 DEF report

-----------------------------------------------------------------------------
(***************************************************************************)
(* The evidence only ever has lines that are what judging a source of some *)
(* campaign leaves, or stand for a source that could not be prepared, and  *)
(* no more of them than the campaign has sources.                          *)
(***************************************************************************)
LinesOfSources ==
    UNION {UNION {{<<LineOf(c.sources[k], c.suite)>> :
                        k \in {k \in DOMAIN c.sources : /\ c.sources[k].prepared
                                                        /\ ~CannotBeJudged(c.sources[k])}} :
                   c \in family} : family \in Families}

\* and only judgments are in force
EvidenceInv ==
    /\ \E family \in Families : campaign \in family
    /\ evidence \in Seq(LinesOfSources \cup {<<>>})
    /\ Len(evidence) <= Len(campaign.sources)
    /\ AreReviews(reviews)

(* Judging appends a line, reviewing adds or replaces a judgment; no other *)
(* step touches either.                                                    *)
LEMMA EvidenceStep ==
    ASSUME EvidenceInv, [RunNext]_runVars
    PROVE  EvidenceInv'
<1>1. PICK family \in Families : campaign \in family
  BY DEF EvidenceInv
<1>2. /\ Len(campaign.sources) \in Nat /\ DOMAIN campaign.sources = 1 .. Len(campaign.sources)
      /\ Len(evidence) \in Nat
  BY <1>1, SourcesAreSequences DEF EvidenceInv
<1>3. campaign' = campaign
  BY DEF RunNext, Run, CreateKey, FillKey, LoadKey, RefuseKey, Judge, WriteSnapshot, Report, Stop,
         KillRun, Review, runVars
<1>4. CASE Judge
  <2>1. reviews' = reviews /\ ~Complete
    BY <1>4 DEF Judge
  <2>2. CASE evidence' = evidence
    BY <1>3, <2>1, <2>2 DEF EvidenceInv, AreReviews
  <2>3. CASE evidence' # evidence
    <3> DEFINE n == Len(evidence) + 1
               source == campaign.sources[n]
    <3>1. n \in DOMAIN campaign.sources
      BY <1>2, <2>1 DEF Complete, EvidenceInv
    <3>2. /\ ~(source.prepared /\ CannotBeJudged(source))
          /\ evidence' = Append(evidence, IF source.prepared
                                          THEN <<LineOf(source, campaign.suite)>> ELSE <<>>)
      BY <1>4, <2>3 DEF Judge
    <3>3. source.prepared => <<LineOf(source, campaign.suite)>> \in LinesOfSources
      BY <1>1, <3>1, <3>2 DEF LinesOfSources
    <3>4. /\ evidence' \in Seq(LinesOfSources \cup {<<>>})
          /\ Len(evidence') = n
      BY <3>2, <3>3 DEF EvidenceInv
    <3>5. n <= Len(campaign.sources)
      BY <1>2, <3>1
    <3> QED BY <1>1, <1>3, <2>1, <3>4, <3>5 DEF EvidenceInv, AreReviews
  <2> QED BY <2>2, <2>3
<1>5. CASE Review
  <2>1. PICK name \in MayBeReviewed(evidence, reviews) : \E judgment \in Judgments :
            reviews' = [n \in DOMAIN reviews \cup {name} |->
                            IF n = name THEN judgment ELSE reviews[n]]
    BY <1>5 DEF Review
  <2>2. AreReviews(reviews')
    <3>1. PICK judgment \in Judgments :
              reviews' = [n \in DOMAIN reviews \cup {name} |->
                              IF n = name THEN judgment ELSE reviews[n]]
      BY <2>1
    <3> QED BY <3>1 DEF EvidenceInv, AreReviews
  <2>3. evidence' = evidence
    BY <1>5 DEF Review
  <2> QED BY <1>1, <1>3, <2>2, <2>3 DEF EvidenceInv
<1>6. CASE UNCHANGED <<evidence, reviews>>
  BY <1>1, <1>3, <1>6 DEF EvidenceInv, AreReviews
<1> QED
  BY <1>4, <1>5, <1>6
     DEF RunNext, Run, CreateKey, FillKey, LoadKey, RefuseKey, WriteSnapshot, Report, Stop,
         KillRun, runVars

(* Every line of the evidence is judged, and a complete one is not empty.  *)
LEMMA EvidenceIsJudged ==
    ASSUME EvidenceInv
    PROVE  JudgedLines(evidence) /\ (Complete => evidence # <<>>)
<1>1. IsSequence(evidence)
  BY DEF EvidenceInv, IsSequence
<1>2. ASSUME NEW k \in DOMAIN evidence, evidence[k] # <<>>
      PROVE  IsJudged(evidence[k][1])
  <2>1. evidence[k] \in LinesOfSources
    BY <1>2 DEF EvidenceInv
  <2>2. PICK family \in Families : \E c \in family : \E s \in DOMAIN c.sources :
            /\ c.sources[s].prepared /\ ~CannotBeJudged(c.sources[s])
            /\ evidence[k] = <<LineOf(c.sources[s], c.suite)>>
    BY <2>1 DEF LinesOfSources
  <2>3. PICK c \in family : \E s \in DOMAIN c.sources :
            /\ c.sources[s].prepared /\ ~CannotBeJudged(c.sources[s])
            /\ evidence[k] = <<LineOf(c.sources[s], c.suite)>>
    BY <2>2
  <2>4. PICK s \in DOMAIN c.sources :
            /\ c.sources[s].prepared /\ ~CannotBeJudged(c.sources[s])
            /\ evidence[k] = <<LineOf(c.sources[s], c.suite)>>
    BY <2>3
  <2>5. IsJudged(LineOf(c.sources[s], c.suite))
    BY <2>4, LinesAreJudged
  <2> QED BY <2>4, <2>5
<1>3. Complete => evidence # <<>>
  <2>1. Len(campaign.sources) \in Nat \ {0}
    BY SourcesAreSequences DEF EvidenceInv
  <2> QED BY <2>1 DEF Complete
<1> QED
  BY <1>1, <1>2, <1>3 DEF JudgedLines

(* However a campaign is run, stopped, killed, resumed and reviewed, and   *)
(* whatever is judged of its sources, its exit codes, the report and the   *)
(* headline tell the same of it.                                           *)
THEOREM ReportsTellTheSame == RunSpec => []ExitCodesAgree
<1>1. RunInit => EvidenceInv
  <2> SUFFICES ASSUME RunInit PROVE EvidenceInv
    OBVIOUS
  <2>1. PICK family \in Families : campaign \in family
    BY DEF RunInit
  <2>2. Len(campaign.sources) \in Nat
    BY <2>1, SourcesAreSequences
  <2> QED BY <2>1, <2>2 DEF RunInit, EvidenceInv, AreReviews
<1>2. EvidenceInv /\ [RunNext]_runVars => EvidenceInv'
  BY EvidenceStep
<1>3. EvidenceInv => ExitCodesAgree
  <2> SUFFICES ASSUME EvidenceInv, Complete
               PROVE  /\ RunAndReportAgree(ReportOn(evidence, <<>>))
                      /\ ReportsAgree(ReportOn(evidence, reviews))
    BY DEF ExitCodesAgree
  <2>1. JudgedLines(evidence) /\ evidence # <<>> /\ AreReviews(reviews)
    BY EvidenceIsJudged DEF EvidenceInv
  <2> QED BY <2>1, ExitsAgree, HeadlineAgrees
<1> QED
  BY <1>1, <1>2, <1>3, PTL DEF RunSpec
=============================================================================
