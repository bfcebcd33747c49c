---------------------------- MODULE TrialJournal ----------------------------
(***************************************************************************)
(* The durable trial journal of a dataset campaign                         *)
(* (cli/src/ul_cli/dataset_trial_journal.py).  Every transition of a trial *)
(* unit is one line of an append-only, hash-chained file; a second file,   *)
(* the anchor, holds the length and the last digest of that chain and is   *)
(* replaced after every line.  A process that opens the journal for        *)
(* resume refuses it unless file and anchor agree, and then quarantines    *)
(* every unit whose target delivery was left running.                      *)
(*                                                                         *)
(* An append is not atomic: write, fsync, stage the new anchor, rename it, *)
(* fsync the directory, update memory.  Between any two of these steps the *)
(* process may be killed, the step may raise, or the machine may lose      *)
(* power and with it whatever was not yet on the disk.                     *)
(*                                                                         *)
(* Digests are perfect: a digest is modelled by the chain it digests.      *)
(***************************************************************************)
EXTENDS Integers, Sequences, FiniteSets

CONSTANTS
    Unit,       \* the trial units of the immutable work plan
    Proc,       \* command invocations, named by their process id
    Terminal,   \* the terminal trial states in use
    MaxLines,   \* the journal's size limit, in lines
    NoProc,     \* "nobody holds the lock"
    NoAnchor    \* "there is no anchor file"

ASSUME PlanIsFinite == IsFiniteSet(Unit)
ASSUME TerminalStates ==
    /\ "quarantined" \in Terminal
    /\ "planned" \notin Terminal
    /\ "running" \notin Terminal
ASSUME SizeLimit == MaxLines \in Nat
ASSUME NobodyIsNotAProcess == NoProc \notin Proc

State == {"planned", "running"} \cup Terminal
Entry == [unit : Unit, state : State \ {"planned"}]
Chain == Seq(Entry)

ASSUME NoAnchorIsNotAChain == NoAnchor \notin Chain

(* Where a process stands inside create, open or _append.                  *)
Step == {"down", "created", "locked", "linked", "opening", "failed",
         "idle", "written", "synced", "staged", "replaced", "anchored"}

VARIABLES
    exists,         \* the journal file is in the directory
    file,           \* its lines
    goodLen,        \* how many leading lines parse and continue the chain
    synced,         \* how many leading lines are on the disk
    anchor,         \* the chain the anchor file digests, or NoAnchor
    stableAnchor,   \* the anchor that survives a power loss
    extraLink,      \* the anchor still has a second hard link, its temp file
    temps,          \* process ids whose anchor temp file was left behind
    lock,           \* holder of the exclusive flock on the journal
    step,           \* step[p]: where process p stands
    recovering,     \* processes still inside open_dataset_trial_journal
    mem,            \* mem[p]: _records of p's journal object
    pending,        \* pending[p]: the record p is appending
    starts,         \* starts[u]: how often start(u) returned (history)
    acked,          \* acked[u]: last state an append of u returned for (history)
    disturbed       \* an append or a creation was cut short (history)

disk    == <<exists, file, goodLen, synced, anchor, stableAnchor, extraLink, temps>>
process == <<lock, step, recovering, mem, pending>>
history == <<starts, acked, disturbed>>
vars    == <<disk, process, history>>

---------------------------------------------------------------------------
Units(chain) == {chain[i].unit : i \in DOMAIN chain}

(* _states: the state of the last record of a unit, "planned" if none.     *)
StateOf(chain, u) ==
    IF u \in Units(chain)
    THEN chain[CHOOSE i \in DOMAIN chain :
                  /\ chain[i].unit = u
                  /\ \A j \in DOMAIN chain : j > i => chain[j].unit # u].state
    ELSE "planned"

(* open_dataset_trial_journal accepts what is on the disk.                 *)
Reopenable ==
    /\ exists
    /\ goodLen = Len(file)
    /\ anchor = file
    /\ ~extraLink

RunningUnits(chain) == {u \in Units(chain) : StateOf(chain, u) = "running"}

Smaller(a, b) == IF a < b THEN a ELSE b

Init ==
    /\ exists = FALSE /\ file = <<>> /\ goodLen = 0 /\ synced = 0
    /\ anchor = NoAnchor /\ stableAnchor = NoAnchor /\ extraLink = FALSE
    /\ temps = {}
    /\ lock = NoProc
    /\ step = [p \in Proc |-> "down"]
    /\ recovering = {}
    /\ mem = [p \in Proc |-> <<>>]
    /\ pending = [p \in Proc |-> <<>>]
    /\ starts = [u \in Unit |-> 0]
    /\ acked = [u \in Unit |-> "planned"]
    /\ disturbed = FALSE

(* The process ends, or its journal object is closed: the descriptor and   *)
(* with it the flock are gone.                                             *)
Leave(p) ==
    /\ step' = [step EXCEPT ![p] = "down"]
    /\ lock' = IF lock = p THEN NoProc ELSE lock
    /\ recovering' = recovering \ {p}
    /\ mem' = [mem EXCEPT ![p] = <<>>]
    /\ pending' = [pending EXCEPT ![p] = <<>>]

---------------------------------------------------------------------------
(* create_dataset_trial_journal: O_EXCL, flock, exclusive anchor, fsync.   *)
CreateFile(p) ==
    /\ step[p] = "down"
    /\ ~exists
    /\ exists' = TRUE
    /\ file' = <<>> /\ goodLen' = 0 /\ synced' = 0
    /\ step' = [step EXCEPT ![p] = "created"]
    /\ UNCHANGED <<anchor, stableAnchor, extraLink, temps, lock, recovering,
                   mem, pending, history>>

LockNew(p) ==
    /\ step[p] = "created"
    /\ lock = NoProc
    /\ lock' = p
    /\ step' = [step EXCEPT ![p] = "locked"]
    /\ UNCHANGED <<disk, recovering, mem, pending, history>>

(* os.link of the staged temp file: never overwrites an anchor.            *)
LinkAnchor(p) ==
    /\ step[p] = "locked"
    /\ p \notin temps
    /\ anchor = NoAnchor
    /\ anchor' = <<>>
    /\ extraLink' = TRUE
    /\ temps' = temps \cup {p}
    /\ step' = [step EXCEPT ![p] = "linked"]
    /\ UNCHANGED <<exists, file, goodLen, synced, stableAnchor, lock,
                   recovering, mem, pending, history>>

(* fsync_run_directory, unlink of the temp file, fsync_run_directory.      *)
FinishCreate(p) ==
    /\ step[p] = "linked"
    /\ stableAnchor' = anchor
    /\ extraLink' = FALSE
    /\ temps' = temps \ {p}
    /\ step' = [step EXCEPT ![p] = "idle"]
    /\ UNCHANGED <<exists, file, goodLen, synced, anchor, lock, recovering,
                   mem, pending, history>>

(* An exception during creation: the descriptor is closed and the files    *)
(* made so far stay.  os.link may fail after the temp file was written, in *)
(* which case it is unlinked; an error while writing it leaves it behind.  *)
CreateFails(p) ==
    /\ step[p] \in {"created", "locked", "linked"}
    /\ \/ temps' = temps \ (IF step[p] = "linked" THEN {p} ELSE {})
       \/ step[p] = "locked" /\ temps' = temps \cup {p}
    /\ extraLink' = (extraLink /\ step[p] # "linked")
    /\ disturbed' = TRUE
    /\ Leave(p)
    /\ UNCHANGED <<exists, file, goodLen, synced, anchor, stableAnchor,
                   starts, acked>>

---------------------------------------------------------------------------
(* open_dataset_trial_journal, up to the comparison with the anchor.       *)
OpenLock(p) ==
    /\ step[p] = "down"
    /\ exists
    /\ lock = NoProc
    /\ lock' = p
    /\ step' = [step EXCEPT ![p] = "opening"]
    /\ UNCHANGED <<disk, recovering, mem, pending, history>>

OpenAccept(p) ==
    /\ step[p] = "opening"
    /\ Reopenable
    /\ Len(file) <= 2 * Cardinality(Unit)
    /\ mem' = [mem EXCEPT ![p] = file]
    /\ recovering' = recovering \cup {p}
    /\ step' = [step EXCEPT ![p] = "idle"]
    /\ UNCHANGED <<disk, lock, pending, history>>

OpenReject(p) ==
    /\ step[p] = "opening"
    /\ ~(Reopenable /\ Len(file) <= 2 * Cardinality(Unit))
    /\ Leave(p)
    /\ UNCHANGED <<disk, history>>

(* Mutant: open does not quarantine what was left running.                 *)
OpenReturnsUnsettled(p) ==
    /\ p \in recovering
    /\ step[p] = "idle"
    /\ recovering' = recovering \ {p}
    /\ UNCHANGED <<disk, lock, step, mem, pending, history>>

(* The loop over running_units is over: open returns.                      *)
OpenReturns(p) ==
    /\ p \in recovering
    /\ step[p] = "idle"
    /\ RunningUnits(mem[p]) = {}
    /\ recovering' = recovering \ {p}
    /\ UNCHANGED <<disk, lock, step, mem, pending, history>>

(* Mutants: no test that a unit starts only from "planned"; no test that a *)
(* settled unit stays settled.                                             *)
MayStartAgain(p, u, s) ==
    /\ step[p] = "idle"
    /\ StateOf(mem[p], u) \notin Terminal
    /\ Len(mem[p]) < 2 * Cardinality(Unit)
    /\ Len(file) < MaxLines
    /\ p \in recovering => s = "quarantined" /\ u \in RunningUnits(mem[p])

MaySettleAgain(p, u, s) ==
    /\ step[p] = "idle"
    /\ s = "running" => StateOf(mem[p], u) = "planned"
    /\ Len(mem[p]) < 2 * Cardinality(Unit)
    /\ Len(file) < MaxLines
    /\ p \in recovering => s = "quarantined" /\ u \in RunningUnits(mem[p])

---------------------------------------------------------------------------
(* The checks of _append, and who calls it with what.                      *)
MayAppend(p, u, s) ==
    /\ step[p] = "idle"
    /\ StateOf(mem[p], u) \notin Terminal
    /\ s = "running" => StateOf(mem[p], u) = "planned"
    /\ Len(mem[p]) < 2 * Cardinality(Unit)
    /\ Len(file) < MaxLines
    /\ p \in recovering => s = "quarantined" /\ u \in RunningUnits(mem[p])

(* The line written continues the chain only if memory is what the file    *)
(* holds; otherwise its sequence number or its previous digest is wrong.   *)
WriteLine(p, u, s) ==
    /\ MayAppend(p, u, s)
    /\ file' = Append(file, [unit |-> u, state |-> s])
    /\ goodLen' = IF goodLen = Len(file) /\ file = mem[p] THEN goodLen + 1 ELSE goodLen
    /\ pending' = [pending EXCEPT ![p] = <<[unit |-> u, state |-> s]>>]
    /\ step' = [step EXCEPT ![p] = "written"]
    /\ UNCHANGED <<exists, synced, anchor, stableAnchor, extraLink, temps,
                   lock, recovering, mem, history>>

(* Mutant: the line is not synced.                                         *)
FsyncSkipped(p) ==
    /\ step[p] = "written"
    /\ step' = [step EXCEPT ![p] = "synced"]
    /\ UNCHANGED <<exists, file, synced, goodLen, anchor, stableAnchor, extraLink,
                   temps, lock, recovering, mem, pending, history>>

(* _write_all raises half-way (or the process dies there): a torn line.    *)
TearLine(p, u, s) ==
    /\ MayAppend(p, u, s)
    /\ file' = Append(file, [unit |-> u, state |-> s])
    /\ step' = [step EXCEPT ![p] = IF p \in recovering THEN "failed" ELSE "idle"]
    /\ disturbed' = TRUE
    /\ UNCHANGED <<exists, goodLen, synced, anchor, stableAnchor, extraLink,
                   temps, lock, recovering, mem, pending, starts, acked>>

(* os.fsync of the journal file.                                           *)
FsyncFile(p) ==
    /\ step[p] = "written"
    /\ synced' = Len(file)
    /\ step' = [step EXCEPT ![p] = "synced"]
    /\ UNCHANGED <<exists, file, goodLen, anchor, stableAnchor, extraLink,
                   temps, lock, recovering, mem, pending, history>>

StageAnchor(p) ==
    /\ step[p] = "synced"
    /\ p \notin temps
    /\ temps' = temps \cup {p}
    /\ step' = [step EXCEPT ![p] = "staged"]
    /\ UNCHANGED <<exists, file, goodLen, synced, anchor, stableAnchor,
                   extraLink, lock, recovering, mem, pending, history>>

(* Mutant: the rename of the anchor is not made durable.                   *)
FsyncDirectorySkipped(p) ==
    /\ step[p] = "replaced"
    /\ step' = [step EXCEPT ![p] = "anchored"]
    /\ UNCHANGED <<exists, file, goodLen, synced, anchor, stableAnchor, extraLink,
                   temps, lock, recovering, mem, pending, history>>

(* os.replace: the new anchor digests memory plus the pending record.      *)
ReplaceAnchor(p) ==
    /\ step[p] = "staged"
    /\ anchor' = Append(mem[p], pending[p][1])
    /\ extraLink' = FALSE
    /\ temps' = temps \ {p}
    /\ step' = [step EXCEPT ![p] = "replaced"]
    /\ UNCHANGED <<exists, file, goodLen, synced, stableAnchor, lock,
                   recovering, mem, pending, history>>

FsyncDirectory(p) ==
    /\ step[p] = "replaced"
    /\ stableAnchor' = anchor
    /\ step' = [step EXCEPT ![p] = "anchored"]
    /\ UNCHANGED <<exists, file, goodLen, synced, anchor, extraLink, temps,
                   lock, recovering, mem, pending, history>>

(* Memory is updated and the call returns.                                 *)
AppendReturns(p) ==
    /\ step[p] = "anchored"
    /\ LET entry == pending[p][1] IN
         /\ acked' = [acked EXCEPT ![entry.unit] = entry.state]
         /\ starts' = IF entry.state = "running"
                      THEN [starts EXCEPT ![entry.unit] = @ + 1]
                      ELSE starts
    /\ mem' = [mem EXCEPT ![p] = Append(@, pending[p][1])]
    /\ pending' = [pending EXCEPT ![p] = <<>>]
    /\ step' = [step EXCEPT ![p] = "idle"]
    /\ UNCHANGED <<disk, lock, recovering, disturbed>>

(* A step of _append raises.  Memory keeps its old records.  Inside open   *)
(* the exception ends the command; elsewhere the caller may append again,  *)
(* as the runner does when it quarantines the trials in flight.            *)
AppendFails(p) ==
    /\ step[p] \in {"written", "synced", "staged", "replaced"}
    /\ temps' \in CASE step[p] = "synced" -> {temps, temps \cup {p}}
                    [] step[p] = "staged" -> {temps \ {p}}
                    [] OTHER              -> {temps}
    /\ step' = [step EXCEPT ![p] = IF p \in recovering THEN "failed" ELSE "idle"]
    /\ pending' = [pending EXCEPT ![p] = <<>>]
    /\ disturbed' = TRUE
    /\ UNCHANGED <<exists, file, goodLen, synced, anchor, stableAnchor,
                   extraLink, lock, recovering, mem, starts, acked>>

(* flush, called at every safe boundary.                                   *)
Flush(p) ==
    /\ step[p] = "idle"
    /\ p \notin recovering
    /\ synced' = Len(file)
    /\ UNCHANGED <<exists, file, goodLen, anchor, stableAnchor, extraLink,
                   temps, process, history>>

Close(p) ==
    /\ step[p] \in {"idle", "failed"}
    /\ Leave(p)
    /\ UNCHANGED <<disk, history>>

(* The process is killed in the middle of a call; its lock goes with it,   *)
(* what it wrote and the temp file it staged stay.                         *)
Kill(p) ==
    /\ step[p] \notin {"down", "idle", "failed"}
    /\ Leave(p)
    /\ disturbed' = TRUE
    /\ UNCHANGED <<disk, starts, acked>>

(* Everything not fsynced may be lost: a suffix of the lines, the last     *)
(* survivor possibly torn; the rename of the anchor; a new directory entry *)
(* of the journal itself, until the directory is synced for the first time.*)
PowerLoss ==
    /\ \E n \in synced .. Len(file) :
         /\ file' = SubSeq(file, 1, n)
         /\ synced' = n
         /\ goodLen' \in {Smaller(goodLen, n)} \cup
                         (IF n > synced THEN {Smaller(goodLen, n - 1)} ELSE {})
    /\ anchor' \in {anchor, stableAnchor}
    /\ stableAnchor' = anchor'
    /\ exists' \in {exists} \cup (IF anchor' = NoAnchor THEN {FALSE} ELSE {})
    /\ extraLink' = (extraLink /\ anchor' # NoAnchor)
    /\ temps' \in {temps, {}}
    /\ lock' = NoProc
    /\ step' = [p \in Proc |-> "down"]
    /\ recovering' = {}
    /\ mem' = [p \in Proc |-> <<>>]
    /\ pending' = [p \in Proc |-> <<>>]
    /\ disturbed' = (disturbed \/ \E p \in Proc : step[p] \notin {"down", "idle", "opening"})
    /\ UNCHANGED <<starts, acked>>

Create(p) == CreateFile(p) \/ LockNew(p) \/ LinkAnchor(p) \/ FinishCreate(p)

Open(p) == OpenLock(p) \/ OpenAccept(p) \/ OpenReject(p) \/ OpenReturns(p)

AppendRecord(p) ==
    \/ \E u \in Unit, s \in State \ {"planned"} : WriteLine(p, u, s)
    \/ FsyncFile(p) \/ StageAnchor(p) \/ ReplaceAnchor(p)
    \/ FsyncDirectory(p) \/ AppendReturns(p)

Fault(p) ==
    \/ CreateFails(p)
    \/ \E u \in Unit, s \in State \ {"planned"} : TearLine(p, u, s)
    \/ AppendFails(p) \/ Kill(p)

Next ==
    \/ \E p \in Proc : Create(p) \/ Open(p) \/ AppendRecord(p) \/ Flush(p)
                         \/ Close(p) \/ Fault(p)
    \/ PowerLoss

Spec == Init /\ [][Next]_vars
---------------------------------------------------------------------------
(* The state of DatasetTrialJournal and its files keeps its type: file,    *)
(* anchor and every process's copy are sequences of transitions, no more is*)
(* synced than was written, one process at most holds the lock.            *)
TypeOK ==
    /\ exists \in BOOLEAN /\ extraLink \in BOOLEAN /\ disturbed \in BOOLEAN
    /\ file \in Chain
    /\ goodLen \in 0 .. Len(file) /\ synced \in 0 .. Len(file)
    /\ anchor \in Chain \cup {NoAnchor}
    /\ stableAnchor \in Chain \cup {NoAnchor}
    /\ temps \subseteq Proc
    /\ lock \in Proc \cup {NoProc}
    /\ step \in [Proc -> Step]
    /\ recovering \subseteq Proc
    /\ mem \in [Proc -> Chain]
    /\ pending \in [Proc -> Chain]
    /\ starts \in [Unit -> Nat]
    /\ acked \in [Unit -> State]

(* The durable record: what the next process would find after any crash.   *)
Durable == IF stableAnchor = NoAnchor THEN <<>> ELSE stableAnchor

(* Across any number of processes, kills, I/O errors and power losses, the *)
(* permission to contact the target for a unit is given at most once: the  *)
(* journal never lets a trial be retried.                                  *)
StartsAtMostOnce == \A u \in Unit : starts[u] <= 1

(* A state an append returned for is still what the durable record says,   *)
(* except that a running unit may since have been settled.                 *)
AcknowledgedIsDurable ==
    \A u \in Unit :
        /\ acked[u] \in Terminal => StateOf(Durable, u) = acked[u]
        /\ acked[u] = "running" => StateOf(Durable, u) # "planned"

(* A journal no append or creation of which was cut short can be resumed,  *)
(* even if the machine loses power the moment after: pausing between two   *)
(* transitions never costs the campaign.                                   *)
UndisturbedReopens ==
    (/\ ~disturbed
     /\ exists
     /\ \A p \in Proc : step[p] \in {"down", "idle", "opening"})
    => Reopenable /\ synced = Len(file) /\ stableAnchor = anchor

(* When open_dataset_trial_journal returns, no unit whose target may have  *)
(* been contacted by an earlier process is left without a final outcome,   *)
(* so the resumed campaign cannot mistake it for work still to be done.    *)
ResumeSettlesEveryDelivery ==
    [][\A p \in Proc : (p \in recovering /\ p \notin recovering' /\ step'[p] = "idle")
            => \A u \in Unit : starts[u] > 0 => StateOf(mem[p], u) \in Terminal]_vars

(* Why: whoever may append, and whatever a later process may read, has     *)
(* every acknowledged transition.  This is the inductive invariant.        *)
Visible == IF anchor = NoAnchor THEN <<>> ELSE anchor

Remembers(chain) ==
    \A u \in Unit :
        /\ acked[u] \in Terminal => StateOf(chain, u) = acked[u]
        /\ acked[u] = "running" => StateOf(chain, u) # "planned"
        /\ starts[u] > 0 => StateOf(chain, u) # "planned"

Appending == {"written", "synced", "staged", "replaced", "anchored"}

LockProtects ==
    \A p \in Proc :
        /\ step[p] \notin {"down", "created"} => lock = p
        /\ p \in recovering => step[p] \in {"idle", "failed"} \cup Appending

PendingIsLegal ==
    \A p \in Proc : step[p] \in Appending =>
        /\ Len(pending[p]) = 1
        /\ StateOf(mem[p], pending[p][1].unit) \notin Terminal
        /\ pending[p][1].state = "running"
               => StateOf(mem[p], pending[p][1].unit) = "planned"

AnchorFollowsMemory ==
    \A p \in Proc :
        /\ step[p] = "linked" => anchor = <<>>
        /\ step[p] \in {"replaced", "anchored"}
               => anchor = Append(mem[p], pending[p][1])
        /\ step[p] = "anchored" => stableAnchor = anchor

NothingForgotten ==
    /\ Remembers(Visible)
    /\ Remembers(Durable)
    /\ \A p \in Proc : step[p] \in {"idle"} \cup Appending => Remembers(mem[p])

Inv ==
    /\ TypeOK /\ LockProtects /\ PendingIsLegal /\ AnchorFollowsMemory
    /\ NothingForgotten /\ StartsAtMostOnce

(* The journal implements the atomic record of outcomes it promises.       *)
Outcomes == INSTANCE TrialOutcomes WITH
                outcome   <- [u \in Unit |-> StateOf(Durable, u)],
                contacted <- {u \in Unit : starts[u] > 0}
ImplementsOutcomes == Outcomes!Spec

=============================================================================
