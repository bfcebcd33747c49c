----------------------------- MODULE ReviewStore -----------------------------
(***************************************************************************)
(* Human judgments of findings (cli/src/ul_cli/dataset_review.py).  The    *)
(* review file is a history: one line per decision, about one finding      *)
(* (review_dataset_finding) or about a cohort of similar ones that nobody  *)
(* judged yet (review_dataset_pattern).  Nothing is edited; a judgment is  *)
(* replaced by a later one that names it.                                  *)
(*                                                                         *)
(* Every command reads the evidence, which a running campaign appends to,  *)
(* and the history, decides on what it read, and only then takes the lock  *)
(* of the review file, checks again and replaces the file by a copy with   *)
(* one more line.  Commands of several reviewers interleave, may be killed *)
(* anywhere, and the machine may lose power.                               *)
(***************************************************************************)
EXTENDS Integers, Sequences, FiniteSets

CONSTANTS
    Reviewer,       \* people, each running one command at a time
    Finding,        \* finding ids
    Lines,          \* the evidence: Lines[i] are the findings of record i
    Group,          \* mechanisms that similar findings share
    NoGroup,        \* a finding whose mechanism exceeds the grouping limits
    Status,         \* human judgments
    Classified,     \* the classifications of findings to consider
    MaxRecords,     \* _MAXIMUM_REVIEW_RECORDS
    MaxCommands,    \* bound: commands that are started
    NoOne           \* "nobody holds the lock"

Automatic == {"needs_review", "expected", "inconclusive"}

ASSUME LinesHoldFindings == Lines \in Seq(SUBSET Finding) /\ Len(Lines) >= 1
ASSUME JudgmentsAreFinal == "needs_review" \notin Status
ASSUME Classifications ==
    Classified \subseteq [Finding -> [group : Group \cup {NoGroup}, automatic : Automatic]]
ASSUME Bounds == MaxRecords \in Nat /\ MaxCommands \in Nat
ASSUME NobodyIsNotAReviewer == NoOne \notin Reviewer /\ NoGroup \notin Group

VARIABLES
    kind,       \* kind[f]: group and automatic judgment of f, from its evidence
    lines,      \* records in the evidence file
    history,    \* the review file
    stable,     \* the review file that survives a power loss
    lock,       \* holder of the lock file
    step,       \* step[r]: where the command of r stands
    draft,      \* draft[r]: the decision r asks for
    seen,       \* seen[r]: records of the evidence r loaded first
    reseen,     \* reseen[r]: records the summary for the preview loaded
    read,       \* read[r]: the history r decided on
    held,       \* held[r]: the history r read under the lock
    commands,   \* commands started so far, the source of fresh ids
    acked       \* decisions a command reported as recorded (history variable)

files   == <<lines, history, stable>>
command == <<lock, step, draft, seen, reseen, read, held>>
vars    == <<kind, files, command, commands, acked>>

Step == {"idle", "asked", "evidence", "history", "summary", "drafted",
         "locked", "replaced"}

Id == 1 .. MaxCommands
ReviewId == Id \X Finding

(* A line of the history.  A pattern review stands for the reviews derived *)
(* from it, one for each finding it decides.                               *)
Decision == [id : Id, decides : SUBSET Finding, status : Status,
             supersedes : ReviewId \cup {<<>>}, group : Group \cup {NoGroup},
             exceptions : SUBSET Finding, manifest : 0 .. Len(Lines)]
IsPattern(d) == d.group # NoGroup
NoDraft == [id |-> 0]

---------------------------------------------------------------------------
Log == INSTANCE ReviewLog WITH decisions <- history, kept <- Len(stable)

FindingsIn(n) == UNION {Lines[i] : i \in 1 .. n}
Judged(h) == UNION {h[i].decides : i \in DOMAIN h}
Siblings(g, n) == {f \in FindingsIn(n) : kind[f].group = g}

(* _effective_finding_status: without a human judgment, the automatic one. *)
NeedsReview(h, f) == f \notin Judged(h) /\ kind[f].automatic = "needs_review"

(* The pattern of a report that is still to be decided, and its siblings.  *)
Cohort(h, n, g) == {f \in Siblings(g, n) : NeedsReview(h, f)}

(* _validate_review_history, for the line that follows history h.          *)
ValidOccurrence(h, d, n) ==
    \A f \in d.decides : f \in FindingsIn(n) /\ d.supersedes = Log!ActiveId(h, f)

(* _validate_pattern_review_snapshot: the review covers exactly what its   *)
(* evidence manifest holds of the group and nobody had judged before.      *)
ValidPattern(h, d, n) ==
    /\ d.manifest <= n
    /\ d.decides \cup d.exceptions \subseteq FindingsIn(n)
    /\ d.decides = Siblings(d.group, d.manifest) \ Judged(h)
    /\ d.exceptions = Siblings(d.group, d.manifest) \cap Judged(h)
    /\ \A i \in DOMAIN h : ~(h[i].group = d.group /\ h[i].decides = d.decides)

ValidLine(h, d, n) == IF IsPattern(d) THEN ValidPattern(h, d, n) ELSE ValidOccurrence(h, d, n)

Valid(h, n) == \A i \in DOMAIN h : ValidLine(SubSeq(h, 1, i - 1), h[i], n)

(* _read_reviews_descriptor and _validate_review_history accept history h. *)
Readable(h, n) == Len(h) <= MaxRecords /\ Valid(h, n)

---------------------------------------------------------------------------
Init ==
    /\ kind \in Classified
    /\ lines = 1 /\ history = <<>> /\ stable = <<>>
    /\ lock = NoOne
    /\ step = [r \in Reviewer |-> "idle"]
    /\ draft = [r \in Reviewer |-> NoDraft]
    /\ seen = [r \in Reviewer |-> 0] /\ reseen = [r \in Reviewer |-> 0]
    /\ read = [r \in Reviewer |-> <<>>] /\ held = [r \in Reviewer |-> <<>>]
    /\ commands = 0
    /\ acked = {}

(* Mutant: the lock is not given back.                                     *)
EndLocked(r) ==
    /\ step' = [step EXCEPT ![r] = "idle"]
    /\ draft' = [draft EXCEPT ![r] = NoDraft]
    /\ seen' = [seen EXCEPT ![r] = 0] /\ reseen' = [reseen EXCEPT ![r] = 0]
    /\ read' = [read EXCEPT ![r] = <<>>] /\ held' = [held EXCEPT ![r] = <<>>]
    /\ UNCHANGED lock

(* The command ends; its descriptors, and with them the lock, are closed.  *)
End(r) ==
    /\ step' = [step EXCEPT ![r] = "idle"]
    /\ draft' = [draft EXCEPT ![r] = NoDraft]
    /\ seen' = [seen EXCEPT ![r] = 0] /\ reseen' = [reseen EXCEPT ![r] = 0]
    /\ read' = [read EXCEPT ![r] = <<>>] /\ held' = [held EXCEPT ![r] = <<>>]
    /\ lock' = IF lock = r THEN NoOne ELSE lock

(* A campaign that still runs appends a record.                            *)
EvidenceGrows ==
    /\ lines < Len(Lines)
    /\ lines' = lines + 1
    /\ UNCHANGED <<kind, history, stable, command, commands, acked>>

(* review_dataset_finding.  What the reviewer names as superseded is what  *)
(* some report showed earlier: any judgment, or none.                      *)
ReviewFinding(r, f, status, supersedes) ==
    /\ step[r] = "idle"
    /\ commands < MaxCommands
    /\ f \in FindingsIn(lines)
    /\ commands' = commands + 1
    /\ draft' = [draft EXCEPT ![r] =
           [id |-> commands', decides |-> {f}, status |-> status,
            supersedes |-> supersedes, group |-> NoGroup,
            exceptions |-> {}, manifest |-> 0]]
    /\ seen' = [seen EXCEPT ![r] = lines]
    /\ step' = [step EXCEPT ![r] = "drafted"]
    /\ UNCHANGED <<kind, files, lock, reseen, read, held, acked>>

(* review_dataset_pattern.  The snapshot id it is called with comes from a *)
(* report and stands for the findings that report listed to be decided.    *)
ReviewPattern(r, g, status) ==
    /\ step[r] = "idle"
    /\ commands < MaxCommands
    /\ Readable(history, lines)
    /\ Cohort(history, lines, g) # {}
    /\ commands' = commands + 1
    /\ draft' = [draft EXCEPT ![r] =
           [id |-> commands', decides |-> Cohort(history, lines, g), status |-> status,
            supersedes |-> <<>>, group |-> g, exceptions |-> {}, manifest |-> 0]]
    /\ step' = [step EXCEPT ![r] = "asked"]
    /\ UNCHANGED <<kind, files, lock, seen, reseen, read, held, acked>>

LoadEvidence(r) ==
    /\ step[r] = "asked"
    /\ seen' = [seen EXCEPT ![r] = lines]
    /\ step' = [step EXCEPT ![r] = "evidence"]
    /\ UNCHANGED <<kind, files, lock, draft, reseen, read, held, commands, acked>>

LoadReviews(r) ==
    /\ step[r] = "evidence"
    /\ IF Readable(history, seen[r])
       THEN /\ read' = [read EXCEPT ![r] = history]
            /\ step' = [step EXCEPT ![r] = "history"]
            /\ UNCHANGED <<lock, draft, seen, reseen, held>>
       ELSE End(r)
    /\ UNCHANGED <<kind, files, commands, acked>>

(* _summarize_dataset_evidence loads both files again.                     *)
LoadEvidenceAgain(r) ==
    /\ step[r] = "history"
    /\ reseen' = [reseen EXCEPT ![r] = lines]
    /\ step' = [step EXCEPT ![r] = "summary"]
    /\ UNCHANGED <<kind, files, lock, draft, seen, read, held, commands, acked>>

(* The snapshot must be among the patterns of the summary; every finding   *)
(* of the group that is not in it becomes an exception.                    *)
Preview(r) ==
    LET d == draft[r] IN
    /\ step[r] = "summary"
    /\ IF /\ Readable(history, reseen[r])
          /\ Cohort(history, reseen[r], d.group) = d.decides
          /\ d.decides \subseteq FindingsIn(seen[r])
       THEN /\ draft' = [draft EXCEPT
                   ![r].exceptions = Siblings(d.group, reseen[r]) \ d.decides,
                   ![r].manifest = seen[r]]
            /\ step' = [step EXCEPT ![r] = "drafted"]
            /\ UNCHANGED <<lock, seen, reseen, read, held>>
       ELSE End(r)
    /\ UNCHANGED <<kind, files, commands, acked>>

---------------------------------------------------------------------------
(* Mutant: --supersedes is looked at only if there is an active review.    *)
AcceptsStrayFinding(r, h) ==
    /\ Readable(h, seen[r])
    /\ \A f \in draft[r].decides \cap Judged(h) :
           draft[r].supersedes = Log!ActiveId(h, f)

AcceptsFinding(r, h) ==
    /\ Readable(h, seen[r])
    /\ \A f \in draft[r].decides : draft[r].supersedes = Log!ActiveId(h, f)

(* Mutant: what the preview found is not checked again under the lock.     *)
AcceptsPatternAsRead(r, h) ==
    Readable(h, seen[r]) /\ Len(h) + 1 <= MaxRecords

AcceptsPattern(r, h) ==
    /\ Readable(h, seen[r])
    /\ h = read[r]
    /\ Valid(Append(h, draft[r]), seen[r])
    /\ Len(h) + 1 <= MaxRecords

Accepts(r, h) == IF IsPattern(draft[r]) THEN AcceptsPattern(r, h) ELSE AcceptsFinding(r, h)

(* _locked_reviews_file: the lock is a file of its own; the history is     *)
(* opened, read and checked under the lock, or the command is refused.     *)
Lock(r) ==
    /\ step[r] = "drafted"
    /\ lock = NoOne
    /\ IF Accepts(r, history)
       THEN /\ lock' = r
            /\ held' = [held EXCEPT ![r] = history]
            /\ step' = [step EXCEPT ![r] = "locked"]
            /\ UNCHANGED <<draft, seen, reseen, read>>
       ELSE End(r)
    /\ UNCHANGED <<kind, files, commands, acked>>

(* _append_review_atomically: a synced copy with one more line replaces    *)
(* the file, provided the path still names the one that was copied.        *)
Replace(r) ==
    /\ step[r] = "locked"
    /\ IF history = held[r]
       THEN /\ history' = Append(held[r], draft[r])
            /\ step' = [step EXCEPT ![r] = "replaced"]
            /\ UNCHANGED <<lock, draft, seen, reseen, read, held>>
       ELSE UNCHANGED history /\ End(r)
    /\ UNCHANGED <<kind, lines, stable, commands, acked>>

(* Mutant: the directory is not synced.                                    *)
AcknowledgeUnsynced(r) ==
    /\ step[r] = "replaced"
    /\ acked' = acked \cup {draft[r]}
    /\ End(r)
    /\ UNCHANGED <<kind, files, commands>>

(* The directory is synced, the lock given back, the review reported.      *)
Acknowledge(r) ==
    /\ step[r] = "replaced"
    /\ stable' = history
    /\ acked' = acked \cup {draft[r]}
    /\ End(r)
    /\ UNCHANGED <<kind, lines, history, commands>>

(* Killed, or refused by an I/O error: also a failed sync of the directory,*)
(* which the command reports as a replacement it cannot vouch for.         *)
Fail(r) ==
    /\ step[r] # "idle"
    /\ End(r)
    /\ UNCHANGED <<kind, files, commands, acked>>

(* Renames that were not synced may be lost, the newest first.             *)
PowerLoss ==
    /\ history' \in {stable} \cup {SubSeq(history, 1, n) : n \in Len(stable) .. Len(history)}
    /\ stable' = history'
    /\ lock' = NoOne
    /\ step' = [r \in Reviewer |-> "idle"]
    /\ draft' = [r \in Reviewer |-> NoDraft]
    /\ seen' = [r \in Reviewer |-> 0] /\ reseen' = [r \in Reviewer |-> 0]
    /\ read' = [r \in Reviewer |-> <<>>] /\ held' = [r \in Reviewer |-> <<>>]
    /\ UNCHANGED <<kind, lines, commands, acked>>

Work(r) ==
    \/ LoadEvidence(r) \/ LoadReviews(r) \/ LoadEvidenceAgain(r) \/ Preview(r)
    \/ Lock(r) \/ Replace(r) \/ Acknowledge(r)

Known == UNION {{<<history[i].id, f>> : f \in history[i].decides} : i \in DOMAIN history}

Next ==
    \/ EvidenceGrows \/ PowerLoss
    \/ \E r \in Reviewer :
         \/ \E f \in Finding, status \in Status, id \in Known \cup {<<>>} :
                ReviewFinding(r, f, status, id)
         \/ \E g \in Group, status \in Status : ReviewPattern(r, g, status)
         \/ Work(r) \/ Fail(r)

Spec == Init /\ [][Next]_vars
FairSpec == Spec /\ \A r \in Reviewer : WF_vars(Work(r))
---------------------------------------------------------------------------
(* The two files and the commands keep their types.                        *)
TypeOK ==
    /\ kind \in Classified
    /\ lines \in 1 .. Len(Lines)
    /\ history \in Seq(Decision) /\ stable \in Seq(Decision)
    /\ lock \in Reviewer \cup {NoOne}
    /\ step \in [Reviewer -> Step]
    /\ draft \in [Reviewer -> Decision \cup {NoDraft}]
    /\ seen \in [Reviewer -> 0 .. Len(Lines)] /\ reseen \in [Reviewer -> 0 .. Len(Lines)]
    /\ read \in [Reviewer -> Seq(Decision)] /\ held \in [Reviewer -> Seq(Decision)]
    /\ commands \in 0 .. MaxCommands
    /\ acked \subseteq Decision

(* Only the holder of the lock is past it.                                 *)
LockIsHeld == \A r \in Reviewer : step[r] \in {"locked", "replaced"} => lock = r

(* A command has a decision to record: a pattern that replaces nobody's    *)
(* judgment, or a finding of the evidence it loaded.                       *)
DraftsAreDecisions ==
    \A r \in Reviewer : step[r] # "idle" =>
        /\ draft[r] \in Decision
        /\ step[r] \in {"asked", "evidence", "history", "summary"} => IsPattern(draft[r])
        /\ IF IsPattern(draft[r]) THEN draft[r].supersedes = <<>>
                                  ELSE draft[r].decides \subseteq FindingsIn(seen[r])

(* Evidence is only appended to.                                           *)
SeenIsPast == \A r \in Reviewer : seen[r] <= lines /\ reseen[r] <= lines

(* A power loss takes the newest decisions only.                           *)
StableIsPrefix == /\ Len(stable) <= Len(history)
                  /\ stable = SubSeq(history, 1, Len(stable))

(* Judgments that d replaces are those it names.                           *)
NamesWhatItReplaces(h, d) == \A f \in d.decides : d.supersedes = Log!ActiveId(h, f)

(* What was checked under the lock still holds when the file is replaced.  *)
LockedIsChecked ==
    \A r \in Reviewer : step[r] = "locked" =>
        /\ held[r] = history
        /\ NamesWhatItReplaces(history, draft[r])
        /\ Valid(Append(history, draft[r]), seen[r])

ReplacedIsLast ==
    \A r \in Reviewer : step[r] = "replaced" =>
        history # <<>> /\ history[Len(history)] = draft[r]

(* However commands of several reviewers, the growing evidence and crashes *)
(* interleave, the history on disk is one that every later command accepts:*)
(* no decision is ever written that makes the file unreadable.             *)
HistoryStaysValid == Valid(history, lines) /\ Valid(stable, lines)

(* A review that was reported as recorded is in every later history, also  *)
(* after other reviewers' commands, kills and power losses.                *)
RecordedReviewsSurvive ==
    \A d \in acked : \E i \in DOMAIN stable : stable[i] = d

(* The inductive invariant: the types, the lock, and what a command knows  *)
(* of the two files at each of its steps.                                  *)
Inv ==
    /\ TypeOK
    /\ LockIsHeld
    /\ DraftsAreDecisions
    /\ SeenIsPast
    /\ StableIsPrefix
    /\ LockedIsChecked
    /\ ReplacedIsLast
    /\ HistoryStaysValid
    /\ RecordedReviewsSurvive

(* A judgment never takes the place of one its author did not name, and a  *)
(* decision about a pattern never touches a finding someone judged between *)
(* the report its author read and the decision: the file is a ReviewLog.   *)
ImplementsLog == Log!Spec

(* No command waits for ever, whatever becomes of the others.              *)
CommandsEnd == \A r \in Reviewer : step[r] # "idle" ~> step[r] = "idle"
=============================================================================
