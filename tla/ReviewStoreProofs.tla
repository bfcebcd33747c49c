------------------------- MODULE ReviewStoreProofs -------------------------
(***************************************************************************)
(* Theorems about the review file, for any reviewers, findings, evidence   *)
(* and limits.                                                             *)
(*                                                                         *)
(* The argument: Inv is inductive.  Only the holder of the lock replaces   *)
(* the file (LockIsHeld), so what it checked still holds of the history it *)
(* extends (LockedIsChecked); the evidence it checked against is a prefix  *)
(* of the present one (SeenIsPast), and a history that is valid against a  *)
(* prefix is valid against the whole (ValidMonotone).                      *)
(***************************************************************************)
EXTENDS ReviewStore, TLAPS

History == Seq(Decision)
Records == 0 .. Len(Lines)

LEMMA AppendProps ==
    ASSUME NEW h \in History, NEW d \in Decision
    PROVE  /\ Append(h, d) \in History
           /\ Len(h) \in Nat /\ Len(Append(h, d)) = Len(h) + 1
           /\ DOMAIN h = 1 .. Len(h)
           /\ DOMAIN Append(h, d) = 1 .. Len(h) + 1
           /\ Append(h, d)[Len(h) + 1] = d
           /\ \A i \in 1 .. Len(h) : Append(h, d)[i] = h[i]
           /\ Append(h, d) # <<>>
  BY DEF History

LEMMA PrefixProps ==
    ASSUME NEW h \in History, NEW n \in 0 .. Len(h)
    PROVE  /\ SubSeq(h, 1, n) \in History
           /\ Len(SubSeq(h, 1, n)) = n
           /\ DOMAIN SubSeq(h, 1, n) = 1 .. n
           /\ \A i \in 1 .. n : SubSeq(h, 1, n)[i] = h[i]
  BY DEF History

(* Histories of equal length with equal lines are equal.                   *)
LEMMA EqualLines ==
    ASSUME NEW h \in History, NEW g \in History, Len(h) = Len(g),
           \A i \in 1 .. Len(h) : h[i] = g[i]
    PROVE  h = g
  BY DEF History

LEMMA PrefixOfPrefix ==
    ASSUME NEW h \in History, NEW n \in 0 .. Len(h), NEW k \in 0 .. n
    PROVE  SubSeq(SubSeq(h, 1, n), 1, k) = SubSeq(h, 1, k)
<1> DEFINE p == SubSeq(h, 1, n)
<1>1. p \in History /\ Len(p) = n /\ Len(h) \in Nat /\ k \in 0 .. Len(h) /\ k \in 0 .. Len(p)
  BY PrefixProps DEF History
<1>2. /\ SubSeq(p, 1, k) \in History /\ Len(SubSeq(p, 1, k)) = k
      /\ \A i \in 1 .. k : SubSeq(p, 1, k)[i] = p[i]
  BY <1>1, PrefixProps
<1>3. /\ SubSeq(h, 1, k) \in History /\ Len(SubSeq(h, 1, k)) = k
      /\ \A i \in 1 .. k : SubSeq(h, 1, k)[i] = h[i]
  BY <1>1, PrefixProps
<1>4. \A i \in 1 .. k : p[i] = h[i]
  BY PrefixProps
<1> HIDE DEF p
<1> QED
  BY <1>2, <1>3, <1>4, EqualLines

LEMMA PrefixOfAppend ==
    ASSUME NEW h \in History, NEW d \in Decision, NEW k \in 0 .. Len(h)
    PROVE  SubSeq(Append(h, d), 1, k) = SubSeq(h, 1, k)
<1> DEFINE long == Append(h, d)
<1>1. long \in History /\ Len(h) \in Nat /\ k \in 0 .. Len(long)
      /\ \A i \in 1 .. k : long[i] = h[i]
  BY AppendProps
<1>2. /\ SubSeq(long, 1, k) \in History /\ Len(SubSeq(long, 1, k)) = k
      /\ \A i \in 1 .. k : SubSeq(long, 1, k)[i] = long[i]
  BY <1>1, PrefixProps
<1>3. /\ SubSeq(h, 1, k) \in History /\ Len(SubSeq(h, 1, k)) = k
      /\ \A i \in 1 .. k : SubSeq(h, 1, k)[i] = h[i]
  BY <1>1, PrefixProps
<1> HIDE DEF long
<1> QED
  BY <1>1, <1>2, <1>3, EqualLines

LEMMA WholePrefix ==
    ASSUME NEW h \in History
    PROVE  SubSeq(h, 1, Len(h)) = h
<1>1. Len(h) \in Nat /\ Len(h) \in 0 .. Len(h)
  BY DEF History
<1> QED
  BY <1>1, PrefixProps, EqualLines

---------------------------------------------------------------------------
(* More evidence holds at least the same findings.                         *)
LEMMA FindingsMonotone ==
    ASSUME NEW n \in Records, NEW m \in Records, n <= m
    PROVE  FindingsIn(n) \subseteq FindingsIn(m) /\ FindingsIn(m) \subseteq Finding
<1>1. Len(Lines) \in Nat /\ \A i \in 1 .. Len(Lines) : Lines[i] \subseteq Finding
  BY LinesHoldFindings
<1>2. 1 .. n \subseteq 1 .. m /\ 1 .. m \subseteq 1 .. Len(Lines)
  BY <1>1 DEF Records
<1> QED
  BY <1>1, <1>2 DEF FindingsIn

(* A line stays valid when the evidence grows, and so does a history.      *)
LEMMA LineMonotone ==
    ASSUME NEW h, NEW d \in Decision, NEW n \in Records, NEW m \in Records, n <= m,
           ValidLine(h, d, n)
    PROVE  ValidLine(h, d, m)
<1>1. FindingsIn(n) \subseteq FindingsIn(m)
  BY FindingsMonotone
<1>2. d.manifest \in Int /\ n \in Int /\ m \in Int
  <2>1. d.manifest \in Records
    BY DEF Decision, Records
  <2>2. Len(Lines) \in Nat
    BY LinesHoldFindings
  <2> QED
    BY <2>1, <2>2 DEF Records
<1>3. CASE IsPattern(d)
  <2>1. d.manifest <= n /\ d.manifest <= m <=> d.manifest <= n
    BY <1>2
  <2>2. ValidPattern(h, d, n)
    BY <1>3 DEF ValidLine
  <2>3. d.manifest <= m
    BY <2>1, <2>2 DEF ValidPattern
  <2>4. ValidPattern(h, d, m)
    BY <2>2, <2>3, <1>1, Zenon DEF ValidPattern
  <2> QED
    BY <2>4, <1>3 DEF ValidLine
<1>4. CASE ~IsPattern(d)
  BY <1>1, <1>4 DEF ValidLine, ValidOccurrence
<1> QED
  BY <1>3, <1>4

LEMMA ValidMonotone ==
    ASSUME NEW h \in History, NEW n \in Records, NEW m \in Records, n <= m, Valid(h, n)
    PROVE  Valid(h, m)
<1>1. \A i \in DOMAIN h : h[i] \in Decision
  BY DEF History
<1> QED
  BY <1>1, LineMonotone DEF Valid

(* The history a crash leaves is as valid as the one it cut short.         *)
LEMMA ValidPrefix ==
    ASSUME NEW h \in History, NEW n \in Records, NEW k \in 0 .. Len(h), Valid(h, n)
    PROVE  Valid(SubSeq(h, 1, k), n)
<1> DEFINE p == SubSeq(h, 1, k)
<1>1. /\ Len(h) \in Nat /\ DOMAIN p = 1 .. k /\ DOMAIN h = 1 .. Len(h)
      /\ \A i \in 1 .. k : p[i] = h[i]
  BY PrefixProps DEF History
<1>2. \A i \in 1 .. k : SubSeq(p, 1, i - 1) = SubSeq(h, 1, i - 1)
  BY <1>1, PrefixOfPrefix
<1>3. 1 .. k \subseteq DOMAIN h
  BY <1>1
<1> HIDE DEF p
<1>4. Valid(p, n)
  BY <1>1, <1>2, <1>3 DEF Valid
<1> QED
  BY <1>4 DEF p

(* A valid history and a line that is valid after it.                      *)
LEMMA ValidAppend ==
    ASSUME NEW h \in History, NEW n \in Records, NEW d \in Decision
    PROVE  Valid(Append(h, d), n) <=> Valid(h, n) /\ ValidLine(h, d, n)
<1> DEFINE long == Append(h, d)
<1>1. /\ Len(h) \in Nat /\ DOMAIN h = 1 .. Len(h) /\ DOMAIN long = 1 .. Len(h) + 1
      /\ long[Len(h) + 1] = d /\ \A i \in 1 .. Len(h) : long[i] = h[i]
  BY AppendProps
<1>2. \A i \in 1 .. Len(h) : SubSeq(long, 1, i - 1) = SubSeq(h, 1, i - 1)
  BY <1>1, PrefixOfAppend
<1>3. SubSeq(long, 1, (Len(h) + 1) - 1) = h
  <2>1. (Len(h) + 1) - 1 = Len(h) /\ Len(h) \in 0 .. Len(h)
    BY <1>1
  <2> QED
    BY <2>1, PrefixOfAppend, WholePrefix
<1>4. 1 .. Len(h) + 1 = (1 .. Len(h)) \cup {Len(h) + 1}
  BY <1>1
<1> HIDE DEF long
<1>5. Valid(long, n) <=> Valid(h, n) /\ ValidLine(h, d, n)
  BY <1>1, <1>2, <1>3, <1>4 DEF Valid
<1> QED
  BY <1>5 DEF long

(* A finding nobody judged has no active review.                           *)
LEMMA UnjudgedHasNoReview ==
    ASSUME NEW h \in History, NEW f, f \notin Judged(h)
    PROVE  Log!ActiveId(h, f) = <<>>
<1>1. Log!Deciding(h, f) = {}
  BY DEF Judged, Log!Deciding
<1> QED
  BY <1>1 DEF Log!ActiveId
---------------------------------------------------------------------------
(* The types of the two files, and of what the commands know.              *)
FilesOK ==
    /\ kind \in Classified
    /\ lines \in 1 .. Len(Lines)
    /\ history \in History /\ stable \in History
    /\ commands \in 0 .. MaxCommands
    /\ acked \subseteq Decision

CommandOK ==
    /\ lock \in Reviewer \cup {NoOne}
    /\ step \in [Reviewer -> Step]
    /\ draft \in [Reviewer -> Decision \cup {NoDraft}]
    /\ seen \in [Reviewer -> Records] /\ reseen \in [Reviewer -> Records]
    /\ read \in [Reviewer -> History] /\ held \in [Reviewer -> History]

LEMMA TypeParts == TypeOK <=> FilesOK /\ CommandOK
  BY DEF TypeOK, FilesOK, CommandOK, History, Records

LEMMA EndKeepsType ==
    ASSUME CommandOK, NEW r \in Reviewer, End(r)
    PROVE  CommandOK'
<1>1. <<>> \in History /\ 0 \in Records /\ "idle" \in Step
  BY LinesHoldFindings DEF History, Records, Step
<1> QED
  BY <1>1 DEF CommandOK, End

LEMMA LinesAreRecords ==
    ASSUME FilesOK
    PROVE  lines \in Records /\ FindingsIn(lines) \subseteq Finding
<1>1. lines \in Records
  BY LinesHoldFindings DEF FilesOK, Records
<1> QED
  BY <1>1, FindingsMonotone, LinesHoldFindings DEF FilesOK, Records

LEMMA FindingDraft ==
    ASSUME FilesOK, NEW r \in Reviewer, draft \in [Reviewer -> Decision \cup {NoDraft}],
           NEW f \in Finding, NEW status \in Status, NEW id \in Known \cup {<<>>},
           ReviewFinding(r, f, status, id)
    PROVE  /\ draft'[r] \in Decision
           /\ ~IsPattern(draft'[r])
           /\ draft'[r].decides = {f}
<1>1. commands' \in Id /\ commands' \in 0 .. MaxCommands
  BY Bounds DEF FilesOK, ReviewFinding, Id
<1>2. id \in ReviewId \cup {<<>>}
  <2>1. \A i \in DOMAIN history : history[i] \in Decision
    BY DEF FilesOK, History
  <2>2. Known \subseteq ReviewId
    BY <2>1 DEF Known, ReviewId, Decision
  <2> QED
    BY <2>2
<1>3. draft'[r] = [id |-> commands', decides |-> {f}, status |-> status,
                   supersedes |-> id, group |-> NoGroup, exceptions |-> {}, manifest |-> 0]
  BY DEF ReviewFinding
<1>4. 0 \in 0 .. Len(Lines)
  BY LinesHoldFindings
<1> QED
  BY <1>1, <1>2, <1>3, <1>4 DEF Decision, IsPattern

LEMMA PatternDraft ==
    ASSUME FilesOK, NEW r \in Reviewer, draft \in [Reviewer -> Decision \cup {NoDraft}],
           NEW g \in Group, NEW status \in Status, ReviewPattern(r, g, status)
    PROVE  /\ draft'[r] \in Decision
           /\ IsPattern(draft'[r])
           /\ draft'[r].supersedes = <<>>
<1>1. commands' \in Id /\ commands' \in 0 .. MaxCommands
  BY Bounds DEF FilesOK, ReviewPattern, Id
<1>2. Cohort(history, lines, g) \subseteq Finding
  BY LinesAreRecords DEF Cohort, Siblings
<1>3. draft'[r] = [id |-> commands', decides |-> Cohort(history, lines, g),
                   status |-> status, supersedes |-> <<>>, group |-> g,
                   exceptions |-> {}, manifest |-> 0]
  BY DEF ReviewPattern
<1>4. 0 \in 0 .. Len(Lines)
  BY LinesHoldFindings
<1> QED
  BY <1>1, <1>2, <1>3, <1>4, NobodyIsNotAReviewer DEF Decision, IsPattern

(* Binding a draft to its exceptions and its manifest.                     *)
Bind(d, E, n) == [d EXCEPT !.exceptions = E, !.manifest = n]

LEMMA BoundDraft ==
    ASSUME NEW d \in Decision, NEW E \in SUBSET Finding, NEW n \in Records
    PROVE  /\ Bind(d, E, n) \in Decision
           /\ Bind(d, E, n).group = d.group
           /\ Bind(d, E, n).supersedes = d.supersedes
<1>0. PICK bound : bound = [d EXCEPT !.exceptions = E, !.manifest = n]
  OBVIOUS
<1>1. DOMAIN d = {"id", "decides", "status", "supersedes", "group", "exceptions", "manifest"}
  BY DEF Decision
<1>2. /\ DOMAIN bound = DOMAIN d
      /\ bound.id = d.id /\ bound.decides = d.decides /\ bound.status = d.status
      /\ bound.supersedes = d.supersedes /\ bound.group = d.group
      /\ bound.exceptions = E /\ bound.manifest = n
  BY <1>0, <1>1
<1>3. bound = [x \in DOMAIN d |-> bound[x]]
  BY <1>0, <1>1
<1>4. /\ d.id \in Id /\ d.decides \in SUBSET Finding /\ d.status \in Status
      /\ d.supersedes \in ReviewId \cup {<<>>} /\ d.group \in Group \cup {NoGroup}
  BY DEF Decision
<1>5. bound = [id |-> d.id, decides |-> d.decides, status |-> d.status,
               supersedes |-> d.supersedes, group |-> d.group,
               exceptions |-> E, manifest |-> n]
  BY <1>1, <1>2, <1>3
<1>6. bound \in Decision
  BY <1>4, <1>5 DEF Decision, Records
<1> QED
  BY <1>0, <1>2, <1>6 DEF Bind

LEMMA PreviewDraft ==
    ASSUME CommandOK, DraftsAreDecisions, NEW r \in Reviewer, step[r] = "summary",
           NEW exceptions \in SUBSET Finding, NEW manifest \in Records,
           draft' = [draft EXCEPT ![r].exceptions = exceptions, ![r].manifest = manifest]
    PROVE  /\ draft'[r] \in Decision
           /\ IsPattern(draft'[r])
           /\ draft'[r].supersedes = <<>>
           /\ \A q \in Reviewer : q # r => draft'[q] = draft[q]
           /\ draft' \in [Reviewer -> Decision \cup {NoDraft}]
<1>1. draft[r] \in Decision /\ IsPattern(draft[r]) /\ draft[r].supersedes = <<>>
  BY DEF DraftsAreDecisions
<1>2. draft'[r] = Bind(draft[r], exceptions, manifest)
  BY DEF CommandOK, Bind
<1>3. /\ draft'[r] \in Decision
      /\ draft'[r].group = draft[r].group /\ draft'[r].supersedes = draft[r].supersedes
  BY <1>1, <1>2, BoundDraft
<1>4. \A q \in Reviewer : q # r => draft'[q] = draft[q]
  BY DEF CommandOK
<1>5. draft' = [q \in Reviewer |-> draft'[q]]
  BY DEF CommandOK
<1> QED
  BY <1>1, <1>3, <1>4, <1>5 DEF CommandOK, IsPattern

---------------------------------------------------------------------------
(* One step per action; a command that ends keeps the types by             *)
(* EndKeepsType.                                                           *)
LEMMA NextKeepsType ==
    ASSUME TypeOK, DraftsAreDecisions, [Next]_vars
    PROVE  TypeOK'
<1>a. FilesOK /\ CommandOK
  BY TypeParts
<1>b. /\ \A x \in {"idle", "asked", "evidence", "history", "summary", "drafted",
                  "locked", "replaced"} : x \in Step
      /\ 0 \in Records /\ <<>> \in History
  BY LinesHoldFindings DEF Step, Records, History
<1>c. lines \in Records /\ FindingsIn(lines) \subseteq Finding
  BY <1>a, LinesAreRecords
<1> SUFFICES FilesOK' /\ CommandOK'
  BY TypeParts DEF TypeOK, FilesOK, CommandOK, History, Records
<1>1. CASE UNCHANGED vars
  BY <1>1, <1>a DEF vars, files, command, FilesOK, CommandOK
<1>2. CASE EvidenceGrows
  <2>1. lines' \in 1 .. Len(Lines)
    BY <1>2, <1>a, LinesHoldFindings DEF EvidenceGrows, FilesOK
  <2> QED
    BY <1>2, <2>1, <1>a DEF EvidenceGrows, command, FilesOK, CommandOK
<1>3. CASE PowerLoss
  <2>1. history' \in History
    <3>1. \A n \in Len(stable) .. Len(history) : SubSeq(history, 1, n) \in History
      BY <1>a DEF FilesOK, History
    <3> QED
      BY <1>3, <1>a, <3>1 DEF PowerLoss, FilesOK
  <2> QED
    BY <1>3, <2>1, <1>a, <1>b DEF PowerLoss, FilesOK, CommandOK
<1>4. ASSUME NEW r \in Reviewer, NEW f \in Finding, NEW status \in Status,
             NEW id \in Known \cup {<<>>}, ReviewFinding(r, f, status, id)
      PROVE  FilesOK' /\ CommandOK'
  <2>1. draft'[r] \in Decision
    BY <1>4, <1>a, FindingDraft DEF CommandOK
  <2>2. /\ draft' \in [Reviewer -> Decision \cup {NoDraft}]
    BY <1>4, <1>a, <2>1 DEF ReviewFinding, CommandOK
  <2>3. commands' \in 0 .. MaxCommands
    BY <1>4, <1>a, Bounds DEF ReviewFinding, FilesOK
  <2>4. CommandOK'
    BY <1>4, <1>a, <1>b, <1>c, <2>2 DEF ReviewFinding, CommandOK
  <2> QED
    BY <1>4, <1>a, <2>3, <2>4 DEF ReviewFinding, files, FilesOK
<1>5. ASSUME NEW r \in Reviewer, NEW g \in Group, NEW status \in Status,
             ReviewPattern(r, g, status)
      PROVE  FilesOK' /\ CommandOK'
  <2>1. draft'[r] \in Decision
    BY <1>5, <1>a, PatternDraft DEF CommandOK
  <2>2. /\ draft' \in [Reviewer -> Decision \cup {NoDraft}]
    BY <1>5, <1>a, <2>1 DEF ReviewPattern, CommandOK
  <2>3. commands' \in 0 .. MaxCommands
    BY <1>5, <1>a, Bounds DEF ReviewPattern, FilesOK
  <2>4. CommandOK'
    BY <1>5, <1>a, <1>b, <2>2 DEF ReviewPattern, CommandOK
  <2> QED
    BY <1>5, <1>a, <2>3, <2>4 DEF ReviewPattern, files, FilesOK
<1>6. ASSUME NEW r \in Reviewer, LoadEvidence(r) \/ LoadEvidenceAgain(r)
      PROVE  FilesOK' /\ CommandOK'
  BY <1>6, <1>a, <1>b, <1>c DEF LoadEvidence, LoadEvidenceAgain, files, FilesOK, CommandOK
<1>7. ASSUME NEW r \in Reviewer, LoadReviews(r)
      PROVE  FilesOK' /\ CommandOK'
  <2>1. FilesOK'
    BY <1>7, <1>a DEF LoadReviews, files, FilesOK
  <2>2. CASE End(r)
    BY <2>1, <2>2, <1>a, EndKeepsType
  <2>3. CASE ~End(r)
    BY <2>1, <2>3, <1>7, <1>a, <1>b DEF LoadReviews, FilesOK, CommandOK
  <2> QED
    BY <2>2, <2>3
<1>8. ASSUME NEW r \in Reviewer, Preview(r)
      PROVE  FilesOK' /\ CommandOK'
  <2>1. FilesOK'
    BY <1>8, <1>a DEF Preview, files, FilesOK
  <2>2. CASE End(r)
    BY <2>1, <2>2, <1>a, EndKeepsType
  <2>3. CASE ~End(r)
    <3> DEFINE exceptions == Siblings(draft[r].group, reseen[r]) \ draft[r].decides
    <3>1. seen[r] \in Records /\ reseen[r] \in Records
      BY <1>a DEF CommandOK
    <3>2. exceptions \in SUBSET Finding
      BY <3>1, FindingsMonotone, LinesHoldFindings DEF Siblings, Records
    <3>3. /\ step[r] = "summary"
          /\ draft' = [draft EXCEPT ![r].exceptions = exceptions, ![r].manifest = seen[r]]
          /\ step' = [step EXCEPT ![r] = "drafted"]
          /\ UNCHANGED <<lock, seen, reseen, read, held>>
      BY <1>8, <2>3 DEF Preview
    <3> HIDE DEF exceptions
    <3>4. draft' \in [Reviewer -> Decision \cup {NoDraft}]
      BY <1>a, <3>1, <3>2, <3>3, PreviewDraft
    <3> QED
      BY <2>1, <3>3, <3>4, <1>a, <1>b DEF CommandOK
  <2> QED
    BY <2>2, <2>3
<1>9. ASSUME NEW r \in Reviewer, Lock(r)
      PROVE  FilesOK' /\ CommandOK'
  <2>1. FilesOK'
    BY <1>9, <1>a DEF Lock, files, FilesOK
  <2>2. CASE End(r)
    BY <2>1, <2>2, <1>a, EndKeepsType
  <2>3. CASE ~End(r)
    BY <2>1, <2>3, <1>9, <1>a, <1>b DEF Lock, FilesOK, CommandOK
  <2> QED
    BY <2>2, <2>3
<1>10. ASSUME NEW r \in Reviewer, Replace(r)
       PROVE  FilesOK' /\ CommandOK'
  <2>1. held[r] \in History /\ draft[r] \in Decision
    BY <1>10, <1>a DEF Replace, CommandOK, DraftsAreDecisions
  <2>2. Append(held[r], draft[r]) \in History
    BY <2>1, AppendProps
  <2>3. FilesOK'
    BY <1>10, <1>a, <2>2 DEF Replace, FilesOK
  <2>4. CASE End(r)
    BY <2>3, <2>4, <1>a, EndKeepsType
  <2>5. CASE ~End(r)
    BY <2>3, <2>5, <1>10, <1>a, <1>b DEF Replace, CommandOK
  <2> QED
    BY <2>4, <2>5
<1>11. ASSUME NEW r \in Reviewer, Acknowledge(r)
       PROVE  FilesOK' /\ CommandOK'
  <2>1. draft[r] \in Decision
    BY <1>11 DEF Acknowledge, DraftsAreDecisions
  <2>2. FilesOK'
    BY <1>11, <1>a, <2>1 DEF Acknowledge, FilesOK
  <2> QED
    BY <2>2, <1>11, <1>a, EndKeepsType DEF Acknowledge
<1>12. ASSUME NEW r \in Reviewer, Fail(r)
       PROVE  FilesOK' /\ CommandOK'
  <2>1. FilesOK'
    BY <1>12, <1>a DEF Fail, files, FilesOK
  <2> QED
    BY <2>1, <1>12, <1>a, EndKeepsType DEF Fail
<1> QED
  BY <1>1, <1>2, <1>3, <1>4, <1>5, <1>6, <1>7, <1>8, <1>9, <1>10, <1>11, <1>12
     DEF Next, Work

---------------------------------------------------------------------------
(* The classification of the findings never changes, so neither does what  *)
(* is valid.                                                               *)
LEMMA ValidIsRigid ==
    ASSUME NEW h, NEW n, kind' = kind
    PROVE  Valid(h, n)' <=> Valid(h, n)
<1>1. \A g, m : Siblings(g, m)' = Siblings(g, m)
  BY DEF Siblings, FindingsIn
<1>2. \A b, d : ValidPattern(b, d, n)' <=> ValidPattern(b, d, n)
  BY <1>1 DEF ValidPattern
<1> QED
  BY <1>2 DEF Valid, ValidLine

LEMMA ValidNext ==
    ASSUME kind' = kind
    PROVE  /\ Valid(history, lines)' <=> Valid(history', lines')
           /\ Valid(stable, lines)' <=> Valid(stable', lines')
           /\ \A r \in Reviewer : Valid(Append(history, draft[r]), seen[r])'
                                  <=> Valid(Append(history', draft'[r]), seen'[r])
<1>1. PICK h, s, n : h = history' /\ s = stable' /\ n = lines'
  OBVIOUS
<1>2. (Valid(h, n)' <=> Valid(h, n)) /\ (Valid(s, n)' <=> Valid(s, n))
  BY ValidIsRigid
<1>3. ASSUME NEW r \in Reviewer
      PROVE  Valid(Append(history, draft[r]), seen[r])'
               <=> Valid(Append(history', draft'[r]), seen'[r])
  <2>1. PICK l, m : l = Append(history', draft'[r]) /\ m = seen'[r]
    OBVIOUS
  <2>2. Valid(l, m)' <=> Valid(l, m)
    BY ValidIsRigid
  <2> QED
    BY <2>1, <2>2
<1> QED
  BY <1>1, <1>2, <1>3

(* The steps of the command of r.                                          *)
Acts(r) ==
    \/ \E f \in Finding, status \in Status, id \in Known \cup {<<>>} :
           ReviewFinding(r, f, status, id)
    \/ \E g \in Group, status \in Status : ReviewPattern(r, g, status)
    \/ Work(r) \/ Fail(r)

LEMMA NextCases ==
    ASSUME [Next]_vars
    PROVE  UNCHANGED vars \/ EvidenceGrows \/ PowerLoss \/ \E r \in Reviewer : Acts(r)
  BY DEF Next, Acts

LEMMA NextKeepsKind == [Next]_vars => kind' = kind
  BY DEF vars, Next, EvidenceGrows, PowerLoss, ReviewFinding, ReviewPattern, Work,
         LoadEvidence, LoadReviews, LoadEvidenceAgain, Preview, Lock, Replace,
         Acknowledge, Fail

LEMMA EndEffect ==
    ASSUME TypeOK, NEW r \in Reviewer, End(r)
    PROVE  /\ step'[r] = "idle" /\ seen'[r] = 0 /\ reseen'[r] = 0
           /\ \A q \in Reviewer \ {r} :
                /\ step'[q] = step[q] /\ draft'[q] = draft[q] /\ held'[q] = held[q]
                /\ seen'[q] = seen[q] /\ reseen'[q] = reseen[q]
                /\ lock = q => lock' = q
  BY DEF TypeOK, End

(* What a command does leaves the other commands and the evidence alone.   *)
LEMMA OthersStay ==
    ASSUME TypeOK, NEW r \in Reviewer, NEW q \in Reviewer, q # r, Acts(r)
    PROVE  /\ step'[q] = step[q] /\ draft'[q] = draft[q] /\ held'[q] = held[q]
           /\ seen'[q] = seen[q] /\ reseen'[q] = reseen[q]
           /\ lock = q => lock' = q
<1>1. CASE End(r)
  BY <1>1, EndEffect
<1>2. CASE ~End(r)
  BY <1>2, NobodyIsNotAReviewer
     DEF Acts, Work, TypeOK, ReviewFinding, ReviewPattern, LoadEvidence, LoadReviews,
         LoadEvidenceAgain, Preview, Lock, Replace, Acknowledge, Fail
<1> QED
  BY <1>1, <1>2

LEMMA ActsKeepLines == ASSUME NEW r \in Reviewer, Acts(r) PROVE lines' = lines
  BY DEF Acts, Work, ReviewFinding, ReviewPattern, LoadEvidence, LoadReviews,
         LoadEvidenceAgain, Preview, Lock, Replace, Acknowledge, Fail, files

LEMMA NextKeepsLock ==
    ASSUME TypeOK, LockIsHeld, [Next]_vars
    PROVE  LockIsHeld'
<1>1. CASE UNCHANGED vars
  BY <1>1 DEF vars, command, LockIsHeld
<1>2. CASE EvidenceGrows
  BY <1>2 DEF EvidenceGrows, command, LockIsHeld
<1>3. CASE PowerLoss
  BY <1>3 DEF PowerLoss, LockIsHeld
<1>4. ASSUME NEW r \in Reviewer, Acts(r)
      PROVE  LockIsHeld'
  <2>1. ASSUME NEW q \in Reviewer, q # r, step'[q] \in {"locked", "replaced"}
        PROVE  lock' = q
    BY <1>4, <2>1, OthersStay DEF LockIsHeld
  <2>2. step'[r] \in {"locked", "replaced"} => lock' = r
    <3>1. CASE End(r)
      BY <3>1, EndEffect
    <3>2. CASE ~End(r)
      BY <1>4, <3>2
         DEF Acts, Work, TypeOK, LockIsHeld, ReviewFinding, ReviewPattern, LoadEvidence,
             LoadReviews, LoadEvidenceAgain, Preview, Lock, Replace, Acknowledge, Fail
    <3> QED
      BY <3>1, <3>2
  <2> QED
    BY <2>1, <2>2 DEF LockIsHeld
<1> QED
  BY <1>1, <1>2, <1>3, <1>4, NextCases

LEMMA NextKeepsSeen ==
    ASSUME TypeOK, SeenIsPast, [Next]_vars
    PROVE  SeenIsPast'
<1>a. lines \in Nat /\ \A r \in Reviewer : seen[r] \in Int /\ reseen[r] \in Int
  BY LinesHoldFindings DEF TypeOK
<1>1. CASE UNCHANGED vars
  BY <1>1 DEF vars, files, command, SeenIsPast
<1>2. CASE EvidenceGrows
  BY <1>2, <1>a DEF EvidenceGrows, command, SeenIsPast
<1>3. CASE PowerLoss
  BY <1>3, <1>a DEF PowerLoss, SeenIsPast
<1>4. ASSUME NEW r \in Reviewer, Acts(r)
      PROVE  SeenIsPast'
  <2>1. ASSUME NEW q \in Reviewer, q # r
        PROVE  seen'[q] <= lines' /\ reseen'[q] <= lines'
    BY <1>4, <2>1, OthersStay, ActsKeepLines DEF SeenIsPast
  <2>2. seen'[r] <= lines /\ reseen'[r] <= lines
    <3>1. CASE End(r)
      BY <3>1, <1>a, EndEffect
    <3>2. CASE ~End(r)
      BY <1>4, <3>2, <1>a
         DEF Acts, Work, TypeOK, SeenIsPast, ReviewFinding, ReviewPattern, LoadEvidence,
             LoadReviews, LoadEvidenceAgain, Preview, Lock, Replace, Acknowledge, Fail
    <3> QED
      BY <3>1, <3>2
  <2> QED
    BY <1>4, <2>1, <2>2, ActsKeepLines DEF SeenIsPast
<1> QED
  BY <1>1, <1>2, <1>3, <1>4, NextCases

(* The draft that the command of r is about, after its next step.          *)
DraftOK(r) ==
    step[r] # "idle" =>
        /\ draft[r] \in Decision
        /\ step[r] \in {"asked", "evidence", "history", "summary"} => IsPattern(draft[r])
        /\ IF IsPattern(draft[r]) THEN draft[r].supersedes = <<>>
                                  ELSE draft[r].decides \subseteq FindingsIn(seen[r])

LEMMA OwnDraft ==
    ASSUME TypeOK, DraftsAreDecisions, NEW r \in Reviewer, Acts(r)
    PROVE  DraftOK(r)'
<1>a. FilesOK /\ CommandOK /\ DraftOK(r)
  BY TypeParts DEF DraftsAreDecisions, DraftOK
<1>1. CASE End(r)
  BY <1>1, EndEffect DEF DraftOK
<1>2. ASSUME NEW f \in Finding, NEW status \in Status, NEW id \in Known \cup {<<>>},
             ReviewFinding(r, f, status, id)
      PROVE  DraftOK(r)'
  <2>1. draft'[r] \in Decision /\ ~IsPattern(draft'[r]) /\ draft'[r].decides = {f}
    BY <1>2, <1>a, FindingDraft DEF CommandOK
  <2>2. step'[r] = "drafted" /\ seen'[r] = lines /\ f \in FindingsIn(lines)
    BY <1>2, <1>a DEF ReviewFinding, CommandOK
  <2> QED
    BY <2>1, <2>2 DEF DraftOK
<1>3. ASSUME NEW g \in Group, NEW status \in Status, ReviewPattern(r, g, status)
      PROVE  DraftOK(r)'
  BY <1>3, <1>a, PatternDraft DEF CommandOK, DraftOK
<1>4. CASE ~End(r) /\ Preview(r)
  <2> DEFINE exceptions == Siblings(draft[r].group, reseen[r]) \ draft[r].decides
  <2>1. seen[r] \in Records /\ reseen[r] \in Records
    BY <1>a DEF CommandOK
  <2>2. exceptions \in SUBSET Finding
    BY <2>1, FindingsMonotone, LinesHoldFindings DEF Siblings, Records
  <2>3. /\ step[r] = "summary"
        /\ draft' = [draft EXCEPT ![r].exceptions = exceptions, ![r].manifest = seen[r]]
    BY <1>4 DEF Preview
  <2> HIDE DEF exceptions
  <2> QED
    BY <1>a, <2>1, <2>2, <2>3, PreviewDraft DEF DraftOK
<1>5. CASE ~End(r) /\ LoadEvidence(r)
  BY <1>5, <1>a DEF LoadEvidence, CommandOK, DraftOK
<1>6. CASE ~End(r) /\ (LoadReviews(r) \/ LoadEvidenceAgain(r) \/ Lock(r) \/ Replace(r)
                       \/ Acknowledge(r) \/ Fail(r))
  BY <1>6, <1>a
     DEF LoadReviews, LoadEvidenceAgain, Lock, Replace, Acknowledge, Fail, CommandOK, DraftOK
<1> QED
  BY <1>1, <1>2, <1>3, <1>4, <1>5, <1>6 DEF Acts, Work

LEMMA NextKeepsDrafts ==
    ASSUME TypeOK, DraftsAreDecisions, [Next]_vars
    PROVE  DraftsAreDecisions'
<1>1. CASE UNCHANGED vars
  BY <1>1 DEF vars, command, DraftsAreDecisions
<1>2. CASE EvidenceGrows
  BY <1>2 DEF EvidenceGrows, command, DraftsAreDecisions
<1>3. CASE PowerLoss
  BY <1>3 DEF PowerLoss, DraftsAreDecisions
<1>4. ASSUME NEW r \in Reviewer, Acts(r)
      PROVE  DraftsAreDecisions'
  <2>1. ASSUME NEW q \in Reviewer, q # r
        PROVE  DraftOK(q)'
    BY <1>4, <2>1, OthersStay DEF DraftsAreDecisions, DraftOK
  <2>2. DraftOK(r)'
    BY <1>4, OwnDraft
  <2>3. \A q \in Reviewer : DraftOK(q)'
    BY <2>1, <2>2
  <2> QED
    BY <2>3 DEF DraftsAreDecisions, DraftOK
<1> QED
  BY <1>1, <1>2, <1>3, <1>4, NextCases

---------------------------------------------------------------------------
(* What the steps of a command do to the two copies of the history.        *)
LEMMA HistoryCases ==
    ASSUME TypeOK, DraftsAreDecisions, NEW r \in Reviewer, Acts(r)
    PROVE  \/ UNCHANGED <<history, stable, acked>>
           \/ /\ Replace(r) /\ step[r] = "locked" /\ step'[r] = "replaced"
              /\ draft[r] \in Decision /\ draft'[r] = draft[r]
              /\ history' = Append(history, draft[r])
              /\ UNCHANGED <<stable, acked>>
           \/ /\ Acknowledge(r) /\ step[r] = "replaced"
              /\ history' = history /\ stable' = history
              /\ acked' = acked \cup {draft[r]}
<1>1. CASE Replace(r)
  <2>1. step[r] = "locked" /\ draft[r] \in Decision /\ UNCHANGED <<stable, acked>>
    BY <1>1 DEF Replace, DraftsAreDecisions
  <2>2. CASE history = held[r]
    BY <1>1, <2>1, <2>2 DEF Replace, TypeOK
  <2>3. CASE history # held[r]
    BY <1>1, <2>1, <2>3 DEF Replace
  <2> QED
    BY <2>2, <2>3
<1>2. CASE Acknowledge(r)
  BY <1>2 DEF Acknowledge
<1>3. CASE ~Replace(r) /\ ~Acknowledge(r)
  BY <1>3 DEF Acts, Work, ReviewFinding, ReviewPattern, LoadEvidence, LoadReviews,
              LoadEvidenceAgain, Preview, Lock, Fail, files
<1> QED
  BY <1>1, <1>2, <1>3

(* What a power loss leaves is a prefix of what was there.                 *)
LEMMA PowerLossCuts ==
    ASSUME TypeOK, StableIsPrefix, PowerLoss
    PROVE  \E n \in Len(stable) .. Len(history) :
               history' = SubSeq(history, 1, n) /\ stable' = history'
<1>1. Len(stable) \in Nat /\ Len(history) \in Nat
  BY DEF TypeOK
<1>2. Len(stable) \in Len(stable) .. Len(history)
  BY <1>1 DEF StableIsPrefix
<1> QED
  BY <1>2 DEF PowerLoss, StableIsPrefix

LEMMA NextKeepsStable ==
    ASSUME TypeOK, DraftsAreDecisions, StableIsPrefix, [Next]_vars
    PROVE  StableIsPrefix'
<1>a. history \in History /\ stable \in History /\ Len(history) \in Nat /\ Len(stable) \in Nat
  BY DEF TypeOK, History
<1>1. CASE UNCHANGED <<history, stable>>
  BY <1>1 DEF StableIsPrefix
<1>2. CASE PowerLoss
  <2>1. PICK n \in Len(stable) .. Len(history) :
            history' = SubSeq(history, 1, n) /\ stable' = history'
    BY <1>2, PowerLossCuts
  <2>2. history' \in History
    BY <1>a, <2>1, PrefixProps
  <2>3. PICK h \in History : h = history'
    BY <2>2
  <2>4. SubSeq(h, 1, Len(h)) = h /\ Len(h) \in Nat
    BY WholePrefix DEF History
  <2> QED
    BY <2>1, <2>3, <2>4 DEF StableIsPrefix
<1>3. ASSUME NEW r \in Reviewer, Acts(r)
      PROVE  StableIsPrefix'
  <2>1. CASE /\ draft[r] \in Decision /\ history' = Append(history, draft[r])
             /\ UNCHANGED stable
    <3>1. Len(history') = Len(history) + 1
      BY <1>a, <2>1, AppendProps
    <3>2. SubSeq(Append(history, draft[r]), 1, Len(stable)) = SubSeq(history, 1, Len(stable))
      BY <1>a, <2>1, PrefixOfAppend DEF StableIsPrefix
    <3> QED
      BY <1>a, <2>1, <3>1, <3>2 DEF StableIsPrefix
  <2>2. CASE history' = history /\ stable' = history
    BY <1>a, <2>2, WholePrefix DEF StableIsPrefix
  <2> QED
    BY <1>1, <1>3, <2>1, <2>2, HistoryCases
<1> QED
  BY <1>1, <1>2, <1>3, NextCases DEF vars, files, EvidenceGrows

---------------------------------------------------------------------------
(* What is accepted under the lock names what it replaces, and the history *)
(* is valid with it.                                                       *)
LEMMA AcceptedIsValid ==
    ASSUME TypeOK, DraftsAreDecisions, NEW r \in Reviewer, step[r] # "idle",
           Accepts(r, history), step[r] = "drafted"
    PROVE  /\ NamesWhatItReplaces(history, draft[r])
           /\ Valid(Append(history, draft[r]), seen[r])
<1>a. /\ history \in History /\ seen[r] \in Records /\ draft[r] \in Decision
      /\ IsPattern(draft[r]) => draft[r].supersedes = <<>>
      /\ ~IsPattern(draft[r]) => draft[r].decides \subseteq FindingsIn(seen[r])
  BY DEF TypeOK, History, Records, DraftsAreDecisions
<1>1. CASE IsPattern(draft[r])
  <2>1. Valid(Append(history, draft[r]), seen[r])
    BY <1>1 DEF Accepts, AcceptsPattern
  <2>2. ValidPattern(history, draft[r], seen[r])
    BY <1>a, <1>1, <2>1, ValidAppend DEF ValidLine
  <2>3. \A f \in draft[r].decides : f \notin Judged(history)
    BY <2>2 DEF ValidPattern
  <2> QED
    BY <1>a, <1>1, <2>1, <2>3, UnjudgedHasNoReview DEF NamesWhatItReplaces
<1>2. CASE ~IsPattern(draft[r])
  <2>1. Valid(history, seen[r]) /\ NamesWhatItReplaces(history, draft[r])
    BY <1>2 DEF Accepts, AcceptsFinding, Readable, NamesWhatItReplaces
  <2>2. ValidLine(history, draft[r], seen[r])
    BY <1>a, <1>2, <2>1 DEF ValidLine, ValidOccurrence, NamesWhatItReplaces
  <2> QED
    BY <1>a, <2>1, <2>2, ValidAppend
<1> QED
  BY <1>1, <1>2

LEMMA NextKeepsLocked ==
    ASSUME TypeOK, LockIsHeld, DraftsAreDecisions, LockedIsChecked, [Next]_vars
    PROVE  LockedIsChecked'
<1>a. kind' = kind
  BY NextKeepsKind
<1> SUFFICES ASSUME NEW q \in Reviewer, step'[q] = "locked"
             PROVE  /\ held'[q] = history'
                    /\ NamesWhatItReplaces(history', draft'[q])
                    /\ Valid(Append(history', draft'[q]), seen'[q])
  BY <1>a, ValidNext DEF LockedIsChecked, NamesWhatItReplaces
<1>1. CASE UNCHANGED vars \/ EvidenceGrows
  BY <1>1 DEF vars, files, command, EvidenceGrows, LockedIsChecked
<1>2. CASE PowerLoss
  BY <1>2 DEF PowerLoss
<1>3. ASSUME NEW r \in Reviewer, Acts(r), q # r
      PROVE  /\ held'[q] = history'
             /\ NamesWhatItReplaces(history', draft'[q])
             /\ Valid(Append(history', draft'[q]), seen'[q])
  <2>1. step[q] = "locked" /\ draft'[q] = draft[q] /\ held'[q] = held[q] /\ seen'[q] = seen[q]
    BY <1>3, OthersStay
  <2>2. step[r] \notin {"locked", "replaced"}
    BY <1>3, <2>1 DEF LockIsHeld
  <2>3. history' = history
    BY <1>3, <2>2, HistoryCases
  <2> QED
    BY <2>1, <2>3 DEF LockedIsChecked
<1>4. ASSUME Acts(q)
      PROVE  /\ held'[q] = history'
             /\ NamesWhatItReplaces(history', draft'[q])
             /\ Valid(Append(history', draft'[q]), seen'[q])
  <2>1. ~End(q)
    BY EndEffect
  <2>2. Lock(q)
    BY <1>4, <2>1
       DEF Acts, Work, TypeOK, ReviewFinding, ReviewPattern, LoadEvidence, LoadReviews,
           LoadEvidenceAgain, Preview, Replace, Acknowledge, Fail
  <2>3. /\ step[q] = "drafted" /\ Accepts(q, history)
        /\ held'[q] = history /\ history' = history
        /\ draft' = draft /\ seen' = seen
    BY <2>1, <2>2 DEF Lock, TypeOK, files
  <2> QED
    BY <2>3, AcceptedIsValid
<1> QED
  BY <1>1, <1>2, <1>3, <1>4, NextCases

LEMMA NextKeepsReplaced ==
    ASSUME TypeOK, LockIsHeld, DraftsAreDecisions, ReplacedIsLast, [Next]_vars
    PROVE  ReplacedIsLast'
<1> SUFFICES ASSUME NEW q \in Reviewer, step'[q] = "replaced"
             PROVE  history' # <<>> /\ history'[Len(history')] = draft'[q]
  BY DEF ReplacedIsLast
<1>1. CASE UNCHANGED vars \/ EvidenceGrows
  BY <1>1 DEF vars, files, command, EvidenceGrows, ReplacedIsLast
<1>2. CASE PowerLoss
  BY <1>2 DEF PowerLoss
<1>3. ASSUME NEW r \in Reviewer, Acts(r), q # r
      PROVE  history' # <<>> /\ history'[Len(history')] = draft'[q]
  <2>1. step[q] = "replaced" /\ draft'[q] = draft[q]
    BY <1>3, OthersStay
  <2>2. step[r] \notin {"locked", "replaced"}
    BY <1>3, <2>1 DEF LockIsHeld
  <2>3. history' = history
    BY <1>3, <2>2, HistoryCases
  <2> QED
    BY <2>1, <2>3 DEF ReplacedIsLast
<1>4. ASSUME Acts(q)
      PROVE  history' # <<>> /\ history'[Len(history')] = draft'[q]
  <2>1. ~End(q)
    BY EndEffect
  <2>2. Replace(q) /\ history = held[q]
    BY <1>4, <2>1
       DEF Acts, Work, TypeOK, ReviewFinding, ReviewPattern, LoadEvidence, LoadReviews,
           LoadEvidenceAgain, Preview, Lock, Replace, Acknowledge, Fail
  <2>3. /\ draft' = draft /\ draft[q] \in Decision /\ history \in History
        /\ history' = Append(history, draft[q])
    BY <2>1, <2>2 DEF Replace, DraftsAreDecisions, TypeOK, History
  <2> QED
    BY <2>3, AppendProps
<1> QED
  BY <1>1, <1>2, <1>3, <1>4, NextCases

LEMMA NextKeepsValid ==
    ASSUME TypeOK, DraftsAreDecisions, SeenIsPast, StableIsPrefix, LockedIsChecked,
           HistoryStaysValid, [Next]_vars
    PROVE  HistoryStaysValid'
<1>a. /\ history \in History /\ stable \in History
      /\ lines \in Records /\ \A r \in Reviewer : seen[r] \in Records
      /\ Valid(history, lines) /\ Valid(stable, lines)
  BY LinesAreRecords, TypeParts DEF TypeOK, History, Records, HistoryStaysValid
<1> SUFFICES Valid(history', lines') /\ Valid(stable', lines')
  BY NextKeepsKind, ValidNext DEF HistoryStaysValid
<1>1. CASE UNCHANGED vars
  BY <1>1, <1>a DEF vars, files
<1>2. CASE EvidenceGrows
  <2>1. lines' \in Records /\ lines <= lines' /\ history' = history /\ stable' = stable
    BY <1>2, <1>a, LinesHoldFindings DEF EvidenceGrows, Records
  <2> QED
    BY <1>a, <2>1, ValidMonotone
<1>3. CASE PowerLoss
  <2>1. PICK n \in Len(stable) .. Len(history) :
            history' = SubSeq(history, 1, n) /\ stable' = history'
    BY <1>3, PowerLossCuts
  <2>2. n \in 0 .. Len(history) /\ lines' = lines
    BY <1>3, <1>a DEF PowerLoss, History
  <2> QED
    BY <1>a, <2>1, <2>2, ValidPrefix
<1>4. ASSUME NEW r \in Reviewer, Acts(r)
      PROVE  Valid(history', lines') /\ Valid(stable', lines')
  <2>1. lines' = lines
    BY <1>4, ActsKeepLines
  <2>2. CASE UNCHANGED <<history, stable>>
    BY <1>a, <2>1, <2>2
  <2>3. CASE /\ step[r] = "locked" /\ draft[r] \in Decision
             /\ history' = Append(history, draft[r]) /\ UNCHANGED stable
    <3>1. Valid(Append(history, draft[r]), seen[r]) /\ seen[r] <= lines
      BY <2>3 DEF LockedIsChecked, SeenIsPast
    <3>2. Append(history, draft[r]) \in History
      BY <1>a, <2>3, AppendProps
    <3>3. Valid(Append(history, draft[r]), lines)
      BY <1>a, <3>1, <3>2, ValidMonotone
    <3> QED
      BY <1>a, <2>1, <2>3, <3>3
  <2>4. CASE history' = history /\ stable' = history
    BY <1>a, <2>1, <2>4
  <2> QED
    BY <1>4, <2>2, <2>3, <2>4, HistoryCases
<1> QED
  BY <1>1, <1>2, <1>3, <1>4, NextCases

LEMMA NextKeepsRecorded ==
    ASSUME TypeOK, DraftsAreDecisions, StableIsPrefix, ReplacedIsLast,
           RecordedReviewsSurvive, [Next]_vars
    PROVE  RecordedReviewsSurvive'
<1>a. /\ history \in History /\ stable \in History
      /\ Len(history) \in Nat /\ Len(stable) \in Nat /\ Len(stable) <= Len(history)
      /\ DOMAIN history = 1 .. Len(history) /\ DOMAIN stable = 1 .. Len(stable)
  BY DEF TypeOK, History, StableIsPrefix
<1>b. \A i \in DOMAIN stable : i \in DOMAIN history /\ stable[i] = history[i]
  <2>1. Len(stable) \in 0 .. Len(history)
    BY <1>a
  <2>2. \A i \in 1 .. Len(stable) : SubSeq(history, 1, Len(stable))[i] = history[i]
    BY <1>a, <2>1, PrefixProps
  <2> QED
    BY <1>a, <2>2 DEF StableIsPrefix
<1>1. CASE UNCHANGED <<stable, acked>>
  BY <1>1 DEF RecordedReviewsSurvive
<1>2. CASE PowerLoss
  <2>1. PICK n \in Len(stable) .. Len(history) :
            history' = SubSeq(history, 1, n) /\ stable' = history'
    BY <1>2, PowerLossCuts
  <2>2. /\ DOMAIN stable' = 1 .. n
        /\ \A i \in 1 .. n : stable'[i] = history[i]
    BY <1>a, <2>1, PrefixProps
  <2>3. \A i \in DOMAIN stable : i \in DOMAIN stable' /\ stable'[i] = stable[i]
    BY <1>a, <1>b, <2>2
  <2> QED
    BY <1>2, <2>3 DEF PowerLoss, RecordedReviewsSurvive
<1>3. ASSUME NEW r \in Reviewer, step[r] = "replaced", history' = history,
             stable' = history, acked' = acked \cup {draft[r]}
      PROVE  RecordedReviewsSurvive'
  <2>1. history # <<>> /\ history[Len(history)] = draft[r]
    BY <1>3 DEF ReplacedIsLast
  <2>2. Len(history) \in DOMAIN history
    BY <1>a, <2>1
  <2> QED
    BY <1>3, <1>b, <2>1, <2>2 DEF RecordedReviewsSurvive
<1> QED
  BY <1>1, <1>2, <1>3, NextCases, HistoryCases DEF vars, files, EvidenceGrows

---------------------------------------------------------------------------
LEMMA InitEstablishesInv == Init => Inv
<1> SUFFICES ASSUME Init
             PROVE  Inv
  OBVIOUS
<1>1. TypeOK
  <2>1. "idle" \in Step /\ 0 \in 0 .. Len(Lines) /\ 1 \in 1 .. Len(Lines)
        /\ 0 \in 0 .. MaxCommands /\ <<>> \in Seq(Decision)
    BY LinesHoldFindings, Bounds DEF Step
  <2> QED
    BY <2>1 DEF Init, TypeOK
<1>2. LockIsHeld /\ DraftsAreDecisions /\ LockedIsChecked /\ ReplacedIsLast
  BY DEF Init, LockIsHeld, DraftsAreDecisions, LockedIsChecked, ReplacedIsLast
<1>3. SeenIsPast /\ RecordedReviewsSurvive
  BY DEF Init, SeenIsPast, RecordedReviewsSurvive
<1>4. StableIsPrefix
  <2>1. <<>> \in History /\ Len(<<>>) = 0
    BY DEF History
  <2>2. SubSeq(<<>>, 1, Len(<<>>)) = <<>>
    BY <2>1, WholePrefix
  <2> QED
    BY <2>1, <2>2 DEF Init, StableIsPrefix
<1>5. HistoryStaysValid
  BY DEF Init, HistoryStaysValid, Valid
<1> QED
  BY <1>1, <1>2, <1>3, <1>4, <1>5 DEF Inv

LEMMA NextKeepsInv == Inv /\ [Next]_vars => Inv'
  BY NextKeepsType, NextKeepsLock, NextKeepsDrafts, NextKeepsSeen, NextKeepsStable,
     NextKeepsLocked, NextKeepsReplaced, NextKeepsValid, NextKeepsRecorded
     DEF Inv

(* The invariant holds of every behaviour.                                 *)
THEOREM Invariance == Spec => []Inv
  BY InitEstablishesInv, NextKeepsInv, PTL DEF Spec

(* Whatever reviewers, crashes and growing evidence do, the review file    *)
(* stays one that every later command accepts.                             *)
THEOREM HistoryIsAlwaysValid == Spec => []HistoryStaysValid
<1>1. Inv => HistoryStaysValid
  BY DEF Inv
<1> QED
  BY <1>1, Invariance, PTL

(* A review that was reported as recorded is never lost.                   *)
THEOREM RecordedReviewsAreKept == Spec => []RecordedReviewsSurvive
<1>1. Inv => RecordedReviewsSurvive
  BY DEF Inv
<1> QED
  BY <1>1, Invariance, PTL

---------------------------------------------------------------------------
(* A line that was checked under the lock is one decision more.            *)
LEMMA ReplaceDecides ==
    ASSUME Inv, NEW r \in Reviewer, step[r] = "locked", draft[r] \in Decision,
           history' = Append(history, draft[r]), UNCHANGED stable
    PROVE  Log!Decide
<1>1. /\ history \in History /\ Len(history) \in Nat
      /\ Len(history) \in 0 .. Len(history)
  BY DEF Inv, TypeOK, History
<1>2. /\ Len(history') = Len(history) + 1
      /\ history'[Len(history')] = draft[r]
  BY <1>1, AppendProps
<1>3. SubSeq(history', 1, Len(history)) = history
  BY <1>1, PrefixOfAppend, WholePrefix
<1>4. \A f \in draft[r].decides : draft[r].supersedes = Log!ActiveId(history, f)
  BY DEF Inv, LockedIsChecked, NamesWhatItReplaces
<1> QED
  BY <1>2, <1>3, <1>4 DEF Log!Decide

(* The review file is a log of decisions that only grows, in which every   *)
(* judgment is the first one of its finding or names the one it replaces,  *)
(* and of which a crash takes only unconfirmed decisions, newest first.    *)
THEOREM ImplementsReviewLog == Spec => ImplementsLog
<1>1. Init => Log!Init
  <2>1. Len(<<>>) = 0
    OBVIOUS
  <2> QED
    BY <2>1 DEF Init, Log!Init
<1>2. Inv /\ [Next]_vars => [Log!Next]_<<history, Len(stable)>>
  <2> SUFFICES ASSUME Inv, [Next]_vars
               PROVE  Log!Next \/ UNCHANGED <<history, Len(stable)>>
    OBVIOUS
  <2>a. /\ TypeOK /\ DraftsAreDecisions /\ StableIsPrefix
        /\ Len(history) \in Nat /\ Len(stable) \in Nat /\ Len(stable) <= Len(history)
    BY DEF Inv, TypeOK, StableIsPrefix
  <2>1. CASE UNCHANGED <<history, stable>>
    BY <2>1
  <2>2. CASE PowerLoss
    <3>1. PICK n \in Len(stable) .. Len(history) :
              history' = SubSeq(history, 1, n) /\ stable' = history'
      BY <2>a, <2>2, PowerLossCuts
    <3> QED
      BY <3>1 DEF Log!Next, Log!Lose
  <2>3. ASSUME NEW r \in Reviewer, step[r] = "locked", draft[r] \in Decision,
               history' = Append(history, draft[r]), UNCHANGED stable
        PROVE  Log!Next
    BY <2>3, ReplaceDecides DEF Log!Next
  <2>4. CASE history' = history /\ stable' = history
    <3>1. Len(history) \in Len(stable) .. Len(history)
      BY <2>a
    <3> QED
      BY <2>4, <3>1 DEF Log!Next, Log!Confirm
  <2> QED
    BY <2>a, <2>1, <2>2, <2>3, <2>4, NextCases, HistoryCases DEF vars, files, EvidenceGrows
<1> QED
  BY <1>1, <1>2, Invariance, PTL DEF Spec, ImplementsLog, Log!Spec
=============================================================================
