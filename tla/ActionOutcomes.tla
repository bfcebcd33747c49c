---------------------------- MODULE ActionOutcomes ----------------------------
(***************************************************************************)
(* How the observed outcomes of trials are grouped and compared            *)
(* (sdk/src/ul/dataset_evaluation.py).                                     *)
(*                                                                         *)
(* A frame is a sequence of action effects: predicate, position and fields,*)
(* a function from names to values.  The names whose value is mentioned in *)
(* the recorded input are grounded, and only they must agree; an effect    *)
(* takes the grounded names of the action of the source frame it is        *)
(* associated with.  Repetitions are grouped by the grounded part of what  *)
(* they did, arms are compared by another algorithm, a maximum matching.   *)
(* On the response surface a frame holds one answer, compared as a whole.  *)
(*                                                                         *)
(* trusted: the status and the confidence of the effect; record: the       *)
(* fields of the action object its evidence points to, if there is one,    *)
(* with flat for an object that holds nothing nested.                      *)
(***************************************************************************)
EXTENDS EvidenceForm

CONSTANTS
    Mentioned,          \* the values that appear in the recorded input
    NumberOf,           \* NumberOf[v]: the number v writes, or v itself
    IdentifierFields    \* names whose values are never read as numbers

NameSet(effect) == DOMAIN effect.fields
ObservableKey(name, v) == IF name \in IdentifierFields THEN <<"json", v>>
                          ELSE <<"value", NumberOf[v]>>
ObservableValuesEqual(l, r) == NumberOf[l] = NumberOf[r]
KeysOf(effect, names) == [n \in names |-> ObservableKey(n, effect.fields[n])]
RecordKey(effect) == KeysOf(effect, NameSet(effect))
MentionedNames(effect) == {n \in NameSet(effect) : effect.fields[n] \in Mentioned}

\* Positions of the effects of a predicate; an effect is known by its position.
Predicates(frame) == {frame[i].predicate : i \in DOMAIN frame}
OfPredicate(frame, p) == {i \in DOMAIN frame : frame[i].predicate = p}
FirstOf(S) == CHOOSE i \in S : \A j \in S : i <= j
SortedEffects(frame, S) ==
    LET nth[k \in 1 .. Cardinality(S)] ==
            CHOOSE i \in S : Cardinality({j \in S : j < i}) = k - 1
    IN [k \in 1 .. Cardinality(S) |-> frame[nth[k]]]

-----------------------------------------------------------------------------
(* Which fields of an effect are grounded.                                 *)

\* every effect of S has these names, with the keys of the first
ShareKeys(frame, S, names, keys) ==
    \A i \in S : names \subseteq NameSet(frame[i]) /\ KeysOf(frame[i], names) = keys

Score(effect, reference, names) ==
    Cardinality({n \in names : /\ n \in NameSet(effect)
                               /\ ObservableValuesEqual(effect.fields[n], reference.fields[n])})

(***************************************************************************)
(* Rounds of proposals: an outcome proposes the one reference that fits it *)
(* best; a reference that one outcome alone proposes accepts it.           *)
(***************************************************************************)
RECURSIVE Associated(_, _, _, _)
Associated(frame, reference, outcomes, references) ==
    LET score(i, r) == Score(frame[i], reference[r], MentionedNames(reference[r]))
        best(i) == {r \in references : \A q \in references : score(i, q) <= score(i, r)}
        proposals == {<<i, FirstOf(best(i))>> : i \in {i \in outcomes :
                            /\ Cardinality(best(i)) = 1
                            /\ score(i, FirstOf(best(i))) > 0}}
        accepted == {p \in proposals : \A q \in proposals : q[2] = p[2] => q = p}
    IN IF outcomes = {} \/ references = {} \/ accepted = {} THEN {}
       ELSE accepted \cup Associated(frame, reference, outcomes \ {p[1] : p \in accepted},
                                     references \ {p[2] : p \in accepted})

GroundedOf(frame, reference, p) ==
    LET outcomes == OfPredicate(frame, p)
        references == OfPredicate(reference, p)
        first == FirstOf(references)
        shared == MentionedNames(reference[first])
        keys == KeysOf(reference[first], shared)
        referencesShare == /\ ShareKeys(reference, references, shared, keys)
                           /\ \A r \in references : MentionedNames(reference[r]) = shared
        pairs == Associated(frame, reference, outcomes, references)
    IN CASE references = {} -> {<<i, MentionedNames(frame[i])>> : i \in outcomes}
         [] Cardinality(references) = 1 -> {<<i, shared>> : i \in outcomes}
         [] OTHER ->
                IF shared # {} /\ referencesShare /\ ShareKeys(frame, outcomes, shared, keys)
                THEN {<<i, shared>> : i \in outcomes}
                ELSE {<<p2[1], MentionedNames(reference[p2[2]])>> : p2 \in pairs}

FunctionOf(pairs) == [i \in {g[1] : g \in pairs} |-> (CHOOSE g \in pairs : g[1] = i)[2]]
Grounding(frame, reference) ==
    FunctionOf(UNION {GroundedOf(frame, reference, p) : p \in Predicates(frame)})
OwnGrounding(frame) == [i \in DOMAIN frame |-> MentionedNames(frame[i])]
Unassociated(frame, reference) == DOMAIN frame \ DOMAIN Grounding(frame, reference)
NamesAt(grounding, i) == IF i \in DOMAIN grounding THEN grounding[i] ELSE {}

(***************************************************************************)
(* A frame is reliable when every effect is stated with confidence, is     *)
(* associated, and its evidence holds the same action.  One of several     *)
(* effects of a predicate must be represented completely.                  *)
(***************************************************************************)
Repeated(frame, p) == Cardinality(OfPredicate(frame, p)) > 1
ReliableEffect(frame, reference, grounding, i) ==
    LET effect == frame[i]
        grounded == NamesAt(grounding, i) \cap NameSet(effect)
    IN /\ effect.trusted
       /\ effect.record # <<>>
       /\ IF Repeated(frame, effect.predicate) \/ Repeated(reference, effect.predicate)
          THEN /\ effect.flat
               /\ DOMAIN effect.record[1] = NameSet(effect)
               /\ \A n \in NameSet(effect) :
                    ObservableKey(n, effect.record[1][n]) = ObservableKey(n, effect.fields[n])
          ELSE \A n \in grounded :
                    /\ n \in DOMAIN effect.record[1]
                    /\ ObservableValuesEqual(effect.record[1][n], effect.fields[n])
ReliableWith(frame, reference, grounding) ==
    /\ DOMAIN frame \subseteq DOMAIN grounding
    /\ \A i \in DOMAIN frame : ReliableEffect(frame, reference, grounding, i)
Reliable(frame, reference) == ReliableWith(frame, reference, Grounding(frame, reference))

-----------------------------------------------------------------------------
(* Grouping the repetitions of an arm.                                     *)

\* _shared_grounded_action_identity over the effects S of a frame
SharedIdentity(frame, S, grounding) ==
    LET names == NamesAt(grounding, FirstOf(S))
        keys == KeysOf(frame[FirstOf(S)], names)
    IN IF /\ S # {} /\ names # {} /\ names \subseteq NameSet(frame[FirstOf(S)])
          /\ \A i \in S : NamesAt(grounding, i) = names
          /\ ShareKeys(frame, S, names, keys)
       THEN <<names, keys>> ELSE <<>>

(* Mutant: repetitions are grouped by what was done, not to whom.          *)
ActionKeyOfPredicate(frame, grounding, i) == <<frame[i].predicate>>

ActionKey(frame, grounding, i) ==
    LET alike == OfPredicate(frame, frame[i].predicate)
        effect == frame[i]
    IN IF Cardinality(alike) > 1 /\ SharedIdentity(frame, alike, grounding) # <<>>
       THEN <<effect.predicate, "complete", RecordKey(effect)>>
       ELSE <<effect.predicate, KeysOf(effect, NamesAt(grounding, i) \cap NameSet(effect))>>

Semantics(effect) == [predicate |-> effect.predicate, position |-> effect.position,
                      fields |-> effect.fields]

All(effects) == [k \in DOMAIN effects |-> Semantics(effects[k])]

ActionKeys(frame, grounding) == [i \in DOMAIN frame |-> ActionKey(frame, grounding, i)]
OutcomeKey(frame, reference, surface) ==
    BagOf(IF surface = "action" THEN ActionKeys(frame, Grounding(frame, reference))
          ELSE All(frame))

\* frames[k] is the frame of repetition k, <<>> where it is inconclusive
TrialStability(frames, reference, surface) ==
    LET groups == {OutcomeKey(frames[k][1], reference, surface) : k \in DOMAIN frames}
    IN IF \E k \in DOMAIN frames : frames[k] = <<>> THEN "inconclusive"
       ELSE IF Cardinality(groups) = 1 THEN "stable" ELSE "unstable"

-----------------------------------------------------------------------------
(* Comparing an observed frame with the expected one.                      *)

GroundedMatch(expected, observed, names) ==
    \A n \in names \cap NameSet(expected) :
        /\ n \in NameSet(observed)
        /\ ObservableKey(n, observed.fields[n]) = ObservableKey(n, expected.fields[n])

ChangedNames(expected, observed, names) ==
    {n \in names \cap NameSet(expected) :
        \/ n \notin NameSet(observed)
        \/ ObservableKey(n, observed.fields[n]) # ObservableKey(n, expected.fields[n])}

(***************************************************************************)
(* Maximum matching by augmenting paths.  fits[e] is the set of observed   *)
(* indexes that expected index e may take; owner[o] is the expected index  *)
(* that holds o, or 0.  One search visits an observed index at most once.  *)
(***************************************************************************)
RECURSIVE Augment(_, _, _, _)
Augment(fits, owner, e, visited) ==
    LET free == fits[e] \ visited
        o == FirstOf(free)
        moved == Augment(fits, owner, owner[o], visited \cup {o})
    IN IF free = {} THEN [found |-> FALSE, owner |-> owner, visited |-> visited]
       ELSE IF owner[o] = 0
       THEN [found |-> TRUE, owner |-> [owner EXCEPT ![o] = e], visited |-> visited \cup {o}]
       ELSE IF moved.found
       THEN [moved EXCEPT !.owner = [moved.owner EXCEPT ![o] = e]]
       ELSE Augment(fits, owner, e, moved.visited)

MatchedOwners(fits, count) ==
    LET after[e \in 0 .. Len(fits)] ==
            IF e = 0 THEN [o \in 1 .. count |-> 0]
            ELSE Augment(fits, after[e - 1], e, {}).owner
    IN after[Len(fits)]

\* what the matching left of both sides, as sets of indexes
LeftByOwner(owner, count) ==
    <<{e \in 1 .. count : \A o \in DOMAIN owner : owner[o] # e},
      {o \in DOMAIN owner : owner[o] = 0}>>

GroundedLeft(expected, observed, names) ==
    LET fits == [e \in DOMAIN expected |->
                    {o \in DOMAIN observed : GroundedMatch(expected[e], observed[o], names[e])}]
    IN LeftByOwner(MatchedOwners(fits, Len(observed)), Len(expected))

RecordsLeft(expected, observed) ==
    LET taken[e \in 0 .. Len(expected)] ==
            IF e = 0 THEN [o \in DOMAIN observed |-> 0]
            ELSE LET before == taken[e - 1]
                     same == {o \in DOMAIN observed :
                                before[o] = 0 /\ RecordKey(observed[o]) = RecordKey(expected[e])}
                 IN IF same = {} THEN before ELSE [before EXCEPT ![FirstOf(same)] = e]
    IN LeftByOwner(taken[Len(expected)], Len(expected))

Finding(category, expected, observed, names) ==
    [category |-> category, expected |-> All(expected), observed |-> All(observed),
     names |-> names]
FindingIf(S, finding) == IF S = {} THEN {} ELSE {finding}

CompleteFindings(expected, observed, left) ==
    LET known == {RecordKey(expected[e]) : e \in DOMAIN expected}
        repeated == {o \in left[2] : RecordKey(observed[o]) \in known}
        pick(effects, S) == SortedEffects(effects, S)
    IN FindingIf(left[1], Finding("missing_effect", pick(expected, left[1]), observed, {}))
       \cup FindingIf(repeated, Finding("duplicate_effect", expected,
                                        pick(observed, repeated), {}))
       \cup FindingIf(left[2] \ repeated,
                      Finding("unexpected_effect", expected,
                              pick(observed, left[2] \ repeated), {}))

CompletePart(expected, observed) ==
    CompleteFindings(expected, observed, RecordsLeft(expected, observed))

\* e, o: the indexes that are left, in order; they are paired as far as they go
GroundedFindings(expected, observed, names, e, o) ==
    LET changed == IF Len(e) < Len(o) THEN Len(e) ELSE Len(o)
        rest == {o[k] : k \in changed + 1 .. Len(o)}
        repeated == {k \in rest : \E x \in DOMAIN expected :
                        GroundedMatch(expected[x], observed[k], names[x])}
    IN {Finding("changed_grounded_effect_argument", <<expected[e[k]]>>, <<observed[o[k]]>>,
                ChangedNames(expected[e[k]], observed[o[k]], names[e[k]])) : k \in 1 .. changed}
       \cup FindingIf({k \in DOMAIN e : k > changed},
                      Finding("missing_effect", expected, observed, {}))
       \cup FindingIf(repeated, Finding("duplicate_effect", expected,
                                        SortedEffects(observed, repeated), {}))
       \cup FindingIf(rest \ repeated, Finding("unexpected_effect", expected,
                                              SortedEffects(observed, rest \ repeated), {}))

LeftFindings(expected, observed, names, left) ==
    GroundedFindings(expected, observed, names,
                     SortedEffects([k \in DOMAIN expected |-> k], left[1]),
                     SortedEffects([k \in DOMAIN observed |-> k], left[2]))
GroundedPart(expected, observed, names) ==
    LeftFindings(expected, observed, names, GroundedLeft(expected, observed, names))

\* The effects of a predicate are compared by their complete records when the
\* several expected ones, and the observed ones with them, share their identity.
ComparedByRecord(expectedFrame, observedFrame, es, os, grounding) ==
    /\ Cardinality(es) > 1
    /\ \E shared \in {SharedIdentity(expectedFrame, es, grounding)} :
        /\ shared # <<>>
        /\ os # {} => SharedIdentity(observedFrame, os,
                            [i \in DOMAIN observedFrame |-> shared[1]]) = shared

PredicateFindings(expectedFrame, observedFrame, grounding, es, os) ==
    LET expected == SortedEffects(expectedFrame, es)
        observed == SortedEffects(observedFrame, os)
        names == SortedEffects([i \in DOMAIN expectedFrame |-> NamesAt(grounding, i)], es)
    IN IF es = {} THEN {Finding("unexpected_effect", <<>>, observed, {})}
       ELSE IF ComparedByRecord(expectedFrame, observedFrame, es, os, grounding)
       THEN CompletePart(expected, observed)
       ELSE GroundedPart(expected, observed, names)

CompareActions(expectedFrame, observedFrame, grounding) ==
    UNION {PredicateFindings(expectedFrame, observedFrame, grounding,
                             OfPredicate(expectedFrame, p), OfPredicate(observedFrame, p)) :
            p \in Predicates(expectedFrame) \cup Predicates(observedFrame)}

CompareResponses(expectedFrame, observedFrame) ==
    IF All(expectedFrame) = All(observedFrame) THEN {}
    ELSE {Finding("changed_response", expectedFrame, observedFrame, {})}

CompareOutcomes(expectedFrame, observedFrame, reference, surface) ==
    IF surface = "action"
    THEN CompareActions(expectedFrame, observedFrame, Grounding(expectedFrame, reference))
    ELSE CompareResponses(expectedFrame, observedFrame)

\* how the current baseline differs from the recorded outcome
DriftFromSource(baselineFrame, reference, surface) ==
    IF surface = "action"
    THEN CompareActions(reference, baselineFrame, OwnGrounding(reference))
    ELSE CompareResponses(reference, baselineFrame)
=============================================================================
