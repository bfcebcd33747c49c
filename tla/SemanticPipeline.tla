--------------------------- MODULE SemanticPipeline ---------------------------
(***************************************************************************)
(* What one invocation of `ul dataset evaluate` asks of the semantic model *)
(* and makes of the answers: the preflight, the augmentation of each       *)
(* record (sdk/src/ul/augmentations/dataset.py), the verdict on each       *)
(* variation (dataset_evaluation.py) and its materiality, through the      *)
(* cache of SemanticModelDeconstructor (deconstruction.py), against the    *)
(* number of calls the plan shows (cli/src/ul_cli/dataset_campaign.py).    *)
(*                                                                         *)
(* Texts, frames and outputs are kept as far as the decisions tell them    *)
(* apart.  Trials make no semantic call here, as the command compares      *)
(* returned responses, so that the trials of an arm are drawn at once;     *)
(* their order is the subject of Campaign and ConcurrentTrials.            *)
(***************************************************************************)
EXTENDS Naturals, FiniteSets, FiniteSetsExt, SequencesExt, Sizes

\* plan.saved[r]: the operators whose saved candidate passed, or this.
NotSaved == {0}

CONSTANTS
    Inputs,         \* Inputs[r]: the input of the r-th record
    Plans,          \* the operators selected, what is saved of each record, and
                    \* whether there is to be a preflight
    Texts,          \* what a renderer may return
    TextKey,        \* TextKey[t]: t with its case and white space folded
    Misfits,        \* texts outside the footprint of every operator
    Signature,      \* Signature[role]: the request options of that evaluator
    Size,           \* Size[kind]: of a cached completion
    MaxEntries, MaxBytes,       \* the limits of the cache
    TrialSets       \* the outcomes of the repetitions of an arm

ASSUME LimitsAreNat == {MaxEntries, MaxBytes} \subseteq Nat
ASSUME RecordsAreGiven ==
    Inputs # <<>> /\ Inputs \in Seq(Range(Inputs))
ASSUME PlansAreSelections ==
    \A p \in Plans :
        /\ p.preflight \in BOOLEAN
        /\ p.selection # <<>> /\ p.selection \in Seq(Range(p.selection))
        /\ \A r \in DOMAIN Inputs :
               p.saved[r] = NotSaved \/ p.saved[r] \subseteq DOMAIN p.selection
        /\ \A op \in Range(p.selection) :      \* an operator changes one thing
               {op.llm, op.tone, op.corrects} \subseteq BOOLEAN /\ ~(op.tone /\ op.corrects)
ASSUME ProfilesAreFew == DOMAIN Signature # {} /\ IsFiniteSet(DOMAIN Signature)
ASSUME SizesAreNat == \A kind \in {"deconstruct", "render", "verify"} : Size[kind] \in Nat
ASSUME ArmsAreTried == \A o \in TrialSets : o # <<>> /\ o \in Seq(Range(o))

VARIABLES
    plan,           \* the plan of this invocation
    stage, record, operator,    \* where the invocation stands
    cache, bytes,   \* least recently used first; the running total
    draft,          \* the candidate at hand
    candidates, skips,          \* of the record at hand
    original, tested, case,     \* trials of the original; operators done; the last case
    made            \* calls of the model so far, by kind

place == <<stage, record, operator>>
memory == <<cache, bytes>>
results == <<candidates, skips>>
trials == <<original, tested, case>>
vars == <<plan, place, memory, draft, results, trials, made>>

Operators == plan.selection
Input == Inputs[record]
Op == Operators[operator]
Positions == DOMAIN plan.selection
IsSaved(r) == plan.saved[r] # NotSaved
Profiles == {Signature[role] : role \in DOMAIN Signature}

Kinds == {"preflight", "source", "generation", "retries", "candidate", "verify",
          "materiality"}
NoDraft == [text |-> "", frame |-> "none", reasons |-> {}]
NoCase == [verdict |-> "none"]

Init ==
    /\ plan \in Plans
    /\ stage = "preflight" /\ record = 1 /\ operator = 1
    /\ cache = <<>> /\ bytes = 0
    /\ draft = NoDraft /\ candidates = <<>> /\ skips = {}
    /\ original = <<>> /\ tested = {} /\ case = NoCase
    /\ made = [k \in Kinds |-> 0]

(***************************************************************************)
(* The plan shown before the campaign starts.                              *)
(***************************************************************************)
Fresh == Cardinality({r \in DOMAIN Inputs : ~IsSaved(r)})
Count(P(_)) == Cardinality({i \in Positions : P(Operators[i])})

PlannedVariations(r) == IF IsSaved(r) THEN Cardinality(plan.saved[r])
                        ELSE Len(Operators)

Planned ==
    LET generated == Fresh * Count(LAMBDA op : op.llm) IN
    [preflight   |-> IF plan.preflight THEN Cardinality(Profiles) ELSE 0,
     source      |-> Fresh,
     candidate   |-> Fresh * Len(Operators),
     verify      |-> Fresh * (Len(Operators) + Count(LAMBDA op : op.tone)),
     generation  |-> generated,
     retries     |-> generated,
     materiality |-> Total([r \in DOMAIN Inputs |-> PlannedVariations(r)])]

(***************************************************************************)
(* The cache and a request (_request).                                     *)
(***************************************************************************)
PlacesOf(key, entries) == {i \in DOMAIN entries : entries[i].key = key}

\* _cache_semantic_response: least recently used entries go until both limits hold.
Stored(key, answer, size) ==
    LET grown == Append(cache, [key |-> key, answer |-> answer, size |-> size])
        Fits(n) == /\ Len(grown) - n <= MaxEntries
                   /\ bytes + size - SumOfSizes(SubSeq(grown, 1, n)) <= MaxBytes
        evicted == CHOOSE n \in 0 .. Len(grown) :
                       Fits(n) /\ \A k \in 0 .. n - 1 : ~Fits(k)
    IN IF size > MaxBytes THEN [cache |-> cache, bytes |-> bytes]
       ELSE [cache |-> SubSeq(grown, evicted + 1, Len(grown)),
             bytes |-> bytes + size - SumOfSizes(SubSeq(grown, 1, evicted))]

\* Mutant: the running total keeps the discarded bytes.
DiscardedOnly(key, m) ==
    IF PlacesOf(key, m.cache) = {} THEN m
    ELSE [m EXCEPT !.cache = RemoveAt(@, Min(PlacesOf(key, m.cache)))]

\* _discard_cached_completion
Discarded(key, m) ==
    IF PlacesOf(key, m.cache) = {} THEN m
    ELSE LET i == Min(PlacesOf(key, m.cache)) IN
         [cache |-> RemoveAt(m.cache, i), bytes |-> m.bytes - m.cache[i].size]

\* "lost": no completion, or one that is not a completion (a diagnostic error);
\* "barred": a redirect, a leak (ValueError).  A request that is too long to be
\* sent ends in the same error; it is counted here, the code does not count it.
Unanswered == {"lost", "barred"}
\* "malformed" is not what was asked for (a diagnostic error); "unfit" is, but
\* ungrounded, too long or misquoted (ValueError).
Discardable == {"malformed", "unfit"}
Failures == Unanswered \cup Discardable
EndsInvocation(answer) == answer \in {"lost", "malformed"}
IsValueError(answer) == answer \in {"barred", "unfit", "unidentified"}

Ask(kind, key, proper, answer) ==
    IF PlacesOf(key, cache) # {}
    THEN \E i \in PlacesOf(key, cache) :
            /\ answer = cache[i].answer
            /\ cache' = Append(RemoveAt(cache, i), cache[i])
            /\ UNCHANGED <<bytes, made>>
    ELSE /\ answer \in proper \cup Failures
         /\ made' = [made EXCEPT ![kind] = @ + 1]
         /\ LET stored == Stored(key, answer, Size[key[1]])
                kept == IF answer \in Unanswered THEN [cache |-> cache, bytes |-> bytes]
                        ELSE IF answer \in Discardable THEN Discarded(key, stored)
                        ELSE stored
            IN cache' = kept.cache /\ bytes' = kept.bytes

(***************************************************************************)
(* Preflight: one call for each distinct profile, or an earlier receipt.   *)
(***************************************************************************)
Preflight ==
    /\ stage = "preflight" /\ plan.preflight
    /\ \E fits \in BOOLEAN :
           stage' = IF ~fits THEN "ended"
                    ELSE IF made.preflight + 1 = Cardinality(Profiles) THEN "source"
                    ELSE "preflight"
    /\ made' = [made EXCEPT !.preflight = @ + 1]
    /\ UNCHANGED <<plan, record, operator, memory, draft, results, trials>>

ReusePreflight ==
    /\ stage = "preflight" /\ ~plan.preflight
    /\ stage' = "source"
    /\ UNCHANGED <<plan, record, operator, memory, draft, results, trials, made>>

(***************************************************************************)
(* From one record to the next.                                            *)
(***************************************************************************)
NextRecord ==
    /\ stage' = IF record = Len(Inputs) THEN "ended" ELSE "source"
    /\ record' = IF record = Len(Inputs) THEN record ELSE record + 1
    /\ operator' = 1
    /\ draft' = NoDraft /\ candidates' = <<>> /\ skips' = {}
    /\ original' = <<>> /\ tested' = {} /\ case' = NoCase

\* A ValueError of augment: DatasetSemanticPreparationError, the record is left out.
\* A provider's diagnostic error ends the invocation.
Fail(answer) ==
    IF EndsInvocation(answer)
    THEN stage' = "ended" /\ UNCHANGED <<record, operator, draft, results, trials>>
    ELSE NextRecord

PassedOperators == IF IsSaved(record) THEN plan.saved[record]
                   ELSE {c.operator : c \in {d \in Range(candidates) : d.passed}}

UseSavedAugmentation ==
    /\ stage = "source" /\ IsSaved(record)
    /\ stage' = "original"
    /\ UNCHANGED <<plan, record, operator, memory, draft, results, trials, made>>

(***************************************************************************)
(* augment                                                                 *)
(***************************************************************************)
\* _source_skip
Unusable == {"no request or outcome", "unresolved", "ambiguous"}

\* The input alone is deconstructed; the response is framed without a call.
DeconstructSource ==
    /\ stage = "source" /\ ~IsSaved(record)
    /\ \E answer \in Failures \cup Unusable \cup {"usable"} :
        /\ Ask("source", <<"deconstruct", Input, "no reference">>,
               Unusable \cup {"usable"}, answer)
        /\ IF answer \in Failures THEN Fail(answer)
           ELSE /\ stage' = IF answer = "usable" THEN "operator" ELSE "original"
                /\ skips' = IF answer = "usable" THEN {} ELSE Positions
                /\ UNCHANGED <<record, operator, draft, candidates, trials>>
    /\ UNCHANGED plan

\* validate_operator_plan, then _validate_precomputed_augmentation, which wants a
\* reparsed frame of what passed and otherwise refuses the whole augmentation.
AugmentationIsValid(made_) ==
    \A c \in Range(made_) : c.passed => c.frame # "none" /\ c.text # Input

GoOn(produced, skipped) ==
    IF operator < Len(Operators)
    THEN /\ stage' = "operator" /\ operator' = operator + 1
         /\ candidates' = produced /\ skips' = skipped /\ draft' = NoDraft
         /\ UNCHANGED <<record, trials>>
    ELSE IF AugmentationIsValid(produced)
    THEN /\ stage' = "original" /\ operator' = 1
         /\ candidates' = produced /\ skips' = skipped /\ draft' = NoDraft
         /\ UNCHANGED <<record, trials>>
    ELSE NextRecord

\* Punctuation without a place for it, a correction without a value to correct.
NotApplicable ==
    /\ stage = "operator" /\ Op.particular
    /\ GoOn(candidates, skips \cup {operator})
    /\ UNCHANGED <<plan, memory, made>>

\* _add_typing_noise, _add_punctuation_noise, _add_self_correction
Write ==
    /\ stage = "operator" /\ ~Op.llm
    /\ \E text \in Op.writes :
           draft' = [draft EXCEPT !.text = text]
    /\ stage' = "reparse"
    /\ UNCHANGED <<plan, record, operator, memory, results, trials, made>>

RetryReasons(text) ==
    (IF text \in Misfits THEN {"footprint"} ELSE {})
        \cup (IF text = Input THEN {"unchanged"} ELSE {})

Unidentified == {"unidentified"}

StageAfterRender(text) == IF RetryReasons(text) = {} THEN "reparse" ELSE "retry"

\* Mutant: the renderer is asked until it returns something that fits.
StageOfEveryAnswer(text) == IF RetryReasons(text) = {} THEN "reparse" ELSE "retry"

\* The second answer is taken as it is.
StageAfterRetry(text) == "reparse"

\* onwards[t]: the stage that text leads to.
Rendered(kind, key, onwards) ==
    /\ \E answer \in Failures \cup Unidentified \cup Texts :
        /\ Ask(kind, key, Unidentified \cup Texts, answer)
        /\ IF EndsInvocation(answer) \/ IsValueError(answer) THEN Fail(answer)
           ELSE /\ stage' = onwards[answer]
                /\ draft' = [draft EXCEPT !.text = answer,
                       !.reasons = IF stage' = "retry" THEN RetryReasons(answer) ELSE {}]
                /\ UNCHANGED <<record, operator, results, trials>>
    /\ UNCHANGED plan

Render ==
    /\ stage = "operator" /\ Op.llm
    /\ Rendered("generation", <<"render", Input, Op.name, {}>>,
                [text \in Texts |-> StageAfterRender(text)])

Retry ==
    /\ stage = "retry"
    /\ Rendered("retries", <<"render", Input, Op.name, draft.reasons>>,
                [text \in Texts |-> StageAfterRetry(text)])

\* The meaning read from a candidate, against what the operator may change.
Frames == {"same", "toned", "corrected", "ambiguous", "other"}
IsAmbiguous(frame) == frame = "ambiguous"
KeepsTaskMeaning(frame) == frame \in IF Op.tone THEN {"same", "toned"} ELSE {"same"}
AddsThePlannedCorrection(frame) == frame = "corrected"
Agrees(frame) ==
    \/ IsAmbiguous(frame)
    \/ ~Op.corrects /\ KeepsTaskMeaning(frame)
    \/ Op.corrects /\ AddsThePlannedCorrection(frame)

\* Mutant: texts that differ in case only count as different inputs.
LateReasonsByText(frame) ==
    {reason \in {"ambiguous", "unchanged", "duplicate"} :
        \/ reason = "ambiguous" /\ IsAmbiguous(frame)
        \/ reason = "unchanged" /\ draft.text = Input
        \/ reason = "duplicate" /\ \E c \in Range(candidates) : c.text = draft.text}

\* What no verification clears.
LateReasons(frame) ==
    {reason \in {"ambiguous", "unchanged", "duplicate"} :
        \/ reason = "ambiguous" /\ IsAmbiguous(frame)
        \/ reason = "unchanged" /\ draft.text = Input
        \/ /\ reason = "duplicate"
           /\ \E c \in Range(candidates) : TextKey[c.text] = TextKey[draft.text]}

Conclude(frame, verified, reasons) ==
    GoOn(Append(candidates,
             [operator |-> operator, text |-> draft.text, frame |-> frame,
              verified |-> verified, passed |-> reasons \cup LateReasons(frame) = {}]),
         skips)

NeedsVerification(reasons) == ~Op.corrects /\ (reasons # {} \/ Op.tone)

\* The candidate is deconstructed in the vocabulary of the source.
Reparse ==
    /\ stage = "reparse"
    /\ \E answer \in Failures \cup Frames :
        /\ Ask("candidate", <<"deconstruct", draft.text, Input>>, Frames, answer)
        /\ LET frame == IF IsValueError(answer) THEN "none" ELSE answer
               reasons == IF frame = "none" THEN {"unparsed"}
                          ELSE IF Agrees(frame) THEN {} ELSE {"meaning"}
           IN IF EndsInvocation(answer) THEN Fail(answer)
              ELSE IF NeedsVerification(reasons)
              THEN /\ stage' = "verify"
                   /\ draft' = [draft EXCEPT !.frame = frame, !.reasons = reasons]
                   /\ UNCHANGED <<record, operator, results, trials>>
              ELSE Conclude(frame, "not asked", reasons)
    /\ UNCHANGED plan

\* An equivalent text passes whatever its frame says, or without one.
Verify ==
    /\ stage = "verify"
    /\ \E answer \in Failures \cup {"equivalent", "different"} :
        /\ Ask("verify", <<"verify", Input, draft.text, Op.allows>>,
               {"equivalent", "different"}, answer)
        /\ IF EndsInvocation(answer) THEN Fail(answer)
           ELSE Conclude(draft.frame, answer,
                         IF answer = "equivalent" THEN {} ELSE {"meaning"})
    /\ UNCHANGED plan

(***************************************************************************)
(* Trials and verdicts (DatasetEvaluationRunner.run).                      *)
(***************************************************************************)
Inconclusive == "inconclusive"

\* _group_evaluation_trials: outcomes are grouped by their JSON text.
Stability(outcomes) ==
    IF Inconclusive \in Range(outcomes) THEN "inconclusive"
    ELSE IF Cardinality(Range(outcomes)) = 1 THEN "stable" ELSE "unstable"

\* _compare_response_outcomes compares values, and in Python True == 1.
Alike(a, b) == a = b \/ {a, b} = {"true", "1"}

Findings(baseline, outcomes) ==
    /\ Stability(baseline) = "stable" /\ Stability(outcomes) = "stable"
    /\ ~Alike(baseline[1], outcomes[1])

Verdict(baseline, outcomes) ==
    IF Stability(outcomes) = "inconclusive" \/ Stability(baseline) # "stable"
    THEN "inconclusive"
    ELSE IF Stability(outcomes) = "unstable" \/ Findings(baseline, outcomes)
    THEN "divergence_needs_review"
    ELSE "no_divergence"

\* No usable variation: the original is not replayed.
SkipOriginal ==
    /\ stage = "original" /\ PassedOperators = {}
    /\ NextRecord
    /\ UNCHANGED <<plan, memory, made>>

OriginalTrials ==
    /\ stage = "original" /\ PassedOperators # {}
    /\ stage' = "variations"
    /\ original' \in TrialSets
    /\ UNCHANGED <<plan, record, operator, memory, draft, results, tested, case, made>>

\* A variation is not sent where its original was inconclusive.
Paired(outcomes) ==
    \A i \in DOMAIN outcomes : original[i] = Inconclusive => outcomes[i] = Inconclusive

\* MaterialVarianceEvaluator.evaluate, or the decision client: a failing judge
\* does not fail the case but leaves "insufficient_evidence".
Materialities == {"material_variance", "operationally_equivalent", "insufficient_evidence"}
Materiality(findings) == IF findings THEN Materialities ELSE {"none"}

\* No judge is asked when the effects alone settle it.
JudgeIsAsked(findings) == IF findings THEN BOOLEAN ELSE {FALSE}

VariationTrials ==
    /\ stage = "variations" /\ tested # PassedOperators
    /\ LET i == Min(PassedOperators \ tested) IN
        \E outcomes \in {o \in TrialSets : Paired(o)} :
        \E materiality \in Materiality(Findings(original, outcomes)),
           judged \in JudgeIsAsked(Findings(original, outcomes)) :
            /\ made' = [made EXCEPT !.materiality = IF judged THEN @ + 1 ELSE @]
            /\ tested' = tested \cup {i}
            /\ case' = [operator |-> i, outcomes |-> outcomes, materiality |-> materiality,
                        verdict |-> Verdict(original, outcomes)]
    /\ UNCHANGED <<plan, place, memory, draft, results, original>>

EndRecord ==
    /\ stage = "variations" /\ tested = PassedOperators
    /\ NextRecord
    /\ UNCHANGED <<plan, memory, made>>

Next ==
    \/ Preflight \/ ReusePreflight
    \/ UseSavedAugmentation \/ DeconstructSource
    \/ NotApplicable \/ Write \/ Render \/ Retry \/ Reparse \/ Verify
    \/ SkipOriginal \/ OriginalTrials \/ VariationTrials \/ EndRecord

Spec == Init /\ [][Next]_vars

(***************************************************************************)
(* Properties                                                              *)
(***************************************************************************)
TypeOK ==
    /\ stage \in {"preflight", "source", "operator", "retry", "reparse", "verify",
                  "original", "variations", "ended"}
    /\ record \in DOMAIN Inputs /\ operator \in Positions
    /\ \A e \in Range(cache) : DOMAIN e = {"key", "answer", "size"}
    /\ bytes \in Nat
    /\ skips \subseteq Positions /\ tested \subseteq Positions
    /\ made \in [Kinds -> Nat]

\* The plan promises "semantic-model calls: up to N" before anything is sent
\* (dataset_campaign.py): whatever the cache forgets, the renderer returns and
\* the model refuses, no kind of call exceeds its share of the plan.
CallsStayInPlan == \A k \in Kinds : made[k] <= Planned[k]

\* The cache of completions (_request, _cache_semantic_response,
\* _discard_cached_completion): the running total is the sum of the entries, both
\* limits hold, no request has two answers, and what was refused is not kept.  (A
\* rendering without a generation identity is refused and kept: see README.)
CacheIsSound ==
    /\ TypeOK
    /\ bytes = SumOfSizes(cache) /\ bytes <= MaxBytes /\ Len(cache) <= MaxEntries
    /\ \A i, j \in DOMAIN cache : cache[i].key = cache[j].key => i = j
    /\ \A e \in Range(cache) : e.answer \notin Failures

\* A candidate that passed is a new input for this source, read as meaning what it
\* may mean or verified as equivalent, which a change of tone always is and a
\* planned correction never; every operator left a candidate or a skip; and a
\* verdict says what the trials of both arms say (augment, run).
PassedIsEarned(c, op, others) ==
    /\ TextKey[c.text] \notin {TextKey[d.text] : d \in others}
    /\ c.text # Input /\ ~IsAmbiguous(c.frame)
    /\ op.tone => c.verified = "equivalent"
    /\ op.corrects => c.verified = "not asked" /\ c.frame = "corrected"
    /\ c.frame \in {"none", "other"} => c.verified = "equivalent"

VerdictIsEarned ==
    LET all == Range(original) \cup Range(case.outcomes) IN
    /\ case.verdict = "no_divergence" =>
           Inconclusive \notin all /\ \A a, b \in all : Alike(a, b)
    /\ case.verdict = "divergence_needs_review" =>
           /\ Inconclusive \notin all /\ Cardinality(Range(original)) = 1
           /\ \E a \in Range(case.outcomes) : a # original[1]
    /\ Inconclusive \in all => case.verdict = "inconclusive"
    /\ case.materiality # "none" => case.verdict = "divergence_needs_review"

ResultsAreEarned ==
    /\ \A i \in DOMAIN candidates :
           LET c == candidates[i] IN
           c.passed => PassedIsEarned(c, Operators[c.operator],
                                      Range(SubSeq(candidates, 1, i - 1)))
    /\ stage = "original" /\ ~IsSaved(record) =>
           /\ skips \cup {c.operator : c \in Range(candidates)} = Positions
           /\ \A c \in Range(candidates) : c.passed => c.frame # "none"
    /\ case # NoCase => VerdictIsEarned
=============================================================================
