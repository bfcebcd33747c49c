-------------------------- MODULE DatasetInvariants --------------------------
(***************************************************************************)
(* The rules a customer writes about the answers and the committed state   *)
(* of the target, and how they are evaluated over the trials of a campaign *)
(* (sdk/src/ul/dataset_invariants.py, invariant_findings.py).              *)
(*                                                                         *)
(* A JSON value is a scalar [kind, value, size], an array [kind, items] or *)
(* an object [kind, entries], the entries in the order they are read.  A   *)
(* pointer is a sequence of tokens.  Something optional is a sequence of   *)
(* at most one element.  Evaluation threads one budget of work through all *)
(* trials of all rules of all arms: an evaluation is a record of what was  *)
(* found and of the budget that is left.                                   *)
(*                                                                         *)
(* The Accepted operators are the validators that every result passes when *)
(* it is built, and again when it is read back from the evidence.          *)
(***************************************************************************)
EXTENDS EvidenceForm

CONSTANTS
    MaximumArrayItems,      \* _MAXIMUM_ARRAY_ITEMS
    MaximumSize,            \* _MAXIMUM_RESOLVED_VALUE_BYTES
    MaximumWork,            \* _MAXIMUM_ARRAY_INVARIANT_WORK_UNITS
    DecimalIndex,           \* DecimalIndex[token]: the index a token writes in
                            \* canonical decimals, or -1
    TokenLength             \* TokenLength[token]: its length

ASSUME WorkLimitsAreNat == {MaximumArrayItems, MaximumSize, MaximumWork} \subseteq Nat

AtLeastOne(n) == IF n < 1 THEN 1 ELSE n
Distinct(s) == \A i, j \in DOMAIN s : s[i] = s[j] => i = j
NoCount == -1

-----------------------------------------------------------------------------
(* Scalars, equality and pointers.                                         *)

IsScalar(v) == v.kind \in {"null", "boolean", "integer", "float", "string"}
IsNumber(v) == v.kind \in {"integer", "float"}
Fits(v) == v.size <= MaximumSize
ConfiguredScalarSupported(v) == IsScalar(v) /\ v.kind # "float" /\ Fits(v)

Comparable(l, r) == (IsNumber(l) /\ IsNumber(r)) \/ l.kind = r.kind
ScalarsEqual(l, r) == Comparable(l, r) /\ l.value = r.value
ValueInSet(v, allowed) == \E i \in DOMAIN allowed : ScalarsEqual(v, allowed[i])
TypedKey(v) == <<v.kind, v.value>>
ScalarWork(v) == IF v.kind \in {"string", "integer"} THEN AtLeastOne(v.size) ELSE 1

EntryOf(object, key) ==
    LET at == {i \in DOMAIN object.entries : object.entries[i][1] = key}
    IN IF at = {} THEN <<>> ELSE <<object.entries[CHOOSE i \in at : TRUE][2]>>

BoundedArrayIndex(token, length) ==
    IF DecimalIndex[token] \in 0 .. length - 1 THEN <<DecimalIndex[token] + 1>> ELSE <<>>

Child(document, token) ==
    CASE document.kind = "object" -> EntryOf(document, token)
      [] document.kind = "array" ->
            LET index == BoundedArrayIndex(token, Len(document.items))
            IN IF Found(index) THEN <<document.items[It(index)]>> ELSE <<>>
      [] OTHER -> <<>>

RECURSIVE Resolve(_, _)
Resolve(document, pointer) ==
    IF pointer = <<>> THEN <<document>>
    ELSE LET child == Child(document, Head(pointer))
         IN IF Found(child) THEN Resolve(It(child), Tail(pointer)) ELSE <<>>

ScalarResolution(found) ==
    CASE ~Found(found) -> "missing"
      [] Found(found) /\ ~IsScalar(It(found)) -> "not_scalar"
      [] Found(found) /\ It(found).kind = "float" -> "non_integer_number"
      [] Found(found) /\ IsScalar(It(found)) /\ ~Fits(It(found)) -> "exceeds_limit"
      [] OTHER -> "resolved"

(***************************************************************************)
(* Deep equality against the budget.  A step that costs more than is left  *)
(* takes nothing from the budget: what is cheaper may still be done.       *)
(***************************************************************************)
Verdict(verdict, budget) == [verdict |-> verdict, budget |-> budget]

RECURSIVE ValuesEqual(_, _, _), ItemsEqual(_, _, _), EntriesEqual(_, _, _)
ValuesEqual(l, r, budget) ==
    LET scalar == IsScalar(l) \/ IsScalar(r)
        workOf(v) == IF IsScalar(v) THEN ScalarWork(v) ELSE 1
        cost == IF scalar /\ workOf(l) < workOf(r) THEN workOf(r)
                ELSE IF scalar THEN workOf(l) ELSE 1
        left == budget - cost
    IN IF cost > budget THEN Verdict("limit", budget)
       ELSE IF scalar
       THEN Verdict(IF IsScalar(l) /\ IsScalar(r) /\ ScalarsEqual(l, r)
                    THEN "equal" ELSE "different", left)
       ELSE IF l.kind = "array" /\ r.kind = "array" /\ Len(l.items) = Len(r.items)
       THEN ItemsEqual(l.items, r.items, left)
       ELSE IF l.kind = "object" /\ r.kind = "object" /\ Len(l.entries) = Len(r.entries)
       THEN EntriesEqual(l.entries, r, left)
       ELSE Verdict("different", left)
ItemsEqual(l, r, budget) ==
    IF l = <<>> \/ r = <<>> THEN Verdict("equal", budget)
    ELSE LET first == ValuesEqual(Head(l), Head(r), budget)
         IN IF first.verdict # "equal" THEN first
            ELSE ItemsEqual(Tail(l), Tail(r), first.budget)
EntriesEqual(entries, object, budget) ==
    IF entries = <<>> THEN Verdict("equal", budget)
    ELSE LET key == Head(entries)[1]
             cost == AtLeastOne(TokenLength[key])
             other == EntryOf(object, key)
         IN IF cost > budget THEN Verdict("limit", budget)
            ELSE IF ~Found(other) THEN Verdict("different", budget - cost)
            ELSE LET first == ValuesEqual(Head(entries)[2], It(other), budget - cost)
                 IN IF first.verdict # "equal" THEN first
                    ELSE EntriesEqual(Tail(entries), object, first.budget)

-----------------------------------------------------------------------------
(* What a rule reads of a trial.                                           *)

TransitionTypes == {"no_new_effect", "exactly_one_new_effect", "unchanged_between_checkpoints"}
IsTransition(rule) == rule.type \in TransitionTypes

WithCheckpoint(trial) ==
    IF /\ Found(trial.output) /\ Found(trial.evidence)
       /\ It(trial.evidence).terminal_status = "succeeded"
       /\ Found(It(trial.evidence).initial_state) /\ Found(It(trial.evidence).final_state)
       /\ LET initial == It(It(trial.evidence).initial_state)
              final == It(It(trial.evidence).final_state)
          IN initial.authority = final.authority /\ initial.observer = final.observer
    THEN LET initial == It(It(trial.evidence).initial_state)
             final == It(It(trial.evidence).final_state)
         IN <<[raw |-> It(trial.output).raw, before |-> <<initial.value>>,
               snapshot |-> <<final.value>>, authority |-> final.authority]>>
    ELSE <<>>

ForAuthority(output, authority) ==
    IF authority = "agent_response" \/ output = <<>> THEN output
    ELSE IF /\ Found(It(output).snapshot)
            /\ It(output).authority \in {"environment_self_reported", "independent_observer"}
         THEN <<[It(output) EXCEPT !.raw = It(It(output).snapshot)]>>
         ELSE <<>>

ObservedOutput(rule, trial, authority) ==
    ForAuthority(IF IsTransition(rule) THEN WithCheckpoint(trial) ELSE trial.output, authority)

-----------------------------------------------------------------------------
(* One rule over one output.  Each evaluation is <<result, budget left>>.  *)

EqualResult(rule, repetition, status, reason, resolved) ==
    [repetition |-> repetition, status |-> status, reason |-> reason,
     pointers |-> <<rule.left, rule.right>>, resolved |-> resolved]

EqualOutput(rule, output, repetition) ==
    LET result(status, reason, resolved) ==
            EqualResult(rule, repetition, status, reason, resolved)
        left == Resolve(It(output).raw, rule.left)
        right == Resolve(It(output).raw, rule.right)
        reasonOf == [missing |-> <<"left_pointer_missing", "right_pointer_missing">>,
                     not_scalar |-> <<"left_value_not_scalar", "right_value_not_scalar">>,
                     non_integer_number |-> <<"left_non_integer_number_not_supported",
                                              "right_non_integer_number_not_supported">>,
                     exceeds_limit |-> <<"left_value_exceeds_limit",
                                         "right_value_exceeds_limit">>]
    IN IF output = <<>> THEN result("not_evaluable", "target_output_missing", <<>>)
       ELSE IF ScalarResolution(left) # "resolved"
       THEN result("not_evaluable", reasonOf[ScalarResolution(left)][1], <<>>)
       ELSE IF ScalarResolution(right) # "resolved"
       THEN result("not_evaluable", reasonOf[ScalarResolution(right)][2], left)
       ELSE IF ~Comparable(It(left), It(right))
       THEN result("not_evaluable", "operand_types_differ", left \o right)
       ELSE IF ScalarsEqual(It(left), It(right))
       THEN result("satisfied", "values_equal", left \o right)
       ELSE result("violated", "values_differ", left \o right)

SingleValueReason ==
    [missing |-> "value_pointer_missing", not_scalar |-> "value_not_scalar",
     non_integer_number |-> "value_non_integer_number_not_supported",
     exceeds_limit |-> "value_exceeds_limit"]

(* Mutant: only a satisfied trial keeps the value it saw.                  *)
SingleValueOutputForgetting(rule, output, repetition, holds, yes, no) ==
    LET value == Resolve(It(output).raw, rule.pointer)
        resolution == ScalarResolution(value)
        missing == output = <<>> \/ resolution # "resolved"
        satisfied == ~missing /\ ValueInSet(It(value), holds)
    IN [repetition |-> repetition, pointers |-> <<rule.pointer>>,
        status |-> IF missing THEN "not_evaluable" ELSE IF satisfied THEN "satisfied"
                   ELSE "violated",
        reason |-> IF output = <<>> THEN "target_output_missing"
                   ELSE IF missing THEN SingleValueReason[resolution]
                   ELSE IF satisfied THEN yes ELSE no,
        resolved |-> IF satisfied THEN value ELSE <<>>]

SingleValueOutput(rule, output, repetition, holds, yes, no) ==
    LET result(status, reason, resolved) ==
            [repetition |-> repetition, status |-> status, reason |-> reason,
             pointers |-> <<rule.pointer>>, resolved |-> resolved]
        value == Resolve(It(output).raw, rule.pointer)
    IN IF output = <<>> THEN result("not_evaluable", "target_output_missing", <<>>)
       ELSE IF ScalarResolution(value) # "resolved"
       THEN result("not_evaluable", SingleValueReason[ScalarResolution(value)], <<>>)
       ELSE IF ValueInSet(It(value), holds) THEN result("satisfied", yes, value)
       ELSE result("violated", no, value)

ValueEqualsOutput(rule, output, repetition) ==
    SingleValueOutput(rule, output, repetition, <<rule.literal>>,
                      "value_equals_literal", "value_differs_from_literal")
ValueInSetOutput(rule, output, repetition) ==
    SingleValueOutput(rule, output, repetition, rule.allowed,
                      "value_in_allowed_set", "value_not_in_allowed_set")

(***************************************************************************)
(* Uniqueness of array items: the composite key of every item is read, a   *)
(* work unit for every character of the key pointers.  The first duplicate *)
(* is the verdict whatever comes after it; otherwise the first item whose  *)
(* key cannot be read, or the item at which the budget ended.              *)
(***************************************************************************)
KeyReason ==
    [missing |-> "key_pointer_missing", not_scalar |-> "key_value_not_scalar",
     non_integer_number |-> "key_non_integer_number_not_supported",
     exceeds_limit |-> "key_value_exceeds_limit"]

PointerWork(pointer) ==
    LET sum[i \in 0 .. Len(pointer)] ==
            IF i = 0 THEN 0 ELSE sum[i - 1] + AtLeastOne(TokenLength[pointer[i]])
    IN AtLeastOne(sum[Len(pointer)])

RECURSIVE KeyOf(_, _, _, _)
KeyOf(item, pointers, parts, budget) ==
    IF pointers = <<>> THEN [outcome |-> "key", parts |-> parts, budget |-> budget]
    ELSE LET pointer == Head(pointers)
             left == budget - PointerWork(pointer)
             value == Resolve(item, pointer)
             resolution == ScalarResolution(value)
         IN IF left < 0
            THEN [outcome |-> "limit", reason |-> "evaluation_work_limit_exceeded",
                  pointer |-> pointer, budget |-> budget]
            ELSE IF resolution # "resolved"
            THEN [outcome |-> "error", reason |-> KeyReason[resolution],
                  pointer |-> pointer, budget |-> left]
            ELSE KeyOf(item, Tail(pointers), Append(parts, TypedKey(It(value))), left)

FirstKey(S) == CHOOSE i \in S : \A j \in S : i <= j

RECURSIVE ScanItems(_, _, _), ScanKey(_, _, _, _)
ScanItems(items, keyPointers, scan) ==
    IF Len(scan.keys) = Len(items) THEN scan
    ELSE ScanKey(items, keyPointers, scan,
                 KeyOf(items[Len(scan.keys) + 1], keyPointers, <<>>, scan.budget))
ScanKey(items, keyPointers, scan, key) ==
    LET index == Len(scan.keys) + 1
        previous == {i \in DOMAIN scan.keys : scan.keys[i] = <<key.parts>>}
    IN CASE key.outcome = "limit" ->
                [scan EXCEPT !.budget = key.budget,
                             !.error = <<<<key.reason, index, key.pointer>>>>]
         [] key.outcome = "error" ->
                ScanItems(items, keyPointers,
                          [scan EXCEPT !.budget = key.budget, !.keys = Append(@, <<>>),
                                       !.error = IF @ = <<>>
                                                 THEN <<<<key.reason, index, key.pointer>>>>
                                                 ELSE @])
         [] key.outcome = "key" ->
                ScanItems(items, keyPointers,
                          [scan EXCEPT !.budget = key.budget, !.keys = Append(@, <<key.parts>>),
                                       !.duplicate = IF @ = <<>> /\ previous # {}
                                                     THEN <<<<FirstKey(previous), index>>>>
                                                     ELSE @])

ArrayResult(rule, repetition, status, reason, count, failed, duplicates) ==
    [repetition |-> repetition, status |-> status, reason |-> reason,
     pointers |-> <<rule.pointer, rule.keys>>, count |-> count, failed |-> failed,
     duplicates |-> duplicates]

ScannedResult(rule, repetition, count, scan) ==
    LET result(status, reason, failed, duplicates) ==
            ArrayResult(rule, repetition, status, reason, count, failed, duplicates)
    IN IF Found(scan.duplicate)
       THEN result("violated", "duplicate_array_items", <<>>, It(scan.duplicate))
       ELSE IF Found(scan.error)
       THEN result("not_evaluable", It(scan.error)[1], Tail(It(scan.error)), <<>>)
       ELSE result("satisfied", "array_items_unique", <<>>, <<>>)

Scanned(rule, repetition, count, scan) ==
    <<ScannedResult(rule, repetition, count, scan), scan.budget>>

UniqueItems(rule, array, repetition, budget) ==
    LET unknown(reason, count) ==
            <<ArrayResult(rule, repetition, "not_evaluable", reason, count, <<>>, <<>>), budget>>
    IN IF ~Found(array) THEN unknown("array_pointer_missing", NoCount)
       ELSE IF It(array).kind # "array" THEN unknown("array_value_not_array", NoCount)
       ELSE IF Len(It(array).items) > MaximumArrayItems
       THEN unknown("array_exceeds_limit", Len(It(array).items))
       ELSE Scanned(rule, repetition, Len(It(array).items),
                    ScanItems(It(array).items, rule.keys,
                              [budget |-> budget, keys |-> <<>>, duplicate |-> <<>>,
                               error |-> <<>>]))

ArrayUniqueOutput(rule, output, repetition, budget) ==
    IF output = <<>>
    THEN <<ArrayResult(rule, repetition, "not_evaluable", "target_output_missing", NoCount,
                       <<>>, <<>>), budget>>
    ELSE UniqueItems(rule, Resolve(It(output).raw, rule.pointer), repetition, budget)

(***************************************************************************)
(* Transitions between the state before the turn and the state after it.   *)
(***************************************************************************)
TransitionResult(rule, repetition, status, reason, before, after, new) ==
    [repetition |-> repetition, status |-> status, reason |-> reason,
     pointers |-> <<rule.pointer>>, before |-> before, after |-> after, new |-> new]

HistoryEqual(before, after, budget) == ItemsEqual(before, after, budget)

\* unchanged_between_checkpoints
ValueTransition(rule, repetition, unchanged) ==
    LET result(status, reason) ==
            TransitionResult(rule, repetition, status, reason, NoCount, NoCount, NoCount)
    IN <<CASE unchanged.verdict = "limit" ->
                    result("not_evaluable", "evaluation_work_limit_exceeded")
           [] unchanged.verdict = "equal" -> result("satisfied", "value_unchanged")
           [] unchanged.verdict = "different" -> result("violated", "value_changed"),
         unchanged.budget>>

\* an effect history that was appended to, as far as the budget let it be read
EffectTransition(rule, repetition, before, after, history) ==
    LET result(status, reason, new) ==
            <<TransitionResult(rule, repetition, status, reason, before, after, new),
              history.budget>>
        new == after - before
        satisfied == new = (IF rule.type = "no_new_effect" THEN 0 ELSE 1)
        reasons == IF rule.type = "no_new_effect"
                   THEN <<"no_new_effect", "new_effect_observed">>
                   ELSE <<"exactly_one_new_effect", "unexpected_new_effect_count">>
    IN CASE history.verdict = "limit" ->
                result("not_evaluable", "evaluation_work_limit_exceeded", NoCount)
         [] history.verdict = "different" ->
                result("not_evaluable", "effect_history_rewritten", NoCount)
         [] history.verdict = "equal" /\ satisfied -> result("satisfied", reasons[1], new)
         [] history.verdict = "equal" /\ ~satisfied -> result("violated", reasons[2], new)

TransitionOfValues(rule, before, after, repetition, budget) ==
    LET unknown(reason, beforeCount, afterCount) ==
            <<TransitionResult(rule, repetition, "not_evaluable", reason, beforeCount,
                               afterCount, NoCount), budget>>
        uncounted(reason) == unknown(reason, NoCount, NoCount)
        beforeCount == Len(It(before).items)
        afterCount == Len(It(after).items)
    IN IF ~Found(before) THEN uncounted("before_pointer_missing")
       ELSE IF ~Found(after) THEN uncounted("after_pointer_missing")
       ELSE IF rule.type = "unchanged_between_checkpoints"
       THEN ValueTransition(rule, repetition, ValuesEqual(It(before), It(after), budget))
       ELSE IF It(before).kind # "array" THEN uncounted("before_value_not_array")
       ELSE IF It(after).kind # "array" THEN uncounted("after_value_not_array")
       ELSE IF beforeCount > MaximumArrayItems \/ afterCount > MaximumArrayItems
       THEN unknown("effect_array_exceeds_limit", beforeCount, afterCount)
       ELSE IF afterCount < beforeCount
       THEN unknown("effect_history_rewritten", beforeCount, afterCount)
       ELSE EffectTransition(rule, repetition, beforeCount, afterCount,
                             HistoryEqual(It(before).items, It(after).items, budget))

TransitionOutput(rule, output, repetition, budget) ==
    LET unknown(reason) ==
            <<TransitionResult(rule, repetition, "not_evaluable", reason, NoCount, NoCount,
                               NoCount), budget>>
    IN IF output = <<>> THEN unknown("after_checkpoint_missing")
       ELSE IF ~Found(It(output).before) THEN unknown("before_checkpoint_missing")
       ELSE TransitionOfValues(rule, Resolve(It(It(output).before), rule.pointer),
                               Resolve(It(output).raw, rule.pointer), repetition, budget)

-----------------------------------------------------------------------------
(* A rule over the trials of an arm, an arm, all arms.                     *)

TrialEvaluation(rule, output, repetition, budget) ==
    CASE IsTransition(rule) -> TransitionOutput(rule, output, repetition, budget)
      [] rule.type = "json_value_equals_literal" ->
            <<ValueEqualsOutput(rule, output, repetition), budget>>
      [] rule.type = "json_value_in_allowed_set" ->
            <<ValueInSetOutput(rule, output, repetition), budget>>
      [] rule.type = "json_array_items_unique_by" ->
            ArrayUniqueOutput(rule, output, repetition, budget)
      [] rule.type = "json_values_equal" -> <<EqualOutput(rule, output, repetition), budget>>

\* so far: <<the results so far, the budget left>>; next: one more, and what it left
Extended(done, next) == <<Append(done, next[1]), next[2]>>

RECURSIVE TrialsFrom(_, _, _)
TrialsFrom(rule, outputs, sofar) ==
    LET k == Len(sofar[1]) + 1
    IN IF k > Len(outputs) THEN sofar
       ELSE TrialsFrom(rule, outputs,
                       Extended(sofar[1], TrialEvaluation(rule, outputs[k], k, sofar[2])))

RuleResult(rule, trials, aggregate) ==
    [rule |-> rule, status |-> aggregate[1], reason |-> aggregate[2], trials |-> trials]
RuleEvaluated(rule, evaluated) ==
    <<RuleResult(rule, evaluated[1], AggregateStatus(evaluated[1])), evaluated[2]>>
EvaluateRule(rule, trials, authority, budget) ==
    LET outputs == [i \in DOMAIN trials |-> ObservedOutput(rule, trials[i], authority)]
    IN RuleEvaluated(rule, TrialsFrom(rule, outputs, <<<<>>, budget>>))

RECURSIVE RulesFrom(_, _, _)
RulesFrom(suite, trials, sofar) ==
    LET k == Len(sofar[1]) + 1
    IN IF k > Len(suite.rules) THEN sofar
       ELSE RulesFrom(suite, trials,
                Extended(sofar[1],
                         EvaluateRule(suite.rules[k], trials, suite.authority, sofar[2])))

ArmEvaluated(arm, evaluated) ==
    <<[operator |-> arm.operator, rules |-> evaluated[1]], evaluated[2]>>

RECURSIVE ArmsFrom(_, _, _)
ArmsFrom(suite, arms, sofar) ==
    LET k == Len(sofar[1]) + 1
    IN IF k > Len(arms) THEN sofar[1]
       ELSE ArmsFrom(suite, arms,
                Extended(sofar[1],
                         ArmEvaluated(arms[k],
                                      RulesFrom(suite, arms[k].trials, <<<<>>, sofar[2]>>))))

(***************************************************************************)
(* All arms share one budget, the baseline first, then every variation     *)
(* that passed and was run, in the order of the cases.                     *)
(***************************************************************************)
EvaluateInvariants(suite, baseline, variations) ==
    ArmsFrom(suite, <<[operator |-> Baseline, trials |-> baseline]>> \o variations,
             <<<<>>, MaximumWork>>)

\* evaluate_dataset_invariant_rule_trials: one rule, with a budget of its own.
EvaluateAlone(rule, trials, authority) == EvaluateRule(rule, trials, authority, MaximumWork)[1]

-----------------------------------------------------------------------------
(* The validators.                                                         *)

SuiteAccepted(suite) ==
    LET transitions == {i \in DOMAIN suite.rules : IsTransition(suite.rules[i])}
        configured(rule) ==
            CASE rule.type = "json_values_equal" -> rule.left # rule.right
              [] rule.type = "json_value_equals_literal" ->
                    ConfiguredScalarSupported(rule.literal)
              [] rule.type = "json_value_in_allowed_set" ->
                    /\ \A i \in DOMAIN rule.allowed : ConfiguredScalarSupported(rule.allowed[i])
                    /\ \A i, j \in DOMAIN rule.allowed :
                            i # j => ~ScalarsEqual(rule.allowed[i], rule.allowed[j])
              [] rule.type = "json_array_items_unique_by" -> Distinct(rule.keys)
              [] IsTransition(rule) -> TRUE
    IN /\ Distinct([i \in DOMAIN suite.rules |-> suite.rules[i].id])
       /\ \A i \in DOMAIN suite.rules : configured(suite.rules[i])
       /\ suite.version = "1.0.0" =>
            \A i \in DOMAIN suite.rules : suite.rules[i].type = "json_values_equal"
       /\ transitions # {} => /\ suite.version = "1.2.0"
                              /\ suite.authority = "committed_state_snapshot"

SatisfiedReasons == {"values_equal", "value_equals_literal", "value_in_allowed_set",
                     "array_items_unique", "no_new_effect", "exactly_one_new_effect",
                     "value_unchanged"}
ViolatedReasons == {"values_differ", "value_differs_from_literal", "value_not_in_allowed_set",
                    "duplicate_array_items", "new_effect_observed",
                    "unexpected_new_effect_count", "value_changed"}
StatusOf(reason) ==
    IF reason \in SatisfiedReasons THEN "satisfied"
    ELSE IF reason \in ViolatedReasons THEN "violated" ELSE "not_evaluable"

EqualTrialAccepted(trial) ==
    LET none == {"target_output_missing", "left_pointer_missing", "left_value_not_scalar",
                 "left_non_integer_number_not_supported", "left_value_exceeds_limit"}
        one == {"right_pointer_missing", "right_value_not_scalar",
                "right_non_integer_number_not_supported", "right_value_exceeds_limit"}
        both == trial.reason \in {"values_equal", "values_differ", "operand_types_differ"}
        l == trial.resolved[1]
        r == trial.resolved[2]
    IN /\ trial.pointers[1] # trial.pointers[2]
       /\ \A i \in DOMAIN trial.resolved : ConfiguredScalarSupported(trial.resolved[i])
       /\ Len(trial.resolved) =
            (IF trial.reason \in none THEN 0 ELSE IF trial.reason \in one THEN 1 ELSE 2)
       /\ both => /\ Comparable(l, r) = (trial.reason # "operand_types_differ")
                  /\ ScalarsEqual(l, r) = (trial.reason = "values_equal")

SingleValueTrialAccepted(trial, reasonsWithValue) ==
    /\ Len(trial.resolved) = (IF trial.reason \in reasonsWithValue THEN 1 ELSE 0)
    /\ \A i \in DOMAIN trial.resolved : ConfiguredScalarSupported(trial.resolved[i])

ArrayTrialAccepted(trial) ==
    LET bare == trial.failed = <<>> /\ trial.duplicates = <<>>
        counted == trial.count # NoCount
    IN /\ trial.reason # "array_exceeds_limit" => trial.count <= MaximumArrayItems
       /\ CASE trial.reason \in {"target_output_missing", "array_pointer_missing",
                                 "array_value_not_array"} -> bare /\ ~counted
            [] trial.reason = "array_exceeds_limit" -> bare /\ trial.count > MaximumArrayItems
            [] trial.reason = "duplicate_array_items" ->
                    /\ counted /\ trial.failed = <<>> /\ Len(trial.duplicates) = 2
                    /\ trial.duplicates[1] < trial.duplicates[2]
                    /\ trial.duplicates[2] <= trial.count
            [] trial.reason = "array_items_unique" -> bare /\ counted
            [] OTHER -> /\ counted /\ trial.duplicates = <<>> /\ trial.failed # <<>>
                        /\ trial.failed[1] <= trial.count
                        /\ trial.failed[2] \in Elements(trial.pointers[2])

TransitionTrialAccepted(trial) ==
    LET counting == {"no_new_effect", "new_effect_observed", "exactly_one_new_effect",
                     "unexpected_new_effect_count"}
        maybeCounted == {"effect_array_exceeds_limit", "effect_history_rewritten",
                         "evaluation_work_limit_exceeded"}
    IN IF trial.reason \in counting
       THEN /\ NoCount \notin {trial.before, trial.after, trial.new}
            /\ trial.new = trial.after - trial.before
            /\ trial.new >= 0
            /\ trial.reason = "no_new_effect" => trial.new = 0
            /\ trial.reason = "exactly_one_new_effect" => trial.new = 1
            /\ trial.reason = "new_effect_observed" => trial.new # 0
            /\ trial.reason = "unexpected_new_effect_count" => trial.new # 1
       ELSE /\ trial.new = NoCount
            /\ trial.reason \notin maybeCounted => {trial.before, trial.after} = {NoCount}

TransitionReasons(type) ==
    LET own == CASE type = "no_new_effect" -> {"no_new_effect", "new_effect_observed"}
                 [] type = "exactly_one_new_effect" ->
                        {"exactly_one_new_effect", "unexpected_new_effect_count"}
                 [] OTHER -> {"value_unchanged", "value_changed"}
        shared == {"before_checkpoint_missing", "after_checkpoint_missing",
                   "before_pointer_missing", "after_pointer_missing",
                   "evaluation_work_limit_exceeded"}
        effectOnly == {"before_value_not_array", "after_value_not_array",
                       "effect_array_exceeds_limit", "effect_history_rewritten"}
    IN own \cup shared
           \cup (IF type = "unchanged_between_checkpoints" THEN {} ELSE effectOnly)

PointersOf(rule) ==
    CASE rule.type = "json_values_equal" -> <<rule.left, rule.right>>
      [] rule.type = "json_array_items_unique_by" -> <<rule.pointer, rule.keys>>
      [] OTHER -> <<rule.pointer>>

RuleTrialAccepted(rule, trial) ==
    /\ trial.status = StatusOf(trial.reason)
    /\ trial.pointers = PointersOf(rule)
    /\ CASE rule.type = "json_values_equal" -> EqualTrialAccepted(trial)
         [] rule.type = "json_value_equals_literal" ->
                /\ SingleValueTrialAccepted(trial,
                        {"value_equals_literal", "value_differs_from_literal"})
                /\ trial.resolved # <<>> =>
                        ScalarsEqual(trial.resolved[1], rule.literal)
                            = (trial.reason = "value_equals_literal")
         [] rule.type = "json_value_in_allowed_set" ->
                /\ SingleValueTrialAccepted(trial,
                        {"value_in_allowed_set", "value_not_in_allowed_set"})
                /\ trial.resolved # <<>> =>
                        ValueInSet(trial.resolved[1], rule.allowed)
                            = (trial.reason = "value_in_allowed_set")
         [] rule.type = "json_array_items_unique_by" -> ArrayTrialAccepted(trial)
         [] IsTransition(rule) -> /\ TransitionTrialAccepted(trial)
                                  /\ trial.reason \in TransitionReasons(rule.type)

RuleResultAccepted(result) ==
    /\ result.trials # <<>>
    /\ \A i \in DOMAIN result.trials :
            /\ result.trials[i].repetition = i
            /\ RuleTrialAccepted(result.rule, result.trials[i])
    /\ <<result.status, result.reason>> = AggregateStatus(result.trials)

EvaluationAccepted(evaluation) ==
    /\ evaluation # <<>> /\ evaluation[1].operator = Baseline
    /\ Distinct([a \in DOMAIN evaluation |-> evaluation[a].operator])
    /\ \A a \in DOMAIN evaluation :
            /\ Distinct([k \in DOMAIN evaluation[a].rules |-> evaluation[a].rules[k].rule.id])
            /\ \A k \in DOMAIN evaluation[a].rules : RuleResultAccepted(evaluation[a].rules[k])
            /\ [k \in DOMAIN evaluation[a].rules |-> evaluation[a].rules[k].rule]
                = [k \in DOMAIN evaluation[1].rules |-> evaluation[1].rules[k].rule]
=============================================================================
