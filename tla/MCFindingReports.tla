-------------------------- MODULE MCFindingReports --------------------------
(***************************************************************************)
(* Campaigns for TLC: every combination of a few outcomes, evidences,      *)
(* values and verdicts of one source, and a few campaigns of two sources   *)
(* that are stopped, killed and resumed.                                   *)
(***************************************************************************)
EXTENDS FindingReports

MentionedValues == {"x", "y"}
Numbers == [v \in {"x", "y", "u"} |-> v]
Tokens == {"value", "items", "id", "code", "0", "1"}
Indexes == [t \in Tokens |-> IF t = "0" THEN 0 ELSE IF t = "1" THEN 1 ELSE -1]
Lengths == [t \in Tokens |-> IF t = "code" THEN 2 ELSE 1]

Effect(predicate, position, fields) ==
    [predicate |-> predicate, position |-> position, fields |-> fields,
     trusted |-> TRUE, record |-> <<fields>>, flat |-> TRUE]
To(v) == [to |-> v]
Send(position, v) == Effect("send", position, To(v))

Nothing == <<>>
SendX == <<Send(1, "x")>>
SendU == <<Send(1, "u")>>
Noted == <<Effect("send", 1, [to |-> "x", note |-> "u"])>>
Both == <<Send(1, "x"), Send(2, "y")>>
Twice == <<Send(1, "x"), Send(2, "x")>>
Paid == <<Send(1, "x"), Effect("pay", 2, To("x"))>>

Scalar(kind, v, size) == [kind |-> kind, value |-> v, size |-> size]
Null == Scalar("null", 0, 1)
Plain == Scalar("string", 1, 1)
Output(raw) == <<[raw |-> raw, before |-> <<>>, snapshot |-> <<>>,
                  authority |-> "environment_self_reported"]>>
NoEvidence == <<>>
Deliver(output, what, frame) == [output |-> output, evidence |-> what, frame |-> frame]
Did(frame) == Deliver(Output(Plain), NoEvidence, <<frame>>)
Failed == Deliver(<<>>, NoEvidence, <<>>)

Case(operator, passed, deliveries, materiality) ==
    [operator |-> operator, passed |-> passed, deliveries |-> deliveries,
     materiality |-> materiality]
Source(surface, reference, baseline, cases) ==
    [prepared |-> TRUE, surface |-> surface, reference |-> reference, baseline |-> baseline,
     cases |-> cases]
Reviewing(findings, source, suite) ==
    [sources |-> <<source>>, suite |-> suite, maxStops |-> 0, maxReviews |-> findings]
One(source, suite) == Reviewing(0, source, suite)

\* what was done, by two repetitions of the original and of the variation
Outcomes == {Did(f) : f \in {Nothing, SendX, SendU, Noted, Both, Twice, Paid}} \cup {Failed}
Behaviors ==
    {One(Source("action", reference, <<a, b>>, <<Case("v", TRUE, <<c, d>>, "none")>>), <<>>) :
        reference \in {SendX, Both, Twice}, a, b, c, d \in Outcomes}

\* what is known of an execution
State(v, authority) ==
    <<[authority |-> authority, observer |-> IF authority = "independent_observer"
                                             THEN "observer" ELSE "environment", value |-> v]>>
Observation(status, content, authority, source) ==
    [status |-> status, content |-> content, authority |-> authority, source |-> source]
Evidence(scope, before, after, observations, events) ==
    <<[terminal_status |-> "succeeded", scope |-> scope, initial_state |-> before,
       final_state |-> after, response |-> TRUE, observations |-> observations,
       events |-> events]>>
SelfReported == "environment_self_reported"
Independent == "independent_observer"
Evidences ==
    {NoEvidence,
     Evidence("response_only", <<>>, <<>>, <<>>, 1),
     Evidence("response_and_state", State(Plain, SelfReported), State(Plain, SelfReported),
              <<Observation("incomplete", TRUE, "source_self_reported", "agent")>>, 0),
     Evidence("response_and_state", State(Plain, Independent), State(Null, Independent),
              <<Observation("complete", FALSE, "source_self_reported", "agent"),
                Observation("missing", FALSE, "independent_observer", "probe")>>, 0),
     Evidence("response_and_state", State(Plain, SelfReported), State(Plain, Independent),
              <<Observation("complete", TRUE, "independent_observer", "probe"),
                Observation("incomplete", TRUE, "source_self_reported", "agent")>>, 0)}
Answer(v) == <<Effect("answer", 0, To(v))>>
Answered(what, v) == Deliver(Output(Plain), what, <<Answer(v)>>)
Executions ==
    {One(Source("response", Answer("x"), <<Answered(a, "x"), Answered(b, "x")>>,
                <<Case("v", TRUE, <<Answered(c, "y"), Answered(d, "y")>>, "none")>>), <<>>) :
        a, b, c, d \in Evidences}

\* what the rules say
Equals == [id |-> "equals", severity |-> "high", type |-> "json_value_equals_literal", pointer |-> <<"value">>,
           literal |-> Plain]
Unique == [id |-> "unique", severity |-> "low", type |-> "json_array_items_unique_by", pointer |-> <<"items">>,
           keys |-> <<<<"id">>>>]
\* three units of work an item: the budget ends between its two keys
Pairs == [Unique EXCEPT !.id = "pairs", !.keys = <<<<"id">>, <<"code">>>>]
OneNew == [id |-> "one_new", severity |-> "critical", type |-> "exactly_one_new_effect", pointer |-> <<"items">>]
NoNew == [id |-> "no_new", severity |-> "medium", type |-> "no_new_effect", pointer |-> <<"items">>]
Kept == [id |-> "kept", severity |-> "low", type |-> "unchanged_between_checkpoints", pointer |-> <<"value">>]
OfFirst == [id |-> "of_first", severity |-> "high", type |-> "json_values_equal", left |-> <<"items", "0", "id">>,
            right |-> <<"items", "1", "id">>]
Allowed == [id |-> "allowed", severity |-> "low", type |-> "json_value_in_allowed_set", pointer |-> <<"value">>,
            allowed |-> <<Null, Plain>>]
Suite(version, authority, rules) ==
    <<[version |-> version, authority |-> authority, rules |-> rules]>>
Suites ==
    {Suite("1.1.0", "agent_response", <<Equals>>),
     Suite("1.1.0", "agent_response", <<Unique, Equals>>),
     Suite("1.1.0", "agent_response", <<OfFirst, Allowed>>),
     Suite("1.1.0", "agent_response", <<Pairs, Unique>>),
     Suite("1.2.0", "committed_state_snapshot", <<OneNew, Unique>>),
     Suite("1.2.0", "committed_state_snapshot", <<NoNew, Kept>>)}
ASSUME SuitesAreLoadable == \A suite \in Suites : SuiteAccepted(suite[1])
Item(id) ==
    [kind |-> "object",
     entries |-> <<<<"id", Scalar("integer", id, 1)>>, <<"code", Scalar("integer", 1, 1)>>>>]
Document(value, ids) ==
    [kind |-> "object",
     entries |-> <<<<"value", Scalar("string", value, 1)>>,
                   <<"items", [kind |-> "array", items |-> [i \in DOMAIN ids |-> Item(ids[i])]]>>>>]
Committed(before, document) ==
    Evidence("response_and_state", State(before, SelfReported), State(document, SelfReported),
             <<>>, 0)
Says(value, before, ids) ==
    Deliver(<<[raw |-> Document(value, ids), before |-> <<>>,
               snapshot |-> <<Document(value, ids)>>, authority |-> SelfReported]>>,
            Committed(Document(1, before), Document(value, ids)), <<SendX>>)
Unread(delivery) == [delivery EXCEPT !.frame = <<>>]
Outputs ==
    {Says(1, <<1>>, <<1>>), Says(1, <<1>>, <<1, 1>>), Says(2, <<2>>, <<2, 1, 3>>),
     Unread(Says(2, <<2>>, <<2, 1, 3>>)),
     Deliver(Output(Plain), NoEvidence, <<SendU>>), Failed}
Evaluations ==
    {Reviewing(1, Source("action", SendX, <<a, b>>, <<Case("v", TRUE, <<c, d>>, "none")>>), suite) :
        suite \in Suites, a, b, c \in Outputs,
        d \in Outputs \cup {[Says(2, <<2>>, <<2, 1, 3>>) EXCEPT !.frame = <<SendU>>]}}

\* what is made of two variations
Verdicts ==
    {<<TRUE, m, <<Did(SendX), Did(f)>>>> : f \in {SendX, SendU}, m \in {"none"}}
    \cup {<<TRUE, m, <<Did(SendU), Did(SendU)>>>> :
            m \in {"none", "material_variance", "operationally_equivalent",
                   "insufficient_evidence"}}
    \cup {<<TRUE, "none", <<Failed, Did(SendX)>>>>, <<FALSE, "none", <<Failed, Failed>>>>}
CaseOf(operator, verdict) == Case(operator, verdict[1], verdict[3], verdict[2])
Comparisons ==
    {Reviewing(2, Source("action", SendX, <<Did(SendX), second>>,
                        <<CaseOf("v", v), CaseOf("w", w)>>), <<>>) : second \in {Did(SendX), Did(SendU), Failed}, v, w \in Verdicts}

\* two sources, with stops and kills
Thrice(d) == <<d, d, d>>
Same == Source("action", SendX, Thrice(Did(SendX)), <<Case("v", TRUE, Thrice(Did(SendX)), "none")>>)
TooMany == Source("action", SendX, Thrice(Did(SendX)),
                  <<Case("v", TRUE, Thrice(Did(SendU)), "none")>>)
Crashing == Source("action", Both, <<Did(SendX)>>, <<Case("v", TRUE, <<Did(SendU)>>, "none")>>)
Traced == Source("response", Answer("x"),
                 <<Answered(Evidence("response_only", <<>>, <<>>, <<>>, 2), "x")>>,
                 <<Case("v", TRUE, <<Answered(NoEvidence, "y")>>, "none")>>)
Rejected == [Same EXCEPT !.cases[1].passed = FALSE]
Unprepared == [Same EXCEPT !.prepared = FALSE]
Interrupted ==
    {[sources |-> <<first, second>>, suite |-> <<>>, maxStops |-> 2, maxReviews |-> 0] :
        first, second \in {Same, TooMany, Crashing, Traced, Rejected, Unprepared}}

AllFamilies == {Behaviors, Executions, Evaluations, Comparisons, Interrupted}
=============================================================================
