------------------------- MODULE MCSemanticPipeline -------------------------
(* Two records with the same input; a tone or a rewording by the model,   *)
(* then typing noise or a correction that UL writes itself.                *)
EXTENDS SemanticPipeline

Asks == <<"ask", "ask">>

Llm == [llm |-> TRUE, tone |-> FALSE, corrects |-> FALSE, particular |-> FALSE,
        allows |-> "none", writes |-> {}]
Own == [Llm EXCEPT !.llm = FALSE]

Angry == [name |-> "angry"] @@ [Llm EXCEPT !.tone = TRUE, !.allows = "tone"]
Rephrase == [name |-> "rephrase"] @@ Llm
Typing == [name |-> "typing"] @@ [Own EXCEPT !.writes = {"Reworded"}]
Correction == [name |-> "correction"]
    @@ [Own EXCEPT !.corrects = TRUE, !.particular = TRUE, !.writes = {"corrected"}]

(* A new campaign, one on saved augmentations, and resumed ones.           *)
Starts == {[preflight |-> TRUE, saved |-> <<NotSaved, NotSaved>>],
           [preflight |-> TRUE, saved |-> <<{}, {1}>>],
           [preflight |-> FALSE, saved |-> <<{1}, NotSaved>>],
           [preflight |-> FALSE, saved |-> <<NotSaved, {1}>>]}

Considered == {[selection |-> s] @@ start :
                  s \in {<<Angry, Typing>>, <<Rephrase, Correction>>}, start \in Starts}

Rendering == {"ask", "reworded", "faint"}
Folded == [t \in Rendering \cup {"Reworded", "corrected"} |->
             IF t = "Reworded" THEN "reworded" ELSE t]
Faint == {"faint"}

OneModelButTheJudge == [deconstruct |-> 1, render |-> 2, equivalence |-> 1, materiality |-> 3]
Sizes == [deconstruct |-> 2, render |-> 1, verify |-> 1]

Trialled == {<<"true", "true">>, <<"1", "1">>, <<"other", "other">>, <<"true", "1">>,
             <<"true", "inconclusive">>}
=============================================================================
