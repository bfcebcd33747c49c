----------------------------- MODULE MCTraceStore -----------------------------
(* Two traces of one probe, and a third one that is nobody's.              *)
EXTENDS TraceStore

Root == [trace |-> "t1", id |-> 1, correlation |-> "c1", root |-> TRUE,
         ended |-> FALSE, size |-> 1, readable |-> TRUE]
EndedRoot == [Root EXCEPT !.ended = TRUE, !.size = 2]
Child == [EndedRoot EXCEPT !.id = 2, !.root = FALSE]
Second == [EndedRoot EXCEPT !.trace = "t2", !.correlation = "c2", !.size = 1]
Stray == [Second EXCEPT !.trace = "t3", !.correlation = NoCorrelation]
Huge == [Second EXCEPT !.id = 2, !.root = FALSE, !.size = 4]
Broken == [Stray EXCEPT !.readable = FALSE]

Exports == {<<Root>>, <<EndedRoot, Second>>, <<Child, Huge>>, <<Stray, Broken>>}

\* A turn with its trace, and one that is known by its correlation only.
Turns == <<[trace |-> "t1", correlation |-> "c1"], [trace |-> NoTrace, correlation |-> "c2"]>>
=============================================================================
