--------------------------- MODULE MCReviewStore ---------------------------
(* Three findings in two records of evidence, the second of which a running*)
(* campaign may still append.                                              *)
EXTENDS ReviewStore

CONSTANTS f1, f2, f3, g

Evidence == <<{f1, f2}, {f3}>>
Open(group) == [group |-> group, automatic |-> "needs_review"]

AllAlike == [f \in Finding |-> Open(g)]

(* One of them was found equivalent by the material variance judge.        *)
OneJudged == [AllAlike EXCEPT ![f2].automatic = "expected"]

Considered == {AllAlike, OneJudged}
=============================================================================
