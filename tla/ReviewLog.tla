------------------------------ MODULE ReviewLog ------------------------------
(***************************************************************************)
(* What the review file promises to the people who judge findings: a list  *)
(* of decisions that only grows at its end, in which every judgment of a   *)
(* finding either is the first one or names the judgment it replaces.  A   *)
(* crash may take decisions that were not confirmed yet, newest first.     *)
(***************************************************************************)
EXTENDS Integers, Sequences

VARIABLES
    decisions,  \* every decision, oldest first
    kept        \* how many of them no crash can take

Deciding(log, f) == {i \in DOMAIN log : f \in log[i].decides}

(* The judgment of f that counts, by its name; <<>> if there is none.      *)
ActiveId(log, f) ==
    IF Deciding(log, f) = {} THEN <<>>
    ELSE LET i == CHOOSE i \in Deciding(log, f) : \A j \in Deciding(log, f) : j <= i
         IN  <<log[i].id, f>>

Init == decisions = <<>> /\ kept = 0

Decide ==
    /\ Len(decisions') = Len(decisions) + 1
    /\ SubSeq(decisions', 1, Len(decisions)) = decisions
    /\ LET new == decisions'[Len(decisions')] IN
         \A f \in new.decides : new.supersedes = ActiveId(decisions, f)
    /\ UNCHANGED kept

Confirm == kept' \in kept .. Len(decisions) /\ UNCHANGED decisions

Lose ==
    /\ \E n \in kept .. Len(decisions) : decisions' = SubSeq(decisions, 1, n)
    /\ kept' = Len(decisions')

Next == Decide \/ Confirm \/ Lose

Spec == Init /\ [][Next]_<<decisions, kept>>
=============================================================================
