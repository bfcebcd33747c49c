------------------------- MODULE MCConcurrentTrials -------------------------
(* Two or three repetitions and one or two variations share two request    *)
(* slots; the configurations say how many, and whether the user interrupts.*)
EXTENDS ConcurrentTrials
=============================================================================
