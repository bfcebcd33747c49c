----------------------------- MODULE MCCampaign -----------------------------
(* Small instances of Campaign for TLC.                                    *)
EXTENDS Campaign

(* Two cases across two invocations with an interrupt, or across three     *)
(* with kills only; one case across three with a second quarantine after   *)
(* an attestation, or with a cancel after a pause.                         *)
SmallPlans ==
    {[cases |-> 2, repetitions |-> 1, interrupts |-> 1, invocations |-> 2],
     [cases |-> 2, repetitions |-> 1, interrupts |-> 0, invocations |-> 3],
     [cases |-> 1, repetitions |-> 2, interrupts |-> 1, invocations |-> 3],
     [cases |-> 1, repetitions |-> 1, interrupts |-> 2, invocations |-> 3]}

RepeatedPlan ==
    {[cases |-> 1, repetitions |-> 2, interrupts |-> 1, invocations |-> 2]}
=============================================================================
