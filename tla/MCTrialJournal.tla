--------------------------- MODULE MCTrialJournal ---------------------------
(* Small instances of TrialJournal for TLC.                                *)
EXTENDS TrialJournal, TLC

Interchangeable == Permutations(Proc) \cup Permutations(Unit)
=============================================================================
