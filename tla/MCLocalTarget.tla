----------------------------- MODULE MCLocalTarget -----------------------------
(* Bounds for TLC: see MCLocalTarget.cfg. *)
EXTENDS LocalTarget

\* Two turns of one conversation, then another one.
MCSessionOf == <<"s1", "s1", "s2">>
=============================================================================
