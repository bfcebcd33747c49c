--------------------------- MODULE MCProbeCommand ---------------------------
(* Bounds for TLC: see MCProbeCommand.cfg. *)
EXTENDS ProbeCommand
=============================================================================
