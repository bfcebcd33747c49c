---------------------------- MODULE MCStressCampaigns ----------------------------
(* Bounds for TLC: see MCStressCampaigns.cfg. *)
EXTENDS StressCampaigns
=============================================================================
