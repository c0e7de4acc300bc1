---------------------------- MODULE DiscoveryMC ----------------------------
(* One PC that comes and goes, and two listeners that may overlap. *)
EXTENDS Discovery
=============================================================================
