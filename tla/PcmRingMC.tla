----------------------------- MODULE PcmRingMC -----------------------------
(***************************************************************************)
(* A ring of four samples whose positions wrap after sixteen, so that every *)
(* alignment of the two positions with the array and with the word occurs. *)
(***************************************************************************)
EXTENDS PcmRing

MCSample == {0, 1}
MCDepth == 1..5     \* below, at and above the capacity
============================================================================
