------------------------------- MODULE LinkMC -------------------------------
(***************************************************************************)
(* Two streams of four packets and one restart of the daemon: enough for a *)
(* packet of each stream to arrive before, between and after those of the  *)
(* other, on either side of the concealment limit.                         *)
(***************************************************************************)
EXTENDS Link

MCEstimate == {1}
=============================================================================
