----------------------------- MODULE StreamerMC -----------------------------
(***************************************************************************)
(* Frames of two samples, callbacks of one or three, a ring of four whose  *)
(* positions wrap after eight: a chunk may straddle callbacks, the end of  *)
(* the ring and the end of the word, and the ring overflows by one or two. *)
(***************************************************************************)
EXTENDS Streamer

MCBurst == {1, 3}
=============================================================================
