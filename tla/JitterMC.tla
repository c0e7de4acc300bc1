----------------------------- MODULE JitterMC ------------------------------
(***************************************************************************)
(* Eight sequence numbers, so that five packets can wrap the counter and   *)
(* land on every side of the late, concealed and resync boundaries.        *)
(***************************************************************************)
EXTENDS Jitter

MCEstimate == {0, 1, 5}     \* below the clamp, inside it, above it
============================================================================
