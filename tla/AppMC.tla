------------------------------- MODULE AppMC -------------------------------
(* Two PCs beside USB, so that a connect may move, and three intents at once. *)
EXTENDS App
=============================================================================
