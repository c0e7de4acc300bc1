------------------------------ MODULE DaemonMC ------------------------------
(***************************************************************************)
(* The daemon with a disconnect timeout of two seconds: time can stand on  *)
(* either side of it and in between.                                       *)
(***************************************************************************)
EXTENDS Daemon
=============================================================================
