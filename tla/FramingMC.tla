----------------------------- MODULE FramingMC -----------------------------
(* Announcements of two bytes and audio of three, in a buffer of three. *)
EXTENDS Framing

MCSize == {2, 3}
=============================================================================
