------------------------------- MODULE GuiMC -------------------------------
(***************************************************************************)
(* Two daemons.  Toggles whose daemon does not start may come between      *)
(* them, so that the second uses either transport.                         *)
(***************************************************************************)
EXTENDS Gui
=============================================================================
