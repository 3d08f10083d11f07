------------------------------- MODULE MCTui -------------------------------
(***************************************************************************)
(* Tui.tla for TLC.  All constants are numbers, given in the .cfg.         *)
(***************************************************************************)
EXTENDS Tui
=============================================================================
