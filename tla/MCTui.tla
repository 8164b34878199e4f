-------------------------------- MODULE MCTui --------------------------------
(***************************************************************************)
(* The terminal UI with pauses from three sides, one run of the kill       *)
(* switch, and updates that may be repeated.                               *)
(***************************************************************************)
EXTENDS Tui

=============================================================================
