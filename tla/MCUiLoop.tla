------------------------------ MODULE MCUiLoop ------------------------------
(***************************************************************************)
(* A worker with three lines and a ring of two trades, so that lines are   *)
(* buffered, flushed and sent while newer trades push out older ones, and a*)
(* session with one line, in or outside of a validation.                   *)
(***************************************************************************)
EXTENDS UiLoop

MCRecord == 1..3
MCMaxLines == [g \in Loggers |-> IF g = Worker THEN 3 ELSE 1]
=============================================================================
