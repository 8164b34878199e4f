----------------------------- MODULE MCAdmission -----------------------------
(***************************************************************************)
(* Three messages and a map of two entries, so that it overflows while all *)
(* its entries are fresh and also while some are expired; all are sent at  *)
(* two, so that each is too early, in time and too late; a limit of one, so*)
(* that three messages meet an empty limiter, a full one and one whose     *)
(* window has passed.  No message has an empty id.                         *)
(***************************************************************************)
EXTENDS Admission, TLC

CONSTANTS a, b, c, empty

MCIds == {a, b, c}
MCSentAt == [id \in MCIds |-> 2]

\* The ids are treated alike.
MCSymmetry == Permutations(MCIds)
=============================================================================
