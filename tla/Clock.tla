-------------------------------- MODULE Clock --------------------------------
(***************************************************************************)
(* Go's monotonic clock in ticks, shared by the modules whose code compares*)
(* times.  It never goes back; several calls may see the same reading.     *)
(***************************************************************************)
EXTENDS Integers

CONSTANT MaxTime    \* bound of the model: the last tick

ASSUME ClockAssumption == MaxTime \in Nat

VARIABLE now

ClockInit == now = 0

Advance == now < MaxTime /\ now' = now + 1
=============================================================================
