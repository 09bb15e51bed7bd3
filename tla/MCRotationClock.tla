--------------------------- MODULE MCRotationClock ---------------------------
(* TLC instances of RotationClockProperties. *)
EXTENDS RotationClockProperties
=============================================================================
