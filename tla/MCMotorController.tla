------------------------- MODULE MCMotorController -------------------------
(* Small instances of the motor controller for TLC. *)
EXTENDS MotorController

\* One direction, beyond the clamp, so that Clamp has work to do.
MCTwoSpeeds == {0, 3}
============================================================================
