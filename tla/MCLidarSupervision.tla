------------------------- MODULE MCLidarSupervision -------------------------
(* Monitor and state machine for TLC: the .cfg files give the constants numbers. *)
EXTENDS LidarSupervision
=============================================================================
