---------------------------- MODULE MCMotorLink ----------------------------
(* The link for TLC: velocity commands drive forward, or there are none. *)
EXTENDS MotorLink

MCSpeeds == Int16
MCWheelSpeeds == {<<30, 30>>}
=============================================================================
