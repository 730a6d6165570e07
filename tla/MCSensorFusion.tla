--------------------------- MODULE MCSensorFusion ---------------------------
(* The sensor fusion for TLC, in ticks of 25 ms. *)
EXTENDS SensorFusion

MCAnswers  == {0, 1}
MCTimeouts == {0, 2}
MCThreads  == {"proto"}
=============================================================================
