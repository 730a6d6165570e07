--------------------------- MODULE MCYdlidarDriver ---------------------------
(* The driver for TLC: one scan of each kind the health window tells apart. *)
EXTENDS YdlidarDriver

MCScans == {[freq |-> f, points |-> 100, invalid |-> 0] : f \in {40, 70, 100}}
             \cup {[freq |-> 100, points |-> 100, invalid |-> i] : i \in {60, 90}}
             \cup {[freq |-> 100, points |-> 0, invalid |-> 0]}
=============================================================================
