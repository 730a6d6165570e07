----------------------------- MODULE MCProtocol -----------------------------
(* The protocol with its real CRC and buffer: a heartbeat and a speed command, and one *)
(* byte with one bit flipped or lost. *)
EXTENDS Protocol, Crc16

MCPackets == {[command |-> 240, payload |-> <<>>],
              [command |-> 1, payload |-> <<170, 255, 30, 0, 0>>]}
Flipped(byte) == {byte ^^ (2^i) : i \in 0 .. 7}
=============================================================================
