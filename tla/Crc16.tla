------------------------------- MODULE Crc16 -------------------------------
(***************************************************************************)
(* CRC16-CCITT (src/esp32_firmware/common/src/crc16.cpp), with the entries *)
(* of its table computed from the polynomial.                              *)
(***************************************************************************)
EXTENDS Integers, Bitwise, Folds

CRC16_CCITT_POLY == 4129    \* 0x1021
CRC16_CCITT_INIT == 65535   \* 0xFFFF

\* One step of the division: the top bit leaves, and if it was set the rest is reduced.
Reduced(crc) == LET shifted == (crc * 2) % 65536 IN
  IF crc >= 32768 THEN shifted ^^ CRC16_CCITT_POLY ELSE shifted

\* Each entry is the CRC of a single byte from 0.
crc16_table ==
  [byte \in 0 .. 255 |->
     MapThenFoldSet(LAMBDA i, crc : Reduced(crc), byte * 256,
                    LAMBDA i : i, LAMBDA S : CHOOSE i \in S : TRUE, 1 .. 8)]

crc16_ccitt_byte(crc, byte) ==
  ((crc * 256) % 65536) ^^ crc16_table[(crc \div 256) ^^ byte]
=============================================================================
