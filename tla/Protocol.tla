------------------------------ MODULE Protocol ------------------------------
(***************************************************************************)
(* The packet protocol shared by the firmware and the bridges              *)
(* (src/esp32_firmware/common/src/protocol.cpp): the encoder, a line that  *)
(* damages bytes, and the byte-wise parser as its two kinds of callers use *)
(* it: the firmware resets it after a packet only, the bridges after an    *)
(* error as well.                                                          *)
(***************************************************************************)
EXTENDS Integers, Sequences, SequencesExt

CONSTANTS
  Packets,          \* [command, payload] records that are sent
  NoPacket,
  MaxPayload,       \* PROTOCOL_MAX_PAYLOAD
  CrcInit,          \* CRC16_CCITT_INIT
  CrcByte(_, _),    \* crc16_ccitt_byte
  Damaged(_),       \* the bytes that a byte can be turned into
  MaxDamage,        \* bound: bytes damaged or lost
  MaxMissed,        \* bound: packets lost in a row that are told apart
  LossLimit         \* packets that one damaged byte may cost

Byte == 0 .. 255
HEADER1 == 170   \* 0xAA
HEADER2 == 85    \* 0x55

ASSUME ProtocolAssumption ==
  /\ MaxPayload \in Byte
  /\ Packets \subseteq [command : Byte, payload : Seq(Byte)]
  /\ \A packet \in Packets : Len(packet.payload) <= MaxPayload
  /\ NoPacket \notin Packets
  /\ MaxDamage \in Nat /\ MaxMissed \in Nat /\ LossLimit \in Nat

VARIABLES
  outgoing,   \* bytes of the current packet still to be sent
  current,    \* the packet sent last
  parser,     \* per caller: its protocol_parser_t
  heard,      \* per caller: the packet the last byte completed
  accepted,   \* the packet the firmware accepted last
  taken,      \* the firmware has accepted current
  missed,     \* history: packets lost in a row before current
  damage      \* bytes damaged so far

vars == <<outgoing, current, parser, heard, accepted, taken, missed, damage>>

Caller == {"firmware", "bridge"}

----------------------------------------------------------------------------
crc16_ccitt(bytes) == FoldLeft(CrcByte, CrcInit, bytes)

\* What the CRC is of.
Body(packet) == <<Len(packet.payload), packet.command>> \o packet.payload

\* Mutant: the CRC goes out high byte first.
EncodeHighFirst(packet) ==
  LET crc == crc16_ccitt(Body(packet))
  IN <<HEADER1, HEADER2>> \o Body(packet) \o <<crc \div 256, crc % 256>>

\* protocol_encode; the CRC goes out low byte first.
Encode(packet) ==
  LET crc == crc16_ccitt(Body(packet))
  IN <<HEADER1, HEADER2>> \o Body(packet) \o <<crc % 256, crc \div 256>>

\* A CRC is an uint16_t, and what the line makes of a byte is a byte.
ASSUME WireAssumption ==
  /\ \A packet \in Packets : crc16_ccitt(Body(packet)) \in Nat /\ crc16_ccitt(Body(packet)) < 65536
  /\ \A byte \in Byte : Damaged(byte) \subseteq Byte

\* protocol_parser_reset; what a next packet overwrites before it is read is cleared too.
Reset == [state |-> "HEADER1", length |-> 0, command |-> 0, payload |-> <<>>,
          computed_crc |-> CrcInit, crc |-> 0]

AwaitHeader1(byte) ==
  IF byte = HEADER1 THEN [Reset EXCEPT !.state = "HEADER2"] ELSE Reset

\* A repeated first header byte may be the start of the header.
AwaitHeader2(p, byte) ==
  CASE byte = HEADER2 -> [p EXCEPT !.state = "LENGTH"]
    [] byte = HEADER1 -> p
    [] OTHER -> Reset

AwaitLength(p, byte) ==
  IF byte > MaxPayload THEN [p EXCEPT !.state = "ERROR"]
  ELSE [p EXCEPT !.state = "COMMAND", !.length = byte,
                 !.computed_crc = CrcByte(CrcInit, byte)]

AwaitCommand(p, byte) ==
  [p EXCEPT !.state = IF p.length = 0 THEN "CRC_LOW" ELSE "PAYLOAD",
            !.command = byte,
            !.computed_crc = CrcByte(@, byte)]

AwaitPayload(p, byte) ==
  [p EXCEPT !.state = IF Len(p.payload) + 1 >= p.length THEN "CRC_LOW" ELSE "PAYLOAD",
            !.payload = Append(@, byte),
            !.computed_crc = CrcByte(@, byte)]

\* Mutant: only the low byte of the CRC is compared.
AwaitCrcHighLowOnly(p, byte) ==
  [p EXCEPT !.crc = @ + 256 * byte,
            !.state = IF p.crc = p.computed_crc % 256 THEN "COMPLETE" ELSE "ERROR"]

AwaitCrcHigh(p, byte) ==
  [p EXCEPT !.crc = @ + 256 * byte,
            !.state = IF p.crc + 256 * byte = p.computed_crc THEN "COMPLETE" ELSE "ERROR"]

\* protocol_parser_feed.  After a packet or an error the parser resets by itself.
Feed(p, byte) ==
  CASE p.state = "HEADER1"  -> AwaitHeader1(byte)
    [] p.state = "HEADER2"  -> AwaitHeader2(p, byte)
    [] p.state = "LENGTH"   -> AwaitLength(p, byte)
    [] p.state = "COMMAND"  -> AwaitCommand(p, byte)
    [] p.state = "PAYLOAD"  -> AwaitPayload(p, byte)
    [] p.state = "CRC_LOW"  -> [p EXCEPT !.state = "CRC_HIGH", !.crc = byte]
    [] p.state = "CRC_HIGH" -> AwaitCrcHigh(p, byte)
    [] p.state \in {"COMPLETE", "ERROR"} -> AwaitHeader1(byte)

Completed(p) ==
  IF p.state = "COMPLETE" THEN [command |-> p.command, payload |-> p.payload] ELSE NoPacket

\* What the caller does with the parser afterwards.
AfterFeed(caller, p) ==
  IF p.state = "COMPLETE" \/ (caller = "bridge" /\ p.state = "ERROR") THEN Reset ELSE p

----------------------------------------------------------------------------
Init ==
  /\ outgoing = <<>> /\ current = NoPacket
  /\ parser = [caller \in Caller |-> Reset]
  /\ heard = [caller \in Caller |-> NoPacket]
  /\ accepted = NoPacket /\ taken = TRUE
  /\ missed = 0 /\ damage = 0

Send(packet) ==
  /\ outgoing = <<>>
  /\ outgoing' = Encode(packet)
  /\ current' = packet
  /\ taken' = FALSE
  /\ missed' = IF taken THEN 0 ELSE IF missed < MaxMissed THEN missed + 1 ELSE missed
  /\ heard' = [caller \in Caller |-> NoPacket]
  /\ UNCHANGED <<parser, accepted, damage>>

Receive(byte) ==
  LET fed == [caller \in Caller |-> Feed(parser[caller], byte)] IN
  /\ parser' = [caller \in Caller |-> AfterFeed(caller, fed[caller])]
  /\ heard' = [caller \in Caller |-> Completed(fed[caller])]
  /\ IF heard'["firmware"] # NoPacket
     THEN accepted' = heard'["firmware"] /\ taken' = TRUE
     ELSE UNCHANGED <<accepted, taken>>

Intact ==
  /\ outgoing # <<>>
  /\ Receive(Head(outgoing))
  /\ outgoing' = Tail(outgoing)
  /\ UNCHANGED <<current, missed, damage>>

Damage ==
  /\ outgoing # <<>>
  /\ damage < MaxDamage
  /\ damage' = damage + 1
  /\ outgoing' = Tail(outgoing)
  /\ \/ \E byte \in Damaged(Head(outgoing)) : Receive(byte)
     \/ heard' = [caller \in Caller |-> NoPacket] /\ UNCHANGED <<parser, accepted, taken>>
  /\ UNCHANGED <<current, missed>>

Next ==
  \/ \E packet \in Packets : Send(packet)
  \/ Intact
  \/ Damage

Spec == Init /\ [][Next]_vars

----------------------------------------------------------------------------
\* A payload never outgrows the buffer of its parser, whatever bytes arrive.
BufferOK ==
  \A caller \in Caller :
    /\ parser[caller].length \in 0 .. MaxPayload
    /\ Len(parser[caller].payload) <= parser[caller].length

\* The line the users of the protocol see: "a complete and CRC-validated packet"
\* (protocol.h) is one that was sent, in order and at most once, whatever was damaged.
Line == INSTANCE PacketLine
LineSpec == Line!Spec

\* The firmware, which leaves the parser in its error state, and the bridges, which
\* reset it, accept the same packets on the same bytes.
CallersAgree == heard["firmware"] = heard["bridge"]

\* Without damage nothing is lost, and damage is local: a damaged length can swallow at
\* most a buffer's worth of packets that follow.
DamageIsLocal == missed <= IF damage = 0 THEN 0 ELSE LossLimit
=============================================================================
