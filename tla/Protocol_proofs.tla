-------------------------- MODULE Protocol_proofs --------------------------
(***************************************************************************)
(* Proofs about Protocol for every set of packets, size of the buffer, CRC *)
(* and damage to the line.                                                 *)
(***************************************************************************)
EXTENDS Protocol, WellFoundedInduction, TLAPS

----------------------------------------------------------------------------
(***************************************************************************)
(* Two callers, one stream: the parsers are the same, or the firmware's is *)
(* in its error state and the bridge's is reset.  The next byte makes them *)
(* the same again, as either waits for a header.                           *)
(***************************************************************************)

Together(fw, br) == fw = br \/ (fw.state = "ERROR" /\ br = Reset)

AgreeInv ==
  /\ parser = [caller \in Caller |-> parser[caller]]
  /\ Together(parser["firmware"], parser["bridge"])
  /\ CallersAgree

LEMMA FedAlike ==
  ASSUME NEW fw, NEW br, NEW byte, Together(fw, br)
  PROVE  Feed(fw, byte) = Feed(br, byte)
<1>1. CASE fw = br
  BY <1>1
<1>2. CASE fw.state = "ERROR" /\ br = Reset
  <2>1. br.state = "HEADER1"
    BY <1>2 DEF Reset
  <2>2. Feed(fw, byte) = AwaitHeader1(byte)
    BY <1>2 DEF Feed
  <2>3. Feed(br, byte) = AwaitHeader1(byte)
    BY <2>1 DEF Feed
  <2> QED
    BY <2>2, <2>3
<1> QED
  BY <1>1, <1>2 DEF Together

LEMMA ReceiveAgrees ==
  ASSUME AgreeInv, NEW byte, Receive(byte)
  PROVE  AgreeInv'
<1> DEFINE q == Feed(parser["firmware"], byte)
<1>1. q = Feed(parser["bridge"], byte)
  BY FedAlike DEF AgreeInv
<1>2. /\ parser' = [caller \in Caller |-> AfterFeed(caller, Feed(parser[caller], byte))]
      /\ heard' = [caller \in Caller |-> Completed(Feed(parser[caller], byte))]
  BY DEF Receive
<1>3. /\ parser'["firmware"] = AfterFeed("firmware", q)
      /\ parser'["bridge"] = AfterFeed("bridge", q)
      /\ heard'["firmware"] = Completed(q) /\ heard'["bridge"] = Completed(q)
  BY <1>1, <1>2, Zenon DEF Caller
<1>4. Together(AfterFeed("firmware", q), AfterFeed("bridge", q))
  BY Zenon DEF AfterFeed, Together
<1>5. parser' = [caller \in Caller |-> parser'[caller]]
  BY <1>2
<1> QED
  BY <1>3, <1>4, <1>5, Zenon DEF AgreeInv, CallersAgree

\* Whatever arrives, the firmware and the bridge accept the same packets: that one resets
\* its parser after an error and the other does not makes no difference.
THEOREM SamePackets == Spec => []CallersAgree
<1>1. Init => AgreeInv
  <2> SUFFICES ASSUME Init PROVE AgreeInv
    OBVIOUS
  <2>1. /\ parser = [caller \in Caller |-> Reset]
        /\ heard = [caller \in Caller |-> NoPacket]
    BY DEF Init
  <2>2. /\ parser["firmware"] = Reset /\ parser["bridge"] = Reset
        /\ heard["firmware"] = heard["bridge"]
    BY <2>1 DEF Caller
  <2>3. parser = [caller \in Caller |-> parser[caller]]
    BY <2>1
  <2> QED
    BY <2>2, <2>3, Zenon DEF AgreeInv, CallersAgree, Together
<1>2. AgreeInv /\ [Next]_vars => AgreeInv'
  <2> SUFFICES ASSUME AgreeInv, [Next]_vars PROVE AgreeInv'
    OBVIOUS
  <2>1. ASSUME NEW packet \in Packets, Send(packet) PROVE AgreeInv'
    <3>1. UNCHANGED parser /\ heard' = [caller \in Caller |-> NoPacket]
      BY <2>1 DEF Send
    <3>2. heard'["firmware"] = heard'["bridge"]
      BY <3>1 DEF Caller
    <3> QED
      BY <3>1, <3>2, Zenon DEF AgreeInv, CallersAgree
  <2>2. CASE Intact
    BY <2>2, ReceiveAgrees DEF Intact
  <2>3. CASE Damage
    <3>1. ASSUME NEW byte, Receive(byte) PROVE AgreeInv'
      BY <3>1, ReceiveAgrees
    <3>2. CASE heard' = [caller \in Caller |-> NoPacket] /\ UNCHANGED parser
      <4>1. heard'["firmware"] = heard'["bridge"]
        BY <3>2 DEF Caller
      <4> QED
        BY <3>2, <4>1, Zenon DEF AgreeInv, CallersAgree
    <3> QED
      BY <2>3, <3>1, <3>2, Zenon DEF Damage
  <2>4. CASE UNCHANGED vars
    BY <2>4, Zenon DEF vars, AgreeInv, CallersAgree
  <2> QED
    BY <2>1, <2>2, <2>3, <2>4 DEF Next
<1>3. AgreeInv => CallersAgree
  BY DEF AgreeInv
<1> QED
  BY <1>1, <1>2, <1>3, PTL DEF Spec

----------------------------------------------------------------------------
(***************************************************************************)
(* The buffer of a parser.                                                 *)
(***************************************************************************)

ParserState == {"HEADER1", "HEADER2", "LENGTH", "COMMAND", "PAYLOAD", "CRC_LOW", "CRC_HIGH",
                "COMPLETE", "ERROR"}

IsParser(p) ==
  p = [state |-> p.state, length |-> p.length, command |-> p.command, payload |-> p.payload,
       computed_crc |-> p.computed_crc, crc |-> p.crc]

\* The payload is empty until its first byte is waited for, and is never full while another
\* is: whether it is full is looked at before the state is PAYLOAD, not when a byte comes.
Bounded(p) ==
  /\ p.state \in ParserState
  /\ p.length \in 0 .. MaxPayload
  /\ p.payload \in Seq(Byte) /\ Len(p.payload) <= p.length
  /\ p.state \in {"HEADER2", "LENGTH", "COMMAND"} => p.payload = <<>>
  /\ p.state = "PAYLOAD" => Len(p.payload) < p.length

Sound(p) == IsParser(p) /\ Bounded(p)

BufferInv ==
  /\ outgoing \in Seq(Byte)
  /\ parser = [caller \in Caller |-> parser[caller]]
  /\ \A caller \in Caller : Sound(parser[caller])

LEMMA ResetSound == Sound(Reset)
<1>1. Bounded(Reset)
  BY ProtocolAssumption DEF ProtocolAssumption, Byte, Bounded, ParserState, Reset
<1> QED
  BY <1>1 DEF Sound, IsParser, Reset

LEMMA Limits == MaxPayload \in Nat /\ MaxPayload <= 255
BY ProtocolAssumption DEF ProtocolAssumption, Byte

----------------------------------------------------------------------------
(***************************************************************************)
(* What is sent are bytes.                                                 *)
(***************************************************************************)

LEMMA Fits == ASSUME NEW n \in Nat, n <= MaxPayload PROVE n \in 0 .. MaxPayload /\ n \in Byte
BY Limits DEF Byte

LEMMA PacketTypes ==
  ASSUME NEW packet \in Packets
  PROVE  /\ packet = [command |-> packet.command, payload |-> packet.payload]
         /\ packet.command \in Byte /\ packet.payload \in Seq(Byte)
         /\ Len(packet.payload) \in 0 .. MaxPayload
         /\ Len(packet.payload) \in Byte
<1>1. packet \in [command : Byte, payload : Seq(Byte)] /\ Len(packet.payload) <= MaxPayload
  BY ProtocolAssumption DEF ProtocolAssumption
<1>2. /\ packet = [command |-> packet.command, payload |-> packet.payload]
      /\ packet.command \in Byte /\ packet.payload \in Seq(Byte)
  BY <1>1
<1>3. Len(packet.payload) \in Nat
  BY <1>2
<1>4. Len(packet.payload) <= MaxPayload
  BY <1>1
<1>5. Len(packet.payload) \in 0 .. MaxPayload /\ Len(packet.payload) \in Byte
  BY <1>3, <1>4, Fits
<1> QED
  BY <1>2, <1>5

LEMMA CrcIsWord ==
  ASSUME NEW packet \in Packets
  PROVE  crc16_ccitt(Body(packet)) \in Nat /\ crc16_ccitt(Body(packet)) < 65536
BY WireAssumption DEF WireAssumption

LEMMA Halves == ASSUME NEW crc \in Nat, crc < 65536
                PROVE  crc % 256 \in Byte /\ crc \div 256 \in Byte /\ crc = (crc % 256) + 256 * (crc \div 256)
BY DEF Byte

\* The bytes of a packet, one by one.
LEMMA EncodeBytes ==
  ASSUME NEW packet \in Packets
  PROVE  LET n == Len(packet.payload)
             crc == crc16_ccitt(Body(packet))
         IN  /\ Encode(packet) \in Seq(Byte) /\ Len(Encode(packet)) = n + 6
             /\ Encode(packet)[1] = HEADER1 /\ Encode(packet)[2] = HEADER2
             /\ \A i \in 1 .. n + 2 : Encode(packet)[i + 2] = Body(packet)[i]
             /\ Encode(packet)[n + 5] = crc % 256 /\ Encode(packet)[n + 6] = crc \div 256
             /\ crc = (crc % 256) + 256 * (crc \div 256)
             /\ Body(packet) \in Seq(Byte) /\ Len(Body(packet)) = n + 2
             /\ Body(packet)[1] = n /\ Body(packet)[2] = packet.command
             /\ \A i \in 1 .. n : Body(packet)[i + 2] = packet.payload[i]
<1> DEFINE n == Len(packet.payload)
           body == Body(packet)
           crc == crc16_ccitt(body)
           low == crc % 256
           high == crc \div 256
<1>1. n \in Nat /\ n \in Byte /\ packet.command \in Byte /\ packet.payload \in Seq(Byte)
  BY PacketTypes DEF Byte
<1>2. crc \in Nat /\ crc < 65536
  BY CrcIsWord
<1>3. low \in Byte /\ high \in Byte /\ crc = low + 256 * high
  BY <1>2, Halves
<1>4. <<n, packet.command>> \in Seq(Byte) /\ Len(<<n, packet.command>>) = 2
  BY <1>1
<1>5. /\ body \in Seq(Byte) /\ Len(body) = n + 2
      /\ body[1] = n /\ body[2] = packet.command
      /\ \A i \in 1 .. n : body[i + 2] = packet.payload[i]
  BY <1>1, <1>4 DEF Body
<1>6. /\ <<HEADER1, HEADER2>> \in Seq(Byte) /\ Len(<<HEADER1, HEADER2>>) = 2
      /\ <<low, high>> \in Seq(Byte) /\ Len(<<low, high>>) = 2
  <2> HIDE DEF low, high
  <2> QED
    BY <1>3 DEF HEADER1, HEADER2, Byte
<1> DEFINE front == <<HEADER1, HEADER2>> \o body
<1>7. Encode(packet) = front \o <<low, high>>
  BY DEF Encode
<1> HIDE DEF n, body, low, high
<1>8. /\ front \in Seq(Byte) /\ Len(front) = n + 4
      /\ front[1] = HEADER1 /\ front[2] = HEADER2
      /\ \A i \in 1 .. n + 2 : front[i + 2] = body[i]
  BY <1>1, <1>5, <1>6
<1> HIDE DEF front
<1>9. /\ Encode(packet) \in Seq(Byte) /\ Len(Encode(packet)) = n + 6
      /\ Encode(packet)[1] = HEADER1 /\ Encode(packet)[2] = HEADER2
      /\ \A i \in 1 .. n + 2 : Encode(packet)[i + 2] = body[i]
      /\ Encode(packet)[n + 5] = low /\ Encode(packet)[n + 6] = high
  BY <1>1, <1>6, <1>7, <1>8
<1> QED
  BY <1>3, <1>5, <1>9 DEF n, body, low, high

\* The same, for the proofs that need no more of it.
LEMMA EncodedBytes == ASSUME NEW packet \in Packets PROVE Encode(packet) \in Seq(Byte)
BY EncodeBytes

LEMMA HeaderSound == ASSUME NEW byte \in Byte PROVE Sound(AwaitHeader1(byte))
<1>1. CASE byte = HEADER1
  <2> DEFINE q == [Reset EXCEPT !.state = "HEADER2"]
  <2>1. AwaitHeader1(byte) = q
    BY <1>1 DEF AwaitHeader1
  <2>2. /\ q.state = "HEADER2" /\ q.length = 0 /\ q.payload = <<>>
        /\ IsParser(q)
    BY DEF Reset, IsParser
  <2>3. Bounded(q)
    <3>1. <<>> \in Seq(Byte) /\ Len(<<>>) = 0
      OBVIOUS
    <3> HIDE DEF q
    <3> QED
      BY <2>2, <3>1, Limits DEF Bounded, ParserState
  <2> QED
    BY <2>1, <2>2, <2>3 DEF Sound
<1>2. CASE byte # HEADER1
  BY <1>2, ResetSound DEF AwaitHeader1
<1> QED
  BY <1>1, <1>2

LEMMA LengthSound ==
  ASSUME NEW p, Sound(p), p.state = "LENGTH", NEW byte \in Byte
  PROVE  Sound(AwaitLength(p, byte))
<1> DEFINE q == AwaitLength(p, byte)
<1>1. CASE byte > MaxPayload
  <2>1. q.state = "ERROR" /\ q.length = p.length /\ q.payload = p.payload /\ IsParser(q)
    BY <1>1 DEF AwaitLength, Sound, IsParser
  <2>2. Bounded(q)
    BY <2>1 DEF Sound, Bounded, ParserState
  <2> QED
    BY <2>1, <2>2 DEF Sound
<1>2. CASE ~(byte > MaxPayload)
  <2>1. q.state = "COMMAND" /\ q.length = byte /\ q.payload = p.payload /\ IsParser(q)
    <3>1. q = [p EXCEPT !.state = "COMMAND", !.length = byte, !.computed_crc = CrcByte(CrcInit, byte)]
      BY <1>2 DEF AwaitLength
    <3> QED
      BY <3>1 DEF Sound, IsParser
  <2>2. byte \in 0 .. MaxPayload
    BY <1>2, Limits DEF Byte
  <2>3. p.payload = <<>>
    BY DEF Sound, Bounded
  <2>4. Bounded(q)
    BY <2>1, <2>2, <2>3 DEF Bounded, ParserState
  <2> QED
    BY <2>1, <2>4 DEF Sound
<1> QED
  BY <1>1, <1>2

LEMMA CommandSound ==
  ASSUME NEW p, Sound(p), p.state = "COMMAND", NEW byte \in Byte
  PROVE  Sound(AwaitCommand(p, byte))
<1> DEFINE q == AwaitCommand(p, byte)
<1>1. /\ q.state = IF p.length = 0 THEN "CRC_LOW" ELSE "PAYLOAD"
      /\ q.length = p.length /\ q.payload = p.payload /\ IsParser(q)
  <2>1. q = [p EXCEPT !.state = IF p.length = 0 THEN "CRC_LOW" ELSE "PAYLOAD",
                      !.command = byte, !.computed_crc = CrcByte(@, byte)]
    BY DEF AwaitCommand
  <2>2. IsParser(p)
    BY DEF Sound
  <2> QED
    BY <2>1, <2>2 DEF IsParser
<1>2. p.payload = <<>> /\ p.length \in 0 .. MaxPayload
  BY DEF Sound, Bounded
<1>3. Bounded(q)
  BY <1>1, <1>2 DEF Bounded, ParserState
<1> QED
  BY <1>1, <1>3 DEF Sound

LEMMA PayloadSound ==
  ASSUME NEW p, Sound(p), p.state = "PAYLOAD", NEW byte \in Byte
  PROVE  Sound(AwaitPayload(p, byte))
<1> DEFINE q == AwaitPayload(p, byte)
<1>1. /\ q.state = IF Len(p.payload) + 1 >= p.length THEN "CRC_LOW" ELSE "PAYLOAD"
      /\ q.length = p.length /\ q.payload = Append(p.payload, byte) /\ IsParser(q)
  <2>1. q = [p EXCEPT !.state = IF Len(p.payload) + 1 >= p.length THEN "CRC_LOW" ELSE "PAYLOAD",
                      !.payload = Append(@, byte), !.computed_crc = CrcByte(@, byte)]
    BY DEF AwaitPayload
  <2>2. IsParser(p)
    BY DEF Sound
  <2> QED
    BY <2>1, <2>2 DEF IsParser
<1>2. /\ p.payload \in Seq(Byte) /\ Len(p.payload) < p.length
      /\ p.length \in 0 .. MaxPayload
  BY DEF Sound, Bounded
<1>3. q.payload \in Seq(Byte) /\ Len(q.payload) = Len(p.payload) + 1
  BY <1>1, <1>2
<1>4. Bounded(q)
  BY <1>1, <1>2, <1>3, Limits DEF Bounded, ParserState
<1> QED
  BY <1>1, <1>4 DEF Sound

\* The CRC is read behind a payload that is left alone.
LEMMA CrcSound ==
  ASSUME NEW p, Sound(p), NEW q, IsParser(q),
         q.state \in {"CRC_HIGH", "COMPLETE", "ERROR"},
         q.length = p.length, q.payload = p.payload
  PROVE  Sound(q)
BY DEF Sound, Bounded, ParserState

LEMMA FeedSound ==
  ASSUME NEW p, Sound(p), NEW byte \in Byte
  PROVE  Sound(Feed(p, byte))
<1> DEFINE q == Feed(p, byte)
<1>1. CASE p.state \in {"HEADER1", "COMPLETE", "ERROR"}
  <2>1. q = AwaitHeader1(byte)
    BY <1>1 DEF Feed
  <2> QED
    BY <2>1, HeaderSound
<1>2. CASE p.state = "HEADER2"
  <2>1. q = AwaitHeader2(p, byte)
    BY <1>2 DEF Feed
  <2>2. CASE byte = HEADER2
    <3>1. q.state = "LENGTH" /\ q.length = p.length /\ q.payload = p.payload /\ IsParser(q)
      <4>1. q = [p EXCEPT !.state = "LENGTH"]
        BY <2>1, <2>2 DEF AwaitHeader2, HEADER1, HEADER2
      <4> QED
        BY <4>1 DEF Sound, IsParser
    <3>2. Bounded(q)
      BY <1>2, <3>1 DEF Sound, Bounded, ParserState
    <3> QED
      BY <3>1, <3>2 DEF Sound
  <2>3. CASE byte = HEADER1
    BY <2>1, <2>3 DEF AwaitHeader2, HEADER1, HEADER2
  <2>4. CASE byte \notin {HEADER1, HEADER2}
    BY <2>1, <2>4, ResetSound DEF AwaitHeader2
  <2> QED
    BY <2>2, <2>3, <2>4
<1>3. CASE p.state = "LENGTH"
  BY <1>3, LengthSound DEF Feed
<1>4. CASE p.state = "COMMAND"
  BY <1>4, CommandSound DEF Feed
<1>5. CASE p.state = "PAYLOAD"
  BY <1>5, PayloadSound DEF Feed
<1>6. CASE p.state = "CRC_LOW"
  <2>1. q = [p EXCEPT !.state = "CRC_HIGH", !.crc = byte]
    BY <1>6 DEF Feed
  <2>2. q.state = "CRC_HIGH" /\ q.length = p.length /\ q.payload = p.payload /\ IsParser(q)
    BY <2>1 DEF Sound, IsParser
  <2> QED
    BY <2>2, CrcSound
<1>7. CASE p.state = "CRC_HIGH"
  <2>1. q = AwaitCrcHigh(p, byte)
    BY <1>7 DEF Feed
  <2>2. /\ q.state \in {"COMPLETE", "ERROR"}
        /\ q.length = p.length /\ q.payload = p.payload /\ IsParser(q)
    BY <2>1 DEF AwaitCrcHigh, Sound, IsParser
  <2> QED
    BY <2>2, CrcSound
<1> QED
  BY <1>1, <1>2, <1>3, <1>4, <1>5, <1>6, <1>7 DEF Sound, Bounded, ParserState

LEMMA ReceiveSound ==
  ASSUME BufferInv, NEW byte \in Byte, Receive(byte)
  PROVE  /\ parser' = [caller \in Caller |-> parser'[caller]]
         /\ \A caller \in Caller : Sound(parser'[caller])
<1>1. parser' = [caller \in Caller |-> AfterFeed(caller, Feed(parser[caller], byte))]
  BY DEF Receive
<1>2. ASSUME NEW caller \in Caller
      PROVE  Sound(AfterFeed(caller, Feed(parser[caller], byte)))
  <2>1. Sound(Feed(parser[caller], byte))
    BY FeedSound DEF BufferInv
  <2> QED
    BY <2>1, ResetSound DEF AfterFeed
<1> QED
  BY <1>1, <1>2

LEMMA OutgoingSound ==
  ASSUME outgoing \in Seq(Byte), outgoing # <<>>
  PROVE  /\ Head(outgoing) \in Byte /\ Tail(outgoing) \in Seq(Byte)
         /\ Damaged(Head(outgoing)) \subseteq Byte
<1>1. Head(outgoing) \in Byte /\ Tail(outgoing) \in Seq(Byte)
  OBVIOUS
<1> QED
  BY <1>1, WireAssumption DEF WireAssumption

\* However the stream is damaged, no payload is ever longer than the buffer it is put in.
THEOREM NoOverrun == Spec => []BufferOK
<1>1. Init => BufferInv
  <2> SUFFICES ASSUME Init PROVE BufferInv
    OBVIOUS
  <2>1. outgoing = <<>> /\ parser = [caller \in Caller |-> Reset]
    BY DEF Init
  <2>2. \A caller \in Caller : Sound(parser[caller])
    BY <2>1, ResetSound
  <2> QED
    BY <2>1, <2>2 DEF BufferInv
<1>2. BufferInv /\ [Next]_vars => BufferInv'
  <2> SUFFICES ASSUME BufferInv, [Next]_vars PROVE BufferInv'
    OBVIOUS
  <2>1. ASSUME NEW packet \in Packets, Send(packet) PROVE BufferInv'
    <3>1. outgoing' \in Seq(Byte) /\ UNCHANGED parser
      BY <2>1, EncodedBytes DEF Send
    <3> QED
      BY <3>1 DEF BufferInv
  <2>2. CASE Intact
    BY <2>2, OutgoingSound, ReceiveSound DEF Intact, BufferInv
  <2>3. CASE Damage
    <3>1. outgoing # <<>> /\ outgoing' = Tail(outgoing)
      BY <2>3 DEF Damage
    <3>2. outgoing' \in Seq(Byte) /\ Damaged(Head(outgoing)) \subseteq Byte
      BY <3>1, OutgoingSound DEF BufferInv
    <3>3. CASE \E byte \in Damaged(Head(outgoing)) : Receive(byte)
      BY <3>2, <3>3, ReceiveSound DEF BufferInv
    <3>4. CASE UNCHANGED parser
      BY <3>2, <3>4 DEF BufferInv
    <3> QED
      BY <2>3, <3>3, <3>4 DEF Damage
  <2>4. CASE UNCHANGED vars
    BY <2>4 DEF vars, BufferInv
  <2> QED
    BY <2>1, <2>2, <2>3, <2>4 DEF Next
<1>3. BufferInv => BufferOK
  BY DEF BufferInv, BufferOK, Sound, Bounded
<1> QED
  BY <1>1, <1>2, <1>3, PTL DEF Spec
----------------------------------------------------------------------------
(***************************************************************************)
(* An undamaged line loses nothing: the parser undoes the encoder.  What a *)
(* parser holds after each byte of a packet is stated for every packet and *)
(* CRC; how the CRC grows with the bytes is shown by induction, on sets of *)
(* natural numbers.                                                        *)
(***************************************************************************)

LEMMA LeastOf ==
  ASSUME NEW T, T \subseteq Nat, T # {}
  PROVE  \E x \in T : \A y \in T : ~(y < x)
<1>1. IsWellFoundedOn(OpToRel(<, Nat), Nat)
  BY NatLessThanWellFounded
<1>2. \E x \in T : \A y \in T : <<y, x>> \notin OpToRel(<, Nat)
  BY <1>1, WFMin
<1>3. \A x \in Nat, y \in Nat : y < x => <<y, x>> \in OpToRel(<, Nat)
  BY DEF OpToRel
<1> QED
  BY <1>2, <1>3

LEMMA SetInduction ==
  ASSUME NEW T, T \subseteq Nat, 0 \in T, \A n \in T : n + 1 \in T
  PROVE  T = Nat
<1>1. SUFFICES ASSUME Nat \ T # {} PROVE FALSE
  OBVIOUS
<1>2. PICK x \in Nat \ T : \A y \in Nat \ T : ~(y < x)
  BY <1>1, LeastOf
<1>3. x - 1 \in Nat /\ x - 1 < x /\ (x - 1) + 1 = x
  BY <1>2
<1>4. x - 1 \in T
  BY <1>2, <1>3
<1> QED
  BY <1>2, <1>3, <1>4

\* The CRC of some of the bytes, taken in order: the function that FoldLeft recurs by.
CrcFold(bytes, fold, positions) ==
  fold = [s \in SUBSET positions |->
            IF s = {} THEN CrcInit ELSE CrcByte(fold[s \ {Max(s)}], bytes[Max(s)])]
CrcAfter(bytes, k) == (CHOOSE fold : CrcFold(bytes, fold, DOMAIN bytes))[1 .. k]

LEMMA MaxOf ==
  ASSUME NEW n \in Nat, NEW s, s \subseteq 1 .. n, n \in s
  PROVE  Max(s) = n
<1>1. \A y \in s : n >= y
  OBVIOUS
<1>2. \A x \in s : (\A y \in s : x >= y) => x = n
  BY <1>1
<1> QED
  BY <1>1, <1>2 DEF Max

LEMMA OneMore ==
  ASSUME NEW bytes, NEW n \in Nat, NEW fold, CrcFold(bytes, fold, 1 .. n)
  PROVE  \E more : CrcFold(bytes, more, 1 .. n + 1)
<1> DEFINE more == [s \in SUBSET (1 .. n + 1) |->
                      IF n + 1 \in s THEN CrcByte(fold[s \ {n + 1}], bytes[n + 1]) ELSE fold[s]]
           step(f, s) == IF s = {} THEN CrcInit ELSE CrcByte(f[s \ {Max(s)}], bytes[Max(s)])
<1>1. \A s \in SUBSET (1 .. n) : fold[s] = step(fold, s)
  BY DEF CrcFold
<1>2. ASSUME NEW s \in SUBSET (1 .. n + 1) PROVE more[s] = step(more, s)
  <2>1. CASE n + 1 \in s
    <3>1. Max(s) = n + 1
      <4>1. n + 1 \in Nat /\ s \subseteq 1 .. n + 1
        OBVIOUS
      <4> QED
        BY <2>1, <4>1, MaxOf
    <3>2. s \ {n + 1} \in SUBSET (1 .. n) /\ s \ {n + 1} \in SUBSET (1 .. n + 1)
      OBVIOUS
    <3>3. more[s] = CrcByte(fold[s \ {n + 1}], bytes[n + 1])
      BY <2>1
    <3>4. more[s \ {n + 1}] = fold[s \ {n + 1}]
      BY <3>2
    <3> HIDE DEF more
    <3> QED
      BY <2>1, <3>1, <3>3, <3>4
  <2>2. CASE n + 1 \notin s
    <3>1. s \in SUBSET (1 .. n) /\ s \ {Max(s)} \in SUBSET (1 .. n + 1) /\ n + 1 \notin s \ {Max(s)}
      <4>1. 1 .. n + 1 = (1 .. n) \cup {n + 1}
        OBVIOUS
      <4> QED
        BY <2>2, <4>1
    <3>2. more[s] = fold[s] /\ more[s \ {Max(s)}] = fold[s \ {Max(s)}]
      BY <2>2, <3>1
    <3> HIDE DEF more
    <3> QED
      BY <1>1, <3>1, <3>2
  <2> QED
    BY <2>1, <2>2
<1>3. more = [s \in SUBSET (1 .. n + 1) |-> more[s]]
  OBVIOUS
<1>4. more = [s \in SUBSET (1 .. n + 1) |-> step(more, s)]
  <2> HIDE DEF more, step
  <2> QED
    BY <1>2, <1>3
<1>5. CrcFold(bytes, more, 1 .. n + 1)
  <2> HIDE DEF more
  <2> QED
    BY <1>4 DEF CrcFold
<1> QED
  BY <1>5

LEMMA FoldExists == ASSUME NEW bytes, NEW n \in Nat PROVE \E fold : CrcFold(bytes, fold, 1 .. n)
<1> DEFINE T == {m \in Nat : \E fold : CrcFold(bytes, fold, 1 .. m)}
<1>1. 0 \in T
  <2> DEFINE none == [s \in SUBSET {} |-> CrcInit]
  <2>1. \A s \in SUBSET {} : s = {}
    OBVIOUS
  <2>2. CrcFold(bytes, none, {})
    BY <2>1 DEF CrcFold
  <2>3. 1 .. 0 = {}
    OBVIOUS
  <2> QED
    BY <2>2, <2>3
<1>2. \A m \in T : m + 1 \in T
  BY OneMore
<1>3. T = Nat
  <2> HIDE DEF T
  <2>1. T \subseteq Nat
    BY DEF T
  <2> QED
    BY <1>1, <1>2, <2>1, SetInduction
<1> QED
  BY <1>3

\* The CRC of a sequence is reached byte by byte.
LEMMA CrcGrows ==
  ASSUME NEW bytes \in Seq(Byte)
  PROVE  /\ CrcAfter(bytes, 0) = CrcInit
         /\ \A k \in 1 .. Len(bytes) : CrcAfter(bytes, k) = CrcByte(CrcAfter(bytes, k - 1), bytes[k])
         /\ crc16_ccitt(bytes) = CrcAfter(bytes, Len(bytes))
<1> DEFINE fold == CHOOSE fold : CrcFold(bytes, fold, DOMAIN bytes)
<1>1. DOMAIN bytes = 1 .. Len(bytes) /\ Len(bytes) \in Nat
  OBVIOUS
<1>2. CrcFold(bytes, fold, DOMAIN bytes)
  BY <1>1, FoldExists, Zenon
<1>3. \A k : CrcAfter(bytes, k) = fold[1 .. k]
  BY DEF CrcAfter
<1>4. crc16_ccitt(bytes) = fold[DOMAIN bytes]
  BY DEF crc16_ccitt, FoldLeft, MapThenFoldSet, CrcFold
<1> HIDE DEF fold
<1>5. \A s \in SUBSET (1 .. Len(bytes)) :
        fold[s] = IF s = {} THEN CrcInit ELSE CrcByte(fold[s \ {Max(s)}], bytes[Max(s)])
  BY <1>1, <1>2 DEF CrcFold
<1>6. fold[1 .. 0] = CrcInit
  <2>1. 1 .. 0 = {}
    OBVIOUS
  <2> QED
    BY <1>5, <2>1
<1>7. ASSUME NEW k \in 1 .. Len(bytes)
      PROVE  fold[1 .. k] = CrcByte(fold[1 .. k - 1], bytes[k])
  <2>1. k \in 1 .. k /\ (1 .. k) \ {k} = 1 .. k - 1 /\ 1 .. k \in SUBSET (1 .. Len(bytes))
    BY <1>1
  <2>2. Max(1 .. k) = k
    BY <2>1, MaxOf
  <2> QED
    BY <1>5, <2>1, <2>2
<1> QED
  BY <1>1, <1>3, <1>4, <1>6, <1>7
----------------------------------------------------------------------------
\* What a parser holds of a packet of which k bytes have come, none of them damaged.
InHeader(k, p) ==
  /\ k \in 0 .. 2
  /\ p = [Reset EXCEPT !.state = IF k = 0 THEN "HEADER1" ELSE IF k = 1 THEN "HEADER2" ELSE "LENGTH"]

Prefix(payload, k, heardSoFar) ==
  /\ heardSoFar \in Seq(Byte) /\ Len(heardSoFar) = k
  /\ \A i \in 1 .. k : heardSoFar[i] = payload[i]

InBody(packet, k, p) ==
  /\ k \in 3 .. Len(packet.payload) + 4
  /\ IsParser(p) /\ p.length = Len(packet.payload)
  /\ p.state = IF k = 3 THEN "COMMAND" ELSE IF k = p.length + 4 THEN "CRC_LOW" ELSE "PAYLOAD"
  /\ k > 3 => p.command = packet.command
  /\ Prefix(packet.payload, IF k = 3 THEN 0 ELSE k - 4, p.payload)
  /\ p.computed_crc = CrcAfter(Body(packet), k - 2)

InCrc(packet, k, p) ==
  /\ k = Len(packet.payload) + 5
  /\ IsParser(p) /\ p.state = "CRC_HIGH"
  /\ p.command = packet.command /\ p.payload = packet.payload
  /\ p.computed_crc = crc16_ccitt(Body(packet))
  /\ p.crc = crc16_ccitt(Body(packet)) % 256

Progress(packet, k, p) == InHeader(k, p) \/ InBody(packet, k, p) \/ InCrc(packet, k, p)

LEMMA SameSeq ==
  ASSUME NEW S, NEW a \in Seq(S), NEW b \in Seq(S), Len(a) = Len(b), \A i \in 1 .. Len(a) : a[i] = b[i]
  PROVE  a = b
OBVIOUS

\* The first three bytes leave the header.
LEMMA HeaderProgress ==
  ASSUME NEW packet \in Packets, NEW k \in 0 .. 2, NEW p, InHeader(k, p)
  PROVE  Progress(packet, k + 1, Feed(p, Encode(packet)[k + 1]))
<1> DEFINE n == Len(packet.payload)
           byte == Encode(packet)[k + 1]
           q == Feed(p, byte)
<1>1. /\ Encode(packet)[1] = HEADER1 /\ Encode(packet)[2] = HEADER2
      /\ Encode(packet)[3] = Body(packet)[1] /\ Body(packet)[1] = n
      /\ Body(packet) \in Seq(Byte) /\ Len(Body(packet)) = n + 2
      /\ n \in Nat /\ n <= MaxPayload
  <2>1. n \in Nat /\ n <= MaxPayload
    BY PacketTypes, Limits
  <2>2. 1 \in 1 .. n + 2 /\ 1 + 2 = 3
    BY <2>1
  <2> QED
    BY <2>1, <2>2, EncodeBytes
<1>2. CASE k = 0
  <2>1. p.state = "HEADER1" /\ byte = HEADER1
    BY <1>1, <1>2 DEF InHeader, Reset
  <2>2. q = AwaitHeader1(byte)
    BY <2>1 DEF Feed
  <2>3. q = [Reset EXCEPT !.state = "HEADER2"]
    BY <2>1, <2>2 DEF AwaitHeader1
  <2> QED
    BY <1>2, <2>3 DEF Progress, InHeader
<1>3. CASE k = 1
  <2>1. p = [Reset EXCEPT !.state = "HEADER2"] /\ p.state = "HEADER2" /\ byte = HEADER2
    BY <1>1, <1>3 DEF InHeader, Reset
  <2>2. q = AwaitHeader2(p, byte)
    BY <2>1 DEF Feed
  <2>3. q = [p EXCEPT !.state = "LENGTH"]
    BY <2>1, <2>2 DEF AwaitHeader2, HEADER1, HEADER2
  <2>4. q = [Reset EXCEPT !.state = "LENGTH"]
    BY <2>1, <2>3 DEF Reset
  <2> QED
    BY <1>3, <2>4 DEF Progress, InHeader
<1>4. CASE k = 2
  <2>1. p = [Reset EXCEPT !.state = "LENGTH"] /\ p.state = "LENGTH" /\ byte = n
    BY <1>1, <1>4 DEF InHeader, Reset
  <2>2. q = AwaitLength(p, byte)
    BY <2>1 DEF Feed
  <2>3. ~(n > MaxPayload)
    BY <1>1, Limits
  <2>4. q = [p EXCEPT !.state = "COMMAND", !.length = byte, !.computed_crc = CrcByte(CrcInit, byte)]
    BY <2>1, <2>2, <2>3 DEF AwaitLength
  <2>5. /\ IsParser(q) /\ q.state = "COMMAND" /\ q.length = n /\ q.payload = <<>>
        /\ q.computed_crc = CrcByte(CrcInit, n)
    BY <2>1, <2>4 DEF Reset, IsParser
  <2>6. CrcAfter(Body(packet), 1) = CrcByte(CrcInit, n)
    <3>1. 1 \in 1 .. Len(Body(packet)) /\ 1 - 1 = 0
      BY <1>1
    <3> QED
      BY <1>1, <3>1, CrcGrows
  <2>7. Prefix(packet.payload, 0, q.payload)
    <3>1. <<>> \in Seq(Byte) /\ Len(<<>>) = 0
      OBVIOUS
    <3> QED
      BY <2>5, <3>1 DEF Prefix
  <2>8. 3 \in 3 .. n + 4 /\ k + 1 = 3 /\ 3 - 2 = 1
    BY <1>1, <1>4
  <2>9. InBody(packet, 3, q)
    <3> HIDE DEF q, n
    <3> QED
      BY <2>5, <2>6, <2>7, <2>8 DEF InBody, n
  <2> QED
    BY <2>8, <2>9 DEF Progress
<1> QED
  BY <1>2, <1>3, <1>4
\* Where each byte of the body and the CRC is.
LEMMA BytesAfterHeader ==
  ASSUME NEW packet \in Packets
  PROVE  LET n == Len(packet.payload)
         IN  /\ n \in Nat
             /\ Encode(packet)[4] = packet.command /\ Body(packet)[2] = packet.command
             /\ \A k \in 4 .. n + 3 : /\ Encode(packet)[k + 1] = packet.payload[k - 3]
                                      /\ Body(packet)[k - 1] = packet.payload[k - 3]
                                      /\ packet.payload[k - 3] \in Byte
<1> DEFINE n == Len(packet.payload)
<1>1. n \in Nat /\ packet.payload \in Seq(Byte)
  BY PacketTypes
<1>2. /\ \A i \in 1 .. n + 2 : Encode(packet)[i + 2] = Body(packet)[i]
      /\ Body(packet)[2] = packet.command
      /\ \A i \in 1 .. n : Body(packet)[i + 2] = packet.payload[i]
  BY EncodeBytes
<1>3. Encode(packet)[4] = packet.command
  <2>1. 2 \in 1 .. n + 2 /\ 2 + 2 = 4
    BY <1>1
  <2> QED
    BY <1>2, <2>1
<1>4. ASSUME NEW k \in 4 .. n + 3
      PROVE  /\ Encode(packet)[k + 1] = packet.payload[k - 3]
             /\ Body(packet)[k - 1] = packet.payload[k - 3]
             /\ packet.payload[k - 3] \in Byte
  <2>1. /\ k - 1 \in 1 .. n + 2 /\ (k - 1) + 2 = k + 1
        /\ k - 3 \in 1 .. n /\ (k - 3) + 2 = k - 1
    BY <1>1
  <2>2. packet.payload[k - 3] \in Byte
    BY <1>1, <2>1
  <2> QED
    BY <1>2, <2>1, <2>2
<1> QED
  BY <1>1, <1>2, <1>3, <1>4

\* The CRC of one byte more.
LEMMA CrcOfNext ==
  ASSUME NEW packet \in Packets, NEW k \in 3 .. Len(packet.payload) + 3
  PROVE  CrcAfter(Body(packet), k - 1) = CrcByte(CrcAfter(Body(packet), k - 2), Body(packet)[k - 1])
<1>1. Len(packet.payload) \in Nat
  BY PacketTypes
<1>2. Body(packet) \in Seq(Byte) /\ Len(Body(packet)) = Len(packet.payload) + 2
  BY EncodeBytes
<1>3. k - 1 \in 1 .. Len(Body(packet)) /\ (k - 1) - 1 = k - 2
  BY <1>1, <1>2
<1> QED
  BY <1>2, <1>3, CrcGrows

LEMMA CommandProgress ==
  ASSUME NEW packet \in Packets, NEW p, InBody(packet, 3, p)
  PROVE  InBody(packet, 4, Feed(p, Encode(packet)[4]))
<1> DEFINE n == Len(packet.payload)
           byte == Encode(packet)[4]
           q == Feed(p, byte)
<1>1. /\ n \in Nat /\ byte = packet.command /\ Body(packet)[2] = packet.command
      /\ 3 \in 3 .. n + 3 /\ 4 \in 3 .. n + 4 /\ 3 - 1 = 2 /\ 3 - 2 = 1 /\ 4 - 2 = 2 /\ 4 - 4 = 0
  BY BytesAfterHeader
<1>2. /\ IsParser(p) /\ p.state = "COMMAND" /\ p.length = n
      /\ Prefix(packet.payload, 0, p.payload) /\ p.computed_crc = CrcAfter(Body(packet), 1)
  BY <1>1 DEF InBody
<1>3. q = AwaitCommand(p, byte)
  BY <1>2 DEF Feed
<1>4. /\ IsParser(q) /\ q.length = n /\ q.payload = p.payload /\ q.command = byte
      /\ q.state = IF n = 0 THEN "CRC_LOW" ELSE "PAYLOAD"
      /\ q.computed_crc = CrcByte(p.computed_crc, byte)
  <2>1. q = [p EXCEPT !.state = IF p.length = 0 THEN "CRC_LOW" ELSE "PAYLOAD",
                      !.command = byte, !.computed_crc = CrcByte(@, byte)]
    BY <1>3 DEF AwaitCommand
  <2> HIDE DEF q, byte, n
  <2> QED
    BY <1>2, <2>1 DEF IsParser
<1>5. CrcAfter(Body(packet), 2) = CrcByte(CrcAfter(Body(packet), 1), packet.command)
  BY <1>1, CrcOfNext
<1>6. (4 = n + 4) <=> (n = 0)
  BY <1>1
<1> HIDE DEF q, byte
<1>7. InBody(packet, 4, q)
  BY <1>1, <1>2, <1>4, <1>5, <1>6 DEF InBody
<1> QED
  BY <1>7 DEF q, byte

LEMMA PrefixGrows ==
  ASSUME NEW payload \in Seq(Byte), NEW k \in Nat, k < Len(payload), NEW some, Prefix(payload, k, some),
         NEW byte \in Byte, byte = payload[k + 1]
  PROVE  Prefix(payload, k + 1, Append(some, byte))
<1>1. some \in Seq(Byte) /\ Len(some) = k
  BY DEF Prefix
<1>2. /\ Append(some, byte) \in Seq(Byte) /\ Len(Append(some, byte)) = k + 1
      /\ Append(some, byte)[k + 1] = byte
      /\ \A i \in 1 .. k : Append(some, byte)[i] = some[i]
  BY <1>1
<1>3. \A i \in 1 .. k + 1 : i = k + 1 \/ i \in 1 .. k
  OBVIOUS
<1> QED
  BY <1>2, <1>3 DEF Prefix

LEMMA PayloadProgress ==
  ASSUME NEW packet \in Packets, NEW k \in 4 .. Len(packet.payload) + 3, NEW p, InBody(packet, k, p)
  PROVE  InBody(packet, k + 1, Feed(p, Encode(packet)[k + 1]))
<1> DEFINE n == Len(packet.payload)
           byte == Encode(packet)[k + 1]
           q == Feed(p, byte)
<1>1. n \in Nat /\ packet.payload \in Seq(Byte)
  BY PacketTypes
<1>2. /\ byte = packet.payload[k - 3] /\ Body(packet)[k - 1] = byte /\ byte \in Byte
  BY BytesAfterHeader
<1>3. /\ k \in Nat /\ k # 3 /\ k > 3 /\ k # n + 4 /\ k - 4 \in Nat /\ k - 4 < n
      /\ (k - 4) + 1 = k - 3 /\ (k + 1) - 4 = k - 3 /\ (k + 1) - 2 = k - 1
      /\ k + 1 \in 3 .. n + 4 /\ k \in 3 .. n + 3 /\ k + 1 # 3 /\ k + 1 > 3
  BY <1>1
<1>4. /\ IsParser(p) /\ p.length = n /\ p.state = "PAYLOAD" /\ p.command = packet.command
      /\ Prefix(packet.payload, k - 4, p.payload) /\ p.computed_crc = CrcAfter(Body(packet), k - 2)
  BY <1>3 DEF InBody
<1>5. q = AwaitPayload(p, byte)
  BY <1>4 DEF Feed
<1>6. /\ IsParser(q) /\ q.length = n /\ q.payload = Append(p.payload, byte) /\ q.command = p.command
      /\ q.state = IF Len(p.payload) + 1 >= n THEN "CRC_LOW" ELSE "PAYLOAD"
      /\ q.computed_crc = CrcByte(p.computed_crc, byte)
  <2>1. q = [p EXCEPT !.state = IF Len(p.payload) + 1 >= p.length THEN "CRC_LOW" ELSE "PAYLOAD",
                      !.payload = Append(@, byte), !.computed_crc = CrcByte(@, byte)]
    BY <1>5 DEF AwaitPayload
  <2> HIDE DEF q, byte, n
  <2> QED
    BY <1>4, <2>1 DEF IsParser
<1>7. Len(p.payload) = k - 4
  BY <1>4 DEF Prefix
<1>8. (Len(p.payload) + 1 >= n) <=> (k + 1 = n + 4)
  BY <1>1, <1>3, <1>7
<1>9. Prefix(packet.payload, k - 3, q.payload)
  BY <1>1, <1>2, <1>3, <1>4, <1>6, PrefixGrows
<1>10. q.computed_crc = CrcAfter(Body(packet), k - 1)
  BY <1>2, <1>3, <1>4, <1>6, CrcOfNext
<1> HIDE DEF q, byte
<1>11. InBody(packet, k + 1, q)
  BY <1>3, <1>4, <1>6, <1>8, <1>9, <1>10 DEF InBody
<1> QED
  BY <1>11 DEF q, byte

\* Behind the payload comes the CRC, low byte first.
LEMMA CrcLowProgress ==
  ASSUME NEW packet \in Packets, NEW k, k = Len(packet.payload) + 4, NEW p, InBody(packet, k, p)
  PROVE  InCrc(packet, k + 1, Feed(p, Encode(packet)[k + 1]))
<1> DEFINE n == Len(packet.payload)
           byte == Encode(packet)[k + 1]
           q == Feed(p, byte)
<1>1. n \in Nat /\ packet.payload \in Seq(Byte)
  BY PacketTypes
<1>2. k + 1 = n + 5 /\ k # 3 /\ k > 3 /\ k - 4 = n /\ k - 2 = n + 2
  BY <1>1
<1>3. /\ IsParser(p) /\ p.length = n /\ p.state = "CRC_LOW" /\ p.command = packet.command
      /\ Prefix(packet.payload, n, p.payload) /\ p.computed_crc = CrcAfter(Body(packet), n + 2)
  BY <1>2 DEF InBody
<1>4. byte = crc16_ccitt(Body(packet)) % 256
  BY <1>2, EncodeBytes
<1>5. crc16_ccitt(Body(packet)) = CrcAfter(Body(packet), n + 2)
  <2>1. Body(packet) \in Seq(Byte) /\ Len(Body(packet)) = n + 2
    BY EncodeBytes
  <2> QED
    BY <2>1, CrcGrows
<1>6. p.payload = packet.payload
  BY <1>1, <1>3, SameSeq DEF Prefix
<1>7. q = [p EXCEPT !.state = "CRC_HIGH", !.crc = byte]
  BY <1>3 DEF Feed
<1>8. /\ IsParser(q) /\ q.state = "CRC_HIGH" /\ q.command = p.command /\ q.payload = p.payload
      /\ q.computed_crc = p.computed_crc /\ q.crc = byte
  <2> HIDE DEF q, byte
  <2> QED
    BY <1>3, <1>7 DEF IsParser
<1> HIDE DEF q, byte
<1>9. InCrc(packet, k + 1, q)
  BY <1>2, <1>3, <1>4, <1>5, <1>6, <1>8 DEF InCrc
<1> QED
  BY <1>9 DEF q, byte

\* The last byte completes the packet that was sent.
LEMMA LastByte ==
  ASSUME NEW packet \in Packets, NEW k, NEW p, InCrc(packet, k, p)
  PROVE  /\ Feed(p, Encode(packet)[k + 1]).state = "COMPLETE"
         /\ Completed(Feed(p, Encode(packet)[k + 1])) = packet
<1> DEFINE crc == crc16_ccitt(Body(packet))
           byte == Encode(packet)[k + 1]
           q == Feed(p, byte)
<1>1. Len(packet.payload) \in Nat
  BY PacketTypes
<1>2. k + 1 = Len(packet.payload) + 6
  BY <1>1 DEF InCrc
<1>3. byte = crc \div 256 /\ crc = (crc % 256) + 256 * (crc \div 256)
  BY <1>2, EncodeBytes
<1>4. /\ IsParser(p) /\ p.state = "CRC_HIGH" /\ p.command = packet.command /\ p.payload = packet.payload
      /\ p.computed_crc = crc /\ p.crc = crc % 256
  BY DEF InCrc
<1>5. q = AwaitCrcHigh(p, byte)
  BY <1>4 DEF Feed
<1>6. p.crc + 256 * byte = p.computed_crc
  BY <1>3, <1>4
<1>7. q = [[p EXCEPT !.crc = p.crc + 256 * byte] EXCEPT !.state = "COMPLETE"]
  BY <1>5, <1>6 DEF AwaitCrcHigh
<1>8. q.state = "COMPLETE" /\ q.command = packet.command /\ q.payload = packet.payload
  <2> HIDE DEF q, byte, crc
  <2> QED
    BY <1>4, <1>7 DEF IsParser
<1>9. packet = [command |-> packet.command, payload |-> packet.payload]
  BY PacketTypes
<1> HIDE DEF q
<1> QED
  BY <1>8, <1>9 DEF Completed, q
\* Every byte of a packet but the last takes the parser one byte further, and completes nothing.
LEMMA NextByte ==
  ASSUME NEW packet \in Packets, NEW k, NEW p, Progress(packet, k, p), k # Len(packet.payload) + 5
  PROVE  /\ Progress(packet, k + 1, Feed(p, Encode(packet)[k + 1]))
         /\ k + 1 \in Nat
<1>1. Len(packet.payload) \in Nat
  BY PacketTypes
<1>2. CASE InHeader(k, p)
  <2>1. k \in 0 .. 2
    BY <1>2 DEF InHeader
  <2> QED
    BY <1>2, <2>1, HeaderProgress
<1>3. CASE InBody(packet, k, p)
  <2>1. k \in 3 .. Len(packet.payload) + 4
    BY <1>3 DEF InBody
  <2>2. CASE k = 3
    <3>1. InBody(packet, 3 + 1, Feed(p, Encode(packet)[3 + 1]))
      BY <1>3, <2>2, CommandProgress
    <3> QED
      BY <2>2, <3>1 DEF Progress
  <2>3. CASE k \in 4 .. Len(packet.payload) + 3
    BY <1>3, <2>1, <2>3, PayloadProgress DEF Progress
  <2>4. CASE k = Len(packet.payload) + 4
    BY <1>1, <1>3, <2>4, CrcLowProgress DEF Progress
  <2> QED
    BY <1>1, <2>1, <2>2, <2>3, <2>4
<1>4. CASE InCrc(packet, k, p)
  BY <1>4 DEF InCrc
<1> QED
  BY <1>2, <1>3, <1>4 DEF Progress

LEMMA NotYet ==
  ASSUME NEW packet \in Packets, NEW k, NEW p, Progress(packet, k, p)
  PROVE  p.state \notin {"COMPLETE", "ERROR"}
<1>1. CASE InHeader(k, p)
  BY <1>1 DEF InHeader, Reset
<1>2. CASE InBody(packet, k, p)
  BY <1>2 DEF InBody
<1>3. CASE InCrc(packet, k, p)
  BY <1>3 DEF InCrc
<1> QED
  BY <1>1, <1>2, <1>3 DEF Progress

\* As long as no byte is damaged, the firmware's parser has got as far in the packet as the
\* line, and a packet is taken when all of it is sent.
Underway ==
  LET k == Len(Encode(current)) - Len(outgoing)
  IN  /\ current \in Packets /\ taken = FALSE
      /\ outgoing # <<>> /\ k \in Nat
      /\ \A i \in 1 .. Len(outgoing) : outgoing[i] = Encode(current)[k + i]
      /\ Progress(current, k, parser["firmware"])

Idle ==
  /\ outgoing = <<>> /\ taken = TRUE /\ accepted = current
  /\ parser["firmware"] = Reset

UndamagedInv ==
  /\ damage \in Nat
  /\ outgoing \in Seq(Byte)
  /\ damage = 0 => missed = 0 /\ (Underway \/ Idle)

LEMMA UndamagedInit == ASSUME Init PROVE UndamagedInv
<1>1. parser["firmware"] = Reset
  BY DEF Init, Caller
<1>2. <<>> \in Seq(Byte)
  OBVIOUS
<1> QED
  BY <1>1, <1>2 DEF Init, UndamagedInv, Idle

LEMMA UndamagedSend ==
  ASSUME UndamagedInv, NEW packet \in Packets, Send(packet)
  PROVE  UndamagedInv'
<1>1. /\ outgoing' = Encode(packet) /\ current' = packet /\ taken' = FALSE
      /\ parser' = parser /\ damage' = damage /\ outgoing = <<>>
  BY DEF Send
<1>2. outgoing' \in Seq(Byte) /\ Len(Encode(packet)) = Len(packet.payload) + 6 /\ Len(packet.payload) \in Nat
  BY <1>1, EncodeBytes, PacketTypes
<1>3. ASSUME damage = 0 PROVE missed' = 0 /\ Underway'
  <2>1. Idle
    BY <1>1, <1>3 DEF UndamagedInv, Underway
  <2>2. missed' = 0
    BY <1>3, <2>1 DEF Idle, Send
  <2>3. Progress(packet, 0, parser["firmware"])
    BY <2>1 DEF Idle, Progress, InHeader, Reset
  <2>4. /\ Len(Encode(packet)) - Len(outgoing') = 0
        /\ outgoing' # <<>>
    BY <1>1, <1>2
  <2>5. \A i \in 1 .. Len(outgoing') : outgoing'[i] = Encode(packet)[0 + i]
    BY <1>1
  <2> QED
    BY <1>1, <2>2, <2>3, <2>4, <2>5 DEF Underway
<1> QED
  BY <1>1, <1>2, <1>3 DEF UndamagedInv
LineNext == [Line!Send \/ Line!Accept]_<<current, accepted, taken>>

\* What the firmware makes of the next byte.
LEMMA FirmwareReceives ==
  ASSUME NEW byte, Receive(byte)
  PROVE  LET q == Feed(parser["firmware"], byte)
         IN  /\ parser'["firmware"] = AfterFeed("firmware", q)
             /\ IF Completed(q) # NoPacket
                THEN accepted' = Completed(q) /\ taken' = TRUE
                ELSE accepted' = accepted /\ taken' = taken
<1>1. /\ parser' = [caller \in Caller |-> AfterFeed(caller, Feed(parser[caller], byte))]
      /\ heard' = [caller \in Caller |-> Completed(Feed(parser[caller], byte))]
      /\ IF heard'["firmware"] # NoPacket
         THEN accepted' = heard'["firmware"] /\ taken' = TRUE
         ELSE accepted' = accepted /\ taken' = taken
  BY DEF Receive
<1>2. /\ parser'["firmware"] = AfterFeed("firmware", Feed(parser["firmware"], byte))
      /\ heard'["firmware"] = Completed(Feed(parser["firmware"], byte))
  BY <1>1, Zenon DEF Caller
<1> QED
  BY <1>1, <1>2, Zenon

LEMMA UndamagedIntact ==
  ASSUME UndamagedInv, Intact
  PROVE  UndamagedInv' /\ (damage = 0 => LineNext)
<1>1. /\ outgoing # <<>> /\ outgoing' = Tail(outgoing) /\ Receive(Head(outgoing))
      /\ current' = current /\ missed' = missed /\ damage' = damage
  BY DEF Intact
<1>2. /\ outgoing \in Seq(Byte) /\ outgoing' \in Seq(Byte) /\ Len(outgoing') = Len(outgoing) - 1
      /\ Head(outgoing) = outgoing[1] /\ 1 \in 1 .. Len(outgoing) /\ Len(outgoing) \in Nat
      /\ \A i \in 1 .. Len(outgoing') : outgoing'[i] = outgoing[i + 1] /\ i + 1 \in 1 .. Len(outgoing)
  BY <1>1 DEF UndamagedInv
<1>3. ASSUME damage = 0
      PROVE  missed' = 0 /\ (Underway \/ Idle)' /\ LineNext
  <2> DEFINE k == Len(Encode(current)) - Len(outgoing)
             q == Feed(parser["firmware"], Head(outgoing))
             n == Len(current.payload)
  <2>1. /\ current \in Packets /\ taken = FALSE /\ k \in Nat
        /\ \A i \in 1 .. Len(outgoing) : outgoing[i] = Encode(current)[k + i]
        /\ Progress(current, k, parser["firmware"])
    BY <1>1, <1>3 DEF UndamagedInv, Underway, Idle
  <2>2. Len(Encode(current)) = n + 6 /\ n \in Nat
    BY <2>1, EncodeBytes, PacketTypes
  <2>3. Head(outgoing) = Encode(current)[k + 1]
    BY <1>2, <2>1
  <2>4. /\ parser'["firmware"] = AfterFeed("firmware", q)
        /\ IF Completed(q) # NoPacket
           THEN accepted' = Completed(q) /\ taken' = TRUE
           ELSE accepted' = accepted /\ taken' = taken
    BY <1>1, FirmwareReceives, Zenon
  <2>5. Len(Encode(current)) - Len(outgoing') = k + 1
    BY <1>2, <2>2
  <2>6. missed' = 0
    BY <1>1, <1>3 DEF UndamagedInv
  <2>7. CASE k = n + 5
    <3>1. InCrc(current, k, parser["firmware"])
      BY <2>1, <2>2, <2>7 DEF Progress, InHeader, InBody
    <3>2. q.state = "COMPLETE" /\ Completed(q) = current
      BY <2>1, <2>3, <3>1, LastByte
    <3>3. current # NoPacket
      BY <2>1, ProtocolAssumption DEF ProtocolAssumption
    <3>4. accepted' = current /\ taken' = TRUE /\ parser'["firmware"] = Reset
      <4> HIDE DEF q
      <4> QED
        BY <2>4, <3>2, <3>3 DEF AfterFeed
    <3>5. outgoing' = <<>>
      BY <1>2, <2>2, <2>5, <2>7
    <3>6. Idle'
      BY <1>1, <3>4, <3>5 DEF Idle
    <3>7. LineNext
      BY <1>1, <2>1, <3>4 DEF LineNext, Line!Accept
    <3> QED
      BY <2>6, <3>6, <3>7
  <2>8. CASE k # n + 5
    <3>1. Progress(current, k + 1, q) /\ k + 1 \in Nat
      BY <2>1, <2>3, <2>8, NextByte
    <3>2. q.state \notin {"COMPLETE", "ERROR"}
      BY <2>1, <3>1, NotYet
    <3>3. /\ parser'["firmware"] = q
          /\ accepted' = accepted /\ taken' = taken
      <4> HIDE DEF q
      <4> QED
        BY <2>4, <3>2 DEF AfterFeed, Completed
    <3>4. outgoing' # <<>>
      <4>1. Len(outgoing') # 0
        BY <1>2, <2>2, <2>8
      <4> QED
        BY <4>1
    <3>5. ASSUME NEW i \in 1 .. Len(outgoing') PROVE outgoing'[i] = Encode(current)[(k + 1) + i]
      <4>1. outgoing'[i] = outgoing[i + 1] /\ i + 1 \in 1 .. Len(outgoing)
        BY <1>2
      <4>2. k + (i + 1) = (k + 1) + i
        BY <1>2, <2>1
      <4> HIDE DEF k
      <4> QED
        BY <2>1, <4>1, <4>2
    <3>6. Underway'
      <4> HIDE DEF q, k, n
      <4> QED
        BY <1>1, <2>1, <2>5, <3>1, <3>3, <3>4, <3>5 DEF Underway
    <3>7. LineNext
      BY <1>1, <3>3 DEF LineNext
    <3> QED
      BY <2>6, <3>6, <3>7
  <2> QED
    BY <2>7, <2>8
<1>4. UndamagedInv'
  BY <1>1, <1>2, <1>3 DEF UndamagedInv
<1> QED
  BY <1>3, <1>4

LEMMA UndamagedStep == UndamagedInv /\ [Next]_vars => UndamagedInv'
<1> SUFFICES ASSUME UndamagedInv, [Next]_vars PROVE UndamagedInv'
  OBVIOUS
<1>1. ASSUME NEW packet \in Packets, Send(packet) PROVE UndamagedInv'
  BY <1>1, UndamagedSend
<1>2. CASE Intact
  BY <1>2, UndamagedIntact
<1>3. CASE Damage
  <2>1. outgoing # <<>> /\ outgoing' = Tail(outgoing) /\ damage' = damage + 1
    BY <1>3 DEF Damage
  <2>2. outgoing' \in Seq(Byte) /\ damage' \in Nat /\ damage' # 0
    BY <2>1 DEF UndamagedInv
  <2> QED
    BY <2>2 DEF UndamagedInv
<1>4. CASE UNCHANGED vars
  BY <1>4 DEF vars, UndamagedInv, Underway, Idle
<1> QED
  BY <1>1, <1>2, <1>3, <1>4 DEF Next

\* As long as no byte is damaged no packet is lost, whatever is sent and whatever the CRC.
THEOREM UndamagedLosesNothing == Spec => [](damage = 0 => DamageIsLocal)
<1>1. Init => UndamagedInv
  BY UndamagedInit
<1>2. UndamagedInv => (damage = 0 => DamageIsLocal)
  BY DEF UndamagedInv, DamageIsLocal
<1> QED
  BY <1>1, <1>2, UndamagedStep, PTL DEF Spec

\* A line on which no byte is damaged is the line its users see: every packet that is
\* accepted is the one sent last, accepted once.  On a damaged line this rests on the CRC,
\* whatever that can tell apart.
THEOREM UndamagedLine == Spec /\ [](damage = 0) => LineSpec
<1>1. Init => UndamagedInv /\ Line!Init
  BY UndamagedInit DEF Init, Line!Init
<1>2. UndamagedInv /\ damage = 0 /\ (damage = 0)' /\ [Next]_vars => LineNext
  <2> SUFFICES ASSUME UndamagedInv, damage = 0, damage' = 0, [Next]_vars PROVE LineNext
    OBVIOUS
  <2>1. ASSUME NEW packet \in Packets, Send(packet) PROVE LineNext
    BY <2>1 DEF Send, LineNext, Line!Send
  <2>2. CASE Intact
    BY <2>2, UndamagedIntact
  <2>3. CASE Damage
    BY <2>3 DEF Damage
  <2>4. CASE UNCHANGED vars
    BY <2>4 DEF vars, LineNext
  <2> QED
    BY <2>1, <2>2, <2>3, <2>4 DEF Next
<1> QED
  BY <1>1, <1>2, UndamagedStep, PTL DEF Spec, LineSpec, Line!Spec, LineNext
=============================================================================
