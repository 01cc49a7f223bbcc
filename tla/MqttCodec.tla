----------------------------- MODULE MqttCodec ------------------------------
(***************************************************************************)
(* How the bytes of a connection become MQTT packets (mqtt_codec.c), with  *)
(* the connections of mqtt_client.c below it.  A byte is a number, and the *)
(* length of a packet is written in digits of base Base (128 in the code), *)
(* so that a small base shows lengths of several bytes.                    *)
(***************************************************************************)
EXTENDS Integers, Sequences, SequencesExt

CONSTANTS
  Base,         \* NEXT_128_CHUNK; bytes are 0 .. 2 * Base - 1
  Packets,      \* the packets of the hub: type and data
  PINGRESP,     \* the type of the packet without data
  MAX_SEND_SIZE,
  MidPacket,    \* may a connection end in the middle of a packet?
  MaxPackets    \* bound of the model on the packets sent

ASSUME CodecAssumption ==
  /\ Base \in Nat \ {0, 1} /\ MAX_SEND_SIZE \in Nat
  /\ Packets \subseteq [type : 1 .. 2 * Base - 1, data : Seq(0 .. 2 * Base - 1)]
  /\ \A p \in Packets : p.data = <<>> <=> p.type = PINGRESP

VARIABLES
  codec, \* the state of the codec
  wire,  \* the bytes of the connection not yet received
  sent,  \* the packets of the hub that were not lost with a connection
  got    \* the packets the codec has completed

cvars == <<codec, wire, sent, got>>

UNKNOWN_TYPE == 0

\* storeRemainLen, and the buffer headerData: its length and what is in it.
NoBuffer == [len |-> 0, data |-> <<>>]
FreshCodec == [state |-> "FIXED_HEADER", currPacket |-> UNKNOWN_TYPE,
               storeRemainLen |-> <<>>, headerData |-> NoBuffer]

CodecInit == codec = FreshCodec /\ wire = <<>> /\ sent = <<>> /\ got = <<>>

----------------------------------------------------------------------------
\* A step of the codec: its state, the packets completed so far, and whether
\* an error was met, after which the rest of the bytes is not looked at.
Progress(c) == [codec |-> c, packets |-> <<>>, failed |-> FALSE]

completePacketData(r) ==
  [r EXCEPT !.packets = Append(@, [type |-> r.codec.currPacket, data |-> r.codec.headerData.data]),
            !.codec = FreshCodec]

\* The digits come with the lowest first; every one but the last has the high bit.
RemainingLength(digits) ==
  FoldRight(LAMBDA d, n : (d % Base) + Base * n, digits, 0)

\* A length of more than three bytes is refused.
prepareheaderDataInfo(r, b) ==
  LET digits == Append(r.codec.storeRemainLen, b)
      total == RemainingLength(digits)
  IN  IF b >= Base THEN [r EXCEPT !.codec.storeRemainLen = digits]
      ELSE IF Len(digits) > 3 \/ total > MAX_SEND_SIZE THEN [r EXCEPT !.failed = TRUE]
      ELSE [r EXCEPT !.codec.state = "VAR_HEADER", !.codec.storeRemainLen = <<>>,
                     !.codec.headerData = IF total > 0 THEN [len |-> total, data |-> <<>>] ELSE @]

FixedHeader(r, b) ==
  IF r.codec.currPacket = UNKNOWN_TYPE THEN [r EXCEPT !.codec.currPacket = b]
  ELSE LET s == prepareheaderDataInfo(r, b)
       IN  IF ~ s.failed /\ s.codec.currPacket = PINGRESP THEN completePacketData(s) ELSE s

\* Fault: complete one byte late.
VarHeader_late(r, b) ==
  LET s == [r EXCEPT !.codec.headerData.data = Append(@, b)]
  IN  IF Len(s.codec.headerData.data) > s.codec.headerData.len THEN completePacketData(s) ELSE s

VarHeader(r, b) ==
  LET s == [r EXCEPT !.codec.headerData.data = Append(@, b)]
  IN  IF r.codec.headerData.len = 0 THEN [r EXCEPT !.codec.state = "PAYLOAD"]
      ELSE IF Len(s.codec.headerData.data) >= s.codec.headerData.len THEN completePacketData(s)
      ELSE s

ByteReceived(r, b) ==
  IF r.failed THEN r
  ELSE IF r.codec.state = "FIXED_HEADER" THEN FixedHeader(r, b)
  ELSE IF r.codec.state = "VAR_HEADER" THEN VarHeader(r, b)
  ELSE [r EXCEPT !.failed = TRUE]

mqtt_codec_bytesReceived(c, bytes) == FoldLeft(ByteReceived, Progress(c), bytes)

----------------------------------------------------------------------------
\* How a packet is written: the client does it like this (constructFixedHeader),
\* and so does the hub.
Digits(n) ==
  LET d[m \in 0 .. n] == IF m < Base THEN <<m>> ELSE <<Base + (m % Base)>> \o d[m \div Base]
  IN  d[n]

Encoded(p) == <<p.type>> \o Digits(Len(p.data)) \o p.data

HubSends(p) ==
  /\ Len(sent) < MaxPackets
  /\ sent' = Append(sent, p)
  /\ wire' = wire \o Encoded(p)
  /\ UNCHANGED <<codec, got>>

\* onBytesReceived: after an error the codec is reset and the connection given up.
onBytesReceived(n) ==
  LET r == mqtt_codec_bytesReceived(codec, SubSeq(wire, 1, n))
  IN  /\ got' = got \o r.packets
      /\ IF r.failed
         THEN codec' = FreshCodec /\ wire' = <<>> /\ sent' = got'
         ELSE codec' = r.codec /\ wire' = SubSeq(wire, n + 1, Len(wire)) /\ UNCHANGED sent

\* A connection ends and the next begins; mqtt_client.c does not reset the codec.
ConnectionLost ==
  /\ MidPacket \/ codec = FreshCodec
  /\ wire' = <<>> /\ sent' = got
  /\ UNCHANGED <<codec, got>>

CodecNext ==
  \/ \E p \in Packets : HubSends(p)
  \/ \E n \in 1 .. Len(wire) : onBytesReceived(n)
  \/ ConnectionLost

CodecSpec == CodecInit /\ [][CodecNext]_cvars

----------------------------------------------------------------------------
\* "mqtt_codec_bytesReceived constructs a sequence of bytes into the
\* corresponding MQTT packets" (mqtt_codec.c:1097), however the network cuts
\* the bytes: the packets completed are those the hub sent, in order, and once
\* all bytes have come all packets have.
PacketsIntact == IsPrefix(got, sent) /\ (wire = <<>> => got = sent)
=============================================================================
