---------------------------- MODULE ChainDecoder ----------------------------
(***************************************************************************)
(* The framing of the chain bus: frames as _send_packet builds them, which *)
(* devices use as well, a UART that may spoil one byte or cut a frame      *)
(* short, and _decode_packet, which takes the bytes through ten states and *)
(* keeps its state from one read to the next.  No time passes in it: the   *)
(* decoder waits for as long as a byte does not come.                      *)
(***************************************************************************)
EXTENDS Integers, Sequences, SequencesExt

CONSTANTS
  Frames,     \* what may be sent: records of device_id, cmd and payload
  Ignored,    \* CMD_HEARTBEAT and CMD_ENUM_REQUEST
  NoiseBytes, \* the values a spoiled or stray byte may have
  MaxFrames   \* bound: frames sent

Byte == {n \in Nat : n < 256}
Word == {n \in Nat : n < 65536}

(* The length field has two bytes and counts three bytes more.             *)
ASSUME FramesAssumption ==
  \A f \in Frames : /\ f.device_id \in Byte /\ f.cmd \in Byte
                    /\ f.payload \in Seq(Byte) /\ Len(f.payload) + 3 \in Word
ASSUME NoiseAssumption == NoiseBytes \subseteq Byte
ASSUME BoundAssumption == MaxFrames \in Nat

VARIABLES
  sent,      \* history: the frames sent
  line,      \* bytes on their way
  fault,     \* history: the one thing that went wrong, and with which frame
  state,     \* self._recv_data.state, and the other fields of RecvData
  length,
  device_id,
  cmd,
  payload,   \* payload_len is its length
  crc,
  recv_time, \* the time of the header: the number of the frame sent last
  packets,   \* history: what was put into _packet_queue
  heard      \* history: the bytes taken since the latest of them

fields == <<length, device_id, cmd, payload, crc, recv_time>>
decoderVars == <<sent, line, fault, state, fields, packets, heard>>

HexAA == 170
Hex55 == 85

Total(bytes) ==
  LET upTo[i \in 0..Len(bytes)] == IF i = 0 THEN 0 ELSE upTo[i - 1] + bytes[i]
  IN  upTo[Len(bytes)]

Crc(id, c, data) == (c + id + Total(data)) % 256

Encode(f) ==
  LET n == Len(f.payload) + 3
  IN  <<HexAA, Hex55, n % 256, n \div 256, f.device_id, f.cmd>> \o f.payload
        \o <<Crc(f.device_id, f.cmd, f.payload), Hex55, HexAA>>

FaultKinds == {"lost", "spoiled", "stray", "cut"}
NoFault == [kind |-> "none", n |-> 0, at |-> 0]
-----------------------------------------------------------------------------
Init ==
  /\ sent = <<>> /\ line = <<>> /\ fault = NoFault
  /\ state = "HEAD1" /\ length = 0 /\ device_id = 0 /\ cmd = 0
  /\ payload = <<>> /\ crc = 0 /\ recv_time = 0
  /\ packets = <<>> /\ heard = <<>>

(* A frame goes out once the one before it has been taken: the decoder     *)
(* does not see how the bytes are spread over its reads.                   *)
Sends(f) ==
  /\ line = <<>> /\ Len(sent) < MaxFrames
  /\ sent' = Append(sent, f)
  /\ UNCHANGED <<state, fields, packets, heard>>

SendWhole(f) ==
  /\ Sends(f)
  /\ line' = Encode(f)
  /\ UNCHANGED fault

(* The line loses, changes or adds a byte, or is unplugged in a frame.     *)
SendFaulty(f) ==
  /\ Sends(f)
  /\ fault = NoFault
  /\ \E i \in 1..Len(Encode(f)), kind \in FaultKinds :
       /\ fault' = [kind |-> kind, n |-> Len(sent'), at |-> i]
       /\ \/ kind = "lost" /\ line' = RemoveAt(Encode(f), i)
          \/ kind = "cut" /\ line' = SubSeq(Encode(f), 1, i - 1)
          \/ kind = "spoiled" /\ \E b \in NoiseBytes \ {Encode(f)[i]} :
               line' = ReplaceAt(Encode(f), i, b)
          \/ kind = "stray" /\ \E b \in NoiseBytes :
               line' = InsertAt(Encode(f), i, b)
-----------------------------------------------------------------------------
(* One byte through _decode_packet.                                        *)

Takes(from, to) ==
  /\ line # <<>>
  /\ state = from
  /\ state' = to
  /\ line' = Tail(line)
  /\ UNCHANGED <<sent, fault>>

b0 == Head(line)

\* Mutant of Head1: the payload of the frame before is kept.
Head1KeepsPayload ==
  /\ Takes("HEAD1", IF b0 = HexAA THEN "HEAD2" ELSE "HEAD1")
  /\ IF b0 = HexAA
     THEN /\ length' = 0 /\ crc' = 0
          /\ recv_time' = Len(sent)
          /\ UNCHANGED <<payload, device_id, cmd, packets>>
     ELSE UNCHANGED <<fields, packets>>

Head1 ==
  /\ Takes("HEAD1", IF b0 = HexAA THEN "HEAD2" ELSE "HEAD1")
  /\ IF b0 = HexAA
     THEN /\ length' = 0 /\ crc' = 0 /\ payload' = <<>>
          /\ recv_time' = Len(sent)
          /\ UNCHANGED <<device_id, cmd, packets>>
     ELSE UNCHANGED <<fields, packets>>

\* Mutant of Head2: one 0xAA after another is taken for the header's first.
Head2KeepsLooking ==
  /\ Takes("HEAD2", IF b0 = Hex55 THEN "LEN1" ELSE IF b0 = HexAA THEN "HEAD2" ELSE "HEAD1")
  /\ UNCHANGED <<fields, packets>>

Head2 ==
  /\ Takes("HEAD2", IF b0 = Hex55 THEN "LEN1" ELSE "HEAD1")
  /\ UNCHANGED <<fields, packets>>

Len1 ==
  /\ Takes("LEN1", "LEN2")
  /\ length' = b0
  /\ UNCHANGED <<device_id, cmd, payload, crc, recv_time, packets>>

\* Mutant of Len2: the high byte is shifted too far.
Len2TooFar ==
  /\ Takes("LEN2", "DEVICE_ID")
  /\ length' = length + 65536 * b0
  /\ UNCHANGED <<device_id, cmd, payload, crc, recv_time, packets>>

Len2 ==
  /\ Takes("LEN2", "DEVICE_ID")
  /\ length' = length + 256 * b0
  /\ UNCHANGED <<device_id, cmd, payload, crc, recv_time, packets>>

DeviceId ==
  /\ Takes("DEVICE_ID", "CMD")
  /\ device_id' = b0
  /\ UNCHANGED <<length, cmd, payload, crc, recv_time, packets>>

Cmd ==
  /\ Takes("CMD", IF length = 3 THEN "CRC" ELSE "PAYLOAD")
  /\ cmd' = b0
  /\ UNCHANGED <<length, device_id, payload, crc, recv_time, packets>>

\* Mutant of Payload: enough is enough.
PayloadAtLeast ==
  /\ Takes("PAYLOAD", IF Len(payload) + 1 >= length - 3 THEN "CRC" ELSE "PAYLOAD")
  /\ payload' = Append(payload, b0)
  /\ UNCHANGED <<length, device_id, cmd, crc, recv_time, packets>>

Payload ==
  /\ Takes("PAYLOAD", IF Len(payload) + 1 = length - 3 THEN "CRC" ELSE "PAYLOAD")
  /\ payload' = Append(payload, b0)
  /\ UNCHANGED <<length, device_id, cmd, crc, recv_time, packets>>

CrcByte ==
  /\ Takes("CRC", "TAIL1")
  /\ crc' = b0
  /\ UNCHANGED <<length, device_id, cmd, payload, recv_time, packets>>

Tail1 ==
  /\ Takes("TAIL1", IF b0 = Hex55 THEN "TAIL2" ELSE "HEAD1")
  /\ UNCHANGED <<fields, packets>>

Packet == [n |-> recv_time, device_id |-> device_id, cmd |-> cmd, payload |-> payload]

\* Mutant of Tail2: the checksum is not looked at.
Tail2Unchecked ==
  /\ Takes("TAIL2", "HEAD1")
  /\ packets' = IF b0 = HexAA /\ cmd \notin Ignored THEN Append(packets, Packet) ELSE packets
  /\ UNCHANGED fields

Tail2 ==
  /\ Takes("TAIL2", "HEAD1")
  /\ packets' = IF b0 = HexAA /\ crc = Crc(cmd, device_id, payload) /\ cmd \notin Ignored
                THEN Append(packets, Packet) ELSE packets
  /\ UNCHANGED fields

Decode ==
  \/ Head1 \/ Head2 \/ Len1 \/ Len2 \/ DeviceId \/ Cmd \/ Payload
  \/ CrcByte \/ Tail1 \/ Tail2

Hears == heard' = IF packets' = packets THEN Append(heard, b0) ELSE <<>>

DecoderNext ==
  \/ \E f \in Frames : SendWhole(f) \/ SendFaulty(f)
  \/ Decode /\ Hears

DecoderSpec == Init /\ [][DecoderNext]_decoderVars
-----------------------------------------------------------------------------
States == {"HEAD1", "HEAD2", "LEN1", "LEN2", "DEVICE_ID", "CMD", "PAYLOAD",
           "CRC", "TAIL1", "TAIL2"}

TypeOK ==
  /\ sent \in Seq(Frames)
  /\ line \in Seq(Byte)
  /\ fault \in [kind: FaultKinds \cup {"none"}, n: Nat, at: Nat]
  /\ state \in States
  /\ length \in Word
  /\ device_id \in Byte /\ cmd \in Byte /\ crc \in Byte
  /\ payload \in Seq(Byte)
  /\ recv_time \in Nat
  /\ heard \in Seq(Byte)

(* What is queued was sent, as it was sent, once and in order.  A length   *)
(* that was spoiled can join two frames to a third, if their sums fit, so  *)
(* that this holds for any frames only while the length is as it was sent. *)
Sent(p) == /\ p.n \in DOMAIN sent
           /\ p.device_id = sent[p.n].device_id
           /\ p.cmd = sent[p.n].cmd
           /\ p.payload = sent[p.n].payload

PacketsWereSent ==
  /\ \A i \in DOMAIN packets : Sent(packets[i])
  /\ \A i, j \in DOMAIN packets : i < j => packets[i].n < packets[j].n

Due == {n \in DOMAIN sent : sent[n].cmd \notin Ignored}
Came == {packets[i].n : i \in DOMAIN packets}

(* A frame that comes whole is queued, and a spoiled byte after the length *)
(* costs its own frame only, unless it is the first of the tail.           *)
InBody == LET n == Len(sent[fault.n].payload)
          IN  fault.kind = "spoiled" /\ fault.at \in (5..n + 7) \cup {n + 9}

Mild == fault = NoFault \/ InBody

OthersCome ==
  line = <<>> /\ Mild =>
    /\ Due \ {fault.n} \subseteq Came
    /\ state = "HEAD1"

(* With no more than that wrong the decoder, the UART and the frames are a *)
(* line of packets: the latest frame is on its way while bytes of it are,  *)
(* unless it is one to be ignored or was spoiled.                          *)
PacketOf(n, f) == [n |-> n, device_id |-> f.device_id, cmd |-> f.cmd, payload |-> f.payload]

OnTheLine ==
  IF line # <<>> /\ Len(sent) \in Due /\ fault.n # Len(sent)
  THEN <<PacketOf(Len(sent), Last(sent))>>
  ELSE <<>>

Line == INSTANCE ChainLine WITH
          Packets <- {PacketOf(n, f) : n \in 1..MaxFrames, f \in Frames},
          line <- OnTheLine,
          arrived <- packets

ImplementsLine ==
  [][Mild' => Line!LineNext \/ UNCHANGED <<OnTheLine, packets>>]_decoderVars

(* Whatever comes, what is queued stood on the line as a frame, byte for   *)
(* byte, with its header, its length and its sum, and in a part of the     *)
(* line of its own.                                                        *)
QueuesWhatItHeard ==
  [][packets' # packets
       => LET p == Last(packets')
          IN  /\ packets' = Append(packets, p)
              /\ IsSuffix(Encode(p), Append(heard, b0))]_decoderVars

(* A length below three is never reached: the decoder takes all that still *)
(* comes as payload, and no packet is queued again.                        *)
Endless == state = "PAYLOAD" /\ length - 3 <= Len(payload)

EndlessForEver == [][Endless => Endless' /\ packets' = packets]_decoderVars

(* Nor does the decoder find a header again once it has taken the last     *)
(* byte of a frame for the first of a header, as long as whole frames come *)
(* with no such byte inside: the real header is spent on leaving HEAD2,    *)
(* and the frame's last byte leads back to it.  The comments in the code   *)
(* say of the two states that they look for the header.                    *)
Plain(f) == \A i \in 2..Len(Encode(f)) - 1 : Encode(f)[i] # HexAA

OutOfStep ==
  IF line = <<>> THEN state = "HEAD2"
  ELSE LET e == Encode(Last(sent))
       IN  /\ Plain(Last(sent))
           /\ Len(line) <= Len(e)
           /\ \A i \in 1..Len(line) : line[i] = e[Len(e) - Len(line) + i]
           /\ state = IF Len(line) = Len(e) THEN "HEAD2" ELSE "HEAD1"

OutOfStepStays ==
  [][OutOfStep /\ fault # NoFault
       => /\ packets' = packets
          /\ Plain(Last(sent')) => OutOfStep']_decoderVars
=============================================================================
