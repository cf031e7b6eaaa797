------------------------ MODULE ChainDecoder_proofs ------------------------
(***************************************************************************)
(* The decoder of the chain bus for every set of frames up to the largest  *)
(* the length field can count, any noise and any number of frames: it      *)
(* queues every frame that comes whole, also after one that was spoiled in *)
(* its body, it queues nothing the line did not spell, with the line it    *)
(* implements ChainLine, and the two states it never leaves are what they  *)
(* seem.                                                                   *)
(***************************************************************************)
EXTENDS ChainDecoder, SequenceTheorems, WellFoundedInduction, TLAPS

(* The two bytes of the length field.                                      *)
LEMMA LengthBytes ==
  ASSUME NEW m \in Word
  PROVE  /\ m % 256 \in Byte /\ m \div 256 \in Byte
         /\ (m % 256) + 256 * (m \div 256) = m
  BY DEF Byte, Word

(* Induction: from the order of the numbers being well-founded.            *)
LEMMA NatInd ==
  ASSUME NEW S \in SUBSET Nat, 0 \in S, \A n \in S : n + 1 \in S
  PROVE  S = Nat
<1> SUFFICES ASSUME Nat \ S # {} PROVE FALSE
  OBVIOUS
<1>1. PICK x \in Nat \ S : \A y \in Nat \ S : ~(<<y, x>> \in OpToRel(<, Nat))
  BY NatLessThanWellFounded, WFMin
<1>2. \A y \in Nat \ S : ~(y < x)
  BY <1>1 DEF OpToRel
<1>3. x # 0 /\ x - 1 \in Nat
  OBVIOUS
<1>4. x - 1 \in S
  BY <1>2, <1>3
<1> QED BY <1>3, <1>4

(* The sum of a payload is a number: sums up to each byte exist, by        *)
(* induction, so the recursion has a solution, and by induction again each *)
(* of its values is a number.                                              *)
SumsTo(n, bytes, g) == g[0] = 0 /\ \A i \in 1..n : g[i] = g[i - 1] + bytes[i]

LEMMA SumsExist ==
  ASSUME NEW bytes \in Seq(Byte)
  PROVE  \E g \in [0..Len(bytes) -> Nat] : SumsTo(Len(bytes), bytes, g)
<1> DEFINE S(n, g) == SumsTo(n, bytes, g)
           N == {n \in Nat : n <= Len(bytes) => \E g \in [0..n -> Nat] : S(n, g)}
<1>1. Len(bytes) \in Nat /\ \A i \in 1..Len(bytes) : bytes[i] \in Nat
  BY LenProperties, ElementOfSeq DEF Byte
<1>2. 0 \in N
  <2> DEFINE g == [i \in 0..0 |-> 0]
  <2>1. g \in [0..0 -> Nat] /\ S(0, g)
    BY DEF SumsTo
  <2> QED BY <2>1
<1>3. ASSUME NEW n \in N PROVE n + 1 \in N
  <2> SUFFICES ASSUME n + 1 <= Len(bytes) PROVE \E g \in [0..(n + 1) -> Nat] : S(n + 1, g)
    <3>1. n + 1 \in Nat
      OBVIOUS
    <3> QED BY <3>1
  <2>0. n \in Nat
    OBVIOUS
  <2>1. n <= Len(bytes) /\ bytes[n + 1] \in Nat
    BY <1>1, <2>0
  <2>2. PICK g \in [0..n -> Nat] : S(n, g)
    BY <2>0, <2>1
  <2> DEFINE h == [i \in 0..(n + 1) |-> IF i = n + 1 THEN g[n] + bytes[n + 1] ELSE g[i]]
  <2>3. h \in [0..(n + 1) -> Nat]
    BY <2>0, <2>1, <2>2
  <2>4. h[n + 1] = g[n] + bytes[n + 1] /\ \A i \in 0..n : h[i] = g[i]
    BY <2>0, <2>1
  <2> HIDE DEF h
  <2>5. S(n + 1, h)
    <3>1. ASSUME NEW i \in 1..(n + 1) PROVE h[i] = h[i - 1] + bytes[i]
      <4>1. CASE i = n + 1
        BY <2>0, <2>4, <4>1
      <4>2. CASE i # n + 1
        <5>1. i \in 1..n /\ i - 1 \in 0..n /\ i \in 0..n
          BY <2>0, <4>2
        <5> QED BY <2>2, <2>4, <5>1 DEF SumsTo
      <4> QED BY <4>1, <4>2
    <3>2. h[0] = 0
      BY <2>0, <2>2, <2>4 DEF SumsTo
    <3> QED BY <3>1, <3>2 DEF SumsTo
  <2> QED BY <2>3, <2>5
<1> HIDE DEF S
<1>4. N = Nat
  <2>1. N \in SUBSET Nat
    OBVIOUS
  <2> HIDE DEF N
  <2> QED BY <1>2, <1>3, <2>1, NatInd
<1>5. Len(bytes) \in N
  BY <1>1, <1>4
<1> QED BY <1>5 DEF S

LEMMA TotalSums ==
  ASSUME NEW bytes \in Seq(Byte)
  PROVE  \E g \in [0..Len(bytes) -> Nat] :
           SumsTo(Len(bytes), bytes, g) /\ Total(bytes) = g[Len(bytes)]
<1> DEFINE IsUpTo(f) == f = [i \in 0..Len(bytes) |-> IF i = 0 THEN 0 ELSE f[i - 1] + bytes[i]]
           upTo == CHOOSE f : IsUpTo(f)
           N == {n \in Nat : n <= Len(bytes) => upTo[n] \in Nat}
<1>1. Len(bytes) \in Nat /\ \A i \in 1..Len(bytes) : bytes[i] \in Nat
  BY LenProperties, ElementOfSeq DEF Byte
<1>2. Total(bytes) = upTo[Len(bytes)]
  BY DEF Total
<1>3. \E f : IsUpTo(f)
  <2>1. PICK g \in [0..Len(bytes) -> Nat] : SumsTo(Len(bytes), bytes, g)
    BY SumsExist
  <2>2. ASSUME NEW i \in 0..Len(bytes)
        PROVE  g[i] = IF i = 0 THEN 0 ELSE g[i - 1] + bytes[i]
    BY <1>1, <2>1 DEF SumsTo
  <2>3. IsUpTo(g)
    BY <2>1, <2>2
  <2> QED BY <2>3
<1>4. IsUpTo(upTo)
  BY <1>3
<1> HIDE DEF upTo
<1>5. \A i \in 0..Len(bytes) : upTo[i] = IF i = 0 THEN 0 ELSE upTo[i - 1] + bytes[i]
  BY <1>4
<1>6. 0 \in N
  BY <1>1, <1>5
<1>7. ASSUME NEW n \in N PROVE n + 1 \in N
  <2>1. n \in Nat /\ (n <= Len(bytes) => upTo[n] \in Nat)
    OBVIOUS
  <2>2. ASSUME n + 1 <= Len(bytes) PROVE upTo[n + 1] \in Nat
    <3>1. upTo[n] \in Nat /\ bytes[n + 1] \in Nat /\ n + 1 \in 0..Len(bytes)
      BY <1>1, <2>1, <2>2
    <3>2. upTo[n + 1] = upTo[n] + bytes[n + 1]
      BY <1>5, <2>1, <3>1
    <3> QED BY <3>1, <3>2
  <2> QED BY <2>1, <2>2
<1>8. N = Nat
  <2>1. N \in SUBSET Nat
    OBVIOUS
  <2> HIDE DEF N
  <2> QED BY <1>6, <1>7, <2>1, NatInd
<1>9. \A i \in 0..Len(bytes) : upTo[i] \in Nat
  BY <1>1, <1>8
<1>10. upTo \in [0..Len(bytes) -> Nat]
  BY <1>4, <1>9
<1>11. SumsTo(Len(bytes), bytes, upTo)
  BY <1>1, <1>5 DEF SumsTo
<1> QED BY <1>2, <1>10, <1>11

LEMMA TotalType ==
  ASSUME NEW bytes \in Seq(Byte)
  PROVE  Total(bytes) \in Nat
<1>1. Len(bytes) \in 0..Len(bytes)
  BY LenProperties
<1> QED BY <1>1, TotalSums

(* The same added to equal sums, and an added byte put in another order.   *)
LEMMA AddedToBoth ==
  ASSUME NEW p \in Nat, NEW q \in Nat, NEW r \in Nat, NEW x \in Nat, NEW y \in Nat,
         p + x = q + y
  PROVE  (p + r) + x = (q + r) + y
  OBVIOUS

LEMMA SwapAdded ==
  ASSUME NEW p, NEW q, NEW r \in Nat, NEW x \in Nat, NEW y \in Nat,
         p = r + x, q = r + y
  PROVE  p + y = q + x
  OBVIOUS

(* Another byte at one place changes the sum by the difference.            *)
LEMMA TotalReplaced ==
  ASSUME NEW bytes \in Seq(Byte), NEW at \in 1..Len(bytes), NEW c \in Byte
  PROVE  Total([bytes EXCEPT ![at] = c]) + bytes[at] = Total(bytes) + c
<1> DEFINE spoilt == [bytes EXCEPT ![at] = c]
           m == Len(bytes)
<1>1. /\ spoilt \in Seq(Byte) /\ Len(spoilt) = m /\ m \in Nat
      /\ spoilt[at] = c /\ bytes[at] \in Nat /\ c \in Nat
      /\ \A i \in 1..m : bytes[i] \in Nat /\ (i # at => spoilt[i] = bytes[i])
  BY LenProperties, ElementOfSeq DEF Byte
<1> HIDE DEF spoilt, m
<1>2. PICK g \in [0..m -> Nat] : SumsTo(m, bytes, g) /\ Total(bytes) = g[m]
  BY TotalSums DEF m
<1>3. PICK h \in [0..m -> Nat] : SumsTo(m, spoilt, h) /\ Total(spoilt) = h[m]
  BY <1>1, TotalSums
<1> DEFINE Differ(i) == IF i < at THEN h[i] = g[i] ELSE h[i] + bytes[at] = g[i] + c
           N == {i \in Nat : i <= m => Differ(i)}
<1>4. at \in 1..m
  BY DEF m
<1>5. 0 \in N
  BY <1>2, <1>3, <1>4 DEF SumsTo
<1>6. ASSUME NEW i \in N PROVE i + 1 \in N
  <2>1. i \in Nat /\ (i <= m => Differ(i))
    OBVIOUS
  <2>2. ASSUME i + 1 <= m PROVE Differ(i + 1)
    <3>1. i + 1 \in 1..m /\ i \in 0..m /\ Differ(i) /\ (i + 1) - 1 = i
      BY <1>1, <2>1, <2>2
    <3>2. g[i + 1] = g[i] + bytes[i + 1] /\ h[i + 1] = h[i] + spoilt[i + 1]
      BY <1>2, <1>3, <3>1 DEF SumsTo
    <3>3. /\ g[i] \in Nat /\ h[i] \in Nat /\ bytes[i + 1] \in Nat
          /\ i + 1 # at => spoilt[i + 1] = bytes[i + 1]
      BY <1>1, <1>2, <1>3, <3>1
    <3>4. CASE i + 1 < at
      BY <1>1, <2>1, <3>1, <3>2, <3>3, <3>4
    <3>5. CASE i + 1 = at
      <4>1. i < at /\ ~(i + 1 < at)
        BY <2>1, <3>5
      <4>2. h[i] = g[i] /\ g[i + 1] = g[i] + bytes[at] /\ h[i + 1] = h[i] + c
        BY <1>1, <3>1, <3>2, <3>5, <4>1
      <4>3. h[i + 1] + bytes[at] = g[i + 1] + c
        <5> DEFINE p == h[i + 1]
                   q == g[i + 1]
                   r == g[i]
                   x == bytes[at]
        <5>1. r \in Nat /\ x \in Nat /\ c \in Nat /\ p = r + c /\ q = r + x
          BY <1>1, <3>3, <4>2
        <5> HIDE DEF p, q, r, x
        <5>2. p + x = q + c
          BY <5>1, SwapAdded
        <5> QED BY <5>2 DEF p, q, x
      <4> QED BY <4>1, <4>3
    <3>6. CASE i + 1 > at
      <4>1. ~(i < at) /\ ~(i + 1 < at) /\ i + 1 # at
        BY <1>4, <2>1, <3>6
      <4>2. /\ h[i] + bytes[at] = g[i] + c
            /\ g[i + 1] = g[i] + bytes[i + 1] /\ h[i + 1] = h[i] + bytes[i + 1]
        BY <3>1, <3>2, <3>3, <4>1
      <4>3. (h[i] + bytes[i + 1]) + bytes[at] = (g[i] + bytes[i + 1]) + c
        <5> DEFINE p == h[i]
                   q == g[i]
                   r == bytes[i + 1]
                   x == bytes[at]
        <5>1. /\ p \in Nat /\ q \in Nat /\ r \in Nat /\ x \in Nat /\ c \in Nat
              /\ p + x = q + c
          BY <1>1, <3>3, <4>2
        <5> HIDE DEF p, q, r, x
        <5>2. (p + r) + x = (q + r) + c
          BY <5>1, AddedToBoth
        <5> QED BY <5>2 DEF p, q, r, x
      <4>4. h[i + 1] + bytes[at] = g[i + 1] + c
        BY <4>2, <4>3
      <4> QED BY <4>1, <4>4
    <3> QED BY <1>4, <2>1, <3>4, <3>5, <3>6
  <2> QED BY <2>1, <2>2
<1>7. N = Nat
  <2>1. N \in SUBSET Nat
    OBVIOUS
  <2> HIDE DEF N
  <2> QED BY <1>5, <1>6, <2>1, NatInd
<1>8. Differ(m)
  <2>1. m \in Nat
    BY <1>1
  <2>2. m \in {i \in Nat : i <= m => Differ(i)}
    BY <1>7, <2>1
  <2> HIDE DEF Differ
  <2>3. m <= m
    BY <2>1
  <2> QED BY <2>2, <2>3
<1> QED BY <1>1, <1>2, <1>3, <1>4, <1>8 DEF spoilt

(* Sums of the same with different bytes do not have the same checksum.    *)
LEMMA ChecksumTells ==
  ASSUME NEW a \in Byte, NEW b \in Byte, a # b, NEW t \in Nat
  PROVE  (a + t) % 256 # (b + t) % 256
  BY DEF Byte

LEMMA SameRestDiffers ==
  ASSUME NEW a \in Byte, NEW b \in Byte, a # b, NEW d \in Nat, NEW t \in Nat, NEW u \in Nat,
         u + a = t + b
  PROVE  (d + t) % 256 # (d + u) % 256
<1> DEFINE x == d + t
           y == d + u
<1>1. x \in Nat /\ y \in Nat /\ y + a = x + b /\ a \in 0..255 /\ b \in 0..255
  BY DEF Byte
<1> HIDE DEF x, y
<1>2. SUFFICES ASSUME x % 256 = y % 256 PROVE FALSE
  BY DEF x, y
<1>3. /\ x = 256 * (x \div 256) + (x % 256) /\ x \div 256 \in Int
      /\ y = 256 * (y \div 256) + (y % 256) /\ y \div 256 \in Int
      /\ x % 256 \in Int
  BY <1>1
<1> DEFINE s == x \div 256
           r == y \div 256
           left == x % 256
<1>4. s \in Int /\ r \in Int /\ left \in Int /\ x = 256 * s + left /\ y = 256 * r + left
  BY <1>2, <1>3
<1> HIDE DEF s, r, left
<1>5. 256 * (s - r) = a - b
  BY <1>1, <1>4
<1> QED BY <1>1, <1>4, <1>5

LEMMA CrcType ==
  ASSUME NEW f \in Frames
  PROVE  Crc(f.device_id, f.cmd, f.payload) \in Byte
<1> DEFINE t == Total(f.payload)
<1>1. t \in Nat /\ f.cmd \in Nat /\ f.device_id \in Nat
  BY TotalType, FramesAssumption DEF Byte
<1> HIDE DEF t
<1>2. (f.cmd + f.device_id + t) % 256 \in Byte
  BY <1>1 DEF Byte
<1> QED BY <1>2 DEF Crc, t

(* What is where in a frame.                                               *)
LEMMA EncodeFacts ==
  ASSUME NEW f \in Frames, NEW n, n = Len(f.payload)
  PROVE  /\ Encode(f) \in Seq(Byte) /\ n \in Nat /\ n + 3 \in Word /\ Len(Encode(f)) = n + 9
         /\ f.device_id \in Byte /\ f.cmd \in Byte /\ f.payload \in Seq(Byte)
         /\ Encode(f)[1] = HexAA /\ Encode(f)[2] = Hex55
         /\ Encode(f)[3] = (n + 3) % 256 /\ Encode(f)[4] = (n + 3) \div 256
         /\ Encode(f)[5] = f.device_id /\ Encode(f)[6] = f.cmd
         /\ \A i \in 1..n : Encode(f)[6 + i] = f.payload[i]
         /\ Encode(f)[n + 7] = Crc(f.device_id, f.cmd, f.payload)
         /\ Encode(f)[n + 8] = Hex55 /\ Encode(f)[n + 9] = HexAA
<1> DEFINE lo == (n + 3) % 256
           hi == (n + 3) \div 256
           start == <<HexAA, Hex55, lo, hi, f.device_id, f.cmd>>
           crcByte == Crc(f.device_id, f.cmd, f.payload)
           end == <<crcByte, Hex55, HexAA>>
           front == start \o f.payload
<1>1. /\ f.device_id \in Byte /\ f.cmd \in Byte /\ f.payload \in Seq(Byte)
      /\ n \in Nat /\ n + 3 \in Word
  BY FramesAssumption
<1>2. crcByte \in Byte
  BY CrcType
<1>3. HexAA \in Byte /\ Hex55 \in Byte
  BY DEF HexAA, Hex55, Byte
<1>4. lo \in Byte /\ hi \in Byte
  <2>1. n + 3 \in Word
    BY <1>1
  <2> QED BY <2>1, LengthBytes
<1>5. Encode(f) = front \o end
  BY DEF Encode
<1> HIDE DEF lo, hi, crcByte
<1>6. /\ start \in Seq(Byte) /\ Len(start) = 6
      /\ start[1] = HexAA /\ start[2] = Hex55 /\ start[3] = lo
      /\ start[4] = hi /\ start[5] = f.device_id /\ start[6] = f.cmd
  BY <1>1, <1>3, <1>4
<1>7. /\ end \in Seq(Byte) /\ Len(end) = 3
      /\ end[1] = crcByte /\ end[2] = Hex55 /\ end[3] = HexAA
  BY <1>2, <1>3
<1> HIDE DEF start, end
<1>8. /\ front \in Seq(Byte) /\ Len(front) = 6 + n
      /\ \A i \in 1..6 + n : front[i] = IF i <= 6 THEN start[i] ELSE f.payload[i - 6]
  <2>1. /\ start \o f.payload \in Seq(Byte)
        /\ Len(start \o f.payload) = Len(start) + Len(f.payload)
        /\ \A i \in 1..Len(start) + Len(f.payload) :
              (start \o f.payload)[i] = IF i <= Len(start) THEN start[i]
                                                          ELSE f.payload[i - Len(start)]
    BY <1>1, <1>6, ConcatProperties
  <2> QED BY <1>6, <2>1
<1> HIDE DEF front
<1>9. /\ Encode(f) \in Seq(Byte) /\ Len(Encode(f)) = n + 9
      /\ \A i \in 1..n + 9 : Encode(f)[i] = IF i <= 6 + n THEN front[i] ELSE end[i - (6 + n)]
  <2>1. /\ front \o end \in Seq(Byte)
        /\ Len(front \o end) = Len(front) + Len(end)
        /\ \A i \in 1..Len(front) + Len(end) :
              (front \o end)[i] = IF i <= Len(front) THEN front[i] ELSE end[i - Len(front)]
    BY <1>7, <1>8, ConcatProperties
  <2>2. Len(front) + Len(end) = n + 9
    BY <1>1, <1>7, <1>8
  <2> QED BY <1>5, <1>8, <2>1, <2>2
<1>10. \A i \in 1..6 : Encode(f)[i] = start[i]
  <2> TAKE i \in 1..6
  <2>1. i \in 1..n + 9 /\ i <= 6 + n /\ i \in 1..6 + n /\ i <= 6
    BY <1>1
  <2>2. Encode(f)[i] = front[i]
    BY <1>9, <2>1
  <2>3. front[i] = start[i]
    BY <1>8, <2>1
  <2> QED BY <2>2, <2>3
<1>11. \A i \in 1..n : Encode(f)[6 + i] = f.payload[i]
  <2> TAKE i \in 1..n
  <2>1. 6 + i \in 1..n + 9 /\ 6 + i <= 6 + n /\ 6 + i \in 1..6 + n /\ ~(6 + i <= 6)
        /\ (6 + i) - 6 = i
    BY <1>1
  <2> QED BY <1>8, <1>9, <2>1
<1>12. /\ Encode(f)[n + 7] = end[1] /\ Encode(f)[n + 8] = end[2] /\ Encode(f)[n + 9] = end[3]
  <2>1. /\ n + 7 \in 1..n + 9 /\ ~(n + 7 <= 6 + n) /\ (n + 7) - (6 + n) = 1
        /\ n + 8 \in 1..n + 9 /\ ~(n + 8 <= 6 + n) /\ (n + 8) - (6 + n) = 2
        /\ n + 9 \in 1..n + 9 /\ ~(n + 9 <= 6 + n) /\ (n + 9) - (6 + n) = 3
    BY <1>1
  <2> QED BY <1>9, <2>1
<1>13. 1 \in 1..6 /\ 2 \in 1..6 /\ 3 \in 1..6 /\ 4 \in 1..6 /\ 5 \in 1..6 /\ 6 \in 1..6
  OBVIOUS
<1> QED BY <1>1, <1>6, <1>7, <1>9, <1>10, <1>11, <1>12, <1>13 DEF crcByte, lo, hi

LEMMA EncodeType ==
  ASSUME NEW f \in Frames
  PROVE  /\ Encode(f) \in Seq(Byte) /\ Len(Encode(f)) \in Nat /\ Len(Encode(f)) >= 9
         /\ Encode(f)[1] = HexAA /\ Encode(f)[Len(Encode(f))] = HexAA
<1> DEFINE n == Len(f.payload)
<1>1. n = Len(f.payload)
  OBVIOUS
<1> HIDE DEF n
<1>2. /\ Encode(f) \in Seq(Byte) /\ n \in Nat /\ Len(Encode(f)) = n + 9
      /\ Encode(f)[1] = HexAA /\ Encode(f)[n + 9] = HexAA
  BY <1>1, EncodeFacts, ZenonT(60)
<1> QED BY <1>2
-----------------------------------------------------------------------------
(* The types, with what keeps them: when the second byte of the length     *)
(* comes, the length is the first one; a frame is on the line only after   *)
(* it was sent, and a fault belongs to a frame that was sent.              *)
Rec == [n: Nat, device_id: Byte, cmd: Byte, payload: Seq(Byte)]

TypeInv ==
  /\ TypeOK
  /\ state = "LEN2" => length \in Byte
  /\ line # <<>> => sent # <<>>
  /\ packets \in Seq(Rec)
  /\ fault = NoFault \/ fault.n \in 1..Len(sent)

LEMMA InitType == Init => TypeInv
<1> SUFFICES ASSUME Init PROVE TypeInv
  OBVIOUS
<1>1. sent \in Seq(Frames) /\ line \in Seq(Byte) /\ payload \in Seq(Byte) /\ packets \in Seq(Rec)
  BY DEF Init
<1>2. fault \in [kind: FaultKinds \cup {"none"}, n: Nat, at: Nat]
  BY DEF Init, NoFault
<1>3. state \in States /\ state # "LEN2" /\ recv_time \in Nat
  BY DEF Init, States
<1>4. length \in Word /\ device_id \in Byte /\ cmd \in Byte /\ crc \in Byte
  BY DEF Init, Byte, Word
<1>5. line = <<>> /\ fault = NoFault /\ heard \in Seq(Byte)
  BY DEF Init
<1> QED BY <1>1, <1>2, <1>3, <1>4, <1>5 DEF TypeInv, TypeOK

(* A byte that is taken leaves a shorter line of bytes.                    *)
LEMMA TakesType ==
  ASSUME TypeInv, NEW from, NEW to \in States, Takes(from, to)
  PROVE  /\ b0 \in Byte /\ b0 = line[1]
         /\ line' \in Seq(Byte) /\ Len(line') = Len(line) - 1
         /\ \A i \in 1..Len(line') : line'[i] = line[i + 1]
         /\ Len(line) >= 1
         /\ state = from /\ state' = to /\ state' \in States
         /\ sent' = sent /\ fault' = fault /\ sent # <<>>
<1>1. line \in Seq(Byte) /\ line # <<>>
  <2>1. line \in Seq(Byte)
    BY DEF TypeInv, TypeOK
  <2> QED BY <2>1 DEF Takes
<1>2. Head(line) \in Byte /\ Tail(line) \in Seq(Byte) /\ Len(Tail(line)) = Len(line) - 1
      /\ \A i \in 1..Len(Tail(line)) : Tail(line)[i] = line[i + 1]
  BY <1>1, HeadTailProperties
<1>3. Head(line) = line[1] /\ Len(line) >= 1
  BY <1>1
<1> QED BY <1>1, <1>2, <1>3 DEF Takes, b0, TypeInv

LEMMA FaultyLine ==
  ASSUME NEW f \in Frames, NEW i \in 1..Len(Encode(f)), NEW b \in Byte
  PROVE  /\ RemoveAt(Encode(f), i) \in Seq(Byte)
         /\ SubSeq(Encode(f), 1, i - 1) \in Seq(Byte)
         /\ ReplaceAt(Encode(f), i, b) \in Seq(Byte)
         /\ InsertAt(Encode(f), i, b) \in Seq(Byte)
<1> DEFINE e == Encode(f)
<1>1. e \in Seq(Byte) /\ Len(e) \in Nat
  BY EncodeType
<1>2. \A j \in 1..Len(e) : e[j] \in Byte
  BY <1>1, ElementOfSeq
<1> HIDE DEF e
<1>3. /\ SubSeq(e, 1, i - 1) \in Seq(Byte)
      /\ SubSeq(e, i + 1, Len(e)) \in Seq(Byte)
      /\ SubSeq(e, i, Len(e)) \in Seq(Byte)
  BY <1>1, <1>2, SubSeqProperties DEF e
<1>4. RemoveAt(e, i) \in Seq(Byte)
  BY <1>3, ConcatProperties DEF RemoveAt
<1>5. ReplaceAt(e, i, b) \in Seq(Byte)
  BY <1>1, ExceptSeq DEF ReplaceAt, e
<1>6. InsertAt(e, i, b) \in Seq(Byte)
  <2>1. <<b>> \in Seq(Byte)
    OBVIOUS
  <2>2. SubSeq(e, 1, i - 1) \o <<b>> \in Seq(Byte)
    BY <1>3, <2>1, ConcatProperties
  <2> QED BY <1>3, <2>2, ConcatProperties DEF InsertAt
<1> QED BY <1>3, <1>4, <1>5, <1>6 DEF e

LEMMA SendType ==
  ASSUME TypeInv, NEW f \in Frames, Sends(f)
  PROVE  /\ sent' \in Seq(Frames) /\ Len(sent') = Len(sent) + 1 /\ sent' # <<>>
         /\ \A i \in 1..Len(sent) : sent'[i] = sent[i]
         /\ sent'[Len(sent')] = f
         /\ Len(sent) \in Nat
         /\ state' = state /\ length' = length /\ device_id' = device_id /\ cmd' = cmd
         /\ payload' = payload /\ crc' = crc /\ recv_time' = recv_time /\ packets' = packets
         /\ heard' = heard
<1>1. sent \in Seq(Frames)
  BY DEF TypeInv, TypeOK
<1>2. sent' = Append(sent, f)
  BY DEF Sends
<1>3. UNCHANGED <<state, fields, packets, heard>>
  BY DEF Sends
<1> QED BY <1>1, <1>2, <1>3 DEF fields

LEMMA SendInv ==
  ASSUME TypeInv, NEW f \in Frames, SendWhole(f) \/ SendFaulty(f)
  PROVE  TypeInv'
<1>1. Sends(f)
  BY DEF SendWhole, SendFaulty
<1>2. /\ sent' \in Seq(Frames) /\ Len(sent') = Len(sent) + 1 /\ sent' # <<>>
      /\ Len(sent) \in Nat
      /\ state' = state /\ length' = length /\ device_id' = device_id /\ cmd' = cmd
      /\ payload' = payload /\ crc' = crc /\ recv_time' = recv_time /\ packets' = packets
      /\ heard' = heard
  BY <1>1, SendType
<1>3. /\ line' \in Seq(Byte)
      /\ fault' \in [kind: FaultKinds \cup {"none"}, n: Nat, at: Nat]
      /\ fault' = NoFault \/ fault'.n \in 1..Len(sent')
  <2>1. CASE SendWhole(f)
    <3>1. line' = Encode(f) /\ fault' = fault
      BY <2>1 DEF SendWhole
    <3>2. fault \in [kind: FaultKinds \cup {"none"}, n: Nat, at: Nat]
      BY DEF TypeInv, TypeOK
    <3>3. fault = NoFault \/ fault.n \in 1..Len(sent')
      BY <1>2 DEF TypeInv
    <3>4. Encode(f) \in Seq(Byte)
      BY EncodeType
    <3> QED BY <3>1, <3>2, <3>3, <3>4
  <2>2. CASE SendFaulty(f)
    <3>1. PICK i \in 1..Len(Encode(f)), kind \in FaultKinds :
            /\ fault' = [kind |-> kind, n |-> Len(sent'), at |-> i]
            /\ \/ line' = RemoveAt(Encode(f), i)
               \/ line' = SubSeq(Encode(f), 1, i - 1)
               \/ \E b \in NoiseBytes : line' = ReplaceAt(Encode(f), i, b)
               \/ \E b \in NoiseBytes : line' = InsertAt(Encode(f), i, b)
      BY <2>2 DEF SendFaulty
    <3>2. 0 \in Byte /\ \A b \in NoiseBytes : b \in Byte
      BY NoiseAssumption DEF Byte
    <3>3. line' \in Seq(Byte)
      BY <3>1, <3>2, FaultyLine
    <3>4. i \in Nat /\ Len(sent') \in Nat /\ Len(sent') \in 1..Len(sent')
      BY <1>2, EncodeType
    <3>5. fault' \in [kind: FaultKinds \cup {"none"}, n: Nat, at: Nat] /\ fault'.n = Len(sent')
      BY <3>1, <3>4
    <3> QED BY <3>3, <3>4, <3>5
  <2> QED BY <2>1, <2>2
<1> QED BY <1>2, <1>3 DEF TypeInv, TypeOK

LEMMA DecodeInv ==
  ASSUME TypeInv, Decode, Hears
  PROVE  TypeInv'
<1> DEFINE Rest == /\ device_id' \in Byte /\ cmd' \in Byte /\ crc' \in Byte
                   /\ payload' \in Seq(Byte) /\ recv_time' \in Nat
<1>1. /\ length \in Word /\ device_id \in Byte /\ cmd \in Byte /\ crc \in Byte
      /\ payload \in Seq(Byte) /\ recv_time \in Nat /\ packets \in Seq(Rec)
      /\ sent \in Seq(Frames) /\ Len(sent) \in Nat
      /\ fault \in [kind: FaultKinds \cup {"none"}, n: Nat, at: Nat]
      /\ fault = NoFault \/ fault.n \in 1..Len(sent)
      /\ state = "LEN2" => length \in Byte
      /\ heard \in Seq(Byte)
  BY DEF TypeInv, TypeOK
<1>2. Packet \in Rec
  BY <1>1 DEF Packet, Rec
<1>3. 0 \in Word /\ Byte \subseteq Word /\ 0 \in Byte
  BY DEF Byte, Word
<1>4. SUFFICES /\ \E from, to \in States : Takes(from, to)
               /\ Rest /\ length' \in Word /\ packets' \in Seq(Rec)
               /\ state' = "LEN2" => length' \in Byte
  <2>1. /\ b0 \in Byte /\ line' \in Seq(Byte) /\ state' \in States
        /\ sent' = sent /\ fault' = fault /\ sent # <<>>
    BY <1>4, TakesType
  <2>2. heard' \in Seq(Byte)
    BY <1>1, <2>1, AppendProperties DEF Hears
  <2> QED BY <1>1, <1>4, <2>1, <2>2 DEF TypeInv, TypeOK
<1>5. CASE Head1
  <2>1. Takes("HEAD1", IF b0 = HexAA THEN "HEAD2" ELSE "HEAD1")
    BY <1>5 DEF Head1
  <2>2. /\ length' \in Word /\ crc' \in Byte /\ payload' \in Seq(Byte) /\ recv_time' \in Nat
        /\ device_id' = device_id /\ cmd' = cmd /\ packets' = packets
    <3>1. CASE b0 = HexAA
      <4>1. /\ length' = 0 /\ crc' = 0 /\ payload' = <<>> /\ recv_time' = Len(sent)
            /\ UNCHANGED <<device_id, cmd, packets>>
        BY <1>5, <3>1 DEF Head1
      <4>2. <<>> \in Seq(Byte)
        OBVIOUS
      <4> QED BY <1>1, <1>3, <4>1, <4>2
    <3>2. CASE b0 # HexAA
      <4>1. UNCHANGED <<fields, packets>>
        BY <1>5, <3>2 DEF Head1
      <4> QED BY <1>1, <4>1 DEF fields
    <3> QED BY <3>1, <3>2
  <2> QED BY <1>1, <2>1, <2>2 DEF States, Takes
<1>6. CASE Head2 \/ Tail1
  <2>1. \E to \in {"HEAD1", "LEN1", "TAIL2"} : \E from \in States : Takes(from, to)
    BY <1>6 DEF Head2, Tail1, States
  <2>2. UNCHANGED <<fields, packets>>
    BY <1>6 DEF Head2, Tail1
  <2> QED BY <1>1, <2>1, <2>2 DEF fields, States, Takes
<1>7. CASE Len1
  <2>1. Takes("LEN1", "LEN2") /\ length' = b0
        /\ UNCHANGED <<device_id, cmd, payload, crc, recv_time, packets>>
    BY <1>7 DEF Len1
  <2>2. "LEN1" \in States /\ "LEN2" \in States
    BY DEF States
  <2>3. b0 \in Byte
    BY <2>1, <2>2, TakesType
  <2> QED BY <1>1, <1>3, <2>1, <2>2, <2>3
<1>8. CASE Len2
  <2>1. Takes("LEN2", "DEVICE_ID") /\ length' = length + 256 * b0
        /\ UNCHANGED <<device_id, cmd, payload, crc, recv_time, packets>>
    BY <1>8 DEF Len2
  <2>2. "LEN2" \in States /\ "DEVICE_ID" \in States
    BY DEF States
  <2>3. b0 \in Byte /\ state = "LEN2" /\ state' = "DEVICE_ID"
    BY <2>1, <2>2, TakesType
  <2>4. length' \in Word
    <3>1. \A lo, hi \in Byte : lo + 256 * hi \in Word
      BY DEF Byte, Word
    <3> QED BY <1>1, <2>1, <2>3, <3>1
  <2> QED BY <1>1, <2>1, <2>2, <2>3, <2>4
<1>9. CASE DeviceId \/ Cmd \/ CrcByte
  <2>1. \E to \in {"CMD", "CRC", "PAYLOAD", "TAIL1"} : \E from \in States : Takes(from, to)
    BY <1>9 DEF DeviceId, Cmd, CrcByte, States
  <2>2. b0 \in Byte /\ state' # "LEN2"
    <3>1. {"CMD", "CRC", "PAYLOAD", "TAIL1"} \subseteq States
      BY DEF States
    <3> QED BY <2>1, <3>1, TakesType
  <2>3. /\ length' = length /\ payload' = payload /\ recv_time' = recv_time /\ packets' = packets
        /\ device_id' \in {device_id, b0} /\ cmd' \in {cmd, b0} /\ crc' \in {crc, b0}
    BY <1>9 DEF DeviceId, Cmd, CrcByte
  <2> QED BY <1>1, <2>1, <2>2, <2>3 DEF States
<1>10. CASE Payload
  <2>1. \E to \in {"CRC", "PAYLOAD"} : Takes("PAYLOAD", to)
    BY <1>10 DEF Payload
  <2>2. b0 \in Byte /\ state' # "LEN2"
    <3>1. {"CRC", "PAYLOAD"} \subseteq States
      BY DEF States
    <3> QED BY <2>1, <3>1, TakesType
  <2>3. /\ payload' = Append(payload, b0)
        /\ UNCHANGED <<length, device_id, cmd, crc, recv_time, packets>>
    BY <1>10 DEF Payload
  <2> QED BY <1>1, <2>1, <2>2, <2>3 DEF States
<1>11. CASE Tail2
  <2>1. Takes("TAIL2", "HEAD1") /\ UNCHANGED fields
    BY <1>11 DEF Tail2
  <2>2. packets' = packets \/ packets' = Append(packets, Packet)
    BY <1>11 DEF Tail2
  <2>3. packets' \in Seq(Rec)
    <3>1. packets \in Seq(Rec) /\ Packet \in Rec
      BY <1>1, <1>2
    <3>2. Append(packets, Packet) \in Seq(Rec)
      BY <3>1, AppendProperties
    <3> QED BY <2>2, <3>1, <3>2
  <2> QED BY <1>1, <2>1, <2>3 DEF fields, States, Takes
<1> QED BY <1>5, <1>6, <1>7, <1>8, <1>9, <1>10, <1>11 DEF Decode

LEMMA NextType == TypeInv /\ [DecoderNext]_decoderVars => TypeInv'
<1> SUFFICES ASSUME TypeInv, [DecoderNext]_decoderVars PROVE TypeInv'
  OBVIOUS
<1>1. CASE \E f \in Frames : SendWhole(f) \/ SendFaulty(f)
  BY <1>1, SendInv
<1>2. CASE Decode /\ Hears
  BY <1>2, DecodeInv
<1>3. CASE UNCHANGED decoderVars
  BY <1>3 DEF decoderVars, fields, TypeInv, TypeOK
<1> QED BY <1>1, <1>2, <1>3 DEF DecoderNext

LEMMA AlwaysTyped == DecoderSpec => []TypeInv
<1> QED BY InitType, NextType, PTL DEF DecoderSpec

(* Every field of RecvData keeps its type: the length never outgrows its   *)
(* two bytes, whatever arrives.                                            *)
THEOREM TypeCorrect == DecoderSpec => []TypeOK
<1>1. TypeInv => TypeOK
  BY DEF TypeInv
<1> QED BY <1>1, AlwaysTyped, PTL
-----------------------------------------------------------------------------
(* A decoder in PAYLOAD that has as many bytes as the length asks for, or  *)
(* more, has missed the only moment its test for equality allows.          *)
THEOREM EndlessForEverCorrect == DecoderSpec => EndlessForEver
<1>1. ASSUME TypeInv, [DecoderNext]_decoderVars, Endless
      PROVE  Endless' /\ packets' = packets
  <2>1. length \in Nat /\ payload \in Seq(Byte) /\ state = "PAYLOAD" /\ length - 3 <= Len(payload)
    BY <1>1 DEF TypeInv, TypeOK, Word, Endless
  <2>2. CASE \E f \in Frames : SendWhole(f) \/ SendFaulty(f)
    <3>1. UNCHANGED <<state, fields, packets>>
      BY <2>2 DEF SendWhole, SendFaulty, Sends
    <3> QED BY <1>1, <3>1 DEF fields, Endless
  <2>3. CASE Decode
    <3>1. Payload
      BY <2>1, <2>3 DEF Decode, Takes, Head1, Head2, Len1, Len2, DeviceId, Cmd, CrcByte, Tail1, Tail2
    <3>2. /\ payload' = Append(payload, b0) /\ length' = length /\ packets' = packets
          /\ state' = IF Len(payload) + 1 = length - 3 THEN "CRC" ELSE "PAYLOAD"
      BY <3>1 DEF Payload, Takes
    <3>3. Len(payload') = Len(payload) + 1 /\ Len(payload) \in Nat
      BY <2>1, <3>2
    <3> QED BY <2>1, <3>2, <3>3 DEF Endless
  <2>4. CASE UNCHANGED decoderVars
    BY <1>1, <2>4 DEF decoderVars, fields, Endless
  <2> QED BY <1>1, <2>2, <2>3, <2>4 DEF DecoderNext
<1>2. TypeInv /\ [DecoderNext]_decoderVars
        => [Endless => Endless' /\ packets' = packets]_decoderVars
  BY <1>1
<1> QED BY <1>2, AlwaysTyped, PTL DEF DecoderSpec, EndlessForEver
-----------------------------------------------------------------------------
(* A whole frame goes out while the decoder waits for a second header      *)
(* byte.                                                                   *)
LEMMA OutOfStepSend ==
  ASSUME TypeInv, OutOfStep, NEW f \in Frames, SendWhole(f)
  PROVE  packets' = packets /\ (Plain(Last(sent')) => OutOfStep')
<1>1. Sends(f) /\ line' = Encode(f)
  BY DEF SendWhole
<1>2. sent'[Len(sent')] = f /\ state' = state /\ packets' = packets
  BY <1>1, SendType
<1>3. state = "HEAD2"
  BY <1>1 DEF Sends, OutOfStep
<1>4. Encode(f) \in Seq(Byte) /\ Len(Encode(f)) \in Nat /\ Len(Encode(f)) >= 9
  BY EncodeType
<1>5. Last(sent') = f
  BY <1>2 DEF Last
<1>6. line' # <<>> /\ Len(line') = Len(Encode(f))
  BY <1>1, <1>4
<1>7. ASSUME Plain(f) PROVE OutOfStep'
  <2>1. Plain(Last(sent'))
    BY <1>5, <1>7
  <2>2. \A i \in 1..Len(line') : line'[i] = Encode(f)[Len(Encode(f)) - Len(line') + i]
    BY <1>1, <1>4
  <2> QED BY <1>2, <1>3, <1>4, <1>5, <1>6, <2>1, <2>2 DEF OutOfStep
<1> QED BY <1>2, <1>5, <1>7

(* The bytes of a frame taken out of step: its first is spent on leaving   *)
(* HEAD2, those inside are passed over, its last leads to HEAD2 again.     *)
LEMMA OutOfStepTakes ==
  ASSUME TypeInv, OutOfStep, Decode
  PROVE  packets' = packets /\ OutOfStep'
<1>1. \E from, to \in States : Takes(from, to)
  BY DEF Decode, Head1, Head2, Len1, Len2, DeviceId, Cmd, Payload, CrcByte, Tail1, Tail2, States
<1>2. /\ b0 = line[1] /\ line \in Seq(Byte) /\ line' \in Seq(Byte) /\ Len(line') = Len(line) - 1
      /\ \A i \in 1..Len(line') : line'[i] = line[i + 1]
      /\ Len(line) >= 1 /\ sent' = sent /\ sent # <<>> /\ line # <<>>
  <2>1. line \in Seq(Byte)
    BY DEF TypeInv, TypeOK
  <2>2. line # <<>>
    BY <1>1 DEF Takes
  <2> QED BY <1>1, <2>1, <2>2, TakesType
<1>3. Last(sent) \in Frames
  <2>1. sent \in Seq(Frames)
    BY DEF TypeInv, TypeOK
  <2> QED BY <1>2, <2>1 DEF Last
<1> DEFINE f == Last(sent)
           e == Encode(f)
<1>4. e \in Seq(Byte) /\ Len(e) \in Nat /\ Len(e) >= 9 /\ e[1] = HexAA /\ e[Len(e)] = HexAA
  BY <1>3, EncodeType
<1>5. /\ Plain(f) /\ Len(line) <= Len(e)
      /\ \A i \in 1..Len(line) : line[i] = e[Len(e) - Len(line) + i]
      /\ state = IF Len(line) = Len(e) THEN "HEAD2" ELSE "HEAD1"
  BY <1>2 DEF OutOfStep
<1>6. \A i \in 2..Len(e) - 1 : e[i] # HexAA
  BY <1>5 DEF Plain
<1>7. Last(sent') = f
  BY <1>2
<1> HIDE DEF e, f
<1>8. b0 = e[Len(e) - Len(line) + 1]
  BY <1>2, <1>4, <1>5
<1>9. \A i \in 1..Len(line') : line'[i] = e[Len(e) - Len(line') + i]
  <2> TAKE i \in 1..Len(line')
  <2>1. i + 1 \in 1..Len(line) /\ Len(e) - Len(line) + (i + 1) = Len(e) - Len(line') + i
    BY <1>2, <1>4
  <2> QED BY <1>2, <1>5, <2>1
<1>10. CASE Len(line) = Len(e)
  <2>1. b0 = HexAA /\ state = "HEAD2"
    <3>1. Len(e) - Len(line) + 1 = 1
      BY <1>4, <1>10
    <3> QED BY <1>4, <1>5, <1>8, <1>10, <3>1
  <2>2. Head2
    BY <2>1 DEF Decode, Takes, Head1, Head2, Len1, Len2, DeviceId, Cmd, Payload, CrcByte, Tail1, Tail2
  <2>3. packets' = packets /\ state' = "HEAD1"
    BY <2>1, <2>2 DEF Head2, Takes, HexAA, Hex55
  <2>4. line' # <<>> /\ Len(line') <= Len(e) /\ Len(line') # Len(e)
    BY <1>2, <1>4, <1>10
  <2>5. OutOfStep'
    BY <1>5, <1>7, <1>9, <2>3, <2>4 DEF OutOfStep, e, f
  <2> QED BY <2>3, <2>5
<1>11. CASE Len(line) # Len(e)
  <2>1. state = "HEAD1"
    BY <1>5, <1>11
  <2>2. Head1
    BY <2>1 DEF Decode, Takes, Head1, Head2, Len1, Len2, DeviceId, Cmd, Payload, CrcByte, Tail1, Tail2
  <2>3. packets' = packets /\ state' = IF b0 = HexAA THEN "HEAD2" ELSE "HEAD1"
    BY <2>2 DEF Head1, Takes, fields
  <2>4. CASE Len(line) = 1
    <3>1. b0 = HexAA
      <4>1. Len(e) - Len(line) + 1 = Len(e)
        BY <1>4, <2>4
      <4> QED BY <1>4, <1>8, <4>1
    <3>2. line' = <<>>
      BY <1>2, <2>4
    <3> QED BY <2>3, <3>1, <3>2 DEF OutOfStep
  <2>5. CASE Len(line) # 1
    <3>1. b0 # HexAA
      <4>1. Len(e) - Len(line) + 1 \in 2..Len(e) - 1
        BY <1>2, <1>4, <1>5, <1>11, <2>5
      <4> QED BY <1>6, <1>8, <4>1
    <3>2. line' # <<>> /\ Len(line') <= Len(e) /\ Len(line') # Len(e)
      BY <1>2, <1>4, <1>5, <2>5
    <3>3. OutOfStep'
      BY <1>5, <1>7, <1>9, <2>3, <3>1, <3>2 DEF OutOfStep, e, f
    <3> QED BY <2>3, <3>3
  <2> QED BY <2>4, <2>5
<1> QED BY <1>10, <1>11

(* Once the decoder has taken the last byte of a frame for the first of a  *)
(* header, it queues nothing and stays out of step, for as long as whole   *)
(* frames without such a byte inside come.                                 *)
THEOREM OutOfStepStaysCorrect == DecoderSpec => OutOfStepStays
<1>1. ASSUME TypeInv, [DecoderNext]_decoderVars, OutOfStep, fault # NoFault
      PROVE  packets' = packets /\ (Plain(Last(sent')) => OutOfStep')
  <2>1. ASSUME NEW f \in Frames, SendWhole(f)
        PROVE  packets' = packets /\ (Plain(Last(sent')) => OutOfStep')
    BY <1>1, <2>1, OutOfStepSend
  <2>2. ASSUME NEW f \in Frames, SendFaulty(f) PROVE FALSE
    BY <1>1, <2>2 DEF SendFaulty
  <2>3. CASE Decode
    BY <1>1, <2>3, OutOfStepTakes
  <2>4. CASE UNCHANGED decoderVars
    BY <1>1, <2>4 DEF decoderVars, fields, OutOfStep
  <2> QED BY <1>1, <2>1, <2>2, <2>3, <2>4 DEF DecoderNext
<1>2. TypeInv /\ [DecoderNext]_decoderVars
        => [OutOfStep /\ fault # NoFault
              => packets' = packets /\ (Plain(Last(sent')) => OutOfStep')]_decoderVars
  BY <1>1
<1> QED BY <1>2, AlwaysTyped, PTL DEF DecoderSpec, OutOfStepStays
-----------------------------------------------------------------------------
(* Where the decoder is after k bytes of a frame with n bytes of payload.  *)
(* Whether the body was spoiled or not, the state and the lengths are      *)
(* those of the frame.                                                     *)
Lo(n) == (n + 3) % 256
Hi(n) == (n + 3) \div 256

Reached(k, n) ==
  /\ state = "HEAD1" => k = 0
  /\ state = "HEAD2" => k = 1
  /\ state = "LEN1" => k = 2
  /\ state = "LEN2" => k = 3 /\ length = Lo(n)
  /\ state = "DEVICE_ID" => k = 4
  /\ state = "CMD" => k = 5
  /\ state = "PAYLOAD" => k \in 6..n + 5 /\ Len(payload) = k - 6
  /\ state = "CRC" => k = n + 6
  /\ state = "TAIL1" => k = n + 7
  /\ state = "TAIL2" => k = n + 8
  /\ k >= 4 => length = n + 3
  /\ k \in 1..5 => payload = <<>>
  /\ k >= n + 6 => Len(payload) = n

(* The fields are those of the bytes that came.                            *)
Copied(k, n, came) ==
  /\ k >= 1 => recv_time = Len(sent)
  /\ k >= 5 => device_id = came[5]
  /\ k >= 6 => cmd = came[6]
  /\ \A j \in 1..Len(payload) : k >= 6 => payload[j] = came[6 + j]
  /\ k >= n + 7 => crc = came[n + 7]

(* The places of a byte that may be spoiled without more harm.             *)
Body(n) == (5..n + 7) \cup {n + 9}

(* A byte of a frame takes the decoder one place further, whether it is    *)
(* the frame's or a spoiled one of the body.                               *)
LEMMA ReachesNext ==
  ASSUME TypeInv, Decode, NEW n \in Nat, n + 3 \in Word, NEW k \in 0..n + 8, Reached(k, n),
         k = 0 => b0 = HexAA, k = 1 => b0 = Hex55, k = 2 => b0 = Lo(n), k = 3 => b0 = Hi(n),
         k = n + 7 => b0 = Hex55
  PROVE  /\ k < n + 8 => Reached(k + 1, n)' /\ packets' = packets
         /\ k = n + 8 => Tail2 /\ state' = "HEAD1"
<1>1. payload \in Seq(Byte) /\ length \in Nat /\ state \in States
  BY DEF TypeInv, TypeOK, Word
<1>2. CASE Head1
  <2>1. state = "HEAD1"
    BY <1>2 DEF Head1, Takes
  <2>2. k = 0 /\ b0 = HexAA
    BY <2>1 DEF Reached
  <2>3. state' = "HEAD2" /\ payload' = <<>> /\ packets' = packets
    BY <1>2, <2>2 DEF Head1, Takes
  <2>4. Reached(1, n)'
    BY <2>3 DEF Reached
  <2> QED BY <2>2, <2>3, <2>4
<1>3. CASE Head2
  <2>1. state = "HEAD2"
    BY <1>3 DEF Head2, Takes
  <2>2. k = 1 /\ b0 = Hex55 /\ payload = <<>>
    BY <2>1 DEF Reached
  <2>3. state' = "LEN1" /\ payload' = <<>> /\ packets' = packets
    BY <1>3, <2>2 DEF Head2, Takes, fields
  <2>4. Reached(2, n)'
    BY <2>3 DEF Reached
  <2> QED BY <2>2, <2>3, <2>4
<1>4. CASE Len1
  <2>1. state = "LEN1"
    BY <1>4 DEF Len1, Takes
  <2>2. k = 2 /\ b0 = Lo(n) /\ payload = <<>>
    BY <2>1 DEF Reached
  <2>3. state' = "LEN2" /\ payload' = <<>> /\ packets' = packets /\ length' = Lo(n)
    BY <1>4, <2>2 DEF Len1, Takes
  <2>4. Reached(3, n)'
    BY <2>3 DEF Reached
  <2> QED BY <2>2, <2>3, <2>4
<1>5. CASE Len2
  <2>1. state = "LEN2"
    BY <1>5 DEF Len2, Takes
  <2>2. k = 3 /\ b0 = Hi(n) /\ payload = <<>> /\ length = Lo(n)
    BY <2>1 DEF Reached
  <2>3. /\ state' = "DEVICE_ID" /\ payload' = <<>> /\ packets' = packets
        /\ length' = Lo(n) + 256 * Hi(n)
    BY <1>5, <2>2 DEF Len2, Takes
  <2>4. Lo(n) + 256 * Hi(n) = n + 3
    BY LengthBytes DEF Lo, Hi
  <2>5. Reached(4, n)'
    BY <2>3, <2>4 DEF Reached
  <2> QED BY <2>2, <2>3, <2>5
<1>6. CASE DeviceId
  <2>1. state = "DEVICE_ID"
    BY <1>6 DEF DeviceId, Takes
  <2>2. k = 4 /\ payload = <<>> /\ length = n + 3
    BY <2>1 DEF Reached
  <2>3. state' = "CMD" /\ payload' = <<>> /\ packets' = packets /\ length' = n + 3
    BY <1>6, <2>2 DEF DeviceId, Takes
  <2>4. Reached(5, n)'
    BY <2>3 DEF Reached
  <2> QED BY <2>2, <2>3, <2>4
<1>7. CASE Cmd
  <2>1. state = "CMD"
    BY <1>7 DEF Cmd, Takes
  <2>2. k = 5 /\ payload = <<>> /\ length = n + 3
    BY <2>1 DEF Reached
  <2>3. /\ state' = IF n = 0 THEN "CRC" ELSE "PAYLOAD"
        /\ payload' = <<>> /\ packets' = packets /\ length' = n + 3
    BY <1>7, <2>2 DEF Cmd, Takes
  <2>4. Len(payload') = 0
    BY <2>3
  <2>5. Reached(6, n)'
    BY <2>3, <2>4 DEF Reached
  <2> QED BY <2>2, <2>3, <2>5
<1>8. CASE Payload
  <2>1. state = "PAYLOAD"
    BY <1>8 DEF Payload, Takes
  <2>2. k \in 6..n + 5 /\ Len(payload) = k - 6 /\ length = n + 3
    BY <2>1 DEF Reached
  <2>3. /\ state' = IF Len(payload) + 1 = length - 3 THEN "CRC" ELSE "PAYLOAD"
        /\ payload' = Append(payload, b0) /\ packets' = packets /\ length' = length
    BY <1>8 DEF Payload, Takes
  <2>4. Len(payload') = k - 5 /\ (k - 5 = n <=> k + 1 = n + 6)
    BY <1>1, <2>2, <2>3
  <2>5. /\ state' = IF k - 5 = n THEN "CRC" ELSE "PAYLOAD"
        /\ length' = n + 3
    BY <2>2, <2>3
  <2>6. Reached(k + 1, n)'
    BY <2>2, <2>4, <2>5 DEF Reached
  <2> QED BY <2>2, <2>3, <2>6
<1>9. CASE CrcByte
  <2>1. state = "CRC"
    BY <1>9 DEF CrcByte, Takes
  <2>2. k = n + 6 /\ Len(payload) = n /\ length = n + 3
    BY <2>1 DEF Reached
  <2>3. state' = "TAIL1" /\ payload' = payload /\ packets' = packets /\ length' = length
    BY <1>9 DEF CrcByte, Takes
  <2>4. Reached(k + 1, n)'
    BY <2>2, <2>3 DEF Reached
  <2> QED BY <2>2, <2>3, <2>4
<1>10. CASE Tail1
  <2>1. state = "TAIL1"
    BY <1>10 DEF Tail1, Takes
  <2>2. k = n + 7 /\ Len(payload) = n /\ length = n + 3 /\ b0 = Hex55
    BY <2>1 DEF Reached
  <2>3. state' = "TAIL2" /\ payload' = payload /\ packets' = packets /\ length' = length
    BY <1>10, <2>2 DEF Tail1, Takes, fields
  <2>4. Reached(k + 1, n)'
    BY <2>2, <2>3 DEF Reached
  <2> QED BY <2>2, <2>3, <2>4
<1>11. CASE Tail2
  <2>1. state = "TAIL2" /\ state' = "HEAD1"
    BY <1>11 DEF Tail2, Takes
  <2>2. k = n + 8
    BY <2>1 DEF Reached
  <2> QED BY <1>11, <2>1, <2>2
<1> QED BY <1>2, <1>3, <1>4, <1>5, <1>6, <1>7, <1>8, <1>9, <1>10, <1>11 DEF Decode

(* What a byte adds to the fields is that byte, and no other field moves.  *)
LEMMA CopiesNext ==
  ASSUME TypeInv, Decode, NEW n \in Nat, NEW came, NEW k \in 0..n + 7,
         Reached(k, n), Copied(k, n, came), b0 = came[k + 1], k = 0 => b0 = HexAA
  PROVE  Copied(k + 1, n, came)'
<1>1. payload \in Seq(Byte) /\ sent' = sent
  BY DEF TypeInv, TypeOK, Decode, Takes, Head1, Head2, Len1, Len2, DeviceId, Cmd, Payload,
         CrcByte, Tail1, Tail2
<1>2. CASE Head1
  <2>1. k = 0
    BY <1>2 DEF Head1, Takes, Reached
  <2>2. recv_time' = Len(sent) /\ payload' = <<>>
    BY <1>2, <2>1 DEF Head1
  <2> QED BY <1>1, <2>1, <2>2 DEF Copied
<1>3. CASE Head2 \/ Len1 \/ Len2
  <2>1. k \in 1..3
    BY <1>3 DEF Head2, Len1, Len2, Takes, Reached
  <2>2. recv_time' = recv_time
    BY <1>3 DEF Head2, Len1, Len2, fields
  <2> QED BY <1>1, <2>1, <2>2 DEF Copied
<1>4. CASE DeviceId
  <2>1. k = 4
    BY <1>4 DEF DeviceId, Takes, Reached
  <2>2. recv_time' = recv_time /\ device_id' = came[5]
    BY <1>4, <2>1 DEF DeviceId
  <2> QED BY <1>1, <2>1, <2>2 DEF Copied
<1>5. CASE Cmd
  <2>1. k = 5 /\ payload = <<>>
    BY <1>5 DEF Cmd, Takes, Reached
  <2>2. recv_time' = recv_time /\ payload' = <<>> /\ device_id' = device_id /\ cmd' = came[6]
    BY <1>5, <2>1 DEF Cmd
  <2> QED BY <1>1, <2>1, <2>2 DEF Copied
<1>6. CASE Payload
  <2>1. k \in 6..n + 5 /\ Len(payload) = k - 6
    BY <1>6 DEF Payload, Takes, Reached
  <2>2. /\ recv_time' = recv_time /\ device_id' = device_id /\ cmd' = cmd
        /\ payload' = Append(payload, b0)
    BY <1>6 DEF Payload
  <2>3. /\ recv_time = Len(sent) /\ device_id = came[5] /\ cmd = came[6]
        /\ \A j \in 1..Len(payload) : payload[j] = came[6 + j]
    BY <2>1 DEF Copied
  <2>4. \A j \in 1..Len(payload') : payload'[j] = came[6 + j]
    <3>1. /\ Len(payload') = k - 5
          /\ \A j \in 1..k - 6 : payload'[j] = payload[j]
          /\ payload'[k - 5] = b0 /\ 6 + (k - 5) = k + 1
      BY <1>1, <2>1, <2>2
    <3>2. \A j \in 1..k - 5 : j \in 1..k - 6 \/ j = k - 5
      BY <2>1
    <3> QED BY <2>1, <2>3, <3>1, <3>2
  <2> QED BY <1>1, <2>1, <2>2, <2>3, <2>4 DEF Copied
<1>7. CASE CrcByte \/ Tail1
  <2>1. /\ k \in n + 6..n + 7
        /\ recv_time' = recv_time /\ device_id' = device_id /\ cmd' = cmd /\ payload' = payload
        /\ crc' = IF k = n + 6 THEN b0 ELSE crc
    <3>1. CASE CrcByte
      <4>1. k = n + 6
        BY <3>1 DEF CrcByte, Takes, Reached
      <4> QED BY <3>1, <4>1 DEF CrcByte
    <3>2. CASE Tail1
      <4>1. k = n + 7
        BY <3>2 DEF Tail1, Takes, Reached
      <4>2. UNCHANGED fields
        BY <3>2 DEF Tail1
      <4> QED BY <4>1, <4>2 DEF fields
    <3> QED BY <1>7, <3>1, <3>2
  <2>2. /\ recv_time = Len(sent) /\ device_id = came[5] /\ cmd = came[6]
        /\ \A j \in 1..Len(payload) : payload[j] = came[6 + j]
        /\ k = n + 7 => crc = came[n + 7]
    BY <2>1 DEF Copied
  <2>3. crc' = came[n + 7]
    <3>1. k = n + 6 => k + 1 = n + 7
      OBVIOUS
    <3> QED BY <2>1, <2>2, <3>1
  <2> QED BY <1>1, <2>1, <2>2, <2>3 DEF Copied
<1>8. CASE Tail2
  BY <1>8 DEF Tail2, Takes, Reached
<1> QED BY <1>2, <1>3, <1>4, <1>5, <1>6, <1>7, <1>8 DEF Decode

(* At the last byte, a frame that came whole is queued as it was sent.     *)
LEMMA WholeIsQueued ==
  ASSUME TypeInv, Tail2, NEW f \in Frames, NEW n, n = Len(f.payload),
         Reached(n + 8, n), Copied(n + 8, n, Encode(f)), b0 = HexAA
  PROVE  packets' = IF f.cmd \in Ignored THEN packets ELSE Append(packets, PacketOf(Len(sent), f))
<1> DEFINE e == Encode(f)
           t == Total(f.payload)
<1>1. /\ n \in Nat /\ f.device_id \in Byte /\ f.cmd \in Byte /\ f.payload \in Seq(Byte)
      /\ e[5] = f.device_id /\ e[6] = f.cmd
      /\ \A i \in 1..n : e[6 + i] = f.payload[i]
      /\ e[n + 7] = Crc(f.device_id, f.cmd, f.payload)
  BY EncodeFacts, ZenonT(60)
<1>2. t \in Nat
  BY <1>1, TotalType
<1> HIDE DEF e, t
<1>3. payload \in Seq(Byte) /\ Len(payload) = n
  BY <1>1 DEF TypeInv, TypeOK, Reached
<1>4. /\ recv_time = Len(sent) /\ device_id = e[5] /\ cmd = e[6] /\ crc = e[n + 7]
      /\ \A j \in 1..n : payload[j] = e[6 + j]
  BY <1>1, <1>3 DEF Copied, e
<1>5. payload = f.payload
  <2>1. \A j \in 1..n : payload[j] = f.payload[j]
    BY <1>1, <1>4
  <2> QED BY <1>1, <1>3, <2>1, SeqEqual
<1>6. Packet = PacketOf(Len(sent), f)
  BY <1>1, <1>4, <1>5 DEF Packet, PacketOf
<1>7. crc = Crc(cmd, device_id, payload)
  <2>1. f.cmd + f.device_id + t = f.device_id + f.cmd + t
    BY <1>1, <1>2 DEF Byte
  <2>2. crc = (f.cmd + f.device_id + t) % 256
    BY <1>1, <1>4 DEF Crc, t
  <2>3. Crc(cmd, device_id, payload) = (f.device_id + f.cmd + t) % 256
    BY <1>1, <1>4, <1>5 DEF Crc, t
  <2> QED BY <2>1, <2>2, <2>3
<1> QED BY <1>1, <1>4, <1>6, <1>7 DEF Tail2

(* A frame with another byte at one place of its body.                     *)
Spoilt(f, n, came) ==
  \E at \in Body(n) : \E c \in Byte :
    c # Encode(f)[at] /\ came = [Encode(f) EXCEPT ![at] = c]

(* It is not queued: its sum, its checksum or its last byte is wrong.      *)
LEMMA SpoiltIsDropped ==
  ASSUME TypeInv, Tail2, NEW f \in Frames, NEW n, n = Len(f.payload), NEW came,
         Spoilt(f, n, came), Reached(n + 8, n), Copied(n + 8, n, came), b0 = came[n + 9]
  PROVE  packets' = packets
<1> DEFINE e == Encode(f)
           t == Total(f.payload)
<1>1. /\ n \in Nat /\ f.device_id \in Byte /\ f.cmd \in Byte /\ f.payload \in Seq(Byte)
      /\ e \in Seq(Byte) /\ Len(e) = n + 9
      /\ e[5] = f.device_id /\ e[6] = f.cmd
      /\ \A i \in 1..n : e[6 + i] = f.payload[i]
      /\ e[n + 7] = Crc(f.device_id, f.cmd, f.payload) /\ e[n + 9] = HexAA
  BY EncodeFacts, ZenonT(60)
<1>2. t \in Nat
  BY <1>1, TotalType
<1>3. PICK at \in Body(n), c \in Byte : c # e[at] /\ came = [e EXCEPT ![at] = c]
  BY DEF Spoilt
<1> HIDE DEF e, t
<1>a. c \in Nat /\ f.device_id \in Nat /\ f.cmd \in Nat
  BY <1>1, <1>3 DEF Byte
<1>4. /\ at \in 1..n + 9 /\ came[at] = c
      /\ \A i \in 1..n + 9 : i # at => came[i] = e[i]
  BY <1>1, <1>3 DEF Body
<1>5. payload \in Seq(Byte) /\ Len(payload) = n
  BY <1>1 DEF TypeInv, TypeOK, Reached
<1>6. /\ device_id = came[5] /\ cmd = came[6] /\ crc = came[n + 7]
      /\ \A j \in 1..n : payload[j] = came[6 + j]
  BY <1>1, <1>5 DEF Copied
<1>7. SUFFICES ASSUME at # n + 9 PROVE crc # Crc(cmd, device_id, payload)
  <2>1. n + 9 \in 1..n + 9
    BY <1>1
  <2>2. at = n + 9 => b0 # HexAA
    BY <1>1, <1>3, <1>4
  <2> QED BY <1>7, <2>2 DEF Tail2
<1>8. 5 \in 1..n + 9 /\ 6 \in 1..n + 9 /\ n + 7 \in 1..n + 9 /\ n + 7 # 5 /\ n + 7 # 6
      /\ \A j \in 1..n : 6 + j \in 1..n + 9 /\ 6 + j # 5 /\ 6 + j # 6 /\ 6 + j # n + 7
  BY <1>1
<1>9. at \notin 7..n + 6 => payload = f.payload
  <2>1. ASSUME at \notin 7..n + 6, NEW j \in 1..n PROVE payload[j] = f.payload[j]
    <3>1. 6 + j # at
      BY <1>1, <2>1
    <3> QED BY <1>1, <1>4, <1>6, <1>8, <3>1
  <2> QED BY <1>1, <1>5, <2>1, SeqEqual
<1>10. CASE at = 5
  <2>1. cmd = f.cmd /\ device_id = c /\ crc = (f.device_id + (f.cmd + t)) % 256
    <3>1. crc = (f.cmd + f.device_id + t) % 256 /\ cmd = f.cmd /\ device_id = c
      <4>1. came[5] = c /\ came[6] = e[6] /\ came[n + 7] = e[n + 7]
        BY <1>4, <1>8, <1>10
      <4>2. e[n + 7] = (f.cmd + f.device_id + t) % 256
        BY <1>1 DEF Crc, t
      <4> QED BY <1>1, <1>6, <4>1, <4>2
    <3>2. f.cmd + f.device_id + t = f.device_id + (f.cmd + t)
      BY <1>1, <1>2 DEF Byte
    <3> QED BY <3>1, <3>2
  <2>2. Crc(cmd, device_id, payload) = (c + (f.cmd + t)) % 256
    <3>1. payload = f.payload
      BY <1>9, <1>10
    <3>2. Crc(cmd, device_id, payload) = (c + f.cmd + t) % 256
      BY <2>1, <3>1 DEF Crc, t
    <3>3. c + f.cmd + t = c + (f.cmd + t)
      BY <1>1, <1>2, <1>3 DEF Byte
    <3> QED BY <3>2, <3>3
  <2>3. c # f.device_id /\ f.cmd + t \in Nat
    BY <1>1, <1>2, <1>3, <1>10, <1>a
  <2> QED BY <1>1, <2>1, <2>2, <2>3, ChecksumTells
<1>11. CASE at = 6
  <2>1. cmd = c /\ device_id = f.device_id /\ crc = (f.cmd + (f.device_id + t)) % 256
    <3>1. crc = (f.cmd + f.device_id + t) % 256 /\ cmd = c /\ device_id = f.device_id
      <4>1. came[6] = c /\ came[5] = e[5] /\ came[n + 7] = e[n + 7]
        BY <1>4, <1>8, <1>11
      <4>2. e[n + 7] = (f.cmd + f.device_id + t) % 256
        BY <1>1 DEF Crc, t
      <4> QED BY <1>1, <1>6, <4>1, <4>2
    <3>2. f.cmd + f.device_id + t = f.cmd + (f.device_id + t)
      BY <1>a, <1>2
    <3> QED BY <3>1, <3>2
  <2>2. Crc(cmd, device_id, payload) = (c + (f.device_id + t)) % 256
    <3>1. payload = f.payload
      BY <1>9, <1>11
    <3>2. Crc(cmd, device_id, payload) = (f.device_id + c + t) % 256
      BY <2>1, <3>1 DEF Crc, t
    <3>3. f.device_id + c + t = c + (f.device_id + t)
      BY <1>1, <1>2, <1>3 DEF Byte
    <3> QED BY <3>2, <3>3
  <2>3. c # f.cmd /\ f.device_id + t \in Nat
    BY <1>1, <1>2, <1>3, <1>11, <1>a
  <2> QED BY <1>1, <2>1, <2>2, <2>3, ChecksumTells
<1>12. CASE at \in 7..n + 6
  <2> DEFINE i == at - 6
             u == Total(payload)
  <2>1. i \in 1..n /\ at = 6 + i /\ at # 5 /\ at # 6 /\ at # n + 7
    BY <1>1, <1>12
  <2>2. e[at] = f.payload[i] /\ f.payload[i] \in Byte /\ c # f.payload[i]
    BY <1>1, <1>3, <2>1
  <2>3. payload = [f.payload EXCEPT ![i] = c]
    <3>1. [f.payload EXCEPT ![i] = c] \in Seq(Byte) /\ Len([f.payload EXCEPT ![i] = c]) = n
      BY <1>1, <1>3, <2>1
    <3>2. \A j \in 1..n : payload[j] = [f.payload EXCEPT ![i] = c][j]
      <4> TAKE j \in 1..n
      <4>1. CASE j = i
        <5>1. 6 + j = at /\ payload[j] = c
          BY <1>4, <1>6, <2>1, <4>1
        <5> QED BY <1>1, <4>1, <5>1
      <4>2. CASE j # i
        <5>1. 6 + j # at
          BY <2>1, <4>2
        <5> QED BY <1>1, <1>4, <1>6, <1>8, <4>2, <5>1
      <4> QED BY <4>1, <4>2
    <3> QED BY <1>5, <3>1, <3>2, SeqEqual
  <2>4. u + f.payload[i] = t + c /\ u \in Nat
    <3>1. Total([f.payload EXCEPT ![i] = c]) + f.payload[i] = Total(f.payload) + c
      BY <1>1, <1>3, <2>1, TotalReplaced
    <3> QED BY <1>5, <2>3, <3>1, TotalType DEF t
  <2> HIDE DEF u, i
  <2>5. cmd = f.cmd /\ device_id = f.device_id /\ crc = (f.cmd + f.device_id + t) % 256
    BY <1>1, <1>4, <1>6, <1>8, <2>1 DEF Crc, t
  <2>6. Crc(cmd, device_id, payload) = (f.device_id + f.cmd + u) % 256
    BY <2>5 DEF Crc, u
  <2>7. (f.cmd + f.device_id + t) % 256 # (f.device_id + f.cmd + u) % 256
    <3> DEFINE a == f.payload[i]
               d == f.device_id + f.cmd
    <3>1. a \in Byte /\ a # c /\ u + a = t + c /\ d \in Nat
      BY <1>a, <2>2, <2>4
    <3>2. f.cmd + f.device_id + t = d + t /\ f.device_id + f.cmd + u = d + u
      BY <1>a, <1>2, <2>4
    <3> HIDE DEF a, d
    <3>3. (d + t) % 256 # (d + u) % 256
      BY <1>2, <1>3, <2>4, <3>1, SameRestDiffers
    <3> QED BY <3>2, <3>3
  <2> QED BY <2>5, <2>6, <2>7
<1>13. CASE at = n + 7
  <2>1. cmd = f.cmd /\ device_id = f.device_id /\ crc = c
    BY <1>1, <1>4, <1>6, <1>8, <1>13
  <2>2. Crc(cmd, device_id, payload) = Crc(f.device_id, f.cmd, f.payload)
    <3>1. payload = f.payload
      BY <1>1, <1>9, <1>13
    <3>2. f.cmd + f.device_id + t = f.device_id + f.cmd + t
      BY <1>1, <1>2 DEF Byte
    <3>3. Crc(cmd, device_id, payload) = (f.device_id + f.cmd + t) % 256
      BY <2>1, <3>1 DEF Crc, t
    <3>4. Crc(f.device_id, f.cmd, f.payload) = (f.cmd + f.device_id + t) % 256
      BY DEF Crc, t
    <3> QED BY <3>2, <3>3, <3>4
  <2> QED BY <1>1, <1>3, <1>13, <2>1, <2>2
<1> QED BY <1>1, <1>7, <1>10, <1>11, <1>12, <1>13 DEF Body
-----------------------------------------------------------------------------
(* While the only thing that went wrong is a spoiled byte of a body, the   *)
(* line holds the rest of the latest frame, as sent or with that byte      *)
(* spoiled, the decoder is at its place in it, and of the frames before    *)
(* all but the spoiled one have come, and nothing else has.                *)
Arriving(f, n, came) ==
  IF fault.n = Len(sent) THEN Spoilt(f, n, came) ELSE came = Encode(f)

Behind(f, n) ==
  LET k == n + 9 - Len(line)
  IN  /\ Len(line) \in 1..n + 9
      /\ Reached(k, n)
      /\ \E came \in Seq(Byte) :
           /\ Arriving(f, n, came)
           /\ \A i \in 1..Len(line) : line[i] = came[k + i]
           /\ Copied(k, n, came)

InStep ==
  Mild => /\ PacketsWereSent
          /\ IF line = <<>>
             THEN state = "HEAD1" /\ Came = Due \ {fault.n}
             ELSE /\ Behind(Last(sent), Len(Last(sent).payload))
                  /\ Came = Due \ {fault.n, Len(sent)}

(* A new frame may be due, and all before it still are.                    *)
LEMMA DueAfterSend ==
  ASSUME TypeInv, NEW f \in Frames, Sends(f)
  PROVE  /\ Due' \ {Len(sent')} = Due
         /\ Came' = Came /\ Len(sent') \notin Due /\ Due \subseteq 1..Len(sent)
         /\ PacketsWereSent => PacketsWereSent'
<1>1. /\ sent' \in Seq(Frames) /\ Len(sent') = Len(sent) + 1 /\ Len(sent) \in Nat
      /\ \A i \in 1..Len(sent) : sent'[i] = sent[i]
      /\ packets' = packets
  BY SendType
<1>2. sent \in Seq(Frames)
  BY DEF TypeInv, TypeOK
<1>3. DOMAIN sent = 1..Len(sent) /\ DOMAIN sent' = 1..Len(sent')
  BY <1>1, <1>2
<1>4. Due \subseteq 1..Len(sent) /\ Len(sent') \notin 1..Len(sent)
  BY <1>1, <1>3 DEF Due
<1>5. \A m : m \in Due' /\ m # Len(sent') <=> m \in Due
  <2> TAKE m
  <2>1. m \in 1..Len(sent) <=> m \in 1..Len(sent') /\ m # Len(sent')
    BY <1>1
  <2> QED BY <1>1, <1>3, <2>1 DEF Due
<1>6. Came' = Came
  BY <1>1 DEF Came
<1>7. PacketsWereSent => PacketsWereSent'
  <2>1. ASSUME NEW p, Sent(p) PROVE Sent(p)'
    <3>1. p.n \in 1..Len(sent) /\ p.n \in 1..Len(sent')
      BY <1>1, <1>3, <2>1 DEF Sent
    <3> QED BY <1>1, <1>3, <2>1, <3>1 DEF Sent
  <2> QED BY <1>1, <2>1 DEF PacketsWereSent
<1> QED BY <1>4, <1>5, <1>6, <1>7

LEMMA InStepSend ==
  ASSUME TypeInv, InStep, NEW f \in Frames, SendWhole(f) \/ SendFaulty(f)
  PROVE  InStep'
<1> DEFINE n == Len(f.payload)
           e == Encode(f)
<1>1. Sends(f) /\ line = <<>>
  BY DEF SendWhole, SendFaulty, Sends
<1>2. /\ sent' \in Seq(Frames) /\ Len(sent') = Len(sent) + 1 /\ Len(sent) \in Nat
      /\ \A i \in 1..Len(sent) : sent'[i] = sent[i]
      /\ sent'[Len(sent')] = f /\ state' = state /\ Last(sent') = f
  BY <1>1, SendType DEF Last
<1>3. n \in Nat /\ e \in Seq(Byte) /\ Len(e) = n + 9
  BY EncodeFacts, ZenonT(60)
<1> HIDE DEF n, e
<1>4. fault = NoFault \/ fault.n \in 1..Len(sent)
  BY DEF TypeInv
<1>5. /\ Due' \ {Len(sent')} = Due /\ Came' = Came
      /\ Due \subseteq 1..Len(sent) /\ (PacketsWereSent => PacketsWereSent')
  BY <1>1, DueAfterSend
<1>6. ASSUME state' = "HEAD1", Len(line') = n + 9, line' \in Seq(Byte), Arriving(f, n, line)'
      PROVE  Behind(f, n)'
  <2>1. n + 9 - Len(line') = 0 /\ Len(line') \in 1..n + 9
    BY <1>3, <1>6
  <2>2. Reached(0, n)' /\ Copied(0, n, line)'
    BY <1>3, <1>6 DEF Reached, Copied
  <2>3. \A i \in 1..n + 9 : 0 + i = i
    OBVIOUS
  <2> QED BY <1>3, <1>6, <2>1, <2>2, <2>3 DEF Behind
<1>7. CASE SendWhole(f)
  <2>1. line' = e /\ fault' = fault
    BY <1>7 DEF SendWhole, e
  <2>2. Mild' => Mild
    BY <1>2, <1>4, <2>1 DEF Mild, InBody
  <2>3. ASSUME Mild' PROVE InStep'
    <3>1. state = "HEAD1" /\ Came = Due \ {fault.n} /\ PacketsWereSent
      BY <1>1, <2>2, <2>3 DEF InStep
    <3>2. line' # <<>> /\ Len(line') = n + 9
      BY <1>3, <2>1
    <3>3. fault'.n # Len(sent')
      BY <1>2, <1>4, <2>1 DEF NoFault
    <3>4. Behind(f, n)'
      BY <1>2, <1>3, <1>6, <2>1, <3>1, <3>2, <3>3 DEF Arriving, e
    <3>5. Came' = Due' \ {fault'.n, Len(sent')}
      BY <1>5, <2>1, <3>1
    <3> QED BY <1>2, <1>5, <3>1, <3>2, <3>4, <3>5 DEF InStep, n
  <2> QED BY <2>3 DEF InStep
<1>8. CASE SendFaulty(f)
  <2>1. fault = NoFault /\ fault.n = 0
    BY <1>8 DEF SendFaulty, NoFault
  <2>2. PICK i \in 1..Len(e), kind \in FaultKinds :
          /\ fault' = [kind |-> kind, n |-> Len(sent'), at |-> i]
          /\ kind = "spoiled" => \E b \in NoiseBytes \ {e[i]} : line' = ReplaceAt(e, i, b)
    BY <1>8 DEF SendFaulty, e
  <2>3. ASSUME Mild' PROVE InStep'
    <3>1. fault' # NoFault
      BY <1>2, <2>2 DEF NoFault
    <3>2. kind = "spoiled" /\ i \in Body(n)
      BY <1>2, <2>2, <2>3, <3>1 DEF Mild, InBody, Body, n
    <3>3. PICK b \in NoiseBytes \ {e[i]} : line' = ReplaceAt(e, i, b)
      BY <2>2, <3>2
    <3>4. line' = [e EXCEPT ![i] = b] /\ b \in Byte /\ b # e[i]
      BY <3>3, NoiseAssumption DEF ReplaceAt
    <3>5. line' \in Seq(Byte) /\ Len(line') = n + 9 /\ line' # <<>>
      BY <1>3, <3>4
    <3>6. state = "HEAD1" /\ Came = Due \ {fault.n} /\ PacketsWereSent
      BY <1>1, <2>1 DEF InStep, Mild
    <3>7. fault'.n = Len(sent') /\ Spoilt(f, n, line')
      BY <2>2, <3>2, <3>4 DEF Spoilt, e
    <3>8. Behind(f, n)'
      BY <1>2, <1>6, <3>5, <3>6, <3>7 DEF Arriving
    <3>9. Came' = Due' \ {fault'.n, Len(sent')}
      <4>1. 0 \notin Due
        BY <1>5
      <4> QED BY <1>5, <2>1, <3>6, <3>7, <4>1
    <3> QED BY <1>2, <1>5, <3>5, <3>6, <3>8, <3>9 DEF InStep, n
  <2> QED BY <2>3 DEF InStep
<1> QED BY <1>7, <1>8

(* One packet more, of a frame later than those that came before.          *)
LEMMA PacketJoins ==
  ASSUME TypeInv, PacketsWereSent, UNCHANGED sent, sent # <<>>, NEW f \in Frames, f = Last(sent),
         Len(sent) \notin Came, packets' = Append(packets, PacketOf(Len(sent), f))
  PROVE  PacketsWereSent' /\ Came' = Came \cup {Len(sent)}
<1> DEFINE p == PacketOf(Len(sent), f)
           m == Len(packets)
<1>1. /\ packets \in Seq(Rec) /\ m \in Nat /\ DOMAIN packets = 1..m
      /\ DOMAIN packets' = 1..m + 1 /\ packets'[m + 1] = p
      /\ \A i \in 1..m : packets'[i] = packets[i]
  BY LenProperties DEF TypeInv
<1>2. sent \in Seq(Frames) /\ DOMAIN sent = 1..Len(sent) /\ Len(sent) \in 1..Len(sent)
      /\ sent[Len(sent)] = f
  BY DEF TypeInv, TypeOK, Last
<1>3. p.n = Len(sent) /\ p.device_id = f.device_id /\ p.cmd = f.cmd /\ p.payload = f.payload
  BY DEF PacketOf
<1> HIDE DEF p, m
<1>4. \A i \in 1..m : packets[i].n \in 1..Len(sent) /\ packets[i].n # Len(sent)
  BY <1>1, <1>2 DEF PacketsWereSent, Sent, Came
<1>5. \A i \in DOMAIN packets' : Sent(packets'[i])
  <2>1. Sent(p)
    BY <1>2, <1>3 DEF Sent
  <2>2. \A i \in 1..m : Sent(packets'[i])
    BY <1>1 DEF PacketsWereSent
  <2>3. \A i \in 1..m + 1 : i \in 1..m \/ i = m + 1
    BY <1>1
  <2> QED BY <1>1, <2>1, <2>2, <2>3
<1>6. ASSUME NEW i \in DOMAIN packets', NEW j \in DOMAIN packets', i < j
      PROVE  packets'[i].n < packets'[j].n
  <2>1. i \in 1..m
    BY <1>1, <1>6
  <2>2. CASE j = m + 1
    <3>1. packets[i].n < Len(sent)
      BY <1>2, <1>4, <2>1
    <3> QED BY <1>1, <1>3, <2>1, <2>2, <3>1
  <2>3. CASE j # m + 1
    <3>1. j \in 1..m
      BY <1>1, <2>3
    <3> QED BY <1>1, <1>6, <2>1, <3>1 DEF PacketsWereSent
  <2> QED BY <2>2, <2>3
<1>7. Came' = Came \cup {Len(sent)}
  <2>1. ASSUME NEW x PROVE x \in Came' <=> x \in Came \/ x = Len(sent)
    <3>1. x \in Came' <=> \E i \in 1..m + 1 : packets'[i].n = x
      BY <1>1 DEF Came
    <3>2. x \in Came <=> \E i \in 1..m : packets[i].n = x
      BY <1>1 DEF Came
    <3>3. \A i \in 1..m + 1 : i \in 1..m \/ i = m + 1
      BY <1>1
    <3>4. m + 1 \in 1..m + 1 /\ \A i \in 1..m : i \in 1..m + 1
      BY <1>1
    <3> QED BY <1>1, <1>3, <3>1, <3>2, <3>3, <3>4
  <2> QED BY <2>1
<1> QED BY <1>5, <1>6, <1>7 DEF PacketsWereSent, Sent

(* A byte that is not the last of its frame queues nothing; the last       *)
(* queues the frame, unless it is to be ignored or was spoiled.            *)
LEMMA ByteOfFrame ==
  ASSUME TypeInv, InStep, Mild, Decode
  PROVE  /\ sent' = sent /\ fault' = fault /\ sent # <<>> /\ line # <<>>
         /\ Last(sent) \in Frames /\ Due \subseteq 1..Len(sent)
         /\ line' # <<>> => /\ packets' = packets
                           /\ Behind(Last(sent), Len(Last(sent).payload))'
         /\ line' = <<>> => /\ state' = "HEAD1"
                           /\ packets' = IF Len(sent) \in Due /\ fault.n # Len(sent)
                                         THEN Append(packets, PacketOf(Len(sent), Last(sent)))
                                         ELSE packets
<1>1. \E from, to \in States : Takes(from, to)
  BY DEF Decode, Head1, Head2, Len1, Len2, DeviceId, Cmd, Payload, CrcByte, Tail1, Tail2, States
<1>2. /\ b0 = line[1] /\ line \in Seq(Byte) /\ line' \in Seq(Byte) /\ Len(line') = Len(line) - 1
      /\ \A i \in 1..Len(line') : line'[i] = line[i + 1]
      /\ Len(line) >= 1 /\ sent' = sent /\ fault' = fault /\ sent # <<>> /\ line # <<>>
  <2>1. line \in Seq(Byte)
    BY DEF TypeInv, TypeOK
  <2>2. line # <<>>
    BY <1>1 DEF Takes
  <2> QED BY <1>1, <2>1, <2>2, TakesType
<1>3. /\ Last(sent) \in Frames /\ Len(sent) \in 1..Len(sent) /\ sent[Len(sent)] = Last(sent)
      /\ DOMAIN sent = 1..Len(sent)
  <2>1. sent \in Seq(Frames)
    BY DEF TypeInv, TypeOK
  <2> QED BY <1>2, <2>1 DEF Last
<1>4. Due \subseteq 1..Len(sent)
  BY <1>3 DEF Due
<1>5. PICK f \in Frames : f = Last(sent)
  BY <1>3
<1>6. PICK n \in Nat : n = Len(f.payload)
  BY FramesAssumption
<1>7. Behind(f, n) /\ Last(sent') = f
  BY <1>2, <1>5, <1>6 DEF InStep
<1>8. PICK k \in 0..n + 8 : k = n + 9 - Len(line)
  <2>1. Len(line) \in 1..n + 9
    BY <1>7 DEF Behind
  <2> QED BY <2>1
<1>9. Len(line) \in 1..n + 9 /\ Reached(k, n)
  BY <1>7, <1>8 DEF Behind
<1>10. PICK came \in Seq(Byte) : /\ Arriving(f, n, came)
                                 /\ \A i \in 1..Len(line) : line[i] = came[k + i]
                                 /\ Copied(k, n, came)
  BY <1>7, <1>8 DEF Behind
<1>11. n + 9 - Len(line') = k + 1 /\ (line' = <<>> <=> k = n + 8)
  BY <1>2, <1>8
<1>12. /\ b0 = came[k + 1]
       /\ \A i \in 1..Len(line') : line'[i] = came[(k + 1) + i]
  <2>1. 1 \in 1..Len(line) /\ \A i \in 1..Len(line') : i + 1 \in 1..Len(line)
                                                        /\ k + (i + 1) = (k + 1) + i
    BY <1>2
  <2> QED BY <1>2, <1>10, <2>1
<1>13. /\ k = 0 => b0 = HexAA
       /\ k = 1 => b0 = Hex55
       /\ k = 2 => b0 = Lo(n)
       /\ k = 3 => b0 = Hi(n)
       /\ k = n + 7 => b0 = Hex55
       /\ n + 3 \in Word /\ Encode(f)[n + 9] = HexAA
  <2>1. /\ Encode(f)[1] = HexAA /\ Encode(f)[2] = Hex55
        /\ Encode(f)[3] = (n + 3) % 256 /\ Encode(f)[4] = (n + 3) \div 256
        /\ Encode(f)[n + 8] = Hex55 /\ Encode(f)[n + 9] = HexAA /\ n + 3 \in Word
        /\ Encode(f) \in Seq(Byte) /\ Len(Encode(f)) = n + 9
    BY <1>6, EncodeFacts, ZenonT(60)
  <2>2. /\ Encode(f)[3] = Lo(n) /\ Encode(f)[4] = Hi(n)
    BY <2>1 DEF Lo, Hi
  <2>3. 1 \notin Body(n) /\ 2 \notin Body(n) /\ 3 \notin Body(n) /\ 4 \notin Body(n)
        /\ n + 8 \notin Body(n) /\ n + 7 + 1 = n + 8
    BY DEF Body
  <2>4. \A i \in 1..n + 9 : i \notin Body(n) => came[i] = Encode(f)[i]
    <3>1. CASE came = Encode(f)
      BY <3>1
    <3>2. CASE Spoilt(f, n, came)
      <4>1. PICK at \in Body(n), c \in Byte : came = [Encode(f) EXCEPT ![at] = c]
        BY <3>2 DEF Spoilt
      <4>2. DOMAIN Encode(f) = 1..n + 9
        BY <2>1
      <4> HIDE DEF Body
      <4> QED BY <4>1, <4>2
    <3> QED BY <1>10, <3>1, <3>2 DEF Arriving
  <2>5. k + 1 \in 1..n + 9
    OBVIOUS
  <2>6. k + 1 \notin Body(n) => b0 = Encode(f)[k + 1]
    BY <1>12, <2>4, <2>5
  <2> QED BY <2>1, <2>2, <2>3, <2>6
<1>14. /\ k < n + 8 => Reached(k + 1, n)' /\ packets' = packets
       /\ k = n + 8 => Tail2 /\ state' = "HEAD1"
  BY <1>9, <1>13, ReachesNext
<1>15. fault'.n = fault.n /\ Len(sent') = Len(sent)
  BY <1>2
<1>16. CASE k < n + 8
  <2>1. line' # <<>> /\ Len(line') \in 1..n + 9
    BY <1>2, <1>9, <1>11, <1>16
  <2>2. Copied(k + 1, n, came)'
    <3>1. k \in 0..n + 7
      BY <1>16
    <3> QED BY <1>9, <1>10, <1>12, <1>13, <3>1, CopiesNext
  <2>3. Arriving(f, n, came)'
    BY <1>10, <1>15 DEF Arriving
  <2>4. Behind(f, n)'
    BY <1>11, <1>12, <1>14, <1>16, <2>1, <2>2, <2>3 DEF Behind
  <2> QED BY <1>2, <1>3, <1>4, <1>5, <1>6, <1>7, <1>14, <1>16, <2>1, <2>4
<1>17. CASE k = n + 8
  <2>1. line' = <<>> /\ state' = "HEAD1" /\ Tail2
    BY <1>11, <1>14, <1>17
  <2>2. k + 1 = n + 9
    BY <1>17
  <2>3. CASE fault.n = Len(sent)
    <3>1. packets' = packets
      BY <1>6, <1>9, <1>10, <1>12, <1>17, <2>1, <2>2, <2>3, SpoiltIsDropped DEF Arriving
    <3> QED BY <1>2, <1>3, <1>4, <2>1, <2>3, <3>1
  <2>4. CASE fault.n # Len(sent)
    <3>1. packets' = IF f.cmd \in Ignored THEN packets
                     ELSE Append(packets, PacketOf(Len(sent), f))
      <4>1. came = Encode(f)
        BY <1>10, <2>4 DEF Arriving
      <4>2. b0 = HexAA
        BY <1>12, <1>13, <2>2, <4>1
      <4> QED BY <1>6, <1>9, <1>10, <1>17, <2>1, <4>1, <4>2, WholeIsQueued
    <3>2. Len(sent) \in Due <=> f.cmd \notin Ignored
      BY <1>3, <1>5 DEF Due
    <3> QED BY <1>2, <1>3, <1>4, <1>5, <2>1, <2>4, <3>1, <3>2
  <2> QED BY <2>3, <2>4
<1> QED BY <1>16, <1>17

LEMMA InStepTakes ==
  ASSUME TypeInv, InStep, Decode
  PROVE  InStep'
<1>1. sent' = sent /\ fault' = fault
  BY DEF Decode, Head1, Head2, Len1, Len2, DeviceId, Cmd, Payload, CrcByte, Tail1, Tail2, Takes
<1>2. SUFFICES ASSUME Mild PROVE InStep'
  <2>1. Mild' => Mild
    BY <1>1 DEF Mild, InBody
  <2> QED BY <1>2, <2>1 DEF InStep
<1>3. /\ sent # <<>> /\ line # <<>> /\ Last(sent) \in Frames /\ Due \subseteq 1..Len(sent)
      /\ line' # <<>> => /\ packets' = packets
                        /\ Behind(Last(sent), Len(Last(sent).payload))'
      /\ line' = <<>> => /\ state' = "HEAD1"
                        /\ packets' = IF Len(sent) \in Due /\ fault.n # Len(sent)
                                      THEN Append(packets, PacketOf(Len(sent), Last(sent)))
                                      ELSE packets
  BY <1>2, ByteOfFrame
<1>4. Came = Due \ {fault.n, Len(sent)} /\ PacketsWereSent
  BY <1>2, <1>3 DEF InStep
<1>5. Due' = Due /\ fault'.n = fault.n /\ Len(sent') = Len(sent) /\ Last(sent') = Last(sent)
  BY <1>1 DEF Due
<1>6. ASSUME packets' = packets PROVE Came' = Came /\ PacketsWereSent'
  BY <1>1, <1>4, <1>6 DEF Came, PacketsWereSent, Sent
<1>7. CASE line' # <<>>
  BY <1>3, <1>4, <1>5, <1>6, <1>7 DEF InStep, Behind
<1>8. CASE line' = <<>> /\ ~(Len(sent) \in Due /\ fault.n # Len(sent))
  BY <1>3, <1>4, <1>5, <1>6, <1>8 DEF InStep
<1>9. CASE line' = <<>> /\ Len(sent) \in Due /\ fault.n # Len(sent)
  <2>1. PacketsWereSent' /\ Came' = Came \cup {Len(sent)}
    BY <1>1, <1>3, <1>4, <1>9, PacketJoins
  <2> QED BY <1>3, <1>4, <1>5, <1>9, <2>1 DEF InStep
<1> QED BY <1>7, <1>8, <1>9

LEMMA AlwaysInStep == DecoderSpec => []InStep
<1>1. Init => InStep
  <2>1. Init => sent = <<>> /\ line = <<>> /\ state = "HEAD1" /\ packets = <<>>
    BY DEF Init
  <2>2. sent = <<>> => Due = {}
    BY DEF Due
  <2>3. packets = <<>> => Came = {} /\ PacketsWereSent
    BY DEF Came, PacketsWereSent
  <2> QED BY <2>1, <2>2, <2>3 DEF InStep
<1>2. TypeInv /\ InStep /\ [DecoderNext]_decoderVars => InStep'
  <2> SUFFICES ASSUME TypeInv, InStep, [DecoderNext]_decoderVars PROVE InStep'
    OBVIOUS
  <2>1. CASE \E f \in Frames : SendWhole(f) \/ SendFaulty(f)
    BY <2>1, InStepSend
  <2>2. CASE Decode /\ Hears
    BY <2>2, InStepTakes
  <2>3. CASE UNCHANGED decoderVars
    BY <2>3 DEF decoderVars, fields, InStep, Mild, InBody, Behind, Arriving, Reached, Copied, Due,
                Came, PacketsWereSent, Sent
  <2> QED BY <2>1, <2>2, <2>3 DEF DecoderNext
<1> QED BY <1>1, <1>2, AlwaysTyped, PTL DEF DecoderSpec

(* A frame that comes whole is queued, and a byte spoiled in the body of a *)
(* frame costs that frame only: the decoder is ready for the next one.     *)
THEOREM OthersComeCorrect == DecoderSpec => []OthersCome
<1>1. InStep => OthersCome
  BY DEF InStep, OthersCome, Mild
<1> QED BY <1>1, AlwaysInStep, PTL

(* _decode_packet queues exactly the frames sent, each once and as it was  *)
(* sent, while at most one byte of a body was spoiled: whatever that byte  *)
(* was and became, the sum of _crc tells.  A fault outside the bodies can  *)
(* make PacketsWereSent fail, for frames that imitate one another.         *)
THEOREM SpoiltBodyIsTold ==
  DecoderSpec => [](fault = NoFault \/ InBody
                      => /\ PacketsWereSent
                         /\ line = <<>> => Came = Due \ {fault.n})
<1>1. InStep => (Mild => /\ PacketsWereSent
                         /\ line = <<>> => Came = Due \ {fault.n})
  BY DEF InStep
<1> QED BY <1>1, AlwaysInStep, PTL DEF Mild

(* The bytes, the frames and the decoder are, to the rest of ChainLinkLayer,*)
(* a line of packets that come once, in order and unchanged, as long as at *)
(* most one byte of a body is spoiled.                                     *)
LEMMA LineSends ==
  ASSUME TypeInv, Mild', NEW f \in Frames, SendWhole(f) \/ SendFaulty(f)
  PROVE  Line!LineNext \/ UNCHANGED <<OnTheLine, packets>>
<1>1. Sends(f) /\ line = <<>> /\ Len(sent) < MaxFrames
  BY DEF SendWhole, SendFaulty, Sends
<1>2. /\ sent' \in Seq(Frames) /\ Len(sent') = Len(sent) + 1 /\ Len(sent) \in Nat
      /\ Last(sent') = f /\ packets' = packets
  BY <1>1, SendType DEF Last
<1>3. OnTheLine = <<>>
  BY <1>1 DEF OnTheLine
<1>4. CASE OnTheLine' = <<>>
  BY <1>2, <1>3, <1>4
<1>5. CASE OnTheLine' # <<>>
  <2>1. OnTheLine' = <<PacketOf(Len(sent'), f)>>
    BY <1>2, <1>5 DEF OnTheLine
  <2>2. Len(sent') \in 1..MaxFrames
    BY <1>1, <1>2, BoundAssumption
  <2>3. PacketOf(Len(sent'), f) \in {PacketOf(n, g) : n \in 1..MaxFrames, g \in Frames}
    BY <2>2
  <2>4. Append(<<>>, PacketOf(Len(sent'), f)) = <<PacketOf(Len(sent'), f)>>
    OBVIOUS
  <2>5. Line!Put(PacketOf(Len(sent'), f))
    BY <1>2, <1>3, <2>1, <2>4 DEF Line!Put
  <2> QED BY <2>3, <2>5 DEF Line!LineNext
<1> QED BY <1>4, <1>5

LEMMA LineBrings ==
  ASSUME TypeInv, InStep, Mild, Decode
  PROVE  Line!LineNext \/ UNCHANGED <<OnTheLine, packets>>
<1>1. /\ sent' = sent /\ fault' = fault /\ line # <<>>
      /\ line' # <<>> => packets' = packets
      /\ line' = <<>> => packets' = IF Len(sent) \in Due /\ fault.n # Len(sent)
                                    THEN Append(packets, PacketOf(Len(sent), Last(sent)))
                                    ELSE packets
  BY ByteOfFrame
<1>2. Due' = Due /\ Last(sent') = Last(sent) /\ Len(sent') = Len(sent)
  BY <1>1 DEF Due
<1>3. CASE line' # <<>> \/ ~(Len(sent) \in Due /\ fault.n # Len(sent))
  BY <1>1, <1>2, <1>3 DEF OnTheLine
<1>4. CASE line' = <<>> /\ Len(sent) \in Due /\ fault.n # Len(sent)
  <2> DEFINE p == PacketOf(Len(sent), Last(sent))
  <2>1. OnTheLine = <<p>> /\ OnTheLine' = <<>> /\ packets' = Append(packets, p)
    BY <1>1, <1>4 DEF OnTheLine
  <2> HIDE DEF p
  <2>2. Line!Arrive
    BY <2>1 DEF Line!Arrive
  <2> QED BY <2>2 DEF Line!LineNext
<1> QED BY <1>3, <1>4

(* Every step of a sender, of the line and of _decode_packet is a step of  *)
(* ChainLine or changes nothing there, up to the first fault that is worse *)
(* than one byte of a body spoiled.                                        *)
THEOREM LineStepByStep == DecoderSpec => ImplementsLine
<1>1. TypeInv /\ InStep /\ [DecoderNext]_decoderVars
        => [Mild' => Line!LineNext \/ UNCHANGED <<OnTheLine, packets>>]_decoderVars
  <2> SUFFICES ASSUME TypeInv, InStep, DecoderNext, Mild'
               PROVE  Line!LineNext \/ UNCHANGED <<OnTheLine, packets>>
    OBVIOUS
  <2>1. CASE \E f \in Frames : SendWhole(f) \/ SendFaulty(f)
    BY <2>1, LineSends
  <2>2. CASE Decode
    <3>1. Mild
      BY <2>2 DEF Decode, Head1, Head2, Len1, Len2, DeviceId, Cmd, Payload, CrcByte, Tail1,
                  Tail2, Takes, Mild, InBody
    <3> QED BY <2>2, <3>1, LineBrings
  <2> QED BY <2>1, <2>2 DEF DecoderNext
<1> QED BY <1>1, AlwaysTyped, AlwaysInStep, PTL DEF DecoderSpec, ImplementsLine

(* So _decode_packet implements the abstract line in every behaviour with  *)
(* no worse fault: each frame is queued once, in order and unchanged, but  *)
(* for the one frame that was spoiled, which was never put on the line.    *)
THEOREM LineImplemented == DecoderSpec /\ []Mild => Line!LineSpec
<1>1. Init => Line!Init
  BY DEF Init, Line!Init, OnTheLine
<1>2. Mild' /\ [Mild' => Line!LineNext \/ UNCHANGED <<OnTheLine, packets>>]_decoderVars
        => [Line!LineNext]_<<OnTheLine, packets>>
  BY DEF decoderVars, fields, OnTheLine, Due
<1> QED BY <1>1, <1>2, LineStepByStep, PTL DEF DecoderSpec, ImplementsLine, Line!LineSpec
-----------------------------------------------------------------------------
(* What the line brought, whatever that was, ends with what the decoder    *)
(* has kept of it since the header.                                        *)
EndsWith(s, x) == \E before \in Seq(Byte) : s = before \o x

Opening == <<HexAA, Hex55, length % 256, length \div 256>>
Begun == <<HexAA, Hex55, length % 256, length \div 256, device_id, cmd>>

Kept ==
  /\ state = "HEAD2" => EndsWith(heard, <<HexAA>>)
  /\ state = "LEN1" => EndsWith(heard, <<HexAA, Hex55>>)
  /\ state = "LEN2" => EndsWith(heard, <<HexAA, Hex55, length>>)
  /\ state = "DEVICE_ID" => EndsWith(heard, Opening)
  /\ state = "CMD" => EndsWith(heard, Append(Opening, device_id))
  /\ state \in {"PAYLOAD", "CRC"} => EndsWith(heard, Begun \o payload)
  /\ state = "TAIL1" => EndsWith(heard, (Begun \o payload) \o <<crc>>)
  /\ state = "TAIL2" => EndsWith(heard, (Begun \o payload) \o <<crc, Hex55>>)
  /\ state \in {"HEAD2", "LEN1", "LEN2", "DEVICE_ID", "CMD"} => payload = <<>>
  /\ state \in {"CRC", "TAIL1", "TAIL2"} => length = Len(payload) + 3

LEMMA Regrouped ==
  ASSUME NEW s \in Seq(Byte), NEW t \in Seq(Byte), NEW u \in Seq(Byte)
  PROVE  (s \o t) \o u = s \o (t \o u)
  BY ConcatAssociative

LEMMA EndsWithOne ==
  ASSUME NEW s \in Seq(Byte), NEW c \in Byte
  PROVE  EndsWith(Append(s, c), <<c>>)
  BY AppendIsConcat DEF EndsWith

LEMMA EndsWithMore ==
  ASSUME NEW s \in Seq(Byte), NEW x \in Seq(Byte), NEW c \in Byte, EndsWith(s, x)
  PROVE  EndsWith(Append(s, c), Append(x, c))
<1>1. PICK before \in Seq(Byte) : s = before \o x
  BY DEF EndsWith
<1>2. <<c>> \in Seq(Byte) /\ Append(s, c) = s \o <<c>> /\ Append(x, c) = x \o <<c>>
  BY AppendIsConcat
<1>3. (before \o x) \o <<c>> = before \o (x \o <<c>>)
  BY <1>1, <1>2, ConcatAssociative
<1>4. Append(s, c) = before \o Append(x, c)
  BY <1>1, <1>2, <1>3
<1> QED BY <1>1, <1>4 DEF EndsWith

(* A tuple with one byte more.                                             *)
LEMMA Spelt2 ==
  ASSUME NEW a \in Byte, NEW b \in Byte
  PROVE  Append(<<a>>, b) = <<a, b>>
<1>1. /\ <<a>> \in Seq(Byte) /\ Len(<<a>>) = 1
      /\ <<a, b>> \in Seq(Byte) /\ Len(<<a, b>>) = 2
  OBVIOUS
<1>2. \A i \in 1..2 : i = 1 \/ i = 2
  OBVIOUS
<1>3. /\ Append(<<a>>, b) \in Seq(Byte) /\ Len(Append(<<a>>, b)) = 2
      /\ \A i \in 1..2 : Append(<<a>>, b)[i] = <<a, b>>[i]
  BY <1>1, <1>2, AppendProperties
<1> QED BY <1>1, <1>3, SeqEqual

LEMMA Spelt3 ==
  ASSUME NEW a \in Byte, NEW b \in Byte, NEW c \in Byte
  PROVE  Append(<<a, b>>, c) = <<a, b, c>>
<1>1. /\ <<a, b>> \in Seq(Byte) /\ Len(<<a, b>>) = 2
      /\ <<a, b, c>> \in Seq(Byte) /\ Len(<<a, b, c>>) = 3
  OBVIOUS
<1>2. \A i \in 1..3 : i = 1 \/ i = 2 \/ i = 3
  OBVIOUS
<1>3. /\ Append(<<a, b>>, c) \in Seq(Byte) /\ Len(Append(<<a, b>>, c)) = 3
      /\ \A i \in 1..3 : Append(<<a, b>>, c)[i] = <<a, b, c>>[i]
  BY <1>1, <1>2, AppendProperties
<1> QED BY <1>1, <1>3, SeqEqual

LEMMA Spelt4 ==
  ASSUME NEW a \in Byte, NEW b \in Byte, NEW c \in Byte, NEW d \in Byte
  PROVE  Append(<<a, b, c>>, d) = <<a, b, c, d>>
<1>1. /\ <<a, b, c>> \in Seq(Byte) /\ Len(<<a, b, c>>) = 3
      /\ <<a, b, c, d>> \in Seq(Byte) /\ Len(<<a, b, c, d>>) = 4
  OBVIOUS
<1>2. \A i \in 1..4 : i = 1 \/ i = 2 \/ i = 3 \/ i = 4
  OBVIOUS
<1>3. /\ Append(<<a, b, c>>, d) \in Seq(Byte) /\ Len(Append(<<a, b, c>>, d)) = 4
      /\ \A i \in 1..4 : Append(<<a, b, c>>, d)[i] = <<a, b, c, d>>[i]
  BY <1>1, <1>2, AppendProperties
<1> QED BY <1>1, <1>3, SeqEqual

LEMMA Spelt5 ==
  ASSUME NEW a \in Byte, NEW b \in Byte, NEW c \in Byte, NEW d \in Byte, NEW e \in Byte
  PROVE  Append(<<a, b, c, d>>, e) = <<a, b, c, d, e>>
<1>1. /\ <<a, b, c, d>> \in Seq(Byte) /\ Len(<<a, b, c, d>>) = 4
      /\ <<a, b, c, d, e>> \in Seq(Byte) /\ Len(<<a, b, c, d, e>>) = 5
  OBVIOUS
<1>2. \A i \in 1..5 : i = 1 \/ i = 2 \/ i = 3 \/ i = 4 \/ i = 5
  OBVIOUS
<1>3. /\ Append(<<a, b, c, d>>, e) \in Seq(Byte) /\ Len(Append(<<a, b, c, d>>, e)) = 5
      /\ \A i \in 1..5 : Append(<<a, b, c, d>>, e)[i] = <<a, b, c, d, e>>[i]
  BY <1>1, <1>2, AppendProperties
<1> QED BY <1>1, <1>3, SeqEqual

LEMMA Spelt6 ==
  ASSUME NEW a \in Byte, NEW b \in Byte, NEW c \in Byte, NEW d \in Byte, NEW e \in Byte,
         NEW f \in Byte
  PROVE  Append(<<a, b, c, d, e>>, f) = <<a, b, c, d, e, f>>
<1>1. /\ <<a, b, c, d, e>> \in Seq(Byte) /\ Len(<<a, b, c, d, e>>) = 5
      /\ <<a, b, c, d, e, f>> \in Seq(Byte) /\ Len(<<a, b, c, d, e, f>>) = 6
  OBVIOUS
<1>2. \A i \in 1..6 : i = 1 \/ i = 2 \/ i = 3 \/ i = 4 \/ i = 5 \/ i = 6
  OBVIOUS
<1>3. /\ Append(<<a, b, c, d, e>>, f) \in Seq(Byte) /\ Len(Append(<<a, b, c, d, e>>, f)) = 6
      /\ \A i \in 1..6 : Append(<<a, b, c, d, e>>, f)[i] = <<a, b, c, d, e, f>>[i]
  BY <1>1, <1>2, AppendProperties
<1> QED BY <1>1, <1>3, SeqEqual

LEMMA EndsWithIsSuffix ==
  ASSUME NEW s \in Seq(Byte), NEW x \in Seq(Byte), EndsWith(s, x)
  PROVE  IsSuffix(x, s)
<1>1. PICK before \in Seq(Byte) : s = before \o x
  BY DEF EndsWith
<1> DEFINE a == Len(before)
           m == Len(x)
<1>2. /\ a \in Nat /\ m \in Nat /\ Len(s) = a + m
      /\ \A i \in 1..a + m : s[i] = IF i <= a THEN before[i] ELSE x[i - a]
  BY <1>1, ConcatProperties
<1> HIDE DEF a, m
<1>3. /\ Reverse(x) \in Seq(Byte) /\ Len(Reverse(x)) = m
      /\ \A i \in 1..m : Reverse(x)[i] = x[m - i + 1]
  <2>1. \A i \in 1..m : x[m - i + 1] \in Byte
    BY <1>2, ElementOfSeq DEF m
  <2>2. Reverse(x) = [i \in 1..m |-> x[m - i + 1]]
    BY DEF Reverse, m
  <2> HIDE DEF m
  <2>3. Reverse(x) \in [1..m -> Byte]
    BY <2>1, <2>2
  <2> QED BY <1>2, <2>2, <2>3
<1>4. /\ Reverse(s) \in Seq(Byte) /\ Len(Reverse(s)) = a + m
      /\ \A i \in 1..a + m : Reverse(s)[i] = s[(a + m) - i + 1]
  <2>1. \A i \in 1..a + m : s[(a + m) - i + 1] \in Byte
    <3>1. \A i \in 1..a + m : (a + m) - i + 1 \in 1..a + m
      BY <1>2
    <3> QED BY <1>2, <3>1, ElementOfSeq
  <2>2. Reverse(s) = [i \in 1..a + m |-> s[(a + m) - i + 1]]
    BY <1>2 DEF Reverse
  <2>3. Reverse(s) \in [1..a + m -> Byte]
    BY <2>1, <2>2
  <2> QED BY <1>2, <2>2, <2>3
<1>5. ASSUME NEW i \in 1..m PROVE Reverse(s)[i] = Reverse(x)[i]
  <2>1. /\ i \in 1..a + m /\ (a + m) - i + 1 \in 1..a + m /\ ~((a + m) - i + 1 <= a)
        /\ ((a + m) - i + 1) - a = m - i + 1
    BY <1>2
  <2>2. s[(a + m) - i + 1] = x[((a + m) - i + 1) - a]
    BY <1>2, <2>1
  <2>3. Reverse(s)[i] = x[m - i + 1]
    BY <1>4, <2>1, <2>2
  <2> QED BY <1>3, <2>3
<1>6. SubSeq(Reverse(x), 1, m) = SubSeq(Reverse(s), 1, m)
  <2>1. /\ SubSeq(Reverse(x), 1, m) = [i \in 1..m |-> Reverse(x)[i]]
        /\ SubSeq(Reverse(s), 1, m) = [i \in 1..m |-> Reverse(s)[i]]
    BY <1>2, <1>3, <1>4
  <2> QED BY <1>5, <2>1
<1> QED BY <1>2, <1>3, <1>4, <1>6 DEF IsSuffix, IsPrefix

LEMMA KeptTypes ==
  ASSUME TypeInv
  PROVE  /\ heard \in Seq(Byte) /\ payload \in Seq(Byte) /\ length \in Word
         /\ device_id \in Byte /\ cmd \in Byte /\ crc \in Byte /\ HexAA \in Byte /\ Hex55 \in Byte
         /\ length % 256 \in Byte /\ length \div 256 \in Byte
         /\ Opening \in Seq(Byte) /\ Begun \in Seq(Byte) /\ Begun \o payload \in Seq(Byte)
<1>1. /\ heard \in Seq(Byte) /\ payload \in Seq(Byte) /\ length \in Word
      /\ device_id \in Byte /\ cmd \in Byte /\ crc \in Byte
  BY DEF TypeInv, TypeOK
<1>2. HexAA \in Byte /\ Hex55 \in Byte
  BY DEF Byte, HexAA, Hex55
<1>3. length % 256 \in Byte /\ length \div 256 \in Byte
  BY <1>1, LengthBytes
<1>4. Opening \in Seq(Byte) /\ Begun \in Seq(Byte)
  BY <1>1, <1>2, <1>3 DEF Opening, Begun
<1>5. Begun \o payload \in Seq(Byte)
  BY <1>1, <1>4, ConcatProperties
<1> QED BY <1>1, <1>2, <1>3, <1>4, <1>5

LEMMA KeptNext ==
  ASSUME TypeInv, TypeInv', Kept, Decode, Hears
  PROVE  Kept'
<1>1. /\ heard \in Seq(Byte) /\ payload \in Seq(Byte) /\ length \in Word
      /\ device_id \in Byte /\ cmd \in Byte /\ crc \in Byte /\ HexAA \in Byte /\ Hex55 \in Byte
      /\ length % 256 \in Byte /\ length \div 256 \in Byte
      /\ Opening \in Seq(Byte) /\ Begun \in Seq(Byte) /\ Begun \o payload \in Seq(Byte)
  BY KeptTypes
<1>2. b0 \in Byte
  BY TakesType DEF Decode, Head1, Head2, Len1, Len2, DeviceId, Cmd, Payload, CrcByte, Tail1,
                   Tail2, States
<1>3. packets' = packets => heard' = Append(heard, b0)
  BY DEF Hears
<1>4. CASE Head1
  <2>1. state' = (IF b0 = HexAA THEN "HEAD2" ELSE "HEAD1") /\ packets' = packets
    BY <1>4 DEF Head1, Takes, fields
  <2>2. CASE b0 = HexAA
    <3>1. state' = "HEAD2" /\ payload' = <<>>
      BY <1>4, <2>1, <2>2 DEF Head1
    <3>2. EndsWith(heard', <<HexAA>>)
      BY <1>1, <1>2, <1>3, <2>1, <2>2, EndsWithOne
    <3> QED BY <3>1, <3>2 DEF Kept
  <2>3. CASE b0 # HexAA
    <3>1. state' = "HEAD1"
      BY <2>1, <2>3
    <3> QED BY <3>1 DEF Kept
  <2> QED BY <2>2, <2>3
<1>5. CASE Head2
  <2>1. /\ state = "HEAD2" /\ state' = (IF b0 = Hex55 THEN "LEN1" ELSE "HEAD1")
        /\ packets' = packets /\ payload' = payload
    BY <1>5 DEF Head2, Takes, fields
  <2>2. CASE b0 = Hex55
    <3>1. EndsWith(heard, <<HexAA>>) /\ <<HexAA>> \in Seq(Byte) /\ payload = <<>>
      BY <1>1, <2>1 DEF Kept
    <3>2. EndsWith(Append(heard, b0), Append(<<HexAA>>, b0))
      BY <1>1, <1>2, <3>1, EndsWithMore
    <3>3. Append(<<HexAA>>, b0) = <<HexAA, Hex55>> /\ state' = "LEN1"
      BY <1>1, <2>1, <2>2, Spelt2
    <3> QED BY <1>3, <2>1, <3>1, <3>2, <3>3 DEF Kept
  <2>3. CASE b0 # Hex55
    <3>1. state' = "HEAD1"
      BY <2>1, <2>3
    <3> QED BY <3>1 DEF Kept
  <2> QED BY <2>2, <2>3
<1>6. CASE Len1
  <2>1. /\ state = "LEN1" /\ state' = "LEN2" /\ length' = b0
        /\ packets' = packets /\ payload' = payload
    BY <1>6 DEF Len1, Takes
  <2>2. EndsWith(heard, <<HexAA, Hex55>>) /\ <<HexAA, Hex55>> \in Seq(Byte) /\ payload = <<>>
    BY <1>1, <2>1 DEF Kept
  <2>3. EndsWith(Append(heard, b0), Append(<<HexAA, Hex55>>, b0))
    BY <1>1, <1>2, <2>2, EndsWithMore
  <2>4. Append(<<HexAA, Hex55>>, b0) = <<HexAA, Hex55, length'>>
    BY <1>1, <1>2, <2>1, Spelt3
  <2> QED BY <1>3, <2>1, <2>2, <2>3, <2>4 DEF Kept
<1>7. CASE Len2
  <2>1. /\ state = "LEN2" /\ state' = "DEVICE_ID" /\ length' = length + 256 * b0
        /\ packets' = packets /\ payload' = payload
    BY <1>7 DEF Len2, Takes
  <2>2. /\ EndsWith(heard, <<HexAA, Hex55, length>>) /\ payload = <<>>
        /\ length \in Byte /\ <<HexAA, Hex55, length>> \in Seq(Byte)
    BY <1>1, <2>1 DEF Kept, TypeInv
  <2>3. EndsWith(Append(heard, b0), Append(<<HexAA, Hex55, length>>, b0))
    BY <1>1, <1>2, <2>2, EndsWithMore
  <2>4. length' % 256 = length /\ length' \div 256 = b0
    <3>1. \A lo, hi \in Byte : (lo + 256 * hi) % 256 = lo /\ (lo + 256 * hi) \div 256 = hi
      BY DEF Byte
    <3> QED BY <1>2, <2>1, <2>2, <3>1
  <2>5. Append(<<HexAA, Hex55, length>>, b0) = Opening'
    BY <1>1, <1>2, <2>2, <2>4, Spelt4 DEF Opening
  <2> QED BY <1>3, <2>1, <2>2, <2>3, <2>5 DEF Kept
<1>8. CASE DeviceId
  <2>1. /\ state = "DEVICE_ID" /\ state' = "CMD" /\ length' = length /\ device_id' = b0
        /\ packets' = packets /\ payload' = payload
    BY <1>8 DEF DeviceId, Takes
  <2>2. EndsWith(heard, Opening) /\ payload = <<>>
    BY <2>1 DEF Kept
  <2>3. EndsWith(heard', Append(Opening, device_id)') 
    <3>1. EndsWith(Append(heard, b0), Append(Opening, b0))
      BY <1>1, <1>2, <2>2, EndsWithMore
    <3>2. Opening' = Opening
      BY <2>1 DEF Opening
    <3> QED BY <1>3, <2>1, <3>1, <3>2
  <2> QED BY <2>1, <2>2, <2>3 DEF Kept
<1>9. CASE Cmd
  <2>1. /\ state = "CMD" /\ state' = (IF length = 3 THEN "CRC" ELSE "PAYLOAD")
        /\ length' = length /\ device_id' = device_id /\ cmd' = b0
        /\ packets' = packets /\ payload' = payload
    BY <1>9 DEF Cmd, Takes
  <2>2. EndsWith(heard, Append(Opening, device_id)) /\ payload = <<>>
    BY <2>1 DEF Kept
  <2>3. /\ Append(Opening, device_id) \in Seq(Byte)
        /\ Append(Append(Opening, device_id), b0) = Begun'
    <3> DEFINE lo == length % 256
               hi == length \div 256
    <3>1. lo \in Byte /\ hi \in Byte
      BY <1>1
    <3>2. Opening = <<HexAA, Hex55, lo, hi>> /\ Begun' = <<HexAA, Hex55, lo, hi, device_id, b0>>
      BY <2>1 DEF Opening, Begun
    <3> HIDE DEF lo, hi
    <3>3. Append(Opening, device_id) = <<HexAA, Hex55, lo, hi, device_id>>
      BY <1>1, <1>2, <3>1, <3>2, Spelt5
    <3>4. Append(<<HexAA, Hex55, lo, hi, device_id>>, b0) = <<HexAA, Hex55, lo, hi, device_id, b0>>
      BY <1>1, <1>2, <3>1, Spelt6
    <3> QED BY <1>1, <3>2, <3>3, <3>4, AppendProperties
  <2>4. EndsWith(Append(heard, b0), Begun')
    BY <1>1, <1>2, <2>2, <2>3, EndsWithMore
  <2>5. Begun' \o payload' = Begun'
    <3>1. Begun' \in Seq(Byte)
      BY <1>2, <2>3, AppendProperties
    <3> QED BY <2>1, <2>2, <3>1, ConcatEmptySeq
  <2>6. state' = "CRC" => length' = Len(payload') + 3
    BY <2>1, <2>2
  <2> QED BY <1>3, <2>1, <2>4, <2>5, <2>6 DEF Kept
<1>10. CASE Payload
  <2>1. /\ state = "PAYLOAD"
        /\ state' = (IF Len(payload) + 1 = length - 3 THEN "CRC" ELSE "PAYLOAD")
        /\ length' = length /\ device_id' = device_id /\ cmd' = cmd
        /\ packets' = packets /\ payload' = Append(payload, b0)
    BY <1>10 DEF Payload, Takes
  <2>2. EndsWith(Append(heard, b0), Append(Begun \o payload, b0))
    <3>1. EndsWith(heard, Begun \o payload)
      BY <2>1 DEF Kept
    <3> QED BY <1>1, <1>2, <3>1, EndsWithMore
  <2>3. Append(Begun \o payload, b0) = Begun' \o payload'
    <3>1. /\ Append(Begun \o payload, b0) = (Begun \o payload) \o <<b0>>
          /\ Append(payload, b0) = payload \o <<b0>> /\ <<b0>> \in Seq(Byte)
      BY <1>1, <1>2, AppendIsConcat
    <3>2. (Begun \o payload) \o <<b0>> = Begun \o (payload \o <<b0>>)
      <4>1. Begun \in Seq(Byte) /\ payload \in Seq(Byte) /\ <<b0>> \in Seq(Byte)
        BY <1>1, <3>1
      <4> QED BY <4>1, Regrouped
    <3>3. Begun' = Begun
      BY <2>1 DEF Begun
    <3> QED BY <2>1, <3>1, <3>2, <3>3
  <2>4. state' = "CRC" => length' = Len(payload') + 3
    <3>1. Len(payload') = Len(payload) + 1 /\ Len(payload) \in Nat /\ length \in Nat
      BY <1>1, <1>2, <2>1 DEF Word
    <3> QED BY <2>1, <3>1
  <2> QED BY <1>3, <2>1, <2>2, <2>3, <2>4 DEF Kept
<1>11. CASE CrcByte
  <2>1. /\ state = "CRC" /\ state' = "TAIL1" /\ crc' = b0
        /\ length' = length /\ device_id' = device_id /\ cmd' = cmd
        /\ packets' = packets /\ payload' = payload
    BY <1>11 DEF CrcByte, Takes
  <2>2. EndsWith(Append(heard, b0), Append(Begun \o payload, b0)) /\ length = Len(payload) + 3
    <3>1. EndsWith(heard, Begun \o payload) /\ length = Len(payload) + 3
      BY <2>1 DEF Kept
    <3> QED BY <1>1, <1>2, <3>1, EndsWithMore
  <2>3. Append(Begun \o payload, b0) = (Begun' \o payload') \o <<crc'>>
    <3>1. Append(Begun \o payload, b0) = (Begun \o payload) \o <<b0>>
      BY <1>1, <1>2, AppendIsConcat
    <3>2. Begun' = Begun
      BY <2>1 DEF Begun
    <3> QED BY <2>1, <3>1, <3>2
  <2> QED BY <1>3, <2>1, <2>2, <2>3 DEF Kept
<1>12. CASE Tail1
  <2>1. /\ state = "TAIL1" /\ state' = (IF b0 = Hex55 THEN "TAIL2" ELSE "HEAD1")
        /\ length' = length /\ device_id' = device_id /\ cmd' = cmd /\ crc' = crc
        /\ packets' = packets /\ payload' = payload
    BY <1>12 DEF Tail1, Takes, fields
  <2>2. CASE b0 = Hex55
    <3>1. EndsWith(heard, (Begun \o payload) \o <<crc>>) /\ length = Len(payload) + 3
      BY <2>1 DEF Kept
    <3>2. <<crc>> \in Seq(Byte) /\ <<Hex55>> \in Seq(Byte) /\ <<crc>> \o <<Hex55>> = <<crc, Hex55>>
      <4>1. <<crc>> \in Seq(Byte) /\ <<Hex55>> \in Seq(Byte)
        BY <1>1
      <4>2. Append(<<crc>>, Hex55) = <<crc, Hex55>>
        BY <1>1, Spelt2
      <4> QED BY <1>1, <4>1, <4>2, AppendIsConcat
    <3>3. (Begun \o payload) \o <<crc>> \in Seq(Byte)
      BY <1>1, <3>2, ConcatProperties
    <3>4. EndsWith(Append(heard, b0), Append((Begun \o payload) \o <<crc>>, b0))
      BY <1>1, <1>2, <3>1, <3>3, EndsWithMore
    <3>5. Append((Begun \o payload) \o <<crc>>, Hex55) = (Begun \o payload) \o <<crc, Hex55>>
      <4>1. Append((Begun \o payload) \o <<crc>>, Hex55)
              = ((Begun \o payload) \o <<crc>>) \o <<Hex55>>
        BY <1>1, <3>3, AppendIsConcat
      <4>2. Begun \o payload \in Seq(Byte) /\ <<crc>> \in Seq(Byte) /\ <<Hex55>> \in Seq(Byte)
        BY <1>1, <3>2
      <4>3. ((Begun \o payload) \o <<crc>>) \o <<Hex55>> = (Begun \o payload) \o (<<crc>> \o <<Hex55>>)
        BY <4>2, Regrouped
      <4> QED BY <3>2, <4>1, <4>3
    <3>6. Begun' = Begun /\ state' = "TAIL2"
      BY <2>1, <2>2 DEF Begun
    <3> QED BY <1>3, <2>1, <2>2, <3>1, <3>4, <3>5, <3>6 DEF Kept
  <2>3. CASE b0 # Hex55
    <3>1. state' = "HEAD1"
      BY <2>1, <2>3
    <3> QED BY <3>1 DEF Kept
  <2> QED BY <2>2, <2>3
<1>13. CASE Tail2
  <2>1. state' = "HEAD1"
    BY <1>13 DEF Tail2, Takes
  <2> QED BY <2>1 DEF Kept
<1> QED BY <1>4, <1>5, <1>6, <1>7, <1>8, <1>9, <1>10, <1>11, <1>12, <1>13 DEF Decode

LEMMA AlwaysKept == DecoderSpec => []Kept
<1>1. Init => Kept
  BY DEF Init, Kept
<1>2. TypeInv /\ TypeInv' /\ Kept /\ [DecoderNext]_decoderVars => Kept'
  <2> SUFFICES ASSUME TypeInv, TypeInv', Kept, [DecoderNext]_decoderVars PROVE Kept'
    OBVIOUS
  <2>1. CASE \E f \in Frames : SendWhole(f) \/ SendFaulty(f)
    <3>1. UNCHANGED <<state, fields, packets, heard>>
      BY <2>1 DEF SendWhole, SendFaulty, Sends
    <3> QED BY <3>1 DEF fields, Kept, Opening, Begun
  <2>2. CASE Decode /\ Hears
    BY <2>2, KeptNext
  <2>3. CASE UNCHANGED decoderVars
    BY <2>3 DEF decoderVars, fields, Kept, Opening, Begun
  <2> QED BY <2>1, <2>2, <2>3 DEF DecoderNext
<1> QED BY <1>1, <1>2, AlwaysTyped, PTL DEF DecoderSpec

(* _decode_packet queues nothing but what the UART brought as a whole      *)
(* frame: 0xAA 0x55, the length of its payload, the fields it is queued    *)
(* with, their sum, 0x55 0xAA, one after another and after the packet      *)
(* before it.  So what a fault can do is to make the line say so.          *)
THEOREM QueuesWhatItHeardCorrect == DecoderSpec => QueuesWhatItHeard
<1> DEFINE Queues == packets' # packets
                       => LET p == Last(packets')
                          IN  /\ packets' = Append(packets, p)
                              /\ IsSuffix(Encode(p), Append(heard, b0))
<1>1. ASSUME TypeInv, Kept, Decode, packets' # packets
      PROVE  Queues
  <2>1. Tail2
    BY <1>1 DEF Decode, Head1, Head2, Len1, Len2, DeviceId, Cmd, Payload, CrcByte, Tail1, fields
  <2>2. /\ state = "TAIL2" /\ b0 = HexAA /\ crc = Crc(cmd, device_id, payload)
        /\ packets' = Append(packets, Packet)
    BY <1>1, <2>1 DEF Tail2, Takes
  <2>3. packets \in Seq(Rec) /\ Last(packets') = Packet
    BY <1>1, <2>2 DEF TypeInv, Last
  <2>4. /\ heard \in Seq(Byte) /\ payload \in Seq(Byte) /\ length \in Word
        /\ device_id \in Byte /\ cmd \in Byte /\ crc \in Byte /\ HexAA \in Byte /\ Hex55 \in Byte
        /\ length % 256 \in Byte /\ length \div 256 \in Byte
        /\ Opening \in Seq(Byte) /\ Begun \in Seq(Byte) /\ Begun \o payload \in Seq(Byte)
    BY <1>1, KeptTypes
  <2>5. EndsWith(heard, (Begun \o payload) \o <<crc, Hex55>>) /\ length = Len(payload) + 3
    BY <1>1, <2>2 DEF Kept
  <2>6. /\ <<crc, Hex55>> \in Seq(Byte) /\ <<HexAA>> \in Seq(Byte)
        /\ <<crc, Hex55>> \o <<HexAA>> = <<crc, Hex55, HexAA>>
    <3>1. <<crc, Hex55>> \in Seq(Byte) /\ <<HexAA>> \in Seq(Byte)
      BY <2>4
    <3>2. Append(<<crc, Hex55>>, HexAA) = <<crc, Hex55, HexAA>>
      BY <2>4, Spelt3
    <3> QED BY <2>4, <3>1, <3>2, AppendIsConcat
  <2>7. (Begun \o payload) \o <<crc, Hex55>> \in Seq(Byte)
    BY <2>4, <2>6, ConcatProperties
  <2>8. EndsWith(Append(heard, b0), Append((Begun \o payload) \o <<crc, Hex55>>, HexAA))
    BY <2>2, <2>4, <2>5, <2>7, EndsWithMore
  <2>9. Append((Begun \o payload) \o <<crc, Hex55>>, HexAA)
          = (Begun \o payload) \o <<crc, Hex55, HexAA>>
    <3>1. Append((Begun \o payload) \o <<crc, Hex55>>, HexAA)
            = ((Begun \o payload) \o <<crc, Hex55>>) \o <<HexAA>>
      BY <2>4, <2>7, AppendIsConcat
    <3>2. ((Begun \o payload) \o <<crc, Hex55>>) \o <<HexAA>>
            = (Begun \o payload) \o (<<crc, Hex55>> \o <<HexAA>>)
      BY <2>4, <2>6, ConcatAssociative
    <3> QED BY <2>6, <3>1, <3>2
  <2>10. crc = Crc(device_id, cmd, payload)
    <3> DEFINE t == Total(payload)
    <3>1. t \in Nat /\ device_id \in Nat /\ cmd \in Nat
      BY <2>4, TotalType DEF Byte
    <3> HIDE DEF t
    <3>2. device_id + cmd + t = cmd + device_id + t
      BY <3>1
    <3> QED BY <2>2, <3>2 DEF Crc, t
  <2>11. Encode(Packet) = (Begun \o payload) \o <<crc, Hex55, HexAA>>
    <3>1. Packet.payload = payload /\ Packet.device_id = device_id /\ Packet.cmd = cmd
      BY DEF Packet
    <3> HIDE DEF Packet
    <3> QED BY <2>5, <2>10, <3>1 DEF Encode, Begun
  <2>12. IsSuffix(Encode(Packet), Append(heard, b0))
    <3>1. Append(heard, b0) \in Seq(Byte) /\ Encode(Packet) \in Seq(Byte)
      BY <2>2, <2>4, <2>7, <2>9, <2>11, AppendProperties
    <3> QED BY <2>8, <2>9, <2>11, <3>1, EndsWithIsSuffix
  <2> QED BY <2>2, <2>3, <2>12
<1>2. TypeInv /\ Kept /\ [DecoderNext]_decoderVars => [Queues]_decoderVars
  <2> SUFFICES ASSUME TypeInv, Kept, DecoderNext, packets' # packets PROVE Queues
    BY DEF decoderVars
  <2>1. Decode
    BY DEF DecoderNext, SendWhole, SendFaulty, Sends
  <2> QED BY <1>1, <2>1
<1> QED BY <1>2, AlwaysTyped, AlwaysKept, PTL DEF DecoderSpec, QueuesWhatItHeard
=============================================================================
