------------------------- MODULE HidReports_proofs -------------------------
(***************************************************************************)
(* HID reports for every set of keys, any number of slots and of key       *)
(* movements: a report never holds more keys than it has slots, the        *)
(* modifiers reported last are those that are really down, and the reports *)
(* tell every key typed, in order, once.                                   *)
(***************************************************************************)
EXTENDS HidReports, SequenceTheorems, WellFoundedInduction, TLAPS

Byte == 0..255
Positions == [row: 0..3, col: 0..13]

(* The event bytes of a key, press and release.                            *)
LEMMA KeyBytes ==
  ASSUME NEW k \in Keys
  PROVE  /\ k \in Nat /\ 1 <= k /\ k <= 70
         /\ k \in Byte /\ 128 + k \in Byte
         /\ ~IsPress(k) /\ IsPress(128 + k)
         /\ Position(128 + k) = Position(k)
         /\ Position(k) \in Positions
<1>1. k \in Nat /\ 1 <= k /\ k <= 70
  BY HidAssumption
<1>2. k \in Byte /\ 128 + k \in Byte /\ ~IsPress(k) /\ IsPress(128 + k)
  BY <1>1 DEF Byte, IsPress
<1>3. k % 128 = k /\ (128 + k) % 128 = k
  BY <1>1
<1>4. Position(128 + k) = Position(k)
  BY <1>3 DEF Position
<1>5. Position(k) \in Positions
  <2> DEFINE r == (k - 1) \div 10
             c == (k - 1) % 10
  <2>1. r \in 0..6 /\ c \in 0..9
    BY <1>1
  <2> HIDE DEF r, c
  <2>2. (c + 4) % 4 \in 0..3
    BY <2>1
  <2>3. 2 * r \in 0..13 /\ (2 * r) + 1 \in 0..13
    BY <2>1
  <2>4. Position(k) = [row |-> (c + 4) % 4, col |-> IF c > 3 THEN 2 * r + 1 ELSE 2 * r]
    BY <1>3 DEF Position, r, c
  <2> QED BY <2>2, <2>3, <2>4 DEF Positions
<1> QED BY <1>1, <1>2, <1>4, <1>5

(* The events of the chip are those of the keys in use.                    *)
KeyByte == {b \in Byte : \E k \in Keys : b = k \/ b = 128 + k}

LEMMA EventPosition ==
  ASSUME NEW b \in KeyByte
  PROVE  Position(b) \in Positions /\ IsPress(b) \in BOOLEAN
<1>1. IsPress(b) \in BOOLEAN
  BY DEF IsPress
<1> QED BY <1>1, KeyBytes DEF KeyByte

(* Each row of the table has a code for each column.                       *)
LEMMA ScanCodes ==
  ASSUME NEW pos \in Positions
  PROVE  scancode[pos.row + 1][pos.col + 1] \in Byte
<1>1. pos.row \in 0..3 /\ pos.col \in 0..13
  BY DEF Positions
<1>2. \A j \in 0..13 : scancode[1][j + 1] \in Byte
  BY DEF scancode, Byte
<1>3. \A j \in 0..13 : scancode[2][j + 1] \in Byte
  BY DEF scancode, Byte
<1>4. \A j \in 0..13 : scancode[3][j + 1] \in Byte
  BY DEF scancode, Byte
<1>5. \A j \in 0..13 : scancode[4][j + 1] \in Byte
  BY DEF scancode, Byte
<1>6. pos.row + 1 \in {1, 2, 3, 4}
  BY <1>1
<1> QED BY <1>1, <1>2, <1>3, <1>4, <1>5, <1>6

LEMMA CodeType ==
  ASSUME NEW pos \in Positions, NEW fn \in BOOLEAN
  PROVE  Code(pos, fn) \in Byte
<1>1. {41, 42, 82, 80, 81, 79} \subseteq Byte
  BY DEF Byte
<1>2. pos \in FnKeys => FnCode(pos) \in {41, 42, 82, 80, 81, 79}
  BY DEF FnKeys, FnCode
<1> QED BY <1>1, <1>2, ScanCodes DEF Code

LEMMA ModifierType ==
  /\ \A pos : ModifierAt(pos) \subseteq Modifiers
  /\ PhysicalMask(held) \subseteq Modifiers
<1>1. \A pos : ModifierAt(pos) \subseteq Modifiers
  BY DEF ModifierAt, Modifiers, Key
<1> QED BY <1>1 DEF PhysicalMask

-----------------------------------------------------------------------------
(* Types.                                                                  *)

Events ==
  /\ unread \in Seq(KeyByte)
  /\ batch \in Seq(KeyByte)

TypeInv == TypeOK /\ Events

LEMMA BytesOfEvents == Seq(KeyByte) \subseteq Seq(0..255)
  BY DEF KeyByte, Byte

LEMMA EmptySlots ==
  NewReport \in Report /\ NewReport.keys = <<>> /\ Len(NewReport.keys) = 0
  BY DEF NewReport, Report

LEMMA InitType == Init => TypeInv
<1> SUFFICES ASSUME Init PROVE TypeInv
  OBVIOUS
<1>1. \A S : <<>> \in Seq(S)
  BY EmptySeq
<1>2. 0 < Slots /\ moves \in 0..MaxEvents
  BY HidAssumption DEF Init
<1>3. \A i \in DOMAIN reports : Len(reports[i].keys) <= Slots
  BY DEF Init
<1>4. TypeOK
  BY <1>1, <1>2, <1>3, EmptySlots DEF Init, TypeOK
<1> QED BY <1>1, <1>4 DEF Init, TypeInv, Events

LEMMA KeyMovesType ==
  ASSUME TypeInv, NEW k \in Keys, KeyMoves(k)
  PROVE  TypeInv'
<1>1. k \in KeyByte /\ 128 + k \in KeyByte /\ Position(k) \in Positions
  BY KeyBytes DEF KeyByte
<1>2. unread' \in Seq(KeyByte)
  BY <1>1, AppendProperties DEF TypeInv, Events, KeyMoves
<1>3. PhysicalFn(held') \in BOOLEAN
  BY DEF PhysicalFn
<1>4. typed' \in Seq([pos: [row: 0..3, col: 0..13], fn: BOOLEAN])
  BY <1>1, <1>3, AppendProperties DEF TypeInv, TypeOK, KeyMoves, Positions
<1>5. moves' \in 0..MaxEvents
  BY HidAssumption DEF TypeInv, TypeOK, KeyMoves
<1>6. held' \subseteq Keys
  BY DEF TypeInv, TypeOK, KeyMoves
<1> QED BY <1>2, <1>4, <1>5, <1>6, BytesOfEvents DEF TypeInv, TypeOK, Events, KeyMoves

LEMMA StartBatchType ==
  ASSUME TypeInv, StartBatch
  PROVE  TypeInv'
<1>1. <<>> \in Seq(KeyByte)
  BY EmptySeq
<1>2. 0 < Slots
  BY HidAssumption
<1> QED BY <1>1, <1>2, EmptySlots, BytesOfEvents DEF TypeInv, TypeOK, Events, StartBatch

(* A report sent is one of the reports, within its slots.                  *)
LEMMA SendType ==
  ASSUME TypeInv, NEW report \in Report, Len(report.keys) <= Slots, Send(report)
  PROVE  /\ reports' \in Seq(Report)
         /\ \A i \in DOMAIN reports' : Len(reports'[i].keys) <= Slots
         /\ lost' \in BOOLEAN
<1>1. reports' = Append(reports, report) /\ reports \in Seq(Report)
  BY DEF Send, TypeInv, TypeOK
<1>2. /\ reports' \in Seq(Report)
      /\ Len(reports') = Len(reports) + 1
      /\ \A i \in 1..Len(reports) : reports'[i] = reports[i]
      /\ reports'[Len(reports) + 1] = report
  BY <1>1, AppendProperties
<1>3. DOMAIN reports = 1..Len(reports) /\ Len(reports) \in Nat
      /\ DOMAIN reports' = 1..Len(reports')
  BY <1>1, <1>2, LenProperties
<1>4. \A i \in DOMAIN reports' : i \in 1..Len(reports) \/ i = Len(reports) + 1
  BY <1>2, <1>3
<1> QED BY <1>2, <1>3, <1>4 DEF Send, TypeInv, TypeOK

(* The report an event makes of the one before it.                         *)
After(byte) ==
  [mods |-> MaskAfter(byte),
   keys |-> IF IsPress(byte)
            THEN AppendKey(hid_report.keys, Code(Position(byte), FnAfter(byte)))
            ELSE hid_report.keys]

Fills(byte) == IsPress(byte) /\ Done(hid_report.keys)

(* HidEvent, with its alternatives as they are told apart below.           *)
LEMMA HidEventCases ==
  ASSUME HidEvent
  PROVE  /\ busy /\ batch # <<>>
         /\ fn_state' = FnAfter(Head(batch))
         /\ modifier_mask' = MaskAfter(Head(batch))
         /\ UNCHANGED <<held, unread, typed, moves>>
         /\ \/ /\ ~Fills(Head(batch))
               /\ hid_report' = After(Head(batch))
               /\ batch' = Tail(batch)
               /\ UNCHANGED <<busy, reports, lost>>
            \/ /\ Fills(Head(batch))
               /\ hid_report' = NewReport
               /\ batch' = Tail(batch)
               /\ UNCHANGED busy
               /\ Send(After(Head(batch)))
            \/ /\ Fills(Head(batch))
               /\ hid_report' = NewReport
               /\ SendFails
  BY Zenon DEF HidEvent, Fills, After

LEMMA AfterType ==
  ASSUME TypeInv, batch # <<>>
  PROVE  /\ Head(batch) \in KeyByte /\ Tail(batch) \in Seq(KeyByte)
         /\ FnAfter(Head(batch)) \in BOOLEAN
         /\ MaskAfter(Head(batch)) \subseteq Modifiers
         /\ After(Head(batch)) \in Report
         /\ Len(After(Head(batch)).keys) <= Slots
         /\ ~Fills(Head(batch)) => Len(After(Head(batch)).keys) < Slots
<1> DEFINE byte == Head(batch)
<1>1. byte \in KeyByte /\ Tail(batch) \in Seq(KeyByte)
  BY HeadTailProperties DEF TypeInv, Events
<1> HIDE DEF byte
<1>2. IsPress(byte) \in BOOLEAN /\ Position(byte) \in Positions
  BY <1>1, EventPosition
<1>3. FnAfter(byte) \in BOOLEAN
  <2>1. fn_state \in BOOLEAN
    BY DEF TypeInv, TypeOK
  <2> QED BY <1>2, <2>1, Zenon DEF FnAfter
<1>4. MaskAfter(byte) \subseteq Modifiers
  BY ModifierType DEF MaskAfter, TypeInv, TypeOK
<1>5. Code(Position(byte), FnAfter(byte)) \in Byte
  BY <1>2, <1>3, CodeType
<1>6. /\ hid_report.keys \in Seq(1..255) /\ Len(hid_report.keys) < Slots
      /\ Len(hid_report.keys) \in Nat /\ Slots \in Nat
  BY HidAssumption, LenProperties DEF TypeInv, TypeOK, Report
<1>7. ASSUME NEW c \in Byte
      PROVE  /\ AppendKey(hid_report.keys, c) \in Seq(1..255)
             /\ Len(AppendKey(hid_report.keys, c)) <= Len(hid_report.keys) + 1
  <2>1. CASE c = 0
    BY <2>1, <1>6 DEF AppendKey
  <2>2. CASE c # 0
    <3>1. c \in 1..255
      BY <2>2 DEF Byte
    <3> QED BY <2>2, <3>1, <1>6, AppendProperties DEF AppendKey
  <2> QED BY <2>1, <2>2
<1>8. /\ After(byte).keys \in Seq(1..255)
      /\ Len(After(byte).keys) <= Len(hid_report.keys) + 1
      /\ ~IsPress(byte) => Len(After(byte).keys) = Len(hid_report.keys)
  BY <1>5, <1>6, <1>7 DEF After
<1>9. After(byte) \in Report
  BY <1>4, <1>8 DEF After, Report
<1>10. Len(After(byte).keys) \in Nat
  BY <1>8, LenProperties
<1>11. ~Fills(byte) => Len(After(byte).keys) < Slots
  <2>1. ~Fills(byte) => ~IsPress(byte) \/ Len(hid_report.keys) # Slots - 1
    BY DEF Fills, Done
  <2> QED BY <2>1, <1>6, <1>8, <1>10
<1> QED BY <1>1, <1>3, <1>4, <1>6, <1>8, <1>9, <1>10, <1>11 DEF byte

LEMMA HidEventType ==
  ASSUME TypeInv, HidEvent
  PROVE  TypeInv'
<1> DEFINE byte == Head(batch)
<1>1. /\ byte \in KeyByte /\ Tail(batch) \in Seq(KeyByte)
      /\ FnAfter(byte) \in BOOLEAN /\ MaskAfter(byte) \subseteq Modifiers
      /\ After(byte) \in Report /\ Len(After(byte).keys) <= Slots
      /\ ~Fills(byte) => Len(After(byte).keys) < Slots
  BY AfterType, HidEventCases
<1>2. /\ fn_state' \in BOOLEAN /\ modifier_mask' \subseteq Modifiers
      /\ held' \subseteq Keys /\ unread' \in Seq(KeyByte)
      /\ typed' \in Seq([pos: [row: 0..3, col: 0..13], fn: BOOLEAN])
      /\ moves' \in 0..MaxEvents
  BY <1>1, HidEventCases DEF TypeInv, TypeOK, Events
<1>3. NewReport \in Report /\ Len(NewReport.keys) < Slots
  BY EmptySlots, HidAssumption
<1>4. <<>> \in Seq(KeyByte)
  BY EmptySeq
<1>5. CASE ~Fills(byte)
  BY <1>1, <1>2, <1>5, HidEventCases, BytesOfEvents DEF TypeInv, TypeOK, Events
<1>6. CASE Fills(byte) /\ hid_report' = NewReport /\ batch' = Tail(batch)
           /\ busy' = busy /\ Send(After(byte))
  <2>1. /\ reports' \in Seq(Report) /\ lost' \in BOOLEAN
        /\ \A i \in DOMAIN reports' : Len(reports'[i].keys) <= Slots
    BY <1>1, <1>6, SendType
  <2> QED BY <2>1, <1>1, <1>2, <1>3, <1>6, BytesOfEvents DEF TypeInv, TypeOK, Events
<1>7. CASE Fills(byte) /\ hid_report' = NewReport /\ SendFails
  BY <1>2, <1>3, <1>4, <1>7, BytesOfEvents DEF TypeInv, TypeOK, Events, SendFails
<1> QED BY <1>5, <1>6, <1>7, HidEventCases

LEMMA EndBatchType ==
  ASSUME TypeInv, EndBatch
  PROVE  TypeInv'
<1>1. UNCHANGED <<held, unread, hid_report, fn_state, modifier_mask, typed, moves>>
  BY DEF EndBatch
<1>2. <<>> \in Seq(KeyByte)
  BY EmptySeq
<1>3. CASE Send(hid_report) /\ busy' = FALSE /\ batch' = batch
  <2>1. hid_report \in Report /\ Len(hid_report.keys) <= Slots
    <3>1. hid_report.keys \in Seq(1..255)
      BY DEF TypeInv, TypeOK, Report
    <3>2. Len(hid_report.keys) \in Nat /\ Len(hid_report.keys) < Slots
      BY <3>1, LenProperties DEF TypeInv, TypeOK
    <3> QED BY <3>2, HidAssumption DEF TypeInv, TypeOK
  <2>2. /\ reports' \in Seq(Report) /\ lost' \in BOOLEAN
        /\ \A i \in DOMAIN reports' : Len(reports'[i].keys) <= Slots
    BY <2>1, <1>3, SendType
  <2> QED BY <2>2, <1>1, <1>3 DEF TypeInv, TypeOK, Events
<1>4. CASE SendFails
  BY <1>1, <1>2, <1>4, BytesOfEvents DEF TypeInv, TypeOK, Events, SendFails
<1> QED BY <1>3, <1>4 DEF EndBatch

(* In every behaviour the variables keep their types: a report being       *)
(* filled always has a free slot, and no report has more keys than slots,  *)
(* which _hid_handler ensures only by comparing one slot index.            *)
THEOREM TypeCorrect == HidSpec => []TypeOK
<1>1. TypeInv /\ [HidNext]_hidVars => TypeInv'
  <2> SUFFICES ASSUME TypeInv, [HidNext]_hidVars PROVE TypeInv'
    OBVIOUS
  <2>1. ASSUME NEW k \in Keys, KeyMoves(k) PROVE TypeInv'
    BY <2>1, KeyMovesType
  <2>2. CASE StartBatch
    BY <2>2, StartBatchType
  <2>3. CASE HidEvent
    BY <2>3, HidEventType
  <2>4. CASE EndBatch
    BY <2>4, EndBatchType
  <2>5. CASE UNCHANGED hidVars
    BY <2>5 DEF hidVars, TypeInv, TypeOK, Events
  <2> QED BY <2>1, <2>2, <2>3, <2>4, <2>5 DEF HidNext
<1>2. TypeInv => TypeOK
  BY DEF TypeInv
<1> QED BY InitType, <1>1, <1>2, PTL DEF HidSpec
-----------------------------------------------------------------------------
(* The modifiers.  Each has one key.  As long as no report is lost, the    *)
(* latest event of its key, among those still to be processed, tells       *)
(* whether it is down; with no such event modifier_mask does.              *)

Moves(byte, m) == m \in ModifierAt(Position(byte))

Quiet(s, m) == \A i \in DOMAIN s : ~Moves(s[i], m)

LatestTells(s, m, down) ==
  \A i \in DOMAIN s :
    /\ Moves(s[i], m)
    /\ \A j \in DOMAIN s : j > i => ~Moves(s[j], m)
    => (IsPress(s[i]) <=> down)

Down(m) == m \in PhysicalMask(held)

MaskInv ==
  /\ ~busy => batch = <<>>
  /\ \A m \in Modifiers :
       /\ LatestTells(unread, m, Down(m))
       /\ Quiet(unread, m) => LatestTells(batch, m, Down(m))
       /\ Quiet(unread, m) /\ Quiet(batch, m) => (m \in modifier_mask <=> Down(m))

(* The key of a modifier is the only one at its position.                  *)
LEMMA OneKeyEach ==
  ASSUME NEW k \in Keys, NEW l \in Keys, NEW m \in Modifiers, Moves(k, m), Moves(l, m)
  PROVE  k = l
<1>1. ASSUME NEW b \in Keys
      PROVE  /\ Position(b) = Key(2, 1) => b = 7
             /\ Position(b) = Key(3, 0) => b = 4
             /\ Position(b) = Key(3, 1) => b = 8
             /\ Position(b) = Key(3, 2) => b = 14
  <2> DEFINE r == (b - 1) \div 10
             c == (b - 1) % 10
  <2>1. b \in 1..70 /\ b % 128 = b
    BY HidAssumption
  <2>2. b = (10 * r) + c + 1 /\ r \in 0..6 /\ c \in 0..9
    BY <2>1
  <2> HIDE DEF r, c
  <2>3. Position(b) = [row |-> (c + 4) % 4, col |-> IF c > 3 THEN 2 * r + 1 ELSE 2 * r]
    BY <2>1 DEF Position, r, c
  <2>4. \A row, col : Position(b) = Key(row, col) =>
                        /\ (c + 4) % 4 = row
                        /\ (IF c > 3 THEN 2 * r + 1 ELSE 2 * r) = col
    BY <2>3 DEF Key
  <2>5. (c + 4) % 4 = 2 => c = 2 \/ c = 6
    BY <2>2
  <2>6. (c + 4) % 4 = 3 => c = 3 \/ c = 7
    BY <2>2
  <2> QED BY <2>2, <2>4, <2>5, <2>6
<1>2. ASSUME NEW b, Moves(b, m)
      PROVE  \/ m = "shift" /\ Position(b) = Key(2, 1)
             \/ m = "ctrl" /\ Position(b) = Key(3, 0)
             \/ m = "opt" /\ Position(b) = Key(3, 1)
             \/ m = "alt" /\ Position(b) = Key(3, 2)
  BY <1>2 DEF Moves, ModifierAt, Modifiers
<1> QED BY <1>1, <1>2

LEMMA AppendTells ==
  ASSUME NEW s \in Seq(KeyByte), NEW b \in KeyByte, NEW m, NEW down \in BOOLEAN
  PROVE  /\ (Moves(b, m) => (IsPress(b) <=> down)) /\ (~Moves(b, m) => LatestTells(s, m, down))
              => LatestTells(Append(s, b), m, down)
         /\ Quiet(Append(s, b), m) <=> Quiet(s, m) /\ ~Moves(b, m)
<1>1. /\ DOMAIN s = 1..Len(s) /\ Len(s) \in Nat
      /\ DOMAIN Append(s, b) = 1..(Len(s) + 1)
      /\ \A i \in 1..Len(s) : Append(s, b)[i] = s[i]
      /\ Append(s, b)[Len(s) + 1] = b
  BY LenProperties, AppendProperties
<1>2. Quiet(Append(s, b), m) <=> Quiet(s, m) /\ ~Moves(b, m)
  BY <1>1 DEF Quiet
<1>3. ASSUME Moves(b, m) => (IsPress(b) <=> down), ~Moves(b, m) => LatestTells(s, m, down)
      PROVE  LatestTells(Append(s, b), m, down)
  <2> SUFFICES ASSUME NEW i \in DOMAIN Append(s, b), Moves(Append(s, b)[i], m),
                      \A j \in DOMAIN Append(s, b) : j > i => ~Moves(Append(s, b)[j], m)
               PROVE  IsPress(Append(s, b)[i]) <=> down
    BY DEF LatestTells
  <2>1. CASE i = Len(s) + 1
    BY <1>1, <1>3, <2>1
  <2>2. CASE i \in 1..Len(s)
    <3>1. ~Moves(b, m)
      BY <1>1, <2>2
    <3>2. \A j \in DOMAIN s : j > i => ~Moves(s[j], m)
      BY <1>1
    <3> QED BY <1>1, <1>3, <2>2, <3>1, <3>2 DEF LatestTells
  <2> QED BY <1>1, <2>1, <2>2
<1> QED BY <1>2, <1>3

LEMMA TailTells ==
  ASSUME NEW s \in Seq(KeyByte), s # <<>>, NEW m, NEW down \in BOOLEAN,
         LatestTells(s, m, down)
  PROVE  /\ LatestTells(Tail(s), m, down)
         /\ Quiet(Tail(s), m) /\ Moves(Head(s), m) => (IsPress(Head(s)) <=> down)
         /\ Quiet(Tail(s), m) /\ ~Moves(Head(s), m) => Quiet(s, m)
<1>1. /\ DOMAIN s = 1..Len(s) /\ Len(s) \in Nat /\ Len(s) >= 1
      /\ DOMAIN Tail(s) = 1..(Len(s) - 1)
      /\ \A i \in 1..(Len(s) - 1) : Tail(s)[i] = s[i + 1]
      /\ Head(s) = s[1]
  BY LenProperties, HeadTailProperties, EmptySeq
<1>2. ASSUME Quiet(Tail(s), m)
      PROVE  \A j \in DOMAIN s : j > 1 => ~Moves(s[j], m)
  <2> SUFFICES ASSUME NEW j \in DOMAIN s, j > 1 PROVE ~Moves(s[j], m)
    OBVIOUS
  <2>1. j - 1 \in DOMAIN Tail(s) /\ Tail(s)[j - 1] = s[j]
    BY <1>1
  <2> QED BY <1>2, <2>1 DEF Quiet
<1>3. LatestTells(Tail(s), m, down)
  <2> SUFFICES ASSUME NEW i \in DOMAIN Tail(s), Moves(Tail(s)[i], m),
                      \A j \in DOMAIN Tail(s) : j > i => ~Moves(Tail(s)[j], m)
               PROVE  IsPress(Tail(s)[i]) <=> down
    BY DEF LatestTells
  <2>1. i + 1 \in DOMAIN s /\ s[i + 1] = Tail(s)[i]
    BY <1>1
  <2>2. ASSUME NEW j \in DOMAIN s, j > i + 1 PROVE ~Moves(s[j], m)
    <3>1. j - 1 \in DOMAIN Tail(s) /\ Tail(s)[j - 1] = s[j] /\ j - 1 > i
      BY <1>1, <2>2
    <3> QED BY <3>1
  <2> QED BY <2>1, <2>2 DEF LatestTells
<1>4. Quiet(Tail(s), m) /\ Moves(Head(s), m) => (IsPress(Head(s)) <=> down)
  BY <1>1, <1>2 DEF LatestTells
<1>5. Quiet(Tail(s), m) /\ ~Moves(Head(s), m) => Quiet(s, m)
  BY <1>1, <1>2 DEF Quiet
<1> QED BY <1>3, <1>4, <1>5

LEMMA EmptyQuiet ==
  ASSUME NEW m, NEW down PROVE Quiet(<<>>, m) /\ LatestTells(<<>>, m, down)
  BY DEF Quiet, LatestTells

(* A key movement changes the modifier of that key and no other.           *)
LEMMA KeyMovesDown ==
  ASSUME TypeInv, NEW k \in Keys, KeyMoves(k), NEW m \in Modifiers
  PROVE  /\ Moves(k, m) => Down(m)' = (k \notin held)
         /\ ~Moves(k, m) => Down(m)' = Down(m)
<1>1. held \subseteq Keys /\ held' = IF k \in held THEN held \ {k} ELSE held \cup {k}
  BY DEF TypeInv, TypeOK, KeyMoves
<1>2. /\ Down(m) <=> \E l \in held : Moves(l, m)
      /\ Down(m)' <=> \E l \in held' : Moves(l, m)
  BY DEF Down, PhysicalMask, Moves
<1>3. Down(m) \in BOOLEAN /\ Down(m)' \in BOOLEAN
  BY DEF Down
<1>4. ASSUME Moves(k, m) PROVE Down(m)' = (k \notin held)
  <2>1. \A l \in held : Moves(l, m) => l = k
    BY <1>1, <1>4, OneKeyEach
  <2> QED BY <1>1, <1>2, <1>3, <1>4, <2>1
<1>5. ASSUME ~Moves(k, m) PROVE Down(m)' = Down(m)
  <2>1. \A l : Moves(l, m) => (l \in held <=> l \in held')
    BY <1>1, <1>5
  <2> QED BY <1>2, <1>3, <2>1
<1> QED BY <1>4, <1>5

LEMMA KeyMovesMask ==
  ASSUME TypeInv, MaskInv, NEW k \in Keys, KeyMoves(k)
  PROVE  MaskInv'
<1> DEFINE b == IF k \in held THEN k ELSE 128 + k
<1>1. b \in KeyByte /\ (IsPress(b) <=> k \notin held) /\ Position(b) = Position(k)
  BY KeyBytes DEF KeyByte
<1>2. /\ unread' = Append(unread, b) /\ unread \in Seq(KeyByte)
      /\ batch' = batch /\ busy' = busy /\ modifier_mask' = modifier_mask
  BY DEF KeyMoves, TypeInv, Events
<1> HIDE DEF b
<1>3. ASSUME NEW m \in Modifiers
      PROVE  /\ LatestTells(unread', m, Down(m)')
             /\ Quiet(unread', m) => LatestTells(batch', m, Down(m)')
             /\ Quiet(unread', m) /\ Quiet(batch', m) => (m \in modifier_mask' <=> Down(m)')
  <2>1. Moves(b, m) <=> Moves(k, m)
    BY <1>1 DEF Moves
  <2>2. Down(m)' \in BOOLEAN
    BY DEF Down
  <2>3. /\ LatestTells(unread, m, Down(m))
        /\ Quiet(unread, m) => LatestTells(batch, m, Down(m))
        /\ Quiet(unread, m) /\ Quiet(batch, m) => (m \in modifier_mask <=> Down(m))
    BY DEF MaskInv
  <2>4. LatestTells(unread', m, Down(m)')
    BY <1>1, <1>2, <2>1, <2>2, <2>3, KeyMovesDown, AppendTells
  <2>5. Quiet(unread', m) <=> Quiet(unread, m) /\ ~Moves(k, m)
    BY <1>1, <1>2, <2>1, <2>2, AppendTells
  <2> QED BY <1>2, <2>3, <2>4, <2>5, KeyMovesDown
<1>4. ~busy' => batch' = <<>>
  BY <1>2 DEF MaskInv
<1> QED BY <1>3, <1>4 DEF MaskInv

LEMMA StartBatchMask ==
  ASSUME TypeInv, MaskInv, StartBatch
  PROVE  MaskInv'
<1>1. /\ batch = <<>> /\ busy' = TRUE /\ batch' = unread /\ unread' = <<>>
      /\ modifier_mask' = modifier_mask /\ held' = held
  BY DEF MaskInv, StartBatch
<1>2. \A m \in Modifiers : Down(m)' = Down(m)
  BY <1>1 DEF Down
<1>3. \A m \in Modifiers : Quiet(<<>>, m) /\ LatestTells(<<>>, m, Down(m))
  BY EmptyQuiet
<1> QED BY <1>1, <1>2, <1>3 DEF MaskInv

LEMMA HidEventMask ==
  ASSUME TypeInv, MaskInv, HidEvent, ~lost'
  PROVE  MaskInv'
<1> DEFINE b == Head(batch)
<1>1. /\ batch # <<>> /\ batch \in Seq(KeyByte) /\ b \in KeyByte
      /\ busy /\ busy' = busy /\ batch' = Tail(batch)
      /\ unread' = unread /\ held' = held /\ modifier_mask' = MaskAfter(b)
  BY HidEventCases, AfterType DEF TypeInv, Events, SendFails
<1> HIDE DEF b
<1>2. ASSUME NEW m \in Modifiers
      PROVE  /\ LatestTells(unread', m, Down(m)')
             /\ Quiet(unread', m) => LatestTells(batch', m, Down(m)')
             /\ Quiet(unread', m) /\ Quiet(batch', m) => (m \in modifier_mask' <=> Down(m)')
  <2>1. Down(m)' = Down(m) /\ Down(m) \in BOOLEAN
    BY <1>1 DEF Down
  <2>2. m \in MaskAfter(b) <=> IF Moves(b, m) THEN IsPress(b) ELSE m \in modifier_mask
    BY DEF MaskAfter, Moves
  <2>3. /\ LatestTells(unread, m, Down(m))
        /\ Quiet(unread, m) => LatestTells(batch, m, Down(m))
        /\ Quiet(unread, m) /\ Quiet(batch, m) => (m \in modifier_mask <=> Down(m))
    BY DEF MaskInv
  <2>4. Quiet(unread, m) =>
          /\ LatestTells(Tail(batch), m, Down(m))
          /\ Quiet(Tail(batch), m) /\ Moves(b, m) => (IsPress(b) <=> Down(m))
          /\ Quiet(Tail(batch), m) /\ ~Moves(b, m) => Quiet(batch, m)
    BY <1>1, <2>1, <2>3, TailTells DEF b
  <2> QED BY <1>1, <2>1, <2>2, <2>3, <2>4
<1> QED BY <1>1, <1>2 DEF MaskInv

LEMMA EndBatchMask ==
  ASSUME MaskInv, EndBatch, ~lost'
  PROVE  MaskInv'
<1>1. /\ unread' = unread /\ held' = held /\ modifier_mask' = modifier_mask
      /\ batch' = batch /\ batch = <<>>
  BY DEF EndBatch, SendFails
<1>2. \A m \in Modifiers : Down(m)' = Down(m)
  BY <1>1 DEF Down
<1> QED BY <1>1, <1>2 DEF MaskInv

-----------------------------------------------------------------------------
(* The reports.  The report being filled has the modifiers of modifier_mask*)
(* once an event is processed; if that event filled a report, the report   *)
(* just sent has them instead.                                             *)

Full(report) == Len(report.keys) >= Slots - 1

ReportInv ==
  /\ busy =>
       \/ hid_report.mods = modifier_mask
       \/ hid_report = NewReport /\ batch # <<>>
       \/ /\ hid_report = NewReport
          /\ reports # <<>>
          /\ reports[Len(reports)].mods = modifier_mask
          /\ Full(reports[Len(reports)])
  /\ ~busy /\ reports # <<>> =>
       \/ reports[Len(reports)].mods = modifier_mask
       \/ /\ reports[Len(reports)] = NewReport
          /\ Full(reports[Len(reports) - 1])
          /\ reports[Len(reports) - 1].mods = modifier_mask

LEMMA HidEventReport ==
  ASSUME TypeInv, HidEvent, ~lost'
  PROVE  ReportInv'
<1> DEFINE b == Head(batch)
<1>1. /\ busy' = TRUE /\ modifier_mask' = MaskAfter(b)
  BY HidEventCases DEF SendFails, TypeInv, TypeOK
<1>2. After(b) \in Report /\ After(b).mods = MaskAfter(b)
  BY AfterType, HidEventCases DEF After
<1>3. CASE hid_report' = After(b)
  BY <1>1, <1>2, <1>3 DEF ReportInv
<1>4. CASE Fills(b) /\ hid_report' = NewReport /\ Send(After(b))
  <2>1. /\ reports \in Seq(Report) /\ hid_report.keys \in Seq(1..255)
        /\ Len(hid_report.keys) \in Nat /\ Slots \in Nat
    BY HidAssumption, LenProperties DEF TypeInv, TypeOK, Report
  <2>2. reports' = Append(reports, After(b))
    BY <1>4 DEF Send
  <2>3. Len(reports') = Len(reports) + 1 /\ reports'[Len(reports')] = After(b)
        /\ reports' # <<>>
    BY <1>2, <2>1, <2>2, AppendProperties
  <2>4. Full(After(b))
    <3>1. IsPress(b) /\ Len(hid_report.keys) = Slots - 1
      BY <1>4 DEF Fills, Done
    <3>2. Len(After(b).keys) >= Slots - 1
      <4> DEFINE c == Code(Position(b), FnAfter(b))
      <4>1. After(b).keys = AppendKey(hid_report.keys, c)
        BY <3>1 DEF After
      <4> HIDE DEF c
      <4>2. CASE c = 0
        BY <2>1, <3>1, <4>1, <4>2 DEF AppendKey
      <4>3. CASE c # 0
        <5>1. After(b).keys = Append(hid_report.keys, c)
          BY <4>1, <4>3 DEF AppendKey
        <5>2. Len(Append(hid_report.keys, c)) = Len(hid_report.keys) + 1
          BY <2>1
        <5> QED BY <2>1, <3>1, <5>1, <5>2
      <4> QED BY <4>2, <4>3
    <3> QED BY <3>2 DEF Full
  <2> QED BY <1>1, <1>2, <1>4, <2>3, <2>4 DEF ReportInv
<1>5. CASE SendFails
  BY <1>5 DEF SendFails
<1> QED BY <1>3, <1>4, <1>5, HidEventCases

LEMMA EndBatchReport ==
  ASSUME TypeInv, ReportInv, EndBatch, ~lost'
  PROVE  ReportInv'
<1>1. /\ busy /\ batch = <<>> /\ reports' = Append(reports, hid_report) /\ busy' = FALSE
      /\ modifier_mask' = modifier_mask
  BY DEF EndBatch, SendFails, Send
<1>2. reports \in Seq(Report) /\ hid_report \in Report /\ Len(reports) \in Nat
  BY LenProperties DEF TypeInv, TypeOK
<1>3. /\ Len(reports') = Len(reports) + 1 /\ reports'[Len(reports')] = hid_report
      /\ \A i \in 1..Len(reports) : reports'[i] = reports[i]
  BY <1>1, <1>2, AppendProperties
<1>4. CASE hid_report.mods = modifier_mask
  BY <1>1, <1>3, <1>4 DEF ReportInv
<1>5. CASE /\ hid_report = NewReport
           /\ reports # <<>>
           /\ reports[Len(reports)].mods = modifier_mask
           /\ Full(reports[Len(reports)])
  <2>1. Len(reports) \in 1..Len(reports) /\ Len(reports') - 1 = Len(reports)
    BY <1>2, <1>3, <1>5, EmptySeq
  <2>2. reports'[Len(reports') - 1] = reports[Len(reports)]
    BY <1>3, <2>1
  <2> QED BY <1>1, <1>3, <1>5, <2>2 DEF ReportInv, Full
<1> QED BY <1>1, <1>4, <1>5 DEF ReportInv

(* The invariant the theorem rests on.                                     *)
IInv == TypeInv /\ (~lost => MaskInv /\ ReportInv)

LEMMA InitInv == Init => IInv
<1> SUFFICES ASSUME Init PROVE IInv
  OBVIOUS
<1>1. \A m \in Modifiers : ~Down(m) /\ m \notin modifier_mask
  BY DEF Init, Down, PhysicalMask
<1>2. MaskInv
  BY <1>1, EmptyQuiet DEF Init, MaskInv
<1>3. ReportInv
  BY DEF Init, ReportInv
<1> QED BY <1>2, <1>3, InitType DEF IInv

(* When all events are processed, the latest report tells the modifiers    *)
(* that are down, in every behaviour in which no report was lost to a full *)
(* scheduler: _update_modifier_mask is called for every event of every     *)
(* batch, and no report but the blank one after a full one leaves it out.  *)
THEOREM ModifiersSettleCorrect == HidSpec => []ModifiersSettle
<1>1. TypeInv /\ [HidNext]_hidVars => TypeInv'
  <2> SUFFICES ASSUME TypeInv, [HidNext]_hidVars PROVE TypeInv'
    OBVIOUS
  <2>1. CASE UNCHANGED hidVars
    BY <2>1 DEF hidVars, TypeInv, TypeOK, Events
  <2> QED BY <2>1, KeyMovesType, StartBatchType, HidEventType, EndBatchType DEF HidNext
<1>2. IInv /\ [HidNext]_hidVars => IInv'
  <2> SUFFICES ASSUME IInv, [HidNext]_hidVars, ~lost' PROVE MaskInv' /\ ReportInv'
    BY <1>1 DEF IInv
  <2> USE DEF IInv
  <2>1. ASSUME NEW k \in Keys, KeyMoves(k) PROVE MaskInv' /\ ReportInv'
    <3>1. ~lost /\ UNCHANGED <<batch, busy, hid_report, reports, modifier_mask>>
      BY <2>1 DEF KeyMoves
    <3> QED BY <2>1, <3>1, KeyMovesMask DEF ReportInv, Full
  <2>2. CASE StartBatch
    <3>1. /\ ~lost /\ busy' = TRUE /\ batch' = unread /\ unread # <<>>
          /\ hid_report' = NewReport
      BY <2>2 DEF StartBatch
    <3> QED BY <2>2, <3>1, StartBatchMask DEF ReportInv
  <2>3. CASE HidEvent
    <3>1. ~lost
      BY <2>3, HidEventCases DEF Send, SendFails
    <3> QED BY <2>3, <3>1, HidEventMask, HidEventReport
  <2>4. CASE EndBatch
    <3>1. ~lost
      BY <2>4 DEF EndBatch, Send, SendFails
    <3> QED BY <2>4, <3>1, EndBatchMask, EndBatchReport
  <2>5. CASE UNCHANGED hidVars
    BY <2>5 DEF hidVars, MaskInv, ReportInv, Full, Down, PhysicalMask
  <2> QED BY <2>1, <2>2, <2>3, <2>4, <2>5 DEF HidNext
<1>3. IInv => ModifiersSettle
  <2> SUFFICES ASSUME IInv, ~lost, Settled, reports # <<>>
               PROVE  LET Tells(i) == reports[i].mods = PhysicalMask(held)
                          n == Len(reports)
                      IN  \/ Tells(n)
                          \/ /\ reports[n] = NewReport
                             /\ Len(reports[n - 1].keys) >= Slots - 1
                             /\ Tells(n - 1)
    BY DEF ModifiersSettle
  <2>1. ~busy /\ unread = <<>> /\ batch = <<>>
    BY DEF Settled, IInv, MaskInv
  <2>2. \A m \in Modifiers : m \in modifier_mask <=> m \in PhysicalMask(held)
    BY <2>1, EmptyQuiet DEF IInv, MaskInv, Down
  <2>3. modifier_mask = PhysicalMask(held)
    BY <2>2, ModifierType DEF IInv, TypeInv, TypeOK
  <2> QED BY <2>1, <2>3 DEF IInv, ReportInv, Full
<1> QED BY InitInv, <1>2, <1>3, PTL DEF HidSpec
-----------------------------------------------------------------------------

(* Induction over the natural numbers, for a set of them.                  *)
LEMMA NatInd ==
  ASSUME NEW S \in SUBSET Nat, 0 \in S, \A n \in S : n + 1 \in S
  PROVE  S = Nat
<1> SUFFICES ASSUME Nat \ S # {} PROVE FALSE
  OBVIOUS
<1>1. PICK x \in Nat \ S : \A y \in Nat \ S : ~(<<y, x>> \in OpToRel(<, Nat))
  BY NatLessThanWellFounded, WFMin
<1>2. \A y \in Nat \ S : ~(y < x)
  BY <1>1 DEF OpToRel
<1>3. x # 0 /\ x - 1 \in Nat
  OBVIOUS
<1>4. x - 1 \in S
  BY <1>2, <1>3
<1> QED BY <1>3, <1>4

(* The parts of a sequence of sequences put together, up to each of them.  *)
JoinedTo(n, t, g) == g[0] = <<>> /\ \A i \in 1..n : g[i] = g[i - 1] \o t[i]

Joined(t, g) == JoinedTo(Len(t), t, g)

LEMMA JoinedExists ==
  ASSUME NEW S, NEW t \in Seq(Seq(S))
  PROVE  \E g \in [0..Len(t) -> Seq(S)] : Joined(t, g)
<1> DEFINE J(n, g) == JoinedTo(n, t, g)
           N == {n \in Nat : n <= Len(t) => \E g \in [0..n -> Seq(S)] : J(n, g)}
<1>1. Len(t) \in Nat /\ \A i \in 1..Len(t) : t[i] \in Seq(S)
  BY LenProperties, ElementOfSeq
<1>2. 0 \in N
  <2> DEFINE g == [i \in 0..0 |-> <<>>]
  <2>1. g \in [0..0 -> Seq(S)] /\ J(0, g)
    BY EmptySeq DEF JoinedTo
  <2> QED BY <2>1
<1>3. ASSUME NEW n \in N PROVE n + 1 \in N
  <2> SUFFICES ASSUME n + 1 <= Len(t) PROVE \E g \in [0..(n + 1) -> Seq(S)] : J(n + 1, g)
    <3>1. n + 1 \in Nat
      OBVIOUS
    <3> QED BY <3>1
  <2>1. n \in Nat /\ n <= Len(t) /\ t[n + 1] \in Seq(S)
    <3>1. n \in Nat
      OBVIOUS
    <3> QED BY <1>1, <3>1
  <2>2. PICK g \in [0..n -> Seq(S)] : J(n, g)
    BY <2>1
  <2> DEFINE h == [i \in 0..(n + 1) |-> IF i = n + 1 THEN g[n] \o t[n + 1] ELSE g[i]]
  <2>3. g[n] \o t[n + 1] \in Seq(S)
    BY <2>1, <2>2, ConcatProperties
  <2>4. h \in [0..(n + 1) -> Seq(S)]
    BY <2>1, <2>2, <2>3
  <2>5. h[n + 1] = g[n] \o t[n + 1] /\ \A i \in 0..n : h[i] = g[i]
    BY <2>1
  <2> HIDE DEF h
  <2>6. ASSUME NEW i \in 1..(n + 1) PROVE h[i] = h[i - 1] \o t[i]
    <3>1. CASE i = n + 1
      <4>1. n \in 0..n /\ i - 1 = n
        BY <2>1, <3>1
      <4>2. h[n] = g[n]
        BY <2>5, <4>1
      <4> QED BY <2>5, <3>1, <4>1, <4>2
    <3>2. CASE i \in 1..n
      <4>1. i \in 0..n /\ i - 1 \in 0..n
        BY <2>1, <3>2
      <4>2. g[i] = g[i - 1] \o t[i]
        BY <2>2, <3>2 DEF JoinedTo
      <4> QED BY <2>5, <4>1, <4>2
    <3>3. i = n + 1 \/ i \in 1..n
      BY <2>1
    <3> QED BY <3>1, <3>2, <3>3
  <2>7. h[0] = <<>>
    BY <2>1, <2>2, <2>5 DEF JoinedTo
  <2>8. J(n + 1, h)
    BY <2>6, <2>7 DEF JoinedTo
  <2> QED BY <2>4, <2>8
<1>4. N = Nat
  <2> HIDE DEF J
  <2>1. N \in SUBSET Nat
    OBVIOUS
  <2> HIDE DEF N
  <2> QED BY <1>2, <1>3, <2>1, NatInd
<1>5. \E g \in [0..Len(t) -> Seq(S)] : J(Len(t), g)
  <2>1. Len(t) \in N
    BY <1>1, <1>4
  <2>2. Len(t) <= Len(t)
    BY <1>1
  <2> QED BY <2>1, <2>2
<1> QED BY <1>5 DEF Joined

LEMMA FlattenJoins ==
  ASSUME NEW S, NEW t \in Seq(Seq(S)), NEW g \in [0..Len(t) -> Seq(S)], Joined(t, g)
  PROVE  FlattenSeq(t) = g[Len(t)]
<1> DEFINE IsFlatten(f) == f = [i \in 1..Len(t) |-> IF i = 1 THEN t[i] ELSE f[i - 1] \o t[i]]
           flatten == CHOOSE f : IsFlatten(f)
<1>1. Len(t) \in Nat /\ \A i \in 1..Len(t) : t[i] \in Seq(S)
  BY LenProperties, ElementOfSeq
<1>2. CASE Len(t) = 0
  <2>1. FlattenSeq(t) = t
    BY <1>2 DEF FlattenSeq
  <2>2. t = <<>>
    BY <1>2, EmptySeq
  <2> QED BY <1>2, <2>1, <2>2 DEF Joined, JoinedTo
<1>3. CASE Len(t) # 0
  <2>1. FlattenSeq(t) = flatten[Len(t)]
    BY <1>3 DEF FlattenSeq
  <2>2. \E f : IsFlatten(f)
    <3> DEFINE f == [i \in 1..Len(t) |-> g[i]]
    <3>1. ASSUME NEW i \in 1..Len(t)
          PROVE  g[i] = IF i = 1 THEN t[i] ELSE f[i - 1] \o t[i]
      <4>1. g[i] = g[i - 1] \o t[i]
        BY DEF Joined, JoinedTo
      <4>2. CASE i = 1
        <5>1. g[0] = <<>> /\ t[i] \in Seq(S) /\ i - 1 = 0
          BY <1>1, <4>2 DEF Joined, JoinedTo
        <5>2. <<>> \o t[i] = t[i]
          BY <5>1, ConcatEmptySeq
        <5> QED BY <4>1, <4>2, <5>1, <5>2
      <4>3. CASE i # 1
        <5>1. i - 1 \in 1..Len(t)
          BY <1>1, <4>3
        <5> QED BY <4>1, <4>3, <5>1
      <4> QED BY <4>2, <4>3
    <3>2. IsFlatten(f)
      BY <3>1
    <3> QED BY <3>2
  <2>3. IsFlatten(flatten)
    <3> HIDE DEF IsFlatten
    <3> QED BY <2>2
  <2> HIDE DEF flatten
  <2>4. \A i \in 1..Len(t) : flatten[i] = IF i = 1 THEN t[i] ELSE flatten[i - 1] \o t[i]
    BY <2>3
  <2> DEFINE N == {n \in Nat : n + 1 <= Len(t) => flatten[n + 1] = g[n + 1]}
  <2>5. 0 \in N
    <3> SUFFICES ASSUME 1 <= Len(t) PROVE flatten[1] = g[1]
      OBVIOUS
    <3>0. 1 \in 1..Len(t)
      BY <1>1
    <3>1. t[1] \in Seq(S) /\ g[0] = <<>> /\ g[1] = g[0] \o t[1]
      <4>1. g[1] = g[1 - 1] \o t[1]
        BY <3>0 DEF Joined, JoinedTo
      <4> QED BY <1>1, <3>0, <4>1 DEF Joined, JoinedTo
    <3>2. <<>> \o t[1] = t[1]
      BY <3>1, ConcatEmptySeq
    <3> QED BY <2>4, <3>0, <3>1, <3>2
  <2>6. ASSUME NEW n \in N PROVE n + 1 \in N
    <3> SUFFICES ASSUME n + 2 <= Len(t) PROVE flatten[n + 2] = g[n + 2]
      OBVIOUS
    <3>1. n \in Nat /\ flatten[n + 1] = g[n + 1]
      BY <1>1
    <3>2. n + 2 \in 1..Len(t) /\ n + 2 # 1 /\ (n + 2) - 1 = n + 1
      BY <1>1, <3>1
    <3>3. flatten[n + 2] = flatten[n + 1] \o t[n + 2]
      BY <2>4, <3>2
    <3>4. g[n + 2] = g[n + 1] \o t[n + 2]
      <4>1. g[n + 2] = g[(n + 2) - 1] \o t[n + 2]
        BY <3>2 DEF Joined, JoinedTo
      <4> QED BY <3>2, <4>1
    <3> QED BY <3>1, <3>3, <3>4
  <2>7. N = Nat
    <3>1. N \in SUBSET Nat
      OBVIOUS
    <3> HIDE DEF N
    <3> QED BY <2>5, <2>6, <3>1, NatInd
  <2>8. Len(t) - 1 \in Nat /\ (Len(t) - 1) + 1 = Len(t)
    BY <1>1, <1>3
  <2>9. Len(t) - 1 \in N
    <3> HIDE DEF N
    <3> QED BY <2>7, <2>8
  <2>10. flatten[Len(t)] = g[Len(t)]
    BY <1>1, <2>8, <2>9
  <2> QED BY <2>1, <2>10
<1> QED BY <1>2, <1>3

(* What FlattenSeq does when a sequence is added.                          *)
LEMMA FlattenAppend ==
  ASSUME NEW S, NEW s \in Seq(Seq(S)), NEW r \in Seq(S)
  PROVE  /\ FlattenSeq(s) \in Seq(S)
         /\ FlattenSeq(Append(s, r)) = FlattenSeq(s) \o r
<1> DEFINE t == Append(s, r)
           n == Len(s)
<1>1. /\ n \in Nat /\ t \in Seq(Seq(S)) /\ Len(t) = n + 1
      /\ t[n + 1] = r /\ \A i \in 1..n : t[i] = s[i]
  BY LenProperties, AppendProperties
<1>2. PICK g \in [0..n -> Seq(S)] : Joined(s, g)
  BY JoinedExists
<1>3. FlattenSeq(s) = g[n] /\ g[n] \in Seq(S)
  <2>1. n \in 0..n
    BY <1>1
  <2> QED BY <1>2, <2>1, FlattenJoins
<1> DEFINE h == [i \in 0..(n + 1) |-> IF i = n + 1 THEN g[n] \o r ELSE g[i]]
<1>4. /\ h \in [0..(n + 1) -> Seq(S)] /\ h[n + 1] = g[n] \o r
      /\ \A i \in 0..n : h[i] = g[i]
  <2>1. g[n] \o r \in Seq(S)
    BY <1>3, ConcatProperties
  <2> QED BY <1>1, <1>2, <2>1
<1> HIDE DEF t, h, n
<1>5. Joined(t, h)
  <2>1. ASSUME NEW i \in 1..Len(t) PROVE h[i] = h[i - 1] \o t[i]
    <3>1. CASE i = n + 1
      <4>1. i - 1 = n /\ n \in 0..n
        BY <1>1, <3>1 DEF n
      <4> QED BY <1>1, <1>4, <3>1, <4>1
    <3>2. CASE i \in 1..n
      <4>1. i \in 0..n /\ i - 1 \in 0..n
        BY <1>1, <3>2
      <4>2. g[i] = g[i - 1] \o s[i]
        BY <1>2, <3>2 DEF Joined, JoinedTo, n
      <4> QED BY <1>1, <1>4, <3>2, <4>1, <4>2
    <3> QED BY <1>1, <3>1, <3>2
  <2>2. h[0] = <<>>
    BY <1>1, <1>2, <1>4 DEF Joined, JoinedTo
  <2> QED BY <2>1, <2>2 DEF Joined, JoinedTo
<1>6. FlattenSeq(t) = h[n + 1]
  BY <1>1, <1>4, <1>5, FlattenJoins
<1> QED BY <1>3, <1>4, <1>6 DEF t
-----------------------------------------------------------------------------
(* The keys.  What is typed but not reported yet is in the events still to *)
(* be processed: going through them from FN state f, with m of the codes   *)
(* reported, ends in FN state g with n of them reported.                   *)

CodeOf(b, fn) == IF IsPress(b) THEN Code(Position(b), fn) ELSE 0

FnWith(b, fn) == IF IsFn(Position(b)) THEN IsPress(b) ELSE fn

Follows(b, f, g, m, n, codes) ==
  /\ g = FnWith(b, f)
  /\ IF CodeOf(b, g) = 0 THEN n = m ELSE n = m + 1 /\ codes[n] = CodeOf(b, g)

Accounts(q, f, g, m, n, codes) ==
  \E fn \in [0..Len(q) -> BOOLEAN] : \E at \in [0..Len(q) -> 0..Len(codes)] :
    /\ fn[0] = f /\ fn[Len(q)] = g
    /\ at[0] = m /\ at[Len(q)] = n
    /\ \A j \in 1..Len(q) : Follows(q[j], fn[j - 1], fn[j], at[j - 1], at[j], codes)

LEMMA AccountsNone ==
  ASSUME NEW codes \in Seq(Byte), NEW f \in BOOLEAN, NEW m \in 0..Len(codes), NEW g, NEW n
  PROVE  Accounts(<<>>, f, g, m, n, codes) <=> f = g /\ m = n
<1>1. Len(<<>>) = 0 /\ \A j \in 1..0 : FALSE
  OBVIOUS
<1>2. Accounts(<<>>, f, g, m, n, codes) => f = g /\ m = n
  BY <1>1 DEF Accounts
<1>3. Accounts(<<>>, f, f, m, m, codes)
  <2> DEFINE fn == [i \in 0..0 |-> f]
             at == [i \in 0..0 |-> m]
  <2>1. fn \in [0..0 -> BOOLEAN] /\ at \in [0..0 -> 0..Len(codes)] /\ fn[0] = f /\ at[0] = m
    OBVIOUS
  <2> HIDE DEF fn, at
  <2> QED BY <1>1, <2>1 DEF Accounts
<1> QED BY <1>2, <1>3

LEMMA AccountsExtended ==
  ASSUME NEW S, NEW q \in Seq(S), NEW codes \in Seq(Byte), NEW c \in Byte,
         NEW f, NEW g, NEW m, NEW n, Accounts(q, f, g, m, n, codes)
  PROVE  Accounts(q, f, g, m, n, Append(codes, c))
<1> DEFINE more == Append(codes, c)
<1>1. /\ Len(codes) \in Nat /\ Len(more) = Len(codes) + 1
      /\ \A i \in 1..Len(codes) : more[i] = codes[i]
      /\ Len(q) \in Nat
  BY LenProperties, AppendProperties
<1> HIDE DEF more
<1>2. PICK fn \in [0..Len(q) -> BOOLEAN], at \in [0..Len(q) -> 0..Len(codes)] :
        /\ fn[0] = f /\ fn[Len(q)] = g
        /\ at[0] = m /\ at[Len(q)] = n
        /\ \A j \in 1..Len(q) : Follows(q[j], fn[j - 1], fn[j], at[j - 1], at[j], codes)
  BY DEF Accounts
<1>3. at \in [0..Len(q) -> 0..Len(more)]
  BY <1>1
<1>4. ASSUME NEW j \in 1..Len(q)
      PROVE  Follows(q[j], fn[j - 1], fn[j], at[j - 1], at[j], more)
  <2>1. Follows(q[j], fn[j - 1], fn[j], at[j - 1], at[j], codes)
    BY <1>2
  <2>2. at[j - 1] \in 0..Len(codes) /\ at[j] \in 0..Len(codes)
    BY <1>1
  <2>3. at[j] = at[j - 1] + 1 => more[at[j]] = codes[at[j]]
    BY <1>1, <2>2
  <2> QED BY <2>1, <2>3 DEF Follows
<1>5. Accounts(q, f, g, m, n, more)
  BY <1>2, <1>3, <1>4 DEF Accounts
<1> QED BY <1>5 DEF more

LEMMA AccountsAppend ==
  ASSUME NEW S, NEW q \in Seq(S), NEW b \in S, NEW codes \in Seq(Byte),
         NEW f, NEW g, NEW m, NEW n, Accounts(q, f, g, m, n, codes),
         NEW g1 \in BOOLEAN, NEW n1 \in 0..Len(codes), Follows(b, g, g1, n, n1, codes)
  PROVE  Accounts(Append(q, b), f, g1, m, n1, codes)
<1> DEFINE r == Append(q, b)
<1>1. /\ Len(q) \in Nat /\ Len(r) = Len(q) + 1 /\ r[Len(q) + 1] = b
      /\ \A i \in 1..Len(q) : r[i] = q[i]
  BY LenProperties, AppendProperties
<1> HIDE DEF r
<1>2. PICK fn \in [0..Len(q) -> BOOLEAN], at \in [0..Len(q) -> 0..Len(codes)] :
        /\ fn[0] = f /\ fn[Len(q)] = g
        /\ at[0] = m /\ at[Len(q)] = n
        /\ \A j \in 1..Len(q) : Follows(q[j], fn[j - 1], fn[j], at[j - 1], at[j], codes)
  BY DEF Accounts
<1> DEFINE fn1 == [i \in 0..(Len(q) + 1) |-> IF i = Len(q) + 1 THEN g1 ELSE fn[i]]
           at1 == [i \in 0..(Len(q) + 1) |-> IF i = Len(q) + 1 THEN n1 ELSE at[i]]
<1>3. /\ fn1 \in [0..Len(r) -> BOOLEAN] /\ fn1[Len(q) + 1] = g1
      /\ \A i \in 0..Len(q) : fn1[i] = fn[i]
  BY <1>1
<1>4. /\ at1 \in [0..Len(r) -> 0..Len(codes)] /\ at1[Len(q) + 1] = n1
      /\ \A i \in 0..Len(q) : at1[i] = at[i]
  BY <1>1
<1> HIDE DEF fn1, at1
<1>5. ASSUME NEW j \in 1..Len(r)
      PROVE  Follows(r[j], fn1[j - 1], fn1[j], at1[j - 1], at1[j], codes)
  <2>1. CASE j = Len(q) + 1
    <3>1. j - 1 = Len(q) /\ Len(q) \in 0..Len(q)
      BY <1>1, <2>1
    <3>2. r[j] = b /\ fn1[j - 1] = g /\ fn1[j] = g1 /\ at1[j - 1] = n /\ at1[j] = n1
      BY <1>1, <1>2, <1>3, <1>4, <2>1, <3>1
    <3> QED BY <3>2
  <2>2. CASE j \in 1..Len(q)
    <3>1. j \in 0..Len(q) /\ j - 1 \in 0..Len(q)
      BY <1>1, <2>2
    <3>2. Follows(q[j], fn[j - 1], fn[j], at[j - 1], at[j], codes)
      BY <1>2, <2>2
    <3> QED BY <1>1, <1>3, <1>4, <2>2, <3>1, <3>2
  <2>3. j = Len(q) + 1 \/ j \in 1..Len(q)
    BY <1>1
  <2> QED BY <2>1, <2>2, <2>3
<1>6. fn1[0] = f /\ fn1[Len(r)] = g1 /\ at1[0] = m /\ at1[Len(r)] = n1
  BY <1>1, <1>2, <1>3, <1>4
<1>7. Accounts(r, f, g1, m, n1, codes)
  BY <1>3, <1>4, <1>5, <1>6 DEF Accounts
<1> QED BY <1>7 DEF r

LEMMA AccountsTail ==
  ASSUME NEW S, NEW q \in Seq(S), q # <<>>, NEW codes \in Seq(Byte),
         NEW f, NEW g, NEW m, NEW n, Accounts(q, f, g, m, n, codes)
  PROVE  \E f1 \in BOOLEAN, m1 \in 0..Len(codes) :
           /\ Follows(Head(q), f, f1, m, m1, codes)
           /\ Accounts(Tail(q), f1, g, m1, n, codes)
<1> DEFINE r == Tail(q)
<1>1. /\ Len(q) \in Nat /\ Len(q) >= 1 /\ Len(r) = Len(q) - 1 /\ Head(q) = q[1]
      /\ \A i \in 1..Len(r) : r[i] = q[i + 1]
  BY LenProperties, HeadTailProperties, EmptySeq
<1> HIDE DEF r
<1>2. PICK fn \in [0..Len(q) -> BOOLEAN], at \in [0..Len(q) -> 0..Len(codes)] :
        /\ fn[0] = f /\ fn[Len(q)] = g
        /\ at[0] = m /\ at[Len(q)] = n
        /\ \A j \in 1..Len(q) : Follows(q[j], fn[j - 1], fn[j], at[j - 1], at[j], codes)
  BY DEF Accounts
<1> DEFINE fn1 == [i \in 0..Len(r) |-> fn[i + 1]]
           at1 == [i \in 0..Len(r) |-> at[i + 1]]
<1>3. \A i \in 0..Len(r) : i + 1 \in 0..Len(q) /\ i + 1 \in 1..Len(q)
  BY <1>1
<1>4. /\ fn1 \in [0..Len(r) -> BOOLEAN] /\ at1 \in [0..Len(r) -> 0..Len(codes)]
      /\ \A i \in 0..Len(r) : fn1[i] = fn[i + 1] /\ at1[i] = at[i + 1]
  BY <1>2, <1>3
<1> HIDE DEF fn1, at1
<1>5. ASSUME NEW j \in 1..Len(r)
      PROVE  Follows(r[j], fn1[j - 1], fn1[j], at1[j - 1], at1[j], codes)
  <2>1. j \in 0..Len(r) /\ j - 1 \in 0..Len(r) /\ (j - 1) + 1 = j /\ (j + 1) - 1 = j
    BY <1>1
  <2>2. Follows(q[j + 1], fn[(j + 1) - 1], fn[j + 1], at[(j + 1) - 1], at[j + 1], codes)
    BY <1>2, <1>3, <2>1
  <2> QED BY <1>1, <1>4, <2>1, <2>2
<1>6. 0 \in 0..Len(r) /\ Len(r) \in 0..Len(r) /\ Len(r) + 1 = Len(q) /\ 0 + 1 = 1
  BY <1>1
<1>7. fn1[0] = fn[1] /\ fn1[Len(r)] = g /\ at1[0] = at[1] /\ at1[Len(r)] = n
  BY <1>2, <1>4, <1>6
<1>8. Accounts(r, fn[1], g, at[1], n, codes)
  BY <1>4, <1>5, <1>7 DEF Accounts
<1>9. fn[1] \in BOOLEAN /\ at[1] \in 0..Len(codes) /\ Follows(q[1], f, fn[1], m, at[1], codes)
  <2>1. 1 \in 1..Len(q) /\ 1 \in 0..Len(q) /\ 1 - 1 = 0
    BY <1>1
  <2>2. Follows(q[1], fn[1 - 1], fn[1], at[1 - 1], at[1], codes)
    BY <1>2, <2>1
  <2> QED BY <1>2, <2>1, <2>2
<1> QED BY <1>1, <1>8, <1>9 DEF r

Codes == [i \in DOMAIN typed |-> Code(typed[i].pos, typed[i].fn)]

Out == KeysOf(reports) \o (IF busy THEN hid_report.keys ELSE <<>>)

Heads(out, codes) ==
  Len(out) <= Len(codes) /\ \A i \in 1..Len(out) : out[i] = codes[i]

KeysInv ==
  /\ Heads(Out, Codes)
  /\ ~busy => batch = <<>>
  /\ \E g \in BOOLEAN : \E n \in 0..Len(Codes) :
       /\ Accounts(batch, fn_state, g, Len(Out), n, Codes)
       /\ Accounts(unread, g, PhysicalFn(held), n, Len(Codes), Codes)

LEMMA HeadsAppend ==
  ASSUME NEW out \in Seq(Byte), NEW codes \in Seq(Byte), Heads(out, codes), NEW c \in Byte
  PROVE  /\ Heads(out, Append(codes, c))
         /\ Len(out) + 1 <= Len(codes) /\ codes[Len(out) + 1] = c => Heads(Append(out, c), codes)
<1>1. /\ Len(out) \in Nat /\ Len(codes) \in Nat
      /\ Len(Append(codes, c)) = Len(codes) + 1
      /\ \A i \in 1..Len(codes) : Append(codes, c)[i] = codes[i]
      /\ Len(Append(out, c)) = Len(out) + 1 /\ Append(out, c)[Len(out) + 1] = c
      /\ \A i \in 1..Len(out) : Append(out, c)[i] = out[i]
  BY LenProperties, AppendProperties
<1>2. Heads(out, Append(codes, c))
  BY <1>1 DEF Heads
<1>3. ASSUME Len(out) + 1 <= Len(codes), codes[Len(out) + 1] = c
      PROVE  Heads(Append(out, c), codes)
  <2>1. \A i \in 1..(Len(out) + 1) : i \in 1..Len(out) \/ i = Len(out) + 1
    BY <1>1
  <2> QED BY <1>1, <1>3, <2>1 DEF Heads
<1> QED BY <1>2, <1>3

(* The codes typed, and those reported, are sequences of bytes.            *)
Press == [pos: Positions, fn: BOOLEAN]

LEMMA CodesType ==
  ASSUME TypeInv
  PROVE  typed \in Seq(Press) /\ Codes \in Seq(Byte) /\ Len(Codes) = Len(typed)
<1>1. typed \in Seq(Press)
  BY DEF TypeInv, TypeOK, Press, Positions
<1>2. \A p \in Press : Code(p.pos, p.fn) \in Byte
  BY CodeType DEF Press
<1> HIDE DEF Press
<1>3. DOMAIN typed = 1..Len(typed) /\ Len(typed) \in Nat /\ \A i \in 1..Len(typed) : typed[i] \in Press
  BY <1>1, LenProperties, ElementOfSeq
<1>4. Codes = [i \in 1..Len(typed) |-> Code(typed[i].pos, typed[i].fn)]
  BY <1>3 DEF Codes
<1>5. \A i \in 1..Len(typed) : Code(typed[i].pos, typed[i].fn) \in Byte
  BY <1>2, <1>3
<1>6. Codes \in Seq(Byte) /\ Len(Codes) = Len(typed)
  BY <1>3, <1>4, <1>5
<1> QED BY <1>1, <1>6

LEMMA CodesAppended ==
  ASSUME TypeInv, TypeInv', NEW p \in Press, typed' = Append(typed, p)
  PROVE  Codes' = Append(Codes, Code(p.pos, p.fn))
<1> DEFINE c == Code(p.pos, p.fn)
           s == Codes'
           t == Append(Codes, c)
<1>1. c \in Byte
  BY CodeType DEF Press
<1>2. /\ typed \in Seq(Press) /\ Codes \in Seq(Byte) /\ Len(Codes) = Len(typed)
      /\ Len(typed) \in Nat
  BY CodesType, LenProperties
<1> HIDE DEF Press, c
<1>3. /\ Len(typed') = Len(typed) + 1 /\ typed'[Len(typed) + 1] = p
      /\ DOMAIN typed' = 1..(Len(typed) + 1) /\ DOMAIN typed = 1..Len(typed)
      /\ \A i \in 1..Len(typed) : typed'[i] = typed[i]
  BY <1>2, AppendProperties, LenProperties
<1>4. s = [i \in 1..(Len(typed) + 1) |-> Code(typed'[i].pos, typed'[i].fn)]
  BY <1>3 DEF Codes
<1>5. s \in Seq(Byte) /\ Len(s) = Len(typed) + 1
  <2>1. ASSUME NEW i \in 1..(Len(typed) + 1) PROVE Code(typed'[i].pos, typed'[i].fn) \in Byte
    <3>1. i \in 1..Len(typed) \/ i = Len(typed) + 1
      BY <1>2
    <3>2. CASE i = Len(typed) + 1
      BY <1>1, <1>3, <3>2 DEF c
    <3>3. CASE i \in 1..Len(typed)
      <4>1. typed[i] \in Press
        BY <1>2, <3>3, ElementOfSeq
      <4>2. Code(typed[i].pos, typed[i].fn) \in Byte
        BY <4>1, CodeType DEF Press
      <4> QED BY <1>3, <3>3, <4>2
    <3> QED BY <3>1, <3>2, <3>3
  <2> HIDE DEF s
  <2> QED BY <1>2, <1>4, <2>1
<1>6. /\ t \in Seq(Byte) /\ Len(t) = Len(typed) + 1
      /\ \A i \in 1..Len(typed) : t[i] = Codes[i]
      /\ t[Len(typed) + 1] = c
  BY <1>1, <1>2, AppendProperties
<1>7. ASSUME NEW i \in 1..Len(s) PROVE s[i] = t[i]
  <2>1. i \in 1..(Len(typed) + 1)
    BY <1>5
  <2>2. s[i] = Code(typed'[i].pos, typed'[i].fn)
    <3> HIDE DEF s
    <3> QED BY <1>4, <2>1
  <2>3. CASE i = Len(typed) + 1
    BY <1>3, <1>6, <2>2, <2>3 DEF c
  <2>4. CASE i \in 1..Len(typed)
    <3>1. Codes[i] = Code(typed[i].pos, typed[i].fn)
      BY <1>3, <2>4 DEF Codes
    <3> QED BY <1>3, <1>6, <2>2, <2>4, <3>1
  <2> QED BY <1>2, <2>1, <2>3, <2>4
<1> HIDE DEF s, t
<1>8. s = t
  BY <1>5, <1>6, <1>7, SeqEqual
<1> QED BY <1>8 DEF s, t, c

LEMMA KeysOfReports ==
  ASSUME NEW rs \in Seq(Report)
  PROVE  /\ KeysOf(rs) \in Seq(1..255)
         /\ \A r \in Report : KeysOf(Append(rs, r)) = KeysOf(rs) \o r.keys
<1> DEFINE K(s) == [i \in DOMAIN s |-> s[i].keys]
<1>1. \A r \in Report : r.keys \in Seq(1..255)
  BY DEF Report
<1> HIDE DEF Report
<1>2. ASSUME NEW s \in Seq(Report)
      PROVE  K(s) \in Seq(Seq(1..255)) /\ Len(K(s)) = Len(s)
             /\ \A i \in 1..Len(s) : K(s)[i] = s[i].keys
  <2>1. DOMAIN s = 1..Len(s) /\ Len(s) \in Nat /\ \A i \in 1..Len(s) : s[i] \in Report
    BY LenProperties, ElementOfSeq
  <2>2. \A i \in 1..Len(s) : s[i].keys \in Seq(1..255)
    BY <1>1, <2>1
  <2>3. K(s) = [i \in 1..Len(s) |-> s[i].keys]
    BY <2>1
  <2> HIDE DEF K
  <2>4. K(s) \in [1..Len(s) -> Seq(1..255)]
    BY <2>2, <2>3
  <2>5. K(s) \in Seq(Seq(1..255)) /\ Len(K(s)) = Len(s)
    BY <2>1, <2>4
  <2> QED BY <2>3, <2>5
<1>3. ASSUME NEW r \in Report
      PROVE  K(Append(rs, r)) = Append(K(rs), r.keys)
  <2> DEFINE s == Append(rs, r)
             t == Append(K(rs), r.keys)
  <2>1. /\ s \in Seq(Report) /\ Len(s) = Len(rs) + 1 /\ s[Len(rs) + 1] = r
        /\ Len(rs) \in Nat /\ \A i \in 1..Len(rs) : s[i] = rs[i]
    BY LenProperties, AppendProperties
  <2>2. /\ K(s) \in Seq(Seq(1..255)) /\ Len(K(s)) = Len(s)
        /\ \A i \in 1..Len(s) : K(s)[i] = s[i].keys
    BY <1>2, <2>1
  <2>3. /\ K(rs) \in Seq(Seq(1..255)) /\ Len(K(rs)) = Len(rs)
        /\ \A i \in 1..Len(rs) : K(rs)[i] = rs[i].keys
    BY <1>2
  <2> HIDE DEF K, s
  <2>4. /\ t \in Seq(Seq(1..255)) /\ Len(t) = Len(rs) + 1
        /\ \A i \in 1..Len(rs) : t[i] = K(rs)[i]
        /\ t[Len(rs) + 1] = r.keys
    BY <1>1, <2>3, AppendProperties
  <2> HIDE DEF t
  <2>5. \A i \in 1..Len(s) : i \in 1..Len(rs) \/ i = Len(rs) + 1
    BY <2>1
  <2>6. \A i \in 1..Len(K(s)) : K(s)[i] = t[i]
    BY <2>1, <2>2, <2>3, <2>4, <2>5
  <2>7. K(s) = t
    BY <2>1, <2>2, <2>4, <2>6, SeqEqual
  <2> QED BY <2>7 DEF s, t
<1>4. \A s : KeysOf(s) = FlattenSeq(K(s))
  BY DEF KeysOf
<1> HIDE DEF K
<1>5. KeysOf(rs) \in Seq(1..255)
  <2>1. <<>> \in Seq(1..255)
    BY EmptySeq
  <2> QED BY <1>2, <1>4, <2>1, FlattenAppend
<1>6. ASSUME NEW r \in Report PROVE KeysOf(Append(rs, r)) = KeysOf(rs) \o r.keys
  BY <1>1, <1>2, <1>3, <1>4, FlattenAppend
<1> QED BY <1>5, <1>6

LEMMA OutType ==
  ASSUME TypeInv
  PROVE  /\ KeysOf(reports) \in Seq(Byte) /\ hid_report.keys \in Seq(Byte)
         /\ Out \in Seq(Byte)
         /\ busy => Out = KeysOf(reports) \o hid_report.keys
         /\ ~busy => Out = KeysOf(reports)
<1>1. Seq(1..255) \subseteq Seq(Byte)
  BY DEF Byte
<1>2. KeysOf(reports) \in Seq(Byte) /\ hid_report.keys \in Seq(Byte)
  BY <1>1, KeysOfReports DEF TypeInv, TypeOK, Report
<1>3. <<>> \in Seq(Byte)
  BY EmptySeq
<1>4. busy => Out = KeysOf(reports) \o hid_report.keys
  BY DEF Out
<1>5. ~busy => Out = KeysOf(reports)
  BY <1>2, ConcatEmptySeq DEF Out
<1>6. Out \in Seq(Byte)
  BY <1>2, <1>4, <1>5, ConcatProperties DEF TypeInv, TypeOK
<1> QED BY <1>2, <1>4, <1>5, <1>6

(* A key movement is accounted for by the event the chip queues for it.    *)
LEMMA FnFollows ==
  ASSUME TypeInv, NEW k \in Keys, held' = IF k \in held THEN held \ {k} ELSE held \cup {k}
  PROVE  PhysicalFn(held') = FnWith(IF k \in held THEN k ELSE 128 + k, PhysicalFn(held))
<1> DEFINE b == IF k \in held THEN k ELSE 128 + k
           Fn(l) == IsFn(Position(l))
<1>1. (IsPress(b) <=> k \notin held) /\ Position(b) = Position(k) /\ IsPress(b) \in BOOLEAN
  BY KeyBytes DEF IsPress
<1>2. \A l \in Keys : Fn(l) /\ Fn(k) => l = k
  <2> SUFFICES ASSUME NEW l \in Keys, Fn(l), Fn(k) PROVE l = k
    OBVIOUS
  <2>1. Position(l) = Key(2, 0) /\ Position(k) = Key(2, 0)
    BY DEF IsFn
  <2>2. ASSUME NEW j \in Keys, Position(j) = Key(2, 0) PROVE j = 3
    <3> DEFINE r == (j - 1) \div 10
               c == (j - 1) % 10
    <3>1. j \in 1..70 /\ j % 128 = j
      BY HidAssumption
    <3>2. j = (10 * r) + c + 1 /\ r \in 0..6 /\ c \in 0..9
      BY <3>1
    <3>3. Position(j) = [row |-> (c + 4) % 4, col |-> IF c > 3 THEN 2 * r + 1 ELSE 2 * r]
      BY <3>1 DEF Position
    <3> HIDE DEF r, c
    <3>4. (c + 4) % 4 = 2 /\ (IF c > 3 THEN 2 * r + 1 ELSE 2 * r) = 0
      BY <2>2, <3>3 DEF Key
    <3>5. c = 2 \/ c = 6
      BY <3>2, <3>4
    <3> QED BY <3>2, <3>4, <3>5
  <2> QED BY <2>1, <2>2
<1>3. /\ PhysicalFn(held) <=> \E l \in held : Fn(l)
      /\ PhysicalFn(held') <=> \E l \in held' : Fn(l)
      /\ PhysicalFn(held) \in BOOLEAN /\ PhysicalFn(held') \in BOOLEAN
  BY DEF PhysicalFn
<1>4. held \subseteq Keys
  BY DEF TypeInv, TypeOK
<1>5. CASE Fn(k)
  <2>1. PhysicalFn(held') <=> k \notin held
    <3> HIDE DEF Fn
    <3> QED BY <1>2, <1>3, <1>4, <1>5
  <2>2. FnWith(b, PhysicalFn(held)) = IsPress(b)
    BY <1>1, <1>5 DEF FnWith
  <2> HIDE DEF b
  <2> QED BY <1>1, <1>3, <2>1, <2>2 DEF b
<1>6. CASE ~Fn(k)
  <2>1. PhysicalFn(held') <=> PhysicalFn(held)
    <3> HIDE DEF Fn
    <3> QED BY <1>3, <1>4, <1>6
  <2>2. FnWith(b, PhysicalFn(held)) = PhysicalFn(held)
    BY <1>1, <1>6 DEF FnWith
  <2> HIDE DEF b
  <2> QED BY <1>3, <2>1, <2>2 DEF b
<1> QED BY <1>5, <1>6

LEMMA KeyMovesKeys ==
  ASSUME TypeInv, KeysInv, NEW k \in Keys, KeyMoves(k)
  PROVE  KeysInv'
<1> DEFINE b == IF k \in held THEN k ELSE 128 + k
           fn == PhysicalFn(held')
           p == [pos |-> Position(k), fn |-> fn]
           c == CodeOf(b, fn)
<1>1. /\ unread \in Seq(KeyByte) /\ batch \in Seq(KeyByte) /\ unread' = Append(unread, b)
      /\ held' = IF k \in held THEN held \ {k} ELSE held \cup {k}
      /\ UNCHANGED <<batch, busy, hid_report, reports, fn_state>>
  BY DEF KeyMoves, TypeInv, Events
<1>2. /\ b \in KeyByte /\ (IsPress(b) <=> k \notin held)
      /\ Position(b) = Position(k) /\ Position(k) \in Positions
  BY KeyBytes DEF KeyByte
<1>3. fn = FnWith(b, PhysicalFn(held)) /\ fn \in BOOLEAN
  <2>1. fn \in BOOLEAN
    BY DEF PhysicalFn
  <2> QED BY <1>1, <2>1, FnFollows
<1>4. /\ Codes \in Seq(Byte) /\ Out \in Seq(Byte) /\ Out' = Out
      /\ Len(Codes) \in Nat
  <2>1. Out' = Out
    BY <1>1 DEF Out
  <2> QED BY <2>1, CodesType, OutType, LenProperties
<1>5. c \in Byte /\ (IsPress(b) => c = Code(p.pos, p.fn)) /\ (~IsPress(b) => c = 0)
  BY <1>2, <1>3, CodeType DEF CodeOf, Byte
<1>6. Codes' = IF c = 0 THEN Codes ELSE Append(Codes, c)
  <2>1. typed' = IF ~IsPress(b) \/ Code(p.pos, p.fn) = 0 THEN typed ELSE Append(typed, p)
    BY <1>2 DEF KeyMoves
  <2>2. p \in Press /\ TypeInv'
    BY <1>2, <1>3, KeyMovesType DEF Press
  <2> HIDE DEF p, c
  <2>3. CASE c = 0
    <3>1. typed' = typed
      BY <1>5, <2>1, <2>3
    <3> QED BY <2>3, <3>1 DEF Codes
  <2>4. CASE c # 0
    <3>1. typed' = Append(typed, p) /\ c = Code(p.pos, p.fn)
      BY <1>5, <2>1, <2>4
    <3>2. Codes' = Append(Codes, c)
      BY <2>2, <3>1, CodesAppended
    <3> QED BY <2>4, <3>2
  <2> QED BY <2>3, <2>4
<1>7. Heads(Out', Codes')
  <2> HIDE DEF c
  <2> QED BY <1>4, <1>5, <1>6, HeadsAppend DEF KeysInv
<1>8. PICK g \in BOOLEAN, n \in 0..Len(Codes) :
        /\ Accounts(batch, fn_state, g, Len(Out), n, Codes)
        /\ Accounts(unread, g, PhysicalFn(held), n, Len(Codes), Codes)
  BY DEF KeysInv
<1>9. /\ Accounts(batch, fn_state, g, Len(Out), n, Codes')
      /\ Accounts(unread, g, PhysicalFn(held), n, Len(Codes), Codes')
  <2> HIDE DEF c
  <2>1. CASE c = 0
    BY <1>6, <1>8, <2>1
  <2>2. CASE c # 0
    <3>1. /\ Accounts(batch, fn_state, g, Len(Out), n, Append(Codes, c))
          /\ Accounts(unread, g, PhysicalFn(held), n, Len(Codes), Append(Codes, c))
      BY <1>1, <1>4, <1>5, <1>8, AccountsExtended
    <3> QED BY <1>6, <2>2, <3>1
  <2> QED BY <2>1, <2>2
<1>10. /\ Codes' \in Seq(Byte) /\ Len(Codes') \in 0..Len(Codes') /\ n \in 0..Len(Codes')
       /\ Follows(b, PhysicalFn(held), fn, Len(Codes), Len(Codes'), Codes')
  <2>1. CASE c = 0
    <3>1. Codes' = Codes
      BY <1>6, <2>1
    <3> QED BY <1>3, <1>4, <2>1, <3>1 DEF Follows
  <2>2. CASE c # 0
    <3> DEFINE more == Append(Codes, c)
    <3>1. /\ more \in Seq(Byte) /\ Len(more) = Len(Codes) + 1 /\ more[Len(Codes) + 1] = c
      BY <1>4, <1>5, AppendProperties
    <3>2. Codes' = more
      BY <1>6, <2>2
    <3> HIDE DEF more
    <3>3. Len(Codes') \in 0..Len(Codes') /\ n \in 0..Len(Codes')
      BY <1>4, <1>8, <3>1, <3>2
    <3> QED BY <1>3, <2>2, <3>1, <3>2, <3>3 DEF Follows
  <2> QED BY <2>1, <2>2
<1>11. Accounts(unread', g, fn, n, Len(Codes'), Codes')
  <2> HIDE DEF b, fn
  <2> QED BY <1>1, <1>2, <1>3, <1>9, <1>10, AccountsAppend
<1>12. ~busy' => batch' = <<>>
  BY <1>1 DEF KeysInv
<1>13. Accounts(batch', fn_state', g, Len(Out'), n, Codes')
  BY <1>1, <1>4, <1>9
<1> QED BY <1>7, <1>8, <1>10, <1>11, <1>12, <1>13 DEF KeysInv

LEMMA StartBatchKeys ==
  ASSUME TypeInv, KeysInv, StartBatch
  PROVE  KeysInv'
<1>1. /\ ~busy /\ busy' = TRUE /\ batch' = unread /\ unread' = <<>> /\ hid_report' = NewReport
      /\ UNCHANGED <<held, reports, fn_state, typed>> /\ batch = <<>>
  BY DEF StartBatch, KeysInv
<1>2. Out' = Out /\ Codes' = Codes
  <2>1. Out = KeysOf(reports) /\ KeysOf(reports) \in Seq(Byte)
    BY <1>1, OutType
  <2>2. Out' = KeysOf(reports) \o <<>>
    BY <1>1 DEF Out, NewReport
  <2> QED BY <1>1, <2>1, <2>2, ConcatEmptySeq DEF Codes
<1>3. PICK g \in BOOLEAN, n \in 0..Len(Codes) :
        /\ Accounts(batch, fn_state, g, Len(Out), n, Codes)
        /\ Accounts(unread, g, PhysicalFn(held), n, Len(Codes), Codes)
  BY DEF KeysInv
<1>4. /\ Codes \in Seq(Byte) /\ Len(Codes) \in Nat /\ Len(Codes) \in 0..Len(Codes)
      /\ Len(Out) \in 0..Len(Codes) /\ fn_state \in BOOLEAN /\ PhysicalFn(held) \in BOOLEAN
  <2>1. Len(Out) \in Nat /\ Len(Codes) \in Nat /\ Codes \in Seq(Byte)
    BY CodesType, OutType, LenProperties
  <2>2. PhysicalFn(held) \in BOOLEAN
    BY DEF PhysicalFn
  <2> QED BY <2>1, <2>2 DEF KeysInv, Heads, TypeInv, TypeOK
<1>5. g = fn_state /\ n = Len(Out)
  BY <1>1, <1>3, <1>4, AccountsNone
<1>6. Accounts(batch', fn_state', PhysicalFn(held'), Len(Out'), Len(Codes'), Codes')
  BY <1>1, <1>2, <1>3, <1>5
<1>7. Accounts(unread', PhysicalFn(held'), PhysicalFn(held'), Len(Codes'), Len(Codes'), Codes')
  BY <1>1, <1>2, <1>4, AccountsNone
<1>8. Heads(Out', Codes')
  BY <1>2 DEF KeysInv
<1> QED BY <1>1, <1>2, <1>4, <1>6, <1>7, <1>8 DEF KeysInv

(* A processed press adds its code, if it has one, to the keys reported,   *)
(* whether its report is sent or filled further.                           *)
LEMMA HidEventOut ==
  ASSUME TypeInv, HidEvent, ~lost'
  PROVE  LET c == CodeOf(Head(batch), FnAfter(Head(batch)))
         IN  Out' = IF c = 0 THEN Out ELSE Append(Out, c)
<1> DEFINE b == Head(batch)
           c == CodeOf(b, FnAfter(b))
           K == KeysOf(reports)
           keys == hid_report.keys
<1>1. /\ busy /\ busy' = TRUE /\ batch # <<>>
      /\ \/ hid_report' = After(b) /\ reports' = reports
         \/ hid_report' = NewReport /\ reports' = Append(reports, After(b))
  BY HidEventCases DEF Send, SendFails, TypeInv, TypeOK
<1>2. K \in Seq(Byte) /\ keys \in Seq(Byte) /\ Out = K \o keys /\ Out \in Seq(Byte)
  BY <1>1, OutType
<1>3. c \in Byte /\ After(b) \in Report /\ reports \in Seq(Report)
  <2>1. b \in KeyByte /\ FnAfter(b) \in BOOLEAN /\ After(b) \in Report
    BY <1>1, AfterType
  <2>2. c \in Byte
    BY <2>1, EventPosition, CodeType DEF CodeOf, Byte
  <2> QED BY <2>1, <2>2 DEF TypeInv, TypeOK
<1>4. After(b).keys = IF c = 0 THEN keys ELSE Append(keys, c)
  BY DEF After, CodeOf, AppendKey
<1>5. Out' = K \o After(b).keys
  <2>1. CASE hid_report' = After(b) /\ reports' = reports
    BY <1>1, <2>1 DEF Out
  <2>2. CASE hid_report' = NewReport /\ reports' = Append(reports, After(b))
    <3>1. KeysOf(reports') = K \o After(b).keys /\ KeysOf(reports') \in Seq(1..255)
      BY <1>3, <2>2, KeysOfReports, AppendProperties
    <3>2. Out' = KeysOf(reports') \o <<>>
      BY <1>1, <2>2 DEF Out, NewReport
    <3> QED BY <3>1, <3>2, ConcatEmptySeq
  <2> QED BY <1>1, <2>1, <2>2
<1> HIDE DEF c, K, keys, b
<1>6. CASE c = 0
  BY <1>2, <1>4, <1>5, <1>6 DEF c, b
<1>7. CASE c # 0
  <2>1. Append(keys, c) = keys \o <<c>> /\ Append(Out, c) = Out \o <<c>> /\ <<c>> \in Seq(Byte)
    BY <1>2, <1>3, AppendIsConcat
  <2>2. (K \o keys) \o <<c>> = K \o (keys \o <<c>>)
    BY <1>2, <2>1, ConcatAssociative
  <2> QED BY <1>2, <1>4, <1>5, <1>7, <2>1, <2>2 DEF c, b
<1> QED BY <1>6, <1>7

LEMMA HidEventKeys ==
  ASSUME TypeInv, KeysInv, HidEvent, ~lost'
  PROVE  KeysInv'
<1> DEFINE b == Head(batch)
           c == CodeOf(b, FnAfter(b))
<1>1. /\ busy /\ busy' = TRUE /\ batch # <<>> /\ batch' = Tail(batch)
      /\ fn_state' = FnAfter(b) /\ UNCHANGED <<held, unread, typed>>
      /\ batch \in Seq(KeyByte)
  BY HidEventCases DEF SendFails, TypeInv, TypeOK, Events
<1>2. FnAfter(b) = FnWith(b, fn_state) /\ Codes' = Codes
  BY <1>1 DEF FnAfter, FnWith, Codes
<1>3. PICK g \in BOOLEAN, n \in 0..Len(Codes) :
        /\ Accounts(batch, fn_state, g, Len(Out), n, Codes)
        /\ Accounts(unread, g, PhysicalFn(held), n, Len(Codes), Codes)
  BY DEF KeysInv
<1>4. Codes \in Seq(Byte) /\ Out \in Seq(Byte) /\ Heads(Out, Codes)
      /\ Len(Codes) \in Nat /\ Len(Out) \in Nat
  BY CodesType, OutType, LenProperties DEF KeysInv
<1>5. PICK f1 \in BOOLEAN, m1 \in 0..Len(Codes) :
        /\ Follows(b, fn_state, f1, Len(Out), m1, Codes)
        /\ Accounts(Tail(batch), f1, g, m1, n, Codes)
  BY <1>1, <1>3, <1>4, AccountsTail
<1>6. f1 = FnAfter(b) /\ IF c = 0 THEN m1 = Len(Out)
                         ELSE m1 = Len(Out) + 1 /\ Codes[m1] = c
  BY <1>2, <1>5 DEF Follows
<1>7. Out' = IF c = 0 THEN Out ELSE Append(Out, c)
  BY HidEventOut
<1>8. c \in Byte
  <2>1. b \in KeyByte /\ FnAfter(b) \in BOOLEAN
    BY <1>1, AfterType
  <2>2. Position(b) \in Positions
    BY <2>1, EventPosition
  <2>3. Code(Position(b), FnAfter(b)) \in Byte
    BY <2>1, <2>2, CodeType
  <2>4. 0 \in Byte
    BY DEF Byte
  <2> QED BY <2>3, <2>4 DEF CodeOf
<1> HIDE DEF b, c
<1>9. Len(Out') = m1 /\ Heads(Out', Codes')
  <2>1. CASE c = 0
    BY <1>2, <1>4, <1>6, <1>7, <2>1
  <2>2. CASE c # 0
    <3>1. Len(Append(Out, c)) = Len(Out) + 1
      BY <1>4, <1>8, AppendProperties
    <3>2. Len(Out) + 1 <= Len(Codes) /\ Codes[Len(Out) + 1] = c
      BY <1>4, <1>5, <1>6, <2>2
    <3>3. Heads(Append(Out, c), Codes)
      BY <1>4, <1>8, <3>2, HeadsAppend
    <3> QED BY <1>2, <1>6, <1>7, <2>2, <3>1, <3>3
  <2> QED BY <2>1, <2>2
<1>10. Accounts(batch', fn_state', g, Len(Out'), n, Codes')
  BY <1>1, <1>2, <1>5, <1>6, <1>9
<1>11. Accounts(unread', g, PhysicalFn(held'), n, Len(Codes'), Codes')
  BY <1>1, <1>2, <1>3
<1> QED BY <1>1, <1>2, <1>9, <1>10, <1>11 DEF KeysInv

LEMMA EndBatchKeys ==
  ASSUME TypeInv, KeysInv, EndBatch, ~lost'
  PROVE  KeysInv'
<1>1. /\ busy /\ busy' = FALSE /\ batch = <<>> /\ batch' = batch
      /\ reports' = Append(reports, hid_report)
      /\ UNCHANGED <<held, unread, fn_state, typed>>
  BY DEF EndBatch, Send, SendFails
<1>2. Out' = Out /\ Codes' = Codes
  <2>1. Out = KeysOf(reports) \o hid_report.keys
    BY <1>1, OutType
  <2>2. KeysOf(reports') = KeysOf(reports) \o hid_report.keys
        /\ KeysOf(reports') \in Seq(1..255)
    <3>1. reports \in Seq(Report) /\ hid_report \in Report
      BY DEF TypeInv, TypeOK
    <3> HIDE DEF Report
    <3>2. Append(reports, hid_report) \in Seq(Report)
      BY <3>1, AppendProperties
    <3> QED BY <1>1, <3>1, <3>2, KeysOfReports
  <2>3. Out' = KeysOf(reports') \o <<>>
    BY <1>1 DEF Out
  <2> QED BY <1>1, <2>1, <2>2, <2>3, ConcatEmptySeq DEF Codes
<1>3. PICK g \in BOOLEAN, n \in 0..Len(Codes) :
        /\ Accounts(batch, fn_state, g, Len(Out), n, Codes)
        /\ Accounts(unread, g, PhysicalFn(held), n, Len(Codes), Codes)
  BY DEF KeysInv
<1> QED BY <1>1, <1>2, <1>3 DEF KeysInv

(* What the accounts say once a batch is being processed, and once all are.*)
LEMMA KeysMeaning ==
  ASSUME TypeInv, KeysInv
  PROVE  /\ busy => IsPrefix(KeysOf(reports) \o hid_report.keys, Codes)
         /\ Settled => KeysOf(reports) = Codes
<1>1. /\ Codes \in Seq(Byte) /\ Out \in Seq(Byte) /\ Heads(Out, Codes)
      /\ Len(Codes) \in Nat /\ Len(Out) \in Nat
  BY CodesType, OutType, LenProperties DEF KeysInv
<1>2. IsPrefix(Out, Codes)
  <2>1. /\ Len(Out) <= Len(Codes)
        /\ \A i \in 1..Len(Out) : Out[i] = Codes[i] /\ Out[i] \in Byte
    BY <1>1, ElementOfSeq DEF Heads
  <2>2. SubSeq(Out, 1, Len(Out)) = Out
    BY <1>1, SubSeqFull
  <2>3. /\ SubSeq(Codes, 1, Len(Out)) \in Seq(Byte)
        /\ Len(SubSeq(Codes, 1, Len(Out))) = Len(Out)
        /\ \A i \in 1..Len(Out) : SubSeq(Codes, 1, Len(Out))[i] = Codes[i]
    <3>1. \A i \in 1..Len(Out) : Codes[i] \in Byte
      BY <2>1
    <3>2. /\ SubSeq(Codes, 1, Len(Out)) \in Seq(Byte)
          /\ Len(SubSeq(Codes, 1, Len(Out))) = IF 1 <= Len(Out) THEN Len(Out) - 1 + 1 ELSE 0
          /\ \A i \in 1..(Len(Out) - 1 + 1) : SubSeq(Codes, 1, Len(Out))[i] = Codes[1 + i - 1]
      BY <1>1, <3>1, SubSeqProperties
    <3> QED BY <1>1, <3>2
  <2>4. SubSeq(Codes, 1, Len(Out)) = Out
    BY <1>1, <2>1, <2>3, SeqEqual
  <2> QED BY <2>1, <2>2, <2>4 DEF IsPrefix
<1>3. Settled => KeysOf(reports) = Codes
  <2> SUFFICES ASSUME Settled PROVE KeysOf(reports) = Codes
    OBVIOUS
  <2>1. ~busy /\ unread = <<>> /\ batch = <<>> /\ Out = KeysOf(reports)
    BY OutType DEF Settled, KeysInv
  <2>2. PICK g \in BOOLEAN, n \in 0..Len(Codes) :
          /\ Accounts(batch, fn_state, g, Len(Out), n, Codes)
          /\ Accounts(unread, g, PhysicalFn(held), n, Len(Codes), Codes)
    BY DEF KeysInv
  <2>3. Len(Out) \in 0..Len(Codes) /\ fn_state \in BOOLEAN
    BY <1>1 DEF Heads, TypeInv, TypeOK
  <2>4. n = Len(Out)
    BY <1>1, <2>1, <2>2, <2>3, AccountsNone
  <2>5. Len(Codes) = n
    BY <1>1, <2>1, <2>2, AccountsNone
  <2> QED BY <1>1, <2>1, <2>4, <2>5, SeqEqual DEF Heads
<1> QED BY <1>2, <1>3, OutType

(* However key movements fall into batches, and whatever slots they fill,  *)
(* the reports tell every key typed, in order, each once, with the FN      *)
(* layer of its press, in every behaviour in which no report was lost to a *)
(* full scheduler: a report's end, a batch's end and a key without a code  *)
(* neither drop nor repeat a key.                                          *)
THEOREM EveryPressReportedCorrect == HidSpec => []EveryPressReported
<1> DEFINE Inv == TypeInv /\ (~lost => KeysInv)
<1>1. Init => Inv
  <2> SUFFICES ASSUME Init PROVE KeysInv
    BY InitType
  <2>1. /\ typed = <<>> /\ reports = <<>> /\ busy = FALSE /\ batch = <<>> /\ unread = <<>>
        /\ fn_state = FALSE /\ held = {}
    BY DEF Init
  <2>2. Codes = <<>> /\ Len(Codes) = 0 /\ Codes \in Seq(Byte)
    BY <2>1, EmptySeq DEF Codes
  <2>3. Out = <<>>
    <3>1. KeysOf(reports) = <<>>
      BY <2>1 DEF KeysOf, FlattenSeq
    <3>2. <<>> \in Seq(Byte)
      BY EmptySeq
    <3> QED BY <2>1, <3>1, <3>2, ConcatEmptySeq DEF Out
  <2>4. PhysicalFn(held) = fn_state /\ fn_state \in BOOLEAN
    BY <2>1 DEF PhysicalFn
  <2>5. Heads(Out, Codes)
    BY <2>2, <2>3 DEF Heads
  <2>6. Accounts(<<>>, fn_state, fn_state, 0, 0, Codes)
    <3>1. Codes \in Seq(Byte) /\ 0 \in 0..Len(Codes)
      BY <2>2
    <3> QED BY <2>4, <3>1, AccountsNone
  <2>7. Len(Out) = 0 /\ 0 \in 0..Len(Codes)
    BY <2>2, <2>3
  <2>8. KeysInv
    BY <2>1, <2>2, <2>4, <2>5, <2>6, <2>7 DEF KeysInv
  <2> QED BY <2>8
<1>2. TypeInv /\ [HidNext]_hidVars => TypeInv'
  <2> SUFFICES ASSUME TypeInv, [HidNext]_hidVars PROVE TypeInv'
    OBVIOUS
  <2>1. CASE UNCHANGED hidVars
    BY <2>1 DEF hidVars, TypeInv, TypeOK, Events
  <2> QED BY <2>1, KeyMovesType, StartBatchType, HidEventType, EndBatchType DEF HidNext
<1>3. Inv /\ [HidNext]_hidVars => Inv'
  <2> SUFFICES ASSUME Inv, [HidNext]_hidVars, ~lost' PROVE KeysInv'
    BY <1>2
  <2>1. ASSUME NEW k \in Keys, KeyMoves(k) PROVE KeysInv'
    <3>1. ~lost
      BY <2>1 DEF KeyMoves
    <3> QED BY <2>1, <3>1, KeyMovesKeys
  <2>2. CASE StartBatch
    <3>1. ~lost
      BY <2>2 DEF StartBatch
    <3> QED BY <2>2, <3>1, StartBatchKeys
  <2>3. CASE HidEvent
    <3>1. ~lost
      BY <2>3, HidEventCases DEF Send, SendFails
    <3> QED BY <2>3, <3>1, HidEventKeys
  <2>4. CASE EndBatch
    <3>1. ~lost
      BY <2>4 DEF EndBatch, Send, SendFails
    <3> QED BY <2>4, <3>1, EndBatchKeys
  <2>5. CASE UNCHANGED hidVars
    <3>1. ~lost
      BY <2>5 DEF hidVars
    <3> QED BY <2>5, <3>1 DEF hidVars, KeysInv, Out, Codes
  <2> QED BY <2>1, <2>2, <2>3, <2>4, <2>5 DEF HidNext
<1>4. Inv => EveryPressReported
  BY KeysMeaning DEF EveryPressReported, Codes
<1> QED BY <1>1, <1>3, <1>4, PTL DEF HidSpec
=============================================================================
