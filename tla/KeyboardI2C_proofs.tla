------------------------- MODULE KeyboardI2C_proofs -------------------------
(***************************************************************************)
(* Theorems about KeyboardI2C, for every set of switches, FIFO size, depth *)
(* of the scheduler's queue and number of key movements.                   *)
(***************************************************************************)
EXTENDS KeyboardRefinement, SequenceTheorems, FiniteSetTheorems, TLAPS

(* Adding to the scheduler's queue when there is room respects its depth.  *)
LEMMA ScheduleType ==
  ASSUME TypeOK, Room, NEW item \in Item
  PROVE  /\ Append(sched, item) \in Seq(Item)
         /\ Len(Append(sched, item)) <= SchedDepth
<1>1. sched \in Seq(Item) /\ Len(sched) \in Nat
  BY LenProperties DEF TypeOK
<1>2. /\ Append(sched, item) \in Seq(Item)
      /\ Len(Append(sched, item)) = Len(sched) + 1
  BY <1>1, AppendProperties
<1> QED BY <1>1, <1>2, SizesAssumption DEF Room

(* The items the keyboard schedules.                                       *)
LEMMA ItemTypes ==
  /\ Irq \in Item
  /\ Callback \in Item
  /\ Other \in Item
  /\ \A es \in Seq(Event) : Tick(es) \in Item
<1>1. <<>> \in Seq(Event)
  BY EmptySeq
<1> QED BY <1>1 DEF Irq, Callback, Other, Tick, Item

(* Starting the callback at the head of the queue keeps the queue's type.  *)
LEMMA StartType ==
  ASSUME TypeOK, sched # <<>>
  PROVE  /\ Head(sched) \in Item
         /\ Tail(sched) \in Seq(Item)
         /\ Len(Tail(sched)) <= SchedDepth
<1>1. sched \in Seq(Item) /\ Len(sched) \in Nat /\ Len(sched) <= SchedDepth
  BY LenProperties DEF TypeOK
<1>2. /\ Head(sched) \in Item
      /\ Tail(sched) \in Seq(Item)
      /\ Len(Tail(sched)) = Len(sched) - 1
  BY <1>1, HeadTailProperties
<1> QED BY <1>1, <1>2, SizesAssumption

(* A change of the INT pin keeps the types of what it touches.             *)
LEMMA SetKeyIntType ==
  ASSUME TypeOK, NEW b \in BOOLEAN, NEW wrong \in SUBSET Faults,
         SetKeyInt(b, wrong)
  PROVE  /\ key_int' \in BOOLEAN
         /\ sched' \in Seq(Item) /\ Len(sched') <= SchedDepth
         /\ faults' \subseteq Faults
<1>1. Room => Append(sched, Irq) \in Seq(Item) /\ Len(Append(sched, Irq)) <= SchedDepth
  BY ScheduleType, ItemTypes
<1>2. sched' \in Seq(Item) /\ Len(sched') <= SchedDepth
  BY <1>1 DEF TypeOK, SetKeyInt
<1> QED BY <1>2 DEF TypeOK, SetKeyInt, Faults

(* Every mask is a set of modifiers and every layer one of the four.       *)
LEMMA KeyEventType ==
  ASSUME TypeOK, NEW e \in Event
  PROVE  /\ FnAfter(e) \in BOOLEAN
         /\ MaskAfter(e) \in SUBSET Modifiers
         /\ KeyEventOf(e) \in KeyEvent
<1>1. \A pos : ModifierAt(pos) \subseteq Modifiers
  BY DEF ModifierAt, Modifiers, Key
<1>2. MaskAfter(e) \in SUBSET Modifiers
  BY <1>1 DEF MaskAfter, TypeOK
<1>3. FnAfter(e) \in BOOLEAN
  <2>1. IsPress(e.byte) \in BOOLEAN
    BY DEF IsPress, Event
  <2>2. fn_state \in BOOLEAN
    BY DEF TypeOK
  <2> QED BY <2>1, <2>2, Zenon DEF FnAfter
<1>4. \A pos, mask, fn : Layer(pos, mask, fn) \in Layers
  BY DEF Layer, Layers
<1> QED BY <1>2, <1>3, <1>4 DEF KeyEventOf, KeyEvent, Event

-----------------------------------------------------------------------------
(* Types are preserved, action by action.                                  *)

LEMMA KeyMovesType ==
  ASSUME TypeOK, NEW k \in Keys, KeyMoves(k)
  PROVE  TypeOK'
<1> DEFINE e == [n    |-> count',
                 byte |-> IF k \in held THEN k ELSE 128 + k,
                 held |-> held']
<1>1. count' \in 1..MaxEvents /\ held' \subseteq Keys
  BY SizesAssumption DEF KeyMoves, TypeOK
<1>2. e \in Event
  BY <1>1, KeysAssumption DEF Event
<1>a. Len(fifo) \in Nat /\ FifoSize \in Nat
  BY LenProperties, SizesAssumption DEF TypeOK
<1>3. CASE Len(fifo) < FifoSize
  <2>1. fifo' = Append(fifo, e) /\ SetKeyInt(TRUE, {})
    <3>1. Len(fifo) # FifoSize
      BY <1>3, <1>a
    <3> QED BY <3>1 DEF KeyMoves
  <2>2. fifo' \in Seq(Event) /\ Len(fifo') = Len(fifo) + 1
    BY <1>2, <2>1, AppendProperties DEF TypeOK
  <2>3. Len(fifo') <= FifoSize
    BY <1>3, <2>2, LenProperties, SizesAssumption DEF TypeOK
  <2>4. /\ key_int' \in BOOLEAN
        /\ sched' \in Seq(Item) /\ Len(sched') <= SchedDepth
        /\ faults' \subseteq Faults
    BY <2>1, SetKeyIntType
  <2> QED BY <1>1, <2>2, <2>3, <2>4 DEF TypeOK, KeyMoves, driver
<1>4. CASE Len(fifo) = FifoSize
  <2>1. /\ fifo' = fifo /\ key_int' = key_int /\ sched' = sched
        /\ faults' \subseteq Faults
    <3>1. ~(Len(fifo) < FifoSize)
      BY <1>4, <1>a
    <3> QED BY <3>1 DEF KeyMoves, TypeOK, Faults
  <2> QED BY <1>1, <2>1 DEF TypeOK, KeyMoves, driver
<1> QED BY <1>3, <1>4 DEF KeyMoves

LEMMA IrqHandlerType ==
  ASSUME TypeOK, IrqHandler
  PROVE  TypeOK'
<1>1. CASE StartIrq
  BY <1>1, StartType DEF TypeOK, StartIrq, chip, driver
<1>2. CASE ReadKeyInt
  BY <1>2 DEF TypeOK, ReadKeyInt, chip, driver
<1>3. CASE ReadAny
  BY <1>3 DEF TypeOK, ReadAny, chip, driver
<1>4. CASE ReadMore
  BY <1>4 DEF TypeOK, ReadMore, chip, driver
<1>5. CASE ReadNext
  <2>1. fifo \in Seq(Event) /\ fifo # <<>> /\ Len(fifo) \in Nat
    BY <1>5, LenProperties DEF TypeOK, ReadNext
  <2>2. /\ Head(fifo) \in Event
        /\ Tail(fifo) \in Seq(Event)
        /\ Len(Tail(fifo)) = Len(fifo) - 1
    BY <2>1, HeadTailProperties
  <2>3. Append(events, Head(fifo)) \in Seq(Event)
    BY <2>2, AppendProperties DEF TypeOK
  <2> QED BY <1>5, <2>1, <2>2, <2>3, SizesAssumption DEF TypeOK, ReadNext, driver
<1>6. CASE ScheduleTick
  <2>1. Tick(events) \in Item /\ <<>> \in Seq(Event)
    BY ItemTypes, EmptySeq DEF TypeOK
  <2>2. Room => /\ Append(sched, Tick(events)) \in Seq(Item)
                /\ Len(Append(sched, Tick(events))) <= SchedDepth
    BY <2>1, ScheduleType
  <2>3. /\ sched' \in Seq(Item) /\ Len(sched') <= SchedDepth
        /\ faults' \subseteq Faults
        /\ pc' \in {"clear", "idle"}
    BY <1>6, <2>2 DEF TypeOK, ScheduleTick, Faults
  <2> QED BY <1>6, <2>1, <2>3 DEF TypeOK, ScheduleTick, chip, driver
<1>7. CASE ClearKeyInt
  <2>1. PICK b \in BOOLEAN, wrong \in SUBSET Faults : SetKeyInt(b, wrong)
    BY <1>7 DEF ClearKeyInt, WriteKeyInt, TypeOK, Faults
  <2>2. /\ key_int' \in BOOLEAN
        /\ sched' \in Seq(Item) /\ Len(sched') <= SchedDepth
        /\ faults' \subseteq Faults
    BY <2>1, SetKeyIntType
  <2> QED BY <1>7, <2>2 DEF TypeOK, ClearKeyInt, chip, driver
<1> QED BY <1>1, <1>2, <1>3, <1>4, <1>5, <1>6, <1>7 DEF IrqHandler

LEMMA AsciiHandlerType ==
  ASSUME TypeOK, AsciiHandler
  PROVE  TypeOK'
<1>1. CASE StartTick
  BY <1>1, StartType DEF TypeOK, StartTick, Item, chip, driver
<1>2. CASE AsciiEvent
  <2> DEFINE e == Head(todo)
  <2>1. e \in Event /\ Tail(todo) \in Seq(Event) /\ <<>> \in Seq(Event)
    BY <1>2, HeadTailProperties, EmptySeq DEF TypeOK, AsciiEvent
  <2>2. /\ FnAfter(e) \in BOOLEAN
        /\ MaskAfter(e) \in SUBSET Modifiers
        /\ KeyEventOf(e) \in KeyEvent
    BY <2>1, KeyEventType
  <2>3. Append(keyevents, KeyEventOf(e)) \in Seq(KeyEvent)
    BY <2>2, AppendProperties DEF TypeOK
  <2>4. Room => /\ Append(sched, Callback) \in Seq(Item)
                /\ Len(Append(sched, Callback)) <= SchedDepth
    BY ScheduleType, ItemTypes
  <2>5. sched' \in Seq(Item) /\ Len(sched') <= SchedDepth
    BY <1>2, <2>4 DEF TypeOK, AsciiEvent
  <2>6. todo' \in Seq(Event) /\ faults' \subseteq Faults
    BY <1>2, <2>1 DEF TypeOK, AsciiEvent, Faults
  <2>7. keyevents' \in Seq(KeyEvent)
    BY <1>2, <2>3 DEF TypeOK, AsciiEvent
  <2>8. fn_state' \in BOOLEAN /\ modifier_mask' \subseteq Modifiers
    BY <1>2, <2>2 DEF AsciiEvent
  <2> QED BY <1>2, <2>5, <2>6, <2>7, <2>8 DEF TypeOK, AsciiEvent, chip
<1>3. CASE EndTick
  BY <1>3 DEF TypeOK, EndTick, chip, driver
<1> QED BY <1>1, <1>2, <1>3 DEF AsciiHandler

LEMMA GetKeyType ==
  ASSUME TypeOK, GetKey
  PROVE  /\ keyevents' \in Seq(KeyEvent)
         /\ taken' \in Seq(KeyEvent)
         /\ fn_state' \in BOOLEAN
         /\ modifier_mask' \subseteq Modifiers
<1>1. keyevents # <<>> => /\ Head(keyevents) \in KeyEvent
                          /\ Tail(keyevents) \in Seq(KeyEvent)
                          /\ Append(taken, Head(keyevents)) \in Seq(KeyEvent)
  BY HeadTailProperties, AppendProperties DEF TypeOK
<1> QED BY <1>1 DEF GetKey, TypeOK

LEMMA NextType ==
  ASSUME TypeOK, [Next]_vars
  PROVE  TypeOK'
<1>1. CASE \E k \in Keys : KeyMoves(k)
  BY <1>1, KeyMovesType
<1>2. CASE OthersSchedule
  <2>1. Append(sched, Other) \in Seq(Item) /\ Len(Append(sched, Other)) <= SchedDepth
    BY <1>2, ScheduleType, ItemTypes DEF OthersSchedule
  <2> QED BY <1>2, <2>1 DEF TypeOK, OthersSchedule, chip, driver
<1>3. CASE RunOther
  BY <1>3, StartType DEF TypeOK, RunOther, chip, driver
<1>4. CASE IrqHandler
  BY <1>4, IrqHandlerType
<1>5. CASE AsciiHandler
  BY <1>5, AsciiHandlerType
<1>6. CASE RunCallback
  BY <1>6, StartType, GetKeyType DEF TypeOK, RunCallback, chip
<1>7. CASE Poll
  BY <1>7, GetKeyType DEF TypeOK, Poll, chip
<1>8. CASE Deinit
  BY <1>8 DEF TypeOK, Deinit, chip, driver
<1>9. CASE UNCHANGED vars
  BY <1>9 DEF TypeOK, vars, chip, driver
<1> QED BY <1>1, <1>2, <1>3, <1>4, <1>5, <1>6, <1>7, <1>8, <1>9 DEF Next

(* The variables of the keyboard keep their types, the chip's FIFO and the *)
(* scheduler's queue their bounds.                                         *)
THEOREM TypeCorrect == Spec => []TypeOK
<1>1. Init => TypeOK
  <2>1. /\ <<>> \in Seq(Event) /\ <<>> \in Seq(Item) /\ <<>> \in Seq(KeyEvent)
    BY EmptySeq
  <2>2. Init => /\ fifo \in Seq(Event) /\ sched \in Seq(Item)
                /\ events \in Seq(Event) /\ todo \in Seq(Event)
                /\ keyevents \in Seq(KeyEvent) /\ taken \in Seq(KeyEvent)
    BY <2>1, Zenon DEF Init
  <2>3. Init => Len(fifo) <= FifoSize /\ Len(sched) <= SchedDepth
    BY SizesAssumption DEF Init
  <2>4. Init => count \in 0..MaxEvents /\ pc = "idle"
    BY SizesAssumption DEF Init
  <2>5. Init => /\ held \subseteq Keys
                /\ key_int \in BOOLEAN /\ attached \in BOOLEAN /\ fn_state \in BOOLEAN
                /\ modifier_mask \subseteq Modifiers /\ faults \subseteq Faults
    BY Zenon DEF Init
  <2> QED BY <2>2, <2>3, <2>4, <2>5 DEF TypeOK
<1>2. TypeOK /\ [Next]_vars => TypeOK'
  BY NextType
<1> QED BY <1>1, <1>2, PTL DEF Spec
-----------------------------------------------------------------------------
(* Order of numbered sequences.                                            *)

LEMMA OrderEmpty ==
  ASSUME NEW q
  PROVE  /\ Ascending(<<>>)
         /\ Before(<<>>, q)
         /\ Before(q, <<>>)
         /\ \A c : UpTo(<<>>, c)
BY DEF Ascending, Before, UpTo

LEMMA OrderTail ==
  ASSUME NEW S, NEW s \in Seq(S), s # <<>>, Ascending(s)
  PROVE  /\ Ascending(Tail(s))
         /\ \A i \in DOMAIN Tail(s) : Head(s).n < Tail(s)[i].n
         /\ \A q : Before(s, q) => /\ Before(Tail(s), q)
                                   /\ \A i \in DOMAIN q : Head(s).n < q[i].n
         /\ \A q : Before(q, s) => /\ Before(q, Tail(s))
                                   /\ \A i \in DOMAIN q : q[i].n < Head(s).n
         /\ \A c : UpTo(s, c) => UpTo(Tail(s), c) /\ Head(s).n <= c
<1>1. /\ Tail(s) \in Seq(S) /\ Len(s) \in Nat \ {0}
      /\ Len(Tail(s)) = Len(s) - 1
      /\ \A i \in 1..Len(Tail(s)) : Tail(s)[i] = s[i + 1]
      /\ DOMAIN s = 1..Len(s) /\ DOMAIN Tail(s) = 1..(Len(s) - 1)
      /\ Head(s) = s[1]
  BY HeadTailProperties, LenProperties, EmptySeq
<1>2. \A i \in DOMAIN Tail(s) : i + 1 \in DOMAIN s /\ Tail(s)[i] = s[i + 1]
  BY <1>1
<1>3. 1 \in DOMAIN s
  BY <1>1
<1>4. Ascending(Tail(s))
  BY <1>1, <1>2 DEF Ascending
<1>5. \A i \in DOMAIN Tail(s) : Head(s).n < Tail(s)[i].n
  BY <1>1, <1>2, <1>3 DEF Ascending
<1>6. \A q : Before(s, q) => /\ Before(Tail(s), q)
                             /\ \A i \in DOMAIN q : Head(s).n < q[i].n
  BY <1>1, <1>2, <1>3 DEF Before
<1>7. \A q : Before(q, s) => /\ Before(q, Tail(s))
                             /\ \A i \in DOMAIN q : q[i].n < Head(s).n
  BY <1>1, <1>2, <1>3 DEF Before
<1>8. \A c : UpTo(s, c) => UpTo(Tail(s), c) /\ Head(s).n <= c
  BY <1>1, <1>2, <1>3 DEF UpTo
<1> QED BY <1>4, <1>5, <1>6, <1>7, <1>8

LEMMA OrderAppend ==
  ASSUME NEW S, NEW s \in Seq(S), NEW x \in S
  PROVE  /\ /\ Ascending(s)
            /\ \A i \in DOMAIN s : s[i].n < x.n
            => Ascending(Append(s, x))
         /\ \A q : /\ Before(s, q)
                   /\ \A i \in DOMAIN q : x.n < q[i].n
                   => Before(Append(s, x), q)
         /\ \A q : /\ Before(q, s)
                   /\ \A i \in DOMAIN q : q[i].n < x.n
                   => Before(q, Append(s, x))
         /\ \A c : UpTo(s, c) /\ x.n <= c => UpTo(Append(s, x), c)
<1>1. /\ Len(s) \in Nat /\ DOMAIN s = 1..Len(s)
      /\ DOMAIN Append(s, x) = 1..(Len(s) + 1)
      /\ \A i \in 1..Len(s) : Append(s, x)[i] = s[i]
      /\ Append(s, x)[Len(s) + 1] = x
  BY AppendProperties, LenProperties
<1>2. \A i \in DOMAIN Append(s, x) : \/ i \in DOMAIN s /\ Append(s, x)[i] = s[i]
                                     \/ i = Len(s) + 1 /\ Append(s, x)[i] = x
  BY <1>1
<1>3. Ascending(s) /\ (\A i \in DOMAIN s : s[i].n < x.n) => Ascending(Append(s, x))
  BY <1>1, <1>2 DEF Ascending
<1>4. \A q : Before(s, q) /\ (\A i \in DOMAIN q : x.n < q[i].n)
            => Before(Append(s, x), q)
  BY <1>1, <1>2 DEF Before
<1>5. \A q : Before(q, s) /\ (\A i \in DOMAIN q : q[i].n < x.n)
            => Before(q, Append(s, x))
  BY <1>1, <1>2 DEF Before
<1>6. \A c : UpTo(s, c) /\ x.n <= c => UpTo(Append(s, x), c)
  BY <1>1, <1>2 DEF UpTo
<1> QED BY <1>3, <1>4, <1>5, <1>6

LEMMA AppendDomain ==
  ASSUME NEW S, NEW s \in Seq(S), NEW x \in S
  PROVE  /\ DOMAIN Append(s, x) \subseteq Int
         /\ \A i \in DOMAIN Append(s, x) :
              \/ Append(s, x)[i] = x /\ i = Len(s) + 1
              \/ i \in DOMAIN s /\ Append(s, x)[i] = s[i]
         /\ \A i \in DOMAIN s : i \in DOMAIN Append(s, x) /\ Append(s, x)[i] = s[i]
         /\ Len(s) + 1 \in DOMAIN Append(s, x) /\ Append(s, x)[Len(s) + 1] = x
<1>1. /\ Len(s) \in Nat /\ DOMAIN s = 1..Len(s)
      /\ DOMAIN Append(s, x) = 1..(Len(s) + 1)
      /\ \A i \in 1..Len(s) : Append(s, x)[i] = s[i]
      /\ Append(s, x)[Len(s) + 1] = x
  BY AppendProperties, LenProperties
<1>2. \A i \in 1..(Len(s) + 1) : i \in 1..Len(s) \/ i = Len(s) + 1
  BY <1>1
<1>3. Len(s) + 1 \in 1..(Len(s) + 1) /\ 1..(Len(s) + 1) \subseteq Int
  BY <1>1
<1>4. \A i \in 1..Len(s) : i \in 1..(Len(s) + 1)
  BY <1>1
<1> QED BY <1>1, <1>2, <1>3, <1>4, Zenon

LEMMA TailDomain ==
  ASSUME NEW S, NEW s \in Seq(S), s # <<>>
  PROVE  /\ DOMAIN Tail(s) \subseteq Int
         /\ \A i \in DOMAIN Tail(s) : i + 1 \in DOMAIN s /\ Tail(s)[i] = s[i + 1]
         /\ \A i \in DOMAIN s : i # 1 => i - 1 \in DOMAIN Tail(s) /\ Tail(s)[i - 1] = s[i]
         /\ 1 \in DOMAIN s /\ Head(s) = s[1]
<1>1. /\ Len(s) \in Nat \ {0} /\ DOMAIN s = 1..Len(s)
      /\ DOMAIN Tail(s) = 1..(Len(s) - 1)
      /\ \A i \in 1..(Len(s) - 1) : Tail(s)[i] = s[i + 1]
      /\ Head(s) = s[1]
  BY HeadTailProperties, LenProperties, EmptySeq
<1>2. DOMAIN Tail(s) \subseteq Int
  BY <1>1
<1>3. \A i \in DOMAIN Tail(s) : i + 1 \in DOMAIN s /\ Tail(s)[i] = s[i + 1]
  BY <1>1
<1>4. ASSUME NEW i \in DOMAIN s, i # 1
      PROVE  i - 1 \in DOMAIN Tail(s) /\ Tail(s)[i - 1] = s[i]
  <2>1. i - 1 \in 1..(Len(s) - 1) /\ (i - 1) + 1 = i
    BY <1>1, <1>4
  <2> QED BY <1>1, <2>1
<1>5. 1 \in DOMAIN s /\ Head(s) = s[1]
  BY <1>1
<1>6. \A i \in DOMAIN s : i # 1 => i - 1 \in DOMAIN Tail(s) /\ Tail(s)[i - 1] = s[i]
  BY <1>4, Zenon
<1> QED BY <1>2, <1>3, <1>5, <1>6, Zenon

(* A batch in its place between the stages: tk, ke and td hold older       *)
(* events, ev and ff newer ones, none newer than c.                        *)
Fits(es, tk, ke, td, ev, ff, c) ==
  /\ Ascending(es) /\ UpTo(es, c)
  /\ Before(tk, es) /\ Before(ke, es) /\ Before(td, es)
  /\ Before(es, ev) /\ Before(es, ff)

LEMMA EmptyFits ==
  ASSUME NEW tk, NEW ke, NEW td, NEW ev, NEW ff, NEW c
  PROVE  Fits(<<>>, tk, ke, td, ev, ff, c)
BY OrderEmpty DEF Fits

(* The scheduled batches are in order when each fits and the earlier of    *)
(* any two holds the older events.                                         *)
LEMMA ScheduledFits ==
  ScheduledInOrder <=>
    \A i \in DOMAIN sched :
      /\ Fits(sched[i].events, taken, keyevents, todo, events, fifo, count)
      /\ \A j \in DOMAIN sched : i < j => Before(sched[i].events, sched[j].events)
BY DEF ScheduledInOrder, Fits

(* Batches stay in order when a batch goes to the end of the queue, all    *)
(* that were there fitting the stages as they are after the step.          *)
LEMMA AppendedInOrder ==
  ASSUME TypeOK, ScheduledInOrder, NEW item \in Item, sched' = Append(sched, item),
         \A i \in DOMAIN sched :
           /\ Fits(sched[i].events, taken', keyevents', todo', events', fifo', count')
           /\ Before(sched[i].events, item.events),
         Fits(item.events, taken', keyevents', todo', events', fifo', count')
  PROVE  ScheduledInOrder'
<1>1. /\ \A i \in DOMAIN sched' :
           \/ sched'[i] = item /\ i = Len(sched) + 1
           \/ i \in DOMAIN sched /\ sched'[i] = sched[i]
      /\ DOMAIN sched = 1..Len(sched)
      /\ Len(sched) \in Nat
  <2>1. sched \in Seq(Item)
    BY DEF TypeOK
  <2> HIDE DEF Item
  <2>2. \A i \in DOMAIN Append(sched, item) :
          \/ Append(sched, item)[i] = item /\ i = Len(sched) + 1
          \/ i \in DOMAIN sched /\ Append(sched, item)[i] = sched[i]
    BY <2>1, AppendDomain
  <2>3. DOMAIN sched = 1..Len(sched) /\ Len(sched) \in Nat
    BY <2>1, LenProperties
  <2> QED BY <2>2, <2>3, Zenon
<1> SUFFICES ASSUME NEW i \in DOMAIN sched'
             PROVE  /\ Fits(sched'[i].events, taken', keyevents', todo',
                            events', fifo', count')
                    /\ \A j \in DOMAIN sched' :
                         i < j => Before(sched'[i].events, sched'[j].events)
  BY DEF ScheduledInOrder, Fits, Ascending, Before, UpTo
<1>2. Fits(sched'[i].events, taken', keyevents', todo', events', fifo', count')
  BY <1>1, Zenon
<1>3. ASSUME NEW j \in DOMAIN sched', i < j
      PROVE  Before(sched'[i].events, sched'[j].events)
  <2>1. i \in DOMAIN sched /\ sched'[i] = sched[i]
    <3>1. i # Len(sched) + 1 \/ j \in DOMAIN sched
      BY <1>1, <1>3
    <3>2. i = Len(sched) + 1 /\ j \in DOMAIN sched => FALSE
      BY <1>1, <1>3
    <3> QED BY <1>1, <3>1, <3>2, Zenon
  <2>2. CASE sched'[j] = item
    BY <2>1, <2>2, Zenon
  <2>3. CASE j \in DOMAIN sched /\ sched'[j] = sched[j]
    BY <2>1, <2>3, <1>3 DEF ScheduledInOrder
  <2> QED BY <1>1, <2>2, <2>3, Zenon
<1> QED BY <1>2, <1>3, Zenon

(* Batches stay in order when the first one leaves the queue.              *)
LEMMA TailInOrder ==
  ASSUME TypeOK, ScheduledInOrder, sched # <<>>, sched' = Tail(sched),
         \A i \in DOMAIN sched : i # 1 =>
           Fits(sched[i].events, taken', keyevents', todo', events', fifo', count')
  PROVE  ScheduledInOrder'
<1>1. /\ \A i \in DOMAIN sched' : i + 1 \in DOMAIN sched /\ sched'[i] = sched[i + 1]
      /\ \A i \in DOMAIN sched' : i \in Int /\ i + 1 # 1
  <2>1. sched \in Seq(Item)
    BY DEF TypeOK
  <2>2. /\ DOMAIN Tail(sched) = 1..(Len(sched) - 1)
        /\ Len(sched) \in Nat
    BY <2>1, HeadTailProperties, LenProperties
  <2>3. \A i \in DOMAIN Tail(sched) : i \in Int /\ i + 1 # 1
    BY <2>2
  <2>4. \A i \in DOMAIN Tail(sched) :
          i + 1 \in DOMAIN sched /\ Tail(sched)[i] = sched[i + 1]
    BY <2>1, TailDomain, Zenon
  <2> QED BY <2>3, <2>4, Zenon
<1> SUFFICES ASSUME NEW i \in DOMAIN sched'
             PROVE  /\ Fits(sched'[i].events, taken', keyevents', todo',
                            events', fifo', count')
                    /\ \A j \in DOMAIN sched' :
                         i < j => Before(sched'[i].events, sched'[j].events)
  BY DEF ScheduledInOrder, Fits, Ascending, Before, UpTo
<1>2. Fits(sched'[i].events, taken', keyevents', todo', events', fifo', count')
  BY <1>1, Zenon
<1>3. ASSUME NEW j \in DOMAIN sched', i < j
      PROVE  Before(sched'[i].events, sched'[j].events)
  <2>1. i + 1 < j + 1
    BY <1>1, <1>3
  <2> QED BY <1>1, <2>1 DEF ScheduledInOrder
<1> QED BY <1>2, <1>3, Zenon

(* Batches stay in order when the queue does not change.                   *)
LEMMA SameInOrder ==
  ASSUME ScheduledInOrder, sched' = sched,
         \A i \in DOMAIN sched :
           Fits(sched[i].events, taken', keyevents', todo', events', fifo', count')
  PROVE  ScheduledInOrder'
BY DEF ScheduledInOrder, Fits, Ascending, Before, UpTo
-----------------------------------------------------------------------------
(* Order is preserved, action by action.                                   *)

LEMMA MemberType ==
  ASSUME NEW S, NEW q \in Seq(S)
  PROVE  \A i \in DOMAIN q : q[i] \in S
<1>1. DOMAIN q = 1..Len(q)
  BY LenProperties
<1> QED BY <1>1, ElementOfSeq

(* Nothing queued anywhere is newer than the next key movement.            *)
LEMMA NextIsNewest ==
  ASSUME TypeOK, NEW q, q \in Seq(Event) \/ q \in Seq(KeyEvent), UpTo(q, count)
  PROVE  /\ UpTo(q, count + 1)
         /\ \A i \in DOMAIN q : q[i].n < count + 1
<1>1. \A i \in DOMAIN q : q[i].n \in Int
  <2>1. CASE q \in Seq(Event)
    <3>1. \A i \in DOMAIN q : q[i] \in Event
      BY <2>1, MemberType, Zenon
    <3> QED BY <3>1 DEF Event
  <2>2. CASE q \in Seq(KeyEvent)
    <3>1. \A i \in DOMAIN q : q[i] \in KeyEvent
      BY <2>2, MemberType, Zenon
    <3> QED BY <3>1 DEF KeyEvent
  <2> QED BY <2>1, <2>2
<1>2. count \in Int
  BY SizesAssumption DEF TypeOK
<1> QED BY <1>1, <1>2 DEF UpTo

LEMMA KeyMovesOrder ==
  ASSUME TypeOK, StagesInOrder, NEW k \in Keys, KeyMoves(k)
  PROVE  StagesInOrder'
<1> DEFINE e == [n    |-> count',
                 byte |-> IF k \in held THEN k ELSE 128 + k,
                 held |-> held']
<1>1. /\ count' = count + 1 /\ count' \in 1..MaxEvents /\ held' \subseteq Keys
      /\ taken' = taken /\ keyevents' = keyevents /\ todo' = todo /\ events' = events
  BY SizesAssumption DEF KeyMoves, TypeOK, driver
<1>2. e \in Event /\ e.n = count'
  BY <1>1, KeysAssumption DEF Event
<1>3. \A i \in DOMAIN sched : sched[i].events \in Seq(Event)
  <2>1. \A i \in DOMAIN sched : sched[i] \in Item
    <3>1. sched \in Seq(Item)
      BY DEF TypeOK
    <3> QED BY <3>1, MemberType, Zenon
  <2> QED BY <2>1 DEF Item
<1>4. \A q \in {taken, keyevents, todo, events, fifo} :
        UpTo(q, count') /\ \A i \in DOMAIN q : q[i].n < count'
  BY <1>1, NextIsNewest DEF TypeOK, StagesInOrder
<1>5. \A j \in DOMAIN sched :
        /\ UpTo(sched[j].events, count')
        /\ \A i \in DOMAIN sched[j].events : sched[j].events[i].n < count'
  BY <1>1, <1>3, NextIsNewest DEF StagesInOrder, ScheduledInOrder
<1>6. \/ fifo' = Append(fifo, e)
      \/ fifo' = fifo
  BY DEF KeyMoves
<1>7. /\ Ascending(fifo')
      /\ UpTo(fifo', count')
      /\ \A q \in {taken, keyevents, todo, events} : Before(q, fifo')
      /\ \A i \in DOMAIN sched : Before(sched[i].events, fifo')
  <2>1. fifo \in Seq(Event)
    BY DEF TypeOK
  <2>2. /\ (\A i \in DOMAIN fifo : fifo[i].n < e.n) => Ascending(Append(fifo, e))
        /\ \A q : Before(q, fifo) /\ (\A i \in DOMAIN q : q[i].n < e.n)
                    => Before(q, Append(fifo, e))
        /\ UpTo(fifo, count') /\ e.n <= count' => UpTo(Append(fifo, e), count')
    <3> HIDE DEF e
    <3> QED BY <1>2, <2>1, OrderAppend DEF StagesInOrder
  <2>3. e.n <= count'
    BY <1>1, <1>2
  <2>4. CASE fifo' = Append(fifo, e)
    <3> HIDE DEF e
    <3> QED BY <1>2, <1>4, <1>5, <2>2, <2>3, <2>4 DEF StagesInOrder, ScheduledInOrder
  <2>5. CASE fifo' = fifo
    BY <1>4, <2>5 DEF StagesInOrder, ScheduledInOrder
  <2> QED BY <1>6, <2>4, <2>5
<1>8. \A i \in DOMAIN sched :
        Fits(sched[i].events, taken', keyevents', todo', events', fifo', count')
  BY <1>1, <1>5, <1>7 DEF Fits, StagesInOrder, ScheduledInOrder
<1>9. ScheduledInOrder'
  <2>1. sched' = Append(sched, Irq) \/ sched' = sched
    BY DEF KeyMoves, SetKeyInt
  <2>2. CASE sched' = Append(sched, Irq)
    <3>1. Irq \in Item /\ Irq.events = <<>>
      BY ItemTypes DEF Irq
    <3>2. Fits(Irq.events, taken', keyevents', todo', events', fifo', count')
      BY <3>1, EmptyFits
    <3>3. \A i \in DOMAIN sched : Before(sched[i].events, Irq.events)
      BY <3>1, OrderEmpty
    <3> QED BY <1>8, <2>2, <3>1, <3>2, <3>3, AppendedInOrder DEF StagesInOrder
  <2>3. CASE sched' = sched
    BY <1>8, <2>3, SameInOrder DEF StagesInOrder
  <2> QED BY <2>1, <2>2, <2>3
<1> QED
  <2>1. KeysInOrder'
    BY <1>1 DEF StagesInOrder, KeysInOrder, Ascending, Before
  <2> QED BY <1>1, <1>4, <1>7, <1>9, <2>1 DEF StagesInOrder, Ascending, Before, UpTo

(* What the head of the queue and the items behind it say of the stages.   *)
LEMMA HeadOrder ==
  ASSUME TypeOK, ScheduledInOrder, sched # <<>>
  PROVE  /\ Fits(Head(sched).events, taken, keyevents, todo, events, fifo, count)
         /\ \A i \in DOMAIN sched :
              i # 1 => Before(Head(sched).events, sched[i].events)
<1>1. sched \in Seq(Item)
  BY DEF TypeOK
<1>2. 1 \in DOMAIN sched /\ Head(sched) = sched[1]
  BY <1>1, TailDomain
<1>3. \A i \in DOMAIN sched : i # 1 => 1 < i
  BY <1>1, LenProperties
<1> QED BY <1>2, <1>3, ScheduledFits

(* The stages stay in order in a step that moves no event, whatever it     *)
(* takes from the queue or adds to it without a batch.                     *)
LEMMA QuietOrder ==
  ASSUME TypeOK, StagesInOrder,
         UNCHANGED <<count, fifo, events, todo, keyevents, taken>>,
         \/ sched' = sched
         \/ sched # <<>> /\ sched' = Tail(sched)
         \/ sched' = Append(sched, Irq)
         \/ sched' = Append(sched, Other)
  PROVE  StagesInOrder'
<1>1. \A i \in DOMAIN sched :
        Fits(sched[i].events, taken', keyevents', todo', events', fifo', count')
  BY ScheduledFits DEF StagesInOrder
<1>2. ASSUME NEW item \in {Irq, Other}, sched' = Append(sched, item)
      PROVE  ScheduledInOrder'
  <2>1. item \in Item /\ item.events = <<>>
    BY ItemTypes DEF Irq, Other
  <2>2. Fits(item.events, taken', keyevents', todo', events', fifo', count')
    BY <2>1, EmptyFits
  <2>3. \A i \in DOMAIN sched : Before(sched[i].events, item.events)
    BY <2>1, OrderEmpty
  <2> QED BY <1>1, <1>2, <2>1, <2>2, <2>3, AppendedInOrder DEF StagesInOrder
<1>3. ASSUME sched # <<>>, sched' = Tail(sched)
      PROVE  ScheduledInOrder'
  BY <1>1, <1>3, TailInOrder DEF StagesInOrder
<1>4. ASSUME sched' = sched
      PROVE  ScheduledInOrder'
  BY <1>1, <1>4, SameInOrder DEF StagesInOrder
<1>5. ScheduledInOrder'
  BY <1>2, <1>3, <1>4
<1> QED BY <1>5 DEF StagesInOrder, KeysInOrder, Ascending, Before, UpTo

LEMMA ReadNextOrder ==
  ASSUME TypeOK, StagesInOrder, ReadNext
  PROVE  StagesInOrder'
<1> DEFINE x == Head(fifo)
<1>1. /\ events' = Append(events, x) /\ fifo' = Tail(fifo) /\ sched' = sched
      /\ taken' = taken /\ keyevents' = keyevents /\ todo' = todo /\ count' = count
      /\ fifo \in Seq(Event) /\ fifo # <<>> /\ events \in Seq(Event) /\ x \in Event
  BY HeadTailProperties DEF ReadNext, TypeOK, driver
<1>2. /\ Ascending(Tail(fifo)) /\ UpTo(Tail(fifo), count) /\ x.n <= count
      /\ \A i \in DOMAIN Tail(fifo) : x.n < Tail(fifo)[i].n
      /\ \A q : Before(q, fifo) => /\ Before(q, Tail(fifo))
                                   /\ \A i \in DOMAIN q : q[i].n < x.n
  BY <1>1, OrderTail DEF StagesInOrder
<1> HIDE DEF x
<1>3. /\ Ascending(Append(events, x)) /\ UpTo(Append(events, x), count)
      /\ Before(Append(events, x), Tail(fifo))
      /\ \A q : Before(q, events) /\ Before(q, fifo) => Before(q, Append(events, x))
  <2>1. Before(events, Tail(fifo)) /\ \A i \in DOMAIN events : events[i].n < x.n
    BY <1>2 DEF StagesInOrder
  <2> QED BY <1>1, <1>2, <2>1, OrderAppend DEF StagesInOrder
<1>4. \A i \in DOMAIN sched :
        Fits(sched[i].events, taken', keyevents', todo', events', fifo', count')
  BY <1>1, <1>2, <1>3, ScheduledFits DEF StagesInOrder, Fits
<1>5. ScheduledInOrder'
  BY <1>1, <1>4, SameInOrder DEF StagesInOrder
<1>6. \A q \in {taken, keyevents, todo} : Before(q, Append(events, x)) /\ Before(q, Tail(fifo))
  BY <1>2, <1>3 DEF StagesInOrder
<1> QED
  BY <1>1, <1>2, <1>3, <1>5, <1>6 DEF StagesInOrder, KeysInOrder, Ascending, Before, UpTo

LEMMA ScheduleTickOrder ==
  ASSUME TypeOK, StagesInOrder, ScheduleTick
  PROVE  StagesInOrder'
<1>1. /\ events' = <<>> /\ fifo' = fifo /\ count' = count
      /\ taken' = taken /\ keyevents' = keyevents /\ todo' = todo
  BY DEF ScheduleTick, chip, driver
<1>2. \A i \in DOMAIN sched :
        Fits(sched[i].events, taken', keyevents', todo', events', fifo', count')
  BY <1>1, ScheduledFits, OrderEmpty DEF StagesInOrder, Fits
<1>3. ASSUME sched' = Append(sched, Tick(events))
      PROVE  ScheduledInOrder'
  <2>1. Tick(events) \in Item /\ Tick(events).events = events
    BY ItemTypes DEF TypeOK, Tick
  <2>2. Fits(Tick(events).events, taken', keyevents', todo', events', fifo', count')
    BY <1>1, <2>1, OrderEmpty DEF Fits, StagesInOrder
  <2>3. \A i \in DOMAIN sched : Before(sched[i].events, Tick(events).events)
    BY <2>1, ScheduledFits DEF Fits, StagesInOrder
  <2> QED BY <1>2, <1>3, <2>1, <2>2, <2>3, AppendedInOrder DEF StagesInOrder
<1>4. ASSUME sched' = sched
      PROVE  ScheduledInOrder'
  BY <1>2, <1>4, SameInOrder DEF StagesInOrder
<1>5. ScheduledInOrder'
  BY <1>3, <1>4 DEF ScheduleTick
<1> QED
  BY <1>1, <1>5, OrderEmpty DEF StagesInOrder, KeysInOrder, Ascending, Before, UpTo

LEMMA StartTickOrder ==
  ASSUME TypeOK, StagesInOrder, StartTick
  PROVE  StagesInOrder'
<1> DEFINE es == Head(sched).events
<1>1. /\ todo' = es /\ sched # <<>> /\ sched' = Tail(sched)
      /\ events' = events /\ fifo' = fifo /\ count' = count
      /\ taken' = taken /\ keyevents' = keyevents
  BY DEF StartTick, chip, driver
<1>2. /\ Fits(es, taken, keyevents, todo, events, fifo, count)
      /\ \A i \in DOMAIN sched : i # 1 => Before(es, sched[i].events)
  BY <1>1, HeadOrder DEF StagesInOrder
<1> HIDE DEF es
<1>3. \A i \in DOMAIN sched : i # 1 =>
        Fits(sched[i].events, taken', keyevents', todo', events', fifo', count')
  BY <1>1, <1>2, ScheduledFits DEF Fits, StagesInOrder
<1>4. ScheduledInOrder'
  BY <1>1, <1>3, TailInOrder DEF StagesInOrder
<1> QED
  BY <1>1, <1>2, <1>4 DEF StagesInOrder, KeysInOrder, Fits, Ascending, Before, UpTo

LEMMA AsciiEventOrder ==
  ASSUME TypeOK, StagesInOrder, AsciiEvent
  PROVE  StagesInOrder'
<1> DEFINE x == KeyEventOf(Head(todo))
<1>1. /\ events' = events /\ fifo' = fifo /\ count' = count /\ taken' = taken
      /\ todo \in Seq(Event) /\ todo # <<>> /\ keyevents \in Seq(KeyEvent)
      /\ keyevents' = keyevents \/ keyevents' = Append(keyevents, x)
      /\ todo' = Tail(todo) \/ todo' = <<>>
      /\ sched' = sched \/ sched' = Append(sched, Callback)
  BY DEF AsciiEvent, TypeOK, chip
<1>2. /\ Ascending(Tail(todo)) /\ UpTo(Tail(todo), count) /\ Head(todo).n <= count
      /\ \A i \in DOMAIN Tail(todo) : Head(todo).n < Tail(todo)[i].n
      /\ \A q : Before(todo, q) => /\ Before(Tail(todo), q)
                                   /\ \A i \in DOMAIN q : Head(todo).n < q[i].n
      /\ \A q : Before(q, todo) => /\ Before(q, Tail(todo))
                                   /\ \A i \in DOMAIN q : q[i].n < Head(todo).n
  BY <1>1, OrderTail DEF StagesInOrder
<1>3. x \in KeyEvent /\ x.n = Head(todo).n
  <2>1. Head(todo) \in Event
    BY <1>1, HeadTailProperties
  <2> QED BY <2>1, KeyEventType DEF KeyEventOf
<1> HIDE DEF x
<1>4. /\ Ascending(todo') /\ UpTo(todo', count)
      /\ \A q : Before(todo, q) => Before(todo', q)
      /\ \A q : Before(q, todo) => Before(q, todo')
  BY <1>1, <1>2, OrderEmpty
<1>5. /\ Ascending(Append(keyevents, x)) /\ UpTo(Append(keyevents, x), count)
      /\ Before(taken, Append(keyevents, x))
      /\ Before(Append(keyevents, x), Tail(todo))
      /\ Before(Append(keyevents, x), <<>>)
      /\ \A q : Before(keyevents, q) /\ Before(todo, q) => Before(Append(keyevents, x), q)
  <2>1. /\ \A i \in DOMAIN keyevents : keyevents[i].n < x.n
        /\ \A i \in DOMAIN taken : taken[i].n < x.n
        /\ \A i \in DOMAIN Tail(todo) : x.n < Tail(todo)[i].n
        /\ x.n <= count
        /\ \A q : Before(todo, q) => \A i \in DOMAIN q : x.n < q[i].n
    BY <1>2, <1>3 DEF StagesInOrder
  <2>2. Before(keyevents, Tail(todo))
    BY <1>2 DEF StagesInOrder
  <2>3. /\ Ascending(keyevents) /\ UpTo(keyevents, count) /\ Before(taken, keyevents)
    BY DEF StagesInOrder, KeysInOrder
  <2> QED BY <1>1, <1>3, <2>1, <2>2, <2>3, OrderAppend, OrderEmpty
<1>6. /\ Ascending(keyevents') /\ UpTo(keyevents', count)
      /\ Before(taken, keyevents') /\ Before(keyevents', todo')
      /\ \A q : Before(keyevents, q) /\ Before(todo, q) => Before(keyevents', q)
  <2>1. CASE keyevents' = keyevents
    BY <1>4, <2>1 DEF StagesInOrder, KeysInOrder
  <2>2. CASE keyevents' = Append(keyevents, x)
    BY <1>1, <1>5, <2>2
  <2> QED BY <1>1, <2>1, <2>2
<1>7. \A i \in DOMAIN sched :
        Fits(sched[i].events, taken', keyevents', todo', events', fifo', count')
  BY <1>1, <1>4, <1>6, ScheduledFits DEF Fits, StagesInOrder
<1>8. ScheduledInOrder'
  <2>1. CASE sched' = sched
    BY <1>7, <2>1, SameInOrder DEF StagesInOrder
  <2>2. CASE sched' = Append(sched, Callback)
    <3>1. Callback \in Item /\ Callback.events = <<>>
      BY ItemTypes DEF Callback
    <3>2. Fits(Callback.events, taken', keyevents', todo', events', fifo', count')
      BY <3>1, EmptyFits
    <3>3. \A i \in DOMAIN sched : Before(sched[i].events, Callback.events)
      BY <3>1, OrderEmpty
    <3> QED BY <1>7, <2>2, <3>1, <3>2, <3>3, AppendedInOrder DEF StagesInOrder
  <2> QED BY <1>1, <2>1, <2>2
<1>9. /\ Before(taken, todo') /\ Before(todo', events) /\ Before(todo', fifo)
      /\ Before(keyevents', events) /\ Before(keyevents', fifo)
  BY <1>4, <1>6 DEF StagesInOrder
<1> QED
  BY <1>1, <1>4, <1>6, <1>8, <1>9
  DEF StagesInOrder, KeysInOrder, Ascending, Before, UpTo

(* Taking a key keeps the stages in order, whether the queue stays as it   *)
(* is or gives up its head.                                                *)
LEMMA GetKeyOrder ==
  ASSUME TypeOK, StagesInOrder, GetKey,
         UNCHANGED <<count, fifo, events, todo>>,
         \/ sched' = sched
         \/ sched # <<>> /\ sched' = Tail(sched)
  PROVE  StagesInOrder'
<1>1. CASE keyevents = <<>>
  BY <1>1, QuietOrder DEF GetKey
<1>2. CASE keyevents # <<>>
  <2> DEFINE x == Head(keyevents)
  <2>1. /\ keyevents' = Tail(keyevents) /\ taken' = Append(taken, x)
        /\ keyevents \in Seq(KeyEvent) /\ taken \in Seq(KeyEvent) /\ x \in KeyEvent
    BY <1>2, HeadTailProperties DEF GetKey, TypeOK
  <2>2. /\ Ascending(Tail(keyevents)) /\ UpTo(Tail(keyevents), count) /\ x.n <= count
        /\ \A i \in DOMAIN Tail(keyevents) : x.n < Tail(keyevents)[i].n
        /\ \A q : Before(keyevents, q) => /\ Before(Tail(keyevents), q)
                                          /\ \A i \in DOMAIN q : x.n < q[i].n
        /\ \A i \in DOMAIN taken : taken[i].n < x.n
        /\ Before(taken, Tail(keyevents))
    BY <1>2, <2>1, OrderTail DEF StagesInOrder, KeysInOrder
  <2> HIDE DEF x
  <2>3. /\ Ascending(Append(taken, x)) /\ UpTo(Append(taken, x), count)
        /\ Before(Append(taken, x), Tail(keyevents))
        /\ \A q : Before(taken, q) /\ Before(keyevents, q) => Before(Append(taken, x), q)
    BY <2>1, <2>2, OrderAppend DEF StagesInOrder, KeysInOrder
  <2>4. \A i \in DOMAIN sched :
          Fits(sched[i].events, taken', keyevents', todo', events', fifo', count')
    BY <2>1, <2>2, <2>3, ScheduledFits DEF Fits, StagesInOrder
  <2>5. ScheduledInOrder'
    BY <2>4, SameInOrder, TailInOrder DEF StagesInOrder
  <2>6. \A q \in {todo, events, fifo} :
          Before(Append(taken, x), q) /\ Before(Tail(keyevents), q)
    BY <2>2, <2>3 DEF StagesInOrder
  <2> QED
    BY <2>1, <2>2, <2>3, <2>5, <2>6
    DEF StagesInOrder, KeysInOrder, Ascending, Before, UpTo
<1> QED BY <1>1, <1>2

LEMMA NextOrder ==
  ASSUME TypeOK, StagesInOrder, [Next]_vars
  PROVE  StagesInOrder'
<1>1. CASE \E k \in Keys : KeyMoves(k)
  BY <1>1, KeyMovesOrder
<1>2. CASE OthersSchedule \/ RunOther
  BY <1>2, QuietOrder DEF OthersSchedule, RunOther, chip, driver
<1>3. CASE StartIrq \/ ReadKeyInt \/ ReadAny \/ ReadMore
  BY <1>3, QuietOrder DEF StartIrq, ReadKeyInt, ReadAny, ReadMore, chip, driver
<1>4. CASE ReadNext
  BY <1>4, ReadNextOrder
<1>5. CASE ScheduleTick
  BY <1>5, ScheduleTickOrder
<1>6. CASE ClearKeyInt
  BY <1>6, QuietOrder DEF ClearKeyInt, WriteKeyInt, SetKeyInt, chip, driver
<1>7. CASE StartTick
  BY <1>7, StartTickOrder
<1>8. CASE AsciiEvent
  BY <1>8, AsciiEventOrder
<1>9. CASE EndTick \/ Deinit \/ UNCHANGED vars
  BY <1>9, QuietOrder DEF EndTick, Deinit, vars, chip, driver
<1>10. CASE RunCallback \/ Poll
  BY <1>10, GetKeyOrder DEF RunCallback, Poll, chip
<1> QED
  BY <1>1, <1>2, <1>3, <1>4, <1>5, <1>6, <1>7, <1>8, <1>9, <1>10
  DEF Next, IrqHandler, AsciiHandler

(* From the chip's FIFO to the application, events keep their order.       *)
THEOREM StagesInOrderCorrect == Spec => []StagesInOrder
<1>1. Init => StagesInOrder
  BY OrderEmpty
  DEF Init, StagesInOrder, KeysInOrder, ScheduledInOrder, UpTo
<1>2. TypeOK /\ StagesInOrder /\ [Next]_vars => StagesInOrder'
  BY NextOrder
<1> QED BY <1>1, <1>2, TypeCorrect, PTL DEF Spec

(* Keys reach the application in the order they were pressed, none twice.  *)
THEOREM KeysInOrderCorrect == Spec => []KeysInOrder
<1>1. StagesInOrder => KeysInOrder
  BY DEF StagesInOrder
<1> QED BY <1>1, StagesInOrderCorrect, PTL
-----------------------------------------------------------------------------
(* No lost wakeup.                                                         *)

(* A queued interrupt handler stays queued whatever joins the queue, and   *)
(* until it is itself the one that leaves it.                              *)
LEMMA IrqStays ==
  ASSUME TypeOK, IrqQueued,
         \/ sched' = sched
         \/ \E item \in Item : sched' = Append(sched, item)
         \/ sched # <<>> /\ sched' = Tail(sched) /\ Head(sched).kind # "irq"
  PROVE  IrqQueued'
<1>1. sched \in Seq(Item)
  BY DEF TypeOK
<1>2. PICK i \in DOMAIN sched : sched[i].kind = "irq"
  BY DEF IrqQueued
<1>3. CASE sched' = sched
  BY <1>2, <1>3 DEF IrqQueued
<1>4. ASSUME NEW item \in Item, sched' = Append(sched, item)
      PROVE  IrqQueued'
  <2> HIDE DEF Item
  <2>1. i \in DOMAIN Append(sched, item) /\ Append(sched, item)[i] = sched[i]
    BY <1>1, AppendDomain
  <2>2. i \in DOMAIN sched' /\ sched'[i] = sched[i]
    BY <1>4, <2>1, Zenon
  <2> QED BY <1>2, <2>2 DEF IrqQueued
<1>5. CASE sched # <<>> /\ sched' = Tail(sched) /\ Head(sched).kind # "irq"
  <2>1. i # 1 /\ i \in DOMAIN sched
    BY <1>1, <1>2, <1>5, TailDomain
  <2>2. i - 1 \in DOMAIN sched' /\ sched'[i - 1] = sched[i]
    BY <1>1, <1>5, <2>1, TailDomain, Zenon
  <2> QED BY <1>2, <2>2 DEF IrqQueued
<1> QED BY <1>3, <1>4, <1>5

(* An edge that finds room queues the interrupt handler.                   *)
LEMMA IrqJoins ==
  ASSUME TypeOK, sched' = Append(sched, Irq)
  PROVE  IrqQueued'
<1>1. sched \in Seq(Item) /\ Irq \in Item /\ Irq.kind = "irq"
  BY ItemTypes DEF TypeOK, Irq
<1> HIDE DEF Item
<1>2. Len(sched) + 1 \in DOMAIN sched' /\ sched'[Len(sched) + 1] = Irq
  BY <1>1, AppendDomain
<1> QED BY <1>1, <1>2 DEF IrqQueued

LEMMA KeyMovesHeeded ==
  ASSUME TypeOK, PinIsHeeded, NEW k \in Keys, KeyMoves(k), Calm'
  PROVE  key_int' /\ Awake'
<1>1. pc' = pc /\ Calm
  BY DEF KeyMoves, SetKeyInt, Calm
<1>2. CASE SetKeyInt(TRUE, {})
  <2>1. key_int' = TRUE /\ attached
    BY <1>1, <1>2 DEF SetKeyInt, Calm
  <2>2. CASE key_int = TRUE
    <3>1. Awake /\ sched' = sched
      BY <1>1, <1>2, <2>1, <2>2 DEF PinIsHeeded, SetKeyInt
    <3> QED BY <1>1, <2>1, <3>1, IrqStays DEF Awake
  <2>3. CASE key_int # TRUE
    <3>1. sched' = Append(sched, Irq)
      BY <1>2, <2>1, <2>3 DEF SetKeyInt, Calm
    <3> QED BY <2>1, <3>1, IrqJoins DEF Awake
  <2> QED BY <2>2, <2>3
<1>3. CASE Len(fifo) = FifoSize /\ UNCHANGED <<fifo, key_int, sched>>
  <2>1. fifo # <<>>
    BY <1>3, SizesAssumption
  <2>2. key_int /\ Awake
    BY <1>1, <2>1 DEF PinIsHeeded
  <2> QED BY <1>1, <1>3, <2>2, IrqStays DEF Awake
<1> QED BY <1>2, <1>3 DEF KeyMoves

LEMMA NextHeeded ==
  ASSUME TypeOK, PinIsHeeded, [Next]_vars
  PROVE  PinIsHeeded'
<1> SUFFICES ASSUME Calm'
             PROVE  (fifo' # <<>> => key_int') /\ (key_int' => Awake')
  BY DEF PinIsHeeded
<1> DEFINE Heeded == (fifo # <<>> => key_int) /\ (key_int => Awake)
<1>1. CASE \E k \in Keys : KeyMoves(k)
  BY <1>1, KeyMovesHeeded
<1>2. CASE OthersSchedule \/ RunOther \/ StartTick \/ RunCallback
  <2>1. Heeded /\ fifo' = fifo /\ key_int' = key_int
    BY <1>2 DEF PinIsHeeded, Calm, OthersSchedule, RunOther, StartTick, RunCallback,
                chip
  <2>2. IrqQueued => IrqQueued'
    BY <1>2, IrqStays, ItemTypes DEF OthersSchedule, RunOther, StartTick, RunCallback
  <2>3. Awake => Awake'
    BY <1>2, <2>2 DEF Awake, OthersSchedule, RunOther, StartTick, RunCallback
  <2> QED BY <2>1, <2>3
<1>3. CASE StartIrq
  BY <1>3 DEF StartIrq, chip, Awake, PinIsHeeded, Calm
<1>4. CASE ReadKeyInt \/ ReadAny \/ ReadMore
  BY <1>4 DEF ReadKeyInt, ReadAny, ReadMore, chip, Awake, PinIsHeeded, Calm
<1>5. CASE ReadNext
  BY <1>5 DEF ReadNext, Awake, PinIsHeeded, Calm
<1>6. CASE ScheduleTick
  <2>1. Heeded /\ fifo' = fifo /\ key_int' = key_int /\ pc' = "clear"
    BY <1>6 DEF ScheduleTick, chip, PinIsHeeded, Calm
  <2> QED BY <2>1 DEF Awake
<1>7. CASE ClearKeyInt
  <2>1. fifo' = <<>> /\ key_int' = FALSE
    BY <1>7 DEF ClearKeyInt, WriteKeyInt, SetKeyInt, Calm, chip
  <2> QED BY <2>1
<1>8. CASE AsciiEvent
  <2>1. Heeded /\ fifo' = fifo /\ key_int' = key_int /\ pc' = pc
    BY <1>8 DEF AsciiEvent, chip, PinIsHeeded, Calm
  <2>2. IrqQueued => IrqQueued'
    BY <1>8, IrqStays, ItemTypes DEF AsciiEvent
  <2> QED BY <2>1, <2>2 DEF Awake
<1>9. CASE EndTick \/ Poll \/ UNCHANGED vars
  <2>1. Heeded /\ fifo' = fifo /\ key_int' = key_int /\ sched' = sched
    BY <1>9 DEF EndTick, Poll, vars, chip, PinIsHeeded, Calm
  <2>2. Awake => Awake'
    BY <1>9, <2>1 DEF Awake, IrqQueued, EndTick, Poll, vars
  <2> QED BY <2>1, <2>2
<1>10. CASE Deinit
  BY <1>10 DEF Deinit, Calm
<1> QED
  BY <1>1, <1>2, <1>3, <1>4, <1>5, <1>6, <1>7, <1>8, <1>9, <1>10
  DEF Next, IrqHandler, AsciiHandler

(* Unread events have a handler coming, as long as no edge or batch was    *)
(* lost and the interrupt was never cleared over unread events.            *)
THEOREM NoLostWakeupCorrect == Spec => []NoLostWakeup
<1>1. Init => PinIsHeeded
  BY DEF Init, PinIsHeeded
<1>2. TypeOK /\ PinIsHeeded /\ [Next]_vars => PinIsHeeded'
  BY NextHeeded
<1>3. PinIsHeeded => NoLostWakeup
  BY DEF PinIsHeeded, NoLostWakeup
<1> QED BY <1>1, <1>2, <1>3, TypeCorrect, PTL DEF Spec
-----------------------------------------------------------------------------
(* Calls queued and keys waiting.                                          *)

CallsIn(q) == {i \in DOMAIN q : q[i].kind = "callback"}

LEMMA CallsAppended ==
  ASSUME NEW q \in Seq(Item), NEW item \in Item, IsFiniteSet(CallsIn(q))
  PROVE  /\ IsFiniteSet(CallsIn(Append(q, item)))
         /\ Cardinality(CallsIn(Append(q, item))) =
              Cardinality(CallsIn(q)) + (IF item.kind = "callback" THEN 1 ELSE 0)
<1> HIDE DEF Item
<1>1. /\ DOMAIN q = 1..Len(q) /\ Len(q) \in Nat
      /\ DOMAIN Append(q, item) = 1..(Len(q) + 1)
      /\ \A i \in 1..Len(q) : Append(q, item)[i] = q[i]
      /\ Append(q, item)[Len(q) + 1] = item
  BY AppendProperties, LenProperties
<1>2. Len(q) + 1 \notin CallsIn(q)
  BY <1>1 DEF CallsIn
<1>3. CallsIn(Append(q, item)) =
        IF item.kind = "callback" THEN CallsIn(q) \cup {Len(q) + 1} ELSE CallsIn(q)
  BY <1>1 DEF CallsIn
<1>4. Cardinality(CallsIn(q)) \in Nat
  BY FS_CardinalityType
<1>5. /\ IsFiniteSet(CallsIn(q) \cup {Len(q) + 1})
      /\ Cardinality(CallsIn(q) \cup {Len(q) + 1}) = Cardinality(CallsIn(q)) + 1
  BY <1>2, FS_AddElement
<1> QED BY <1>3, <1>4, <1>5

LEMMA CallsLeft ==
  ASSUME NEW q \in Seq(Item), q # <<>>, IsFiniteSet(CallsIn(q))
  PROVE  /\ IsFiniteSet(CallsIn(Tail(q)))
         /\ Cardinality(CallsIn(Tail(q))) =
              Cardinality(CallsIn(q)) - (IF Head(q).kind = "callback" THEN 1 ELSE 0)
<1> HIDE DEF Item
<1> DEFINE S == CallsIn(q) \ {1}
           T == CallsIn(Tail(q))
           shift == [i \in S |-> i - 1]
<1>1. /\ DOMAIN q \subseteq Int
      /\ DOMAIN Tail(q) \subseteq Int
      /\ \A i \in DOMAIN Tail(q) : i + 1 \in DOMAIN q /\ Tail(q)[i] = q[i + 1]
      /\ \A i \in DOMAIN q : i # 1 => i - 1 \in DOMAIN Tail(q) /\ Tail(q)[i - 1] = q[i]
      /\ 1 \in DOMAIN q /\ Head(q) = q[1]
  <2>1. DOMAIN q \subseteq Int
    BY LenProperties
  <2> QED BY <2>1, TailDomain
<1>2. \A i \in DOMAIN Tail(q) : i + 1 # 1
  BY HeadTailProperties, LenProperties
<1>3. shift \in Bijection(S, T)
  <2>1. \A i \in S : i \in Int /\ i - 1 \in T
    BY <1>1 DEF CallsIn
  <2>2. \A j \in T : j \in Int /\ j + 1 \in S /\ (j + 1) - 1 = j
    BY <1>1, <1>2 DEF CallsIn
  <2>3. shift \in [S -> T]
    BY <2>1
  <2>4. \A i, j \in S : shift[i] = shift[j] => i = j
    BY <2>1
  <2>5. \A j \in T : \E i \in S : shift[i] = j
    BY <2>2
  <2> QED BY <2>3, <2>4, <2>5 DEF Bijection, Injection, IsInjective, Surjection
<1>4. IsFiniteSet(S) /\ Cardinality(S) = IF 1 \in CallsIn(q) THEN Cardinality(CallsIn(q)) - 1
                                         ELSE Cardinality(CallsIn(q))
  BY FS_RemoveElement
<1>5. IsFiniteSet(T) /\ Cardinality(T) = Cardinality(S)
  BY <1>3, <1>4, FS_Bijection DEF ExistsBijection
<1>6. 1 \in CallsIn(q) <=> Head(q).kind = "callback"
  BY <1>1 DEF CallsIn
<1>7. Cardinality(CallsIn(q)) \in Nat
  BY FS_CardinalityType
<1> QED BY <1>4, <1>5, <1>6, <1>7

(* The keys waiting and the calls for them, which the finiteness of the    *)
(* queue lets one count.                                                   *)
CallsCounted ==
  /\ IsFiniteSet(CallsIn(sched))
  /\ OneCallPerKey

LEMMA CallsMeaning ==
  OneCallPerKey <=>
    (HasCallback => /\ Cardinality(CallsIn(sched)) <= Len(keyevents)
                    /\ "callback_lost" \notin faults =>
                         Cardinality(CallsIn(sched)) = Len(keyevents))
  BY DEF OneCallPerKey, CallsIn

(* A step that leaves keyevents alone and the calls in the queue.          *)
LEMMA CallsStay ==
  ASSUME TypeOK, CallsCounted, keyevents' = keyevents, faults \subseteq faults',
         \/ sched' = sched
         \/ \E item \in Item : item.kind # "callback" /\ sched' = Append(sched, item)
         \/ sched # <<>> /\ sched' = Tail(sched) /\ Head(sched).kind # "callback"
  PROVE  CallsCounted'
<1>1. sched \in Seq(Item) /\ Cardinality(CallsIn(sched)) \in Nat
  BY FS_CardinalityType DEF TypeOK, CallsCounted
<1>2. IsFiniteSet(CallsIn(sched')) /\ Cardinality(CallsIn(sched')) = Cardinality(CallsIn(sched))
  <2> HIDE DEF Item
  <2>1. ASSUME NEW item \in Item, item.kind # "callback", sched' = Append(sched, item)
        PROVE  IsFiniteSet(CallsIn(sched')) /\ Cardinality(CallsIn(sched')) = Cardinality(CallsIn(sched))
    BY <1>1, <2>1, CallsAppended DEF CallsCounted
  <2>2. CASE sched # <<>> /\ sched' = Tail(sched) /\ Head(sched).kind # "callback"
    BY <1>1, <2>2, CallsLeft DEF CallsCounted
  <2> QED BY <2>1, <2>2 DEF CallsCounted
<1> QED BY <1>2 DEF CallsCounted, OneCallPerKey, CallsIn

LEMMA AsciiEventCalls ==
  ASSUME TypeOK, CallsCounted, AsciiEvent
  PROVE  CallsCounted'
<1> DEFINE e == Head(todo)
           n == Cardinality(CallsIn(sched))
<1>1. /\ sched \in Seq(Item) /\ keyevents \in Seq(KeyEvent) /\ Callback \in Item
      /\ n \in Nat /\ Len(keyevents) \in Nat /\ KeyEventOf(e) \in KeyEvent
  <2>1. e \in Event
    BY HeadTailProperties DEF TypeOK, AsciiEvent
  <2> QED BY <2>1, KeyEventType, ItemTypes, FS_CardinalityType, LenProperties
      DEF TypeOK, CallsCounted
<1>2. CASE ~Notify(e)
  <2>1. sched' = sched /\ faults' = faults
    BY <1>2 DEF AsciiEvent
  <2>2. HasCallback => keyevents' = keyevents
    BY <1>2 DEF AsciiEvent, Notify
  <2> QED BY <2>1, <2>2 DEF CallsCounted, OneCallPerKey, CallsIn
<1>3. CASE Notify(e)
  <2>1. Len(keyevents') = Len(keyevents) + 1
    <3>1. keyevents' = Append(keyevents, KeyEventOf(e))
      BY <1>3 DEF AsciiEvent, Notify
    <3> QED BY <1>1, <3>1, AppendProperties
  <2>2. CASE Room
    <3>1. sched' = Append(sched, Callback) /\ faults' = faults
      BY <1>3, <2>2 DEF AsciiEvent
    <3>2. IsFiniteSet(CallsIn(sched')) /\ Cardinality(CallsIn(sched')) = n + 1
      <4>1. Callback.kind = "callback" /\ IsFiniteSet(CallsIn(sched))
        BY DEF Callback, CallsCounted
      <4> HIDE DEF Item
      <4> QED BY <1>1, <3>1, <4>1, CallsAppended
    <3>3. /\ n <= Len(keyevents)
          /\ "callback_lost" \notin faults => n = Len(keyevents)
      BY <1>3, CallsMeaning DEF CallsCounted, Notify
    <3> HIDE DEF n
    <3>4. /\ Cardinality(CallsIn(sched')) <= Len(keyevents')
          /\ "callback_lost" \notin faults' => Cardinality(CallsIn(sched')) = Len(keyevents')
      BY <1>1, <2>1, <3>1, <3>2, <3>3
    <3> QED BY <3>2, <3>4 DEF CallsCounted, OneCallPerKey, CallsIn
  <2>3. CASE ~Room
    <3>1. sched' = sched /\ "callback_lost" \in faults'
      BY <1>3, <2>3 DEF AsciiEvent
    <3> QED BY <1>1, <2>1, <3>1 DEF CallsCounted, OneCallPerKey, CallsIn
  <2> QED BY <2>2, <2>3
<1> QED BY <1>2, <1>3

LEMMA RunCallbackCalls ==
  ASSUME TypeOK, CallsCounted, RunCallback
  PROVE  CallsCounted'
<1>1. /\ sched \in Seq(Item) /\ keyevents \in Seq(KeyEvent)
      /\ Cardinality(CallsIn(sched)) \in Nat /\ Len(keyevents) \in Nat
      /\ sched # <<>> /\ sched' = Tail(sched) /\ Head(sched).kind = "callback"
      /\ faults' = faults
  BY FS_CardinalityType, LenProperties DEF TypeOK, CallsCounted, RunCallback
<1>2. /\ IsFiniteSet(CallsIn(sched'))
      /\ Cardinality(CallsIn(sched')) = Cardinality(CallsIn(sched)) - 1
      /\ Cardinality(CallsIn(sched')) \in Nat
  <2>1. IsFiniteSet(CallsIn(sched'))
        /\ Cardinality(CallsIn(sched')) = Cardinality(CallsIn(sched)) - 1
    BY <1>1, CallsLeft DEF CallsCounted
  <2> QED BY <2>1, FS_CardinalityType
<1>3. ASSUME HasCallback PROVE Len(keyevents') = Len(keyevents) - 1
  <2>1. keyevents # <<>>
    <3>1. Cardinality(CallsIn(sched)) <= Len(keyevents)
      BY <1>3, CallsMeaning DEF CallsCounted
    <3>2. Len(keyevents) >= 1
      BY <1>1, <1>2, <3>1
    <3> QED BY <3>2
  <2> QED BY <1>1, <2>1, HeadTailProperties DEF RunCallback, GetKey
<1>4. HasCallback => /\ Cardinality(CallsIn(sched)) <= Len(keyevents)
                     /\ "callback_lost" \notin faults =>
                          Cardinality(CallsIn(sched)) = Len(keyevents)
  BY CallsMeaning DEF CallsCounted
<1>5. HasCallback => /\ Cardinality(CallsIn(sched')) <= Len(keyevents')
                     /\ "callback_lost" \notin faults' =>
                          Cardinality(CallsIn(sched')) = Len(keyevents')
  BY <1>1, <1>2, <1>3, <1>4
<1> QED BY <1>2, <1>5, CallsMeaning DEF CallsCounted, OneCallPerKey, CallsIn

(* With a callback set, the calls queued are as many as the keys waiting:  *)
(* _ascii_handler schedules one for every key it appends, the callback     *)
(* takes one, and only a call the full queue refused leaves a key behind.  *)
THEOREM OneCallPerKeyCorrect == Spec => []OneCallPerKey
<1>1. Init => CallsCounted
  <2> SUFFICES ASSUME Init PROVE CallsCounted
    OBVIOUS
  <2>1. CallsIn(sched) = {} /\ Len(keyevents) = 0
    BY DEF Init, CallsIn
  <2> QED BY <2>1, FS_EmptySet DEF CallsCounted, OneCallPerKey, CallsIn
<1>2. TypeOK /\ CallsCounted /\ [Next]_vars => CallsCounted'
  <2> SUFFICES ASSUME TypeOK, CallsCounted, [Next]_vars PROVE CallsCounted'
    OBVIOUS
  <2>1. /\ Irq \in Item /\ Irq.kind # "callback" /\ Other \in Item /\ Other.kind # "callback"
        /\ Tick(events) \in Item /\ Tick(events).kind # "callback"
    BY ItemTypes DEF Irq, Other, Tick, TypeOK
  <2>2. CASE \E k \in Keys : KeyMoves(k)
    BY <2>1, <2>2, CallsStay DEF KeyMoves, SetKeyInt, driver
  <2>3. CASE OthersSchedule \/ RunOther
    BY <2>1, <2>3, CallsStay DEF OthersSchedule, RunOther, driver
  <2>4. CASE StartIrq \/ ReadKeyInt \/ ReadAny \/ ReadMore \/ ReadNext
    BY <2>4, CallsStay DEF StartIrq, ReadKeyInt, ReadAny, ReadMore, ReadNext, driver
  <2>5. CASE ScheduleTick
    BY <2>1, <2>5, CallsStay DEF ScheduleTick, driver
  <2>6. CASE ClearKeyInt
    BY <2>1, <2>6, CallsStay DEF ClearKeyInt, WriteKeyInt, SetKeyInt, driver
  <2>7. CASE StartTick
    BY <2>7, CallsStay DEF StartTick, driver
  <2>8. CASE AsciiEvent
    BY <2>8, AsciiEventCalls
  <2>9. CASE EndTick \/ Deinit \/ UNCHANGED vars
    BY <2>9, CallsStay DEF EndTick, Deinit, vars, driver
  <2>10. CASE RunCallback
    BY <2>10, RunCallbackCalls
  <2>11. CASE Poll
    BY <2>11 DEF Poll, CallsCounted, OneCallPerKey, CallsIn
  <2> QED BY <2>2, <2>3, <2>4, <2>5, <2>6, <2>7, <2>8, <2>9, <2>10, <2>11
      DEF Next, IrqHandler, AsciiHandler
<1>3. CallsCounted => OneCallPerKey
  BY DEF CallsCounted
<1> QED BY <1>1, <1>2, <1>3, TypeCorrect, PTL DEF Spec

-----------------------------------------------------------------------------
(* The events on their way from the chip to _ascii_handler, as a set.      *)

LEMMA RangeOfSequence ==
  ASSUME NEW S, NEW s \in Seq(S)
  PROVE  /\ Range(<<>>) = {}
         /\ Range(s) \subseteq S
         /\ \A x \in S : Range(Append(s, x)) = Range(s) \cup {x}
         /\ s # <<>> => Range(s) = {Head(s)} \cup Range(Tail(s))
<1>1. Range(<<>>) = {}
  BY DEF Range
<1>2. Range(s) \subseteq S
  BY MemberType DEF Range
<1>3. ASSUME NEW x \in S
      PROVE  Range(Append(s, x)) = Range(s) \cup {x}
  <2> DEFINE t == Append(s, x)
  <2>1. /\ \A i \in DOMAIN t : t[i] = x \/ (i \in DOMAIN s /\ t[i] = s[i])
        /\ \A i \in DOMAIN s : i \in DOMAIN t /\ t[i] = s[i]
        /\ \E i \in DOMAIN t : t[i] = x
    BY AppendDomain
  <2> HIDE DEF t
  <2>2. ASSUME NEW y \in Range(t) PROVE y \in Range(s) \cup {x}
    <3>1. PICK i \in DOMAIN t : y = t[i]
      BY DEF Range
    <3> QED BY <2>1, <3>1 DEF Range
  <2>3. ASSUME NEW y \in Range(s) PROVE y \in Range(t)
    <3>1. PICK i \in DOMAIN s : y = s[i]
      BY DEF Range
    <3>2. i \in DOMAIN t /\ t[i] = y
      BY <2>1, <3>1
    <3> QED BY <3>2 DEF Range
  <2>4. x \in Range(t)
    BY <2>1 DEF Range
  <2> QED BY <2>2, <2>3, <2>4 DEF t
<1>4. ASSUME s # <<>>
      PROVE  Range(s) = {Head(s)} \cup Range(Tail(s))
  <2> DEFINE t == Tail(s)
  <2>1. /\ \A i \in DOMAIN t : i + 1 \in DOMAIN s /\ t[i] = s[i + 1]
        /\ \A i \in DOMAIN s : i # 1 => i - 1 \in DOMAIN t /\ t[i - 1] = s[i]
        /\ 1 \in DOMAIN s /\ Head(s) = s[1]
    BY <1>4, TailDomain
  <2> HIDE DEF t
  <2>2. ASSUME NEW y \in Range(s) PROVE y \in {Head(s)} \cup Range(t)
    <3>1. PICK i \in DOMAIN s : y = s[i]
      BY DEF Range
    <3>2. i # 1 => i - 1 \in DOMAIN t /\ t[i - 1] = y
      BY <2>1, <3>1
    <3> QED BY <2>1, <3>1, <3>2 DEF Range
  <2>3. ASSUME NEW y \in Range(t) PROVE y \in Range(s)
    <3>1. PICK i \in DOMAIN t : y = t[i]
      BY DEF Range
    <3>2. i + 1 \in DOMAIN s /\ s[i + 1] = y
      BY <2>1, <3>1
    <3> QED BY <3>2 DEF Range
  <2>4. Head(s) \in Range(s)
    BY <2>1 DEF Range
  <2> QED BY <2>2, <2>3, <2>4 DEF t
<1> QED BY <1>1, <1>2, <1>3, <1>4

LEMMA BatchesOfQueue ==
  ASSUME NEW q \in Seq(Item)
  PROVE  /\ \A item \in Item : Batches(Append(q, item)) = Batches(q) \cup Range(item.events)
         /\ q # <<>> => Batches(q) = Range(Head(q).events) \cup Batches(Tail(q))
<1> HIDE DEF Item
<1>1. ASSUME NEW item \in Item
      PROVE  Batches(Append(q, item)) = Batches(q) \cup Range(item.events)
  <2>1. ASSUME NEW x
        PROVE  x \in Batches(Append(q, item)) <=> x \in Batches(q) \/ x \in Range(item.events)
    <3>1. x \in Batches(Append(q, item)) <=>
            \E i \in DOMAIN Append(q, item) : x \in Range(Append(q, item)[i].events)
      BY DEF Batches
    <3>2. x \in Batches(q) <=> \E i \in DOMAIN q : x \in Range(q[i].events)
      BY DEF Batches
    <3>3. /\ \A i \in DOMAIN Append(q, item) :
               Append(q, item)[i] = item \/ (i \in DOMAIN q /\ Append(q, item)[i] = q[i])
          /\ \A i \in DOMAIN q : i \in DOMAIN Append(q, item) /\ Append(q, item)[i] = q[i]
          /\ \E i \in DOMAIN Append(q, item) : Append(q, item)[i] = item
      BY AppendDomain
    <3>4. x \in Batches(Append(q, item)) => x \in Batches(q) \/ x \in Range(item.events)
      BY <3>1, <3>2, <3>3, Zenon
    <3>5. x \in Batches(q) => x \in Batches(Append(q, item))
      BY <3>1, <3>2, <3>3, Zenon
    <3>6. x \in Range(item.events) => x \in Batches(Append(q, item))
      BY <3>1, <3>3, Zenon
    <3> QED BY <3>4, <3>5, <3>6
  <2> QED BY <2>1
<1>2. ASSUME q # <<>>
      PROVE  Batches(q) = Range(Head(q).events) \cup Batches(Tail(q))
  <2>1. ASSUME NEW x
        PROVE  x \in Batches(q) <=> x \in Range(Head(q).events) \/ x \in Batches(Tail(q))
    <3>1. x \in Batches(Tail(q)) <=> \E i \in DOMAIN Tail(q) : x \in Range(Tail(q)[i].events)
      BY DEF Batches
    <3>2. x \in Batches(q) <=> \E i \in DOMAIN q : x \in Range(q[i].events)
      BY DEF Batches
    <3>3. /\ \A i \in DOMAIN Tail(q) : i + 1 \in DOMAIN q /\ Tail(q)[i] = q[i + 1]
          /\ \A i \in DOMAIN q : i # 1 => i - 1 \in DOMAIN Tail(q) /\ Tail(q)[i - 1] = q[i]
          /\ 1 \in DOMAIN q /\ Head(q) = q[1]
      BY <1>2, TailDomain
    <3>4. x \in Batches(q) => x \in Range(Head(q).events) \/ x \in Batches(Tail(q))
      BY <3>1, <3>2, <3>3, Zenon
    <3>5. x \in Range(Head(q).events) \/ x \in Batches(Tail(q)) => x \in Batches(q)
      BY <3>1, <3>2, <3>3, Zenon
    <3> QED BY <3>4, <3>5
  <2> QED BY <2>1
<1> QED BY <1>1, <1>2

LEMMA PendingType ==
  ASSUME TypeOK
  PROVE  Pending \subseteq Event
<1>1. Range(todo) \subseteq Event /\ Range(events) \subseteq Event /\ Range(fifo) \subseteq Event
  BY RangeOfSequence DEF TypeOK
<1>2. \A i \in DOMAIN sched : Range(sched[i].events) \subseteq Event
  <2>1. \A i \in DOMAIN sched : sched[i] \in Item
    <3>1. sched \in Seq(Item)
      BY DEF TypeOK
    <3> QED BY <3>1, MemberType, Zenon
  <2>2. \A i \in DOMAIN sched : sched[i].events \in Seq(Event)
    BY <2>1 DEF Item
  <2> QED BY <2>2, RangeOfSequence
<1>3. Batches(sched) \subseteq Event
  BY <1>2 DEF Batches
<1> QED BY <1>1, <1>3 DEF Pending

(* What an item without a batch, or one with it, means for the queue.      *)
LEMMA ItemBatches ==
  ASSUME TypeOK
  PROVE  /\ Range(Irq.events) = {} /\ Range(Other.events) = {} /\ Range(Callback.events) = {}
         /\ Range(Tick(events).events) = Range(events)
         /\ \A item \in {Irq, Other, Callback, Tick(events)} :
              Batches(Append(sched, item)) = Batches(sched) \cup Range(item.events)
         /\ sched # <<>> => Batches(sched) = Range(Head(sched).events) \cup Batches(Tail(sched))
<1>1. Range(Irq.events) = {} /\ Range(Other.events) = {} /\ Range(Callback.events) = {}
      /\ Range(Tick(events).events) = Range(events)
  BY DEF Irq, Other, Callback, Tick, Range
<1>2. sched \in Seq(Item) /\ \A item \in {Irq, Other, Callback, Tick(events)} : item \in Item
  BY ItemTypes DEF TypeOK
<1> HIDE DEF Item
<1> QED BY <1>1, <1>2, BatchesOfQueue

(* Only a tick carries a batch: whatever else leaves the queue has none.   *)
NoBatchElsewhere ==
  /\ pc # "tick" => todo = <<>>
  /\ \A i \in DOMAIN sched : sched[i].kind # "tick" => sched[i].events = <<>>

LEMMA NoBatchElsewhereStep ==
  ASSUME TypeOK, NoBatchElsewhere, [Next]_vars
  PROVE  NoBatchElsewhere'
<1>1. sched \in Seq(Item)
  BY DEF TypeOK
<1>2. ASSUME NEW item \in Item, item.kind # "tick" => item.events = <<>>,
             sched' = Append(sched, item)
      PROVE  \A i \in DOMAIN sched' : sched'[i].kind # "tick" => sched'[i].events = <<>>
  <2> HIDE DEF Item
  <2> DEFINE t == Append(sched, item)
  <2>0. \A i \in DOMAIN t : t[i] = item \/ (i \in DOMAIN sched /\ t[i] = sched[i])
    BY <1>1, AppendDomain
  <2>1. \A i \in DOMAIN sched' : sched'[i] = item \/ (i \in DOMAIN sched /\ sched'[i] = sched[i])
    BY <1>2, <2>0, Zenon
  <2> QED BY <1>2, <2>1 DEF NoBatchElsewhere
<1>3. ASSUME sched # <<>>, sched' = Tail(sched)
      PROVE  \A i \in DOMAIN sched' : sched'[i].kind # "tick" => sched'[i].events = <<>>
  <2>1. \A i \in DOMAIN sched' : i + 1 \in DOMAIN sched /\ sched'[i] = sched[i + 1]
    BY <1>1, <1>3, TailDomain, Zenon
  <2> QED BY <2>1 DEF NoBatchElsewhere
<1>4. \/ sched' = sched
      \/ \E item \in Item : /\ item.kind # "tick" => item.events = <<>>
                            /\ sched' = Append(sched, item)
      \/ sched # <<>> /\ sched' = Tail(sched)
  <2>1. /\ Irq \in Item /\ Irq.events = <<>> /\ Other \in Item /\ Other.events = <<>>
        /\ Callback \in Item /\ Callback.events = <<>>
        /\ Tick(events) \in Item /\ Tick(events).kind = "tick"
    BY ItemTypes DEF TypeOK, Irq, Other, Callback, Tick
  <2>2. CASE \E k \in Keys : KeyMoves(k)
    BY <2>1, <2>2 DEF KeyMoves, SetKeyInt
  <2>3. CASE OthersSchedule \/ RunOther \/ StartIrq \/ StartTick \/ RunCallback
    BY <2>1, <2>3 DEF OthersSchedule, RunOther, StartIrq, StartTick, RunCallback
  <2>4. CASE ReadKeyInt \/ ReadAny \/ ReadMore \/ ReadNext \/ EndTick \/ Poll \/ Deinit
             \/ UNCHANGED vars
    BY <2>4 DEF ReadKeyInt, ReadAny, ReadMore, ReadNext, EndTick, Poll, Deinit, vars
  <2>5. CASE ScheduleTick
    BY <2>1, <2>5 DEF ScheduleTick
  <2>6. CASE ClearKeyInt
    BY <2>1, <2>6 DEF ClearKeyInt, WriteKeyInt, SetKeyInt
  <2>7. CASE AsciiEvent
    BY <2>1, <2>7 DEF AsciiEvent
  <2> QED BY <2>2, <2>3, <2>4, <2>5, <2>6, <2>7 DEF Next, IrqHandler, AsciiHandler
<1>5. \A i \in DOMAIN sched' : sched'[i].kind # "tick" => sched'[i].events = <<>>
  <2>1. CASE sched' = sched
    BY <2>1 DEF NoBatchElsewhere
  <2> QED BY <1>2, <1>3, <1>4, <2>1
<1>6. pc' # "tick" => todo' = <<>>
  <2>1. CASE todo' = todo /\ (pc' = pc \/ pc # "tick")
    BY <2>1 DEF NoBatchElsewhere
  <2>2. CASE pc' = "tick" \/ todo' = <<>>
    BY <2>2
  <2>3. [Next]_vars => \/ todo' = todo /\ (pc' = pc \/ pc # "tick")
                       \/ pc' = "tick" \/ todo' = <<>>
    BY DEF Next, IrqHandler, AsciiHandler, KeyMoves, OthersSchedule, RunOther, StartIrq,
           ReadKeyInt, ReadAny, ReadMore, ReadNext, ScheduleTick, ClearKeyInt, StartTick,
           AsciiEvent, EndTick, RunCallback, Poll, Deinit, vars
  <2> QED BY <2>1, <2>2, <2>3
<1> QED BY <1>5, <1>6 DEF NoBatchElsewhere

(* What a step does to the events on their way.                            *)

LEMMA PendingStays ==
  ASSUME TypeOK, NoBatchElsewhere,
         \/ OthersSchedule \/ RunOther \/ StartIrq \/ ReadKeyInt \/ ReadAny \/ ReadMore
         \/ ReadNext \/ ClearKeyInt \/ StartTick \/ EndTick
         \/ RunCallback \/ Poll \/ Deinit \/ UNCHANGED vars
  PROVE  Pending' = Pending
<1>1. sched \in Seq(Item)
  BY DEF TypeOK
<1>2. sched # <<>> /\ Head(sched).kind # "tick" => Batches(Tail(sched)) = Batches(sched)
  <2> SUFFICES ASSUME sched # <<>>, Head(sched).kind # "tick"
               PROVE  Batches(Tail(sched)) = Batches(sched)
    OBVIOUS
  <2>1. 1 \in DOMAIN sched /\ Head(sched) = sched[1]
    BY <1>1, TailDomain
  <2>2. Head(sched).events = <<>>
    BY <2>1 DEF NoBatchElsewhere
  <2>3. Range(Head(sched).events) = {}
    BY <2>2 DEF Range
  <2> QED BY <2>3, ItemBatches
<1>3. CASE OthersSchedule
  BY <1>3, ItemBatches DEF OthersSchedule, chip, Pending
<1>4. CASE RunOther \/ StartIrq \/ RunCallback
  BY <1>2, <1>4 DEF RunOther, StartIrq, RunCallback, chip, Pending
<1>5. CASE ReadKeyInt \/ ReadAny \/ ReadMore \/ EndTick \/ Poll \/ Deinit \/ UNCHANGED vars
  BY <1>5 DEF ReadKeyInt, ReadAny, ReadMore, EndTick, Poll, Deinit, chip, vars, Pending
<1>6. CASE ReadNext
  <2>1. /\ fifo \in Seq(Event) /\ fifo # <<>> /\ Head(fifo) \in Event /\ events \in Seq(Event)
        /\ events' = Append(events, Head(fifo)) /\ fifo' = Tail(fifo)
        /\ sched' = sched /\ todo' = todo
    BY <1>6, HeadTailProperties DEF ReadNext, TypeOK
  <2>2. Range(events') = Range(events) \cup {Head(fifo)} /\ Range(fifo) = {Head(fifo)} \cup Range(fifo')
    BY <2>1, RangeOfSequence
  <2>3. Pending' = Range(todo) \cup Batches(sched) \cup Range(events') \cup Range(fifo')
    BY <2>1 DEF Pending
  <2> QED BY <2>2, <2>3 DEF Pending
<1>7. CASE ClearKeyInt
  <2>1. /\ todo' = todo /\ events' = events /\ fifo' = fifo
        /\ sched' = sched \/ sched' = Append(sched, Irq)
    BY <1>7 DEF ClearKeyInt, WriteKeyInt, SetKeyInt, chip
  <2>2. Batches(sched') = Batches(sched)
    BY <2>1, ItemBatches
  <2> QED BY <2>1, <2>2 DEF Pending
<1>8. CASE StartTick
  <2>1. /\ todo = <<>> /\ todo' = Head(sched).events /\ sched' = Tail(sched) /\ sched # <<>>
        /\ events' = events /\ fifo' = fifo
    BY <1>8 DEF StartTick, NoBatchElsewhere, chip
  <2>2. Range(todo) = {} /\ Batches(sched) = Range(todo') \cup Batches(sched')
    BY <2>1, ItemBatches DEF Range
  <2>3. Pending' = Range(todo') \cup Batches(sched') \cup Range(events) \cup Range(fifo)
    BY <2>1 DEF Pending
  <2> QED BY <2>2, <2>3 DEF Pending
<1> QED BY <1>3, <1>4, <1>5, <1>6, <1>7, <1>8

EventOf(k) == [n    |-> count',
               byte |-> IF k \in held THEN k ELSE 128 + k,
               held |-> held']

LEMMA PendingGrows ==
  ASSUME TypeOK, NEW k \in Keys, KeyMoves(k)
  PROVE  /\ EventOf(k) \in Event
         /\ \/ Pending' = Pending \cup {EventOf(k)}
            \/ Pending' = Pending /\ "overflow" \in faults'
<1>1. count' \in 1..MaxEvents /\ held' \subseteq Keys
  BY SizesAssumption DEF KeyMoves, TypeOK
<1>2. EventOf(k) \in Event
  BY <1>1, KeysAssumption DEF Event, EventOf
<1>3. /\ todo' = todo /\ events' = events
      /\ sched' = sched \/ sched' = Append(sched, Irq)
  BY DEF KeyMoves, SetKeyInt
<1>4. Batches(sched') = Batches(sched)
  BY <1>3, ItemBatches
<1>5. CASE fifo' = Append(fifo, EventOf(k))
  <2>1. Range(fifo') = Range(fifo) \cup {EventOf(k)}
    BY <1>2, <1>5, RangeOfSequence DEF TypeOK
  <2>2. Pending' = Range(todo) \cup Batches(sched) \cup Range(events) \cup Range(fifo')
    BY <1>3, <1>4 DEF Pending
  <2> QED BY <1>2, <2>1, <2>2 DEF Pending
<1>6. CASE fifo' = fifo /\ "overflow" \in faults'
  <2>1. Pending' = Pending
    BY <1>3, <1>4, <1>6 DEF Pending
  <2> QED BY <1>2, <1>6, <2>1
<1>7. \/ fifo' = Append(fifo, EventOf(k))
      \/ fifo' = fifo /\ "overflow" \in faults'
  BY DEF KeyMoves, EventOf
<1> QED BY <1>5, <1>6, <1>7

LEMMA PendingLost ==
  ASSUME TypeOK, ScheduleTick
  PROVE  \/ Pending' = Pending /\ faults' = faults
         \/ Pending' \subseteq Pending /\ "batch_lost" \in faults'
<1>1. todo' = todo /\ fifo' = fifo /\ events' = <<>>
  BY DEF ScheduleTick, chip
<1>2. Range(events') = {}
  BY <1>1 DEF Range
<1>3. Pending' = Range(todo) \cup Batches(sched') \cup Range(fifo)
  BY <1>1, <1>2 DEF Pending
<1>4. CASE sched' = Append(sched, Tick(events)) /\ faults' = faults
  <2>1. Batches(sched') = Batches(sched) \cup Range(events)
    BY <1>4, ItemBatches
  <2> QED BY <1>3, <1>4, <2>1 DEF Pending
<1>5. CASE sched' = sched /\ "batch_lost" \in faults'
  BY <1>3, <1>5 DEF Pending
<1> QED BY <1>4, <1>5 DEF ScheduleTick

(* The event being processed is the oldest of all, and leaves them.        *)
LEMMA PendingProcessed ==
  ASSUME TypeOK, StagesInOrder, AsciiEvent
  PROVE  /\ Head(todo) \in Event /\ Head(todo) \in Pending
         /\ \A e \in Pending' : e \in Pending /\ Head(todo).n < e.n
         /\ \/ Pending = {Head(todo)} \cup Pending' /\ faults' = faults
            \/ "callback_lost" \in faults'
<1> DEFINE x == Head(todo)
<1>1. /\ todo \in Seq(Event) /\ todo # <<>> /\ x \in Event
      /\ events' = events /\ fifo' = fifo
      /\ sched' = sched \/ sched' = Append(sched, Callback)
  BY HeadTailProperties DEF AsciiEvent, TypeOK, chip
<1>2. Batches(sched') = Batches(sched)
  BY <1>1, ItemBatches
<1>3. Range(todo) = {x} \cup Range(Tail(todo)) /\ Range(<<>>) = {}
  BY <1>1, RangeOfSequence
<1>4. \A e \in Range(Tail(todo)) \cup Batches(sched) \cup Range(events) \cup Range(fifo) : x.n < e.n
  <2>1. Ascending(todo) /\ Before(todo, events) /\ Before(todo, fifo)
    BY DEF StagesInOrder
  <2>2. /\ \A i \in DOMAIN Tail(todo) : x.n < Tail(todo)[i].n
        /\ \A q : Before(todo, q) => \A i \in DOMAIN q : x.n < q[i].n
    BY <1>1, <2>1, OrderTail
  <2>3. \A i \in DOMAIN sched : Before(todo, sched[i].events)
    BY DEF StagesInOrder, ScheduledInOrder
  <2>4. \A i \in DOMAIN sched : \A e \in Range(sched[i].events) : x.n < e.n
    BY <2>2, <2>3 DEF Range
  <2>5. \A e \in Batches(sched) : x.n < e.n
    BY <2>4 DEF Batches
  <2>6. \A e \in Range(Tail(todo)) \cup Range(events) \cup Range(fifo) : x.n < e.n
    BY <2>1, <2>2 DEF Range
  <2> QED BY <2>5, <2>6
<1>5. Pending' = Range(todo') \cup Batches(sched) \cup Range(events) \cup Range(fifo)
  BY <1>1, <1>2 DEF Pending
<1>6. CASE todo' = Tail(todo) /\ faults' = faults
  BY <1>1, <1>3, <1>4, <1>5, <1>6 DEF Pending
<1>7. CASE todo' = <<>> /\ "callback_lost" \in faults'
  BY <1>1, <1>3, <1>4, <1>5, <1>7 DEF Pending
<1> QED BY <1>6, <1>7 DEF AsciiEvent

-----------------------------------------------------------------------------
(* Modifiers.  What a press or a release says is what changes in the set   *)
(* of switches that are down, since FN and each modifier have one key.     *)

LEMMA KeyBytes ==
  ASSUME NEW k \in Keys
  PROVE  /\ k \in 1..80
         /\ ~IsPress(k) /\ IsPress(128 + k)
         /\ Position(128 + k) = Position(k)
<1>1. k \in 1..80
  BY KeysAssumption
<1>2. k % 128 = k /\ (128 + k) % 128 = k
  BY <1>1
<1> QED BY <1>1, <1>2 DEF IsPress, Position

LEMMA OneKeyEach ==
  ASSUME NEW k \in Keys, NEW l \in Keys
  PROVE  /\ \A m : m \in ModifierAt(Position(k)) /\ m \in ModifierAt(Position(l)) => k = l
         /\ IsFn(Position(k)) /\ IsFn(Position(l)) => k = l
<1>1. ASSUME NEW b \in Keys
      PROVE  /\ Position(b) = Key(2, 0) => b = 3
             /\ Position(b) = Key(2, 1) => b = 7
             /\ Position(b) = Key(3, 0) => b = 4
             /\ Position(b) = Key(3, 1) => b = 8
             /\ Position(b) = Key(3, 2) => b = 14
  <2> DEFINE r == (b - 1) \div 10
             c == (b - 1) % 10
  <2>1. b \in 1..80 /\ b % 128 = b
    BY KeysAssumption
  <2>2. b = (10 * r) + c + 1 /\ r \in 0..7 /\ c \in 0..9
    BY <2>1
  <2> HIDE DEF r, c
  <2>3. Position(b) = [row |-> (c + 4) % 4, col |-> IF c > 3 THEN 2 * r + 1 ELSE 2 * r]
    BY <2>1 DEF Position, r, c
  <2>4. \A row, col : Position(b) = Key(row, col) =>
                        /\ (c + 4) % 4 = row
                        /\ (IF c > 3 THEN 2 * r + 1 ELSE 2 * r) = col
    BY <2>3 DEF Key
  <2>5. (c + 4) % 4 = 2 => c = 2 \/ c = 6
    BY <2>2
  <2>6. (c + 4) % 4 = 3 => c = 3 \/ c = 7
    BY <2>2
  <2> QED BY <2>2, <2>4, <2>5, <2>6
<1>2. ASSUME NEW pos, NEW m, m \in ModifierAt(pos)
      PROVE  \/ m = "shift" /\ pos = Key(2, 1)
             \/ m = "ctrl" /\ pos = Key(3, 0)
             \/ m = "opt" /\ pos = Key(3, 1)
             \/ m = "alt" /\ pos = Key(3, 2)
  BY <1>2 DEF ModifierAt
<1>3. ASSUME NEW m, m \in ModifierAt(Position(k)), m \in ModifierAt(Position(l))
      PROVE  k = l
  <2> DEFINE p == Position(k)
             q == Position(l)
  <2>1. /\ p = Key(2, 1) => k = 7
        /\ p = Key(3, 0) => k = 4
        /\ p = Key(3, 1) => k = 8
        /\ p = Key(3, 2) => k = 14
        /\ q = Key(2, 1) => l = 7
        /\ q = Key(3, 0) => l = 4
        /\ q = Key(3, 1) => l = 8
        /\ q = Key(3, 2) => l = 14
    BY <1>1
  <2> HIDE DEF p, q
  <2> QED BY <1>2, <1>3, <2>1 DEF p, q
<1>4. IsFn(Position(k)) /\ IsFn(Position(l)) => k = l
  BY <1>1 DEF IsFn
<1> QED BY <1>3, <1>4

Changed(S, k) == IF k \in S THEN S \ {k} ELSE S \cup {k}
ByteOf(S, k)  == IF k \in S THEN k ELSE 128 + k

LEMMA ChangeTold ==
  ASSUME NEW S \in SUBSET Keys, NEW k \in Keys
  PROVE  LET b == ByteOf(S, k)
         IN  /\ PhysicalMask(Changed(S, k)) =
                  IF IsPress(b) THEN PhysicalMask(S) \cup ModifierAt(Position(b))
                                ELSE PhysicalMask(S) \ ModifierAt(Position(b))
             /\ PhysicalFn(Changed(S, k)) =
                  IF IsFn(Position(b)) THEN IsPress(b) ELSE PhysicalFn(S)
<1> DEFINE p == Position(k)
           Mods(l) == ModifierAt(Position(l))
           Fn(l) == IsFn(Position(l))
<1>1. \A l \in Keys : /\ \A m : m \in Mods(k) /\ m \in Mods(l) => k = l
                      /\ Fn(k) /\ Fn(l) => k = l
  BY OneKeyEach
<1>2. \A T : PhysicalMask(T) = UNION {Mods(l) : l \in T}
  BY DEF PhysicalMask
<1>3. \A T : PhysicalFn(T) = \E l \in T : Fn(l)
  BY DEF PhysicalFn
<1>4. Fn(k) \in BOOLEAN
  BY DEF IsFn
<1>5. CASE k \in S
  <2>1. ~IsPress(ByteOf(S, k)) /\ Position(ByteOf(S, k)) = p /\ Changed(S, k) = S \ {k}
    BY <1>5, KeyBytes DEF ByteOf, Changed
  <2> HIDE DEF Mods, Fn
  <2>2. PhysicalMask(S \ {k}) = PhysicalMask(S) \ Mods(k)
    BY <1>1, <1>2, <1>5
  <2>3. Fn(k) => ~PhysicalFn(S \ {k})
    BY <1>1, <1>3
  <2>4. ~Fn(k) => PhysicalFn(S \ {k}) = PhysicalFn(S)
    BY <1>3
  <2>5. IsPress(ByteOf(S, k)) = FALSE
    BY <2>1 DEF IsPress
  <2>6. PhysicalFn(S \ {k}) = IF Fn(k) THEN FALSE ELSE PhysicalFn(S)
    <3>1. PhysicalFn(S \ {k}) \in BOOLEAN
      BY DEF PhysicalFn
    <3> QED BY <1>4, <2>3, <2>4, <3>1
  <2> QED BY <2>1, <2>2, <2>5, <2>6 DEF Mods, Fn
<1>6. CASE k \notin S
  <2>1. IsPress(ByteOf(S, k)) /\ Position(ByteOf(S, k)) = p /\ Changed(S, k) = S \cup {k}
    BY <1>6, KeyBytes DEF ByteOf, Changed
  <2> HIDE DEF Mods, Fn
  <2>2. PhysicalMask(S \cup {k}) = PhysicalMask(S) \cup Mods(k)
    BY <1>2
  <2>3. Fn(k) => PhysicalFn(S \cup {k})
    BY <1>3
  <2>4. ~Fn(k) => PhysicalFn(S \cup {k}) = PhysicalFn(S)
    BY <1>3
  <2>5. IsPress(ByteOf(S, k)) = TRUE
    BY <2>1 DEF IsPress
  <2>6. PhysicalFn(S \cup {k}) = IF Fn(k) THEN TRUE ELSE PhysicalFn(S)
    <3>1. PhysicalFn(S \cup {k}) \in BOOLEAN
      BY DEF PhysicalFn
    <3> QED BY <1>4, <2>3, <2>4, <3>1
  <2> QED BY <2>1, <2>2, <2>5, <2>6 DEF Mods, Fn
<1> QED BY <1>5, <1>6

(* While nothing was lost, the events on their way are those after event d,*)
(* the driver's modifiers are those of the switches down after event d,    *)
(* and each event changes them to what they were after it: h tells them.   *)
Lossless == faults \cap {"overflow", "batch_lost", "callback_lost"} = {}

Tells(h, e) ==
  /\ e.held = h[e.n]
  /\ \E k \in Keys : /\ e.byte = ByteOf(h[e.n - 1], k)
                     /\ e.held = Changed(h[e.n - 1], k)

Since(h, d) ==
  /\ h[count] = held
  /\ \A e \in Pending : d < e.n /\ Tells(h, e)
  /\ \A n \in (d + 1)..count : \E e \in Pending : e.n = n
  /\ modifier_mask = PhysicalMask(h[d])
  /\ fn_state = PhysicalFn(h[d])

HistoryKept ==
  Lossless => /\ ModifiersOfThePress
              /\ \E d \in 0..count : \E h \in [0..count -> SUBSET Keys] : Since(h, d)

LEMMA PressesStay ==
  ASSUME ModifiersOfThePress, Lossless, keyevents' = keyevents, taken' = taken
  PROVE  ModifiersOfThePress'
  BY DEF ModifiersOfThePress, Lossless

LEMMA KeyMovesHistory ==
  ASSUME TypeOK, StagesInOrder, HistoryKept, NEW k \in Keys, KeyMoves(k), Lossless'
  PROVE  HistoryKept'
<1> DEFINE e == EventOf(k)
<1>1. /\ Lossless /\ count \in Nat /\ count' = count + 1
      /\ held' = Changed(held, k) /\ held \subseteq Keys /\ held' \subseteq Keys
      /\ modifier_mask' = modifier_mask /\ fn_state' = fn_state
      /\ keyevents' = keyevents /\ taken' = taken
      /\ faults \subseteq faults'
  <2>1. faults \subseteq faults'
    BY DEF KeyMoves, SetKeyInt
  <2>2. Lossless
    BY <2>1 DEF Lossless
  <2>3. count \in Nat /\ count' = count + 1
    BY SizesAssumption DEF KeyMoves, TypeOK
  <2>4. held' = Changed(held, k) /\ held \subseteq Keys /\ held' \subseteq Keys
    BY DEF KeyMoves, Changed, TypeOK
  <2>5. /\ modifier_mask' = modifier_mask /\ fn_state' = fn_state
        /\ keyevents' = keyevents /\ taken' = taken
    BY DEF KeyMoves, driver
  <2> QED BY <2>1, <2>2, <2>3, <2>4, <2>5
<1>2. PICK d \in 0..count : \E h \in [0..count -> SUBSET Keys] : Since(h, d)
  BY <1>1 DEF HistoryKept
<1>3. PICK h \in [0..count -> SUBSET Keys] : Since(h, d)
  BY <1>2
<1>4. e \in Event /\ Pending' = Pending \cup {e}
  BY PendingGrows DEF Lossless
<1>5. e.n = count + 1 /\ e.byte = ByteOf(held, k) /\ e.held = held'
  BY <1>1 DEF EventOf, ByteOf
<1>6. Pending \subseteq Event /\ \A x \in Pending : x.n \in 1..MaxEvents /\ x.n <= count
  <2>1. \A x \in Pending : x.n <= count
    <3>1. /\ UpTo(todo, count) /\ UpTo(events, count) /\ UpTo(fifo, count)
          /\ \A i \in DOMAIN sched : UpTo(sched[i].events, count)
      BY DEF StagesInOrder, ScheduledInOrder
    <3> QED BY <3>1 DEF Pending, Batches, Range, UpTo
  <2>2. \A x \in Event : x.n \in 1..MaxEvents
    BY DEF Event
  <2> QED BY <2>1, <2>2, PendingType
<1>7. PICK g \in [0..count' -> SUBSET Keys] : g[count'] = held' /\ \A n \in 0..count : g[n] = h[n]
  <2> DEFINE f == [n \in 0..count' |-> IF n = count' THEN held' ELSE h[n]]
  <2>1. f \in [0..count' -> SUBSET Keys] /\ f[count'] = held'
        /\ \A n \in 0..count : f[n] = h[n]
    BY <1>1
  <2> QED BY <2>1
<1> HIDE DEF e
<1>8. \A x \in Pending : d < x.n /\ Tells(h, x)
  BY <1>3 DEF Since
<1>9. ASSUME NEW x \in Pending
      PROVE  d < x.n /\ Tells(g, x)
  <2>1. g[x.n] = h[x.n] /\ g[x.n - 1] = h[x.n - 1]
    <3>1. x.n \in 0..count /\ x.n - 1 \in 0..count
      BY <1>1, <1>6
    <3> QED BY <1>7, <3>1
  <2> QED BY <1>8, <2>1 DEF Tells
<1>10. d < e.n /\ Tells(g, e)
  <2>1. g[e.n] = held' /\ e.n - 1 = count /\ g[count] = held
    <3>1. count \in 0..count /\ h[count] = held
      BY <1>1, <1>3 DEF Since
    <3> QED BY <1>1, <1>5, <1>7, <3>1
  <2>2. d < e.n
    BY <1>1, <1>2, <1>5
  <2> QED BY <1>1, <1>5, <2>1, <2>2 DEF Tells
<1>11. \A n \in (d + 1)..count' : \E x \in Pending' : x.n = n
  <2>1. \A n \in (d + 1)..count' : n \in (d + 1)..count \/ n = count + 1
    BY <1>1, <1>2
  <2>2. \A n \in (d + 1)..count : \E x \in Pending : x.n = n
    BY <1>3 DEF Since
  <2> QED BY <1>4, <1>5, <2>1, <2>2
<1>12. g[d] = h[d]
  BY <1>7
<1>13. modifier_mask' = PhysicalMask(g[d]) /\ fn_state' = PhysicalFn(g[d])
  BY <1>1, <1>3, <1>12 DEF Since
<1>14. Since(g, d)'
  BY <1>4, <1>7, <1>9, <1>10, <1>11, <1>13 DEF Since, Tells
<1>15. d \in 0..count'
  BY <1>1
<1> QED BY <1>1, <1>7, <1>14, <1>15, PressesStay DEF HistoryKept

(* Every other step but a processed event leaves the history as it is.     *)
LEMMA HistoryStays ==
  ASSUME HistoryKept, Lossless, Pending' = Pending,
         UNCHANGED <<count, held, modifier_mask, fn_state>>, ModifiersOfThePress'
  PROVE  HistoryKept'
<1>1. PICK d \in 0..count : \E h \in [0..count -> SUBSET Keys] : Since(h, d)
  BY DEF HistoryKept
<1>2. PICK h \in [0..count -> SUBSET Keys] : Since(h, d)
  BY <1>1
<1>3. Since(h, d)'
  BY <1>2 DEF Since, Tells
<1>4. d \in 0..count' /\ h \in [0..count' -> SUBSET Keys]
  OBVIOUS
<1> QED BY <1>3, <1>4 DEF HistoryKept

LEMMA AsciiEventHistory ==
  ASSUME TypeOK, StagesInOrder, HistoryKept, AsciiEvent, Lossless'
  PROVE  HistoryKept'
<1> DEFINE x == Head(todo)
<1>1. /\ Lossless /\ ModifiersOfThePress /\ count \in Nat
      /\ count' = count /\ held' = held /\ taken' = taken
      /\ fn_state' = FnAfter(x) /\ modifier_mask' = MaskAfter(x)
      /\ keyevents \in Seq(KeyEvent)
      /\ keyevents' = keyevents \/ keyevents' = Append(keyevents, KeyEventOf(x))
  BY DEF AsciiEvent, HistoryKept, Lossless, chip, TypeOK
<1>2. /\ x \in Event /\ x \in Pending /\ Pending = {x} \cup Pending'
      /\ \A e \in Pending' : x.n < e.n
  BY PendingProcessed DEF Lossless
<1> HIDE DEF x
<1>3. PICK d \in 0..count : \E h \in [0..count -> SUBSET Keys] : Since(h, d)
  BY <1>1 DEF HistoryKept
<1>4. PICK h \in [0..count -> SUBSET Keys] : Since(h, d)
  BY <1>3
<1>5. x.n = d + 1 /\ d + 1 \in 0..count
  <2>1. d < x.n /\ x.n \in 1..MaxEvents /\ x.n <= count
    <3>1. x.n <= count
      <4>1. UpTo(todo, count) /\ todo \in Seq(Event) /\ todo # <<>>
        BY DEF StagesInOrder, AsciiEvent, TypeOK
      <4>2. 1 \in DOMAIN todo /\ x = todo[1]
        BY <4>1, TailDomain DEF x
      <4> QED BY <4>1, <4>2 DEF UpTo
    <3> QED BY <1>2, <1>4, <3>1 DEF Since, Event
  <2>2. d + 1 \in (d + 1)..count
    <3>1. count \in Nat /\ d \in Nat /\ x.n \in Nat
      BY <1>1, <1>3, <2>1
    <3> QED BY <2>1, <3>1
  <2>3. PICK e \in Pending : e.n = d + 1
    BY <1>4, <2>2 DEF Since
  <2>4. e = x
    BY <1>2, <1>3, <2>1, <2>3
  <2> QED BY <1>3, <2>1, <2>3, <2>4
<1>6. Tells(h, x) /\ modifier_mask = PhysicalMask(h[d]) /\ fn_state = PhysicalFn(h[d])
  BY <1>2, <1>4 DEF Since
<1>7. PICK k \in Keys : x.byte = ByteOf(h[d], k) /\ x.held = Changed(h[d], k)
  <2>1. x.n - 1 = d
    BY <1>3, <1>5
  <2> QED BY <1>6, <2>1 DEF Tells
<1>8. h[d] \in SUBSET Keys
  BY <1>3, <1>4
<1>9. MaskAfter(x) = PhysicalMask(x.held) /\ FnAfter(x) = PhysicalFn(x.held)
  <2>1. MaskAfter(x) = PhysicalMask(x.held)
    BY <1>6, <1>7, <1>8, ChangeTold DEF MaskAfter
  <2>2. FnAfter(x) = PhysicalFn(x.held)
    BY <1>6, <1>7, <1>8, ChangeTold DEF FnAfter
  <2> QED BY <2>1, <2>2
<1>10. h[d + 1] = x.held
  BY <1>5, <1>6 DEF Tells
<1>11. Since(h, d + 1)'
  <2>1. \A e \in Pending' : d + 1 < e.n /\ Tells(h, e)
    BY <1>2, <1>4, <1>5 DEF Since
  <2>2. \A n \in ((d + 1) + 1)..count : \E e \in Pending' : e.n = n
    <3> SUFFICES ASSUME NEW n \in ((d + 1) + 1)..count PROVE \E e \in Pending' : e.n = n
      OBVIOUS
    <3>1. n \in (d + 1)..count /\ n # d + 1
      BY <1>3
    <3>2. PICK e \in Pending : e.n = n
      BY <1>4, <3>1 DEF Since
    <3> QED BY <1>2, <1>5, <3>1, <3>2
  <2>3. h[count] = held
    BY <1>4 DEF Since
  <2> QED BY <1>1, <1>9, <1>10, <2>1, <2>2, <2>3 DEF Since, Tells
<1>12. ModifiersOfThePress'
  <2> DEFINE y == KeyEventOf(x)
  <2>1. y.mask = PhysicalMask(y.held)
        /\ y.layer = Layer(Position(y.byte), PhysicalMask(y.held), PhysicalFn(y.held))
    BY <1>9 DEF KeyEventOf
  <2>2. y \in KeyEvent
    BY <1>2, KeyEventType
  <2> HIDE DEF y
  <2>3. \A i \in DOMAIN keyevents' :
          keyevents'[i] = y \/ (i \in DOMAIN keyevents /\ keyevents'[i] = keyevents[i])
    <3>1. CASE keyevents' = keyevents
      BY <3>1
    <3>2. CASE keyevents' = Append(keyevents, y)
      <4>1. \A i \in DOMAIN Append(keyevents, y) :
              Append(keyevents, y)[i] = y
              \/ (i \in DOMAIN keyevents /\ Append(keyevents, y)[i] = keyevents[i])
        BY <1>1, <2>2, AppendDomain
      <4> QED BY <3>2, <4>1, Zenon
    <3> QED BY <1>1, <3>1, <3>2 DEF y
  <2>4. /\ \A i \in DOMAIN taken :
             /\ taken[i].mask = PhysicalMask(taken[i].held)
             /\ taken[i].layer = Layer(Position(taken[i].byte), PhysicalMask(taken[i].held),
                                       PhysicalFn(taken[i].held))
        /\ \A i \in DOMAIN keyevents :
             /\ keyevents[i].mask = PhysicalMask(keyevents[i].held)
             /\ keyevents[i].layer = Layer(Position(keyevents[i].byte),
                                           PhysicalMask(keyevents[i].held),
                                           PhysicalFn(keyevents[i].held))
    BY <1>1 DEF ModifiersOfThePress, Lossless
  <2> QED BY <1>1, <2>1, <2>3, <2>4 DEF ModifiersOfThePress
<1>13. d + 1 \in 0..count' /\ h \in [0..count' -> SUBSET Keys]
  BY <1>1, <1>4, <1>5
<1> QED BY <1>11, <1>12, <1>13 DEF HistoryKept

LEMMA GetKeyPresses ==
  ASSUME TypeOK, ModifiersOfThePress, Lossless, GetKey
  PROVE  ModifiersOfThePress'
<1> DEFINE Right(y) == /\ y.mask = PhysicalMask(y.held)
                       /\ y.layer = Layer(Position(y.byte), PhysicalMask(y.held),
                                          PhysicalFn(y.held))
<1>1. (\A y \in Range(taken) : Right(y)) /\ (\A y \in Range(keyevents) : Right(y))
  BY DEF ModifiersOfThePress, Lossless, Range
<1>2. (\A y \in Range(taken') : Right(y)) /\ (\A y \in Range(keyevents') : Right(y))
      => ModifiersOfThePress'
  BY DEF ModifiersOfThePress, Range
<1> HIDE DEF Right
<1>3. keyevents \in Seq(KeyEvent) /\ taken \in Seq(KeyEvent)
  BY DEF TypeOK
<1>4. CASE keyevents = <<>>
  BY <1>1, <1>2, <1>4 DEF GetKey
<1>5. CASE keyevents # <<>>
  <2>1. /\ Head(keyevents) \in KeyEvent
        /\ Range(keyevents) = {Head(keyevents)} \cup Range(Tail(keyevents))
    BY <1>3, <1>5, RangeOfSequence, HeadTailProperties
  <2>2. Range(Append(taken, Head(keyevents))) = Range(taken) \cup {Head(keyevents)}
    BY <1>3, <2>1, RangeOfSequence
  <2> QED BY <1>1, <1>2, <1>5, <2>1, <2>2 DEF GetKey
<1> QED BY <1>4, <1>5

(* Unless an event was lost, every key has the modifiers and the layer of  *)
(* the switches down when it was pressed, however late _ascii_handler gets *)
(* to it: modifier_mask and fn_state follow the events, not the switches.  *)
THEOREM ModifiersOfThePressCorrect == Spec => []ModifiersOfThePress
<1>1. Init => NoBatchElsewhere /\ HistoryKept
  <2> SUFFICES ASSUME Init PROVE NoBatchElsewhere /\ HistoryKept
    OBVIOUS
  <2>1. NoBatchElsewhere
    BY DEF Init, NoBatchElsewhere
  <2>2. Pending = {}
    BY DEF Init, Pending, Range, Batches
  <2> DEFINE h == [n \in 0..0 |-> {}]
  <2>3. Since(h, 0) /\ h \in [0..count -> SUBSET Keys] /\ 0 \in 0..count
    <3>1. /\ count = 0 /\ held = {} /\ h[0] = {} /\ modifier_mask = {} /\ fn_state = FALSE
          /\ h \in [0..0 -> SUBSET Keys]
      BY DEF Init
    <3> HIDE DEF h
    <3>2. PhysicalMask({}) = {}
      BY DEF PhysicalMask
    <3>3. PhysicalFn({}) = FALSE
      BY DEF PhysicalFn
    <3>4. \A n \in (0 + 1)..0 : FALSE
      OBVIOUS
    <3>5. Since(h, 0)
      BY <2>2, <3>1, <3>2, <3>3, <3>4 DEF Since
    <3> QED BY <3>1, <3>5
  <2>4. ModifiersOfThePress
    BY DEF Init, ModifiersOfThePress
  <2> HIDE DEF h
  <2> QED BY <2>1, <2>3, <2>4 DEF HistoryKept
<1>2. TypeOK /\ NoBatchElsewhere /\ [Next]_vars => NoBatchElsewhere'
  BY NoBatchElsewhereStep
<1>3. TypeOK /\ StagesInOrder /\ NoBatchElsewhere /\ HistoryKept /\ [Next]_vars => HistoryKept'
  <2> SUFFICES ASSUME TypeOK, StagesInOrder, NoBatchElsewhere, HistoryKept, [Next]_vars,
                      Lossless'
               PROVE  HistoryKept'
    BY DEF HistoryKept
  <2>1. CASE \E k \in Keys : KeyMoves(k)
    BY <2>1, KeyMovesHistory
  <2>2. CASE OthersSchedule \/ RunOther \/ StartIrq \/ ReadKeyInt \/ ReadAny \/ ReadMore
             \/ ReadNext \/ StartTick \/ EndTick \/ Deinit \/ UNCHANGED vars
    <3>1. /\ UNCHANGED <<count, held, modifier_mask, fn_state, keyevents, taken, faults>>
      BY <2>2 DEF OthersSchedule, RunOther, StartIrq, ReadKeyInt, ReadAny, ReadMore,
           ReadNext, StartTick, EndTick, Deinit, vars, chip, driver
    <3>2. Pending' = Pending
      BY <2>2, PendingStays
    <3>3. Lossless /\ ModifiersOfThePress
      BY <3>1 DEF Lossless, HistoryKept
    <3> QED BY <3>1, <3>2, <3>3, PressesStay, HistoryStays
  <2>3. CASE ClearKeyInt
    <3>1. /\ UNCHANGED <<count, held, modifier_mask, fn_state, keyevents, taken>>
          /\ faults \subseteq faults'
      BY <2>3 DEF ClearKeyInt, WriteKeyInt, SetKeyInt, chip, driver
    <3>2. Pending' = Pending
      BY <2>3, PendingStays
    <3>3. Lossless /\ ModifiersOfThePress
      BY <3>1 DEF Lossless, HistoryKept
    <3> QED BY <3>1, <3>2, <3>3, PressesStay, HistoryStays
  <2>4. CASE ScheduleTick
    <3>1. UNCHANGED <<count, held, modifier_mask, fn_state, keyevents, taken>>
      BY <2>4 DEF ScheduleTick, chip, driver
    <3>2. Pending' = Pending /\ faults' = faults
      BY <2>4, PendingLost DEF Lossless
    <3>3. Lossless /\ ModifiersOfThePress
      BY <3>2 DEF Lossless, HistoryKept
    <3> QED BY <3>1, <3>2, <3>3, PressesStay, HistoryStays
  <2>5. CASE AsciiEvent
    BY <2>5, AsciiEventHistory
  <2>6. CASE RunCallback \/ Poll
    <3>1. UNCHANGED <<count, held, modifier_mask, fn_state, faults>> /\ GetKey
      BY <2>6 DEF RunCallback, Poll, chip, GetKey
    <3>2. Pending' = Pending
      BY <2>6, PendingStays
    <3>3. Lossless /\ ModifiersOfThePress
      BY <3>1 DEF Lossless, HistoryKept
    <3> QED BY <3>1, <3>2, <3>3, GetKeyPresses, HistoryStays
  <2> QED BY <2>1, <2>2, <2>3, <2>4, <2>5, <2>6 DEF Next, IrqHandler, AsciiHandler
<1>4. HistoryKept => ModifiersOfThePress
  BY DEF HistoryKept, Lossless, ModifiersOfThePress
<1> QED BY <1>1, <1>2, <1>3, <1>4, TypeCorrect, StagesInOrderCorrect, PTL DEF Spec
-----------------------------------------------------------------------------
(* Refinement.  KeyStream's queue is a set of numbers here, so a step of   *)
(* the keyboard is a step of KeyStream when it changes Pending and         *)
(* keyevents in the right way.                                             *)

(* A step that changes neither what is on its way nor what was taken is a  *)
(* failure if it records a fault, and otherwise nothing to the application.*)
LEMMA QuietStep ==
  ASSUME TypeOK, InFlight' \subseteq InFlight, count' = count, taken' = taken,
         \/ InFlight' = InFlight /\ faults' = faults
         \/ faults' # {}
  PROVE  [Stream!Next]_Stream!vars
<1>1. CASE InFlight' = InFlight /\ faults' = faults
  BY <1>1 DEF Stream!vars
<1>2. CASE faults' # {}
  <2>1. ((faults # {})' = TRUE) /\ InFlight' \in SUBSET InFlight
    BY <1>2
  <2>2. Stream!Fail
    BY <2>1 DEF Stream!Fail
  <2> QED BY <2>2 DEF Stream!Next
<1> QED BY <1>1, <1>2

LEMMA KeyMovesStreams ==
  ASSUME TypeOK, NEW k \in Keys, KeyMoves(k)
  PROVE  [Stream!Next]_Stream!vars
<1> DEFINE e == EventOf(k)
<1>1. /\ count < MaxEvents /\ count' = count + 1
      /\ keyevents' = keyevents /\ taken' = taken /\ faults \subseteq faults'
  BY DEF KeyMoves, SetKeyInt, driver
<1>2. (faults # {})' \in {faults # {}, TRUE}
  BY <1>1
<1>3. /\ e.n = count'
      /\ k \notin held <=> IsPress(e.byte)
      /\ Pending' = Pending \cup {e} \/ (Pending' = Pending /\ faults' # {})
  BY PendingGrows, KeyBytes DEF EventOf
<1> HIDE DEF e
<1>4. CASE Pending' = Pending /\ faults' # {}
  <2>1. InFlight' = InFlight
    BY <1>1, <1>4 DEF InFlight
  <2>2. Stream!Press
    BY <1>1, <1>2, <1>4, <2>1 DEF Stream!Press
  <2> QED BY <2>2 DEF Stream!Next
<1>5. CASE Pending' = Pending \cup {e} /\ IsPress(e.byte)
  <2>1. InFlight' = InFlight \cup {count'}
    BY <1>1, <1>3, <1>5 DEF InFlight
  <2>2. Stream!Press
    BY <1>1, <1>2, <2>1 DEF Stream!Press
  <2> QED BY <2>2 DEF Stream!Next
<1>6. CASE Pending' = Pending \cup {e} /\ ~IsPress(e.byte)
  <2>1. InFlight' = InFlight
    BY <1>1, <1>6 DEF InFlight
  <2>2. Stream!Release
    BY <1>1, <1>2, <2>1 DEF Stream!Release
  <2> QED BY <2>2 DEF Stream!Next
<1> QED BY <1>3, <1>4, <1>5, <1>6

LEMMA AsciiEventStreams ==
  ASSUME TypeOK, StagesInOrder, AsciiEvent
  PROVE  [Stream!Next]_Stream!vars
<1> DEFINE x == Head(todo)
           y == KeyEventOf(x)
<1>1. /\ x \in Event /\ x \in Pending /\ Pending' \subseteq Pending
      /\ \/ Pending = {x} \cup Pending' /\ faults' = faults
         \/ faults' # {}
  BY PendingProcessed
<1>2. /\ count' = count /\ taken' = taken
      /\ keyevents \in Seq(KeyEvent)
      /\ keyevents' = IF IsPress(x.byte) THEN Append(keyevents, y) ELSE keyevents
  BY DEF AsciiEvent, chip, TypeOK
<1>3. y \in KeyEvent /\ y.n = x.n
  BY <1>1, KeyEventType DEF KeyEventOf
<1> HIDE DEF x, y
<1>4. Range(keyevents') = IF IsPress(x.byte) THEN Range(keyevents) \cup {y} ELSE Range(keyevents)
  <2>1. Range(Append(keyevents, y)) = Range(keyevents) \cup {y}
    BY <1>2, <1>3, RangeOfSequence
  <2> QED BY <1>2, <2>1
<1>5. \A n : /\ n \in InFlight <=> \/ \E z \in Range(keyevents) : z.n = n
                                   \/ \E e \in Pending : IsPress(e.byte) /\ e.n = n
             /\ n \in InFlight' <=> \/ \E z \in Range(keyevents') : z.n = n
                                    \/ \E e \in Pending' : IsPress(e.byte) /\ e.n = n
  BY DEF InFlight, Numbers, Range
<1>6. InFlight' \subseteq InFlight
  BY <1>1, <1>3, <1>4, <1>5
<1>7. Pending = {x} \cup Pending' => InFlight \subseteq InFlight'
  BY <1>3, <1>4, <1>5
<1> QED BY <1>1, <1>2, <1>6, <1>7, QuietStep

LEMMA NumbersAppended ==
  ASSUME NEW q \in Seq(KeyEvent), NEW y \in KeyEvent
  PROVE  NumbersOf(Append(q, y)) = Append(NumbersOf(q), y.n)
<1> DEFINE s == NumbersOf(Append(q, y))
           t == Append(NumbersOf(q), y.n)
<1>1. \A z \in KeyEvent : z.n \in Nat
  BY SizesAssumption DEF KeyEvent
<1> HIDE DEF KeyEvent
<1>2. /\ Len(q) \in Nat /\ DOMAIN q = 1..Len(q) /\ \A i \in 1..Len(q) : q[i] \in KeyEvent
      /\ Append(q, y) \in Seq(KeyEvent) /\ Len(Append(q, y)) = Len(q) + 1
      /\ DOMAIN Append(q, y) = 1..(Len(q) + 1)
      /\ \A i \in 1..Len(q) : Append(q, y)[i] = q[i]
      /\ Append(q, y)[Len(q) + 1] = y
  BY AppendProperties, LenProperties, ElementOfSeq
<1>3. NumbersOf(q) \in Seq(Nat) /\ Len(NumbersOf(q)) = Len(q)
      /\ \A i \in 1..Len(q) : NumbersOf(q)[i] = q[i].n
  BY <1>1, <1>2 DEF NumbersOf
<1>4. /\ s = [i \in 1..(Len(q) + 1) |-> Append(q, y)[i].n]
      /\ \A i \in 1..(Len(q) + 1) : Append(q, y)[i].n \in Nat
  BY <1>1, <1>2 DEF NumbersOf
<1>5. s \in Seq(Nat) /\ Len(s) = Len(q) + 1 /\ \A i \in 1..(Len(q) + 1) : s[i] = Append(q, y)[i].n
  BY <1>2, <1>4
<1>6. /\ t \in Seq(Nat) /\ Len(t) = Len(q) + 1
      /\ \A i \in 1..Len(q) : t[i] = NumbersOf(q)[i]
      /\ t[Len(q) + 1] = y.n
  BY <1>1, <1>2, <1>3, AppendProperties
<1> HIDE DEF s, t
<1>7. \A i \in 1..Len(s) : s[i] = t[i]
  <2>1. ASSUME NEW i \in 1..Len(q) PROVE s[i] = t[i]
    <3>1. i \in 1..(Len(q) + 1)
      BY <1>2
    <3>2. s[i] = Append(q, y)[i].n
      BY <1>5, <3>1
    <3>3. s[i] = q[i].n
      BY <1>2, <3>2
    <3>4. t[i] = q[i].n
      BY <1>3, <1>6
    <3> QED BY <3>3, <3>4
  <2>2. s[Len(q) + 1] = t[Len(q) + 1]
    BY <1>2, <1>5, <1>6
  <2>3. \A i \in 1..(Len(q) + 1) : i \in 1..Len(q) \/ i = Len(q) + 1
    BY <1>2
  <2> QED BY <1>5, <2>1, <2>2, <2>3
<1>8. s = t
  BY <1>5, <1>6, <1>7, SeqEqual
<1> QED BY <1>8 DEF s, t

LEMMA GetKeyStreams ==
  ASSUME TypeOK, StagesInOrder, GetKey, Pending' = Pending, UNCHANGED <<count, faults>>
  PROVE  [Stream!Next]_Stream!vars
<1> DEFINE y == Head(keyevents)
<1>1. CASE keyevents = <<>>
  <2>1. keyevents' = keyevents /\ taken' = taken
    BY <1>1 DEF GetKey
  <2>2. InFlight' = InFlight
    BY <2>1 DEF InFlight
  <2> QED BY <2>1, <2>2, QuietStep
<1>2. CASE keyevents # <<>>
  <2>1. /\ keyevents \in Seq(KeyEvent) /\ taken \in Seq(KeyEvent) /\ y \in KeyEvent
        /\ keyevents' = Tail(keyevents) /\ taken' = Append(taken, y)
        /\ Range(keyevents) = {y} \cup Range(keyevents')
    BY <1>2, RangeOfSequence, HeadTailProperties DEF GetKey, TypeOK
  <2>2. \A z \in Range(keyevents') \cup Pending : y.n < z.n
    <3>1. Ascending(keyevents)
          /\ \A q \in {todo, events, fifo} : Before(keyevents, q)
          /\ \A i \in DOMAIN sched : Before(keyevents, sched[i].events)
      BY DEF StagesInOrder, KeysInOrder, ScheduledInOrder
    <3>2. /\ \A i \in DOMAIN Tail(keyevents) : y.n < Tail(keyevents)[i].n
          /\ \A q : Before(keyevents, q) => \A i \in DOMAIN q : y.n < q[i].n
      BY <1>2, <2>1, <3>1, OrderTail
    <3>3. \A i \in DOMAIN sched : \A e \in Range(sched[i].events) : y.n < e.n
      BY <3>1, <3>2 DEF Range
    <3>4. \A e \in Batches(sched) : y.n < e.n
      BY <3>3 DEF Batches
    <3>5. \A e \in Range(todo) \cup Range(events) \cup Range(fifo) : y.n < e.n
      BY <3>1, <3>2 DEF Range
    <3>6. \A z \in Range(keyevents') : y.n < z.n
      BY <2>1, <3>2 DEF Range
    <3> QED BY <3>4, <3>5, <3>6 DEF Pending
  <2>3. y.n \in Int /\ \A z \in Range(keyevents') \cup Pending : z.n \in Int
    <3>1. Range(keyevents') \subseteq KeyEvent /\ Pending \subseteq Event
      BY <2>1, RangeOfSequence, PendingType
    <3>2. \A z \in KeyEvent \cup Event : z.n \in Int
      BY DEF KeyEvent, Event
    <3> QED BY <2>1, <3>1, <3>2
  <2>4. \A n : /\ n \in InFlight <=> \/ \E z \in Range(keyevents) : z.n = n
                                     \/ \E e \in Pending : IsPress(e.byte) /\ e.n = n
               /\ n \in InFlight' <=> \/ \E z \in Range(keyevents') : z.n = n
                                      \/ \E e \in Pending' : IsPress(e.byte) /\ e.n = n
    BY DEF InFlight, Numbers, Range
  <2>5. NumbersOf(taken') = Append(NumbersOf(taken), y.n)
    BY <2>1, NumbersAppended
  <2> HIDE DEF y
  <2>6. y.n \in InFlight
    BY <2>1, <2>4
  <2>7. \A n \in InFlight : y.n <= n
    BY <2>1, <2>2, <2>3, <2>4
  <2>8. InFlight' = InFlight \ {y.n}
    <3>1. \A n \in InFlight' : n \in InFlight /\ n # y.n
      BY <2>1, <2>2, <2>3, <2>4
    <3>2. \A n \in InFlight : n # y.n => n \in InFlight'
      BY <2>1, <2>4
    <3>3. y.n \notin InFlight'
      BY <3>1
    <3> QED BY <3>1, <3>2, <3>3
  <2>9. Stream!Take
    BY <2>5, <2>6, <2>7, <2>8 DEF Stream!Take, NumbersOf
  <2> QED BY <2>9 DEF Stream!Next
<1> QED BY <1>1, <1>2

(* The keyboard is a lossy queue of presses: every step of chip, handlers, *)
(* scheduler and application is a press, a release, a failure that is      *)
(* recorded, the taking of the oldest press, or nothing to the application.*)
THEOREM KeyStreamImplemented == Spec => ImplementsKeyStream
<1>1. Init => Stream!Init
  <2> SUFFICES ASSUME Init PROVE Stream!Init
    OBVIOUS
  <2>1. Pending = {} /\ Numbers(keyevents) = {}
    BY DEF Init, Pending, Range, Batches, Numbers
  <2>2. InFlight = {}
    BY <2>1 DEF InFlight
  <2>3. NumbersOf(taken) = <<>>
    BY DEF Init, NumbersOf
  <2>4. (faults # {}) = FALSE
    BY DEF Init
  <2> QED BY <2>2, <2>3, <2>4 DEF Init, Stream!Init
<1>2. Init => NoBatchElsewhere
  BY DEF Init, NoBatchElsewhere
<1>3. TypeOK /\ NoBatchElsewhere /\ [Next]_vars => NoBatchElsewhere'
  BY NoBatchElsewhereStep
<1>4. TypeOK /\ StagesInOrder /\ NoBatchElsewhere /\ [Next]_vars
      => [Stream!Next]_Stream!vars
  <2> SUFFICES ASSUME TypeOK, StagesInOrder, NoBatchElsewhere, [Next]_vars
               PROVE  [Stream!Next]_Stream!vars
    OBVIOUS
  <2>1. CASE \E k \in Keys : KeyMoves(k)
    BY <2>1, KeyMovesStreams
  <2>2. CASE OthersSchedule \/ RunOther \/ StartIrq \/ ReadKeyInt \/ ReadAny \/ ReadMore
             \/ ReadNext \/ StartTick \/ EndTick \/ Deinit \/ UNCHANGED vars
    <3>1. UNCHANGED <<count, keyevents, taken, faults>>
      BY <2>2 DEF OthersSchedule, RunOther, StartIrq, ReadKeyInt, ReadAny, ReadMore,
           ReadNext, StartTick, EndTick, Deinit, vars, chip, driver
    <3>2. Pending' = Pending
      BY <2>2, PendingStays
    <3>3. InFlight' = InFlight
      BY <3>1, <3>2 DEF InFlight
    <3> QED BY <3>1, <3>3, QuietStep
  <2>3. CASE ClearKeyInt
    <3>1. UNCHANGED <<count, keyevents, taken>> /\ faults \subseteq faults'
      BY <2>3 DEF ClearKeyInt, WriteKeyInt, SetKeyInt, chip, driver
    <3>2. Pending' = Pending
      BY <2>3, PendingStays
    <3>3. InFlight' = InFlight
      BY <3>1, <3>2 DEF InFlight
    <3>4. faults' = faults \/ faults' # {}
      BY <3>1
    <3> QED BY <3>1, <3>3, <3>4, QuietStep
  <2>4. CASE ScheduleTick
    <3>1. UNCHANGED <<count, keyevents, taken>>
      BY <2>4 DEF ScheduleTick, chip, driver
    <3>2. \/ Pending' = Pending /\ faults' = faults
          \/ Pending' \subseteq Pending /\ faults' # {}
      BY <2>4, PendingLost
    <3>3. /\ InFlight' \subseteq InFlight
          /\ InFlight' = InFlight \/ faults' # {}
      BY <3>1, <3>2 DEF InFlight
    <3>4. \/ InFlight' = InFlight /\ faults' = faults
          \/ faults' # {}
      BY <3>1, <3>2 DEF InFlight
    <3> QED BY <3>1, <3>3, <3>4, QuietStep
  <2>5. CASE AsciiEvent
    BY <2>5, AsciiEventStreams
  <2>6. CASE RunCallback \/ Poll
    <3>1. UNCHANGED <<count, faults>> /\ GetKey
      BY <2>6 DEF RunCallback, Poll, chip, GetKey
    <3>2. Pending' = Pending
      BY <2>6, PendingStays
    <3> QED BY <3>1, <3>2, GetKeyStreams
  <2> QED BY <2>1, <2>2, <2>3, <2>4, <2>5, <2>6 DEF Next, IrqHandler, AsciiHandler
<1> QED BY <1>1, <1>2, <1>3, <1>4, TypeCorrect, StagesInOrderCorrect, PTL
        DEF Spec, ImplementsKeyStream, Stream!Spec
=============================================================================
