---------------------------- MODULE KeyboardI2C ----------------------------
(***************************************************************************)
(* The Cardputer ADV keyboard: the TCA8418 key scanner, its interrupt pin, *)
(* MicroPython's bounded queue of scheduled callbacks, the driver class    *)
(* KeyboardI2C in ASCII mode, and the application that takes keys through  *)
(* MatrixKeyboard.get_key, either by polling or from the key callback.     *)
(*                                                                         *)
(* The chip works while Python runs: a key may go down or up between any   *)
(* two register accesses of the interrupt handler, so every register       *)
(* access is a step.  Scheduled callbacks run one at a time, each to its   *)
(* end, and the application's own code runs only between them.             *)
(***************************************************************************)
EXTENDS Integers, Sequences, FiniteSets, KeyLayout

CONSTANTS
  Keys,        \* the switches in use, by TCA8418 key number
  FifoSize,    \* events the chip can hold
  SchedDepth,  \* callbacks micropython.schedule can hold
  HasCallback, \* whether set_keyevent_callback was called
  MaxEvents    \* bound: key movements in a behaviour

ASSUME KeysAssumption == Keys \subseteq 1..80
ASSUME SizesAssumption ==
  /\ FifoSize \in Nat \ {0}
  /\ SchedDepth \in Nat \ {0}
  /\ MaxEvents \in Nat
ASSUME CallbackAssumption == HasCallback \in BOOLEAN

VARIABLES
  held,          \* the switches that are down
  count,         \* key movements so far: the number of the latest event
  fifo,          \* the chip's event FIFO
  key_int,       \* the chip's K_INT bit; the INT pin is low exactly while it is set
  attached,      \* whether _irq_handler is the INT pin's handler
  sched,         \* callbacks waiting for the virtual machine
  pc,            \* where the running callback stands, "idle" when none runs
  events,        \* _irq_handler's local bytearray
  todo,          \* what is left of the events _ascii_handler was given
  fn_state,      \* self._fn_state
  modifier_mask, \* self._modifier_mask, as the set of modifiers it holds
  keyevents,     \* self._keyevents
  taken,         \* history: the key events the application took
  faults         \* history: what has gone wrong

chip   == <<held, count, fifo>>
driver == <<fn_state, modifier_mask, keyevents, taken>>
vars   == <<chip, key_int, attached, sched, pc, events, todo, driver, faults>>
-----------------------------------------------------------------------------
(* Key numbers and what the driver makes of them.                          *)

(* An event as the driver reads it is one byte, 128 + key for a press; the *)
(* number n and the switches down at that moment are history.              *)
Event == [n: 1..MaxEvents, byte: 0..255, held: SUBSET Keys]

Layers    == {"first", "second", "fn", "none"}
Faults    == {"overflow", "irq_lost", "batch_lost", "callback_lost", "clear_race"}

(* KeyEvent.convert: the column of the key map the key code comes from;    *)
(* "none" is key code 0.  The caps lock flag is never set in this class.   *)
Layer(pos, mask, fn) ==
  IF fn /\ pos # Key(0, 2)
  THEN IF pos \in FnKeys THEN "fn" ELSE "none"
  ELSE IF "shift" \in mask THEN "second" ELSE "first"

(* A KeyEvent object: the press it reports and the layer it was given.     *)
KeyEvent == [n: 1..MaxEvents, byte: 0..255, held: SUBSET Keys,
             layer: Layers, mask: SUBSET Modifiers]
-----------------------------------------------------------------------------
(* The scheduler's queue.  A tick carries the bytearray it will process.   *)

Item      == [kind: {"irq", "tick", "callback", "other"}, events: Seq(Event)]
Irq       == [kind |-> "irq",      events |-> <<>>]
Tick(es)  == [kind |-> "tick",     events |-> es]
Callback  == [kind |-> "callback", events |-> <<>>]
Other     == [kind |-> "other",    events |-> <<>>]

\* Mutant of Room: one callback too many.
RoomForOneMore == Len(sched) <= SchedDepth

Room == Len(sched) < SchedDepth

(* The INT pin follows K_INT.  Both edges interrupt the processor, whose   *)
(* interrupt routine can only queue the Python handler, and loses the edge *)
(* when the queue is full.  wrong is what else goes wrong in the step.     *)
SetKeyInt(b, wrong) ==
  /\ key_int' = b
  /\ LET edge == b # key_int /\ attached
     IN  /\ sched' = IF edge /\ Room THEN Append(sched, Irq) ELSE sched
         /\ faults' = faults \cup wrong
                       \cup (IF edge /\ ~Room THEN {"irq_lost"} ELSE {})
-----------------------------------------------------------------------------
Init ==
  /\ held = {}
  /\ count = 0
  /\ fifo = <<>>
  /\ key_int = FALSE
  /\ attached = TRUE
  /\ sched = <<>>
  /\ pc = "idle"
  /\ events = <<>>
  /\ todo = <<>>
  /\ fn_state = FALSE
  /\ modifier_mask = {}
  /\ keyevents = <<>>
  /\ taken = <<>>
  /\ faults = {}

(* A switch goes down or up.  The chip queues the event and raises K_INT;  *)
(* with a full FIFO the event is lost, as overflow_mode is left off.       *)
KeyMoves(k) ==
  /\ count < MaxEvents
  /\ count' = count + 1
  /\ held' = IF k \in held THEN held \ {k} ELSE held \cup {k}
  /\ \/ /\ Len(fifo) < FifoSize
        /\ fifo' = Append(fifo, [n    |-> count',
                                 byte |-> IF k \in held THEN k ELSE 128 + k,
                                 held |-> held'])
        /\ SetKeyInt(TRUE, {})
     \/ /\ Len(fifo) = FifoSize
        /\ faults' = faults \cup {"overflow"}
        /\ UNCHANGED <<fifo, key_int, sched>>
  /\ UNCHANGED <<attached, pc, events, todo, driver>>

(* Timers, radios and other drivers share the queue.                       *)
OthersSchedule ==
  /\ Room
  /\ sched' = Append(sched, Other)
  /\ UNCHANGED <<chip, key_int, attached, pc, events, todo, driver, faults>>

RunOther ==
  /\ pc = "idle"
  /\ sched # <<>>
  /\ Head(sched).kind = "other"
  /\ sched' = Tail(sched)
  /\ UNCHANGED <<chip, key_int, attached, pc, events, todo, driver, faults>>
-----------------------------------------------------------------------------
(* KeyboardI2C._irq_handler, one step for each register access.            *)

StartIrq ==
  /\ pc = "idle"
  /\ sched # <<>>
  /\ Head(sched).kind = "irq"
  /\ sched' = Tail(sched)
  /\ pc' = "key_int"
  /\ UNCHANGED <<chip, key_int, attached, events, todo, driver, faults>>

ReadKeyInt ==
  /\ pc = "key_int"
  /\ pc' = IF key_int THEN "any" ELSE "clear"
  /\ UNCHANGED <<chip, key_int, attached, sched, events, todo, driver, faults>>

(* The test before the loop: nothing is scheduled for an empty FIFO.       *)
ReadAny ==
  /\ pc = "any"
  /\ pc' = IF fifo # <<>> THEN "more" ELSE "clear"
  /\ UNCHANGED <<chip, key_int, attached, sched, events, todo, driver, faults>>

ReadMore ==
  /\ pc = "more"
  /\ pc' = IF fifo # <<>> THEN "next" ELSE "schedule"
  /\ UNCHANGED <<chip, key_int, attached, sched, events, todo, driver, faults>>

\* Mutant of ReadNext: the FIFO register is read twice for one event.
ReadNextTwice ==
  /\ pc = "next"
  /\ fifo # <<>>
  /\ events' = Append(events, Head(fifo))
  /\ fifo' = IF Len(fifo) > 1 THEN Tail(Tail(fifo)) ELSE <<>>
  /\ pc' = "more"
  /\ UNCHANGED <<held, count, key_int, attached, sched, todo, driver, faults>>

ReadNext ==
  /\ pc = "next"
  /\ fifo # <<>>
  /\ events' = Append(events, Head(fifo))
  /\ fifo' = Tail(fifo)
  /\ pc' = "more"
  /\ UNCHANGED <<held, count, key_int, attached, sched, todo, driver, faults>>

(* micropython.schedule raises when the queue is full: the handler ends    *)
(* there, its events are gone and the interrupt is not cleared.            *)
ScheduleTick ==
  /\ pc = "schedule"
  /\ events' = <<>>
  /\ \/ /\ Room
        /\ sched' = Append(sched, Tick(events))
        /\ pc' = "clear"
        /\ UNCHANGED faults
     \/ /\ ~Room
        /\ faults' = faults \cup {"batch_lost"}
        /\ pc' = "idle"
        /\ UNCHANGED sched
  /\ UNCHANGED <<chip, key_int, attached, todo, driver>>

(* Writing 1 to K_INT.  What the chip does when events are queued again by *)
(* then is not settled by this code: the bit may clear or stay as it is.   *)
WriteKeyInt ==
  \/ /\ fifo = <<>>
     /\ SetKeyInt(FALSE, {})
  \/ /\ fifo # <<>>
     /\ \E b \in {FALSE, key_int} : SetKeyInt(b, {"clear_race"})

\* Mutant of ClearKeyInt: the handler returns without clearing the bit.
ClearForgotten ==
  /\ pc = "clear"
  /\ pc' = "idle"
  /\ UNCHANGED <<chip, key_int, attached, sched, events, todo, driver, faults>>

ClearKeyInt ==
  /\ pc = "clear"
  /\ WriteKeyInt
  /\ pc' = "idle"
  /\ UNCHANGED <<chip, attached, events, todo, driver>>
-----------------------------------------------------------------------------
(* KeyboardI2C._ascii_handler, one step for each event of its batch.       *)

StartTick ==
  /\ pc = "idle"
  /\ sched # <<>>
  /\ Head(sched).kind = "tick"
  /\ sched' = Tail(sched)
  /\ todo' = Head(sched).events
  /\ pc' = "tick"
  /\ UNCHANGED <<chip, key_int, attached, events, driver, faults>>

\* Mutant of FnAfter: FN stays on once it was pressed.
FnLatched(e) == fn_state \/ IsFn(Position(e.byte))

(* _update_modifier_mask.                                                  *)
FnAfter(e) ==
  IF IsFn(Position(e.byte)) THEN IsPress(e.byte) ELSE fn_state

MaskAfter(e) ==
  IF IsPress(e.byte)
  THEN modifier_mask \cup ModifierAt(Position(e.byte))
  ELSE modifier_mask \ ModifierAt(Position(e.byte))

KeyEventOf(e) ==
  [n |-> e.n, byte |-> e.byte, held |-> e.held, mask |-> MaskAfter(e),
   layer |-> Layer(Position(e.byte), MaskAfter(e), FnAfter(e))]

\* Mutants of Notify: a release calls the application too; a key calls it
\* only when none is waiting.
NotifyOfReleases(e) == HasCallback
NotifyOfFirst(e)    == HasCallback /\ IsPress(e.byte) /\ keyevents = <<>>

Notify(e) == HasCallback /\ IsPress(e.byte)

(* A press joins keyevents and then, with a callback set, schedules it; if *)
(* the queue is full schedule raises and the rest of the batch is dropped. *)
AsciiEvent ==
  /\ pc = "tick"
  /\ todo # <<>>
  /\ LET e      == Head(todo)
         notify == Notify(e)
     IN  /\ fn_state' = FnAfter(e)
         /\ modifier_mask' = MaskAfter(e)
         /\ keyevents' = IF IsPress(e.byte)
                         THEN Append(keyevents, KeyEventOf(e)) ELSE keyevents
         /\ sched' = IF notify /\ Room THEN Append(sched, Callback) ELSE sched
         /\ IF notify /\ ~Room
            THEN todo' = <<>> /\ faults' = faults \cup {"callback_lost"}
            ELSE todo' = Tail(todo) /\ UNCHANGED faults
  /\ UNCHANGED <<chip, key_int, attached, pc, events, taken>>

EndTick ==
  /\ pc = "tick"
  /\ todo = <<>>
  /\ pc' = "idle"
  /\ UNCHANGED <<chip, key_int, attached, sched, events, todo, driver, faults>>
-----------------------------------------------------------------------------
(* The application.                                                        *)

\* Mutant of GetKey: the newest key first.
GetNewestKey ==
  /\ keyevents' = SubSeq(keyevents, 1, Len(keyevents) - 1)
  /\ taken' = IF keyevents = <<>> THEN taken
              ELSE Append(taken, keyevents[Len(keyevents)])
  /\ UNCHANGED <<fn_state, modifier_mask>>

(* MatrixKeyboard.get_key: None, and no change, without a key event.       *)
GetKey ==
  /\ keyevents' = IF keyevents = <<>> THEN <<>> ELSE Tail(keyevents)
  /\ taken' = IF keyevents = <<>> THEN taken ELSE Append(taken, Head(keyevents))
  /\ UNCHANGED <<fn_state, modifier_mask>>

(* The application's key callback takes one key.                           *)
RunCallback ==
  /\ pc = "idle"
  /\ sched # <<>>
  /\ Head(sched).kind = "callback"
  /\ sched' = Tail(sched)
  /\ GetKey
  /\ UNCHANGED <<chip, key_int, attached, pc, events, todo, faults>>

(* Without a callback the application polls: is_pressed, then get_key.     *)
Poll ==
  /\ pc = "idle"
  /\ ~HasCallback
  /\ keyevents # <<>>
  /\ GetKey
  /\ UNCHANGED <<chip, key_int, attached, sched, pc, events, todo, faults>>

(* KeyboardI2C.deinit: detach the pin, then clear the interrupt.           *)
Deinit ==
  /\ pc = "idle"
  /\ attached
  /\ attached' = FALSE
  /\ \E b \in IF fifo = <<>> THEN {FALSE} ELSE {FALSE, key_int} : key_int' = b
  /\ UNCHANGED <<chip, sched, pc, events, todo, driver, faults>>
-----------------------------------------------------------------------------
IrqHandler ==
  \/ StartIrq \/ ReadKeyInt \/ ReadAny \/ ReadMore \/ ReadNext
  \/ ScheduleTick \/ ClearKeyInt

AsciiHandler == StartTick \/ AsciiEvent \/ EndTick

Next ==
  \/ \E k \in Keys : KeyMoves(k)
  \/ OthersSchedule
  \/ RunOther
  \/ IrqHandler
  \/ AsciiHandler
  \/ RunCallback
  \/ Poll
  \/ Deinit

Spec == Init /\ [][Next]_vars

(* The virtual machine runs what is scheduled and finishes what it began,  *)
(* and an application that polls keeps polling.  Nothing obliges a key to  *)
(* move, another driver to schedule, or the keyboard to be shut down.      *)
Fairness ==
  /\ WF_vars(IrqHandler \/ AsciiHandler \/ RunCallback \/ RunOther)
  /\ WF_vars(Poll)

FairSpec == Spec /\ Fairness
-----------------------------------------------------------------------------
(* What the keyboard promises.                                             *)

(* Types of the variables, with the chip's FIFO and the scheduler's queue  *)
(* within their sizes.                                                     *)
TypeOK ==
  /\ held \subseteq Keys
  /\ count \in 0..MaxEvents
  /\ fifo \in Seq(Event) /\ Len(fifo) <= FifoSize
  /\ key_int \in BOOLEAN
  /\ attached \in BOOLEAN
  /\ sched \in Seq(Item) /\ Len(sched) <= SchedDepth
  /\ pc \in {"idle", "key_int", "any", "more", "next", "schedule", "clear", "tick"}
  /\ events \in Seq(Event)
  /\ todo \in Seq(Event)
  /\ fn_state \in BOOLEAN
  /\ modifier_mask \subseteq Modifiers
  /\ keyevents \in Seq(KeyEvent)
  /\ taken \in Seq(KeyEvent)
  /\ faults \subseteq Faults

Ascending(s) == \A i, j \in DOMAIN s : i < j => s[i].n < s[j].n
Before(s, t) == \A i \in DOMAIN s, j \in DOMAIN t : s[i].n < t[j].n

(* Keys reach the application in the order they were pressed, none twice,  *)
(* whatever is lost on the way: from the chip's FIFO through a batch, the  *)
(* scheduler's queue and keyevents.                                        *)
KeysInOrder ==
  /\ Ascending(taken)
  /\ Ascending(keyevents)
  /\ Before(taken, keyevents)

(* Why keys stay in order: from the application back to the chip, every    *)
(* event of a stage is older than every event of a later stage, and none   *)
(* is newer than the latest key movement.                                  *)
UpTo(s, c) == \A i \in DOMAIN s : s[i].n <= c

ScheduledInOrder ==
  \A i \in DOMAIN sched :
    LET es == sched[i].events
    IN  /\ Ascending(es) /\ UpTo(es, count)
        /\ Before(taken, es) /\ Before(keyevents, es) /\ Before(todo, es)
        /\ \A j \in DOMAIN sched : i < j => Before(es, sched[j].events)
        /\ Before(es, events) /\ Before(es, fifo)

StagesInOrder ==
  /\ KeysInOrder
  /\ Ascending(todo) /\ Ascending(events) /\ Ascending(fifo)
  /\ Before(taken, todo) /\ Before(taken, events) /\ Before(taken, fifo)
  /\ Before(keyevents, todo) /\ Before(keyevents, events) /\ Before(keyevents, fifo)
  /\ Before(todo, events) /\ Before(todo, fifo)
  /\ Before(events, fifo)
  /\ UpTo(taken, count) /\ UpTo(keyevents, count) /\ UpTo(todo, count)
  /\ UpTo(events, count) /\ UpTo(fifo, count)
  /\ ScheduledInOrder

(* Unless events were lost, a key has the modifiers and the layer of the   *)
(* switches that were down when it was pressed, not of those down when the *)
(* handler got to it.                                                      *)
ModifiersOfThePress ==
  faults \cap {"overflow", "batch_lost", "callback_lost"} = {} =>
    \A q \in {taken, keyevents} : \A i \in DOMAIN q :
      /\ q[i].mask = PhysicalMask(q[i].held)
      /\ q[i].layer = Layer(Position(q[i].byte), PhysicalMask(q[i].held),
                            PhysicalFn(q[i].held))

IrqQueued == \E i \in DOMAIN sched : sched[i].kind = "irq"

(* No lost wakeup: while no edge or batch was lost and the interrupt was   *)
(* never cleared over unread events, unread events have a handler running  *)
(* or queued that will read them.                                          *)
Calm == attached /\ faults \cap {"irq_lost", "batch_lost", "clear_race"} = {}

Awake == IrqQueued \/ pc \notin {"idle", "tick"}

NoLostWakeup == Calm /\ fifo # <<>> => key_int /\ Awake

(* Why none is lost: the interrupt is up while there is anything to read,  *)
(* and while it is up a handler is running or queued.                      *)
PinIsHeeded == Calm => (fifo # <<>> => key_int) /\ (key_int => Awake)

(* With a callback set, every key waiting in keyevents has its own call    *)
(* queued, so a callback that takes one key never finds none; only a call  *)
(* the full queue refused leaves a key behind.                             *)
OneCallPerKey ==
  LET calls == Cardinality({i \in DOMAIN sched : sched[i].kind = "callback"})
  IN  HasCallback => /\ calls <= Len(keyevents)
                     /\ "callback_lost" \notin faults => calls = Len(keyevents)

Numbers(q) == {q[i].n : i \in DOMAIN q}

Pressed(n) == \E i \in DOMAIN fifo : fifo[i].n = n /\ IsPress(fifo[i].byte)

(* A press the chip queued reaches the application, unless one of the      *)
(* recorded faults occurs or the keyboard is shut down.                    *)
EveryPressArrives ==
  \A n \in 1..MaxEvents :
    Pressed(n) ~> (n \in Numbers(taken) \/ faults # {} \/ ~attached)

(* What the docstring of set_keyevent_callback says: the callback is       *)
(* called when a key event is ready, so none stays in the chip.  Full      *)
(* queues are left aside: what is lost is lost in clearing K_INT.          *)
ReadyEventIsRead ==
  \A n \in 1..MaxEvents :
    Pressed(n) ~> (~Pressed(n) \/ ~attached \/ ~(faults \subseteq {"clear_race"}))
=============================================================================
