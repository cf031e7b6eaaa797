------------------------ MODULE KeyboardRefinement ------------------------
(***************************************************************************)
(* KeyboardI2C implements KeyStream: the presses on their way are those in *)
(* keyevents, in the batch being processed, in the batches the scheduler   *)
(* holds, in the batch being read and in the chip.                         *)
(***************************************************************************)
EXTENDS KeyboardI2C, Functions

(* The events on their way from the chip to _ascii_handler.                *)
Batches(q) == UNION {Range(q[i].events) : i \in DOMAIN q}

Pending == Range(todo) \cup Batches(sched) \cup Range(events) \cup Range(fifo)

InFlight == Numbers(keyevents) \cup {e.n : e \in {x \in Pending : IsPress(x.byte)}}

NumbersOf(q) == [i \in DOMAIN q |-> q[i].n]

Stream == INSTANCE KeyStream WITH
  MaxPresses <- MaxEvents,
  queue <- InFlight,
  taken <- NumbersOf(taken),
  last  <- count,
  lossy <- faults # {}

(* The keyboard is a lossy queue of presses and loses one only in a step   *)
(* that records a fault, or after one: chip, handlers, scheduler and       *)
(* keyevents together neither reorder, invent, duplicate nor silently drop *)
(* a press.                                                                *)
ImplementsKeyStream == Stream!Spec
=============================================================================
