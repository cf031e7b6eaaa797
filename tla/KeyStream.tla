----------------------------- MODULE KeyStream -----------------------------
(***************************************************************************)
(* What an application may expect of a keyboard: a queue of key presses.   *)
(* Keys leave it in the order they were pressed.  A press is lost only     *)
(* once the keyboard has been marked lossy, in the same step or earlier.   *)
(***************************************************************************)
EXTENDS Integers, Sequences

CONSTANT MaxPresses   \* bound: the number given to the latest press

VARIABLES
  queue,   \* presses on their way, by the numbers of their key movements
  taken,   \* presses the application has taken, in the order it took them
  last,    \* number of the latest key movement
  lossy    \* whether a press may have been lost

vars == <<queue, taken, last, lossy>>

Init ==
  /\ queue = {}
  /\ taken = <<>>
  /\ last = 0
  /\ lossy = FALSE

(* A key goes down; the keyboard may miss it, and is lossy if it does.     *)
Press ==
  /\ last < MaxPresses
  /\ last' = last + 1
  /\ \/ queue' = queue \cup {last'}
     \/ queue' = queue /\ lossy'
  /\ lossy' \in {lossy, TRUE}
  /\ UNCHANGED taken

(* A key comes up: nothing the application sees.                           *)
Release ==
  /\ last < MaxPresses
  /\ last' = last + 1
  /\ lossy' \in {lossy, TRUE}
  /\ UNCHANGED <<queue, taken>>

(* The keyboard fails and loses any of the presses on their way, or none.  *)
Fail ==
  /\ lossy' = TRUE
  /\ queue' \in SUBSET queue
  /\ UNCHANGED <<taken, last>>

(* The application takes the oldest press, which leaves the queue.         *)
Take ==
  /\ \E n \in queue :
       /\ \A m \in queue : n <= m
       /\ taken' = Append(taken, n)
       /\ queue' = queue \ {n}
  /\ UNCHANGED <<last, lossy>>

Next == Press \/ Release \/ Fail \/ Take

Spec == Init /\ [][Next]_vars
=============================================================================
