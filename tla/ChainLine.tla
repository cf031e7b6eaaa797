------------------------------ MODULE ChainLine ------------------------------
(***************************************************************************)
(* What the devices of the chain, the UART and _decode_packet together     *)
(* give the rest of ChainLinkLayer: packets come one by one, in the order  *)
(* in which they were sent, each once and unchanged.  A packet lost or     *)
(* damaged on the way was never put on this line.                          *)
(***************************************************************************)
EXTENDS Sequences

CONSTANT Packets  \* what may be sent

VARIABLES
  line,    \* packets on their way
  arrived  \* packets that have come, in their order

Init == line = <<>> /\ arrived = <<>>

Put(p) ==
  /\ line' = Append(line, p)
  /\ UNCHANGED arrived

Arrive ==
  /\ line # <<>>
  /\ line' = Tail(line)
  /\ arrived' = Append(arrived, Head(line))

LineNext == Arrive \/ \E p \in Packets : Put(p)

LineSpec == Init /\ [][LineNext]_<<line, arrived>>
=============================================================================
