----------------------------- MODULE ChainBus -----------------------------
(***************************************************************************)
(* The chain bus: ChainLinkLayer and ChainBus of libs/chain/chain.py.  A   *)
(* thread of the bus, _recv_task, decodes packets from the UART into       *)
(* _packet_queue, schedules the callbacks of registered events and throws  *)
(* old packets away; the application sends requests and searches the same  *)
(* list for their answers.  Nothing locks the list.  The virtual machine   *)
(* changes threads at jumps, so a search, which finds an index and then    *)
(* deletes at it, is one step for each element and one for the deletion.   *)
(*                                                                         *)
(* Framing is left to ChainDecoder: here the UART carries whole packets,   *)
(* the line both modules know as ChainLine.                                *)
(***************************************************************************)
EXTENDS Integers, Sequences, SequencesExt

CONSTANTS
  Requests,   \* <<device, command>> of the requests the application sends
  Events,     \* <<device, command>> of the events devices send by themselves
  Tries,      \* times a request is sent: 3 in the code
  NoPacket,   \* stands for no packet and no slot
  MaxCalls,   \* bound: calls of send
  MaxEvents,  \* bound: events the devices send
  MaxBoth     \* bound: calls and events together

(* The commands of answers and of events are apart in every device class.  *)
ASSUME SlotsAssumption == Requests \cap Events = {}
ASSUME NumbersAssumption ==
  /\ Tries \in Nat \ {0}
  /\ MaxCalls \in Nat
  /\ MaxEvents \in Nat
  /\ MaxBoth \in Nat

VARIABLES
  line,         \* packets sent that the receive thread has not decoded
  requests,     \* requests no device has answered
  fired,        \* events sent so far
  packet_queue, \* self._packet_queue
  event,        \* self._event: the slots with a callback for some payload
  running,      \* self._running
  rpc,          \* where the receive thread stands
  decoded,      \* _recv_task: the bytes last read held a packet
  chunk,        \* packets left in the bytes being decoded
  round,        \* the registered events still to be looked for this turn
  rslot,        \* the one being looked for
  ri,           \* the receive thread's index into the list
  rfound,       \* the packet it found there
  old,          \* _clear_old_packets: the packets that came too long ago
  apc,          \* where the application's call stands
  call,         \* calls so far: the number of the latest one
  aslot,        \* its device and command
  try,          \* which of its tries is running
  ai,           \* the application's index into the list
  afound,       \* the packet it found there
  status,       \* how the latest call ended
  seen,         \* history: the packets decoded, in their order
  answers,      \* history: the packets the application's searches returned
  dispatched,   \* history: the packets the receive thread's searches returned
  cleared,      \* history: the packets thrown away as old
  faults        \* history: what has gone wrong

wire  == <<line, requests, fired>>
turn  == <<decoded, chunk, round, rslot, ri, rfound, old>>
recv  == <<rpc, turn>>
calls == <<apc, call, aslot, try, ai, afound, status>>
past  == <<seen, answers, dispatched, cleared, faults>>
vars  == <<wire, packet_queue, event, running, recv, calls, past>>

(* An answer is of a call and of one of its tries, events are numbered;    *)
(* the code sees the slot only, and the payload, which is left out.        *)
Answer == [slot: Requests, n: 1..MaxCalls, try: 1..Tries]
Event  == [slot: Events, n: 1..MaxEvents, try: {0}]
Packet == Answer \cup Event

Faults == {"timeout", "shifted", "sched_full"}
-----------------------------------------------------------------------------
Init ==
  /\ line = <<>> /\ requests = {} /\ fired = 0
  /\ packet_queue = <<>>
  /\ event = {}
  /\ running = TRUE
  /\ rpc = "loop" /\ decoded = FALSE /\ chunk = 0
  /\ round = {} /\ rslot = NoPacket /\ ri = 0 /\ rfound = NoPacket /\ old = {}
  /\ apc = "idle" /\ call = 0 /\ aslot = NoPacket /\ try = 0
  /\ ai = 0 /\ afound = NoPacket /\ status = "none"
  /\ seen = <<>> /\ answers = <<>> /\ dispatched = <<>> /\ cleared = {}
  /\ faults = {}
-----------------------------------------------------------------------------
(* The devices.                                                            *)

SentAfter(q, r) == q.n > r.n \/ (q.n = r.n /\ q.try > r.try)

(* A device answers in order.  A request that is passed over was lost, and *)
(* so was one nobody answers; a packet damaged on the line was never sent. *)
DeviceAnswers(r) ==
  /\ requests' = {q \in requests : SentAfter(q, r)}
  /\ line' = Append(line, r)
  /\ UNCHANGED <<fired, packet_queue, event, running, recv, calls, past>>

DeviceFires(s) ==
  /\ fired < MaxEvents /\ call + fired < MaxBoth
  /\ fired' = fired + 1
  /\ line' = Append(line, [slot |-> s, n |-> fired', try |-> 0])
  /\ UNCHANGED <<requests, packet_queue, event, running, recv, calls, past>>
-----------------------------------------------------------------------------
(* Searching and deleting by index, which both threads do.                 *)

Matches(p, s) == p.slot = s

(* The index one thread holds no longer means what it meant if the other   *)
(* deletes at d: an element is passed over in a search, the deletion hits  *)
(* another element, or the index is past the end.                          *)
AppDisturbed(d) ==
  \/ apc = "search" /\ d < ai
  \/ apc = "remove" /\ d <= ai

RecvDisturbed(d) ==
  \/ rpc = "search" /\ d < ri
  \/ rpc \in {"remove", "clean_remove"} /\ d <= ri
  \/ rpc = "clean" /\ ri = Len(packet_queue)

Shifted(b) == IF b THEN {"shifted"} ELSE {}
-----------------------------------------------------------------------------
(* The application: ChainLinkLayer.send and ChainBus.send, the first of    *)
(* them made by the constructor.                                           *)

Request(s, c, t) == [slot |-> s, n |-> c, try |-> t]

(* send writes the packet and begins to search for its answer.             *)
StartCall(s) ==
  /\ apc = "idle"
  /\ call < MaxCalls /\ call + fired < MaxBoth
  /\ call' = call + 1 /\ aslot' = s /\ try' = 1
  /\ requests' = requests \cup {Request(s, call', 1)}
  /\ apc' = "search" /\ ai' = 1 /\ afound' = NoPacket /\ status' = "none"
  /\ UNCHANGED <<line, fired, packet_queue, event, running, recv, past>>

(* _receive_packet, one element of the list.                               *)
AppSearch ==
  /\ apc = "search"
  /\ \/ /\ ai > Len(packet_queue)
        /\ apc' = "none"
        /\ UNCHANGED <<ai, afound>>
     \/ /\ ai <= Len(packet_queue)
        /\ Matches(packet_queue[ai], aslot)
        /\ apc' = "remove"
        /\ afound' = packet_queue[ai]
        /\ UNCHANGED ai
     \/ /\ ai <= Len(packet_queue)
        /\ ~Matches(packet_queue[ai], aslot)
        /\ ai' = ai + 1
        /\ UNCHANGED <<apc, afound>>
  /\ UNCHANGED <<wire, packet_queue, event, running, recv, call, aslot,
                 try, status, past>>

CallEnds(how) ==
  /\ apc' = "idle" /\ ai' = 0 /\ try' = 0 /\ status' = how
  /\ UNCHANGED <<call, aslot>>

\* Mutant of AppRemove: the answer is returned and left in the list.
AppReturnsOnly ==
  /\ apc = "remove"
  /\ CallEnds("answered")
  /\ answers' = Append(answers, afound)
  /\ UNCHANGED <<wire, packet_queue, event, running, recv, afound, seen,
                 dispatched, cleared, faults>>

(* An index past the end raises IndexError out of send.                    *)
AppRemove ==
  /\ apc = "remove"
  /\ \/ /\ ai <= Len(packet_queue)
        /\ packet_queue' = RemoveAt(packet_queue, ai)
        /\ CallEnds("answered")
        /\ answers' = Append(answers, afound)
        /\ faults' = faults \cup Shifted(RecvDisturbed(ai))
        /\ UNCHANGED afound
     \/ /\ ai > Len(packet_queue)
        /\ CallEnds("raised")
        /\ afound' = NoPacket
        /\ UNCHANGED <<packet_queue, answers, faults>>
  /\ UNCHANGED <<wire, event, running, recv, seen, dispatched, cleared>>

(* Nothing found: sleep ten milliseconds and search again.                 *)
AppSearchAgain ==
  /\ apc = "none"
  /\ apc' = "search" /\ ai' = 1
  /\ UNCHANGED <<wire, packet_queue, event, running, recv, call, aslot,
                 try, afound, status, past>>

\* Mutants of AppTimeout: the request is sent again without end, or once
\* more than it should be.
AppTriesForEver ==
  /\ apc = "none"
  /\ faults' = faults \cup {"timeout"}
  /\ requests' = requests \cup {Request(aslot, call, try)}
  /\ apc' = "search" /\ ai' = 1
  /\ UNCHANGED <<line, fired, packet_queue, event, running, recv, call, aslot,
                 try, afound, status, seen, answers, dispatched, cleared>>

AppTriesOnceMore ==
  /\ apc = "none"
  /\ try <= Tries
  /\ faults' = faults \cup {"timeout"}
  /\ try' = try + 1
  /\ apc' = "search" /\ ai' = 1
  /\ UNCHANGED <<wire, packet_queue, event, running, recv, call, aslot, afound,
                 status, seen, answers, dispatched, cleared>>

(* Nothing found in time: the request is sent again, or the call fails.    *)
AppTimeout ==
  /\ apc = "none"
  /\ faults' = faults \cup {"timeout"}
  /\ \/ /\ try < Tries
        /\ try' = try + 1
        /\ requests' = requests \cup {Request(aslot, call, try')}
        /\ apc' = "search" /\ ai' = 1
        /\ UNCHANGED <<call, aslot, status>>
     \/ /\ try = Tries
        /\ CallEnds("failed")
        /\ UNCHANGED requests
  /\ UNCHANGED <<line, fired, packet_queue, event, running, recv, afound,
                 seen, answers, dispatched, cleared>>

(* register_event.  The receive thread may be going through the dictionary *)
(* and find the new entry or not.                                          *)
RegisterEvent(s) ==
  /\ apc = "idle"
  /\ event' = event \cup {s}
  /\ \/ UNCHANGED round
     \/ /\ s \notin event /\ decoded
        /\ rpc \in {"round", "search", "remove"}
        /\ round' = round \cup {s}
  /\ UNCHANGED <<wire, packet_queue, running, rpc, decoded, chunk, rslot,
                 ri, rfound, old, calls, past>>

Deinit ==
  /\ apc = "idle"
  /\ running' = FALSE
  /\ UNCHANGED <<wire, packet_queue, event, recv, calls, past>>
-----------------------------------------------------------------------------
(* The receive thread: _recv_task.                                         *)

RecvEnds ==
  /\ rpc' = "dead" /\ decoded' = FALSE /\ chunk' = 0 /\ round' = {}
  /\ rslot' = NoPacket /\ ri' = 0 /\ rfound' = NoPacket /\ old' = {}

(* All bytes that are there are decoded.  Bytes without a packet, which    *)
(* are a part of one, a heartbeat or an enumeration request, reset decoded *)
(* too; without bytes it keeps its value.                                  *)
RecvLoop ==
  /\ rpc = "loop"
  /\ \/ /\ ~running
        /\ RecvEnds
     \/ /\ running
        /\ line = <<>>
        /\ rpc' = "round"
        /\ decoded' \in {decoded, FALSE}
        /\ round' = IF decoded' THEN event ELSE {}
        /\ UNCHANGED <<chunk, rslot, ri, rfound, old>>
     \/ /\ running
        /\ line # <<>>
        /\ rpc' = "decode"
        /\ decoded' = FALSE
        /\ chunk' = Len(line)
        /\ UNCHANGED <<round, rslot, ri, rfound, old>>
  /\ UNCHANGED <<wire, packet_queue, event, running, calls, past>>

\* Mutant of RecvDecode: the newest packet is put in front.
RecvDecodeToFront ==
  /\ rpc = "decode"
  /\ \/ /\ chunk = 0
        /\ rpc' = "round"
        /\ round' = IF decoded THEN event ELSE {}
        /\ UNCHANGED <<line, packet_queue, decoded, chunk, seen>>
     \/ /\ chunk > 0
        /\ chunk' = chunk - 1
        /\ line' = Tail(line)
        /\ packet_queue' = <<Head(line)>> \o packet_queue
        /\ seen' = Append(seen, Head(line))
        /\ decoded' = TRUE
        /\ UNCHANGED <<rpc, round>>
  /\ UNCHANGED <<requests, fired, event, running, rslot, ri, rfound, old, calls,
                 answers, dispatched, cleared, faults>>

RecvDecode ==
  /\ rpc = "decode"
  /\ \/ /\ chunk = 0
        /\ rpc' = "round"
        /\ round' = IF decoded THEN event ELSE {}
        /\ UNCHANGED <<line, packet_queue, decoded, chunk, seen>>
     \/ /\ chunk > 0
        /\ chunk' = chunk - 1
        /\ line' = Tail(line)
        /\ packet_queue' = Append(packet_queue, Head(line))
        /\ seen' = Append(seen, Head(line))
        /\ decoded' = TRUE
        /\ UNCHANGED <<rpc, round>>
  /\ UNCHANGED <<requests, fired, event, running, rslot, ri, rfound, old,
                 calls, answers, dispatched, cleared, faults>>

(* The registered events in the order of the dictionary: any order.        *)
RecvNextEvent ==
  /\ rpc = "round"
  /\ \E s \in round :
       /\ round' = round \ {s}
       /\ rslot' = s /\ ri' = 1
       /\ rpc' = "search"
  /\ UNCHANGED <<wire, packet_queue, event, running, decoded, chunk,
                 rfound, old, calls, past>>

(* receive_packet, one element of the list.                                *)
RecvSearch ==
  /\ rpc = "search"
  /\ \/ /\ ri > Len(packet_queue)
        /\ rpc' = "round" /\ rslot' = NoPacket /\ ri' = 0
        /\ UNCHANGED rfound
     \/ /\ ri <= Len(packet_queue)
        /\ Matches(packet_queue[ri], rslot)
        /\ rpc' = "remove"
        /\ rfound' = packet_queue[ri]
        /\ UNCHANGED <<rslot, ri>>
     \/ /\ ri <= Len(packet_queue)
        /\ ~Matches(packet_queue[ri], rslot)
        /\ ri' = ri + 1
        /\ UNCHANGED <<rpc, rslot, rfound>>
  /\ UNCHANGED <<wire, packet_queue, event, running, decoded, chunk, round,
                 old, calls, past>>

\* Mutant of RecvRemove: the first packet of the list is deleted.
RecvRemovesFirst ==
  /\ rpc = "remove"
  /\ packet_queue # <<>>
  /\ packet_queue' = Tail(packet_queue)
  /\ dispatched' = Append(dispatched, rfound)
  /\ rpc' = "round" /\ rslot' = NoPacket /\ ri' = 0
  /\ rfound' = NoPacket
  /\ faults' = faults \cup Shifted(AppDisturbed(ri))
  /\ UNCHANGED <<wire, event, running, decoded, chunk, round, old, calls, seen,
                 answers, cleared>>

(* The packet is deleted, and the callback of its payload, if it has one,  *)
(* scheduled.  A full queue, like an index past the end, is an exception   *)
(* nothing catches: the thread ends.                                       *)
RecvRemove ==
  /\ rpc = "remove"
  /\ \/ /\ ri <= Len(packet_queue)
        /\ packet_queue' = RemoveAt(packet_queue, ri)
        /\ dispatched' = Append(dispatched, rfound)
        /\ \/ /\ rpc' = "round" /\ rslot' = NoPacket /\ ri' = 0
              /\ rfound' = NoPacket
              /\ faults' = faults \cup Shifted(AppDisturbed(ri))
              /\ UNCHANGED <<decoded, chunk, round, old>>
           \/ /\ RecvEnds
              /\ faults' = faults \cup {"sched_full"}
                               \cup Shifted(AppDisturbed(ri))
     \/ /\ ri > Len(packet_queue)
        /\ RecvEnds
        /\ UNCHANGED <<packet_queue, dispatched, faults>>
  /\ UNCHANGED <<wire, event, running, calls, seen, answers, cleared>>

RecvTurnEnds ==
  /\ rpc = "round"
  /\ round = {}
  /\ rpc' = "loop"
  /\ UNCHANGED <<wire, packet_queue, event, running, turn, calls, past>>

\* Mutant of RecvClearingDue: the range begins one past the end.
RecvClearingPastEnd(few) ==
  /\ rpc = "round"
  /\ round = {}
  /\ rpc' = "clean"
  /\ ri' = Len(packet_queue) + 1
  /\ old' = {packet_queue[i] : i \in 1..few}
  /\ UNCHANGED <<wire, packet_queue, event, running, decoded, chunk, round,
                 rslot, rfound, calls, past>>

(* Over five seconds after the last clearing, which a plain difference of  *)
(* two clock readings tells, the first few packets are found old.          *)
RecvClearingDue(few) ==
  /\ rpc = "round"
  /\ round = {}
  /\ rpc' = "clean"
  /\ ri' = Len(packet_queue)
  /\ old' = {packet_queue[i] : i \in 1..few}
  /\ UNCHANGED <<wire, packet_queue, event, running, decoded, chunk, round,
                 rslot, rfound, calls, past>>

\* Mutant of RecvClean: the range stops before the first packet.
RecvCleanButFirst ==
  /\ rpc = "clean"
  /\ \/ /\ ri <= 1
        /\ rpc' = "loop"
        /\ ri' = 0 /\ old' = {}
        /\ UNCHANGED <<decoded, chunk, round, rslot, rfound>>
     \/ /\ ri > 1 /\ ri \in DOMAIN packet_queue
        /\ packet_queue[ri] \in old
        /\ rpc' = "clean_remove"
        /\ UNCHANGED turn
     \/ /\ ri > 1 /\ ri \in DOMAIN packet_queue
        /\ packet_queue[ri] \notin old
        /\ ri' = ri - 1
        /\ UNCHANGED <<rpc, decoded, chunk, round, rslot, rfound, old>>
     \/ /\ ri > Len(packet_queue)
        /\ RecvEnds
  /\ UNCHANGED <<wire, packet_queue, event, running, calls, past>>

(* _clear_old_packets, one element of the list, the last one first.        *)
RecvClean ==
  /\ rpc = "clean"
  /\ \/ /\ ri = 0
        /\ rpc' = "loop"
        /\ old' = {}
        /\ UNCHANGED <<decoded, chunk, round, rslot, ri, rfound>>
     \/ /\ ri > Len(packet_queue)
        /\ RecvEnds
     \/ /\ ri \in DOMAIN packet_queue
        /\ packet_queue[ri] \in old
        /\ rpc' = "clean_remove"
        /\ UNCHANGED turn
     \/ /\ ri \in DOMAIN packet_queue
        /\ packet_queue[ri] \notin old
        /\ ri' = ri - 1
        /\ UNCHANGED <<rpc, decoded, chunk, round, rslot, rfound, old>>
  /\ UNCHANGED <<wire, packet_queue, event, running, calls, past>>

RecvCleanRemove ==
  /\ rpc = "clean_remove"
  /\ \/ /\ ri <= Len(packet_queue)
        /\ packet_queue' = RemoveAt(packet_queue, ri)
        /\ cleared' = cleared \cup {packet_queue[ri]}
        /\ faults' = faults \cup Shifted(AppDisturbed(ri))
        /\ rpc' = "clean"
        /\ ri' = ri - 1
        /\ UNCHANGED <<decoded, chunk, round, rslot, rfound, old>>
     \/ /\ ri > Len(packet_queue)
        /\ RecvEnds
        /\ UNCHANGED <<packet_queue, cleared, faults>>
  /\ UNCHANGED <<wire, event, running, calls, seen, answers, dispatched>>
-----------------------------------------------------------------------------
Devices ==
  \/ \E r \in requests : DeviceAnswers(r)
  \/ \E s \in Events : DeviceFires(s)

Application ==
  \/ \E s \in Requests : StartCall(s)
  \/ AppSearch \/ AppRemove \/ AppSearchAgain \/ AppTimeout
  \/ \E s \in Events : RegisterEvent(s)
  \/ Deinit

RecvThread ==
  \/ RecvLoop \/ RecvDecode \/ RecvNextEvent \/ RecvSearch \/ RecvRemove
  \/ RecvTurnEnds \/ RecvClean \/ RecvCleanRemove
  \/ \E few \in 0..Len(packet_queue) : RecvClearingDue(few)

Next ==
  \/ Devices
  \/ Application
  \/ RecvThread

Spec == Init /\ [][Next]_vars

(* Both threads get their turns.  Time passes: a call does not search      *)
(* again for ever, and as the bounds end the packets, a clearing that      *)
(* finds all of them old falls due (until the millisecond clock starts     *)
(* again from 0, see ClockWrapEndsClearing).  Devices owe nothing.         *)
Fairness ==
  /\ WF_vars(AppSearch \/ AppRemove \/ AppSearchAgain)
  /\ SF_vars(AppTimeout)
  /\ WF_vars(RecvThread)
  /\ SF_vars(RecvClearingDue(Len(packet_queue)))

FairSpec == Spec /\ Fairness
-----------------------------------------------------------------------------
TypeOK ==
  /\ line \in Seq(Packet)
  /\ requests \subseteq Answer
  /\ fired \in 0..MaxEvents
  /\ packet_queue \in Seq(Packet)
  /\ event \subseteq Events
  /\ running \in BOOLEAN
  /\ rpc \in {"loop", "decode", "round", "search", "remove", "clean",
              "clean_remove", "dead"}
  /\ decoded \in BOOLEAN
  /\ chunk \in 0..Len(line)
  /\ round \subseteq Events
  /\ rslot \in Events \cup {NoPacket}
  /\ ri \in Nat
  /\ rfound \in Packet \cup {NoPacket}
  /\ old \subseteq Packet
  /\ apc \in {"idle", "search", "remove", "none"}
  /\ call \in 0..MaxCalls
  /\ aslot \in Requests \cup {NoPacket}
  /\ try \in 0..Tries
  /\ ai \in Nat
  /\ afound \in Packet \cup {NoPacket}
  /\ status \in {"none", "answered", "failed", "raised"}
  /\ seen \in Seq(Packet)
  /\ answers \in Seq(Packet)
  /\ dispatched \in Seq(Packet)
  /\ cleared \subseteq Packet
  /\ faults \subseteq Faults

(* Unless a deletion shifted the list under the other thread's search, a   *)
(* decoded packet is in one place, once: in the list, returned by one of   *)
(* the two searches, or thrown away as old.                                *)
EachPacketOnce ==
  "shifted" \notin faults =>
    LET queued == Range(packet_queue)
        ours   == Range(answers)
        theirs == Range(dispatched)
    IN  /\ Range(seen) = queued \cup ours \cup theirs \cup cleared
        /\ queued \cap (ours \cup theirs \cup cleared) = {}
        /\ ours \cap (theirs \cup cleared) = {}
        /\ theirs \cap cleared = {}
        /\ IsInjective(packet_queue)
        /\ IsInjective(answers)
        /\ IsInjective(dispatched)

(* And the events of a device reach their callbacks in the order the       *)
(* device sent them.                                                       *)
EventsInOrder ==
  "shifted" \notin faults =>
    \A i, j \in DOMAIN dispatched :
      i < j /\ dispatched[i].slot = dispatched[j].slot
        => dispatched[i].n < dispatched[j].n

(* send returns the answer to its own request.  What an earlier call gave  *)
(* up may answer a later one, and so may an answer a shift left behind.    *)
AnswerOfTheCall ==
  status = "answered" =>
    /\ afound.slot = aslot
    /\ faults \cap {"timeout", "shifted"} = {} => afound.n = call

(* The receive thread ends only when the bus is shut down, when the queue  *)
(* of scheduled callbacks was full or the list was shifted under it; and   *)
(* only the last makes a call raise.                                       *)
NoIndexError ==
  "shifted" \notin faults =>
    /\ status # "raised"
    /\ rpc = "dead" => "sched_full" \in faults \/ ~running

(* A call ends, even when nothing answers and the receive thread is dead.  *)
CallReturns == apc # "idle" ~> apc = "idle"

(* No packet stays for ever: what no event and no request takes is cleared *)
(* while the receive thread lives.                                         *)
Stays(p) == p \in Range(packet_queue)

NothingStays ==
  \A p \in Packet :
    Stays(p) ~> (~Stays(p) \/ rpc = "dead")

(* The packets decoded, in the order of the line: what ChainDecoder gives. *)
Line == INSTANCE ChainLine WITH Packets <- Packet, line <- line, arrived <- seen

(* What the docstring of receive_packet says: the packet it returns is     *)
(* removed from the list.                                                  *)
ReturnedIsRemoved == Range(answers \o dispatched) \cap Range(packet_queue) = {}
=============================================================================
