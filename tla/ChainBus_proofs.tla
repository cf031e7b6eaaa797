-------------------------- MODULE ChainBus_proofs --------------------------
(***************************************************************************)
(* The chain bus for any devices, tries and traffic: while no deletion     *)
(* shifts the list under the other thread's search, packets are neither    *)
(* lost nor taken twice, events keep their order, a call gets its own      *)
(* answer and nothing runs past the end of the list.                       *)
(***************************************************************************)
EXTENDS ChainBus, SequenceTheorems, TLAPS

Calm == "shifted" \notin faults

(* Everything that was ever sent and is not lost.                          *)
Sent == requests \cup Range(line) \cup Range(seen)

(* Packets are told apart by call and try, or by the number of the event.  *)
Numbered ==
  \A p \in Sent :
    IF p.slot \in Requests
    THEN p.n <= call /\ (p.n = call /\ apc # "idle" => p.try <= try)
    ELSE p.n <= fired

SentOnce ==
  /\ requests \cap Range(line) = {}
  /\ (requests \cup Range(line)) \cap Range(seen) = {}
  /\ IsInjective(line)

(* The index each thread holds means what it meant when it was found.      *)
AppIndex ==
  /\ apc \in {"search", "remove"} =>
       \A j \in 1..Len(packet_queue) : j < ai => packet_queue[j].slot # aslot
  /\ apc = "search" => ai <= Len(packet_queue) + 1
  /\ apc = "remove" => ai <= Len(packet_queue) /\ afound = packet_queue[ai]

RecvIndex ==
  /\ rpc \in {"search", "remove"} =>
       \A j \in 1..Len(packet_queue) : j < ri => packet_queue[j].slot # rslot
  /\ rpc = "search" => ri <= Len(packet_queue) + 1
  /\ rpc = "remove" =>
       ri <= Len(packet_queue) /\ rfound = packet_queue[ri] /\ rfound.slot = rslot
  /\ rpc \in {"clean", "clean_remove"} => ri <= Len(packet_queue)

(* A device's events are in order along the way they take.                 *)
Ordered(s) ==
  \A i, j \in DOMAIN s :
    i < j /\ s[i].slot \in Events /\ s[i].slot = s[j].slot => s[i].n < s[j].n

Ahead(P, Q) ==
  \A p \in P, q \in Q : p.slot \in Events /\ p.slot = q.slot => p.n < q.n

InOrder ==
  /\ \A p \in Range(dispatched) : p.slot \in Events
  /\ Ordered(dispatched) /\ Ordered(packet_queue) /\ Ordered(line)
  /\ Ahead(Range(dispatched), Range(packet_queue))
  /\ Ahead(Range(dispatched), Range(line))
  /\ Ahead(Range(packet_queue), Range(line))

(* While no try has timed out, the only answer under way is of the call.   *)
UnderWay == requests \cup Range(line) \cup Range(packet_queue)

OnlyOfTheCall ==
  \A p \in UnderWay : p.slot \in Requests => apc # "idle" /\ p = Request(aslot, call, 1)

(* A call is under way or has ended, and searches are for known slots.     *)
Searches ==
  /\ apc # "idle" =>
       status = "none" /\ aslot \in Requests /\ call >= 1 /\ try >= 1
  /\ apc \in {"search", "remove"} => ai >= 1
  /\ apc = "remove" => afound \in Packet
  /\ rpc \in {"search", "remove"} => rslot \in Events
  /\ rpc \in {"search", "remove", "clean_remove"} => ri >= 1
  /\ rpc = "remove" => rfound \in Packet

(* What the application's search found is for the call.                    *)
Found == apc = "remove" => afound.slot = aslot

BusInv ==
  /\ TypeOK
  /\ Numbered
  /\ SentOnce
  /\ Searches
  /\ Found
  /\ EachPacketOnce
  /\ Calm => AppIndex /\ RecvIndex /\ InOrder
  /\ Calm /\ "timeout" \notin faults => OnlyOfTheCall
  /\ AnswerOfTheCall
  /\ NoIndexError
-----------------------------------------------------------------------------
(* The three ways the sequences change.                                    *)

LEMMA RemoveAtElements ==
  ASSUME NEW S, NEW s \in Seq(S), NEW i \in 1..Len(s)
  PROVE  /\ RemoveAt(s, i) \in Seq(S)
         /\ Len(RemoveAt(s, i)) = Len(s) - 1
         /\ \A j \in 1..Len(s) - 1 :
              RemoveAt(s, i)[j] = IF j < i THEN s[j] ELSE s[j + 1]
<1> DEFINE a == SubSeq(s, 1, i - 1)
           b == SubSeq(s, i + 1, Len(s))
<1>1. /\ a \in Seq(S) /\ Len(a) = i - 1
      /\ \A j \in 1..i - 1 : a[j] = s[j]
  OBVIOUS
<1>2. /\ b \in Seq(S) /\ Len(b) = Len(s) - i
      /\ \A j \in 1..Len(s) - i : b[j] = s[i + j]
  OBVIOUS
<1>3. RemoveAt(s, i) = a \o b
  BY DEF RemoveAt
<1> HIDE DEF a, b
<1>4. a \o b \in Seq(S) /\ Len(a \o b) = Len(s) - 1
  <2>1. a \o b \in Seq(S) /\ Len(a \o b) = Len(a) + Len(b)
    BY <1>1, <1>2, ConcatProperties
  <2>2. i - 1 + (Len(s) - i) = Len(s) - 1
    OBVIOUS
  <2> QED BY <1>1, <1>2, <2>1, <2>2
<1>5. ASSUME NEW j \in 1..Len(s) - 1
      PROVE  (a \o b)[j] = IF j < i THEN s[j] ELSE s[j + 1]
  <2>0. (a \o b)[j] = IF j <= i - 1 THEN a[j] ELSE b[j - (i - 1)]
    <3>1. \A k \in 1..Len(a) + Len(b) :
            (a \o b)[k] = IF k <= Len(a) THEN a[k] ELSE b[k - Len(a)]
      BY <1>1, <1>2, ConcatProperties
    <3> QED BY <3>1, <1>1, <1>2, <1>5
  <2>1. CASE j < i
    <3>1. j \in 1..i - 1 /\ j <= i - 1
      BY <1>5, <2>1
    <3>2. (a \o b)[j] = a[j] /\ a[j] = s[j]
      BY <1>1, <2>0, <3>1
    <3> QED BY <3>2, <2>1
  <2>2. CASE ~(j < i)
    <3>1. j - (i - 1) \in 1..Len(s) - i /\ i + (j - (i - 1)) = j + 1
      BY <2>2
    <3> QED BY <3>1, <1>2, <2>0, <2>2
  <2> QED BY <2>1, <2>2
<1> QED BY <1>3, <1>4, <1>5

LEMMA RemoveAtRange ==
  ASSUME NEW S, NEW s \in Seq(S), NEW i \in 1..Len(s), IsInjective(s)
  PROVE  /\ Range(RemoveAt(s, i)) = Range(s) \ {s[i]}
         /\ IsInjective(RemoveAt(s, i))
<1> DEFINE t == RemoveAt(s, i)
<1>1. /\ t \in Seq(S) /\ Len(t) = Len(s) - 1
      /\ \A j \in 1..Len(s) - 1 : t[j] = IF j < i THEN s[j] ELSE s[j + 1]
  BY RemoveAtElements
<1> HIDE DEF t
<1>2. DOMAIN s = 1..Len(s) /\ DOMAIN t = 1..Len(s) - 1
  BY <1>1
<1>3. Range(t) \subseteq Range(s) \ {s[i]}
  <2> SUFFICES ASSUME NEW j \in 1..Len(s) - 1 PROVE t[j] \in Range(s) \ {s[i]}
    BY <1>2 DEF Range
  <2>1. PICK k \in 1..Len(s) : k # i /\ t[j] = s[k]
    BY <1>1
  <2> QED BY <2>1, <1>2 DEF Range, IsInjective
<1>4. ASSUME NEW k \in 1..Len(s), k # i PROVE s[k] \in Range(t)
  <2>1. CASE k < i
    BY <1>1, <1>2, <2>1 DEF Range
  <2>2. CASE k > i
    <3>1. k - 1 \in 1..Len(s) - 1 /\ t[k - 1] = s[k]
      BY <1>1, <2>2
    <3> QED BY <3>1, <1>2 DEF Range
  <2> QED BY <1>4, <2>1, <2>2
<1>5. IsInjective(t)
  <2> SUFFICES ASSUME NEW j \in 1..Len(s) - 1, NEW k \in 1..Len(s) - 1, t[j] = t[k]
               PROVE  j = k
    BY <1>2 DEF IsInjective
  <2>1. ASSUME NEW m \in 1..Len(s), NEW n \in 1..Len(s), s[m] = s[n] PROVE m = n
    BY <2>1, <1>2 DEF IsInjective
  <2> QED BY <1>1, <2>1
<1> QED BY <1>2, <1>3, <1>4, <1>5 DEF t, Range

LEMMA AppendRange ==
  ASSUME NEW S, NEW s \in Seq(S), NEW e \in S
  PROVE  /\ Append(s, e) \in Seq(S)
         /\ Len(Append(s, e)) = Len(s) + 1
         /\ \A j \in 1..Len(s) : Append(s, e)[j] = s[j]
         /\ Append(s, e)[Len(s) + 1] = e
         /\ Range(Append(s, e)) = Range(s) \cup {e}
         /\ IsInjective(s) /\ e \notin Range(s) => IsInjective(Append(s, e))
<1> DEFINE t == Append(s, e)
<1>1. /\ t \in Seq(S) /\ Len(t) = Len(s) + 1
      /\ \A j \in 1..Len(s) : t[j] = s[j]
      /\ t[Len(s) + 1] = e
  OBVIOUS
<1> HIDE DEF t
<1>2. DOMAIN s = 1..Len(s) /\ DOMAIN t = 1..Len(s) + 1
  BY <1>1
<1>3. Range(t) \subseteq Range(s) \cup {e}
  BY <1>1, <1>2 DEF Range
<1>4. Range(s) \subseteq Range(t) /\ e \in Range(t)
  BY <1>1, <1>2 DEF Range
<1>5. IsInjective(s) /\ e \notin Range(s) => IsInjective(t)
  BY <1>1, <1>2 DEF Range, IsInjective
<1> QED BY <1>1, <1>3, <1>4, <1>5 DEF t

LEMMA TailRange ==
  ASSUME NEW S, NEW s \in Seq(S), s # <<>>, IsInjective(s)
  PROVE  /\ Tail(s) \in Seq(S)
         /\ Len(Tail(s)) = Len(s) - 1
         /\ \A j \in 1..Len(s) - 1 : Tail(s)[j] = s[j + 1]
         /\ Head(s) = s[1] /\ Head(s) \in S /\ Head(s) \in Range(s)
         /\ Range(Tail(s)) = Range(s) \ {Head(s)}
         /\ IsInjective(Tail(s))
<1> DEFINE t == Tail(s)
<1>1. /\ t \in Seq(S) /\ Len(t) = Len(s) - 1
      /\ \A j \in 1..Len(s) - 1 : t[j] = s[j + 1]
      /\ Head(s) = s[1] /\ Len(s) \in Nat \ {0}
  OBVIOUS
<1> HIDE DEF t
<1>2. DOMAIN s = 1..Len(s) /\ DOMAIN t = 1..Len(s) - 1
  BY <1>1
<1>3. s[1] \in S /\ s[1] \in Range(s)
  BY <1>1, <1>2 DEF Range
<1>4. Range(t) \subseteq Range(s) \ {s[1]}
  BY <1>1, <1>2 DEF Range, IsInjective
<1>5. ASSUME NEW k \in 1..Len(s), k # 1 PROVE s[k] \in Range(t)
  <2>1. k - 1 \in 1..Len(s) - 1 /\ t[k - 1] = s[k]
    BY <1>1, <1>5
  <2> QED BY <2>1, <1>2 DEF Range
<1>6. IsInjective(t)
  <2> SUFFICES ASSUME NEW j \in 1..Len(s) - 1, NEW k \in 1..Len(s) - 1, t[j] = t[k]
               PROVE  j = k
    BY <1>2 DEF IsInjective
  <2>1. ASSUME NEW m \in 1..Len(s), NEW n \in 1..Len(s), s[m] = s[n] PROVE m = n
    BY <2>1, <1>2 DEF IsInjective
  <2> QED BY <1>1, <2>1
<1>7. Range(t) = Range(s) \ {s[1]}
  BY <1>2, <1>4, <1>5 DEF Range
<1> QED BY <1>1, <1>3, <1>6, <1>7 DEF t
-----------------------------------------------------------------------------
(* Types.                                                                  *)

Typed == TypeOK /\ Searches

LEMMA InitTyped == Init => Typed
<1>1. <<>> \in Seq(Packet) /\ Len(<<>>) = 0
  OBVIOUS
<1>2. 0 \in 0..MaxEvents /\ 0 \in 0..MaxCalls /\ 0 \in 0..Tries
  BY NumbersAssumption
<1> SUFFICES ASSUME Init PROVE Typed
  OBVIOUS
<1>3. TypeOK
  <2>1. line \in Seq(Packet) /\ chunk \in 0..Len(line)
    BY <1>1 DEF Init
  <2>2. running \in BOOLEAN /\ decoded \in BOOLEAN
    BY DEF Init
  <2>3. packet_queue \in Seq(Packet) /\ answers \in Seq(Packet) /\ dispatched \in Seq(Packet)
    BY <1>1 DEF Init
  <2> QED BY <1>2, <2>1, <2>2, <2>3 DEF Init, TypeOK
<1>4. Searches
  BY DEF Init, Searches
<1> QED BY <1>3, <1>4 DEF Typed

LEMMA DevicesTyped == Typed /\ Devices => Typed'
<1> SUFFICES ASSUME Typed, Devices PROVE Typed'
  OBVIOUS
<1> USE NumbersAssumption DEF Typed, Searches
<1>1. ASSUME NEW e \in Packet, line' = Append(line, e)
      PROVE  line' \in Seq(Packet) /\ chunk \in 0..Len(line')
  BY <1>1, AppendRange DEF TypeOK
<1>2. ASSUME NEW r \in requests, DeviceAnswers(r) PROVE Typed'
  <2>1. r \in Packet /\ line' = Append(line, r) /\ requests' \subseteq Answer
    BY <1>2 DEF DeviceAnswers, TypeOK, Packet
  <2>2. UNCHANGED <<fired, packet_queue, event, running, recv, calls, past>>
    BY <1>2 DEF DeviceAnswers
  <2> QED BY <1>1, <2>1, <2>2 DEF TypeOK, recv, turn, calls, past
<1>3. ASSUME NEW s \in Events, DeviceFires(s) PROVE Typed'
  <2>1. [slot |-> s, n |-> fired + 1, try |-> 0] \in Packet
    <3>1. fired + 1 \in 1..MaxEvents
      BY <1>3 DEF TypeOK, DeviceFires
    <3> QED BY <3>1 DEF Packet, Event
  <2>2. line' = Append(line, [slot |-> s, n |-> fired + 1, try |-> 0])
    BY <1>3 DEF DeviceFires
  <2>3. line' \in Seq(Packet) /\ chunk \in 0..Len(line')
    BY <1>1, <2>1, <2>2
  <2>4. fired' \in 0..MaxEvents
    BY <1>3 DEF DeviceFires, TypeOK
  <2>5. UNCHANGED <<requests, packet_queue, event, running, recv, calls, past>>
    BY <1>3 DEF DeviceFires
  <2> QED BY <2>3, <2>4, <2>5 DEF TypeOK, recv, turn, calls, past
<1> QED BY <1>2, <1>3 DEF Devices

LEMMA ApplicationTyped == Typed /\ Application => Typed'
<1> SUFFICES ASSUME Typed, Application PROVE Typed'
  OBVIOUS
<1> USE NumbersAssumption DEF Typed, Searches
<1>1. ASSUME NEW s \in Requests, StartCall(s) PROVE Typed'
  BY <1>1 DEF StartCall, TypeOK, Answer, Request, recv, turn, past
<1>2. CASE AppSearch
  <2>1. ai >= 1 /\ ai <= Len(packet_queue) => packet_queue[ai] \in Packet
    BY DEF TypeOK
  <2> QED BY <1>2, <2>1 DEF AppSearch, TypeOK, wire, recv, turn, past
<1>3. CASE AppRemove
  <2>1. CASE ai <= Len(packet_queue)
    <3>1. ai \in 1..Len(packet_queue) /\ packet_queue \in Seq(Packet)
      BY <1>3, <2>1 DEF AppRemove, TypeOK
    <3>2. packet_queue' \in Seq(Packet)
      BY <1>3, <2>1, <3>1, RemoveAtElements DEF AppRemove
    <3>3. answers' \in Seq(Packet)
      <4>1. afound \in Packet /\ answers \in Seq(Packet)
        BY <1>3 DEF AppRemove, TypeOK
      <4>2. answers' = Append(answers, afound)
        BY <1>3, <2>1, <3>1 DEF AppRemove, TypeOK
      <4> QED BY <4>1, <4>2, AppendRange
    <3>4. faults' \subseteq Faults
      BY <1>3, <2>1, <3>1 DEF AppRemove, TypeOK, Shifted, Faults
    <3>5. /\ CallEnds("answered")
          /\ UNCHANGED <<afound, wire, event, running, recv, seen, dispatched, cleared>>
      BY <1>3, <2>1, <3>1 DEF AppRemove
    <3> QED BY <3>2, <3>3, <3>4, <3>5 DEF CallEnds, TypeOK, wire, recv, turn
  <2>2. CASE ~(ai <= Len(packet_queue))
    BY <1>3, <2>2 DEF AppRemove, CallEnds, TypeOK, wire, recv, turn
  <2> QED BY <2>1, <2>2
<1>4. CASE AppSearchAgain
  BY <1>4 DEF AppSearchAgain, TypeOK, wire, recv, turn, past
<1>5. CASE AppTimeout
  <2>1. CASE try < Tries
    <3>1. try + 1 \in 1..Tries /\ call \in 1..MaxCalls /\ aslot \in Requests
      BY <1>5, <2>1 DEF AppTimeout, TypeOK
    <3>2. Request(aslot, call, try + 1) \in Answer
      BY <3>1 DEF Request, Answer
    <3>3. requests' \subseteq Answer /\ try' \in 1..Tries
      BY <1>5, <2>1, <3>1, <3>2 DEF AppTimeout, TypeOK
    <3> QED BY <1>5, <2>1, <3>1, <3>3 DEF AppTimeout, TypeOK, Faults, recv, turn
  <2>2. CASE ~(try < Tries)
    <3>1. /\ CallEnds("failed") /\ faults' = faults \cup {"timeout"}
          /\ UNCHANGED <<wire, packet_queue, event, running, recv, afound, seen,
                         answers, dispatched, cleared>>
      BY <1>5, <2>2 DEF AppTimeout, TypeOK, wire
    <3>2. faults' \subseteq Faults
      BY <3>1 DEF TypeOK, Faults
    <3>3. /\ apc' = "idle" /\ ai' = 0 /\ try' = 0 /\ status' = "failed"
          /\ UNCHANGED <<call, aslot, afound>>
      BY <3>1 DEF CallEnds
    <3>4. TypeOK'
      BY <3>1, <3>2, <3>3 DEF TypeOK, wire, recv, turn
    <3>5. Searches'
      BY <3>1, <3>3 DEF recv, turn
    <3> QED BY <3>4, <3>5
  <2> QED BY <2>1, <2>2
<1>6. ASSUME NEW s \in Events, RegisterEvent(s) PROVE Typed'
  BY <1>6 DEF RegisterEvent, TypeOK, wire, calls, past
<1>7. CASE Deinit
  <2>1. running' \in BOOLEAN
    BY <1>7 DEF Deinit
  <2>2. UNCHANGED <<wire, packet_queue, event, recv, calls, past>>
    BY <1>7 DEF Deinit
  <2> QED BY <2>1, <2>2 DEF TypeOK, wire, recv, turn, calls, past
<1> QED BY <1>1, <1>2, <1>3, <1>4, <1>5, <1>6, <1>7 DEF Application

LEMMA RecvThreadTyped == Typed /\ RecvThread => Typed'
<1> SUFFICES ASSUME Typed, RecvThread PROVE Typed'
  OBVIOUS
<1> USE NumbersAssumption DEF Typed, Searches
<1>1. ASSUME RecvEnds PROVE /\ rpc' = "dead" /\ decoded' \in BOOLEAN /\ chunk' = 0
                            /\ round' \subseteq Events /\ rslot' = NoPacket
                            /\ ri' = 0 /\ rfound' = NoPacket /\ old' = {}
  BY <1>1 DEF RecvEnds
<1>2. CASE RecvLoop
  <2>1. CASE ~running
    <3>1. RecvEnds /\ UNCHANGED <<wire, packet_queue, event, running, calls, past>>
      BY <1>2, <2>1 DEF RecvLoop
    <3> QED BY <1>1, <3>1 DEF TypeOK, wire, calls, past
  <2>2. CASE running
    <3>1. decoded' \in BOOLEAN
      BY <1>2, <2>2 DEF RecvLoop, TypeOK
    <3>2. round' \subseteq Events
      BY <1>2, <2>2 DEF RecvLoop, TypeOK
    <3>3. chunk' \in 0..Len(line)
      <4>1. Len(line) \in Nat /\ chunk \in 0..Len(line)
        BY DEF TypeOK
      <4>2. chunk' = chunk \/ chunk' = Len(line)
        BY <1>2, <2>2 DEF RecvLoop
      <4> QED BY <4>1, <4>2
    <3>4. rpc' \in {"round", "decode"} /\ UNCHANGED <<rslot, ri, rfound, old>>
      BY <1>2, <2>2 DEF RecvLoop
    <3>5. UNCHANGED <<wire, packet_queue, event, running, calls, past>>
      BY <1>2 DEF RecvLoop
    <3> QED BY <3>1, <3>2, <3>3, <3>4, <3>5 DEF TypeOK, wire, calls, past
  <2> QED BY <2>1, <2>2
<1>3. CASE RecvDecode
  <2>1. CASE chunk = 0
    BY <1>3, <2>1 DEF RecvDecode, TypeOK, calls
  <2>2. CASE chunk # 0
    <3>1. /\ line \in Seq(Packet) /\ line # <<>> /\ Len(line) \in Nat
          /\ chunk \in 1..Len(line)
      BY <2>2 DEF TypeOK
    <3>2. Head(line) \in Packet /\ Tail(line) \in Seq(Packet) /\ Len(Tail(line)) = Len(line) - 1
      BY <3>1
    <3>3. /\ chunk' = chunk - 1 /\ line' = Tail(line)
          /\ packet_queue' = Append(packet_queue, Head(line))
          /\ seen' = Append(seen, Head(line)) /\ decoded' = TRUE /\ UNCHANGED <<rpc, round>>
      BY <1>3, <2>2 DEF RecvDecode
    <3>4. UNCHANGED <<requests, fired, event, running, rslot, ri, rfound, old,
                      calls, answers, dispatched, cleared, faults>>
      BY <1>3 DEF RecvDecode
    <3>5. packet_queue' \in Seq(Packet) /\ decoded' \in BOOLEAN
      BY <3>2, <3>3, AppendRange DEF TypeOK
    <3>6. line' \in Seq(Packet) /\ chunk' \in 0..Len(line')
      BY <3>1, <3>2, <3>3 DEF TypeOK
    <3>7. seen' \in Seq(Packet)
      BY <3>2, <3>3, AppendRange DEF TypeOK
    <3> QED BY <3>3, <3>4, <3>5, <3>6, <3>7 DEF TypeOK, calls
  <2> QED BY <2>1, <2>2
<1>4. CASE RecvNextEvent
  BY <1>4 DEF RecvNextEvent, TypeOK, wire, calls, past
<1>5. CASE RecvSearch
  <2>1. ri >= 1 /\ ri <= Len(packet_queue) => packet_queue[ri] \in Packet
    BY DEF TypeOK
  <2> QED BY <1>5, <2>1 DEF RecvSearch, TypeOK, wire, calls, past
<1>6. ASSUME ri \in 1..Len(packet_queue),
             packet_queue' = RemoveAt(packet_queue, ri)
      PROVE  packet_queue' \in Seq(Packet)
  BY <1>6, RemoveAtElements DEF TypeOK
<1>7. CASE RecvRemove
  <2>1. CASE ri <= Len(packet_queue)
    <3>1. ri \in 1..Len(packet_queue) /\ rfound \in Packet /\ dispatched \in Seq(Packet)
      BY <1>7, <2>1 DEF RecvRemove, TypeOK
    <3>2. /\ packet_queue' = RemoveAt(packet_queue, ri)
          /\ dispatched' = Append(dispatched, rfound)
          /\ faults' \subseteq faults \cup {"shifted", "sched_full"}
          /\ \/ RecvEnds
             \/ /\ rpc' = "round" /\ rslot' = NoPacket /\ ri' = 0 /\ rfound' = NoPacket
                /\ UNCHANGED <<decoded, chunk, round, old>>
      BY <1>7, <2>1, <3>1 DEF RecvRemove, Shifted, TypeOK
    <3>3. packet_queue' \in Seq(Packet) /\ dispatched' \in Seq(Packet)
      BY <1>6, <3>1, <3>2, AppendRange
    <3>4. UNCHANGED <<wire, event, running, calls, seen, answers, cleared>>
      BY <1>7 DEF RecvRemove
    <3>5. faults' \subseteq Faults
      BY <3>2 DEF TypeOK, Faults
    <3> QED BY <1>1, <3>2, <3>3, <3>4, <3>5 DEF TypeOK, wire, calls
  <2>2. CASE ~(ri <= Len(packet_queue))
    BY <1>1, <1>7, <2>2 DEF RecvRemove, TypeOK, wire, calls
  <2> QED BY <2>1, <2>2
<1>8. CASE RecvTurnEnds
  BY <1>8 DEF RecvTurnEnds, TypeOK, wire, turn, calls, past
<1>9. ASSUME NEW few \in 0..Len(packet_queue), RecvClearingDue(few) PROVE Typed'
  <2>1. old' \subseteq Packet /\ Len(packet_queue) \in Nat
    BY <1>9 DEF RecvClearingDue, TypeOK
  <2> QED BY <1>9, <2>1 DEF RecvClearingDue, TypeOK, wire, calls, past
<1>10. CASE RecvClean
  <2>1. CASE ri > Len(packet_queue)
    BY <1>1, <1>10, <2>1 DEF RecvClean, TypeOK, wire, calls, past
  <2>2. CASE ~(ri > Len(packet_queue))
    BY <1>10, <2>2 DEF RecvClean, TypeOK, wire, turn, calls, past
  <2> QED BY <2>1, <2>2
<1>11. CASE RecvCleanRemove
  <2>1. CASE ri <= Len(packet_queue)
    <3>1. ri \in 1..Len(packet_queue) /\ packet_queue[ri] \in Packet
      BY <1>11, <2>1 DEF RecvCleanRemove, TypeOK
    <3>2. packet_queue' \in Seq(Packet)
      BY <1>6, <1>11, <2>1, <3>1 DEF RecvCleanRemove
    <3>3. cleared' \subseteq Packet /\ faults' \subseteq Faults
      BY <1>11, <2>1, <3>1 DEF RecvCleanRemove, TypeOK, Shifted, Faults
    <3> QED BY <1>11, <2>1, <3>1, <3>2, <3>3 DEF RecvCleanRemove, TypeOK, wire, calls
  <2>2. CASE ~(ri <= Len(packet_queue))
    BY <1>1, <1>11, <2>2 DEF RecvCleanRemove, TypeOK, wire, calls
  <2> QED BY <2>1, <2>2
<1> QED
  BY <1>2, <1>3, <1>4, <1>5, <1>7, <1>8, <1>9, <1>10, <1>11 DEF RecvThread

LEMMA StutterTyped == Typed /\ UNCHANGED vars => Typed'
  BY DEF Typed, Searches, TypeOK, vars, wire, recv, turn, calls, past

(* The variables keep their types, for any devices, tries and traffic.     *)
THEOREM TypeCorrect == Spec => []TypeOK
<1>1. Typed /\ [Next]_vars => Typed'
  BY DevicesTyped, ApplicationTyped, RecvThreadTyped, StutterTyped DEF Next
<1> QED BY <1>1, InitTyped, PTL DEF Spec, Typed
-----------------------------------------------------------------------------
(* The line of the bus is the abstract one: the devices put packets on it, *)
(* the receive thread takes them off one by one, in their order, and every *)
(* other step leaves it alone.                                             *)

LEMMA DevicesPut == Typed /\ Devices => \E p \in Packet : Line!Put(p)
<1> SUFFICES ASSUME Typed, Devices PROVE \E p \in Packet : Line!Put(p)
  OBVIOUS
<1>1. ASSUME NEW r \in requests, DeviceAnswers(r) PROVE \E p \in Packet : Line!Put(p)
  <2>1. r \in Packet
    BY DEF Typed, TypeOK, Packet
  <2>2. Line!Put(r)
    BY <1>1 DEF DeviceAnswers, past, Line!Put
  <2> QED BY <2>1, <2>2
<1>2. ASSUME NEW s \in Events, DeviceFires(s) PROVE \E p \in Packet : Line!Put(p)
  <2> DEFINE e == [slot |-> s, n |-> fired + 1, try |-> 0]
  <2>1. fired + 1 \in 1..MaxEvents
    BY <1>2, NumbersAssumption DEF Typed, TypeOK, DeviceFires
  <2>2. e \in Packet
    BY <2>1 DEF Packet, Event
  <2>3. Line!Put(e)
    BY <1>2 DEF DeviceFires, past, Line!Put
  <2> QED BY <2>2, <2>3
<1> QED BY <1>1, <1>2 DEF Devices

LEMMA RecvThreadArrives ==
  Typed /\ RecvThread => Line!Arrive \/ UNCHANGED <<line, seen>>
<1> SUFFICES ASSUME Typed, RecvThread PROVE Line!Arrive \/ UNCHANGED <<line, seen>>
  OBVIOUS
<1>1. CASE RecvDecode
  <2>1. CASE chunk = 0
    BY <1>1, <2>1 DEF RecvDecode
  <2>2. CASE chunk # 0
    <3>1. line # <<>>
      BY <2>2 DEF Typed, TypeOK
    <3> QED BY <1>1, <2>2, <3>1 DEF RecvDecode, Line!Arrive
  <2> QED BY <2>1, <2>2
<1>2. CASE ~RecvDecode
  BY <1>2 DEF RecvThread, RecvLoop, RecvNextEvent, RecvSearch, RecvRemove,
     RecvTurnEnds, RecvClearingDue, RecvClean, RecvCleanRemove, wire, past
<1> QED BY <1>1, <1>2

LEMMA ApplicationLeavesLine == Application => UNCHANGED <<line, seen>>
BY DEF Application, StartCall, AppSearch, AppRemove, AppSearchAgain, AppTimeout,
       RegisterEvent, Deinit, wire, past

(* The line between the devices and the decoded packets of the bus is the  *)
(* line ChainDecoder implements with frames and bytes: what the bus takes  *)
(* from the UART as whole packets is what _decode_packet gives it.         *)
THEOREM BusLineImplemented == Spec => Line!LineSpec
<1>1. Init => Line!Init
  BY DEF Init, Line!Init
<1>2. Typed /\ [Next]_vars => [Line!LineNext]_<<line, seen>>
  <2> SUFFICES ASSUME Typed, [Next]_vars PROVE [Line!LineNext]_<<line, seen>>
    OBVIOUS
  <2>1. CASE UNCHANGED vars
    BY <2>1 DEF vars, wire, past
  <2>2. CASE Next
    BY <2>2, DevicesPut, RecvThreadArrives, ApplicationLeavesLine DEF Next, Line!LineNext
  <2> QED BY <2>1, <2>2
<1>3. Typed /\ [Next]_vars => Typed'
  BY DevicesTyped, ApplicationTyped, RecvThreadTyped, StutterTyped DEF Next
<1> QED BY <1>1, <1>2, <1>3, InitTyped, PTL DEF Spec, Line!LineSpec
-----------------------------------------------------------------------------
(* What is sent is sent once.                                              *)

SentInv == Numbered /\ SentOnce

LEMMA InitSent == Init => SentInv
<1> SUFFICES ASSUME Init PROVE SentInv
  OBVIOUS
<1>1. requests = {} /\ seen = <<>> /\ line = <<>>
  BY DEF Init
<1>2. Range(line) = {} /\ Range(seen) = {} /\ IsInjective(line)
  BY <1>1 DEF Range, IsInjective
<1> QED BY <1>1, <1>2 DEF SentInv, Numbered, SentOnce, Sent

(* Steps that send nothing.                                                *)
LEMMA NothingSent ==
  ASSUME Typed, SentInv, UNCHANGED <<requests, line, seen, fired, call>>,
         apc' = "idle" \/ (apc # "idle" /\ UNCHANGED try) \/ UNCHANGED <<apc, try>>
  PROVE  SentInv'
  BY DEF SentInv, Numbered, SentOnce, Sent

LEMMA SendSent ==
  ASSUME Typed, SentInv, call' \in Nat, try' \in Nat,
         call' > call \/ (call' = call /\ try' > try /\ apc # "idle"),
         \E d \in Requests : requests' = requests \cup {Request(d, call', try')},
         apc' # "idle", UNCHANGED <<line, seen, fired>>
  PROVE  SentInv'
<1>0. PICK d \in Requests : requests' = requests \cup {Request(d, call', try')}
  OBVIOUS
<1> DEFINE q == Request(d, call', try')
<1>1. q.slot = d /\ d \in Requests /\ q.n = call' /\ q.try = try'
  BY <1>0 DEF Request
<1> HIDE DEF q
<1>2. call \in Nat /\ try \in Nat /\ fired \in Nat
  BY NumbersAssumption DEF Typed, TypeOK
<1>3. \A p \in Sent : p.n \in Nat /\ p.try \in Nat
  <2>1. Sent \subseteq Packet
    BY DEF Sent, Typed, TypeOK, Packet, Range
  <2>2. \A p \in Answer : p.n \in Nat /\ p.try \in Nat
    BY NumbersAssumption DEF Answer
  <2>3. \A p \in Event : p.n \in Nat /\ p.try \in Nat
    BY NumbersAssumption DEF Event
  <2> QED BY <2>1, <2>2, <2>3 DEF Packet
<1>4. q \notin Sent
  BY <1>1, <1>2, <1>3 DEF SentInv, Numbered
<1>5. Sent' = Sent \cup {q}
  BY <1>0 DEF Sent, q
<1>6. Numbered'
  <2> SUFFICES ASSUME NEW p \in Sent'
               PROVE  (IF p.slot \in Requests
                       THEN p.n <= call /\ (p.n = call /\ apc # "idle" => p.try <= try)
                       ELSE p.n <= fired)'
    BY DEF Numbered
  <2>1. CASE p = q
    BY <1>1, <1>2, <2>1
  <2>2. CASE p \in Sent
    BY <1>2, <1>3, <2>2 DEF SentInv, Numbered
  <2> QED BY <1>5, <2>1, <2>2
<1>7. SentOnce'
  BY <1>0, <1>4, <1>5 DEF SentInv, SentOnce, Sent, q
<1> QED BY <1>6, <1>7 DEF SentInv

LEMMA DevicesSent == Typed /\ SentInv /\ Devices => SentInv'
<1> SUFFICES ASSUME Typed, SentInv, Devices PROVE SentInv'
  OBVIOUS
<1>0. line \in Seq(Packet) /\ IsInjective(line) /\ requests \subseteq Packet
  BY DEF Typed, TypeOK, SentInv, SentOnce, Packet
<1>1. ASSUME NEW r \in requests, DeviceAnswers(r) PROVE SentInv'
  <2>1. /\ line' = Append(line, r) /\ requests' \subseteq requests \ {r}
        /\ UNCHANGED <<fired, seen, call, apc, try>>
    <3>1. r.n \in Nat /\ r.try \in Nat
      BY NumbersAssumption DEF Typed, TypeOK, Answer
    <3> QED BY <1>1, <3>1 DEF DeviceAnswers, SentAfter, calls, past
  <2>2. r \notin Range(line) /\ r \notin Range(seen)
    BY DEF SentInv, SentOnce
  <2>3. Range(line') = Range(line) \cup {r} /\ IsInjective(line')
    BY <1>0, <2>1, <2>2, AppendRange
  <2>4. Sent' \subseteq Sent
    BY <2>1, <2>3 DEF Sent
  <2>5. Numbered'
    BY <2>1, <2>4 DEF SentInv, Numbered
  <2>6. SentOnce'
    BY <2>1, <2>2, <2>3 DEF SentInv, SentOnce
  <2> QED BY <2>5, <2>6 DEF SentInv
<1>2. ASSUME NEW s \in Events, DeviceFires(s) PROVE SentInv'
  <2> DEFINE e == [slot |-> s, n |-> fired + 1, try |-> 0]
  <2>1. /\ line' = Append(line, e) /\ fired' = fired + 1 /\ fired \in Nat
        /\ UNCHANGED <<requests, seen, call, apc, try>>
    BY <1>2 DEF DeviceFires, calls, past, Typed, TypeOK
  <2>2. e \in Packet
    <3>1. fired + 1 \in 1..MaxEvents
      BY <1>2, NumbersAssumption DEF Typed, TypeOK, DeviceFires
    <3> QED BY <3>1 DEF Packet, Event
  <2>3. e.slot \notin Requests /\ e.n = fired + 1
    BY SlotsAssumption
  <2> HIDE DEF e
  <2>4. e \notin Sent
    BY <2>1, <2>3 DEF SentInv, Numbered
  <2>5. Range(line') = Range(line) \cup {e} /\ IsInjective(line')
    BY <1>0, <2>1, <2>2, <2>4, AppendRange DEF Sent
  <2>6. Sent' = Sent \cup {e}
    BY <2>1, <2>5 DEF Sent
  <2>7. Numbered'
    <3>1. \A p \in Sent : p.n \in Nat
      BY DEF Sent, Typed, TypeOK, Packet, Answer, Event, Range
    <3> QED BY <2>1, <2>3, <2>6, <3>1 DEF SentInv, Numbered
  <2>8. SentOnce'
    BY <2>1, <2>4, <2>5 DEF SentInv, SentOnce, Sent
  <2> QED BY <2>7, <2>8 DEF SentInv
<1> QED BY <1>1, <1>2 DEF Devices

LEMMA ApplicationSent == Typed /\ SentInv /\ Application => SentInv'
<1> SUFFICES ASSUME Typed, SentInv, Application PROVE SentInv'
  OBVIOUS
<1>1. ASSUME NEW s \in Requests, StartCall(s) PROVE SentInv'
  <2>1. call \in Nat /\ call + 1 \in Nat /\ call + 1 > call
    BY NumbersAssumption DEF Typed, TypeOK
  <2>2. /\ requests' = requests \cup {Request(s, call', try')}
        /\ call' = call + 1 /\ try' = 1 /\ apc' # "idle"
        /\ UNCHANGED <<line, seen, fired>>
    BY <1>1 DEF StartCall, past
  <2>3. \E d \in Requests : requests' = requests \cup {Request(d, call', try')}
    BY <2>2
  <2>4. call' \in Nat /\ try' \in Nat /\ call' > call
    BY <2>1, <2>2
  <2> QED BY <2>2, <2>3, <2>4, SendSent
<1>2. CASE AppTimeout
  <2>1. CASE try < Tries
    <3>1. try \in Nat /\ try + 1 \in Nat /\ try + 1 > try /\ call \in Nat /\ aslot \in Requests
      BY <1>2, NumbersAssumption DEF Typed, TypeOK, Searches, AppTimeout
    <3>2. /\ requests' = requests \cup {Request(aslot, call', try')}
          /\ try' = try + 1 /\ apc # "idle" /\ apc' # "idle"
          /\ UNCHANGED <<line, seen, fired, call>>
      BY <1>2, <2>1, <3>1 DEF AppTimeout
    <3> QED BY <3>1, <3>2, SendSent
  <2>2. CASE ~(try < Tries)
    BY <1>2, <2>2, NothingSent DEF AppTimeout, CallEnds
  <2> QED BY <2>1, <2>2
<1>3. CASE AppSearch
  BY <1>3, NothingSent DEF AppSearch, wire, past
<1>4. CASE AppRemove
  BY <1>4, NothingSent DEF AppRemove, CallEnds, wire
<1>5. CASE AppSearchAgain
  BY <1>5, NothingSent DEF AppSearchAgain, wire, past
<1>6. ASSUME NEW s \in Events, RegisterEvent(s) PROVE SentInv'
  BY <1>6, NothingSent DEF RegisterEvent, wire, calls, past
<1>7. CASE Deinit
  BY <1>7, NothingSent DEF Deinit, wire, calls, past
<1> QED BY <1>1, <1>2, <1>3, <1>4, <1>5, <1>6, <1>7 DEF Application

LEMMA DecodeLine ==
  ASSUME Typed, SentInv, RecvDecode, chunk # 0
  PROVE  /\ line # <<>> /\ line \in Seq(Packet) /\ IsInjective(line)
         /\ Head(line) \in Packet /\ Head(line) \in Range(line)
         /\ line' = Tail(line) /\ Range(line') = Range(line) \ {Head(line)}
         /\ IsInjective(line')
         /\ packet_queue' = Append(packet_queue, Head(line))
         /\ seen' = Append(seen, Head(line))
         /\ Range(seen') = Range(seen) \cup {Head(line)}
         /\ UNCHANGED <<requests, fired, calls, answers, dispatched, cleared,
                        faults, rpc, rslot, ri, rfound>>
<1>1. line \in Seq(Packet) /\ line # <<>> /\ IsInjective(line)
  BY DEF Typed, TypeOK, SentInv, SentOnce
<1>2. line' = Tail(line) /\ packet_queue' = Append(packet_queue, Head(line))
      /\ seen' = Append(seen, Head(line)) /\ UNCHANGED rpc
  BY DEF RecvDecode
<1>3. UNCHANGED <<requests, fired, calls, answers, dispatched, cleared, faults,
                  rslot, ri, rfound>>
  BY DEF RecvDecode
<1>4. Head(line) \in Packet /\ seen \in Seq(Packet)
  BY <1>1 DEF Typed, TypeOK
<1>5. Range(seen') = Range(seen) \cup {Head(line)}
  BY <1>2, <1>4, AppendRange
<1> QED BY <1>1, <1>2, <1>3, <1>5, TailRange

LEMMA RecvThreadSent == Typed /\ SentInv /\ RecvThread => SentInv'
<1> SUFFICES ASSUME Typed, SentInv, RecvThread PROVE SentInv'
  OBVIOUS
<1>1. CASE RecvDecode
  <2>1. CASE chunk = 0
    BY <1>1, <2>1, NothingSent DEF RecvDecode, calls
  <2>2. CASE chunk # 0
    <3>1. /\ Range(line') = Range(line) \ {Head(line)} /\ Head(line) \in Range(line)
          /\ Range(seen') = Range(seen) \cup {Head(line)} /\ IsInjective(line')
          /\ UNCHANGED <<requests, fired, call, apc, try>>
      BY <1>1, <2>2, DecodeLine DEF calls
    <3>2. Sent' = Sent
      BY <3>1 DEF Sent
    <3>3. Numbered'
      BY <3>1, <3>2 DEF SentInv, Numbered
    <3>4. SentOnce'
      BY <3>1 DEF SentInv, SentOnce
    <3> QED BY <3>3, <3>4 DEF SentInv
  <2> QED BY <2>1, <2>2
<1>2. ASSUME ~RecvDecode PROVE UNCHANGED <<requests, line, seen, fired, call, apc, try>>
  BY <1>2 DEF RecvThread, RecvLoop, RecvNextEvent, RecvSearch, RecvRemove,
     RecvTurnEnds, RecvClearingDue, RecvClean, RecvCleanRemove, wire, calls, past
<1> QED BY <1>1, <1>2, NothingSent
-----------------------------------------------------------------------------
(* Where each packet is, and what the indices mean.                        *)

Once ==
  /\ Range(seen) = Range(packet_queue) \cup Range(answers) \cup Range(dispatched) \cup cleared
  /\ Range(packet_queue) \cap (Range(answers) \cup Range(dispatched) \cup cleared) = {}
  /\ Range(answers) \cap (Range(dispatched) \cup cleared) = {}
  /\ Range(dispatched) \cap cleared = {}
  /\ IsInjective(packet_queue) /\ IsInjective(answers) /\ IsInjective(dispatched)

Places == Once /\ AppIndex /\ RecvIndex

LEMMA FaultsStay == Next => (Calm' => Calm)
<1>1. Devices => faults \subseteq faults'
  BY DEF Devices, DeviceAnswers, DeviceFires, past
<1>2. Application => faults \subseteq faults'
  BY DEF Application, StartCall, AppSearch, AppRemove, AppSearchAgain, AppTimeout,
         RegisterEvent, Deinit, past
<1>3. RecvThread => faults \subseteq faults'
  BY DEF RecvThread, RecvLoop, RecvDecode, RecvNextEvent, RecvSearch, RecvRemove,
         RecvTurnEnds, RecvClearingDue, RecvClean, RecvCleanRemove, past
<1> QED BY <1>1, <1>2, <1>3 DEF Next, Calm

LEMMA InitPlaces == Init => Places
<1> SUFFICES ASSUME Init PROVE Places
  OBVIOUS
<1>1. /\ packet_queue = <<>> /\ answers = <<>> /\ dispatched = <<>>
      /\ seen = <<>> /\ cleared = {} /\ apc = "idle" /\ rpc = "loop"
  BY DEF Init
<1>2. Range(packet_queue) = {} /\ Range(seen) = {} /\ IsInjective(packet_queue)
  BY <1>1 DEF Range, IsInjective
<1>3. Once
  BY <1>1, <1>2 DEF Once
<1> QED BY <1>1, <1>3 DEF Places, AppIndex, RecvIndex

LEMMA QuietPlaces ==
  ASSUME UNCHANGED <<packet_queue, seen, answers, dispatched, cleared>>
  PROVE  /\ Once => Once'
         /\ UNCHANGED <<apc, aslot, ai, afound>> /\ AppIndex => AppIndex'
         /\ UNCHANGED <<rpc, rslot, ri, rfound>> /\ RecvIndex => RecvIndex'
  BY DEF Once, AppIndex, RecvIndex

LEMMA RemovedFrom ==
  ASSUME Typed, Once, NEW i \in 1..Len(packet_queue),
         packet_queue' = RemoveAt(packet_queue, i)
  PROVE  /\ Len(packet_queue') = Len(packet_queue) - 1
         /\ \A j \in 1..Len(packet_queue) - 1 :
              packet_queue'[j] = IF j < i THEN packet_queue[j] ELSE packet_queue[j + 1]
         /\ packet_queue[i] \in Range(packet_queue)
         /\ Range(packet_queue') = Range(packet_queue) \ {packet_queue[i]}
         /\ IsInjective(packet_queue')
<1>1. packet_queue \in Seq(Packet) /\ IsInjective(packet_queue)
  BY DEF Typed, TypeOK, Once
<1>2. packet_queue[i] \in Range(packet_queue)
  BY <1>1 DEF Range
<1> QED BY <1>1, <1>2, RemoveAtElements, RemoveAtRange

LEMMA AppUndisturbed ==
  ASSUME Typed, Once, AppIndex, NEW i \in 1..Len(packet_queue),
         packet_queue' = RemoveAt(packet_queue, i), ~AppDisturbed(i),
         UNCHANGED <<apc, aslot, ai, afound>>
  PROVE  AppIndex'
<1>1. /\ Len(packet_queue') = Len(packet_queue) - 1 /\ Len(packet_queue) \in Nat
      /\ \A j \in 1..Len(packet_queue) - 1 :
           packet_queue'[j] = IF j < i THEN packet_queue[j] ELSE packet_queue[j + 1]
      /\ ai \in Nat
  BY RemovedFrom DEF Typed, TypeOK
<1>2. CASE apc = "search"
  <2>1. i >= ai /\ ai <= Len(packet_queue') + 1
    BY <1>1, <1>2 DEF AppDisturbed
  <2>2. ASSUME NEW j \in 1..Len(packet_queue'), j < ai PROVE packet_queue'[j].slot # aslot
    <3>1. j \in 1..Len(packet_queue) - 1 /\ j \in 1..Len(packet_queue) /\ j < i
      BY <1>1, <2>1, <2>2
    <3> QED BY <1>1, <1>2, <2>2, <3>1 DEF AppIndex
  <2> QED BY <1>2, <2>1, <2>2 DEF AppIndex
<1>3. CASE apc = "remove"
  <2>1. i > ai /\ ai >= 1 /\ ai <= Len(packet_queue')
    BY <1>1, <1>3 DEF AppDisturbed, Typed, Searches
  <2>2. afound = packet_queue'[ai]
    <3>1. ai \in 1..Len(packet_queue) - 1 /\ ai < i
      BY <1>1, <2>1
    <3> QED BY <1>1, <1>3, <3>1 DEF AppIndex
  <2>3. ASSUME NEW j \in 1..Len(packet_queue'), j < ai PROVE packet_queue'[j].slot # aslot
    <3>1. j \in 1..Len(packet_queue) - 1 /\ j \in 1..Len(packet_queue) /\ j < i
      BY <1>1, <2>1, <2>3
    <3> QED BY <1>1, <1>3, <2>3, <3>1 DEF AppIndex
  <2> QED BY <1>3, <2>1, <2>2, <2>3 DEF AppIndex
<1> QED BY <1>2, <1>3 DEF AppIndex

LEMMA RecvUndisturbed ==
  ASSUME Typed, Once, RecvIndex, NEW i \in 1..Len(packet_queue),
         packet_queue' = RemoveAt(packet_queue, i), ~RecvDisturbed(i),
         UNCHANGED <<rpc, rslot, ri, rfound>>
  PROVE  RecvIndex'
<1>1. /\ Len(packet_queue') = Len(packet_queue) - 1 /\ Len(packet_queue) \in Nat
      /\ \A j \in 1..Len(packet_queue) - 1 :
           packet_queue'[j] = IF j < i THEN packet_queue[j] ELSE packet_queue[j + 1]
      /\ ri \in Nat
  BY RemovedFrom DEF Typed, TypeOK
<1>2. CASE rpc = "search"
  <2>1. i >= ri /\ ri <= Len(packet_queue') + 1
    BY <1>1, <1>2 DEF RecvDisturbed
  <2>2. ASSUME NEW j \in 1..Len(packet_queue'), j < ri PROVE packet_queue'[j].slot # rslot
    <3>1. j \in 1..Len(packet_queue) - 1 /\ j \in 1..Len(packet_queue) /\ j < i
      BY <1>1, <2>1, <2>2
    <3> QED BY <1>1, <1>2, <2>2, <3>1 DEF RecvIndex
  <2> QED BY <1>2, <2>1, <2>2 DEF RecvIndex
<1>3. CASE rpc = "remove"
  <2>1. i > ri /\ ri >= 1 /\ ri <= Len(packet_queue')
    BY <1>1, <1>3 DEF RecvDisturbed, Typed, Searches
  <2>2. rfound = packet_queue'[ri] /\ rfound.slot = rslot
    <3>1. ri \in 1..Len(packet_queue) - 1 /\ ri < i
      BY <1>1, <2>1
    <3> QED BY <1>1, <1>3, <3>1 DEF RecvIndex
  <2>3. ASSUME NEW j \in 1..Len(packet_queue'), j < ri PROVE packet_queue'[j].slot # rslot
    <3>1. j \in 1..Len(packet_queue) - 1 /\ j \in 1..Len(packet_queue) /\ j < i
      BY <1>1, <2>1, <2>3
    <3> QED BY <1>1, <1>3, <2>3, <3>1 DEF RecvIndex
  <2> QED BY <1>3, <2>1, <2>2, <2>3 DEF RecvIndex
<1>4. CASE rpc = "clean"
  <2>1. ri # Len(packet_queue) /\ ri <= Len(packet_queue)
    BY <1>4 DEF RecvDisturbed, RecvIndex
  <2> QED BY <1>1, <1>4, <2>1 DEF RecvIndex
<1>5. CASE rpc = "clean_remove"
  <2>1. i > ri
    BY <1>1, <1>5 DEF RecvDisturbed
  <2> QED BY <1>1, <1>5, <2>1 DEF RecvIndex
<1> QED BY <1>2, <1>3, <1>4, <1>5 DEF RecvIndex

LEMMA ApplicationPlaces ==
  Typed /\ Calm' /\ Calm /\ Places /\ Application => Places'
<1> SUFFICES ASSUME Typed, Calm', Calm, Places, Application PROVE Places'
  OBVIOUS
<1> USE DEF Places
<1>0. ai \in Nat /\ Len(packet_queue) \in Nat
  BY DEF Typed, TypeOK
<1>1. ASSUME NEW s \in Requests, StartCall(s) PROVE Places'
  <2>1. /\ UNCHANGED <<packet_queue, rpc, rslot, ri, rfound, seen, answers, dispatched, cleared>>
        /\ apc' = "search" /\ ai' = 1
    BY <1>1 DEF StartCall, recv, turn, past
  <2> QED BY <1>0, <2>1, QuietPlaces DEF AppIndex
<1>2. CASE AppSearch
  <2>1. /\ UNCHANGED <<packet_queue, rpc, rslot, ri, rfound, seen, answers, dispatched, cleared>>
        /\ UNCHANGED aslot /\ apc = "search"
    BY <1>2 DEF AppSearch, recv, turn, past
  <2>2. Once' /\ RecvIndex'
    BY <2>1, QuietPlaces
  <2>3. AppIndex'
    <3>1. CASE ai > Len(packet_queue)
      BY <1>0, <1>2, <2>1, <3>1 DEF AppSearch, AppIndex
    <3>2. CASE ai <= Len(packet_queue) /\ Matches(packet_queue[ai], aslot)
      <4>1. apc' = "remove" /\ afound' = packet_queue[ai] /\ UNCHANGED ai
        BY <1>0, <1>2, <3>2 DEF AppSearch
      <4> QED BY <2>1, <3>2, <4>1 DEF AppIndex
    <3>3. CASE ai <= Len(packet_queue) /\ ~Matches(packet_queue[ai], aslot)
      <4>1. ai' = ai + 1 /\ UNCHANGED apc /\ packet_queue[ai].slot # aslot
        BY <1>0, <1>2, <3>3 DEF AppSearch, Matches
      <4>2. ASSUME NEW j \in 1..Len(packet_queue), j < ai' PROVE packet_queue[j].slot # aslot
        <5>1. j < ai \/ j = ai
          BY <1>0, <4>1, <4>2
        <5> QED BY <2>1, <4>1, <4>2, <5>1 DEF AppIndex
      <4>3. ai' <= Len(packet_queue) + 1
        BY <1>0, <3>3, <4>1
      <4> QED BY <2>1, <4>1, <4>2, <4>3 DEF AppIndex
    <3> QED BY <1>0, <3>1, <3>2, <3>3
  <2> QED BY <2>2, <2>3
<1>3. CASE AppRemove
  <2>1. apc = "remove" /\ ai <= Len(packet_queue) /\ ai \in 1..Len(packet_queue)
    BY <1>0, <1>3 DEF AppRemove, AppIndex, Typed, Searches
  <2>2. /\ packet_queue' = RemoveAt(packet_queue, ai)
        /\ CallEnds("answered")
        /\ answers' = Append(answers, afound)
        /\ faults' = faults \cup Shifted(RecvDisturbed(ai))
    BY <1>0, <1>3, <2>1 DEF AppRemove
  <2>3. UNCHANGED <<wire, event, running, recv, seen, dispatched, cleared>>
    BY <1>3 DEF AppRemove
  <2>4. ~RecvDisturbed(ai)
    BY <2>2 DEF Calm, Shifted
  <2>5. RecvIndex'
    BY <2>1, <2>2, <2>3, <2>4, RecvUndisturbed DEF recv, turn
  <2>6. AppIndex'
    BY <2>2 DEF CallEnds, AppIndex
  <2>7. afound = packet_queue[ai]
    BY <2>1 DEF AppIndex
  <2>8. /\ Range(packet_queue') = Range(packet_queue) \ {afound}
        /\ afound \in Range(packet_queue) /\ IsInjective(packet_queue')
    BY <2>1, <2>2, <2>7, RemovedFrom
  <2>9. /\ Range(answers') = Range(answers) \cup {afound}
        /\ IsInjective(answers')
    <3>1. answers \in Seq(Packet) /\ afound \in Packet
      BY <2>1 DEF Typed, TypeOK, Searches
    <3>2. IsInjective(answers) /\ afound \notin Range(answers)
      BY <2>8 DEF Once
    <3> QED BY <2>2, <3>1, <3>2, AppendRange
  <2>10. Once'
    BY <2>3, <2>8, <2>9 DEF Once
  <2> QED BY <2>5, <2>6, <2>10
<1>4. CASE AppSearchAgain
  <2>1. /\ UNCHANGED <<packet_queue, rpc, rslot, ri, rfound, seen, answers, dispatched, cleared>>
        /\ apc' = "search" /\ ai' = 1
    BY <1>4 DEF AppSearchAgain, recv, turn, past
  <2> QED BY <1>0, <2>1, QuietPlaces DEF AppIndex
<1>5. CASE AppTimeout
  <2>1. /\ UNCHANGED <<packet_queue, rpc, rslot, ri, rfound, seen, answers, dispatched, cleared>>
        /\ (apc' = "search" /\ ai' = 1) \/ apc' = "idle"
    BY <1>5 DEF AppTimeout, CallEnds, recv, turn
  <2> QED BY <1>0, <2>1, QuietPlaces DEF AppIndex
<1>6. ASSUME NEW s \in Events, RegisterEvent(s) PROVE Places'
  BY <1>6, QuietPlaces DEF RegisterEvent, calls, past
<1>7. CASE Deinit
  BY <1>7, QuietPlaces DEF Deinit, recv, turn, calls, past
<1> QED BY <1>1, <1>2, <1>3, <1>4, <1>5, <1>6, <1>7 DEF Application

LEMMA RecvThreadPlaces ==
  Typed /\ SentInv /\ Calm' /\ Calm /\ Places /\ RecvThread => Places'
<1> SUFFICES ASSUME Typed, SentInv, Calm', Calm, Places, RecvThread PROVE Places'
  OBVIOUS
<1> USE DEF Places
<1>0. ri \in Nat /\ Len(packet_queue) \in Nat
  BY DEF Typed, TypeOK
<1>1. ASSUME UNCHANGED <<packet_queue, calls, past>>, RecvIndex' PROVE Places'
  BY <1>1, QuietPlaces DEF calls, past
<1>2. CASE RecvLoop
  <2>1. rpc' \in {"dead", "round", "decode"}
    BY <1>2 DEF RecvLoop, RecvEnds
  <2> QED BY <1>1, <1>2, <2>1 DEF RecvLoop, RecvIndex
<1>3. CASE RecvDecode
  <2>1. CASE chunk = 0
    <3>1. UNCHANGED <<packet_queue, calls, seen, answers, dispatched, cleared>> /\ rpc' = "round"
      BY <1>3, <2>1 DEF RecvDecode
    <3> QED BY <3>1, QuietPlaces DEF RecvIndex, calls
  <2>2. CASE chunk # 0
    <3> DEFINE e == Head(line)
    <3>1. /\ packet_queue' = Append(packet_queue, e) /\ e \in Packet /\ e \in Range(line)
          /\ Range(seen') = Range(seen) \cup {e} /\ rpc' = "decode"
          /\ UNCHANGED <<calls, answers, dispatched, cleared>>
      <4>1. rpc = "decode"
        BY <1>3 DEF RecvDecode
      <4> QED BY <1>3, <2>2, <4>1, DecodeLine
    <3> HIDE DEF e
    <3>2. e \notin Range(seen) /\ e \notin Range(packet_queue)
      BY <3>1 DEF SentInv, SentOnce, Once
    <3>3. packet_queue \in Seq(Packet) /\ IsInjective(packet_queue)
      BY DEF Typed, TypeOK, Once
    <3>4. /\ Range(packet_queue') = Range(packet_queue) \cup {e}
          /\ IsInjective(packet_queue')
          /\ Len(packet_queue') = Len(packet_queue) + 1
          /\ \A j \in 1..Len(packet_queue) : packet_queue'[j] = packet_queue[j]
      BY <3>1, <3>2, <3>3, AppendRange
    <3>5. Once'
      BY <3>1, <3>2, <3>4 DEF Once
    <3>6. AppIndex'
      <4>1. ai \in Nat /\ (apc = "remove" => ai >= 1) /\ UNCHANGED <<apc, aslot, ai, afound>>
        BY <3>1 DEF Typed, TypeOK, Searches, calls
      <4>2. apc \in {"search", "remove"} => ai <= Len(packet_queue) + 1
        BY <1>0, <4>1 DEF AppIndex
      <4>3. ASSUME NEW j \in 1..Len(packet_queue'), j < ai, apc \in {"search", "remove"}
            PROVE  packet_queue'[j].slot # aslot
        <5>1. j \in 1..Len(packet_queue)
          BY <1>0, <3>4, <4>1, <4>2, <4>3
        <5> QED BY <3>4, <4>3, <5>1 DEF AppIndex
      <4>4. apc = "remove" => ai <= Len(packet_queue') /\ afound = packet_queue'[ai]
        BY <1>0, <3>4, <4>1 DEF AppIndex
      <4>5. apc = "search" => ai <= Len(packet_queue') + 1
        BY <1>0, <3>4, <4>1 DEF AppIndex
      <4> QED BY <4>1, <4>3, <4>4, <4>5 DEF AppIndex
    <3>7. RecvIndex'
      BY <3>1 DEF RecvIndex
    <3> QED BY <3>5, <3>6, <3>7
  <2> QED BY <2>1, <2>2
<1>4. CASE RecvNextEvent
  <2>1. rpc' = "search" /\ ri' = 1 /\ UNCHANGED packet_queue
    BY <1>4 DEF RecvNextEvent
  <2> QED BY <1>0, <1>1, <1>4, <2>1 DEF RecvNextEvent, RecvIndex
<1>5. CASE RecvSearch
  <2>1. UNCHANGED <<packet_queue, calls, past>> /\ rpc = "search"
    BY <1>5 DEF RecvSearch
  <2>2. RecvIndex'
    <3>1. CASE ri > Len(packet_queue)
      BY <1>0, <1>5, <3>1 DEF RecvSearch, RecvIndex
    <3>2. CASE ri <= Len(packet_queue) /\ Matches(packet_queue[ri], rslot)
      <4>1. rpc' = "remove" /\ rfound' = packet_queue[ri] /\ UNCHANGED <<ri, rslot>>
        BY <1>0, <1>5, <3>2 DEF RecvSearch
      <4> QED BY <2>1, <3>2, <4>1 DEF RecvIndex, Matches
    <3>3. CASE ri <= Len(packet_queue) /\ ~Matches(packet_queue[ri], rslot)
      <4>1. /\ ri' = ri + 1 /\ rpc' = "search" /\ UNCHANGED rslot
            /\ packet_queue[ri].slot # rslot
        BY <1>0, <1>5, <2>1, <3>3 DEF RecvSearch, Matches
      <4>2. ASSUME NEW j \in 1..Len(packet_queue), j < ri' PROVE packet_queue[j].slot # rslot
        <5>1. j < ri \/ j = ri
          BY <1>0, <4>1, <4>2
        <5> QED BY <2>1, <4>1, <4>2, <5>1 DEF RecvIndex
      <4>3. ri' <= Len(packet_queue) + 1
        BY <1>0, <3>3, <4>1
      <4> QED BY <2>1, <4>1, <4>2, <4>3 DEF RecvIndex
    <3> QED BY <1>0, <3>1, <3>2, <3>3
  <2> QED BY <1>1, <2>1, <2>2
<1>6. CASE RecvRemove
  <2>1. rpc = "remove" /\ ri <= Len(packet_queue) /\ ri \in 1..Len(packet_queue)
    BY <1>0, <1>6 DEF RecvRemove, RecvIndex, Typed, Searches
  <2>2. /\ packet_queue' = RemoveAt(packet_queue, ri)
        /\ dispatched' = Append(dispatched, rfound)
        /\ rpc' \in {"round", "dead"}
        /\ Shifted(AppDisturbed(ri)) \subseteq faults'
    BY <1>0, <1>6, <2>1 DEF RecvRemove, RecvEnds
  <2>3. UNCHANGED <<wire, event, running, calls, seen, answers, cleared>>
    BY <1>6 DEF RecvRemove
  <2>4. ~AppDisturbed(ri)
    BY <2>2 DEF Calm, Shifted
  <2>5. AppIndex'
    BY <2>1, <2>2, <2>3, <2>4, AppUndisturbed DEF calls
  <2>6. RecvIndex'
    BY <2>2 DEF RecvIndex
  <2>7. rfound = packet_queue[ri]
    BY <2>1 DEF RecvIndex
  <2>8. /\ Range(packet_queue') = Range(packet_queue) \ {rfound}
        /\ rfound \in Range(packet_queue) /\ IsInjective(packet_queue')
    BY <2>1, <2>2, <2>7, RemovedFrom
  <2>9. /\ Range(dispatched') = Range(dispatched) \cup {rfound}
        /\ IsInjective(dispatched')
    <3>1. dispatched \in Seq(Packet) /\ rfound \in Packet
      BY <2>1 DEF Typed, TypeOK, Searches
    <3>2. IsInjective(dispatched) /\ rfound \notin Range(dispatched)
      BY <2>8 DEF Once
    <3> QED BY <2>2, <3>1, <3>2, AppendRange
  <2>10. Once'
    BY <2>3, <2>8, <2>9 DEF Once
  <2> QED BY <2>5, <2>6, <2>10
<1>7. CASE RecvTurnEnds
  <2>1. rpc' = "loop"
    BY <1>7 DEF RecvTurnEnds
  <2> QED BY <1>1, <1>7, <2>1 DEF RecvTurnEnds, RecvIndex
<1>8. ASSUME NEW few \in 0..Len(packet_queue), RecvClearingDue(few) PROVE Places'
  <2>1. rpc' = "clean" /\ ri' = Len(packet_queue) /\ UNCHANGED <<packet_queue, calls, past>>
    BY <1>8 DEF RecvClearingDue
  <2> QED BY <1>0, <1>1, <2>1 DEF RecvIndex
<1>9. CASE RecvClean
  <2>1. rpc = "clean" /\ UNCHANGED <<packet_queue, calls, past>>
    BY <1>9 DEF RecvClean
  <2>2. ri <= Len(packet_queue)
    BY <2>1 DEF RecvIndex
  <2>3. rpc' = "loop" \/ (rpc' \in {"clean", "clean_remove"} /\ ri' <= Len(packet_queue))
    BY <1>0, <1>9, <2>2 DEF RecvClean, turn
  <2> QED BY <1>1, <2>1, <2>3 DEF RecvIndex
<1>10. CASE RecvCleanRemove
  <2> DEFINE e == packet_queue[ri]
  <2>1. rpc = "clean_remove" /\ ri <= Len(packet_queue) /\ ri \in 1..Len(packet_queue)
    BY <1>0, <1>10 DEF RecvCleanRemove, RecvIndex, Typed, Searches
  <2>2. /\ packet_queue' = RemoveAt(packet_queue, ri)
        /\ cleared' = cleared \cup {e}
        /\ rpc' = "clean" /\ ri' = ri - 1
        /\ Shifted(AppDisturbed(ri)) \subseteq faults'
    BY <1>0, <1>10, <2>1 DEF RecvCleanRemove
  <2>3. UNCHANGED <<wire, event, running, calls, seen, answers, dispatched>>
    BY <1>10 DEF RecvCleanRemove
  <2>4. ~AppDisturbed(ri)
    BY <2>2 DEF Calm, Shifted
  <2>5. AppIndex'
    BY <2>1, <2>2, <2>3, <2>4, AppUndisturbed DEF calls
  <2>6. /\ Range(packet_queue') = Range(packet_queue) \ {e}
        /\ e \in Range(packet_queue) /\ IsInjective(packet_queue')
        /\ Len(packet_queue') = Len(packet_queue) - 1
    BY <2>1, <2>2, RemovedFrom
  <2>7. RecvIndex'
    BY <1>0, <2>1, <2>2, <2>6 DEF RecvIndex
  <2> HIDE DEF e
  <2>8. Once'
    BY <2>2, <2>3, <2>6 DEF Once
  <2> QED BY <2>5, <2>7, <2>8
<1> QED
  BY <1>2, <1>3, <1>4, <1>5, <1>6, <1>7, <1>8, <1>9, <1>10 DEF RecvThread

BusPlaces == Typed /\ SentInv /\ (Calm => Places)

LEMMA PlacesStay == BusPlaces /\ [Next]_vars => BusPlaces'
<1> SUFFICES ASSUME BusPlaces, [Next]_vars PROVE BusPlaces'
  OBVIOUS
<1> USE DEF BusPlaces
<1>1. Typed'
  BY DevicesTyped, ApplicationTyped, RecvThreadTyped, StutterTyped DEF Next
<1>2. CASE UNCHANGED vars
  <2>1. SentInv'
    BY <1>2 DEF SentInv, Numbered, SentOnce, Sent, vars, wire, calls, past
  <2>2. UNCHANGED <<packet_queue, apc, aslot, ai, afound, rpc, rslot, ri, rfound,
                    seen, answers, dispatched, cleared, faults>>
    BY <1>2 DEF vars, recv, turn, calls, past
  <2> QED BY <1>1, <2>1, <2>2, QuietPlaces DEF Places, Calm
<1>3. CASE Next
  <2>1. SentInv'
    BY <1>3, DevicesSent, ApplicationSent, RecvThreadSent DEF Next
  <2>2. Calm' => Places'
    <3> SUFFICES ASSUME Calm' PROVE Places'
      OBVIOUS
    <3>1. Calm /\ Places
      BY <1>3, FaultsStay
    <3>2. CASE Devices
      <4>1. UNCHANGED <<packet_queue, recv, calls, past>>
        BY <3>2 DEF Devices, DeviceAnswers, DeviceFires
      <4> QED BY <3>1, <4>1, QuietPlaces DEF Places, recv, turn, calls, past
    <3> QED
      BY <1>3, <3>1, <3>2, ApplicationPlaces, RecvThreadPlaces DEF Next
  <2> QED BY <1>1, <2>1, <2>2
<1> QED BY <1>2, <1>3

(* A decoded packet is in one place, once, unless the list was shifted.    *)
THEOREM PacketsOnce == Spec => []EachPacketOnce
<1>1. Init => BusPlaces
  BY InitTyped, InitSent, InitPlaces DEF BusPlaces
<1>2. BusPlaces => EachPacketOnce
  BY DEF BusPlaces, Places, Once, Calm, EachPacketOnce
<1> QED BY <1>1, <1>2, PlacesStay, PTL DEF Spec
-----------------------------------------------------------------------------
(* Nothing runs past the end of the list.                                  *)

LEMMA NoIndexErrorStays == BusPlaces /\ NoIndexError /\ [Next]_vars => NoIndexError'
<1> SUFFICES ASSUME BusPlaces, NoIndexError, [Next]_vars, Calm'
             PROVE  /\ status' # "raised"
                    /\ rpc' = "dead" => "sched_full" \in faults' \/ ~running'
  BY DEF NoIndexError, Calm
<1>0. ri \in Nat /\ ai \in Nat /\ Len(packet_queue) \in Nat
  BY DEF BusPlaces, Typed, TypeOK
<1>1. ASSUME Calm PROVE /\ status # "raised" /\ Places
                        /\ rpc = "dead" => "sched_full" \in faults \/ ~running
  BY <1>1 DEF BusPlaces, NoIndexError, Calm
<1>2. CASE UNCHANGED vars
  <2>1. UNCHANGED <<status, rpc, faults, running>>
    BY <1>2 DEF vars, recv, calls, past
  <2> QED BY <1>1, <2>1 DEF Calm
<1>3. CASE Next
  <2>0. Calm
    BY <1>3, FaultsStay
  <2>1. CASE Devices
    <3>1. UNCHANGED <<status, rpc, faults, running>>
      BY <2>1 DEF Devices, DeviceAnswers, DeviceFires, recv, calls, past
    <3> QED BY <1>1, <2>0, <3>1
  <2>2. CASE Application
    <3>1. rpc' = rpc /\ faults \subseteq faults' /\ (running' = running \/ ~running')
      BY <2>2 DEF Application, StartCall, AppSearch, AppRemove, AppSearchAgain,
         AppTimeout, RegisterEvent, Deinit, recv, past
    <3>2. status' # "raised"
      <4>1. CASE AppRemove
        <5>1. ai <= Len(packet_queue)
          BY <1>1, <2>0, <4>1 DEF AppRemove, Places, AppIndex
        <5> QED BY <1>0, <4>1, <5>1 DEF AppRemove, CallEnds
      <4>2. CASE ~AppRemove
        <5>1. status' \in {status, "none", "failed"}
          BY <2>2, <4>2 DEF Application, StartCall, AppSearch, AppSearchAgain,
             AppTimeout, CallEnds, RegisterEvent, Deinit, calls
        <5> QED BY <1>1, <2>0, <5>1
      <4> QED BY <4>1, <4>2
    <3> QED BY <1>1, <2>0, <3>1, <3>2
  <2>3. CASE RecvThread
    <3>1. UNCHANGED <<status, running>> /\ faults \subseteq faults'
      BY <2>3 DEF RecvThread, RecvLoop, RecvDecode, RecvNextEvent, RecvSearch, RecvRemove,
         RecvTurnEnds, RecvClearingDue, RecvClean, RecvCleanRemove, calls, past
    <3>2. ASSUME rpc' = "dead" PROVE "sched_full" \in faults' \/ ~running'
      <4>1. CASE RecvRemove
        <5>1. ri <= Len(packet_queue)
          BY <1>1, <2>0, <4>1 DEF RecvRemove, Places, RecvIndex
        <5>2. rpc' = "round" \/ "sched_full" \in faults'
          BY <1>0, <4>1, <5>1 DEF RecvRemove
        <5> QED BY <3>2, <5>2
      <4>2. CASE RecvClean
        <5>1. ri <= Len(packet_queue) /\ rpc = "clean"
          BY <1>1, <2>0, <4>2 DEF RecvClean, Places, RecvIndex
        <5> QED BY <1>0, <3>2, <4>2, <5>1 DEF RecvClean
      <4>3. CASE RecvCleanRemove
        <5>1. ri <= Len(packet_queue)
          BY <1>1, <2>0, <4>3 DEF RecvCleanRemove, Places, RecvIndex
        <5> QED BY <1>0, <3>2, <4>3, <5>1 DEF RecvCleanRemove
      <4>4. CASE RecvLoop
        BY <3>2, <4>4 DEF RecvLoop
      <4>5. CASE RecvDecode
        BY <3>2, <4>5 DEF RecvDecode
      <4>6. CASE RecvSearch
        BY <3>2, <4>6 DEF RecvSearch
      <4> QED
        BY <2>3, <3>2, <4>1, <4>2, <4>3, <4>4, <4>5, <4>6
        DEF RecvThread, RecvNextEvent, RecvTurnEnds, RecvClearingDue
    <3> QED BY <1>1, <2>0, <3>1, <3>2
  <2> QED BY <1>3, <2>1, <2>2, <2>3 DEF Next
<1> QED BY <1>2, <1>3

(* No IndexError ends the thread or a call, unless the list was shifted.   *)
THEOREM NoIndexErrors == Spec => []NoIndexError
<1>1. Init => BusPlaces /\ NoIndexError
  BY InitTyped, InitSent, InitPlaces DEF BusPlaces, NoIndexError, Init
<1>2. (BusPlaces /\ NoIndexError) /\ [Next]_vars => (BusPlaces /\ NoIndexError)'
  BY PlacesStay, NoIndexErrorStays
<1> QED BY <1>1, <1>2, PTL DEF Spec
-----------------------------------------------------------------------------
(* A call gets its own answer.                                             *)

Timely == Calm /\ "timeout" \notin faults

AnswerInv == Found /\ AnswerOfTheCall /\ (Timely => OnlyOfTheCall)

LEMMA SameAnswer ==
  ASSUME AnswerInv, faults \subseteq faults', UNCHANGED calls,
         Timely' => UnderWay' \subseteq {p \in UnderWay' : p.slot \notin Requests} \cup UnderWay
  PROVE  AnswerInv'
<1>1. UNCHANGED <<apc, call, aslot, afound, status>>
  BY DEF calls
<1>2. Timely' => Timely
  BY DEF Timely, Calm
<1>3. Found'
  BY <1>1 DEF AnswerInv, Found
<1>4. AnswerOfTheCall'
  BY <1>1 DEF AnswerInv, AnswerOfTheCall
<1>5. Timely' => OnlyOfTheCall'
  BY <1>1, <1>2 DEF AnswerInv, OnlyOfTheCall, Request
<1> QED BY <1>3, <1>4, <1>5 DEF AnswerInv

LEMMA DevicesAnswer == BusPlaces /\ AnswerInv /\ Devices => AnswerInv'
<1> SUFFICES ASSUME BusPlaces, AnswerInv, Devices PROVE AnswerInv'
  OBVIOUS
<1>0. line \in Seq(Packet) /\ requests \subseteq Packet
  BY DEF BusPlaces, Typed, TypeOK, Packet
<1>1. ASSUME NEW r \in requests, DeviceAnswers(r) PROVE AnswerInv'
  <2>1. line' = Append(line, r) /\ requests' \subseteq requests
        /\ UNCHANGED <<packet_queue, calls, past>>
    BY <1>1 DEF DeviceAnswers
  <2>2. Range(line') = Range(line) \cup {r}
    BY <1>0, <2>1, AppendRange
  <2>3. UnderWay' \subseteq UnderWay
    BY <2>1, <2>2 DEF UnderWay
  <2> QED BY <2>1, <2>3, SameAnswer DEF past
<1>2. ASSUME NEW s \in Events, DeviceFires(s) PROVE AnswerInv'
  <2> DEFINE e == [slot |-> s, n |-> fired + 1, try |-> 0]
  <2>1. line' = Append(line, e) /\ UNCHANGED <<requests, packet_queue, calls, past>>
    BY <1>2 DEF DeviceFires
  <2>2. e \in Packet
    <3>1. fired + 1 \in 1..MaxEvents
      BY <1>2, NumbersAssumption DEF BusPlaces, Typed, TypeOK, DeviceFires
    <3> QED BY <3>1 DEF Packet, Event
  <2>3. e.slot \notin Requests
    BY SlotsAssumption
  <2> HIDE DEF e
  <2>4. Range(line') = Range(line) \cup {e}
    BY <1>0, <2>1, <2>2, AppendRange
  <2>5. UnderWay' = UnderWay \cup {e}
    BY <2>1, <2>4 DEF UnderWay
  <2> QED BY <2>1, <2>3, <2>5, SameAnswer DEF past
<1> QED BY <1>1, <1>2 DEF Devices

LEMMA RecvThreadAnswer == BusPlaces /\ AnswerInv /\ RecvThread => AnswerInv'
<1> SUFFICES ASSUME BusPlaces, AnswerInv, RecvThread PROVE AnswerInv'
  OBVIOUS
<1>1. UNCHANGED calls /\ faults \subseteq faults'
  BY DEF RecvThread, RecvLoop, RecvDecode, RecvNextEvent, RecvSearch, RecvRemove,
         RecvTurnEnds, RecvClearingDue, RecvClean, RecvCleanRemove, past
<1>2. Timely' => Calm /\ Places
  <2>1. Next
    BY DEF Next
  <2> QED BY <2>1, FaultsStay DEF Timely, BusPlaces
<1>3. ASSUME Timely' PROVE UnderWay' \subseteq UnderWay
  <2>0. Once /\ RecvIndex /\ ri \in Nat /\ Len(packet_queue) \in Nat /\ Typed /\ SentInv
    BY <1>2, <1>3 DEF Places, BusPlaces, Typed, TypeOK
  <2>1. CASE RecvDecode
    <3>1. CASE chunk = 0
      BY <2>1, <3>1 DEF RecvDecode, UnderWay
    <3>2. CASE chunk # 0
      <4>1. /\ Range(line') = Range(line) \ {Head(line)} /\ Head(line) \in Range(line)
            /\ packet_queue' = Append(packet_queue, Head(line)) /\ Head(line) \in Packet
            /\ UNCHANGED requests
        BY <2>0, <2>1, <3>2, DecodeLine
      <4>2. Range(packet_queue') = Range(packet_queue) \cup {Head(line)}
        BY <2>0, <4>1, AppendRange DEF Typed, TypeOK
      <4> QED BY <4>1, <4>2 DEF UnderWay
    <3> QED BY <3>1, <3>2
  <2>2. ASSUME ri <= Len(packet_queue), ri >= 1, packet_queue' = RemoveAt(packet_queue, ri)
        PROVE  Range(packet_queue') \subseteq Range(packet_queue)
    <3>1. ri \in 1..Len(packet_queue)
      BY <2>0, <2>2
    <3> QED BY <2>0, <2>2, <3>1, RemovedFrom
  <2>3. CASE RecvRemove
    <3>1. ri <= Len(packet_queue) /\ ri >= 1
      BY <2>0, <2>3 DEF RecvRemove, RecvIndex, Typed, Searches
    <3>2. packet_queue' = RemoveAt(packet_queue, ri) /\ UNCHANGED wire
      BY <2>0, <2>3, <3>1 DEF RecvRemove
    <3> QED BY <2>2, <3>1, <3>2 DEF UnderWay, wire
  <2>4. CASE RecvCleanRemove
    <3>1. ri <= Len(packet_queue) /\ ri >= 1
      BY <2>0, <2>4 DEF RecvCleanRemove, RecvIndex, Typed, Searches
    <3>2. packet_queue' = RemoveAt(packet_queue, ri) /\ UNCHANGED wire
      BY <2>0, <2>4, <3>1 DEF RecvCleanRemove
    <3> QED BY <2>2, <3>1, <3>2 DEF UnderWay, wire
  <2>5. CASE ~RecvDecode /\ ~RecvRemove /\ ~RecvCleanRemove
    <3>1. UNCHANGED <<wire, packet_queue>>
      BY <2>5 DEF RecvThread, RecvLoop, RecvNextEvent, RecvSearch,
                  RecvTurnEnds, RecvClearingDue, RecvClean
    <3> QED BY <3>1 DEF UnderWay, wire
  <2> QED BY <2>1, <2>3, <2>4, <2>5
<1> QED BY <1>1, <1>3, SameAnswer

LEMMA ApplicationAnswer == BusPlaces /\ AnswerInv /\ Application => AnswerInv'
<1> SUFFICES ASSUME BusPlaces, AnswerInv, Application PROVE AnswerInv'
  OBVIOUS
<1>0. /\ Timely' => Timely /\ Places
      /\ ai \in Nat /\ Len(packet_queue) \in Nat /\ call \in Nat /\ Typed /\ SentInv
  <2>1. Next /\ faults \subseteq faults'
    BY DEF Next, Application, StartCall, AppSearch, AppRemove, AppSearchAgain, AppTimeout,
           RegisterEvent, Deinit, past
  <2> QED BY <2>1, NumbersAssumption DEF Timely, Calm, BusPlaces, Typed, TypeOK
<1>1. ASSUME NEW s \in Requests, StartCall(s) PROVE AnswerInv'
  <2>1. /\ apc = "idle" /\ apc' = "search" /\ status' = "none"
        /\ call' = call + 1 /\ aslot' = s
        /\ requests' = requests \cup {Request(s, call', 1)}
        /\ UNCHANGED <<line, packet_queue, faults>>
    BY <1>1 DEF StartCall, past
  <2>2. Found' /\ AnswerOfTheCall'
    BY <2>1 DEF Found, AnswerOfTheCall
  <2>3. ASSUME Timely' PROVE OnlyOfTheCall'
    <3>1. \A p \in UnderWay : p.slot \notin Requests
      BY <1>0, <2>1, <2>3 DEF AnswerInv, OnlyOfTheCall
    <3>2. UnderWay' = UnderWay \cup {Request(aslot', call', 1)}
      BY <2>1 DEF UnderWay
    <3> QED BY <2>1, <3>1, <3>2 DEF OnlyOfTheCall, Request
  <2> QED BY <2>2, <2>3 DEF AnswerInv
<1>2. CASE AppSearch
  <2>1. UNCHANGED <<requests, line, packet_queue, faults, call, aslot, status>> /\ apc = "search"
    BY <1>2 DEF AppSearch, wire, past
  <2>2. Found'
    BY <1>2 DEF AppSearch, Found, Matches
  <2>3. status = "none" /\ apc' # "idle"
    BY <1>0, <1>2 DEF AppSearch, Typed, Searches
  <2>4. AnswerOfTheCall'
    BY <2>1, <2>3 DEF AnswerOfTheCall
  <2>5. Timely' => OnlyOfTheCall'
    BY <1>0, <2>1, <2>3 DEF AnswerInv, OnlyOfTheCall, UnderWay, Request
  <2> QED BY <2>2, <2>4, <2>5 DEF AnswerInv
<1>3. CASE AppRemove
  <2>1. UNCHANGED <<requests, line, call, aslot, seen>> /\ apc' = "idle" /\ apc = "remove"
    BY <1>3 DEF AppRemove, CallEnds, wire
  <2>2. Found'
    BY <2>1 DEF Found
  <2>3. CASE ai > Len(packet_queue)
    <3>1. status' = "raised" /\ UNCHANGED faults
      BY <1>0, <1>3, <2>3 DEF AppRemove, CallEnds
    <3>2. ~Timely'
      BY <1>0, <2>1, <2>3 DEF Places, AppIndex
    <3> QED BY <2>2, <3>1, <3>2 DEF AnswerInv, AnswerOfTheCall
  <2>4. CASE ~(ai > Len(packet_queue))
    <3>1. ai \in 1..Len(packet_queue)
      BY <1>0, <2>1, <2>4 DEF Typed, Searches
    <3>2. /\ packet_queue' = RemoveAt(packet_queue, ai) /\ faults \subseteq faults'
          /\ status' = "answered" /\ UNCHANGED afound
      BY <1>0, <1>3, <2>4 DEF AppRemove, CallEnds
    <3>3. afound.slot = aslot /\ aslot \in Requests
      BY <1>0, <2>1 DEF AnswerInv, Found, Typed, Searches
    <3>4. ASSUME Timely' PROVE afound.n = call /\ OnlyOfTheCall'
      <4>1. afound = packet_queue[ai] /\ Once /\ OnlyOfTheCall
        BY <1>0, <2>1, <3>4 DEF Places, AppIndex, AnswerInv
      <4>2. /\ afound \in Range(packet_queue)
            /\ Range(packet_queue') = Range(packet_queue) \ {afound}
        BY <1>0, <3>1, <3>2, <4>1, RemovedFrom
      <4>3. afound = Request(aslot, call, 1)
        BY <3>3, <4>1, <4>2 DEF OnlyOfTheCall, UnderWay
      <4>4. afound \in Range(seen) /\ afound \notin requests \cup Range(line)
        BY <1>0, <4>1, <4>2 DEF Once, SentInv, SentOnce
      <4>5. \A p \in UnderWay' : p.slot \notin Requests
        BY <2>1, <4>1, <4>2, <4>3, <4>4 DEF OnlyOfTheCall, UnderWay
      <4>6. OnlyOfTheCall'
        BY <4>5 DEF OnlyOfTheCall
      <4> QED BY <4>3, <4>6 DEF Request
    <3>5. AnswerOfTheCall'
      <4>1. faults' \cap {"timeout", "shifted"} = {} => Timely'
        BY DEF Timely, Calm
      <4> QED BY <2>1, <3>2, <3>3, <3>4, <4>1 DEF AnswerOfTheCall
    <3> QED BY <2>2, <3>4, <3>5 DEF AnswerInv
  <2> QED BY <2>3, <2>4
<1>4. CASE AppSearchAgain
  <2>1. UNCHANGED <<requests, line, packet_queue, faults, call, aslot, status>>
        /\ apc = "none" /\ apc' = "search"
    BY <1>4 DEF AppSearchAgain, wire, past
  <2>2. status = "none"
    BY <1>0, <2>1 DEF Typed, Searches
  <2>3. Found' /\ AnswerOfTheCall'
    BY <2>1, <2>2 DEF Found, AnswerOfTheCall
  <2>4. Timely' => OnlyOfTheCall'
    BY <1>0, <2>1 DEF AnswerInv, OnlyOfTheCall, UnderWay, Request
  <2> QED BY <2>3, <2>4 DEF AnswerInv
<1>5. CASE AppTimeout
  <2>1. "timeout" \in faults' /\ apc' # "remove" /\ status' \in {"failed", status} /\ apc = "none"
    BY <1>5 DEF AppTimeout, CallEnds
  <2>2. status' # "answered"
    BY <1>0, <2>1 DEF Typed, Searches
  <2> QED BY <2>1, <2>2 DEF AnswerInv, Found, AnswerOfTheCall, Timely
<1>6. ASSUME UNCHANGED <<wire, packet_queue, calls, past>> PROVE AnswerInv'
  <2>1. UnderWay' = UnderWay /\ UNCHANGED <<calls, faults>>
    BY <1>6 DEF UnderWay, wire, past
  <2> QED BY <2>1, SameAnswer
<1>7. ASSUME NEW s \in Events, RegisterEvent(s) PROVE AnswerInv'
  BY <1>6, <1>7 DEF RegisterEvent
<1>8. CASE Deinit
  BY <1>6, <1>8 DEF Deinit
<1> QED BY <1>1, <1>2, <1>3, <1>4, <1>5, <1>7, <1>8 DEF Application

(* send returns the answer to its own request, unless a try has timed out  *)
(* or the list was shifted.                                                *)
THEOREM OwnAnswer == Spec => []AnswerOfTheCall
<1>1. Init => BusPlaces /\ AnswerInv
  <2> SUFFICES ASSUME Init PROVE BusPlaces /\ AnswerInv
    OBVIOUS
  <2>1. requests = {} /\ line = <<>> /\ packet_queue = <<>> /\ apc = "idle" /\ status = "none"
    BY DEF Init
  <2>2. UnderWay = {}
    BY <2>1 DEF UnderWay, Range
  <2> QED BY <2>1, <2>2, InitTyped, InitSent, InitPlaces
          DEF BusPlaces, AnswerInv, Found, AnswerOfTheCall, OnlyOfTheCall
<1>2. (BusPlaces /\ AnswerInv) /\ [Next]_vars => (BusPlaces /\ AnswerInv)'
  <2>1. ASSUME AnswerInv, UNCHANGED vars PROVE AnswerInv'
    <3>1. UnderWay' = UnderWay /\ UNCHANGED <<calls, faults>>
      BY <2>1 DEF UnderWay, vars, wire, past
    <3> QED BY <2>1, <3>1, SameAnswer
  <2> QED BY <2>1, PlacesStay, DevicesAnswer, ApplicationAnswer, RecvThreadAnswer DEF Next
<1>3. AnswerInv => AnswerOfTheCall
  BY DEF AnswerInv
<1> QED BY <1>1, <1>2, <1>3, PTL DEF Spec
-----------------------------------------------------------------------------
(* The events of a device keep their order.                                *)

LEMMA SameOrder ==
  ASSUME UNCHANGED <<dispatched, packet_queue, line>>, InOrder PROVE InOrder'
  BY DEF InOrder, Ordered, Ahead

LEMMA AppendOrdered ==
  ASSUME NEW s \in Seq(Packet), NEW e \in Packet, Ordered(s), Ahead(Range(s), {e})
  PROVE  Ordered(Append(s, e))
<1>1. /\ Len(Append(s, e)) = Len(s) + 1 /\ Append(s, e) \in Seq(Packet)
      /\ \A j \in 1..Len(s) : Append(s, e)[j] = s[j]
      /\ Append(s, e)[Len(s) + 1] = e /\ Len(s) \in Nat
  BY AppendRange
<1> DEFINE t == Append(s, e)
<1> SUFFICES ASSUME NEW i \in 1..Len(s) + 1, NEW j \in 1..Len(s) + 1, i < j,
                    t[i].slot \in Events, t[i].slot = t[j].slot
             PROVE  t[i].n < t[j].n
  BY <1>1 DEF Ordered
<1>2. i \in 1..Len(s) /\ i \in DOMAIN s /\ t[i] = s[i] /\ s[i] \in Range(s)
  <2>1. i \in 1..Len(s)
    BY <1>1
  <2>2. i \in DOMAIN s
    BY <2>1
  <2> QED BY <1>1, <2>1, <2>2 DEF Range
<1>3. CASE j \in 1..Len(s)
  <2>1. j \in DOMAIN s /\ t[j] = s[j]
    BY <1>1, <1>3
  <2> HIDE DEF t
  <2> QED BY <1>2, <2>1 DEF Ordered
<1>4. CASE j = Len(s) + 1
  <2>1. t[j] = e
    BY <1>1, <1>4
  <2> HIDE DEF t
  <2> QED BY <1>2, <2>1 DEF Ahead
<1> QED BY <1>1, <1>3, <1>4

LEMMA RemovedOrdered ==
  ASSUME NEW s \in Seq(Packet), NEW i \in 1..Len(s), Ordered(s)
  PROVE  Ordered(RemoveAt(s, i))
<1> DEFINE t == RemoveAt(s, i)
<1>1. /\ t \in Seq(Packet) /\ Len(t) = Len(s) - 1 /\ Len(s) \in Nat
      /\ \A j \in 1..Len(s) - 1 : t[j] = IF j < i THEN s[j] ELSE s[j + 1]
  BY RemoveAtElements
<1> HIDE DEF t
<1> DEFINE from(j) == IF j < i THEN j ELSE j + 1
<1>2. ASSUME NEW j \in 1..Len(s) - 1 PROVE from(j) \in 1..Len(s) /\ t[j] = s[from(j)]
  BY <1>1
<1>3. ASSUME NEW j \in 1..Len(s) - 1, NEW k \in 1..Len(s) - 1, j < k PROVE from(j) < from(k)
  BY <1>1, <1>3
<1>4. DOMAIN t = 1..Len(s) - 1 /\ DOMAIN s = 1..Len(s)
  BY <1>1
<1> HIDE DEF from
<1>5. Ordered(t)
  BY <1>2, <1>3, <1>4 DEF Ordered
<1> QED BY <1>5 DEF t

LEMMA DevicesOrder == BusPlaces /\ Calm /\ InOrder /\ Devices => InOrder'
<1> SUFFICES ASSUME BusPlaces, Calm, InOrder, Devices PROVE InOrder'
  OBVIOUS
<1>0. /\ line \in Seq(Packet) /\ requests \subseteq Answer
      /\ Once /\ SentInv /\ Ordered(line)
  BY DEF BusPlaces, Typed, TypeOK, Places, InOrder
<1>1. ASSUME NEW e \in Packet, line' = Append(line, e),
             UNCHANGED <<dispatched, packet_queue>>,
             e.slot \in Events => \A p \in Sent : p.slot = e.slot => p.n < e.n
      PROVE  InOrder'
  <2>1. Range(line') = Range(line) \cup {e}
    BY <1>0, <1>1, AppendRange
  <2>2. /\ Ahead(Range(line), {e}) /\ Ahead(Range(dispatched), {e})
        /\ Ahead(Range(packet_queue), {e})
    BY <1>0, <1>1 DEF Ahead, Sent, Once
  <2>3. Ordered(line')
    BY <1>0, <1>1, <2>2, AppendOrdered
  <2>4. /\ Ahead(Range(dispatched), Range(line')) /\ Ahead(Range(packet_queue), Range(line'))
    BY <2>1, <2>2 DEF Ahead, InOrder
  <2> QED BY <1>1, <2>3, <2>4 DEF InOrder, Ordered, Ahead
<1>2. ASSUME NEW r \in requests, DeviceAnswers(r) PROVE InOrder'
  <2>1. r \in Packet /\ r.slot \notin Events
    BY <1>0, SlotsAssumption DEF Packet, Answer
  <2>2. line' = Append(line, r) /\ UNCHANGED <<dispatched, packet_queue>>
    BY <1>2 DEF DeviceAnswers, past
  <2> QED BY <1>1, <2>1, <2>2
<1>3. ASSUME NEW s \in Events, DeviceFires(s) PROVE InOrder'
  <2> DEFINE e == [slot |-> s, n |-> fired + 1, try |-> 0]
  <2>1. line' = Append(line, e) /\ UNCHANGED <<dispatched, packet_queue>>
    BY <1>3 DEF DeviceFires, past
  <2>2. e \in Packet
    <3>1. fired + 1 \in 1..MaxEvents
      BY <1>3, NumbersAssumption DEF BusPlaces, Typed, TypeOK, DeviceFires
    <3> QED BY <3>1 DEF Packet, Event
  <2>3. e.slot = s /\ e.n = fired + 1 /\ s \notin Requests /\ fired \in Nat
    BY SlotsAssumption DEF BusPlaces, Typed, TypeOK
  <2> HIDE DEF e
  <2>4. \A p \in Sent : p.n \in Nat
    BY NumbersAssumption DEF Sent, BusPlaces, Typed, TypeOK, Packet, Answer, Event, Range
  <2>5. \A p \in Sent : p.slot = e.slot => p.n < e.n
    BY <1>0, <2>3, <2>4 DEF SentInv, Numbered
  <2> QED BY <1>1, <2>1, <2>2, <2>5
<1> QED BY <1>2, <1>3 DEF Devices

LEMMA ApplicationOrder == BusPlaces /\ Calm /\ InOrder /\ Application => InOrder'
<1> SUFFICES ASSUME BusPlaces, Calm, InOrder, Application PROVE InOrder'
  OBVIOUS
<1>1. CASE AppRemove
  <2>1. /\ Typed /\ Once /\ ai \in Nat /\ Len(packet_queue) \in Nat /\ apc = "remove"
        /\ ai <= Len(packet_queue) /\ packet_queue \in Seq(Packet)
    BY <1>1 DEF BusPlaces, Places, AppIndex, AppRemove, Typed, TypeOK
  <2>2. ai \in 1..Len(packet_queue)
    BY <2>1 DEF Typed, Searches
  <2>3. packet_queue' = RemoveAt(packet_queue, ai) /\ UNCHANGED <<line, dispatched>>
    BY <1>1, <2>1 DEF AppRemove, wire
  <2>4. Range(packet_queue') \subseteq Range(packet_queue)
    BY <2>1, <2>2, <2>3, RemovedFrom
  <2>5. Ordered(packet_queue')
    BY <2>1, <2>2, <2>3, RemovedOrdered DEF InOrder
  <2> QED BY <2>3, <2>4, <2>5 DEF InOrder, Ordered, Ahead
<1>2. CASE ~AppRemove
  <2>1. UNCHANGED <<dispatched, packet_queue, line>>
    BY <1>2 DEF Application, StartCall, AppSearch, AppSearchAgain, AppTimeout,
           RegisterEvent, Deinit, past, wire
  <2> QED BY <2>1, SameOrder
<1> QED BY <1>1, <1>2

LEMMA RecvThreadOrder == BusPlaces /\ Calm /\ InOrder /\ RecvThread => InOrder'
<1> SUFFICES ASSUME BusPlaces, Calm, InOrder, RecvThread PROVE InOrder'
  OBVIOUS
<1>0. /\ Typed /\ SentInv /\ Once /\ RecvIndex /\ ri \in Nat
      /\ Len(packet_queue) \in Nat /\ packet_queue \in Seq(Packet)
      /\ line \in Seq(Packet) /\ dispatched \in Seq(Packet)
  BY DEF BusPlaces, Places, Typed, TypeOK
<1>1. CASE RecvDecode
  <2>1. CASE chunk = 0
    BY <1>1, <2>1, SameOrder DEF RecvDecode
  <2>2. CASE chunk # 0
    <3> DEFINE e == Head(line)
    <3>1. /\ line # <<>> /\ IsInjective(line) /\ line' = Tail(line)
          /\ e \in Packet /\ e \in Range(line) /\ Range(line') = Range(line) \ {e}
          /\ packet_queue' = Append(packet_queue, e) /\ UNCHANGED dispatched
      BY <1>0, <1>1, <2>2, DecodeLine
    <3>2. /\ Len(line') = Len(line) - 1 /\ Len(line) \in Nat /\ line' \in Seq(Packet)
          /\ \A j \in 1..Len(line) - 1 : line'[j] = line[j + 1]
          /\ e = line[1]
      BY <1>0, <3>1, TailRange
    <3> HIDE DEF e
    <3>3. Range(packet_queue') = Range(packet_queue) \cup {e}
      BY <1>0, <3>1, AppendRange
    <3>4. DOMAIN line = 1..Len(line) /\ DOMAIN line' = 1..Len(line) - 1 /\ Ordered(line)
      BY <1>0, <3>2 DEF InOrder
    <3>5. Ordered(line')
      <4>1. ASSUME NEW j \in 1..Len(line) - 1
            PROVE  j + 1 \in DOMAIN line /\ line'[j] = line[j + 1]
        BY <3>2, <3>4
      <4>2. ASSUME NEW j \in 1..Len(line) - 1, NEW k \in 1..Len(line) - 1, j < k
            PROVE  j + 1 < k + 1
        BY <4>2
      <4> QED BY <3>4, <4>1, <4>2 DEF Ordered
    <3>6. Ahead({e}, Range(line'))
      <4>1. ASSUME NEW j \in 1..Len(line) - 1
            PROVE  j + 1 \in DOMAIN line /\ 1 \in DOMAIN line /\ 1 < j + 1
                   /\ line'[j] = line[j + 1]
        BY <3>2, <3>4
      <4>2. ASSUME NEW q \in Range(line'), e.slot \in Events, e.slot = q.slot
            PROVE  e.n < q.n
        <5>1. PICK j \in 1..Len(line) - 1 : q = line'[j]
          BY <3>4 DEF Range
        <5>2. q = line[j + 1] /\ j + 1 \in DOMAIN line /\ 1 \in DOMAIN line /\ 1 < j + 1
          BY <4>1, <5>1
        <5> QED BY <3>2, <3>4, <4>2, <5>2 DEF Ordered
      <4> QED BY <4>2 DEF Ahead
    <3>7. Ahead(Range(packet_queue), {e}) /\ Ahead(Range(dispatched), {e})
      BY <3>1 DEF InOrder, Ahead
    <3>8. Ordered(packet_queue')
      BY <1>0, <3>1, <3>7, AppendOrdered DEF InOrder
    <3>9. /\ Ahead(Range(dispatched), Range(packet_queue'))
          /\ Ahead(Range(dispatched), Range(line'))
          /\ Ahead(Range(packet_queue'), Range(line'))
      BY <3>1, <3>3, <3>6, <3>7 DEF InOrder, Ahead
    <3> QED BY <3>1, <3>5, <3>8, <3>9 DEF InOrder, Ordered
  <2> QED BY <2>1, <2>2
<1>2. ASSUME ri \in 1..Len(packet_queue), packet_queue' = RemoveAt(packet_queue, ri)
      PROVE  /\ Range(packet_queue') \subseteq Range(packet_queue)
             /\ Ordered(packet_queue')
  BY <1>0, <1>2, RemovedFrom, RemovedOrdered DEF InOrder
<1>3. CASE RecvRemove
  <2>1. ri \in 1..Len(packet_queue) /\ rfound = packet_queue[ri] /\ rfound.slot = rslot
        /\ rslot \in Events /\ rpc = "remove" /\ rfound \in Packet
    BY <1>0, <1>3 DEF RecvRemove, RecvIndex, Typed, Searches
  <2>2. /\ packet_queue' = RemoveAt(packet_queue, ri)
        /\ dispatched' = Append(dispatched, rfound) /\ UNCHANGED line
    BY <1>0, <1>3, <2>1 DEF RecvRemove, wire
  <2>3. Range(packet_queue') \subseteq Range(packet_queue) /\ Ordered(packet_queue')
    BY <1>2, <2>1, <2>2
  <2>4. rfound \in Range(packet_queue)
    BY <1>0, <2>1, <2>2, RemovedFrom
  <2>5. Range(dispatched') = Range(dispatched) \cup {rfound}
    BY <1>0, <2>1, <2>2, AppendRange
  <2>6. Ahead(Range(dispatched), {rfound})
    BY <2>4 DEF InOrder, Ahead
  <2>7. Ordered(dispatched')
    BY <1>0, <2>1, <2>2, <2>6, AppendOrdered DEF InOrder
  <2>8. Ahead({rfound}, Range(packet_queue'))
    <3>1. ASSUME NEW j \in 1..Len(packet_queue), j # ri,
                 packet_queue[j].slot = rslot
          PROVE  rfound.n < packet_queue[j].n
      <4>1. ~(j < ri)
        BY <1>0, <2>1, <3>1 DEF RecvIndex
      <4>2. ri < j
        BY <2>1, <3>1, <4>1
      <4>3. ri \in DOMAIN packet_queue /\ j \in DOMAIN packet_queue
        BY <1>0, <2>1, <3>1
      <4> QED BY <2>1, <3>1, <4>2, <4>3 DEF InOrder, Ordered
    <3>2. ASSUME NEW q \in Range(packet_queue') PROVE q \in Range(packet_queue) /\ q # rfound
      BY <1>0, <2>1, <2>2, RemovedFrom
    <3>3. ASSUME NEW q \in Range(packet_queue)
          PROVE  \E j \in 1..Len(packet_queue) : q = packet_queue[j]
      BY <1>0 DEF Range
    <3> QED BY <2>1, <3>1, <3>2, <3>3 DEF Ahead
  <2>9. /\ Ahead(Range(dispatched'), Range(packet_queue'))
        /\ Ahead(Range(dispatched'), Range(line))
        /\ Ahead(Range(packet_queue'), Range(line))
    BY <2>3, <2>4, <2>5, <2>8 DEF InOrder, Ahead
  <2>10. \A p \in Range(dispatched') : p.slot \in Events
    BY <2>1, <2>5 DEF InOrder
  <2> QED BY <2>2, <2>3, <2>7, <2>9, <2>10 DEF InOrder, Ordered
<1>4. CASE RecvCleanRemove
  <2>1. ri \in 1..Len(packet_queue)
    BY <1>0, <1>4 DEF RecvCleanRemove, RecvIndex, Typed, Searches
  <2>2. packet_queue' = RemoveAt(packet_queue, ri) /\ UNCHANGED <<line, dispatched>>
    BY <1>0, <1>4, <2>1 DEF RecvCleanRemove, wire
  <2>3. Range(packet_queue') \subseteq Range(packet_queue) /\ Ordered(packet_queue')
    BY <1>2, <2>1, <2>2
  <2> QED BY <2>2, <2>3 DEF InOrder, Ordered, Ahead
<1>5. CASE ~RecvDecode /\ ~RecvRemove /\ ~RecvCleanRemove
  <2>1. UNCHANGED <<dispatched, packet_queue, line>>
    BY <1>5 DEF RecvThread, RecvLoop, RecvNextEvent, RecvSearch,
                RecvTurnEnds, RecvClearingDue, RecvClean, past, wire
  <2> QED BY <2>1, SameOrder
<1> QED BY <1>1, <1>3, <1>4, <1>5

(* A device's events reach their callbacks in the order they were sent,    *)
(* unless the list was shifted.                                            *)
THEOREM EventsKeepOrder == Spec => []EventsInOrder
<1> DEFINE I == BusPlaces /\ (Calm => InOrder)
<1>1. Init => I
  <2> SUFFICES ASSUME Init PROVE I
    OBVIOUS
  <2>1. dispatched = <<>> /\ packet_queue = <<>> /\ line = <<>>
    BY DEF Init
  <2>2. Range(dispatched) = {} /\ Range(packet_queue) = {} /\ Range(line) = {}
    BY <2>1 DEF Range
  <2>3. Ordered(dispatched) /\ Ordered(packet_queue) /\ Ordered(line)
    BY <2>1 DEF Ordered
  <2> QED BY <2>2, <2>3, InitTyped, InitSent, InitPlaces DEF BusPlaces, InOrder, Ahead
<1>2. I /\ [Next]_vars => I'
  <2> SUFFICES ASSUME I, [Next]_vars PROVE I'
    OBVIOUS
  <2>1. BusPlaces'
    BY PlacesStay
  <2>2. CASE UNCHANGED vars
    <3>1. UNCHANGED <<dispatched, packet_queue, line, faults>>
      BY <2>2 DEF vars, wire, past
    <3> QED BY <2>1, <3>1, SameOrder DEF Calm
  <2>3. CASE Next
    <3>1. Calm' => Calm
      BY <2>3, FaultsStay
    <3>2. Calm' => InOrder'
      BY <2>3, <3>1, DevicesOrder, ApplicationOrder, RecvThreadOrder DEF Next
    <3> QED BY <2>1, <3>2
  <2> QED BY <2>2, <2>3
<1>3. I => EventsInOrder
  <2> SUFFICES ASSUME I, Calm, NEW i \in DOMAIN dispatched, NEW j \in DOMAIN dispatched,
                      i < j, dispatched[i].slot = dispatched[j].slot
               PROVE  dispatched[i].n < dispatched[j].n
    BY DEF EventsInOrder, Calm
  <2>1. dispatched[i] \in Range(dispatched)
    BY DEF Range
  <2> QED BY <2>1 DEF InOrder, Ordered
<1> QED BY <1>1, <1>2, <1>3, PTL DEF Spec
-----------------------------------------------------------------------------
(* The clearing of old packets is due when now - last > 5000, a plain      *)
(* difference of two readings of a clock that starts again from 0.  Once   *)
(* the last clearing fell in the clock's last five seconds, none is ever   *)
(* due again; the period is 2 ^ 30 milliseconds on this firmware.          *)
LEMMA ClockWrapEndsClearing ==
  ASSUME NEW Period \in Nat, NEW last \in Period - 5000..Period - 1,
         NEW now \in 0..Period - 1
  PROVE  ~(now - last > 5000)
  OBVIOUS
=============================================================================
