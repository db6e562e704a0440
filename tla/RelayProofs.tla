----------------------------- MODULE RelayProofs -----------------------------
(* Proofs about Relay, for any number of connections, users, events and    *)
(* HTTP requests; and that WebRTCServer implements Registry, for any users *)
(* and streams, and so does the wired process.                             *)
EXTENDS Waiting, WebRTCProofs, WellFoundedInduction

(* What a handler is about to hand over is a request of its goroutine.     *)
Handed ==
  /\ DOMAIN event = Conns /\ DOMAIN httpReq = Https
  /\ DOMAIN handler = Conns /\ DOMAIN http = Https
  /\ \A c \in Conns : handler[c] = "send" =>
       /\ event[c].to \in RtcGoroutines \ {"watchForSocketDisconnect"}
       /\ event[c].req \in RequestsTo(event[c].to)
  /\ \A h \in Https : http[h] = "rtc" => httpReq[h] \in RequestsTo("deleteStream")

(* An event read from a connection is a request its goroutine serves.      *)
LEMMA EventsAreRequests ==
  ASSUME NEW c \in Conns, NEW e \in EventsFrom(c)
  PROVE  /\ e.to \in RtcGoroutines \ {"watchForSocketDisconnect"}
         /\ e.req \in RequestsTo(e.to)
<1>1. PICK k \in Kinds : \E r \in RequestsTo(GoroutineFor(k)) : e = [to |-> GoroutineFor(k), req |-> r]
  BY DEF EventsFrom
<1>2. GoroutineFor(k) \in RtcGoroutines \ {"watchForSocketDisconnect"}
  BY KindsAssumption DEF EventKinds, GoroutineFor, RtcGoroutines, Lockers, Forwarders
<1> QED
  BY <1>1, <1>2

(* Nobody has anything to hand over at first.                              *)
LEMMA HandedInit == Init => Handed
  BY DEF Init, Handed

(* What a handler holds stays a request of the right kind.                 *)
LEMMA HandedStep ==
  ASSUME Handed, [Next]_vars
  PROVE  Handed'
<1> USE DEF Handed, RequestsTo
<1>1. CASE UNCHANGED relayVars
  BY <1>1 DEF relayVars
<1>2. ASSUME NEW c \in Conns, ReadMessage(c)
      PROVE  Handed'
  <2>1. PICK e \in EventsFrom(c) : event' = [event EXCEPT ![c] = e]
    BY <1>2 DEF ReadMessage
  <2> QED
    BY <1>2, <2>1, EventsAreRequests DEF ReadMessage
<1>3. ASSUME NEW c \in Conns, Connect(c) \/ Register(c) \/ HandleSocketEvent(c) \/ Disconnect(c) \/ Unregister(c)
      PROVE  Handed'
  BY <1>3 DEF Connect, Register, HandleSocketEvent, Disconnect, Unregister
<1>4. ASSUME NEW h \in Https, HttpStep(h)
      PROVE  Handed'
  BY <1>4 DEF HttpStep, BeginDelete, SendDeleteStream, DeleteRow, BeginNewStreamer, Announce,
     BeginGetOldStreams, SendGetActiveStreams, ReceiveActiveStreams
<1> QED
  BY <1>1, <1>2, <1>3, <1>4 DEF Next, HandlerStep, vars

(* A step of the server is one of the WebRTC server, of the socket server, *)
(* or a request to them, or none of their business.                        *)
LEMMA RelayStepIsRtcStep ==
  ASSUME Handed, [Next]_vars
  PROVE  [RtcNext]_rtcAllVars
<1> USE DEF rtcAllVars
<1>1. CASE UNCHANGED vars
  BY <1>1 DEF vars
<1>2. CASE alive /\ (RtcStep \/ RtcInternal)
  BY <1>2 DEF RtcNext
<1>3. ASSUME NEW c \in Conns, alive, HandlerStep(c)
      PROVE  [RtcNext]_rtcAllVars
  <2>1. CASE Register(c) \/ Unregister(c)
    BY <1>3, <2>1 DEF Register, Unregister, RtcNext, RtcEnv, Registrars
  <2>2. CASE HandleSocketEvent(c)
    <3> DEFINE g == event[c].to
               r == event[c].req
    <3>1. g \in RtcGoroutines \ {"watchForSocketDisconnect"} /\ r \in RequestsTo(g)
      BY <2>2 DEF HandleSocketEvent, Handed
    <3>2. SendRtc(g, r)
      BY <2>2 DEF HandleSocketEvent
    <3> HIDE DEF g, r
    <3>3. RtcEnv
      BY <3>1, <3>2 DEF RtcEnv
    <3> QED
      BY <1>3, <3>3 DEF RtcNext
  <2>3. CASE Connect(c) \/ ReadMessage(c) \/ Disconnect(c)
    BY <2>3 DEF Connect, ReadMessage, Disconnect
  <2> QED
    BY <1>3, <2>1, <2>2, <2>3 DEF HandlerStep
<1>4. ASSUME NEW h \in Https, alive, HttpStep(h)
      PROVE  [RtcNext]_rtcAllVars
  <2>1. CASE SendDeleteStream(h)
    BY <1>4, <2>1 DEF SendDeleteStream, Handed, RtcNext, RtcEnv, RtcGoroutines, Lockers
  <2>2. CASE Announce(h)
    BY <1>4, <2>2 DEF Announce, RtcNext, RtcEnv
  <2>3. CASE SendGetActiveStreams(h)
    <3>1. [recvChan |-> h] \in RequestsTo("getActiveStreams")
      <4>1. [recvChan |-> h] \in [recvChan : Https]
        OBVIOUS
      <4>2. RequestsTo("getActiveStreams") = [recvChan : Https]
        BY DEF RequestsTo, Forwarders
      <4> QED
        BY <4>1, <4>2
    <3> QED
      BY <1>4, <2>3, <3>1 DEF SendGetActiveStreams, RtcNext, RtcEnv, RtcGoroutines
  <2>4. CASE BeginDelete(h) \/ DeleteRow(h) \/ BeginNewStreamer(h) \/ BeginGetOldStreams(h) \/ ReceiveActiveStreams(h)
    BY <2>4 DEF BeginDelete, DeleteRow, BeginNewStreamer, BeginGetOldStreams, ReceiveActiveStreams
  <2> QED
    BY <1>4, <2>1, <2>2, <2>3, <2>4 DEF HttpStep
<1> QED
  BY <1>1, <1>2, <1>3, <1>4 DEF Next

(* The handlers use the two servers only through their channels, with      *)
(* requests of the right kind, so whatever WebRTCServer promises of any    *)
(* environment holds in the wired process.                                 *)
THEOREM RelayRefinesRtc == Spec => RtcSpec
<1>1. Init => RtcInit
  BY DEF Init
<1>2. Handed /\ [Next]_vars => [RtcNext]_rtcAllVars
  BY RelayStepIsRtcStep
<1>3. Handed /\ [Next]_vars => Handed'
  BY HandedStep
<1> QED
  BY <1>1, <1>2, <1>3, HandedInit, PTL DEF Spec, RtcSpec, rtcAllVars

(* In the wired process, too, what is broadcast agrees with the registry.  *)
THEOREM RelayBroadcastsAgree == Spec => []NoteMatchesRegistry
  BY RelayRefinesRtc, BroadcastsAgree, PTL

(* In the wired process, too, one of any two members was told to call the  *)
(* other.                                                                  *)
THEOREM RelayEveryPairConnects == Spec => []PairHasInitiator
  BY RelayRefinesRtc, EveryPairConnects, PTL

-----------------------------------------------------------------------------
(* With both mutexes held exactly inside their critical sections, every    *)
(* wait but unregisterConn's goes up in rank.                              *)
LEMMA LockOrderHolds ==
  ASSUME SocketInv, RtcInv
  PROVE  LockOrder
<1> USE DEF Senders, Registrars, RtcGoroutines, Lockers, Forwarders
<1> SUFFICES ASSUME NEW g \in Goroutines, ~InHandOff(g), WaitsFor(g) # "none"
             PROVE  Rank(g) < Rank(WaitsFor(g))
  BY DEF LockOrder
<1>1. connMutex # "free" => Rank(connMutex) = 5
  BY DEF SocketInv, SocketTypeOK, MutexHeldInside, Rank
<1>2. rtcMutex # "free" => Rank(rtcMutex) = 3
  BY DEF RtcInv, MembershipTypeOK, RtcMutexHeldInside, Rank
<1>3. CASE g = "messageLoop"
  BY <1>3 DEF WaitsFor
<1>4. CASE g \in Senders \cup Registrars
  <2>1. phase[g] \in {"recv", "lock", "write", "handoff"} /\ ~(phase[g] = "handoff")
    BY <1>4 DEF SocketInv, SocketTypeOK, InHandOff
  <2>2. WaitsFor(g) = SocketWaitsFor(g)
    BY <1>4 DEF WaitsFor
  <2>3. CASE phase[g] = "lock"
    <3>1. WaitsFor(g) = connMutex /\ connMutex # "free"
      BY <2>2, <2>3 DEF SocketWaitsFor, IfHeld
    <3>2. Rank(g) = 4
      BY <1>4, <2>3 DEF Rank
    <3> QED
      BY <1>1, <3>1, <3>2
  <2>4. CASE phase[g] = "write"
    <3>1. WaitsFor(g) = "messageLoop"
      BY <2>2, <2>4 DEF SocketWaitsFor
    <3>2. Rank(g) = 5
      BY <1>4, <2>4 DEF Rank
    <3>3. Rank("messageLoop") = 6
      BY DEF Rank
    <3> QED
      BY <3>1, <3>2, <3>3
  <2>5. CASE phase[g] = "recv"
    BY <2>2, <2>5 DEF SocketWaitsFor
  <2> QED
    BY <2>1, <2>3, <2>4, <2>5
<1>5. CASE g \in RtcGoroutines
  <2>1. WaitsFor(g) = RtcWaitsFor(g)
    BY <1>5 DEF WaitsFor
  <2>2. step[g] \in {"recv", "lock", "notify", "reply"}
    BY <1>5 DEF RtcInv, MembershipTypeOK
  <2>3. \A s \in Senders : Rank(s) \in {4, 5} /\ IfBusy(s) \in {s, "none"}
    BY DEF Rank, IfBusy
  <2>4. CASE step[g] = "notify"
    <3>1. g \in Lockers
      BY <1>5, <2>4 DEF RtcInv, MembershipTypeOK
    <3>2. WaitsFor(g) \in Senders
      BY <2>1, <2>3, <2>4, <3>1 DEF RtcWaitsFor, NotifyTo
    <3>3. Rank(g) = 3
      BY <2>4, <3>1 DEF Rank
    <3> QED
      BY <2>3, <3>2, <3>3
  <2>5. CASE step[g] = "reply"
    <3>1. WaitsFor(g) \in Senders
      BY <2>1, <2>3, <2>5 DEF RtcWaitsFor
    <3>2. Rank(g) \in {1, 2, 3}
      BY <1>5 DEF Rank
    <3> QED
      BY <2>3, <3>1, <3>2
  <2>6. CASE step[g] = "lock"
    <3>1. CASE g = "watchForSocketDisconnect"
      <4>1. WaitsFor(g) = "leaveWebRTC"
        BY <2>1, <2>6, <3>1 DEF RtcWaitsFor, IfBusy
      <4> QED
        BY <3>1, <4>1 DEF Rank
    <3>2. CASE g \in Forwarders
      <4>1. WaitsFor(g) = "sendDataToUid"
        BY <2>1, <2>3, <2>6, <3>2 DEF RtcWaitsFor
      <4>2. Rank(g) = 2
        BY <2>6, <3>2 DEF Rank
      <4> QED
        BY <2>3, <4>1, <4>2
    <3>3. CASE g \in Lockers \cup {"getActiveStreams"}
      <4>1. WaitsFor(g) = rtcMutex /\ rtcMutex # "free"
        BY <2>1, <2>6, <3>3 DEF RtcWaitsFor, IfHeld
      <4>2. Rank(g) = 2
        BY <2>6, <3>3 DEF Rank
      <4> QED
        BY <1>2, <4>1, <4>2
    <3> QED
      BY <1>5, <3>1, <3>2, <3>3
  <2>7. CASE step[g] = "recv"
    BY <2>1, <2>7 DEF RtcWaitsFor
  <2> QED
    BY <2>2, <2>4, <2>5, <2>6, <2>7
<1> QED
  BY <1>3, <1>4, <1>5 DEF Goroutines

(* Only the hand-off of a disconnect (socketServer.go:249) can close a     *)
(* circle of waits: in every state of the server, for any number of        *)
(* clients, all other waits go up in one fixed order.                      *)
THEOREM WaitsAreOrdered == Spec => []LockOrder
<1>1. SocketInv /\ RtcInv => LockOrder
  BY LockOrderHolds
<1> QED
  BY <1>1, RelayRefinesRtc, RtcInvariant, PTL
-----------------------------------------------------------------------------
(* What a handler hands over speaks for its own connection's user, for any *)
(* number of connections, events and requests.                             *)
THEOREM RelayTypes == Spec => []RelayTypeOK
<1> DEFINE T == RelayTypeOK /\ event \in [Conns -> {event[c] : c \in Conns}]
                            /\ httpReq \in [Https -> {httpReq[h] : h \in Https}]
<1>1. Init => T
  BY MaxEventsAssumption DEF Init, RelayTypeOK
<1>2. T /\ [Next]_vars => T'
  <2> SUFFICES ASSUME T, [Next]_vars PROVE T'
    OBVIOUS
  <2> USE DEF RelayTypeOK
  <2>1. CASE UNCHANGED relayVars
    BY <2>1 DEF relayVars, EventsFrom, RequestsTo
  <2>2. ASSUME NEW c \in Conns, HandlerStep(c)
        PROVE  T'
    <3>1. CASE ReadMessage(c)
      <4>1. PICK e \in EventsFrom(c) : event' = [event EXCEPT ![c] = e]
        BY <3>1 DEF ReadMessage
      <4>2. events' \in 0 .. MaxEvents
        BY <3>1, MaxEventsAssumption DEF ReadMessage
      <4> QED
        BY <3>1, <4>1, <4>2 DEF ReadMessage, EventsFrom, RequestsTo
    <3>2. CASE Connect(c) \/ Register(c) \/ HandleSocketEvent(c) \/ Disconnect(c) \/ Unregister(c)
      BY <3>2, ZenonT(60) DEF Connect, Register, HandleSocketEvent, Disconnect, Unregister, EventsFrom, RequestsTo
    <3> QED
      BY <2>2, <3>1, <3>2 DEF HandlerStep
  <2>3. ASSUME NEW h \in Https, HttpStep(h)
        PROVE  T'
    <3>1. CASE BeginDelete(h)
      <4>1. PICK r \in RequestsTo("deleteStream") : httpReq' = [httpReq EXCEPT ![h] = r]
        BY <3>1 DEF BeginDelete
      <4> QED
        BY <3>1, <4>1, ZenonT(60) DEF BeginDelete, EventsFrom, RequestsTo
    <3>2. CASE SendDeleteStream(h) \/ DeleteRow(h) \/ BeginNewStreamer(h) \/ Announce(h)
      BY <3>2, ZenonT(60) DEF SendDeleteStream, DeleteRow, BeginNewStreamer, Announce, EventsFrom, RequestsTo
    <3>3. CASE BeginGetOldStreams(h) \/ SendGetActiveStreams(h) \/ ReceiveActiveStreams(h)
      BY <3>3, ZenonT(60) DEF BeginGetOldStreams, SendGetActiveStreams, ReceiveActiveStreams, EventsFrom, RequestsTo
    <3> QED
      BY <2>3, <3>1, <3>2, <3>3 DEF HttpStep
  <2> QED
    BY <2>1, <2>2, <2>3 DEF Next, vars
<1>3. T => RelayTypeOK
  OBVIOUS
<1> QED
  BY <1>1, <1>2, <1>3, PTL DEF Spec

-----------------------------------------------------------------------------
(* The registry.                                                           *)

(* A nonempty set of naturals has a least element.                         *)
LEMMA LeastNatural ==
  ASSUME NEW T \in SUBSET Nat, T # {}
  PROVE  \E n \in T : \A m \in T : n <= m
<1>1. PICK n \in T : \A m \in T : ~ (<<m, n>> \in OpToRel(<, Nat))
  BY WFMin, NatLessThanWellFounded
<1>2. \A m \in T : ~ (m < n)
  BY <1>1 DEF OpToRel
<1> QED
  BY <1>2

(* FirstOr0 finds an entry with that value whenever there is one.          *)
LEMMA FirstOr0Finds ==
  ASSUME NEW s \in Seq(StreamInfo), NEW key \in {"id", "name"}, NEW value
  PROVE  /\ (\E j \in DOMAIN s : s[j][key] = value) =>
              FirstOr0(s, key, value) \in DOMAIN s /\ s[FirstOr0(s, key, value)][key] = value
         /\ (\A j \in DOMAIN s : s[j][key] # value) => FirstOr0(s, key, value) = 0
<1>1. CASE \E j \in DOMAIN s : s[j][key] = value
  <2> DEFINE T == {j \in DOMAIN s : s[j][key] = value}
  <2>1. T \in SUBSET Nat /\ T # {}
    BY <1>1
  <2>2. PICK i \in T : \A m \in T : i <= m
    BY <2>1, LeastNatural
  <2>3. \A j \in 1 .. i - 1 : s[j][key] # value
    BY <2>2
  <2>4. \E j \in DOMAIN s : s[j][key] = value /\ \A m \in 1 .. j - 1 : s[m][key] # value
    BY <2>2, <2>3
  <2> QED
    BY <1>1, <2>4 DEF FirstOr0
<1>2. CASE ~ \E j \in DOMAIN s : s[j][key] = value
  BY <1>2 DEF FirstOr0
<1> QED
  BY <1>1, <1>2

-----------------------------------------------------------------------------
(* A motion update leaves the ids and names of a list alone.               *)
LEMMA SetMotionKeepsEntries ==
  ASSUME NEW s \in Seq(StreamInfo), NEW id, NEW motion
  PROVE  /\ Entries(SetMotion(s, id, motion)) = Entries(s)
         /\ DistinctIds(s) => DistinctIds(SetMotion(s, id, motion))
<1> DEFINE i == FirstOr0(s, "id", id)
           t == [s EXCEPT ![i].motion = motion]
<1>1. DOMAIN t = DOMAIN s
  OBVIOUS
<1>2. \A j \in DOMAIN s : s[j] \in StreamInfo
  OBVIOUS
<1>3. \A j \in DOMAIN s : t[j].id = s[j].id /\ t[j].name = s[j].name
  BY <1>2 DEF StreamInfo
<1>4. Entries(t) = Entries(s) /\ (DistinctIds(s) => DistinctIds(t))
  BY <1>1, <1>3 DEF Entries, DistinctIds
<1>5. SetMotion(s, id, motion) = IF i = 0 THEN s ELSE t
  BY DEF SetMotion
<1> QED
  BY <1>4, <1>5

(* Moving the last entry over the i-th and truncating loses the i-th, and  *)
(* it alone.                                                               *)
LEMMA WithoutIndexEntries ==
  ASSUME NEW s \in Seq(StreamInfo), NEW i \in DOMAIN s
  PROVE  LET e == <<s[i].id, s[i].name>>
             t == WithoutIndex(s, i)
         IN  /\ Entries(t) \subseteq Entries(s)
             /\ DistinctIds(s) => DistinctIds(t) /\ Entries(t) = Entries(s) \ {e}
<1> DEFINE e == <<s[i].id, s[i].name>>
           t == WithoutIndex(s, i)
           n == Len(s)
<1>1. n \in Nat \ {0} /\ DOMAIN s = 1 .. n /\ i \in 1 .. n
  OBVIOUS
<1>2. DOMAIN t = 1 .. n - 1
  BY DEF WithoutIndex
<1>3. \A j \in 1 .. n - 1 : t[j] = IF j = i THEN s[n] ELSE s[j]
  BY DEF WithoutIndex
<1> HIDE DEF t, n
<1>4. ASSUME NEW j \in 1 .. n - 1
      PROVE  LET k == IF j = i THEN n ELSE j IN k \in 1 .. n /\ k # i /\ t[j] = s[k]
  BY <1>1, <1>3
<1>5. Entries(t) \subseteq Entries(s)
  <2> SUFFICES ASSUME NEW j \in 1 .. n - 1 PROVE <<t[j].id, t[j].name>> \in Entries(s)
    BY <1>2 DEF Entries
  <2> QED
    BY <1>1, <1>4 DEF Entries
<1>6. Entries(s) \ {e} \subseteq Entries(t)
  <2> SUFFICES ASSUME NEW k \in 1 .. n, k # i
               PROVE  <<s[k].id, s[k].name>> \in Entries(t)
    BY <1>1 DEF Entries
  <2>1. CASE k = n
    BY <1>1, <1>2, <1>3, <2>1 DEF Entries
  <2>2. CASE k # n
    BY <1>1, <1>2, <1>3, <2>2 DEF Entries
  <2> QED
    BY <2>1, <2>2
<1>7. ASSUME DistinctIds(s)
      PROVE  DistinctIds(t) /\ e \notin Entries(t)
  <2>1. \A k, m \in 1 .. n : s[k].id = s[m].id => k = m
    BY <1>1, <1>7 DEF DistinctIds
  <2>2. \A j \in 1 .. n - 1 : t[j].id # s[i].id
    BY <1>1, <1>4, <2>1
  <2>3. e \notin Entries(t)
    BY <1>2, <2>2 DEF Entries
  <2>4. ASSUME NEW j \in 1 .. n - 1, NEW m \in 1 .. n - 1, t[j].id = t[m].id
        PROVE  j = m
    <3> DEFINE k(x) == IF x = i THEN n ELSE x
    <3>1. k(j) \in 1 .. n /\ k(m) \in 1 .. n /\ t[j] = s[k(j)] /\ t[m] = s[k(m)]
      BY <1>4
    <3>2. k(j) = k(m)
      BY <2>1, <2>4, <3>1
    <3> QED
      BY <1>1, <3>2
  <2>5. DistinctIds(t)
    BY <1>2, <2>4 DEF DistinctIds
  <2> QED
    BY <2>3, <2>5
<1> QED
  BY <1>5, <1>6, <1>7 DEF t

(* The entry deleteStream removes is one of the list, and one of the name  *)
(* it was given if there is any.                                           *)
LEMMA IndexToDeleteFinds ==
  ASSUME NEW s \in Seq(StreamInfo), NEW name, s # <<>>
  PROVE  LET i == IndexToDelete(s, name)
         IN  i \in DOMAIN s /\ ((\E j \in DOMAIN s : s[j].name = name) => s[i].name = name)
<1>1. /\ (\E j \in DOMAIN s : s[j]["name"] = name) =>
           FirstOr0(s, "name", name) \in DOMAIN s /\ s[FirstOr0(s, "name", name)]["name"] = name
      /\ (\A j \in DOMAIN s : s[j]["name"] # name) => FirstOr0(s, "name", name) = 0
  BY FirstOr0Finds
<1>2. 0 \notin DOMAIN s /\ 1 \in DOMAIN s
  OBVIOUS
<1> QED
  BY <1>1, <1>2 DEF IndexToDelete

-----------------------------------------------------------------------------
(* What StreamsAsJoined says of a list, and that there are no others.      *)
AsJoined(t) ==
  \E s \in StreamLists : Entries(t) \subseteq Entries(s) /\ (DistinctIds(s) => DistinctIds(t))

ListsInv == \A u \in Uids : IF u \in members THEN AsJoined(streams[u]) ELSE streams[u] = <<>>

LEMMA ListsStep ==
  ASSUME SocketInv, RtcInv, StreamsTypeOK, ListsInv, [RtcNext]_rtcAllVars
  PROVE  ListsInv'
<1> USE DEF RtcInv, MembershipTypeOK, ReqKnown, StreamsTypeOK, ListsInv, RtcGoroutines, Lockers, Forwarders
<1>1. ASSUME UNCHANGED registry
      PROVE  ListsInv'
  BY <1>1 DEF registry, AsJoined
<1>2. CASE JoinReply
  <2> DEFINE u == req["joinWebRTC"].uid
             s == req["joinWebRTC"].streams
  <2>1. u \in Uids /\ s \in StreamLists
    BY <1>2 DEF JoinReply, RequestsTo
  <2>2. AsJoined(s)
    BY <2>1 DEF AsJoined
  <2>3. members' = members \cup {u} /\ streams' = [streams EXCEPT ![u] = s]
    BY <1>2 DEF JoinReply
  <2> HIDE DEF u, s
  <2> QED
    BY <2>1, <2>2, <2>3 DEF AsJoined
<1>3. CASE LeaveNotify
  BY <1>3 DEF LeaveNotify, AsJoined
<1>4. ASSUME NEW u \in members, NEW t, streams' = [streams EXCEPT ![u] = t], members' = members,
             Entries(t) \subseteq Entries(streams[u]), DistinctIds(streams[u]) => DistinctIds(t)
      PROVE  ListsInv'
  BY <1>4, ZenonT(60) DEF AsJoined
<1>5. CASE MotionLock
  <2> DEFINE r == req["motionUpdate"]
  <2>1. CASE r.uid \in members
    <3>1. streams[r.uid] \in Seq(StreamInfo)
      BY <2>1
    <3> QED
      BY <1>4, <1>5, <2>1, <3>1, SetMotionKeepsEntries DEF MotionLock
  <2>2. CASE r.uid \notin members
    BY <1>1, <1>5, <2>2 DEF MotionLock, registry
  <2> QED
    BY <2>1, <2>2
<1>6. CASE DeleteLock
  <2> DEFINE r == req["deleteStream"]
             s == streams[r.uid]
             i == IndexToDelete(s, r.name)
  <2>1. CASE r.uid \in members
    <3>1. s \in Seq(StreamInfo) /\ s # <<>>
      BY <1>6, <2>1 DEF DeleteLock
    <3>2. i \in DOMAIN s
      BY <3>1, IndexToDeleteFinds
    <3>3. Entries(WithoutIndex(s, i)) \subseteq Entries(s) /\ (DistinctIds(s) => DistinctIds(WithoutIndex(s, i)))
      BY <3>1, <3>2, WithoutIndexEntries
    <3> QED
      BY <1>4, <1>6, <2>1, <3>3 DEF DeleteLock
  <2>2. CASE r.uid \notin members
    BY <1>1, <1>6, <2>2 DEF DeleteLock, registry
  <2> QED
    BY <2>1, <2>2
<1>7. CASE WatchReceive \/ WatchSend \/ JoinLock \/ JoinNotify \/ LeaveLock \/ MotionNotify
  BY <1>1, <1>7 DEF WatchReceive, WatchSend, JoinLock, JoinNotify, LeaveLock, MotionNotify, RtcLock
<1>8. CASE ForwardSignals \/ DeletePanic \/ DeleteNotify \/ ActiveStreams
  BY <1>1, <1>8 DEF ForwardSignals, ForwardSignal, DeletePanic, DeleteNotify, ActiveStreams
<1>9. CASE RtcInternal \/ RtcEnv \/ UNCHANGED rtcAllVars
  BY <1>1, <1>9 DEF RtcInternal, RtcEnv, SendRtc, rtcAllVars, rtcVars, registry
<1> QED
  BY <1>2, <1>3, <1>5, <1>6, <1>7, <1>8, <1>9 DEF RtcNext, RtcStep

(* All that is known of the WebRTC server's state.                         *)
FullInv == SocketInv /\ RtcInv /\ StreamsTypeOK /\ ListsInv

LEMMA FullInvariant == RtcSpec => []FullInv
<1>1. RtcInit => ListsInv
  BY DEF RtcInit, ListsInv
<1>2. RtcInv /\ RtcTypeOK => StreamsTypeOK
  BY DEF RtcTypeOK, StreamsTypeOK
<1>3. SocketInv /\ RtcInv /\ StreamsTypeOK /\ ListsInv /\ [RtcNext]_rtcAllVars => ListsInv'
  BY ListsStep
<1> QED
  BY <1>1, <1>2, <1>3, RtcInvariant, RtcTypes, PTL DEF RtcSpec, FullInv, rtcAllVars

(* Motion updates and deletions that write entries by index leave in every *)
(* member's list only what he joined with, each once, whatever the lists.  *)
THEOREM RtcStreamsAsJoined == RtcSpec => []StreamsAsJoined
<1>1. FullInv => StreamsAsJoined
  BY DEF FullInv, RtcInv, MembershipTypeOK, ListsInv, AsJoined, StreamsAsJoined
<1> QED
  BY <1>1, FullInvariant, PTL

(* So it is in the wired process.                                          *)
THEOREM RelayStreamsAsJoined == Spec => []StreamsAsJoined
  BY RelayRefinesRtc, RtcStreamsAsJoined, PTL

-----------------------------------------------------------------------------
DistinctNames(s) == \A i, j \in DOMAIN s : s[i].name = s[j].name => i = j

(* Moving the last entry over the one found by its name and truncating     *)
(* takes that name out of a list that has each name once, and no other.    *)
LEMMA WithoutIndexNames ==
  ASSUME NEW s \in Seq(StreamInfo), NEW name \in NamesOf(s), DistinctNames(s)
  PROVE  LET t == WithoutIndex(s, IndexToDelete(s, name))
         IN  NamesOf(t) = NamesOf(s) \ {name} /\ Len(t) = Len(s) - 1
<1> DEFINE i == IndexToDelete(s, name)
           t == WithoutIndex(s, i)
           n == Len(s)
<1>1. \E j \in DOMAIN s : s[j].name = name
  BY DEF NamesOf
<1>2. i \in DOMAIN s /\ s[i].name = name
  BY <1>1, IndexToDeleteFinds
<1> HIDE DEF i
<1>3. n \in Nat \ {0} /\ DOMAIN s = 1 .. n /\ i \in 1 .. n
  BY <1>2
<1>4. DOMAIN t = 1 .. n - 1 /\ \A j \in 1 .. n - 1 : t[j] = IF j = i THEN s[n] ELSE s[j]
  BY DEF WithoutIndex
<1>5. t \in Seq(StreamInfo)
  BY <1>3 DEF WithoutIndex
<1> HIDE DEF t, n
<1>6. Len(t) = n - 1
  BY <1>3, <1>4, <1>5
<1>7. ASSUME NEW j \in 1 .. n - 1
      PROVE  t[j].name \in NamesOf(s) \ {name}
  <2>1. PICK k \in 1 .. n : k # i /\ t[j] = s[k]
    BY <1>3, <1>4
  <2> QED
    BY <1>2, <1>3, <2>1 DEF NamesOf, DistinctNames
<1>8. ASSUME NEW k \in 1 .. n, s[k].name # name
      PROVE  \E j \in 1 .. n - 1 : t[j] = s[k]
  <2>1. k # i
    BY <1>2, <1>8
  <2> QED
    BY <1>3, <1>4, <2>1
<1>9. NamesOf(t) = NamesOf(s) \ {name}
  <2>1. NamesOf(t) = {t[j].name : j \in 1 .. n - 1} /\ NamesOf(s) = {s[k].name : k \in 1 .. n}
    BY <1>3, <1>4 DEF NamesOf
  <2>2. ASSUME NEW m \in NamesOf(s) \ {name}
        PROVE  m \in NamesOf(t)
    BY <1>8, <2>1, <2>2
  <2> QED
    BY <1>7, <2>1, <2>2
<1> QED
  BY <1>6, <1>9 DEF t, n, i

(* The step by which deleteStream goes from waiting for the lock to its    *)
(* broadcast, in every state of the server.                                *)
LEMMA DeleteStepRemovesNamed ==
  ASSUME FullInv, [RtcNext]_rtcAllVars,
         step["deleteStream"] = "lock", step'["deleteStream"] = "notify"
  PROVE  LET r == req["deleteStream"]
             s == streams[r.uid]
         IN  /\ \A v \in Uids \ {r.uid} : streams'[v] = streams[v]
             /\ r.name \in NamesOf(s) /\ DistinctNames(s) =>
                  /\ NamesOf(streams'[r.uid]) = NamesOf(s) \ {r.name}
                  /\ Len(streams'[r.uid]) = Len(s) - 1
<1> USE DEF FullInv, RtcInv, MembershipTypeOK, ReqKnown, StreamsTypeOK, RtcGoroutines, Lockers, Forwarders
<1> DEFINE r == req["deleteStream"]
           s == streams[r.uid]
           t == WithoutIndex(s, IndexToDelete(s, r.name))
<1>1. r.uid \in Uids
  BY DEF RequestsTo
<1>2. DeleteLock \/ DeletePanic
  <2>1. CASE JoinLock \/ JoinNotify \/ JoinReply \/ LeaveLock \/ LeaveNotify
    BY <2>1 DEF JoinLock, JoinNotify, JoinReply, LeaveLock, LeaveNotify, RtcLock, RtcUnlock, Done
  <2>2. CASE MotionLock \/ MotionNotify \/ DeleteNotify \/ ActiveStreams \/ ForwardSignals
    BY <2>2 DEF MotionLock, MotionNotify, DeleteNotify, ActiveStreams, ForwardSignals, ForwardSignal,
         RtcLock, RtcUnlock, Done
  <2>3. CASE WatchReceive \/ WatchSend
    BY <2>3 DEF WatchReceive, WatchSend, Receive
  <2>4. CASE RtcInternal \/ UNCHANGED rtcAllVars
    BY <2>4 DEF RtcInternal, rtcAllVars, rtcVars
  <2>5. CASE RtcEnv
    BY <2>5 DEF RtcEnv, SendRtc, Receive, rtcVars
  <2> QED
    BY <2>1, <2>2, <2>3, <2>4, <2>5 DEF RtcNext, RtcStep
<1>3. CASE r.uid \notin members \/ s = <<>>
  <2>1. streams' = streams
    <3>1. CASE DeleteLock
      BY <1>3, <3>1 DEF DeleteLock
    <3>2. CASE DeletePanic
      BY <3>2 DEF DeletePanic, registry
    <3> QED
      BY <1>2, <3>1, <3>2
  <2>2. s = <<>>
    BY <1>1, <1>3 DEF ListsInv
  <2> QED
    BY <1>1, <2>1, <2>2 DEF NamesOf
<1>4. CASE r.uid \in members /\ s # <<>>
  <2>1. streams' = [streams EXCEPT ![r.uid] = t]
    BY <1>2, <1>4 DEF DeleteLock, DeletePanic
  <2>2. s \in Seq(StreamInfo)
    BY <1>4
  <2>3. ASSUME r.name \in NamesOf(s), DistinctNames(s)
        PROVE  NamesOf(t) = NamesOf(s) \ {r.name} /\ Len(t) = Len(s) - 1
    BY <2>2, <2>3, WithoutIndexNames
  <2> QED
    BY <1>1, <2>1, <2>3
<1> QED
  BY <1>3, <1>4

(* deleteStream removes the named stream and no other from a list that has *)
(* each name once, whatever other requests are under way.                  *)
THEOREM RtcDeleteRemovesNamed == RtcSpec => DeleteRemovesNamed
<1> DEFINE Removes ==
      step["deleteStream"] = "lock" /\ step'["deleteStream"] = "notify" =>
        LET r == req["deleteStream"]
            s == streams[r.uid]
        IN  /\ \A v \in Uids \ {r.uid} : streams'[v] = streams[v]
            /\ r.name \in NamesOf(s) /\ (\A i, j \in DOMAIN s : s[i].name = s[j].name => i = j) =>
                 /\ NamesOf(streams'[r.uid]) = NamesOf(s) \ {r.name}
                 /\ Len(streams'[r.uid]) = Len(s) - 1
<1>1. FullInv /\ [RtcNext]_rtcAllVars => Removes
  BY DeleteStepRemovesNamed DEF DistinctNames
<1> QED
  BY <1>1, FullInvariant, PTL DEF RtcSpec, DeleteRemovesNamed, rtcAllVars

(* So does it in the wired process, whose StopStream messages and DELETE   *)
(* requests may name streams that are gone.                                *)
THEOREM RelayDeleteRemovesNamed == Spec => DeleteRemovesNamed
  BY RelayRefinesRtc, RtcDeleteRemovesNamed, PTL

-----------------------------------------------------------------------------
(* The live streams of the table are those of the lists.                   *)
Live == [u \in Uids |-> Entries(streams[u])]
registryVars == <<members, Live, roster, reply>>

(* The names of the table are those the goroutine collects.                *)
LEMMA LiveNamesCollected ==
  ASSUME RtcInv, StreamsTypeOK
  PROVE  {n \in Names : \E u \in members : FirstOr0(streams[u], "name", n) # 0} = Registered!LiveNames
<1> USE DEF RtcInv, MembershipTypeOK, StreamsTypeOK, Entries
<1>1. ASSUME NEW n \in Names, NEW u \in members
      PROVE  FirstOr0(streams[u], "name", n) # 0 <=> \E e \in Live[u] : e[2] = n
  <2>1. streams[u] \in Seq(StreamInfo)
    OBVIOUS
  <2>2. FirstOr0(streams[u], "name", n) # 0 <=> \E j \in DOMAIN streams[u] : streams[u][j].name = n
    <3> DEFINE s == streams[u]
    <3>1. /\ (\E j \in DOMAIN s : s[j]["name"] = n) => FirstOr0(s, "name", n) \in DOMAIN s
          /\ (\A j \in DOMAIN s : s[j]["name"] # n) => FirstOr0(s, "name", n) = 0
      BY <2>1, FirstOr0Finds
    <3>2. 0 \notin DOMAIN s
      BY <2>1
    <3> QED
      BY <3>1, <3>2
  <2>3. Live[u] = {<<streams[u][j].id, streams[u][j].name>> : j \in DOMAIN streams[u]}
    BY DEF Live
  <2>4. (\E j \in DOMAIN streams[u] : streams[u][j].name = n) <=> (\E e \in Live[u] : e[2] = n)
    <3>1. ASSUME NEW j \in DOMAIN streams[u], streams[u][j].name = n
          PROVE  \E e \in Live[u] : e[2] = n
      <4>1. <<streams[u][j].id, streams[u][j].name>> \in Live[u]
        BY <2>3
      <4>2. <<streams[u][j].id, streams[u][j].name>>[2] = n
        BY <3>1
      <4> HIDE DEF Live
      <4> QED
        BY <4>1, <4>2, Zenon
    <3>2. ASSUME NEW e \in Live[u], e[2] = n
          PROVE  \E j \in DOMAIN streams[u] : streams[u][j].name = n
      <4>1. PICK j \in DOMAIN streams[u] : e = <<streams[u][j].id, streams[u][j].name>>
        BY <2>3
      <4> QED
        BY <3>2, <4>1
    <3> QED
      BY <3>1, <3>2, Zenon
  <2> QED
    BY <2>2, <2>4
<1>2. ASSUME NEW u \in members, NEW e \in Live[u]
      PROVE  e[2] \in Names
  <2>1. PICK j \in DOMAIN streams[u] : e = <<streams[u][j].id, streams[u][j].name>>
    BY DEF Live
  <2>2. streams[u][j] \in StreamInfo
    OBVIOUS
  <2> QED
    BY <2>1, <2>2 DEF StreamInfo
<1>3. Registered!LiveNames = {e[2] : e \in UNION {Live[u] : u \in members}}
  BY DEF Registered!LiveNames, Live
<1> QED
  BY <1>1, <1>2, <1>3

(* The requests of the table are those the goroutines have taken.          *)
Joining == IF step["joinWebRTC"] = "recv" THEN None
           ELSE [uid |-> req["joinWebRTC"].uid, list |-> Entries(req["joinWebRTC"].streams)]
Leaving == IF step["leaveWebRTC"] = "recv" THEN None ELSE req["leaveWebRTC"].uid
Removing == IF step["deleteStream"] = "lock" THEN req["deleteStream"] ELSE None
Asking == IF step["getActiveStreams"] = "recv" THEN None ELSE req["getActiveStreams"].recvChan
takenVars == <<Joining, Leaving, Removing, Asking>>

(* A goroutine of which neither the place nor the request changes has      *)
(* taken nothing and served nothing.                                       *)
LEMMA SameTaken ==
  /\ (step'["joinWebRTC"] = "recv") = (step["joinWebRTC"] = "recv")
       /\ req'["joinWebRTC"] = req["joinWebRTC"] => Joining' = Joining
  /\ (step'["leaveWebRTC"] = "recv") = (step["leaveWebRTC"] = "recv")
       /\ req'["leaveWebRTC"] = req["leaveWebRTC"] => Leaving' = Leaving
  /\ (step'["deleteStream"] = "lock") = (step["deleteStream"] = "lock")
       /\ (step["deleteStream"] = "lock" => req'["deleteStream"] = req["deleteStream"]) => Removing' = Removing
  /\ (step'["getActiveStreams"] = "recv") = (step["getActiveStreams"] = "recv")
       /\ req'["getActiveStreams"] = req["getActiveStreams"] => Asking' = Asking
  BY DEF Joining, Leaving, Removing, Asking, Entries

(* The entries of a list are pairs of an id and a name.                    *)
LEMMA EntriesTyped ==
  ASSUME NEW s \in Seq(StreamInfo)
  PROVE  Entries(s) \in SUBSET Registered!Streams
<1>1. \A j \in DOMAIN s : s[j] \in StreamInfo
  OBVIOUS
<1>2. \A j \in DOMAIN s : <<s[j].id, s[j].name>> \in Ids \X Names
  BY <1>1 DEF StreamInfo
<1> QED
  BY <1>2 DEF Entries, Registered!Streams

(* A request that goroutine g takes is a request of the table, or none of  *)
(* its business.                                                           *)
LEMMA TakeStep ==
  ASSUME RtcInv, NEW g \in RtcGoroutines, NEW r \in RequestsTo(g), Receive(g, r),
         UNCHANGED <<registry, roster, reply>>
  PROVE  Registered!Take \/ UNCHANGED <<registryVars, takenVars>>
<1> USE DEF RtcInv, MembershipTypeOK, ReqKnown, Receive, RtcGoroutines, Lockers, Forwarders
<1>1. UNCHANGED registryVars
  BY DEF registryVars, Live, registry
<1>2. CASE g = "joinWebRTC"
  <2> DEFINE t == [uid |-> r.uid, list |-> Entries(r.streams)]
  <2>1. r.uid \in Uids /\ r.streams \in Seq(StreamInfo)
    BY <1>2, StreamListsAssumption DEF RequestsTo
  <2>2. t \in Registered!JoinRequests
    BY <2>1, EntriesTyped DEF Registered!JoinRequests
  <2>3. Joining = None /\ Joining' = t
    BY <1>2 DEF Joining, Entries
  <2>4. UNCHANGED <<Leaving, Removing, Asking>>
    BY <1>2, SameTaken
  <2> HIDE DEF t
  <2> QED
    BY <1>1, <2>2, <2>3, <2>4
    DEF Registered!Take, Registered!table, registryVars, Live, Joining, Leaving, Removing, Asking
<1>3. CASE g = "leaveWebRTC"
  <2>1. r.uid \in Uids
    BY <1>3 DEF RequestsTo
  <2>2. Leaving = None /\ Leaving' = r.uid
    BY <1>3 DEF Leaving
  <2>3. UNCHANGED <<Joining, Removing, Asking>>
    BY <1>3, SameTaken
  <2> QED
    BY <1>1, <2>1, <2>2, <2>3
    DEF Registered!Take, Registered!table, registryVars, Live, Joining, Leaving, Removing, Asking
<1>4. CASE g = "deleteStream"
  <2>1. r \in Registered!RemoveRequests
    BY <1>4 DEF RequestsTo, Registered!RemoveRequests
  <2>2. Removing = None /\ Removing' = r
    BY <1>4 DEF Removing
  <2>3. UNCHANGED <<Joining, Leaving, Asking>>
    BY <1>4, SameTaken
  <2> QED
    BY <1>1, <2>1, <2>2, <2>3
    DEF Registered!Take, Registered!table, registryVars, Live, Joining, Leaving, Removing, Asking
<1>5. CASE g = "getActiveStreams"
  <2>1. r.recvChan \in Https
    BY <1>5 DEF RequestsTo
  <2>2. Asking = None /\ Asking' = r.recvChan
    BY <1>5 DEF Asking
  <2>3. UNCHANGED <<Joining, Leaving, Removing>>
    BY <1>5, SameTaken
  <2> QED
    BY <1>1, <2>1, <2>2, <2>3
    DEF Registered!Take, Registered!table, registryVars, Live, Joining, Leaving, Removing, Asking
<1>6. CASE g \notin {"joinWebRTC", "leaveWebRTC", "deleteStream", "getActiveStreams"}
  BY <1>1, <1>6, SameTaken DEF takenVars
<1> QED
  BY <1>2, <1>3, <1>4, <1>5, <1>6

(* A deletion takes the named entry out of the table, or another when      *)
(* there is none, or nothing when there is nothing.                        *)
LEMMA DeleteStep ==
  ASSUME FullInv, \A s \in StreamLists : DistinctIds(s), DeleteLock \/ DeletePanic
  PROVE  Registered!Remove
<1> USE DEF FullInv, RtcInv, MembershipTypeOK, ReqKnown, StreamsTypeOK, RtcGoroutines, Lockers
<1> DEFINE r == req["deleteStream"]
           s == streams[r.uid]
           i == IndexToDelete(s, r.name)
           e == <<s[i].id, s[i].name>>
<1>1. /\ step["deleteStream"] = "lock" /\ step' = [step EXCEPT !["deleteStream"] = "notify"]
      /\ req' = req /\ members' = members /\ roster' = roster /\ reply' = reply
  BY DEF DeleteLock, DeletePanic, RtcLock, registry
<1>2. r \in Registered!RemoveRequests
  <2>1. r \in [uid : Uids, name : Names]
    BY <1>1 DEF RequestsTo, Forwarders
  <2> QED
    BY <2>1 DEF Registered!RemoveRequests
<1>3. r.uid \in Uids /\ r.name \in Names
  BY <1>2 DEF Registered!RemoveRequests
<1>4. Removing = r /\ Removing' = None
  BY <1>1 DEF Removing
<1>5. UNCHANGED <<Joining, Leaving, Asking>>
  BY <1>1, SameTaken
<1>6. Live[r.uid] = Entries(s)
  BY <1>3 DEF Live
<1>7. \/ Registered!Removable(r.uid, r.name) = {} /\ Live' = Live
      \/ \E f \in Registered!Removable(r.uid, r.name) : Live' = [Live EXCEPT ![r.uid] = @ \ {f}]
  <2>1. CASE s = <<>>
    <3>1. streams' = streams
      <4>1. CASE DeleteLock
        BY <1>3, <2>1, <4>1 DEF DeleteLock
      <4>2. CASE DeletePanic
        BY <4>2 DEF DeletePanic, registry
      <4> QED
        BY <4>1, <4>2
    <3>2. Live[r.uid] = {}
      BY <1>6, <2>1 DEF Entries
    <3>3. Registered!Removable(r.uid, r.name) = {}
      BY <3>2 DEF Registered!Removable, Live
    <3> QED
      BY <3>1, <3>3 DEF Live
  <2>2. CASE s # <<>>
    <3>1. r.uid \in members
      BY <1>3, <2>2 DEF ListsInv
    <3>2. s \in Seq(StreamInfo) /\ DistinctIds(s)
      BY <1>3, <3>1 DEF ListsInv, AsJoined
    <3>3. i \in DOMAIN s /\ ((\E j \in DOMAIN s : s[j].name = r.name) => s[i].name = r.name)
      BY <2>2, <3>2, IndexToDeleteFinds
    <3>4. Entries(WithoutIndex(s, i)) = Entries(s) \ {e}
      BY <3>2, <3>3, WithoutIndexEntries
    <3>5. streams' = [streams EXCEPT ![r.uid] = WithoutIndex(s, i)]
      BY <2>2, <3>1 DEF DeleteLock, DeletePanic
    <3>6. e \in Live[r.uid]
      BY <1>6, <3>3 DEF Entries
    <3>7. e \in Registered!Removable(r.uid, r.name)
      <4>1. (\E f \in Live[r.uid] : f[2] = r.name) => e[2] = r.name
        BY <1>6, <3>3 DEF Entries
      <4>2. {f \in Live[r.uid] : f[2] = r.name} = {} \/ e \in {f \in Live[r.uid] : f[2] = r.name}
        BY <3>6, <4>1
      <4> QED
        BY <3>6, <4>2 DEF Registered!Removable, Live
    <3> HIDE DEF e, i
    <3>8. Live' = [Live EXCEPT ![r.uid] = Entries(WithoutIndex(s, i))]
      BY <1>3, <3>5 DEF Live
    <3>9. Live' = [Live EXCEPT ![r.uid] = @ \ {e}]
      BY <1>6, <3>4, <3>8
    <3> QED
      BY <3>7, <3>9
  <2> QED
    BY <2>1, <2>2
<1> HIDE DEF r, s, i, e
<1> QED
  BY <1>1, <1>2, <1>4, <1>5, <1>7
  DEF Registered!Remove, Live, Joining, Leaving, Removing, Asking

(* Every step of the WebRTC server is one of the table, or none of its     *)
(* business.                                                               *)
LEMMA RegistryStep ==
  ASSUME FullInv, \A s \in StreamLists : DistinctIds(s), [RtcNext]_rtcAllVars
  PROVE  Registered!Next \/ UNCHANGED <<registryVars, takenVars>>
<1> USE DEF FullInv, RtcInv, MembershipTypeOK, ReqKnown, StreamsTypeOK, RtcGoroutines, Lockers, Forwarders
<1>1. ASSUME UNCHANGED <<registry, roster, reply>>
      PROVE  UNCHANGED registryVars
  BY <1>1 DEF registryVars, Live, registry
<1>2. CASE JoinReply
  <2> DEFINE u == req["joinWebRTC"].uid
             list == Entries(req["joinWebRTC"].streams)
             t == [uid |-> u, list |-> list]
  <2>1. u \in Uids /\ req["joinWebRTC"].streams \in Seq(StreamInfo)
    BY <1>2, StreamListsAssumption DEF JoinReply, RequestsTo
  <2>2. t \in Registered!JoinRequests
    BY <2>1, EntriesTyped DEF Registered!JoinRequests
  <2>3. Live' = [Live EXCEPT ![u] = list]
    BY <1>2, <2>1 DEF JoinReply, Live
  <2>4. users = members \ {u}
    BY <1>2 DEF JoinReply, UsersStillTheOthers
  <2>5. /\ members' = members \cup {u}
        /\ roster' = [roster EXCEPT ![u] = members \ {u}]
        /\ reply' = reply
        /\ step["joinWebRTC"] = "reply" /\ step' = [step EXCEPT !["joinWebRTC"] = "recv"]
        /\ req' = [req EXCEPT !["joinWebRTC"] = None]
    BY <1>2, <2>4 DEF JoinReply, RtcUnlock, Done
  <2>6. Joining = t /\ Joining' = None
    BY <2>5 DEF Joining
  <2>7. UNCHANGED <<Leaving, Removing, Asking>>
    BY <2>5, SameTaken
  <2>8. t.uid = u /\ t.list = list
    OBVIOUS
  <2> HIDE DEF t, u, list
  <2>9. Registered!Join
    BY <2>2, <2>3, <2>5, <2>6, <2>7, <2>8 DEF Registered!Join, Live, Joining, Leaving, Removing, Asking
  <2> QED
    BY <2>9 DEF Registered!Next
<1>3. CASE LeaveNotify
  <2> DEFINE u == req["leaveWebRTC"].uid
  <2>1. u \in Uids
    BY <1>3, RequestHasUid DEF LeaveNotify
  <2>2. Live' = [Live EXCEPT ![u] = {}]
    <3>1. Entries(<<>>) = {}
      BY DEF Entries
    <3>2. streams' = [streams EXCEPT ![u] = <<>>]
      BY <1>3 DEF LeaveNotify
    <3> HIDE DEF u
    <3> QED
      BY <2>1, <3>1, <3>2 DEF Live
  <2>3. /\ members' = members \ {u} /\ roster' = roster /\ reply' = reply
        /\ step["leaveWebRTC"] = "notify" /\ step' = [step EXCEPT !["leaveWebRTC"] = "recv"]
        /\ req' = [req EXCEPT !["leaveWebRTC"] = None]
    BY <1>3 DEF LeaveNotify, RtcUnlock, Done
  <2>4. Leaving = u /\ Leaving' = None
    BY <2>3 DEF Leaving
  <2>5. UNCHANGED <<Joining, Removing, Asking>>
    BY <2>3, SameTaken
  <2> HIDE DEF u
  <2>6. Registered!Leave
    BY <2>1, <2>2, <2>3, <2>4, <2>5 DEF Registered!Leave, Live, Joining, Leaving, Removing, Asking
  <2> QED
    BY <2>6 DEF Registered!Next
<1>4. CASE MotionLock
  <2> DEFINE r == req["motionUpdate"]
  <2>1. r.uid \in Uids /\ r.uid \in members => streams[r.uid] \in Seq(StreamInfo)
    BY <1>4, RequestHasUid DEF MotionLock, RtcLock
  <2>2. \A u \in Uids : Entries(streams'[u]) = Entries(streams[u])
    BY <1>4, <2>1, SetMotionKeepsEntries DEF MotionLock
  <2>3. Live' = Live
    BY <2>2 DEF Live
  <2>4. UNCHANGED takenVars
    BY <1>4, SameTaken DEF MotionLock, RtcLock, takenVars
  <2> QED
    BY <1>4, <2>3, <2>4 DEF MotionLock, RtcLock, registryVars
<1>5. CASE DeleteLock \/ DeletePanic
  BY <1>5, DeleteStep DEF Registered!Next
<1>6. CASE ActiveStreams
  <2> DEFINE h == req["getActiveStreams"].recvChan
  <2>1. h \in Https
    BY <1>6 DEF ActiveStreams, RequestsTo
  <2>2. /\ step["getActiveStreams"] = "lock" /\ step' = [step EXCEPT !["getActiveStreams"] = "recv"]
        /\ req' = [req EXCEPT !["getActiveStreams"] = None]
    BY <1>6 DEF ActiveStreams, Done
  <2>3. Asking = h /\ Asking' = None
    BY <2>2 DEF Asking
  <2>4. UNCHANGED <<Joining, Leaving, Removing>>
    BY <2>2, SameTaken
  <2>5. reply' = [reply EXCEPT ![h] = Registered!LiveNames]
    BY <1>6, LiveNamesCollected DEF ActiveStreams
  <2>6. Live' = Live /\ members' = members /\ roster' = roster
    BY <1>6 DEF ActiveStreams, Live, registry
  <2> HIDE DEF h
  <2>7. Registered!Answer
    BY <2>1, <2>3, <2>4, <2>5, <2>6 DEF Registered!Answer, Live, Joining, Leaving, Removing, Asking
  <2> QED
    BY <2>7 DEF Registered!Next
<1>7. CASE JoinLock \/ JoinNotify \/ LeaveLock \/ MotionNotify \/ DeleteNotify
  <2>1. UNCHANGED takenVars
    BY <1>7, SameTaken DEF JoinLock, JoinNotify, LeaveLock, MotionNotify, DeleteNotify, RtcLock, RtcUnlock,
         Done, takenVars
  <2> QED
    BY <1>1, <1>7, <2>1 DEF JoinLock, JoinNotify, LeaveLock, MotionNotify, DeleteNotify, RtcLock, registry
<1>8. CASE ForwardSignals
  <2>1. UNCHANGED takenVars
    BY <1>8, SameTaken DEF ForwardSignals, ForwardSignal, Done, takenVars
  <2> QED
    BY <1>1, <1>8, <2>1 DEF ForwardSignals, ForwardSignal
<1>9. CASE WatchReceive
  <2>1. UNCHANGED takenVars
    BY <1>9, SameTaken DEF WatchReceive, Receive, takenVars
  <2> QED
    BY <1>1, <1>9, <2>1 DEF WatchReceive
<1>10. CASE WatchSend
  <2> DEFINE u == req["watchForSocketDisconnect"].uid
  <2>1. u \in Uids
    BY <1>10, RequestHasUid DEF WatchSend
  <2>2. /\ step["leaveWebRTC"] = "recv" /\ step'["leaveWebRTC"] = "lock"
        /\ req'["leaveWebRTC"] = req["watchForSocketDisconnect"]
        /\ \A g \in {"joinWebRTC", "deleteStream", "getActiveStreams"} :
             step'[g] = step[g] /\ req'[g] = req[g]
    BY <1>10 DEF WatchSend
  <2>3. Leaving = None /\ Leaving' = u
    BY <2>2 DEF Leaving
  <2>4. UNCHANGED <<Joining, Removing, Asking>>
    BY <2>2, SameTaken
  <2>5. UNCHANGED registryVars
    BY <1>1, <1>10 DEF WatchSend
  <2> HIDE DEF u
  <2>6. Registered!Take
    BY <2>1, <2>3, <2>4, <2>5
    DEF Registered!Take, Registered!table, registryVars, Live, Joining, Leaving, Removing, Asking
  <2> QED
    BY <2>6 DEF Registered!Next
<1>11. CASE RtcEnv
  <2>1. ASSUME NEW g \in RtcGoroutines, NEW r \in RequestsTo(g), SendRtc(g, r)
        PROVE  Registered!Take \/ UNCHANGED <<registryVars, takenVars>>
    BY <2>1, TakeStep DEF SendRtc
  <2>2. CASE UNCHANGED rtcVars
    BY <1>1, <2>2, SameTaken DEF rtcVars, registry, takenVars
  <2> QED
    BY <1>11, <2>1, <2>2 DEF RtcEnv, Registered!Next
<1>12. CASE RtcInternal \/ UNCHANGED rtcAllVars
  <2>1. UNCHANGED rtcVars
    BY <1>12 DEF RtcInternal, rtcAllVars
  <2> QED
    BY <1>1, <2>1, SameTaken DEF rtcVars, registry, takenVars
<1> QED
  BY <1>2, <1>3, <1>4, <1>5, <1>6, <1>7, <1>8, <1>9, <1>10, <1>11, <1>12 DEF RtcNext, RtcStep

-----------------------------------------------------------------------------
(* The WebRTC server implements the table: every join, leave, deletion and *)
(* answer takes effect once and at one instant, whatever else is under way,*)
(* as long as no client joins with a list that has a stream in it twice.   *)
THEOREM RtcRefinesRegistry ==
  ASSUME \A s \in StreamLists : DistinctIds(s)
  PROVE  RtcSpec => Linearizable
<1>1. RtcInit => Registered!Init
  BY DEF RtcInit, Registered!Init, Entries, RtcGoroutines, Lockers
<1>2. FullInv /\ [RtcNext]_rtcAllVars => [Registered!Next]_(Registered!vars)
  <2>1. UNCHANGED <<registryVars, takenVars>> => UNCHANGED Registered!vars
    BY DEF registryVars, takenVars, Registered!vars, Registered!table, Registered!requests,
         Live, Joining, Leaving, Removing, Asking
  <2> QED
    BY <2>1, RegistryStep
<1> QED
  BY <1>1, <1>2, FullInvariant, PTL DEF RtcSpec, Linearizable, Registered!Spec, rtcAllVars

(* So does the wired process.                                              *)
THEOREM RelayRefinesRegistry ==
  ASSUME \A s \in StreamLists : DistinctIds(s)
  PROVE  Spec => Linearizable
  BY RelayRefinesRtc, RtcRefinesRegistry, PTL
=============================================================================
