------------------------------- MODULE Waiting -------------------------------
(***************************************************************************)
(* Who waits for whom in Relay.  A goroutine blocks at a Lock, or at a     *)
(* send on an unbuffered channel whose receiver is busy; it never waits    *)
(* for two things at once, so "waits for" is a function, and a deadlock of *)
(* the server is a cycle of it.                                            *)
(***************************************************************************)
EXTENDS Relay

Goroutines == Senders \cup Registrars \cup RtcGoroutines \cup {"messageLoop"}

(* The goroutine g has to wait for before its next step, or "none".        *)
IfBusy(g) ==
  IF g \in RtcGoroutines THEN IF step[g] # "recv" THEN g ELSE "none"
  ELSE IF phase[g] # "recv" THEN g ELSE "none"

IfHeld(mutex) == IF mutex # "free" THEN mutex ELSE "none"

SocketWaitsFor(g) ==
  CASE phase[g] = "lock" -> IfHeld(connMutex)
    [] phase[g] = "write" /\ left[g] # {} /\ writing # None -> "messageLoop"
    [] phase[g] = "handoff" -> IfBusy("watchForSocketDisconnect")
    [] OTHER -> "none"

NotifyTo == [joinWebRTC |-> "sendDataToUids", leaveWebRTC |-> "sendDataToUids",
             motionUpdate |-> "sendDataToAllExcept", deleteStream |-> "sendDataToAll"]

RtcWaitsFor(g) ==
  CASE step[g] = "recv" -> "none"
    [] step[g] = "notify" -> IfBusy(NotifyTo[g])
    [] step[g] = "reply" -> IfBusy("sendDataToUid")
    [] step[g] = "lock" /\ g = "watchForSocketDisconnect" -> IfBusy("leaveWebRTC")
    [] step[g] = "lock" /\ g \in Forwarders -> IfBusy("sendDataToUid")
    [] OTHER -> IfHeld(rtcMutex)

WaitsFor(g) ==
  IF g \in RtcGoroutines THEN RtcWaitsFor(g)
  ELSE IF g = "messageLoop" THEN "none"
  ELSE SocketWaitsFor(g)

(* unregisterConn, holding the mutex of the connections, waits on rtcDC.   *)
InHandOff(g) == g = "unregisterConn" /\ phase[g] = "handoff"

(* The order in which the goroutines use each other: disconnect watcher,   *)
(* WebRTC goroutine, holder of the registry, socket goroutine, holder of   *)
(* the connections, messageLoop.                                           *)
Rank(g) ==
  CASE g = "messageLoop" -> 6
    [] g = "watchForSocketDisconnect" -> 1
    [] g \in RtcGoroutines \ {"watchForSocketDisconnect"} ->
         IF step[g] \in {"notify", "reply"} THEN 3 ELSE 2
    [] g \in Senders \cup Registrars ->
         IF phase[g] \in {"write", "handoff"} THEN 5 ELSE 4

(* Every wait goes up in that order, except that of unregisterConn for     *)
(* rtcDC.  Joins, leaves, signals, broadcasts and deletes alone, however   *)
(* they interleave, can therefore never wait for each other in a circle;   *)
(* any circle passes through unregisterConn (socketServer.go:249).         *)
LockOrder ==
  \A g \in Goroutines :
    ~InHandOff(g) /\ WaitsFor(g) # "none" => Rank(g) < Rank(WaitsFor(g))

(* The goroutine at the end of n waits that start at unregisterConn.       *)
WaitChain[n \in 0 .. 6] ==
  IF n = 0 THEN "unregisterConn"
  ELSE IF WaitChain[n - 1] = "none" THEN "none" ELSE WaitsFor(WaitChain[n - 1])

CircularWait == \E n \in 1 .. 6 : WaitChain[n] = "unregisterConn"

Stopped == CircularWait \/ ~alive

(* A WebSocket handler that hands over an event or (un)registers its       *)
(* connection gets to go on, unless the servers have stopped: by the       *)
(* circle above or by the panic of deleteStream.  Nothing else can keep it *)
(* waiting for ever.                                                       *)
HandlersServed ==
  \A c \in Conns :
    handler[c] \in {"register", "send", "unregister"} ~>
      handler[c] \notin {"register", "send", "unregister"} \/ Stopped

(* An HTTP handler that waits for the two servers, without a timeout, gets *)
(* to its answer, unless the servers have stopped.                         *)
HttpServed == \A h \in Https : http[h] \notin {"idle", "done"} ~> http[h] = "done" \/ Stopped

(* main.go:28 makes a "WebRTC server socket disconnect UID channel": the   *)
(* uid of a connection that has closed gets through it.                    *)
DisconnectDelivered ==
  phase["unregisterConn"] = "handoff" ~> phase["unregisterConn"] # "handoff"

(* Every goroutine is back at its receive, every connection that was       *)
(* opened has closed, and unregisterConn has found each of them in the map *)
(* and handed over its uid.                                                *)
AllHandedOver ==
  /\ \A g \in Goroutines \ {"messageLoop"} : IfBusy(g) = "none"
  /\ \A c \in Conns : handler[c] \in {"closed", "gone"} /\ conns[c] = None

(* By the "WebRTC server socket disconnect UID channel" of main.go:28 the  *)
(* WebRTC server has then been told of all of them, and nobody is in its   *)
(* registry any more.                                                      *)
GoneWhenDisconnected == AllHandedOver => members = {}
=============================================================================
