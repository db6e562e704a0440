-------------------------------- MODULE Relay --------------------------------
(***************************************************************************)
(* The server process as main.go wires it: the socket server, the WebRTC   *)
(* server, one WebSocket handler goroutine per connection                  *)
(* (handlers/socket.go, socketHandler.go) and the HTTP handlers that talk  *)
(* to the two servers (handlers/video.go, auth.go).                        *)
(*                                                                         *)
(* A WebSocket handler registers its connection, then reads one event at a *)
(* time and hands it to the WebRTC server, waiting until it is taken; when *)
(* the read fails it unregisters.  PING, and messages that fail            *)
(* validation, change no state of the two servers and are left out, but    *)
(* for the invalid message that ends the handler (Disconnect).             *)
(***************************************************************************)
EXTENDS WebRTCServer

CONSTANTS Kinds,      \* the kinds of events the clients send in this instance
          HttpKinds,  \* the kinds of HTTP requests, likewise
          MaxEvents   \* bound: events read from all connections together

(* The events handleSocketEvent knows; any other is refused.               *)
EventKinds == {"WEBRTC_JOIN", "WEBRTC_LEAVE", "WEBRTC_SENDING_SIGNAL",
               "WEBRTC_RETURNING_SIGNAL", "WEBRTC_MOTION_UPDATE"}

ASSUME KindsAssumption == Kinds \subseteq EventKinds
ASSUME MaxEventsAssumption == MaxEvents \in Nat

VARIABLES
  handler,    \* where the WebSocket handler of a connection is
  event,      \* the event it hands to the WebRTC server, or None
  http,       \* where an HTTP handler is
  httpReq,    \* the DeleteStream request of an HTTP handler, or None
  events      \* events read so far

relayVars == <<handler, event, http, httpReq, events>>
vars == <<socketVars, rtcVars, relayVars>>

Init ==
  /\ RtcInit
  /\ handler = [c \in Conns |-> "closed"]
  /\ event = [c \in Conns |-> None]
  /\ http = [h \in Https |-> "idle"]
  /\ httpReq = [h \in Https |-> None]
  /\ events = 0

-----------------------------------------------------------------------------
(* The goroutine of the WebRTC server that serves a kind of event, and the *)
(* request the handler of connection c builds: the uid is always the       *)
(* connection's own.                                                       *)
GoroutineFor(kind) ==
  CASE kind = "WEBRTC_JOIN" -> "joinWebRTC"
    [] kind = "WEBRTC_LEAVE" -> "leaveWebRTC"
    [] kind = "WEBRTC_SENDING_SIGNAL" -> "sendWebRTCSignals"
    [] kind = "WEBRTC_RETURNING_SIGNAL" -> "returningWebRTCSignals"
    [] kind = "WEBRTC_MOTION_UPDATE" -> "motionUpdate"

EventsFrom(c) ==
  UNION {{[to |-> GoroutineFor(k), req |-> r] :
            r \in {q \in RequestsTo(GoroutineFor(k)) : q.uid = UidOf[c]}} : k \in Kinds}

(* WebSocketAuth has passed and the upgrade is done.                       *)
Connect(c) ==
  /\ handler[c] = "closed"
  /\ handler' = [handler EXCEPT ![c] = "register"]
  /\ UNCHANGED <<socketVars, rtcVars, event, http, httpReq, events>>

Register(c) ==
  /\ handler[c] = "register"
  /\ SendConn("registerConn", c)
  /\ handler' = [handler EXCEPT ![c] = "open"]
  /\ UNCHANGED <<rtcVars, event, http, httpReq, events>>

ReadMessage(c) ==
  /\ handler[c] = "open"
  /\ events < MaxEvents
  /\ events' = events + 1
  /\ \E e \in EventsFrom(c) : event' = [event EXCEPT ![c] = e]
  /\ handler' = [handler EXCEPT ![c] = "send"]
  /\ UNCHANGED <<socketVars, rtcVars, http, httpReq>>

(* Mutant: the event is not forgotten when it has been handed over.        *)
EventKept(c) ==
  /\ handler[c] = "send"
  /\ SendRtc(event[c].to, event[c].req)
  /\ handler' = [handler EXCEPT ![c] = "open"]
  /\ UNCHANGED <<event, http, httpReq, events>>

(* handleSocketEvent: the send on a channel of the WebRTC server.          *)
HandleSocketEvent(c) ==
  /\ handler[c] = "send"
  /\ SendRtc(event[c].to, event[c].req)
  /\ handler' = [handler EXCEPT ![c] = "open"]
  /\ event' = [event EXCEPT ![c] = None]
  /\ UNCHANGED <<http, httpReq, events>>

(* ReadMessage fails, or the message is not JSON: the handler returns.     *)
Disconnect(c) ==
  /\ handler[c] = "open"
  /\ handler' = [handler EXCEPT ![c] = "unregister"]
  /\ UNCHANGED <<socketVars, rtcVars, event, http, httpReq, events>>

(* Its deferred send.                                                      *)
Unregister(c) ==
  /\ handler[c] = "unregister"
  /\ SendConn("unregisterConn", c)
  /\ handler' = [handler EXCEPT ![c] = "gone"]
  /\ UNCHANGED <<rtcVars, event, http, httpReq, events>>

-----------------------------------------------------------------------------
(* HTTP handlers, each serving one request.  The database is external: its *)
(* answers are any the handler distinguishes.                              *)

(* DELETE /api/streams/:name, authorised and with a pool connection.       *)
BeginDelete(h) ==
  /\ http[h] = "idle"
  /\ "delete" \in HttpKinds
  /\ \E r \in RequestsTo("deleteStream") : httpReq' = [httpReq EXCEPT ![h] = r]
  /\ http' = [http EXCEPT ![h] = "rtc"]
  /\ UNCHANGED <<socketVars, rtcVars, handler, event, events>>

SendDeleteStream(h) ==
  /\ http[h] = "rtc"
  /\ SendRtc("deleteStream", httpReq[h])
  /\ http' = [http EXCEPT ![h] = "row"]
  /\ httpReq' = [httpReq EXCEPT ![h] = None]
  /\ UNCHANGED <<handler, event, events>>

(* The DELETE statement returns the id of a row, or the handler answers    *)
(* with an error.                                                          *)
DeleteRow(h) ==
  /\ http[h] = "row"
  /\ \E next \in {"announce", "done"} : http' = [http EXCEPT ![h] = next]
  /\ UNCHANGED <<socketVars, rtcVars, handler, event, httpReq, events>>

(* StreamerRegister or InitialLogin has inserted a streamer.               *)
BeginNewStreamer(h) ==
  /\ http[h] = "idle"
  /\ "login" \in HttpKinds
  /\ http' = [http EXCEPT ![h] = "announce"]
  /\ UNCHANGED <<socketVars, rtcVars, handler, event, httpReq, events>>

(* DeleteStream, StreamerRegister and InitialLogin tell everybody.         *)
Announce(h) ==
  /\ http[h] = "announce"
  /\ Send("sendDataToAll", Uids, Note("CHANGE", None))
  /\ http' = [http EXCEPT ![h] = "done"]
  /\ UNCHANGED <<rtcVars, handler, event, httpReq, events>>

(* GET /api/streams/old                                                    *)
BeginGetOldStreams(h) ==
  /\ http[h] = "idle"
  /\ "old" \in HttpKinds
  /\ http' = [http EXCEPT ![h] = "ask"]
  /\ UNCHANGED <<socketVars, rtcVars, handler, event, httpReq, events>>

SendGetActiveStreams(h) ==
  /\ http[h] = "ask"
  /\ SendRtc("getActiveStreams", [recvChan |-> h])
  /\ http' = [http EXCEPT ![h] = "await"]
  /\ UNCHANGED <<handler, event, httpReq, events>>

ReceiveActiveStreams(h) ==
  /\ http[h] = "await"
  /\ reply[h] # None
  /\ http' = [http EXCEPT ![h] = "done"]
  /\ UNCHANGED <<socketVars, rtcVars, handler, event, httpReq, events>>

-----------------------------------------------------------------------------
HandlerStep(c) ==
  \/ Connect(c) \/ Register(c)
  \/ ReadMessage(c) \/ HandleSocketEvent(c)
  \/ Disconnect(c) \/ Unregister(c)

HttpStep(h) ==
  \/ BeginDelete(h) \/ SendDeleteStream(h) \/ DeleteRow(h)
  \/ BeginNewStreamer(h) \/ Announce(h)
  \/ BeginGetOldStreams(h) \/ SendGetActiveStreams(h) \/ ReceiveActiveStreams(h)

Next ==
  /\ alive
  /\ \/ (RtcStep \/ RtcInternal) /\ UNCHANGED relayVars
     \/ \E c \in Conns : HandlerStep(c)
     \/ \E h \in Https : HttpStep(h)

Spec == Init /\ [][Next]_vars

(* A goroutine that can go on does.  Nothing makes a client connect, send  *)
(* or disconnect, or an HTTP request arrive.                               *)
Fairness ==
  /\ WF_vars(alive /\ LockOne /\ UNCHANGED <<rtcVars, relayVars>>)
  /\ \A g \in Senders :
       WF_vars(alive /\ (LockMany(g) \/ Write(g) \/ Unlock(g)) /\ UNCHANGED <<rtcVars, relayVars>>)
  /\ WF_vars(alive /\ MessageLoop /\ UNCHANGED <<rtcVars, relayVars>>)
  /\ WF_vars(alive /\ RegisterConn /\ UNCHANGED <<rtcVars, relayVars>>)
  /\ WF_vars(alive /\ (UnregisterLock \/ UnregisterUnknown) /\ UNCHANGED <<rtcVars, relayVars>>)
  /\ WF_vars(alive /\ (WatchReceive \/ WatchSend) /\ UNCHANGED relayVars)
  /\ WF_vars(alive /\ (JoinLock \/ JoinNotify \/ JoinReply) /\ UNCHANGED relayVars)
  /\ WF_vars(alive /\ (LeaveLock \/ LeaveNotify) /\ UNCHANGED relayVars)
  /\ WF_vars(alive /\ ForwardSignal("sendWebRTCSignals", "WEBRTC_JOINED_SIGNAL") /\ UNCHANGED relayVars)
  /\ WF_vars(alive /\ ForwardSignal("returningWebRTCSignals", "WEBRTC_RETURN_SIGNAL_OUT")
                   /\ UNCHANGED relayVars)
  /\ WF_vars(alive /\ (MotionLock \/ MotionNotify) /\ UNCHANGED relayVars)
  /\ WF_vars(alive /\ (DeleteLock \/ DeletePanic \/ DeleteNotify) /\ UNCHANGED relayVars)
  /\ WF_vars(alive /\ ActiveStreams /\ UNCHANGED relayVars)
  /\ \A c \in Conns : WF_vars(alive /\ (Register(c) \/ HandleSocketEvent(c) \/ Unregister(c)))
  /\ \A h \in Https :
       WF_vars(alive /\ (SendDeleteStream(h) \/ DeleteRow(h) \/ Announce(h)
                         \/ SendGetActiveStreams(h) \/ ReceiveActiveStreams(h)))

FairSpec == Spec /\ Fairness

-----------------------------------------------------------------------------
(* Each variable has its type; the event a handler is about to hand over   *)
(* is addressed to a goroutine that serves its kind, and speaks for the    *)
(* connection's own user.                                                  *)
RelayTypeOK ==
  /\ handler \in [Conns -> {"closed", "register", "open", "send", "unregister", "gone"}]
  /\ \A c \in Conns : IF handler[c] = "send" THEN event[c] \in EventsFrom(c) ELSE event[c] = None
  /\ http \in [Https -> {"idle", "rtc", "row", "announce", "ask", "await", "done"}]
  /\ \A h \in Https :
       IF http[h] = "rtc" THEN httpReq[h] \in RequestsTo("deleteStream") ELSE httpReq[h] = None
  /\ events \in 0 .. MaxEvents
=============================================================================
