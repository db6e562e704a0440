---------------------------- MODULE WebRTCProofs ----------------------------
(* Proofs about SocketServer and WebRTCServer, for any users, connections, *)
(* messages and streams, and any order of the requests.                    *)
EXTENDS WebRTCServer, TLAPS

-----------------------------------------------------------------------------
(* The socket server, in any environment.                                  *)

(* While it has a connection in hand, registerConn or unregisterConn knows *)
(* which.                                                                  *)
ArgKnown == \A g \in Registrars : phase[g] # "recv" => arg[g] \in Conns

(* A connection is stored under the uid of its owner.                      *)
StoredUnderOwner == \A c \in Conns : conns[c] \in {None, UidOf[c]}

(* unregisterConn has found its connection in the map.                     *)
HandOffRegistered == phase["unregisterConn"] = "handoff" => conns[arg["unregisterConn"]] # None

SocketInv ==
  /\ SocketTypeOK
  /\ MutexHeldInside
  /\ ArgKnown
  /\ StoredUnderOwner
  /\ HandOffRegistered
  /\ MapFrozenWhileIterated

(* The invariant holds before anything has connected.                      *)
LEMMA SocketInitInv == SocketInit => SocketInv
  BY NoneAssumption DEF SocketInit, SocketInv, SocketTypeOK, MutexHeldInside, ArgKnown,
     StoredUnderOwner, HandOffRegistered, MapFrozenWhileIterated, Senders, Registrars

(* Every variable keeps its type, and the mutex stays with the goroutine   *)
(* inside.                                                                 *)
LEMMA SocketTypeStep ==
  ASSUME SocketInv, SocketNext
  PROVE  SocketTypeOK' /\ MutexHeldInside' /\ ArgKnown'
<1> USE UidOfAssumption, NoneAssumption
        DEF SocketInv, SocketTypeOK, MutexHeldInside, ArgKnown, Senders, Registrars, Matching
<1>1. CASE LockOne
  BY <1>1 DEF LockOne, Lock
<1>2. ASSUME NEW g \in Senders, LockMany(g)
      PROVE  SocketTypeOK' /\ MutexHeldInside' /\ ArgKnown'
  BY <1>2 DEF LockMany, Lock
<1>3. ASSUME NEW g \in Senders, Write(g)
      PROVE  SocketTypeOK' /\ MutexHeldInside' /\ ArgKnown'
  BY <1>3 DEF Write
<1>4. ASSUME NEW g \in Senders, Unlock(g)
      PROVE  SocketTypeOK' /\ MutexHeldInside' /\ ArgKnown'
  BY <1>4 DEF Unlock
<1>5. CASE MessageLoop
  BY <1>5 DEF MessageLoop
<1>6. CASE RegisterConn
  BY <1>6 DEF RegisterConn
<1>7. CASE UnregisterLock
  BY <1>7 DEF UnregisterLock
<1>8. CASE UnregisterUnknown
  BY <1>8 DEF UnregisterUnknown
<1>9. ASSUME NEW g \in Senders, NEW uids \in SUBSET Uids, NEW n \in Notes, Send(g, uids, n)
      PROVE  SocketTypeOK' /\ MutexHeldInside' /\ ArgKnown'
  BY <1>9 DEF Send
<1>10. ASSUME NEW g \in Registrars, NEW c \in Conns, SendConn(g, c)
       PROVE  SocketTypeOK' /\ MutexHeldInside' /\ ArgKnown'
  BY <1>10 DEF SendConn
<1>11. CASE HandOff
  BY <1>11 DEF HandOff
<1> QED
  BY <1>1, <1>2, <1>3, <1>4, <1>5, <1>6, <1>7, <1>8, <1>9, <1>10, <1>11
     DEF SocketNext, SocketStep, SocketEnv

(* A connection enters the map under its owner's uid and leaves it only    *)
(* when unregisterConn holds the mutex.                                    *)
LEMMA SocketMapStep ==
  ASSUME SocketInv, SocketNext
  PROVE  StoredUnderOwner' /\ HandOffRegistered'
<1> USE UidOfAssumption, NoneAssumption
        DEF SocketInv, SocketTypeOK, MutexHeldInside, ArgKnown, StoredUnderOwner,
            HandOffRegistered, Senders, Registrars
<1>1. CASE LockOne
  BY <1>1 DEF LockOne, Lock
<1>2. ASSUME NEW g \in Senders, LockMany(g) \/ Write(g) \/ Unlock(g)
      PROVE  StoredUnderOwner' /\ HandOffRegistered'
  BY <1>2 DEF LockMany, Lock, Write, Unlock
<1>3. CASE MessageLoop
  BY <1>3 DEF MessageLoop
<1>4. CASE RegisterConn
  BY <1>4 DEF RegisterConn
<1>5. CASE UnregisterLock \/ UnregisterUnknown
  BY <1>5 DEF UnregisterLock, UnregisterUnknown
<1>6. ASSUME NEW g \in Senders, NEW uids \in SUBSET Uids, NEW n \in Notes, Send(g, uids, n)
      PROVE  StoredUnderOwner' /\ HandOffRegistered'
  BY <1>6 DEF Send
<1>7. ASSUME NEW g \in Registrars, NEW c \in Conns, SendConn(g, c)
      PROVE  StoredUnderOwner' /\ HandOffRegistered'
  BY <1>7 DEF SendConn
<1>8. CASE HandOff
  BY <1>8 DEF HandOff
<1> QED
  BY <1>1, <1>2, <1>3, <1>4, <1>5, <1>6, <1>7, <1>8 DEF SocketNext, SocketStep, SocketEnv

(* The map is not written while a sender iterates over it: whoever writes  *)
(* it needs the mutex that the sender holds.                               *)
LEMMA SocketIterationStep ==
  ASSUME SocketInv, SocketNext
  PROVE  MapFrozenWhileIterated'
<1> USE UidOfAssumption, NoneAssumption
        DEF SocketInv, SocketTypeOK, MutexHeldInside, MapFrozenWhileIterated, Matching,
            Senders, Registrars
<1>1. CASE LockOne
  BY <1>1 DEF LockOne, Lock
<1>2. ASSUME NEW g \in Senders, LockMany(g)
      PROVE  MapFrozenWhileIterated'
  BY <1>2 DEF LockMany, Lock
<1>3. ASSUME NEW g \in Senders, Write(g)
      PROVE  MapFrozenWhileIterated'
  BY <1>3 DEF Write
<1>4. ASSUME NEW g \in Senders, Unlock(g)
      PROVE  MapFrozenWhileIterated'
  BY <1>4 DEF Unlock
<1>5. CASE MessageLoop
  BY <1>5 DEF MessageLoop
<1>6. CASE RegisterConn
  BY <1>6 DEF RegisterConn
<1>7. CASE UnregisterLock \/ UnregisterUnknown
  BY <1>7 DEF UnregisterLock, UnregisterUnknown
<1>8. ASSUME NEW g \in Senders, NEW uids \in SUBSET Uids, NEW n \in Notes, Send(g, uids, n)
      PROVE  MapFrozenWhileIterated'
  BY <1>8 DEF Send
<1>9. ASSUME NEW g \in Registrars, NEW c \in Conns, SendConn(g, c)
      PROVE  MapFrozenWhileIterated'
  BY <1>9 DEF SendConn
<1>10. CASE HandOff
  BY <1>10 DEF HandOff
<1> QED
  BY <1>1, <1>2, <1>3, <1>4, <1>5, <1>6, <1>7, <1>8, <1>9, <1>10
     DEF SocketNext, SocketStep, SocketEnv

(* No step of the socket server or of its environment breaks the           *)
(* invariant.                                                              *)
LEMMA SocketInvStep ==
  ASSUME SocketInv, [SocketNext]_socketVars
  PROVE  SocketInv'
<1>1. CASE SocketNext
  BY <1>1, SocketTypeStep, SocketMapStep, SocketIterationStep DEF SocketInv
<1>2. CASE UNCHANGED socketVars
  BY <1>2 DEF socketVars, SocketInv, SocketTypeOK, MutexHeldInside, ArgKnown, StoredUnderOwner,
     HandOffRegistered, MapFrozenWhileIterated, Matching
<1> QED
  BY <1>1, <1>2

(* A connection in hand-off is the one unregisterConn was given, and is    *)
(* still in the map under its owner's uid.                                 *)
LEMMA HandOffKnows == SocketInv => HandOffKnowsItsUid
  BY DEF SocketInv, ArgKnown, StoredUnderOwner, HandOffRegistered, HandOffKnowsItsUid, Registrars

(* Whatever the rest of the program sends, and however the goroutines      *)
(* interleave, the invariant of the socket server holds.                   *)
THEOREM SocketInvariant == SocketSpec => []SocketInv
<1>1. SocketInit => SocketInv
  BY SocketInitInv
<1>2. SocketInv /\ [SocketNext]_socketVars => SocketInv'
  BY SocketInvStep
<1> QED
  BY <1>1, <1>2, PTL DEF SocketSpec

(* A connection a sender has still to write to stays registered, under a   *)
(* uid the message is addressed to, until it has been written to.          *)
THEOREM IterationSafe == SocketSpec => []MapFrozenWhileIterated
<1>1. SocketInv => MapFrozenWhileIterated
  BY DEF SocketInv
<1> QED
  BY <1>1, SocketInvariant, PTL

(* The mutex of the connection map excludes, across the channel sends made *)
(* while it is held.                                                       *)
THEOREM SocketMutex == SocketSpec => []MutexHeldInside
<1>1. SocketInv => MutexHeldInside
  BY DEF SocketInv
<1> QED
  BY <1>1, SocketInvariant, PTL

(* The uid sent on rtcDC is that of the connection being removed.          *)
THEOREM HandOffSafe == SocketSpec => []HandOffKnowsItsUid
  BY HandOffKnows, SocketInvariant, PTL

(* The types of the socket server's state.                                 *)
THEOREM SocketTypes == SocketSpec => []SocketTypeOK
<1>1. SocketInv => SocketTypeOK
  BY DEF SocketInv
<1> QED
  BY <1>1, SocketInvariant, PTL

-----------------------------------------------------------------------------
(* The WebRTC server.                                                      *)

(* Messages are not None, so that note[g] = None says g has none.          *)
LEMMA NoteTyped ==
  ASSUME NEW u \in Uids, NEW e \in RtcEvents
  PROVE  Note(e, u) \in Notes /\ Note(e, u) # None
  BY NotesAssumption, NoneAssumption DEF Note, RtcNotes

(* So is the message that a stream or a streamer has changed.              *)
LEMMA ChangeTyped == Note("CHANGE", None) \in Notes
  BY NotesAssumption DEF Note, RtcNotes

-----------------------------------------------------------------------------
(* The users in the mesh, without their streams.                           *)
MembershipTypeOK ==
  /\ members \subseteq Uids
  /\ rtcMutex \in {"free"} \cup Lockers
  /\ step \in [RtcGoroutines -> {"recv", "lock", "notify", "reply"}]
  /\ \A g \in RtcGoroutines : step[g] = "reply" => g = "joinWebRTC"
  /\ \A g \in RtcGoroutines : step[g] = "notify" => g \in Lockers
  /\ users \subseteq Uids
  /\ roster \in [Uids -> SUBSET Uids]
  /\ alive \in BOOLEAN

(* A goroutine that is not at its receive has a request.                   *)
ReqKnown ==
  /\ DOMAIN req = RtcGoroutines
  /\ \A g \in RtcGoroutines : step[g] # "recv" => req[g] \in RequestsTo(g)

(* Nobody but joinWebRTC uses sendDataToUids between its two sends.        *)
JoinHasBroadcaster ==
  step["joinWebRTC"] = "reply" =>
    note["sendDataToUids"] \in {None, Note("WEBRTC_USER_JOINED", req["joinWebRTC"].uid)}

RtcInv ==
  /\ MembershipTypeOK
  /\ ReqKnown
  /\ RtcMutexHeldInside
  /\ UsersStillTheOthers
  /\ JoinHasBroadcaster
  /\ NoteMatchesRegistry
  /\ PairHasInitiator

(* What a request carries.                                                 *)
LEMMA RequestHasUid ==
  ASSUME RtcInv, NEW g \in RtcGoroutines, g # "getActiveStreams", step[g] # "recv"
  PROVE  req[g].uid \in Uids
  BY DEF RtcInv, ReqKnown, RequestsTo, RtcGoroutines, Lockers, Forwarders

(* What a signal carries besides.                                          *)
LEMMA SignalHasTarget ==
  ASSUME RtcInv, NEW g \in Forwarders, step[g] # "recv"
  PROVE  req[g].toUid \in Uids
  BY DEF RtcInv, ReqKnown, RequestsTo, RtcGoroutines, Lockers, Forwarders

(* A goroutine of the WebRTC server uses the socket server only through    *)
(* its channels.                                                           *)
LEMMA RtcStepIsSocketStep ==
  ASSUME SocketInv, RtcInv, RtcNext
  PROVE  [SocketNext]_socketVars
<1> USE DEF SocketNext
<1>1. ASSUME NEW g \in Senders, NEW uids \in SUBSET Uids, NEW n \in Notes, Send(g, uids, n)
      PROVE  SocketNext
  BY <1>1 DEF SocketEnv
<1>2. CASE WatchReceive
  BY <1>2 DEF WatchReceive, SocketEnv
<1>3. CASE WatchSend \/ JoinLock \/ LeaveLock \/ MotionLock \/ DeleteLock \/ DeletePanic \/ ActiveStreams
  BY <1>3 DEF WatchSend, JoinLock, LeaveLock, MotionLock, DeleteLock, DeletePanic, ActiveStreams, RtcLock
<1>4. CASE JoinNotify
  <2>1. users \in SUBSET Uids /\ Note("WEBRTC_USER_JOINED", req["joinWebRTC"].uid) \in Notes
    BY <1>4, RequestHasUid, NoteTyped DEF JoinNotify, RtcInv, MembershipTypeOK, RtcEvents, RtcGoroutines, Lockers
  <2> QED
    BY <1>1, <1>4, <2>1 DEF JoinNotify, Senders
<1>5. CASE JoinReply
  <2>1. {req["joinWebRTC"].uid} \in SUBSET Uids /\ Note("WEBRTC_ALL_USERS", req["joinWebRTC"].uid) \in Notes
    BY <1>5, RequestHasUid, NoteTyped DEF JoinReply, RtcEvents, RtcGoroutines, Lockers
  <2> QED
    BY <1>1, <1>5, <2>1 DEF JoinReply, Senders
<1>6. CASE LeaveNotify
  <2>1. Note("WEBRTC_USER_LEFT", req["leaveWebRTC"].uid) \in Notes
    BY <1>6, RequestHasUid, NoteTyped DEF LeaveNotify, RtcEvents, RtcGoroutines, Lockers
  <2>2. members \ {req["leaveWebRTC"].uid} \in SUBSET Uids
    BY DEF RtcInv, MembershipTypeOK
  <2> QED
    BY <1>1, <1>6, <2>1, <2>2 DEF LeaveNotify, Senders
<1>7. ASSUME NEW g \in Forwarders, NEW e \in RtcEvents, ForwardSignal(g, e)
      PROVE  SocketNext
  <2>1. step[g] # "recv"
    BY <1>7 DEF ForwardSignal
  <2>2. {req[g].toUid} \in SUBSET Uids /\ Note(e, req[g].uid) \in Notes
    BY <2>1, RequestHasUid, SignalHasTarget, NoteTyped DEF RtcGoroutines, Forwarders
  <2> QED
    BY <1>1, <1>7, <2>2 DEF ForwardSignal, Senders
<1>8. CASE ForwardSignals
  BY <1>7, <1>8 DEF ForwardSignals, Forwarders, RtcEvents
<1>9. CASE MotionNotify
  <2>1. Note("WEBRTC_MOTION_UPDATE", req["motionUpdate"].uid) \in Notes
    BY <1>9, RequestHasUid, NoteTyped DEF MotionNotify, RtcEvents, RtcGoroutines, Lockers
  <2> QED
    BY <1>1, <1>9, <2>1 DEF MotionNotify, Senders
<1>10. CASE DeleteNotify
  BY <1>1, <1>10, ChangeTyped DEF DeleteNotify, Senders
<1>11. CASE RtcInternal
  BY <1>11 DEF RtcInternal
<1>12. CASE RtcEnv
  BY <1>1, <1>12, ChangeTyped DEF RtcEnv, SendRtc, SocketEnv, Senders
<1> QED
  BY <1>2, <1>3, <1>4, <1>5, <1>6, <1>8, <1>9, <1>10, <1>11, <1>12 DEF RtcNext, RtcStep

-----------------------------------------------------------------------------
(* Initially nobody is in the mesh.                                        *)
LEMMA RtcInitInv == RtcInit => SocketInv /\ RtcInv
<1> SUFFICES ASSUME RtcInit PROVE SocketInv /\ RtcInv
  OBVIOUS
<1>1. SocketInv
  BY SocketInitInv DEF RtcInit
<1>2. MembershipTypeOK /\ ReqKnown /\ RtcMutexHeldInside
  BY DEF RtcInit, MembershipTypeOK, ReqKnown, RtcMutexHeldInside, RtcGoroutines, Lockers, Forwarders
<1>3. UsersStillTheOthers /\ JoinHasBroadcaster /\ PairHasInitiator
  BY DEF RtcInit, UsersStillTheOthers, JoinHasBroadcaster, PairHasInitiator, RtcGoroutines, Lockers
<1>4. NoteMatchesRegistry
  <2>1. note["sendDataToUids"] = None
    BY DEF RtcInit, SocketInit, Senders
  <2> QED
    BY <2>1, NoteTyped DEF NoteMatchesRegistry, RtcEvents
<1> QED
  BY <1>1, <1>2, <1>3, <1>4 DEF RtcInv

(* Types, and the mutex of the registry stays with the goroutine inside.   *)
LEMMA RtcMutexStep ==
  ASSUME SocketInv, RtcInv, RtcNext
  PROVE  MembershipTypeOK' /\ ReqKnown' /\ RtcMutexHeldInside'
<1> DEFINE Goal == MembershipTypeOK' /\ ReqKnown' /\ RtcMutexHeldInside'
<1> USE DEF RtcInv, MembershipTypeOK, ReqKnown, RtcMutexHeldInside, RtcGoroutines, Lockers, Forwarders
<1>1. CASE WatchReceive
  <2>1. conns[arg["unregisterConn"]] \in Uids
    BY <1>1, UidOfAssumption DEF WatchReceive, HandOff, SocketInv, HandOffRegistered, ArgKnown,
       StoredUnderOwner, Registrars
  <2>2. [uid |-> conns[arg["unregisterConn"]]] \in RequestsTo("watchForSocketDisconnect")
    BY <2>1 DEF RequestsTo
  <2> QED
    BY <1>1, <2>2 DEF WatchReceive, Receive, RequestsTo, registry
<1>2. CASE WatchSend
  <2>1. RequestsTo("watchForSocketDisconnect") = RequestsTo("leaveWebRTC")
    BY DEF RequestsTo
  <2> QED
    BY <1>2, <2>1 DEF WatchSend, RequestsTo, registry
<1>3. CASE JoinLock
  BY <1>3 DEF JoinLock, RtcLock, RequestsTo, registry
<1>4. CASE JoinNotify
  BY <1>4 DEF JoinNotify, RequestsTo, registry
<1>5. CASE JoinReply
  <2>1. req["joinWebRTC"].uid \in Uids
    BY <1>5, RequestHasUid DEF JoinReply
  <2> QED
    BY <1>5, <2>1 DEF JoinReply, RtcUnlock, Done, RequestsTo, registry
<1>6. CASE LeaveLock
  BY <1>6 DEF LeaveLock, RtcLock, RequestsTo, registry
<1>7. CASE LeaveNotify
  BY <1>7 DEF LeaveNotify, RtcUnlock, Done, RequestsTo, registry
<1>8. CASE ForwardSignals
  BY <1>8 DEF ForwardSignals, ForwardSignal, Done, RequestsTo, registry
<1>9. CASE MotionLock
  BY <1>9 DEF MotionLock, RtcLock, RequestsTo, registry
<1>10. CASE MotionNotify
  BY <1>10 DEF MotionNotify, RtcUnlock, Done, RequestsTo, registry
<1>11. CASE DeleteLock
  BY <1>11 DEF DeleteLock, RtcLock, RequestsTo, registry
<1>12. CASE DeletePanic
  BY <1>12 DEF DeletePanic, RtcLock, RequestsTo, registry
<1>13. CASE DeleteNotify
  BY <1>13 DEF DeleteNotify, RtcUnlock, Done, RequestsTo, registry
<1>14. CASE ActiveStreams
  BY <1>14 DEF ActiveStreams, Done, RequestsTo, registry
<1>15. CASE RtcInternal
  BY <1>15 DEF RtcInternal, rtcVars, RequestsTo
<1>16. ASSUME NEW g \in RtcGoroutines, NEW r \in RequestsTo(g), SendRtc(g, r)
       PROVE  Goal
  BY <1>16 DEF SendRtc, Receive, RequestsTo, registry
<1>17. CASE RtcEnv
  BY <1>16, <1>17 DEF RtcEnv, rtcVars, RequestsTo
<1> QED
  BY <1>1, <1>2, <1>3, <1>4, <1>5, <1>6, <1>7, <1>8, <1>9, <1>10, <1>11, <1>12, <1>13, <1>14,
     <1>15, <1>17 DEF RtcNext, RtcStep

-----------------------------------------------------------------------------
(* A step that neither joins nor leaves: the registry and the lists made   *)
(* of it stay, sendDataToUids may finish, joinWebRTC may receive.          *)
Aside ==
  /\ UNCHANGED <<members, users, roster>>
  /\ note'["sendDataToUids"] \in {note["sendDataToUids"], None}
  /\ \/ step'["joinWebRTC"] = step["joinWebRTC"] /\ req'["joinWebRTC"] = req["joinWebRTC"]
     \/ step["joinWebRTC"] = "recv" /\ step'["joinWebRTC"] = "lock"

(* The socket server by itself only ever finishes a message.               *)
LEMMA SocketStepFinishes ==
  ASSUME SocketInv, SocketStep
  PROVE  note'["sendDataToUids"] \in {note["sendDataToUids"], None}
  BY DEF SocketStep, SocketInv, SocketTypeOK, LockOne, LockMany, Lock, Write, Unlock, MessageLoop,
     RegisterConn, UnregisterLock, UnregisterUnknown, Senders

(* Every step is aside, or one of the four that make the membership.       *)
LEMMA MembershipSteps ==
  ASSUME SocketInv, RtcInv, RtcNext
  PROVE  Aside \/ JoinLock \/ JoinNotify \/ JoinReply \/ LeaveNotify
<1> USE DEF RtcInv, MembershipTypeOK, ReqKnown, RtcGoroutines, Lockers, Forwarders, Aside, registry
<1>1. \A g \in Senders, uids \in SUBSET Uids : \A n :
        g # "sendDataToUids" /\ Send(g, uids, n) => note'["sendDataToUids"] = note["sendDataToUids"]
  BY DEF Send, SocketInv, SocketTypeOK, Senders
<1>2. CASE WatchReceive
  BY <1>2 DEF WatchReceive, Receive, HandOff
<1>3. CASE WatchSend
  BY <1>3 DEF WatchSend, socketVars
<1>4. CASE LeaveLock
  BY <1>4 DEF LeaveLock, RtcLock, socketVars
<1>5. ASSUME NEW g \in Forwarders, NEW e \in RtcEvents, ForwardSignal(g, e)
      PROVE  Aside
  <2>1. note'["sendDataToUids"] = note["sendDataToUids"]
    BY <1>5 DEF ForwardSignal, Send, SocketInv, SocketTypeOK, Senders
  <2> QED
    BY <1>5, <2>1 DEF ForwardSignal, Done
<1>6. CASE ForwardSignals
  BY <1>5, <1>6 DEF ForwardSignals, RtcEvents
<1>7. CASE MotionLock
  BY <1>7 DEF MotionLock, RtcLock, socketVars
<1>8. CASE MotionNotify
  <2>1. note'["sendDataToUids"] = note["sendDataToUids"]
    BY <1>8 DEF MotionNotify, Send, SocketInv, SocketTypeOK, Senders
  <2> QED
    BY <1>8, <2>1 DEF MotionNotify, RtcUnlock, Done
<1>9. CASE DeleteLock \/ DeletePanic
  BY <1>9 DEF DeleteLock, DeletePanic, RtcLock, socketVars
<1>10. CASE DeleteNotify
  <2>1. note'["sendDataToUids"] = note["sendDataToUids"]
    BY <1>10 DEF DeleteNotify, Send, SocketInv, SocketTypeOK, Senders
  <2> QED
    BY <1>10, <2>1 DEF DeleteNotify, RtcUnlock, Done
<1>11. CASE ActiveStreams
  BY <1>11 DEF ActiveStreams, Done, socketVars
<1>12. CASE RtcInternal
  BY <1>12, SocketStepFinishes DEF RtcInternal, rtcVars
<1>13. ASSUME NEW g \in RtcGoroutines, NEW r \in RequestsTo(g), SendRtc(g, r)
       PROVE  Aside
  BY <1>13 DEF SendRtc, Receive, socketVars
<1>14. CASE Send("sendDataToAll", Uids, Note("CHANGE", None)) /\ UNCHANGED rtcVars
  BY <1>1, <1>14 DEF rtcVars, Senders
<1>15. ASSUME NEW g \in Registrars, NEW c \in Conns, SendConn(g, c), UNCHANGED rtcVars
       PROVE  Aside
  BY <1>15 DEF SendConn, rtcVars
<1>16. CASE RtcEnv
  BY <1>13, <1>14, <1>15, <1>16 DEF RtcEnv
<1> QED
  BY <1>2, <1>3, <1>4, <1>6, <1>7, <1>8, <1>9, <1>10, <1>11, <1>12, <1>16 DEF RtcNext, RtcStep

(* The list made at JoinLock stays right: nobody else can hold the mutex   *)
(* that LeaveNotify and JoinReply need.                                    *)
LEMMA UsersStep ==
  ASSUME SocketInv, RtcInv, RtcNext
  PROVE  UsersStillTheOthers'
<1> USE DEF RtcInv, MembershipTypeOK, ReqKnown, RtcGoroutines, Lockers, Forwarders,
            RtcMutexHeldInside, UsersStillTheOthers
<1>1. CASE Aside
  BY <1>1 DEF Aside
<1>2. CASE JoinLock
  BY <1>2 DEF JoinLock, RtcLock, registry
<1>3. CASE JoinNotify
  BY <1>3 DEF JoinNotify, registry
<1>4. CASE JoinReply
  BY <1>4 DEF JoinReply, RtcUnlock, Done
<1>5. CASE LeaveNotify
  <2>1. step["joinWebRTC"] \notin {"notify", "reply"}
    BY <1>5 DEF LeaveNotify
  <2> QED
    BY <1>5, <2>1 DEF LeaveNotify, RtcUnlock, Done
<1> QED
  BY <1>1, <1>2, <1>3, <1>4, <1>5, MembershipSteps

(* Of two members the later to join lists the earlier.                     *)
LEMMA PairStep ==
  ASSUME SocketInv, RtcInv, RtcNext
  PROVE  PairHasInitiator'
<1> USE DEF RtcInv, MembershipTypeOK, PairHasInitiator
<1>1. CASE Aside
  BY <1>1 DEF Aside
<1>2. CASE JoinLock \/ JoinNotify
  BY <1>2 DEF JoinLock, JoinNotify, RtcLock, registry
<1>3. CASE JoinReply
  <2> DEFINE u == req["joinWebRTC"].uid
  <2>1. u \in Uids
    BY <1>3, RequestHasUid DEF JoinReply, RtcGoroutines, Lockers
  <2>2. users = members \ {u}
    BY <1>3 DEF JoinReply, UsersStillTheOthers
  <2>3. roster'[u] = members \ {u} /\ members' = members \cup {u}
    BY <1>3, <2>1, <2>2 DEF JoinReply
  <2>4. \A v \in Uids \ {u} : roster'[v] = roster[v]
    BY <1>3, <2>1 DEF JoinReply
  <2> HIDE DEF u
  <2> QED
    BY <2>1, <2>3, <2>4
<1>4. CASE LeaveNotify
  BY <1>4 DEF LeaveNotify
<1> QED
  BY <1>1, <1>2, <1>3, <1>4, MembershipSteps

(* Two messages are the same only if they are of one event and one user.   *)
LEMMA NoteInjective ==
  ASSUME NEW e, NEW f, NEW u, NEW v, Note(e, u) = Note(f, v)
  PROVE  e = f /\ u = v
<1>1. Note(e, u).event = Note(f, v).event /\ Note(e, u).about = Note(f, v).about
  OBVIOUS
<1> QED
  BY <1>1 DEF Note

(* Between its sends joinWebRTC's own message, or none, is in the hands of *)
(* sendDataToUids.                                                         *)
LEMMA BroadcasterStep ==
  ASSUME SocketInv, RtcInv, RtcNext
  PROVE  JoinHasBroadcaster'
<1> USE DEF RtcInv, MembershipTypeOK, RtcGoroutines, Lockers, RtcMutexHeldInside, JoinHasBroadcaster
<1>1. CASE Aside
  BY <1>1 DEF Aside
<1>2. CASE JoinLock
  BY <1>2 DEF JoinLock, RtcLock
<1>3. CASE JoinNotify
  BY <1>3 DEF JoinNotify, Send, SocketInv, SocketTypeOK, Senders
<1>4. CASE JoinReply
  BY <1>4 DEF JoinReply, RtcUnlock, Done
<1>5. CASE LeaveNotify
  BY <1>5 DEF LeaveNotify, RtcUnlock, Done
<1> QED
  BY <1>1, <1>2, <1>3, <1>4, <1>5, MembershipSteps

(* What sendDataToUids tells agrees with the registry: a contradicting     *)
(* join or leave would have to send through it first.                      *)
LEMMA NoteStep ==
  ASSUME SocketInv, RtcInv, RtcNext
  PROVE  NoteMatchesRegistry'
<1> USE DEF RtcInv, MembershipTypeOK
<1> DEFINE n == note["sendDataToUids"]
           Right(u) == /\ n = Note("WEBRTC_USER_JOINED", u) =>
                            u \in members \/ (step["joinWebRTC"] = "reply" /\ req["joinWebRTC"].uid = u)
                       /\ n = Note("WEBRTC_USER_LEFT", u) => u \notin members
<1> SUFFICES ASSUME NEW u \in Uids PROVE Right(u)'
  BY DEF NoteMatchesRegistry
<1>1. Right(u)
  BY DEF NoteMatchesRegistry
<1>2. None # Note("WEBRTC_USER_JOINED", u) /\ None # Note("WEBRTC_USER_LEFT", u)
  BY NoteTyped DEF RtcEvents
<1>3. CASE Aside
  BY <1>1, <1>2, <1>3 DEF Aside
<1>4. CASE JoinLock
  BY <1>1, <1>4 DEF JoinLock, RtcLock, registry, socketVars, RtcGoroutines, Lockers
<1>5. CASE JoinNotify
  <2>1. n' = Note("WEBRTC_USER_JOINED", req["joinWebRTC"].uid)
    BY <1>5 DEF JoinNotify, Send, SocketInv, SocketTypeOK, Senders
  <2>2. step'["joinWebRTC"] = "reply" /\ req' = req
    BY <1>5 DEF JoinNotify, RtcGoroutines, Lockers
  <2>3. n' = Note("WEBRTC_USER_JOINED", u) => req["joinWebRTC"].uid = u
    BY <2>1, NoteInjective
  <2>4. n' # Note("WEBRTC_USER_LEFT", u)
    BY <2>1, NoteInjective
  <2> QED
    BY <2>2, <2>3, <2>4
<1>6. CASE JoinReply
  <2>1. n' = n /\ members' = members \cup {req["joinWebRTC"].uid}
    BY <1>6 DEF JoinReply, Send, SocketInv, SocketTypeOK, Senders
  <2>2. n \in {None, Note("WEBRTC_USER_JOINED", req["joinWebRTC"].uid)}
    BY <1>6 DEF JoinReply, JoinHasBroadcaster
  <2>3. n = Note("WEBRTC_USER_JOINED", u) => u = req["joinWebRTC"].uid
    BY <1>2, <2>2, NoteInjective
  <2>4. n # Note("WEBRTC_USER_LEFT", u)
    BY <1>2, <2>2, NoteInjective
  <2> QED
    BY <2>1, <2>3, <2>4
<1>7. CASE LeaveNotify
  <2>1. n' = Note("WEBRTC_USER_LEFT", req["leaveWebRTC"].uid)
    BY <1>7 DEF LeaveNotify, Send, SocketInv, SocketTypeOK, Senders
  <2>2. members' = members \ {req["leaveWebRTC"].uid}
    BY <1>7 DEF LeaveNotify
  <2>3. n' # Note("WEBRTC_USER_JOINED", u)
    BY <2>1, NoteInjective
  <2>4. n' = Note("WEBRTC_USER_LEFT", u) => u = req["leaveWebRTC"].uid
    BY <2>1, NoteInjective
  <2> QED
    BY <2>2, <2>3, <2>4
<1> QED
  BY <1>3, <1>4, <1>5, <1>6, <1>7, MembershipSteps

-----------------------------------------------------------------------------
(* The streams of the members, and the replies.                            *)
StreamsTypeOK ==
  /\ streams \in [Uids -> Seq(StreamInfo)]
  /\ reply \in [Https -> {None} \cup SUBSET Names]
  /\ \A g \in RtcGoroutines : step[g] = "recv" => req[g] = None

(* A list of streams with the motion of one of them changed.               *)
LEMMA SetMotionType ==
  ASSUME NEW s \in Seq(StreamInfo), NEW id, NEW m \in BOOLEAN
  PROVE  SetMotion(s, id, m) \in Seq(StreamInfo)
<1> DEFINE i == FirstOr0(s, "id", id)
           t == [s EXCEPT ![i].motion = m]
<1>1. t \in Seq(StreamInfo)
  <2> HIDE DEF i
  <2>1. \A j \in 1 .. Len(s) : [s[j] EXCEPT !.motion = m] \in StreamInfo
    <3> SUFFICES ASSUME NEW j \in 1 .. Len(s) PROVE [s[j] EXCEPT !.motion = m] \in StreamInfo
      OBVIOUS
    <3>1. s[j] \in StreamInfo
      OBVIOUS
    <3> QED
      BY <3>1 DEF StreamInfo
  <2>2. DOMAIN t = 1 .. Len(s)
    OBVIOUS
  <2>3. \A j \in 1 .. Len(s) : t[j] = IF j = i THEN [s[j] EXCEPT !.motion = m] ELSE s[j]
    OBVIOUS
  <2>4. \A j \in 1 .. Len(s) : t[j] \in StreamInfo
    BY <2>1, <2>3
  <2>5. t \in [1 .. Len(s) -> StreamInfo]
    BY <2>2, <2>4
  <2> QED
    BY <2>5
<1> QED
  BY <1>1 DEF SetMotion

(* A list of streams after the swap with the last and the truncation.      *)
LEMMA WithoutIndexType ==
  ASSUME NEW s \in Seq(StreamInfo), NEW i, s # <<>>
  PROVE  WithoutIndex(s, i) \in Seq(StreamInfo)
  BY DEF WithoutIndex

(* The lists of streams, and what else RtcTypeOK says, keep their types.   *)
LEMMA StreamsStep ==
  ASSUME SocketInv, RtcInv, StreamsTypeOK, RtcNext
  PROVE  StreamsTypeOK'
<1> USE DEF RtcInv, MembershipTypeOK, StreamsTypeOK, RtcGoroutines, Lockers, Forwarders, registry
<1>1. DOMAIN req = RtcGoroutines
  BY DEF ReqKnown
<1>2. CASE WatchReceive \/ WatchSend
  BY <1>1, <1>2 DEF WatchReceive, WatchSend, Receive
<1>3. CASE JoinLock \/ JoinNotify \/ LeaveLock
  BY <1>1, <1>3 DEF JoinLock, JoinNotify, LeaveLock, RtcLock
<1>4. CASE JoinReply
  <2>1. req["joinWebRTC"] \in RequestsTo("joinWebRTC")
    BY <1>4 DEF JoinReply, ReqKnown
  <2>2. req["joinWebRTC"].streams \in Seq(StreamInfo)
    BY <2>1, StreamListsAssumption DEF RequestsTo
  <2>3. streams' \in [Uids -> Seq(StreamInfo)] /\ reply' = reply
    BY <1>4, <2>2 DEF JoinReply
  <2>4. \A g \in RtcGoroutines : step'[g] = "recv" => req'[g] = None
    BY <1>1, <1>4 DEF JoinReply, RtcUnlock, Done
  <2> QED
    BY <2>3, <2>4
<1>5. CASE LeaveNotify
  <2>1. streams' \in [Uids -> Seq(StreamInfo)] /\ reply' = reply
    <3>1. <<>> \in Seq(StreamInfo)
      OBVIOUS
    <3> QED
      BY <1>5, <3>1 DEF LeaveNotify
  <2>2. \A g \in RtcGoroutines : step'[g] = "recv" => req'[g] = None
    BY <1>1, <1>5 DEF LeaveNotify, RtcUnlock, Done
  <2> QED
    BY <2>1, <2>2
<1>6. CASE ForwardSignals
  BY <1>1, <1>6 DEF ForwardSignals, ForwardSignal, Done
<1>7. CASE MotionLock
  <2> DEFINE r == req["motionUpdate"]
  <2>1. r \in [uid : Uids, id : Ids, motion : BOOLEAN]
    BY <1>7 DEF MotionLock, RtcLock, ReqKnown, RequestsTo
  <2>2. SetMotion(streams[r.uid], r.id, r.motion) \in Seq(StreamInfo)
    BY <2>1, SetMotionType
  <2>3. streams' \in [Uids -> Seq(StreamInfo)]
    BY <1>7, <2>2 DEF MotionLock
  <2> QED
    BY <1>1, <1>7, <2>3 DEF MotionLock, RtcLock
<1>8. CASE MotionNotify
  BY <1>1, <1>8 DEF MotionNotify, RtcUnlock, Done
<1>9. CASE DeleteLock
  <2> DEFINE r == req["deleteStream"]
  <2>1. r.uid \in members => WithoutIndex(streams[r.uid], IndexToDelete(streams[r.uid], r.name)) \in Seq(StreamInfo)
    BY <1>9, WithoutIndexType DEF DeleteLock
  <2>2. streams' \in [Uids -> Seq(StreamInfo)]
    BY <1>9, <2>1 DEF DeleteLock
  <2> QED
    BY <1>1, <1>9, <2>2 DEF DeleteLock, RtcLock
<1>10. CASE DeletePanic \/ DeleteNotify
  BY <1>1, <1>10 DEF DeletePanic, DeleteNotify, RtcLock, RtcUnlock, Done
<1>11. CASE ActiveStreams
  BY <1>1, <1>11 DEF ActiveStreams, Done
<1>12. CASE RtcInternal
  BY <1>12 DEF RtcInternal, rtcVars
<1>13. ASSUME NEW g \in RtcGoroutines, NEW r \in RequestsTo(g), SendRtc(g, r)
       PROVE  StreamsTypeOK'
  BY <1>1, <1>13 DEF SendRtc, Receive
<1>14. CASE RtcEnv
  BY <1>13, <1>14 DEF RtcEnv, rtcVars
<1> QED
  BY <1>2, <1>3, <1>4, <1>5, <1>6, <1>7, <1>8, <1>9, <1>10, <1>11, <1>12, <1>14 DEF RtcNext, RtcStep

-----------------------------------------------------------------------------
rtcAllVars == <<socketVars, rtcVars>>

(* No step breaks the invariant of the two servers.                        *)
LEMMA RtcInvStep ==
  ASSUME SocketInv, RtcInv, [RtcNext]_rtcAllVars
  PROVE  SocketInv' /\ RtcInv'
<1>1. CASE RtcNext
  BY <1>1, RtcStepIsSocketStep, SocketInvStep, RtcMutexStep, UsersStep, BroadcasterStep, NoteStep,
     PairStep DEF RtcInv
<1>2. CASE UNCHANGED rtcAllVars
  <2>1. SocketInv'
    BY <1>2, SocketInvStep DEF rtcAllVars
  <2>2. RtcInv'
    BY <1>2 DEF rtcAllVars, rtcVars, socketVars, RtcInv, MembershipTypeOK, ReqKnown, RtcMutexHeldInside,
       UsersStillTheOthers, JoinHasBroadcaster, NoteMatchesRegistry, PairHasInitiator, RequestsTo
  <2> QED
    BY <2>1, <2>2
<1> QED
  BY <1>1, <1>2

(* The invariant of the WebRTC server and the socket server together,      *)
(* whatever requests come.                                                 *)
THEOREM RtcInvariant == RtcSpec => [](SocketInv /\ RtcInv)
<1>1. RtcInit => SocketInv /\ RtcInv
  BY RtcInitInv
<1>2. SocketInv /\ RtcInv /\ [RtcNext]_rtcAllVars => (SocketInv /\ RtcInv)'
  BY RtcInvStep
<1> QED
  BY <1>1, <1>2, PTL DEF RtcSpec, rtcAllVars

(* The WebRTC server uses the socket server as SocketServer lets its       *)
(* environment: every step of the two is one of SocketServer.              *)
THEOREM RtcRefinesSocket == RtcSpec => SocketSpec
<1>1. RtcInit => SocketInit
  BY DEF RtcInit
<1>2. SocketInv /\ RtcInv /\ [RtcNext]_rtcAllVars => [SocketNext]_socketVars
  BY RtcStepIsSocketStep DEF rtcAllVars
<1> QED
  BY <1>1, <1>2, RtcInvariant, PTL DEF RtcSpec, SocketSpec, rtcAllVars

(* What is being broadcast of a user agrees with the registry, however     *)
(* joins, leaves and disconnects of all users interleave.                  *)
THEOREM BroadcastsAgree == RtcSpec => []NoteMatchesRegistry
<1>1. RtcInv => NoteMatchesRegistry
  BY DEF RtcInv
<1> QED
  BY <1>1, RtcInvariant, PTL

(* Of any two users in the mesh one has been told to call the other.       *)
THEOREM EveryPairConnects == RtcSpec => []PairHasInitiator
<1>1. RtcInv => PairHasInitiator
  BY DEF RtcInv
<1> QED
  BY <1>1, RtcInvariant, PTL

(* The list joinWebRTC sends is the list of the other members when it      *)
(* stores the new one.                                                     *)
THEOREM ListsAreCurrent == RtcSpec => []UsersStillTheOthers
<1>1. RtcInv => UsersStillTheOthers
  BY DEF RtcInv
<1> QED
  BY <1>1, RtcInvariant, PTL

(* Every variable of the WebRTC server keeps its type, and a goroutine     *)
(* that is not at its receive has a request of its own kind.               *)
THEOREM RtcTypes == RtcSpec => []RtcTypeOK
<1>1. RtcInit => StreamsTypeOK
  BY DEF RtcInit, StreamsTypeOK
<1>2. SocketInv /\ RtcInv /\ StreamsTypeOK /\ [RtcNext]_rtcAllVars => StreamsTypeOK'
  BY StreamsStep DEF rtcAllVars, rtcVars, StreamsTypeOK
<1>3. RtcInv /\ StreamsTypeOK => RtcTypeOK
  BY DEF RtcInv, MembershipTypeOK, ReqKnown, StreamsTypeOK, RtcTypeOK
<1> QED
  BY <1>1, <1>2, <1>3, RtcInvariant, PTL DEF RtcSpec, rtcAllVars
(* The registry's mutex excludes, across the channel sends made while it   *)
(* is held.                                                                *)
THEOREM RtcMutex == RtcSpec => []RtcMutexHeldInside
<1>1. RtcInv => RtcMutexHeldInside
  BY DEF RtcInv
<1> QED
  BY <1>1, RtcInvariant, PTL
=============================================================================
