---------------------------- MODULE WebRTCServer ----------------------------
(***************************************************************************)
(* The WebRTC server of server/pkg/webRTCserver/webRTCserver.go, on top of *)
(* SocketServer: the registry of the users in the WebRTC mesh and of their *)
(* live streams, behind a mutex of its own, and one goroutine per kind of  *)
(* request.  All channels but the reply channel of getActiveStreams are    *)
(* unbuffered: a goroutine that sends waits for the receiver, with the     *)
(* mutex held where the code holds it.  Who sends the requests is the      *)
(* business of Relay; here they may come at any time.                      *)
(***************************************************************************)
EXTENDS SocketServer, Sequences, Naturals

CONSTANTS Ids,          \* MediaStreamID of a stream
          Names,        \* StreamName of a stream
          StreamLists,  \* the StreamsInfo lists clients join with
          Https         \* HTTP requests, each with the RecvChan it may send

(* socketValidation.StreamInfo                                             *)
StreamInfo == [id : Ids, name : Names, motion : BOOLEAN]

RtcEvents == {"WEBRTC_USER_JOINED", "WEBRTC_ALL_USERS", "WEBRTC_USER_LEFT",
              "WEBRTC_JOINED_SIGNAL", "WEBRTC_RETURN_SIGNAL_OUT", "WEBRTC_MOTION_UPDATE"}

(* A message: its event and the uid it is about; CHANGE (of a stream or a  *)
(* streamer) is about none of the uids of the mesh.                        *)
RtcNotes == [event : RtcEvents, about : Uids] \cup [event : {"CHANGE"}, about : {None}]

ASSUME NotesAssumption == Notes = RtcNotes
ASSUME StreamListsAssumption == StreamLists \subseteq Seq(StreamInfo)

(* The goroutines, by the name of their function.                          *)
Lockers == {"joinWebRTC", "leaveWebRTC", "motionUpdate", "deleteStream"}
Forwarders == {"sendWebRTCSignals", "returningWebRTCSignals"}
RtcGoroutines == Lockers \cup Forwarders \cup {"watchForSocketDisconnect", "getActiveStreams"}

VARIABLES
  members,   \* the keys of Connections.data
  streams,   \* StreamsInfo of a member, <<>> for the others
  rtcMutex,  \* Connections.mutex: "free" or the goroutine that holds it
  step,      \* where each goroutine is
  req,       \* the request each goroutine serves, or None
  users,     \* joinWebRTC: the uids of its slice "users"
  roster,    \* the uids listed in the last WEBRTC_ALL_USERS sent to a user
  reply,     \* the stream names in the RecvChan of an HTTP request, or None
  alive      \* FALSE once a goroutine has panicked: the process is gone

rtcVars == <<members, streams, rtcMutex, step, req, users, roster, reply, alive>>
registry == <<members, streams>>

RtcInit ==
  /\ SocketInit
  /\ members = {}
  /\ streams = [u \in Uids |-> <<>>]
  /\ rtcMutex = "free"
  /\ step = [g \in RtcGoroutines |-> "recv"]
  /\ req = [g \in RtcGoroutines |-> None]
  /\ users = {}
  /\ roster = [u \in Uids |-> {}]
  /\ reply = [h \in Https |-> None]
  /\ alive = TRUE

-----------------------------------------------------------------------------
Note(event, u) == [event |-> event, about |-> u]

(* The set of requests goroutine g receives.                               *)
RequestsTo(g) ==
  CASE g = "joinWebRTC" -> [uid : Uids, streams : StreamLists]
    [] g = "motionUpdate" -> [uid : Uids, id : Ids, motion : BOOLEAN]
    [] g = "deleteStream" -> [uid : Uids, name : Names]
    [] g = "getActiveStreams" -> [recvChan : Https]
    [] g \in Forwarders -> [uid : Uids, toUid : Uids]
    [] OTHER -> [uid : Uids]

(* A request taken by goroutine g.                                         *)
Receive(g, r) ==
  /\ step[g] = "recv"
  /\ step' = [step EXCEPT ![g] = "lock"]
  /\ req' = [req EXCEPT ![g] = r]

SendRtc(g, r) ==
  /\ Receive(g, r)
  /\ UNCHANGED <<socketVars, registry, rtcMutex, users, roster, reply, alive>>

(* The end of the loop body of g.                                          *)
Done(g) ==
  /\ step' = [step EXCEPT ![g] = "recv"]
  /\ req' = [req EXCEPT ![g] = None]

(* Mutant: RLock where Lock is called for.                                 *)
RtcRLock(g) ==
  /\ step[g] = "lock"
  /\ rtcMutex' = g
  /\ step' = [step EXCEPT ![g] = "notify"]
  /\ UNCHANGED <<socketVars, req, roster, reply>>

RtcLock(g) ==
  /\ step[g] = "lock"
  /\ rtcMutex = "free"
  /\ rtcMutex' = g
  /\ step' = [step EXCEPT ![g] = "notify"]
  /\ UNCHANGED <<socketVars, req, roster, reply>>

(* Mutant: the loop body ends without Unlock.                              *)
UnlockMissing(g) == rtcMutex' = rtcMutex /\ Done(g)

RtcUnlock(g) == rtcMutex' = "free" /\ Done(g)

-----------------------------------------------------------------------------
(* Mutant: what is passed on is the connection, not its uid.               *)
WatchReceiveConn ==
  /\ HandOff
  /\ Receive("watchForSocketDisconnect", [uid |-> arg["unregisterConn"]])
  /\ UNCHANGED <<registry, rtcMutex, users, roster, reply, alive>>

(* watchForSocketDisconnect takes the uid of a connection from rtcDC and   *)
(* sends it to leaveWebRTC.                                                *)
WatchReceive ==
  /\ HandOff
  /\ Receive("watchForSocketDisconnect", [uid |-> conns[arg["unregisterConn"]]])
  /\ UNCHANGED <<registry, rtcMutex, users, roster, reply, alive>>

WatchSend ==
  /\ step["watchForSocketDisconnect"] = "lock"
  /\ step["leaveWebRTC"] = "recv"
  /\ step' = [step EXCEPT !["watchForSocketDisconnect"] = "recv", !["leaveWebRTC"] = "lock"]
  /\ req' = [req EXCEPT !["leaveWebRTC"] = req["watchForSocketDisconnect"],
                        !["watchForSocketDisconnect"] = None]
  /\ UNCHANGED <<socketVars, registry, rtcMutex, users, roster, reply, alive>>

-----------------------------------------------------------------------------
(* Mutant: a user who joins again is taken to have his list already.       *)
JoinLockOnce ==
  /\ RtcLock("joinWebRTC")
  /\ users' = IF req["joinWebRTC"].uid \in members THEN {} ELSE members
  /\ UNCHANGED <<registry, alive>>

(* joinWebRTC: collect the other members under the mutex ...               *)
JoinLock ==
  /\ RtcLock("joinWebRTC")
  /\ users' = members \ {req["joinWebRTC"].uid}
  /\ UNCHANGED <<registry, alive>>

(* ... tell them ...                                                       *)
JoinNotify ==
  /\ step["joinWebRTC"] = "notify"
  /\ Send("sendDataToUids", users, Note("WEBRTC_USER_JOINED", req["joinWebRTC"].uid))
  /\ step' = [step EXCEPT !["joinWebRTC"] = "reply"]
  /\ UNCHANGED <<registry, rtcMutex, req, users, roster, reply, alive>>

(* ... send their list to the user who joins, store his entry, Unlock.     *)
JoinReply ==
  LET u == req["joinWebRTC"].uid IN
  /\ step["joinWebRTC"] = "reply"
  /\ Send("sendDataToUid", {u}, Note("WEBRTC_ALL_USERS", u))
  /\ roster' = [roster EXCEPT ![u] = users]
  /\ members' = members \cup {u}
  /\ streams' = [streams EXCEPT ![u] = req["joinWebRTC"].streams]
  /\ users' = {}
  /\ RtcUnlock("joinWebRTC")
  /\ UNCHANGED <<reply, alive>>

(* leaveWebRTC: under the mutex tell the other members, delete the entry.  *)
LeaveLock ==
  /\ RtcLock("leaveWebRTC")
  /\ UNCHANGED <<registry, users, alive>>

LeaveNotify ==
  LET u == req["leaveWebRTC"].uid IN
  /\ step["leaveWebRTC"] = "notify"
  /\ Send("sendDataToUids", members \ {u}, Note("WEBRTC_USER_LEFT", u))
  /\ members' = members \ {u}
  /\ streams' = [streams EXCEPT ![u] = <<>>]
  /\ RtcUnlock("leaveWebRTC")
  /\ UNCHANGED <<users, roster, reply, alive>>

(* sendWebRTCSignals and returningWebRTCSignals pass a signal on without   *)
(* looking at the registry.                                                *)
ForwardSignal(g, event) ==
  /\ step[g] = "lock"
  /\ Send("sendDataToUid", {req[g].toUid}, Note(event, req[g].uid))
  /\ Done(g)
  /\ UNCHANGED <<registry, rtcMutex, users, roster, reply, alive>>

ForwardSignals ==
  \/ ForwardSignal("sendWebRTCSignals", "WEBRTC_JOINED_SIGNAL")
  \/ ForwardSignal("returningWebRTCSignals", "WEBRTC_RETURN_SIGNAL_OUT")

-----------------------------------------------------------------------------
(* The position of the first entry of list s that satisfies P, or 0.       *)
FirstOr0(s, key, value) ==
  IF \E i \in DOMAIN s : s[i][key] = value
  THEN CHOOSE i \in DOMAIN s : /\ s[i][key] = value
                               /\ \A j \in 1 .. i - 1 : s[j][key] # value
  ELSE 0

(* Mutant: the entry found is written back at the first index.             *)
SetMotionAtFirst(s, id, motion) ==
  LET i == FirstOr0(s, "id", id)
  IN  IF i = 0 THEN s ELSE [s EXCEPT ![1] = [s[i] EXCEPT !.motion = motion]]

(* motionUpdate sets the motion of the stream with that id, if there is    *)
(* such a member and such a stream, and tells everybody else either way.   *)
SetMotion(s, id, motion) ==
  LET i == FirstOr0(s, "id", id)
  IN  IF i = 0 THEN s ELSE [s EXCEPT ![i].motion = motion]

MotionLock ==
  LET r == req["motionUpdate"] IN
  /\ RtcLock("motionUpdate")
  /\ streams' = IF r.uid \in members
                THEN [streams EXCEPT ![r.uid] = SetMotion(@, r.id, r.motion)]
                ELSE streams
  /\ UNCHANGED <<members, users, alive>>

MotionNotify ==
  LET u == req["motionUpdate"].uid IN
  /\ step["motionUpdate"] = "notify"
  /\ Send("sendDataToAllExcept", Uids \ {u}, Note("WEBRTC_MOTION_UPDATE", u))
  /\ RtcUnlock("motionUpdate")
  /\ UNCHANGED <<registry, users, roster, reply, alive>>

-----------------------------------------------------------------------------
(* deleteStream: the index of the stream with that name, which stays the   *)
(* first one when no stream has it; the last entry is copied to it and the *)
(* list truncated.                                                         *)
IndexToDelete(s, name) ==
  LET i == FirstOr0(s, "name", name) IN IF i = 0 THEN 1 ELSE i

(* Mutant: the list is truncated, the last entry is not copied before.     *)
Truncated(s, i) == [j \in 1 .. Len(s) - 1 |-> s[j]]

WithoutIndex(s, i) ==
  [j \in 1 .. Len(s) - 1 |-> IF j = i THEN s[Len(s)] ELSE s[j]]

DeleteLock ==
  LET r == req["deleteStream"] IN
  /\ RtcLock("deleteStream")
  /\ r.uid \in members => streams[r.uid] # <<>>
  /\ streams' = IF r.uid \in members
                THEN [streams EXCEPT ![r.uid] = WithoutIndex(@, IndexToDelete(@, r.name))]
                ELSE streams
  /\ UNCHANGED <<members, users, alive>>

(* An empty list has no last entry: index out of range, the process dies.  *)
DeletePanic ==
  LET r == req["deleteStream"] IN
  /\ RtcLock("deleteStream")
  /\ r.uid \in members /\ streams[r.uid] = <<>>
  /\ alive' = FALSE
  /\ UNCHANGED <<registry, users>>

DeleteNotify ==
  /\ step["deleteStream"] = "notify"
  /\ Send("sendDataToAll", Uids, Note("CHANGE", None))
  /\ RtcUnlock("deleteStream")
  /\ UNCHANGED <<registry, users, roster, reply, alive>>

(* getActiveStreams: under RLock, copy the streams of every member to the  *)
(* reply channel (capacity 1, so the send does not wait), RUnlock.         *)
ActiveStreams ==
  /\ step["getActiveStreams"] = "lock"
  /\ rtcMutex = "free"
  /\ reply' = [reply EXCEPT ![req["getActiveStreams"].recvChan] =
                 {n \in Names : \E u \in members : FirstOr0(streams[u], "name", n) # 0}]
  /\ Done("getActiveStreams")
  /\ UNCHANGED <<socketVars, registry, rtcMutex, users, roster, alive>>

-----------------------------------------------------------------------------
(* Every step but a panic leaves the process running.                      *)
RtcStep ==
  \/ WatchReceive \/ WatchSend
  \/ JoinLock \/ JoinNotify \/ JoinReply
  \/ LeaveLock \/ LeaveNotify
  \/ ForwardSignals
  \/ MotionLock \/ MotionNotify
  \/ DeleteLock \/ DeletePanic \/ DeleteNotify
  \/ ActiveStreams

RtcInternal == SocketStep /\ UNCHANGED rtcVars

(* Requests, registrations and broadcasts from outside.                    *)
RtcEnv ==
  \/ \E g \in RtcGoroutines \ {"watchForSocketDisconnect"} : \E r \in RequestsTo(g) : SendRtc(g, r)
  \/ /\ \/ Send("sendDataToAll", Uids, Note("CHANGE", None))
        \/ \E g \in Registrars, c \in Conns : SendConn(g, c)
     /\ UNCHANGED rtcVars

RtcNext == alive /\ (RtcStep \/ RtcInternal \/ RtcEnv)

RtcSpec == RtcInit /\ [][RtcNext]_<<socketVars, rtcVars>>

-----------------------------------------------------------------------------
(* Each variable has its type, and each goroutine holds the request it has *)
(* received until it is back at its receive.                               *)
RtcTypeOK ==
  /\ members \subseteq Uids
  /\ streams \in [Uids -> Seq(StreamInfo)]
  /\ rtcMutex \in {"free"} \cup Lockers
  /\ step \in [RtcGoroutines -> {"recv", "lock", "notify", "reply"}]
  /\ \A g \in RtcGoroutines : step[g] = "reply" => g = "joinWebRTC"
  /\ \A g \in RtcGoroutines : step[g] = "notify" => g \in Lockers
  /\ \A g \in RtcGoroutines : IF step[g] = "recv" THEN req[g] = None ELSE req[g] \in RequestsTo(g)
  /\ users \subseteq Uids
  /\ roster \in [Uids -> SUBSET Uids]
  /\ reply \in [Https -> {None} \cup SUBSET Names]
  /\ alive \in BOOLEAN

(* The registry's mutex is held by exactly the goroutine inside its        *)
(* critical section, which every one of them keeps across channel sends.   *)
RtcMutexHeldInside ==
  \A g \in RtcGoroutines : rtcMutex = g <=> step[g] \in {"notify", "reply"}

(* The list joinWebRTC collected before its two channel sends is still the *)
(* list of the other members when it stores the new entry after them.      *)
UsersStillTheOthers ==
  step["joinWebRTC"] \in {"notify", "reply"} => users = members \ {req["joinWebRTC"].uid}

(* What sendDataToUids is telling the members agrees with the registry     *)
(* all the while it tells them: the one who joined is a member, or is      *)
(* about to be stored, and the one who left is not a member.  joinWebRTC   *)
(* announces before it stores, sendDataToUids works after it has let its   *)
(* caller go on, and joins and leaves of one user may follow at once.      *)
NoteMatchesRegistry ==
  \A u \in Uids :
    /\ note["sendDataToUids"] = Note("WEBRTC_USER_JOINED", u) =>
         u \in members \/ (step["joinWebRTC"] = "reply" /\ req["joinWebRTC"].uid = u)
    /\ note["sendDataToUids"] = Note("WEBRTC_USER_LEFT", u) => u \notin members

(* Of any two users in the mesh one was sent a WEBRTC_ALL_USERS that lists *)
(* the other, in answer to his last join: the client that receives the     *)
(* list opens the peer connections, so a pair in no list never connects.   *)
PairHasInitiator ==
  \A u, v \in members : u # v => v \in roster[u] \/ u \in roster[v]

(* The names of a user's streams.                                          *)
NamesOf(s) == {s[i].name : i \in DOMAIN s}

(* The ids of a list with the names that go with them.                     *)
Entries(s) == {<<s[i].id, s[i].name>> : i \in DOMAIN s}
DistinctIds(s) == \A i, j \in DOMAIN s : s[i].id = s[j].id => i = j

(* The registry implements Registry: every request taken takes effect once *)
(* and as a whole, a join at the JoinReply that ends it, a deletion at its *)
(* lock, and no answer and no list of users mixes two instants, although   *)
(* joinWebRTC and the others go through several channel sends and requests *)
(* of all kinds interleave.                                                *)
Registered == INSTANCE Registry
  WITH live <- [u \in Uids |-> Entries(streams[u])],
       answer <- reply,
       joining <- IF step["joinWebRTC"] = "recv" THEN None
                  ELSE [uid |-> req["joinWebRTC"].uid, list |-> Entries(req["joinWebRTC"].streams)],
       leaving <- IF step["leaveWebRTC"] = "recv" THEN None ELSE req["leaveWebRTC"].uid,
       removing <- IF step["deleteStream"] = "lock" THEN req["deleteStream"] ELSE None,
       asking <- IF step["getActiveStreams"] = "recv" THEN None ELSE req["getActiveStreams"].recvChan
Linearizable == Registered!Spec

(* Whatever motion updates and deletions, of streams that exist or do not, *)
(* have been served for a member, his list is made of streams of a list a  *)
(* client joined with, each id still with its name and never in it twice:  *)
(* motionUpdate and deleteStream write entries by index and reorder them.  *)
StreamsAsJoined ==
  \A u \in members : \E s \in StreamLists :
    /\ Entries(streams[u]) \subseteq Entries(s)
    /\ DistinctIds(s) => DistinctIds(streams[u])

(* deleteStream takes the lock and removes from a user whose streams have  *)
(* distinct names, the named one among them, exactly that stream; nobody   *)
(* else's list changes.                                                    *)
DeleteRemovesNamed ==
  [][step["deleteStream"] = "lock" /\ step'["deleteStream"] = "notify" =>
       LET r == req["deleteStream"]
           s == streams[r.uid]
       IN  /\ \A v \in Uids \ {r.uid} : streams'[v] = streams[v]
           /\ r.name \in NamesOf(s) /\ (\A i, j \in DOMAIN s : s[i].name = s[j].name => i = j) =>
                /\ NamesOf(streams'[r.uid]) = NamesOf(s) \ {r.name}
                /\ Len(streams'[r.uid]) = Len(s) - 1
    ]_<<socketVars, rtcVars>>

(* "Remove the element at index i from a" (webRTCserver.go:288), where i   *)
(* is the position of the stream with the given name: no stream with       *)
(* another name is removed.                                                *)
OnlyNamedStreamRemoved ==
  [][step["deleteStream"] = "lock" /\ step'["deleteStream"] = "notify" =>
       LET r == req["deleteStream"]
       IN  NamesOf(streams[r.uid]) \ {r.name} \subseteq NamesOf(streams'[r.uid])
    ]_<<socketVars, rtcVars>>
=============================================================================
