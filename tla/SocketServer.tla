---------------------------- MODULE SocketServer ----------------------------
(***************************************************************************)
(* The socket server of server/pkg/socketServer/socketServer.go: a map of  *)
(* open WebSocket connections behind one mutex, and a goroutine per kind   *)
(* of message.  Every channel of the package is unbuffered, so a send and  *)
(* the receive that takes it are ONE step here, enabled when the receiving *)
(* goroutine is back at its "<-".  The environment (the WebRTC server, the *)
(* WebSocket and HTTP handlers) may send at any time; WebRTCServer and     *)
(* Relay say when it does.                                                 *)
(*                                                                         *)
(* sendData and sendDataMulti are left out: nothing in the repository      *)
(* sends to their channels.  Map iteration order is unspecified in Go, so  *)
(* connections are visited in any order.  The write of messageLoop to a    *)
(* connection always ends, its error is ignored as in the code.            *)
(***************************************************************************)
EXTENDS FiniteSets

CONSTANTS Conns,   \* *websocket.Conn values, one per connection ever opened
          Uids,    \* streamer ids
          UidOf,   \* the uid WebSocketAuth stored in the connection's Locals
          Notes,   \* the messages (event name and data), opaque in this module
          None

ASSUME UidOfAssumption == UidOf \in [Conns -> Uids]
ASSUME NoneAssumption == None \notin Conns \cup Uids \cup Notes

Senders == {"sendDataToUid", "sendDataToUids", "sendDataToAll", "sendDataToAllExcept"}
Registrars == {"registerConn", "unregisterConn"}

VARIABLES
  conns,      \* Connections.data: the uid of a registered connection, or None
  connMutex,  \* Connections.mutex: "free" or the goroutine that holds it
  phase,      \* where each goroutine is: at its receive, at Lock, in the critical section
  to,         \* the uids a sender's current message is addressed to
  note,       \* a sender's current message
  left,       \* connections a sender's loop has still to pass to WriteMessage
  arg,        \* the connection being registered / unregistered
  writing     \* the connection messageLoop is writing to, or None

socketVars == <<conns, connMutex, phase, to, note, left, arg, writing>>

SocketInit ==
  /\ conns = [c \in Conns |-> None]
  /\ connMutex = "free"
  /\ phase = [g \in Senders \cup Registrars |-> "recv"]
  /\ to = [g \in Senders |-> {}]
  /\ note = [g \in Senders |-> None]
  /\ left = [g \in Senders |-> {}]
  /\ arg = [g \in Registrars |-> None]
  /\ writing = None

-----------------------------------------------------------------------------
(* The connections a message of g would be written to now.                 *)
Matching(g) == {c \in Conns : conns[c] \in to[g]}

(* A send on the channel of g, taken by g.  sendDataToAll is sent to all   *)
(* of Uids, sendDataToAllExcept to all but the excluded one.               *)
Send(g, uids, n) ==
  /\ phase[g] = "recv"
  /\ phase' = [phase EXCEPT ![g] = "lock"]
  /\ to' = [to EXCEPT ![g] = uids]
  /\ note' = [note EXCEPT ![g] = n]
  /\ UNCHANGED <<conns, connMutex, left, arg, writing>>

Lock(g) ==
  /\ phase[g] = "lock"
  /\ connMutex = "free"
  /\ connMutex' = g
  /\ phase' = [phase EXCEPT ![g] = "write"]
  /\ UNCHANGED <<conns, to, note, arg, writing>>

(* sendDataToUid breaks out of its loop after the first connection of the  *)
(* uid; when one user has two connections either may be the first.         *)
LockOne ==
  /\ Lock("sendDataToUid")
  /\ \/ /\ Matching("sendDataToUid") = {}
        /\ left' = [left EXCEPT !["sendDataToUid"] = {}]
     \/ \E c \in Matching("sendDataToUid") :
          left' = [left EXCEPT !["sendDataToUid"] = {c}]

LockMany(g) ==
  /\ g # "sendDataToUid"
  /\ Lock(g)
  /\ left' = [left EXCEPT ![g] = Matching(g)]

(* WriteMessage: hand the bytes to messageLoop, still under the mutex.     *)
Write(g) ==
  /\ phase[g] = "write"
  /\ writing = None
  /\ \E c \in left[g] :
       /\ writing' = c
       /\ left' = [left EXCEPT ![g] = @ \ {c}]
  /\ UNCHANGED <<conns, connMutex, phase, to, note, arg>>

(* Mutant: the sender returns without Unlock.                              *)
UnlockForgotten(g) ==
  /\ phase[g] = "write"
  /\ left[g] = {}
  /\ phase' = [phase EXCEPT ![g] = "recv"]
  /\ to' = [to EXCEPT ![g] = {}]
  /\ note' = [note EXCEPT ![g] = None]
  /\ UNCHANGED <<conns, connMutex, left, arg, writing>>

Unlock(g) ==
  /\ phase[g] = "write"
  /\ left[g] = {}
  /\ connMutex' = "free"
  /\ phase' = [phase EXCEPT ![g] = "recv"]
  /\ to' = [to EXCEPT ![g] = {}]
  /\ note' = [note EXCEPT ![g] = None]
  /\ UNCHANGED <<conns, left, arg, writing>>

(* messageLoop returns from conn.WriteMessage.                             *)
MessageLoop ==
  /\ writing # None
  /\ writing' = None
  /\ UNCHANGED <<conns, connMutex, phase, to, note, left, arg>>

-----------------------------------------------------------------------------
(* A send on RegisterConn or UnregisterConn, taken by its goroutine.       *)
SendConn(g, c) ==
  /\ phase[g] = "recv"
  /\ phase' = [phase EXCEPT ![g] = "lock"]
  /\ arg' = [arg EXCEPT ![g] = c]
  /\ UNCHANGED <<conns, connMutex, to, note, left, writing>>

(* Mutant: the map's value is the connection, not its uid.                 *)
RegisterConnAsValue ==
  /\ phase["registerConn"] = "lock"
  /\ connMutex = "free"
  /\ conns' = [conns EXCEPT ![arg["registerConn"]] = arg["registerConn"]]
  /\ phase' = [phase EXCEPT !["registerConn"] = "recv"]
  /\ arg' = [arg EXCEPT !["registerConn"] = None]
  /\ UNCHANGED <<connMutex, to, note, left, writing>>

(* registerConn: Lock, store, Unlock.                                      *)
RegisterConn ==
  /\ phase["registerConn"] = "lock"
  /\ connMutex = "free"
  /\ conns' = [conns EXCEPT ![arg["registerConn"]] = UidOf[arg["registerConn"]]]
  /\ phase' = [phase EXCEPT !["registerConn"] = "recv"]
  /\ arg' = [arg EXCEPT !["registerConn"] = None]
  /\ UNCHANGED <<connMutex, to, note, left, writing>>

(* Mutant: unregisterConn does not take the lock.                          *)
UnregisterUnlocked ==
  /\ phase["unregisterConn"] = "lock"
  /\ conns[arg["unregisterConn"]] # None
  /\ phase' = [phase EXCEPT !["unregisterConn"] = "handoff"]
  /\ UNCHANGED <<conns, connMutex, to, note, left, arg, writing>>

(* Mutant: it deletes the connection before it sends the uid.              *)
UnregisterDeletesFirst ==
  /\ phase["unregisterConn"] = "lock"
  /\ connMutex = "free"
  /\ conns[arg["unregisterConn"]] # None
  /\ connMutex' = "unregisterConn"
  /\ conns' = [conns EXCEPT ![arg["unregisterConn"]] = None]
  /\ phase' = [phase EXCEPT !["unregisterConn"] = "handoff"]
  /\ UNCHANGED <<to, note, left, arg, writing>>

(* unregisterConn finds the connection in the map: it goes on to send the  *)
(* uid on rtcDC, holding the mutex.                                        *)
UnregisterLock ==
  /\ phase["unregisterConn"] = "lock"
  /\ connMutex = "free"
  /\ conns[arg["unregisterConn"]] # None
  /\ connMutex' = "unregisterConn"
  /\ phase' = [phase EXCEPT !["unregisterConn"] = "handoff"]
  /\ UNCHANGED <<conns, to, note, left, arg, writing>>

(* ... or does not find it: nothing to tell and nothing to delete.         *)
UnregisterUnknown ==
  /\ phase["unregisterConn"] = "lock"
  /\ connMutex = "free"
  /\ conns[arg["unregisterConn"]] = None
  /\ phase' = [phase EXCEPT !["unregisterConn"] = "recv"]
  /\ arg' = [arg EXCEPT !["unregisterConn"] = None]
  /\ UNCHANGED <<conns, connMutex, to, note, left, writing>>

(* rtcDC takes the uid; then delete and Unlock.                            *)
HandOff ==
  /\ phase["unregisterConn"] = "handoff"
  /\ conns' = [conns EXCEPT ![arg["unregisterConn"]] = None]
  /\ connMutex' = "free"
  /\ phase' = [phase EXCEPT !["unregisterConn"] = "recv"]
  /\ arg' = [arg EXCEPT !["unregisterConn"] = None]
  /\ UNCHANGED <<to, note, left, writing>>

-----------------------------------------------------------------------------
(* What the goroutines do by themselves.                                   *)
SocketStep ==
  \/ LockOne
  \/ \E g \in Senders : LockMany(g) \/ Write(g) \/ Unlock(g)
  \/ MessageLoop
  \/ RegisterConn
  \/ UnregisterLock
  \/ UnregisterUnknown

(* What the rest of the program does to them.                              *)
SocketEnv ==
  \/ \E g \in Senders, uids \in SUBSET Uids, n \in Notes : Send(g, uids, n)
  \/ \E g \in Registrars, c \in Conns : SendConn(g, c)
  \/ HandOff

SocketNext == SocketStep \/ SocketEnv

SocketSpec == SocketInit /\ [][SocketNext]_socketVars

-----------------------------------------------------------------------------
(* Each variable has its type, and only unregisterConn waits on rtcDC.     *)
SocketTypeOK ==
  /\ conns \in [Conns -> Uids \cup {None}]
  /\ connMutex \in {"free", "unregisterConn"} \cup Senders
  /\ phase \in [Senders \cup Registrars -> {"recv", "lock", "write", "handoff"}]
  /\ \A g \in Senders : phase[g] # "handoff"
  /\ \A g \in Registrars : phase[g] # "write"
  /\ phase["registerConn"] # "handoff"
  /\ to \in [Senders -> SUBSET Uids]
  /\ note \in [Senders -> Notes \cup {None}]
  /\ left \in [Senders -> SUBSET Conns]
  /\ arg \in [Registrars -> Conns \cup {None}]
  /\ writing \in Conns \cup {None}

(* The mutex of the connection map is held by exactly the goroutine that   *)
(* is inside its critical section: five goroutines Lock and Unlock it by   *)
(* hand, one of them across a channel send.                                *)
MutexHeldInside ==
  \A g \in Senders \cup Registrars :
    connMutex = g <=> phase[g] \in {"write", "handoff"}

(* While a sender iterates over the map no connection it has still to      *)
(* write to is removed, and none belongs to a uid it was not asked to      *)
(* write to: what is left to write is registered and addressed.            *)
MapFrozenWhileIterated ==
  \A g \in Senders : phase[g] = "write" => left[g] \subseteq Matching(g)

(* A connection that waits in unregisterConn for rtcDC to take its uid is  *)
(* still in the map, so that no other goroutine can have deleted it or     *)
(* told the WebRTC server of it.                                           *)
HandOffKnowsItsUid ==
  phase["unregisterConn"] = "handoff" =>
    \E c \in Conns : arg["unregisterConn"] = c /\ conns[c] = UidOf[c]
=============================================================================
