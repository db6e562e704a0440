-------------------------------- MODULE Mesh --------------------------------
(***************************************************************************)
(* The calls between the pages of the users: client/src/context/           *)
(* StreamsContext.tsx and the joins of SocketContext.tsx and               *)
(* StreamingContext.tsx, over the WebRTC server (Registry) and the socket  *)
(* server's goroutine for messages to one user.  A call is named           *)
(* <<from, to, n>>: the n-th that from made to to.  Streams do not matter  *)
(* here, so Ids and Names may be empty.  WEBRTC_USER_LEFT and the motion   *)
(* updates change nothing on a page and are left out: their handlers look  *)
(* into the peers of the render that made them, which are none.            *)
(***************************************************************************)
EXTENDS Registry, Naturals, Sequences, FiniteSets

Seqs == INSTANCE SequencesExt

CONSTANT MaxMoves  \* bound on the pages closed and the rejoins, together; numbers them

(* The n-th call of one user to another, and what is written to users.     *)
CallNames == Uids \X Uids \X (Nat \ {0})
Messages == ({"users"} \X Uids \X (SUBSET Uids) \X (Uids \cup {None}))
              \cup ({"offer", "answer"} \X Uids \X CallNames)

ASSUME MaxMovesAssumption == MaxMoves \in Nat
ASSUME NoneAssumption == None \notin Uids \cup JoinRequests \cup CallNames \cup Messages

VARIABLES
  open,      \* whether the user has a page open whose connection has been made
  later,     \* what the page has sent, will send when a timer fires or the signal of
             \* a peer is complete, or will do when a handler has returned, in any order
  parting,   \* what is left to serve of the connections of the pages closed before,
             \* as <<connection, message>>
  inbox,     \* what was written to the page's connection, in order
  sending, returning,  \* the call whose signal each forwarding goroutine holds, or None
  toOne,     \* the message sendDataToUid holds, or None
  ref,       \* peersRef: the peers of the page, as <<user, call>>
  shown,     \* peers: the call shown for a user
  crashed,   \* the users whose page React has taken down after an error
  calls,     \* the state of each call, by caller and callee
  overtaken, \* users whose last join was served before a leave sent earlier
  silent,    \* users whose page has sent no join and has none to send
  moves

page == <<open, later, parting, inbox>>
wires == <<sending, returning, toOne>>
peers == <<ref, shown, crashed, calls>>
meshVars == <<vars, page, wires, peers, overtaken, silent, moves>>

CallStates == {"called", "answered", "connected", "stale", "late", "over"}
Call(u, v, n) == <<u, v, n>>
State(c) == calls[c[1]][c[2]][c[3]]
Calls == UNION {{Call(u, v, n) : n \in DOMAIN calls[u][v]} : u, v \in Uids}

MeshInit ==
  /\ Init
  /\ open = [u \in Uids |-> FALSE]
  /\ inbox = [u \in Uids |-> <<>>]
  /\ later = [u \in Uids |-> {}]
  /\ parting = [u \in Uids |-> {}]
  /\ sending = None /\ returning = None /\ toOne = None
  /\ ref = [u \in Uids |-> <<>>]
  /\ shown = [u \in Uids |-> <<>>]
  /\ crashed = {}
  /\ calls = [u \in Uids |-> [v \in Uids |-> <<>>]]
  /\ overtaken = {} /\ silent = {}
  /\ moves = 0

-----------------------------------------------------------------------------
(* The page.                                                               *)

(* Mutant: a page that leaves does not join again.                         *)
LeaveForGood(u) ==
  /\ open[u] /\ u \notin crashed /\ moves < MaxMoves
  /\ moves' = moves + 1
  /\ later' = [later EXCEPT ![u] = @ \cup {<<"leave", moves'>>}]
  /\ silent' = silent \ {u}
  /\ UNCHANGED <<vars, open, parting, inbox, wires, peers, overtaken>>

(* rejoinWebRTC: leave now, join in 2 s.  A stream may be added or deleted *)
(* meanwhile, so several rejoins may be under way.                         *)
Rejoin(u) ==
  /\ open[u] /\ u \notin crashed /\ moves < MaxMoves
  /\ moves' = moves + 1
  /\ later' = [later EXCEPT ![u] = @ \cup {<<"leave", moves'>>, <<"again", moves'>>}]
  /\ silent' = silent \ {u}
  /\ UNCHANGED <<vars, open, parting, inbox, wires, peers, overtaken>>

(* WEBRTC_ALL_USERS: every listed user is called, but each turn of the     *)
(* loop filters all listed users out of both lists, so only the call to    *)
(* the last one is kept.                                                   *)
Call1(u, v) == Call(u, v, Len(calls[u][v]) + 1)

Dropped(s) == [n \in DOMAIN s |-> IF s[n] = "connected" THEN s[n] ELSE "over"]
Settled(s) == [n \in DOMAIN s |-> IF s[n] \in {"stale", "late"} THEN "over" ELSE s[n]]

(* The entries of a list of peers that are not of the given users.         *)
Without(s, users) ==
  LET kept[i \in 0 .. Len(s)] ==
        IF i = 0 THEN <<>>
        ELSE IF s[i][1] \in users THEN kept[i - 1] ELSE Append(kept[i - 1], s[i])
  IN  kept[Len(s)]

CallAll(u, users, last) ==
  /\ calls' = [v \in Uids |-> [w \in Uids |->
       IF v = u /\ w \in users THEN Append(Dropped(calls[u][w]), "called")
       ELSE IF v \in users /\ w = u THEN Settled(calls[v][u])
       ELSE calls[v][w]]]
  /\ IF users = {}
     THEN /\ ref' = ref
          /\ shown' = [shown EXCEPT ![u] = <<>>]
     ELSE /\ ref' = [ref EXCEPT ![u] = Append(Without(@, users), <<last, Call1(u, last)>>)]
          /\ shown' = [shown EXCEPT ![u] = [v \in {last} |-> Call1(u, v)]]
  /\ later' = [later EXCEPT ![u] = @ \cup {<<"offer", Call1(u, v)>> : v \in users}]
  /\ UNCHANGED crashed

SetState(c, s) == calls' = [calls EXCEPT ![c[1]][c[2]][c[3]] = s]

(* Mutant: a call replaces the earlier ones of that user in the list, but  *)
(* its peer is not put there.                                              *)
BeCalledForgetting(u, c) ==
  LET caller == c[1] IN
  /\ ref' = [ref EXCEPT ![u] = Without(@, {caller})]
  /\ shown' = [shown EXCEPT ![u] = [v \in DOMAIN @ \cup {caller} |->
                                      IF v = caller THEN c ELSE @[v]]]
  /\ SetState(c, IF State(c) = "called" THEN "answered" ELSE State(c))
  /\ later' = [later EXCEPT ![u] = @ \cup {<<"answer", c>>}]
  /\ UNCHANGED crashed

(* WEBRTC_JOINED_SIGNAL: a peer for the caller is pushed onto the list, be *)
(* there others of his or not, and answers when it has the signal.         *)
BeCalled(u, c) ==
  LET caller == c[1] IN
  /\ ref' = [ref EXCEPT ![u] = Append(@, <<caller, c>>)]
  /\ shown' = [shown EXCEPT ![u] = [v \in DOMAIN @ \cup {caller} |->
                                      IF v = caller THEN c ELSE @[v]]]
  /\ SetState(c, IF State(c) = "called" THEN "answered"
                 ELSE IF State(c) = "over" THEN "late" ELSE State(c))
  /\ later' = [later EXCEPT ![u] = @ \cup {<<"answer", c>>}]
  /\ UNCHANGED crashed

(* Mutant: an answer goes to the last peer of that user.                   *)
LastOf(u, v) == Seqs!SelectLastInSeq(ref[u], LAMBDA e : e[1] = v)

(* The first peer of that user, whichever call it is of, or 0.             *)
First(u, v) == Seqs!SelectInSeq(ref[u], LAMBDA e : e[1] = v)

(* WEBRTC_RETURN_SIGNAL_OUT: the place of the peer in peersRef is used as  *)
(* one in peers, which may have fewer: an error in the next render.  The   *)
(* signal is given to a peer when the handler has returned.                *)
BeAnswered(u, c) ==
  /\ IF First(u, c[2]) > Cardinality(DOMAIN shown[u])
     THEN /\ crashed' = crashed \cup {u}
          /\ shown' = [shown EXCEPT ![u] = <<>>]
     ELSE UNCHANGED <<crashed, shown>>
  /\ later' = [later EXCEPT ![u] = @ \cup {<<"apply", c>>}]
  /\ UNCHANGED <<ref, calls>>

(* A page that was taken down listens no more; its timers and peers go on. *)
Receive(u) ==
  /\ inbox[u] # <<>>
  /\ inbox' = [inbox EXCEPT ![u] = Tail(@)]
  /\ LET m == Head(inbox[u]) IN
     \/ u \in crashed /\ UNCHANGED <<later, peers>>
     \/ u \notin crashed /\ m[1] = "users" /\ CallAll(u, m[3], m[4])
     \/ u \notin crashed /\ m[1] = "offer" /\ BeCalled(u, m[3])
     \/ u \notin crashed /\ m[1] = "answer" /\ BeAnswered(u, m[3])
  /\ UNCHANGED <<vars, open, parting, wires, overtaken, silent, moves>>

(* The signal goes to First.  A peer that gets the answer of another call  *)
(* is of no use any more.                                                  *)
Apply(u) ==
  \E t \in later[u] :
    /\ t[1] = "apply"
    /\ later' = [later EXCEPT ![u] = @ \ {t}]
    /\ LET c == t[2]
           i == First(u, c[2])
       IN  IF i = 0 THEN UNCHANGED calls
           ELSE LET d == ref[u][i][2] IN
                SetState(d, IF State(d) \in {"over", "late"} \/ (d = c /\ State(d) # "answered")
                            THEN State(d)
                            ELSE IF d = c THEN "connected" ELSE "stale")
    /\ UNCHANGED <<vars, open, parting, inbox, wires, ref, shown, crashed, overtaken, silent, moves>>

(* The page is closed: its peers go, and the handler of its connection     *)
(* reads the rest of what was sent and then unregisters, which makes the   *)
(* user leave.  The next page does not wait for that, so that there may be *)
(* several such connections.                                               *)
Sendable(m) == m[1] \in {"join", "again", "leave", "offer", "answer"}

Close(u) ==
  /\ open[u] /\ moves < MaxMoves
  /\ moves' = moves + 1
  /\ open' = [open EXCEPT ![u] = FALSE]
  /\ \E sent \in SUBSET {m \in later[u] : Sendable(m)} :
       parting' = [parting EXCEPT ![u] = @ \cup {<<moves', m>> : m \in sent \cup {<<"gone">>}}]
  /\ inbox' = [inbox EXCEPT ![u] = <<>>]
  /\ later' = [later EXCEPT ![u] = {}]
  /\ ref' = [ref EXCEPT ![u] = <<>>]
  /\ shown' = [shown EXCEPT ![u] = <<>>]
  /\ crashed' = crashed \ {u}
  /\ calls' = [v \in Uids |-> [w \in Uids |->
       IF v = u THEN [n \in DOMAIN calls[u][w] |-> "over"]
       ELSE IF w = u THEN [n \in DOMAIN calls[v][u] |->
                             IF calls[v][u][n] = "called" THEN "called" ELSE "over"]
       ELSE calls[v][w]]]
  /\ silent' = silent \ {u}
  /\ UNCHANGED <<vars, wires, overtaken>>

(* The connection of a new page is made.  The timer of its join waits 1 s  *)
(* and not for that: when it has fired before, send has thrown and the     *)
(* join is lost.  Of a rejoin before, the leave was dropped, but not the   *)
(* join if its 2 s are not over.                                           *)
Open(u) ==
  /\ ~open[u]
  /\ open' = [open EXCEPT ![u] = TRUE]
  /\ \E joins \in SUBSET {<<"join">>, <<"again", moves + 1>>} :
       /\ later' = [later EXCEPT ![u] = joins]
       /\ silent' = IF joins = {} THEN silent \cup {u} ELSE silent
       /\ moves' = IF joins \subseteq {<<"join">>} THEN moves ELSE moves + 1
       /\ moves' <= MaxMoves
  /\ UNCHANGED <<vars, parting, inbox, wires, peers, overtaken>>

-----------------------------------------------------------------------------
(* The server.                                                             *)

(* The handler of a connection passes a message on when the goroutine of   *)
(* its kind is free.  A page leaves before it joins again, and the end of  *)
(* a connection comes after all the rest that was sent on it.              *)
Pass(u, m, rest) ==
  \/ /\ m[1] = "join" \/ (m[1] = "again" /\ <<"leave", m[2]>> \notin rest)
     /\ joining = None /\ Take /\ joining' = [uid |-> u, list |-> {}]
     /\ UNCHANGED wires
  \/ /\ m[1] = "leave" \/ (m[1] = "gone" /\ rest = {})
     /\ leaving = None /\ Take /\ leaving' = u
     /\ UNCHANGED wires
  \/ /\ m[1] = "offer" /\ sending = None
     /\ sending' = m[2]
     /\ UNCHANGED <<vars, returning, toOne>>
  \/ /\ m[1] = "answer" /\ returning = None
     /\ returning' = m[2]
     /\ UNCHANGED <<vars, sending, toOne>>

(* What else is left of the connection t comes from.                       *)
RestOf(u, t) == {s[2] : s \in {s \in parting[u] \ {t} : s[1] = t[1]}}

Handle(u) ==
  /\ \/ \E m \in later[u] :
          /\ Pass(u, m, later[u] \ {m})
          /\ later' = [later EXCEPT ![u] = @ \ {m}]
          /\ UNCHANGED parting
     \/ \E t \in parting[u] :
          /\ Pass(u, t[2], RestOf(u, t))
          /\ parting' = [parting EXCEPT ![u] = @ \ {t}]
          /\ UNCHANGED later
  /\ UNCHANGED <<open, inbox, peers, overtaken, silent, moves>>

(* joinWebRTC hands the list of the others, in any order, to sendDataToUid *)
(* before it stores the entry.                                             *)
ServeJoin ==
  /\ joining # None /\ toOne = None
  /\ Join
  /\ LET u == joining.uid
         users == members \ {u}
     IN  /\ \E last \in IF users = {} THEN {None} ELSE users :
              toOne' = <<"users", u, users, last>>
         /\ overtaken' = IF leaving = u \/ parting[u] # {}
                         THEN overtaken \cup {u} ELSE overtaken \ {u}
  /\ UNCHANGED <<page, sending, returning, peers, silent, moves>>

ServeLeave ==
  /\ leaving # None
  /\ Leave
  /\ UNCHANGED <<page, wires, peers, overtaken, silent, moves>>

Forward ==
  /\ toOne = None
  /\ \/ /\ sending # None
        /\ toOne' = <<"offer", sending[2], sending>>
        /\ sending' = None
        /\ UNCHANGED returning
     \/ /\ returning # None
        /\ toOne' = <<"answer", returning[1], returning>>
        /\ returning' = None
        /\ UNCHANGED sending
  /\ UNCHANGED <<vars, page, peers, overtaken, silent, moves>>

(* sendDataToUid writes to one connection of the user, any: that of a page *)
(* closed before is as good, as long as it is registered.                  *)
Deliver ==
  /\ toOne # None
  /\ toOne' = None
  /\ LET u == toOne[2] IN
     \/ open[u] /\ inbox' = [inbox EXCEPT ![u] = Append(@, toOne)]
     \/ (~open[u] \/ parting[u] # {}) /\ UNCHANGED inbox
  /\ UNCHANGED <<vars, open, later, parting, sending, returning, peers, overtaken, silent, moves>>

MeshNext ==
  \/ ServeJoin \/ ServeLeave \/ Forward \/ Deliver
  \/ \E u \in Uids : \/ Rejoin(u) \/ Receive(u) \/ Apply(u)
                     \/ Close(u) \/ Open(u) \/ Handle(u)

MeshSpec == MeshInit /\ [][MeshNext]_meshVars

-----------------------------------------------------------------------------
(* Types; a closed page does nothing more, and a call is shown only while  *)
(* its peer is in peersRef, where an answer to it is looked for.           *)
MeshTypeOK ==
  /\ \A u \in Uids : ~open[u] => later[u] = {} /\ inbox[u] = <<>> /\ ref[u] = <<>>
  /\ \A u, v \in Uids : \A n \in DOMAIN calls[u][v] : calls[u][v][n] \in CallStates
  /\ \A u \in Uids : \A v \in DOMAIN shown[u] :
       \E i \in DOMAIN ref[u] : ref[u][i] = <<v, shown[u][v]>>
  /\ sending \in Calls \cup {None} /\ returning \in Calls \cup {None}
  /\ \A u \in crashed : open[u]
  /\ members \cup overtaken \cup silent \subseteq Uids

(* Nothing is under way.                                                   *)
Quiet ==
  /\ \A u \in Uids : later[u] = {} /\ parting[u] = {} /\ inbox[u] = <<>>
  /\ sending = None /\ returning = None /\ toOne = None
  /\ joining = None /\ leaving = None

Watching(u, v) == v \in DOMAIN shown[u] /\ State(shown[u][v]) = "connected"

Kept(c) == \E i \in DOMAIN ref[c[1]] : ref[c[1]][i][2] = c

(* The answer to a call reaches the peer that made the call whenever that  *)
(* peer is still in the list, although it is looked up by the user alone   *)
(* (StreamsContext.tsx:170-172) and several calls with one user may be     *)
(* listed: only an ALL_USERS puts a caller's peer there, and it takes the  *)
(* others of that user out first.                                          *)
AnswerFindsItsPeer ==
  \A u \in Uids : \A t \in later[u] :
    t[1] = "apply" /\ Kept(t[2]) => ref[u][First(u, t[2][2])][2] = t[2]

(* What is known to keep two pages apart: a call dropped by the            *)
(* WEBRTC_ALL_USERS that made it (until its caller calls again), the       *)
(* answer of one call given to another, or an offer of before a reload or  *)
(* a rejoin that comes after the calls that replaced it (both as long as   *)
(* no WEBRTC_ALL_USERS of either has renewed the call), a page taken down  *)
(* by an answer that came after its peers were cleared, or one that has    *)
(* sent no join and whose user is in the mesh by an earlier page.          *)
Excused(u, v) ==
  \/ {u, v} \cap (crashed \cup silent) # {}
  \/ \E c \in Calls :
       /\ {c[1], c[2]} = {u, v}
       /\ \/ State(c) \in {"stale", "late"}
          \/ State(c) = "answered" /\ ~Kept(c)

(* When nothing is under way, the pages of any two users in the mesh watch *)
(* each other, whatever the order in which the joins, offers and answers   *)
(* were served (who calls whom is settled by the registry's lock,          *)
(* webRTCserver.go:119-156), but for the five cases of Excused.  A message *)
(* written to a connection that was gone is none of them: it is renewed.   *)
MeshComplete ==
  Quiet => \A u, v \in members : (u # v /\ open[u] /\ open[v])
             => Watching(u, v) \/ Excused(u, v)

(* A user with an open page is in the mesh when nothing is under way, but  *)
(* for two cases.  The page has sent no join: its timer fired before the   *)
(* connection was made (SocketContext.tsx:33-44), and no stream was added  *)
(* or deleted since.  Or a leave he sent before his last join, or the end  *)
(* of the connection of an earlier page (socketServer.go:248), was served  *)
(* after that join.  Nothing else takes him out for good.                  *)
MemberUnlessOvertaken ==
  Quiet => \A u \in Uids : open[u] => u \in members \cup overtaken \cup silent
=============================================================================
