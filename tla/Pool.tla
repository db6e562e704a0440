--------------------------------- MODULE Pool ---------------------------------
(***************************************************************************)
(* Who waits for a database connection while holding what.  The pool of    *)
(* server/pkg/db/db.go has at most MaxConns connections, shared by the     *)
(* HTTP handlers of server/pkg/handlers and the recorder of videoServer.go.*)
(* A handler keeps its connection to the end of its body (defer), also     *)
(* while it sends to the socket server or the WebRTC server, which it does *)
(* without a timeout; the recorder takes a second connection while it has  *)
(* one.  Every context has a deadline: 8 seconds in a handler, 3 in the    *)
(* recorder.  The pool itself (pgxpool) is external.                       *)
(***************************************************************************)
EXTENDS Naturals, Sequences, FiniteSets

CONSTANTS Requests,   \* HTTP requests (bound: each is made once)
          Kinds,      \* the kinds of requests made in this instance
          MaxConns,
          None

(* 20 or 50 in db.go: the recorder alone needs two.                        *)
ASSUME MaxConnsAssumption == MaxConns \in Nat /\ MaxConns >= 2
ASSUME NoneAssumption == None \notin Requests

VARIABLES
  todo,      \* what is left of the body of each handler
  begun,     \* the requests that have arrived
  holds,     \* the handlers that hold a connection
  idle,      \* connections of the pool that nobody holds
  late,      \* the handlers whose 8 seconds are over
  flowing,   \* the two servers take what is sent to them
  rec,       \* what the recorder does next
  recFor,    \* the request whose blob it has, or None
  recHolds,  \* the connections it holds
  recLate,   \* its 3 seconds are over
  alive      \* FALSE once the process has died

requestVars == <<todo, begun, late>>
recVars == <<rec, recFor, recHolds, recLate>>
vars == <<requestVars, recVars, holds, idle, flowing, alive>>

-----------------------------------------------------------------------------
(* What each handler may wait for, in order: the session in Redis, a       *)
(* connection, the answers to its statements, the socket server or the     *)
(* WebRTC server (send), the new session in Redis (authorize), the         *)
(* recorder.  Any of them may be the last one, by an error.                *)
Read == <<"acquire", "query">>    \* GetStreamer and the other queries, downloads
StreamerLogin == <<"acquire", "query", "authorize">>    \* also InitialLogin of a known name
StreamerRegister == <<"acquire", "query", "authorize", "send">>
InitialLogin == <<"acquire", "query", "send", "authorize">>
DeleteStream == <<"session", "acquire", "send", "query", "send">>
GetOldStreams == <<"session", "send", "acquire", "query">>
Refresh == <<"session", "authorize">>
HandleChunk == <<"session", "record", "return">>

(* Mutant: HandleChunk takes a connection before it asks the recorder.     *)
BodiesChunkHolds ==
  [read  |-> Read,
   chunk |-> <<"session", "acquire", "record", "return">>]

(* The body of each kind of handler.                                       *)
Bodies ==
  [read     |-> Read,
   login    |-> StreamerLogin,
   register |-> StreamerRegister,
   newcomer |-> InitialLogin,
   delete   |-> DeleteStream,
   old      |-> GetOldStreams,
   refresh  |-> Refresh,
   chunk    |-> HandleChunk]

Init ==
  /\ todo = [r \in Requests |-> <<>>]
  /\ begun = {} /\ holds = {} /\ late = {}
  /\ idle = MaxConns
  /\ flowing = TRUE
  /\ rec = "recv" /\ recFor = None /\ recHolds = 0 /\ recLate = FALSE
  /\ alive = TRUE

At(r, what) == todo[r] # <<>> /\ Head(todo[r]) = what

Begin(r) ==
  /\ r \notin begun
  /\ begun' = begun \cup {r}
  /\ \E kind \in Kinds \cap DOMAIN Bodies : todo' = [todo EXCEPT ![r] = Bodies[kind]]
  /\ UNCHANGED <<late, recVars, holds, idle, flowing, alive>>

(* Mutant: no Release is deferred.                                         *)
GoOnHolding(r, rest) ==
  /\ todo' = [todo EXCEPT ![r] = rest]
  /\ holds' = IF rest = <<>> THEN holds \ {r} ELSE holds
  /\ UNCHANGED <<begun, late, idle>>

(* The handler goes on with rest; at its end the connection is released.   *)
GoOn(r, rest) ==
  /\ todo' = [todo EXCEPT ![r] = rest]
  /\ IF rest = <<>> /\ r \in holds
     THEN idle' = idle + 1 /\ holds' = holds \ {r}
     ELSE UNCHANGED <<idle, holds>>
  /\ UNCHANGED <<begun, late>>

Aside == UNCHANGED <<recVars, flowing, alive>>

(* Pool.Acquire, or Pool.Query to its last row: a connection, or ...       *)
Acquire(r) ==
  /\ At(r, "acquire") /\ r \notin late
  /\ idle > 0
  /\ idle' = idle - 1
  /\ holds' = holds \cup {r}
  /\ todo' = [todo EXCEPT ![r] = Tail(@)]
  /\ UNCHANGED <<begun, late>> /\ Aside

(* A statement, or the session read from Redis, in time.                   *)
Answered(r) ==
  /\ At(r, "query") \/ At(r, "session")
  /\ r \notin late
  /\ GoOn(r, Tail(todo[r])) /\ Aside

(* Mutant: a statement has no context.                                     *)
RefusedUnlessQuery(r) ==
  /\ At(r, "session") \/ (At(r, "acquire") /\ (r \in late \/ idle > 0))
  /\ GoOn(r, <<>>) /\ Aside

(* ... an error: the deadline, no row, a session that has expired, no      *)
(* answer of the database, ...                                             *)
Refused(r) ==
  /\ \/ At(r, "query") \/ At(r, "session")
     \/ At(r, "acquire") /\ (r \in late \/ idle > 0)
  /\ GoOn(r, <<>>) /\ Aside

(* A send on a channel of one of the two servers, whatever the deadline.   *)
Send(r) ==
  /\ At(r, "send")
  /\ flowing
  /\ GoOn(r, Tail(todo[r])) /\ Aside

(* AuthorizeLogin stores the new session in Redis; an error, and the       *)
(* deadline is one, goes to log.Fatalln.                                   *)
Authorize(r) ==
  /\ At(r, "authorize")
  /\ r \notin late
  /\ GoOn(r, Tail(todo[r])) /\ Aside

AuthorizeDies(r) ==
  /\ At(r, "authorize")
  /\ r \in late
  /\ alive' = FALSE
  /\ UNCHANGED <<requestVars, recVars, holds, idle, flowing>>

(* HandleChunk sends the blob and waits for the answer on ErrorChan.       *)
Post(r) ==
  /\ At(r, "record")
  /\ rec = "recv"
  /\ rec' = "first" /\ recFor' = r
  /\ UNCHANGED <<requestVars, recHolds, recLate, holds, idle, flowing, alive>>

Return(r) ==
  /\ At(r, "return")
  /\ GoOn(r, <<>>) /\ Aside

-----------------------------------------------------------------------------
(* The recorder: its own connection, or a panic: errored releases the nil  *)
(* connection.                                                             *)
FirstConn ==
  /\ rec = "first" /\ ~recLate
  /\ idle > 0
  /\ idle' = idle - 1 /\ recHolds' = 1
  /\ rec' = "select"
  /\ UNCHANGED <<requestVars, recFor, recLate, holds, flowing, alive>>

FirstConnFails ==
  /\ rec = "first" /\ (recLate \/ idle > 0)
  /\ alive' = FALSE
  /\ UNCHANGED <<requestVars, recVars, holds, idle, flowing>>

(* The meta row is there, to be updated through db, or is inserted.        *)
Select ==
  /\ rec = "select" /\ ~recLate
  /\ rec' \in {"second", "write"}
  /\ UNCHANGED <<requestVars, recFor, recHolds, recLate, holds, idle, flowing, alive>>

SecondConn ==
  /\ rec = "second" /\ ~recLate
  /\ idle > 0
  /\ idle' = idle - 1 /\ recHolds' = 2
  /\ rec' = "update"
  /\ UNCHANGED <<requestVars, recFor, recLate, holds, flowing, alive>>

(* Scan has given the second connection back.                              *)
Update ==
  /\ rec = "update" /\ ~recLate
  /\ idle' = idle + 1 /\ recHolds' = 1
  /\ rec' = "write"
  /\ UNCHANGED <<requestVars, recFor, recLate, holds, flowing, alive>>

(* Mutant: the recorder goes to its next blob without an answer.           *)
AnswerNobody ==
  /\ idle' = idle + recHolds /\ recHolds' = 0
  /\ rec' = "recv" /\ recFor' = None /\ recLate' = FALSE
  /\ UNCHANGED <<requestVars, holds, flowing, alive>>

(* Mutant: errored releases a connection that has been released already.   *)
AnswerReleasingTwice ==
  /\ idle' = idle + recHolds + 1 /\ recHolds' = 0
  /\ rec' = "recv" /\ recFor' = None /\ recLate' = FALSE
  /\ todo' = [todo EXCEPT ![recFor] = Tail(@)]
  /\ UNCHANGED <<begun, late, holds, flowing, alive>>

(* All connections back, the answer on ErrorChan.                          *)
Answer ==
  /\ idle' = idle + recHolds /\ recHolds' = 0
  /\ rec' = "recv" /\ recFor' = None /\ recLate' = FALSE
  /\ todo' = [todo EXCEPT ![recFor] = Tail(@)]
  /\ UNCHANGED <<begun, late, holds, flowing, alive>>

Written ==
  /\ rec = "write" /\ ~recLate
  /\ Answer

Errored ==
  /\ rec \in {"select", "second", "update", "write"}
  /\ rec = "second" => recLate \/ idle > 0
  /\ Answer

(* An insert fails in one of the inner loops, whose continue goes on with  *)
(* the connection released.                                                *)
InsertDies ==
  /\ rec = "write"
  /\ alive' = FALSE
  /\ UNCHANGED <<requestVars, recVars, holds, idle, flowing>>

-----------------------------------------------------------------------------
(* Time passes for a handler, as long as its deadline may still matter, or *)
(* for the recorder.                                                       *)
Late(r) ==
  /\ r \notin late
  /\ \E i \in DOMAIN todo[r] : todo[r][i] \in {"session", "acquire", "query", "authorize"}
  /\ late' = late \cup {r}
  /\ UNCHANGED <<todo, begun, recVars, holds, idle, flowing, alive>>

RecLate ==
  /\ rec # "recv" /\ ~recLate
  /\ recLate' = TRUE
  /\ UNCHANGED <<requestVars, rec, recFor, recHolds, holds, idle, flowing, alive>>

(* The two servers stop taking, because messageLoop writes to a client     *)
(* that does not read or by the circle of Waiting, or go on.               *)
Stall == flowing' = ~flowing /\ UNCHANGED <<requestVars, recVars, holds, idle, alive>>

RequestStep(r) ==
  Acquire(r) \/ Answered(r) \/ Refused(r) \/ Send(r) \/ Authorize(r) \/ AuthorizeDies(r)
  \/ Return(r)

RecorderStep ==
  \/ FirstConn \/ FirstConnFails \/ Select \/ SecondConn \/ Update
  \/ Written \/ Errored \/ InsertDies

Next ==
  /\ alive
  /\ \/ \E r \in Requests : Begin(r) \/ RequestStep(r) \/ Post(r) \/ Late(r)
     \/ RecorderStep \/ RecLate \/ Stall

Spec == Init /\ [][Next]_vars

(* Time passes, and who can go on does.  The senders of a channel queue up *)
(* in order, so each gets its turn (SF) with the recorder.                 *)
Fairness ==
  /\ \A r \in Requests :
       /\ WF_vars(alive /\ RequestStep(r))
       /\ WF_vars(alive /\ Late(r))
       /\ SF_vars(alive /\ Post(r))
  /\ WF_vars(alive /\ RecorderStep)
  /\ WF_vars(alive /\ RecLate)

FairSpec == Spec /\ Fairness

-----------------------------------------------------------------------------
(* Each variable has its type.                                             *)
Stages == {"session", "acquire", "query", "send", "authorize", "record", "return"}

TypeOK ==
  /\ todo \in [Requests -> Seq(Stages)]
  /\ begun \subseteq Requests /\ holds \subseteq Requests /\ late \subseteq Requests
  /\ idle \in 0 .. MaxConns
  /\ flowing \in BOOLEAN /\ alive \in BOOLEAN /\ recLate \in BOOLEAN
  /\ rec \in {"recv", "first", "select", "second", "update", "write"}
  /\ recFor \in Requests \cup {None}
  /\ (recFor = None <=> rec = "recv")
  /\ recHolds \in 0 .. 2

(* No connection is lost or given back twice, on no path through a handler *)
(* or the recorder: those not idle are held, by handlers that are not over *)
(* or by the recorder while it has a blob.                                 *)
Conserved ==
  /\ idle + Cardinality(holds) + recHolds = MaxConns
  /\ \A r \in holds : todo[r] # <<>>
  /\ rec = "recv" => recHolds = 0

(* While the two servers take what is sent to them, somebody can go on     *)
(* without a deadline passing: although handlers hold connections while    *)
(* they wait, and the recorder holds one while it waits for another, they  *)
(* never all wait for each other.                                          *)
Waiting(r) ==
  \/ At(r, "acquire") /\ idle = 0
  \/ At(r, "record") /\ rec # "recv"
RecWaiting == rec \in {"first", "second"} /\ idle = 0
NeverAllWaiting ==
  flowing /\ (rec # "recv" \/ \E r \in Requests : todo[r] # <<>>) =>
    \/ rec # "recv" /\ ~RecWaiting
    \/ \E r \in Requests : todo[r] # <<>> /\ ~Waiting(r)

(* A connection is kept past the deadline of its handler only by a send to *)
(* one of the two servers, whatever they do: all others come back.         *)
Overdue(r) == r \in holds /\ r \in late /\ ~At(r, "send")
KeptOnlyBySend ==
  (\E r \in Requests : Overdue(r)) ~> (\A r \in Requests : ~Overdue(r)) \/ ~alive

(* If the two servers do not stall for good, all requests get to their end *)
(* and all blobs to their answer, unless the process dies.                 *)
RequestsEnd ==
  <>[]flowing =>
    ((\E r \in Requests : todo[r] # <<>>) ~> (\A r \in Requests : todo[r] = <<>>) \/ ~alive)
=============================================================================
