------------------------------- MODULE Registry -------------------------------
(***************************************************************************)
(* What the WebRTC server of server/pkg/webRTCserver promises: a table of  *)
(* the users in the mesh and of the streams each has live, on which every  *)
(* operation takes effect at one instant.  How the goroutines of           *)
(* webRTCserver.go do it, with a mutex kept across channel sends, is       *)
(* WebRTCServer, which implements this module (Linearizable).              *)
(***************************************************************************)
CONSTANTS Uids, Ids, Names, Https, None

VARIABLES
  members,   \* the users in the mesh
  live,      \* the <<id, name>> pairs of the streams of each user
  roster,    \* whom a user was told to call when he last joined
  answer,    \* the names a GetOldStreams request was answered with, or None
  joining, leaving, removing, asking  \* the requests taken and not served yet, or None

table == <<members, live, roster, answer>>
requests == <<joining, leaving, removing, asking>>
vars == <<table, requests>>

Streams == Ids \X Names

Init ==
  /\ members = {}
  /\ live = [u \in Uids |-> {}]
  /\ roster = [u \in Uids |-> {}]
  /\ answer = [h \in Https |-> None]
  /\ joining = None /\ leaving = None /\ removing = None /\ asking = None

(* A request is taken, of each kind one at a time.                         *)
JoinRequests == [uid : Uids, list : SUBSET Streams]
RemoveRequests == [uid : Uids, name : Names]

Take ==
  /\ \/ joining = None /\ joining' \in JoinRequests /\ UNCHANGED <<leaving, removing, asking>>
     \/ leaving = None /\ leaving' \in Uids /\ UNCHANGED <<joining, removing, asking>>
     \/ removing = None /\ removing' \in RemoveRequests /\ UNCHANGED <<joining, leaving, asking>>
     \/ asking = None /\ asking' \in Https /\ UNCHANGED <<joining, leaving, removing>>
  /\ UNCHANGED table

(* A user joins, or joins again, with a list of streams, and is told all   *)
(* the others of that instant.                                             *)
Join ==
  LET u == joining.uid IN
  /\ joining \in JoinRequests
  /\ joining' = None
  /\ members' = members \cup {u}
  /\ live' = [live EXCEPT ![u] = joining.list]
  /\ roster' = [roster EXCEPT ![u] = members \ {u}]
  /\ UNCHANGED <<answer, leaving, removing, asking>>

Leave ==
  /\ leaving \in Uids
  /\ leaving' = None
  /\ members' = members \ {leaving}
  /\ live' = [live EXCEPT ![leaving] = {}]
  /\ UNCHANGED <<roster, answer, joining, removing, asking>>

(* The streams a request to remove a name may remove: one of that name,    *)
(* or, when there is none, any other.                                      *)
Removable(u, name) ==
  LET named == {e \in live[u] : e[2] = name}
  IN  IF named = {} THEN live[u] ELSE named

Remove ==
  LET candidates == Removable(removing.uid, removing.name) IN
  /\ removing \in RemoveRequests
  /\ removing' = None
  /\ IF candidates = {}
     THEN live' = live
     ELSE \E e \in candidates : live' = [live EXCEPT ![removing.uid] = @ \ {e}]
  /\ UNCHANGED <<members, roster, answer, joining, leaving, asking>>

(* The names of all live streams at one instant.                           *)
LiveNames == {e[2] : e \in UNION {live[u] : u \in members}}

Answer ==
  /\ asking \in Https
  /\ asking' = None
  /\ answer' = [answer EXCEPT ![asking] = LiveNames]
  /\ UNCHANGED <<members, live, roster, joining, leaving, removing>>

Next == Take \/ Join \/ Leave \/ Remove \/ Answer

Spec == Init /\ [][Next]_vars
=============================================================================
