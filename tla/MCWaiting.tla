------------------------------ MODULE MCWaiting ------------------------------
(* Instances of Waiting with two connections, of two users.                *)
EXTENDS Waiting, TLC

CONSTANTS c1, c2, u1, u2, i1, i2, n1, n2, h1

MCConns == {c1, c2}
MCUids == {u1, u2}
MCUidOf == (c1 :> u1) @@ (c2 :> u2)
MCIds == {i1, i2}
MCNames == {n1, n2}

(* Clients join without streams, or with the ones they have started.       *)
EmptyOnly == {<<>>}
Stream(i, n) == [id |-> i, name |-> n, motion |-> FALSE]
UpToTwoStreams == {<<>>, <<Stream(i1, n1)>>, <<Stream(i1, n1), Stream(i2, n2)>>}

MembershipKinds == {"WEBRTC_JOIN", "WEBRTC_LEAVE"}
StreamKinds == {"WEBRTC_JOIN", "WEBRTC_MOTION_UPDATE"}
OneConn == {c1}
OneUidOf == c1 :> u1

(* The two users, each with his connection, are alike.                     *)
Swap == {(c1 :> c2) @@ (c2 :> c1) @@ (u1 :> u2) @@ (u2 :> u1)}

(* Bound: two events, or one event and an HTTP request.  It keeps only     *)
(* events and requests from coming, which no fairness asks for.            *)
EventsOrRequests == events <= 1 \/ \A h \in Https : http[h] = "idle"
=============================================================================
