------------------------------ MODULE Recording ------------------------------
(***************************************************************************)
(* What the recorder of server/pkg/videoServer promises: a recording is a  *)
(* log.  It is created empty, bytes are only ever added behind those it    *)
(* has, in the order they arrived, and it is deleted as a whole, for good. *)
(* How videoServer.go does it, by SELECT, UPDATE and INSERT statements on  *)
(* rows of vid_meta and vid_chunks, is VideoServer (AppendOnly).           *)
(***************************************************************************)
EXTENDS Naturals

CONSTANT Videos

VARIABLES
  log,    \* the <<row, place in the row, byte>> of each recording
  there,  \* the recordings there are
  used    \* the recordings there have ever been

vars == <<log, there, used>>

Init ==
  /\ log = [v \in Videos |-> {}]
  /\ there = {}
  /\ used = {}

Create(v) ==
  /\ v \notin used
  /\ there' = there \cup {v}
  /\ used' = used \cup {v}
  /\ log' = [log EXCEPT ![v] = {}]

(* p comes before q when the recording is read by rows, and was recorded   *)
(* earlier.                                                                *)
Before(p, q) ==
  /\ p[1] < q[1] \/ (p[1] = q[1] /\ p[2] < q[2])
  /\ p[3] < q[3]

Append(v) ==
  /\ v \in there
  /\ \A w \in Videos \ {v} : log'[w] = log[w]
  /\ log[v] \subseteq log'[v]
  /\ \A q \in log'[v] \ log[v] :
       /\ \A p \in log[v] : Before(p, q)
       /\ \A r \in log'[v] \ log[v] : q = r \/ Before(q, r) \/ Before(r, q)
  /\ UNCHANGED <<there, used>>

Delete ==
  /\ there' \subseteq there
  /\ log' = [v \in Videos |-> IF v \in there' THEN log[v] ELSE {}]
  /\ UNCHANGED used

Next == Delete \/ \E v \in Videos : Create(v) \/ Append(v)

Spec == Init /\ [][Next]_vars
=============================================================================
