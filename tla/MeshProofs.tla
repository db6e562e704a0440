----------------------------- MODULE MeshProofs -----------------------------
(* Proofs about Mesh, for any number of users, of pages closed and of      *)
(* rejoins.                                                                *)
EXTENDS Mesh, TLAPS, WellFoundedInduction

(* What Pass does with each kind of message, of the parts of the table.    *)
LEMMA PassTakes ==
  ASSUME NEW u \in Uids, NEW m, NEW rest, Pass(u, m, rest)
  PROVE  /\ UNCHANGED <<members, toOne>>
         /\ \/ /\ m[1] = "join" \/ (m[1] = "again" /\ <<"leave", m[2]>> \notin rest)
               /\ joining = None /\ joining' = [uid |-> u, list |-> {}] /\ joining' # None
               /\ UNCHANGED <<leaving, sending, returning>>
            \/ /\ m[1] = "leave" \/ (m[1] = "gone" /\ rest = {})
               /\ leaving = None /\ leaving' = u
               /\ UNCHANGED <<joining, sending, returning>>
            \/ /\ m[1] = "offer" /\ sending = None /\ sending' = m[2]
               /\ UNCHANGED <<joining, leaving, returning>>
            \/ /\ m[1] = "answer" /\ returning = None /\ returning' = m[2]
               /\ UNCHANGED <<joining, leaving, sending>>
<1>1. [uid |-> u, list |-> {}] \in JoinRequests
  BY DEF JoinRequests
<1>2. None # [uid |-> u, list |-> {}] /\ None # u
  BY <1>1, NoneAssumption
<1>3. /\ joining = None /\ Take /\ joining' = [uid |-> u, list |-> {}] => UNCHANGED <<members, leaving>>
      /\ leaving = None /\ Take /\ leaving' = u => UNCHANGED <<members, joining>>
  BY <1>2 DEF Take, table
<1>4. CASE (m[1] = "join" \/ (m[1] = "again" /\ <<"leave", m[2]>> \notin rest)) /\ joining = None /\ Take
           /\ joining' = [uid |-> u, list |-> {}] /\ UNCHANGED wires
  BY <1>2, <1>3, <1>4 DEF wires
<1>5. CASE (m[1] = "leave" \/ (m[1] = "gone" /\ rest = {})) /\ leaving = None /\ Take
           /\ leaving' = u /\ UNCHANGED wires
  <2>1. members' = members /\ joining' = joining
    BY <1>3, <1>5
  <2>2. sending' = sending /\ returning' = returning /\ toOne' = toOne
    BY <1>5 DEF wires
  <2> QED
    BY <1>5, <2>1, <2>2
<1>6. CASE m[1] = "offer" /\ sending = None /\ sending' = m[2] /\ UNCHANGED <<vars, returning, toOne>>
  BY <1>6 DEF vars, table, requests
<1>7. CASE m[1] = "answer" /\ returning = None /\ returning' = m[2] /\ UNCHANGED <<vars, sending, toOne>>
  BY <1>7 DEF vars, table, requests
<1> QED
  BY <1>4, <1>5, <1>6, <1>7 DEF Pass

(* The same by the kind of message.                                        *)
LEMMA PassJoins ==
  ASSUME NEW u \in Uids, NEW m, NEW rest, Pass(u, m, rest), m[1] \in {"join", "again"}
  PROVE  /\ joining = None /\ joining' # None /\ joining'.uid = u
         /\ UNCHANGED <<members, leaving>>
         /\ m[1] = "again" => <<"leave", m[2]>> \notin rest
  BY PassTakes

LEMMA PassLeaves ==
  ASSUME NEW u \in Uids, NEW m, NEW rest, Pass(u, m, rest), m[1] \notin {"join", "again"}
  PROVE  /\ UNCHANGED <<members, joining>>
         /\ leaving' = leaving \/ (leaving = None /\ leaving' = u)
         /\ leaving' # leaving => m[1] \in {"leave", "gone"}
         /\ m[1] = "gone" => leaving' = u /\ rest = {}
  BY PassTakes

LEMMA PassSignals ==
  ASSUME NEW u \in Uids, NEW m, NEW rest, Pass(u, m, rest)
  PROVE  /\ sending' = sending \/ (sending = None /\ m[1] = "offer" /\ sending' = m[2])
         /\ returning' = returning \/ (returning = None /\ m[1] = "answer" /\ returning' = m[2])
         /\ m[1] = "offer" => sending' = m[2]
         /\ m[1] = "answer" => returning' = m[2]
         /\ m[1] \in {"join", "again", "leave", "gone", "offer", "answer"}
  BY PassTakes

(* A message passed on is one of the page's, or of a page closed before.   *)
LEMMA HandleTakes ==
  ASSUME NEW u \in Uids, Handle(u)
  PROVE  /\ UNCHANGED <<open, inbox, peers, overtaken, silent, moves>>
         /\ \/ \E m \in later[u] : /\ Pass(u, m, later[u] \ {m})
                                   /\ later' = [later EXCEPT ![u] = @ \ {m}]
                                   /\ parting' = parting
            \/ \E t \in parting[u] : /\ Pass(u, t[2], RestOf(u, t))
                                     /\ parting' = [parting EXCEPT ![u] = @ \ {t}]
                                     /\ later' = later
  BY DEF Handle

-----------------------------------------------------------------------------
(* Who is in the mesh.                                                     *)
Due(u) == \/ joining # None /\ joining.uid = u
          \/ \E t \in later[u] : t[1] \in {"join", "again"}

(* The user of an open page that has sent a join is a member or about to   *)
(* be one, and a leave of his that is still to be served has a join behind *)
(* it, unless he is overtaken.                                             *)
MemberInv ==
  /\ DOMAIN open = Uids /\ DOMAIN later = Uids /\ DOMAIN parting = Uids
  /\ members \cup overtaken \cup silent \subseteq Uids
  /\ \A u \in Uids : \A t \in later[u] :
       t[1] # "gone" /\ (t[1] = "leave" => t = <<"leave", t[2]>> /\ <<"again", t[2]>> \in later[u])
  /\ \A u \in Uids : open[u] /\ u \notin overtaken \cup silent =>
       /\ u \in members \/ Due(u)
       /\ leaving = u \/ parting[u] # {} => Due(u)

LEMMA MemberStep ==
  ASSUME MemberInv, [MeshNext]_meshVars
  PROVE  MemberInv'
<1> USE DEF MemberInv, Due
<1>1. CASE UNCHANGED meshVars
  BY <1>1 DEF meshVars, vars, table, requests, page
<1>2. CASE ServeJoin
  <2>1. joining \in JoinRequests /\ joining.uid \in Uids
    BY <1>2 DEF ServeJoin, Join, JoinRequests
  <2> QED
    BY <1>2, <2>1 DEF ServeJoin, Join, page
<1>3. CASE ServeLeave
  BY <1>3, NoneAssumption DEF ServeLeave, Leave, page
<1>4. CASE Forward \/ Deliver
  <2>1. UNCHANGED <<members, joining, leaving, open, later, parting, overtaken, silent>>
    BY <1>4 DEF Forward, Deliver, vars, table, requests, page
  <2> QED
    BY <2>1
<1>5. ASSUME NEW u \in Uids, Rejoin(u)
      PROVE  MemberInv'
  <2>1. /\ UNCHANGED <<members, leaving, joining, open, parting, overtaken>>
        /\ later' = [later EXCEPT ![u] = @ \cup {<<"leave", moves'>>, <<"again", moves'>>}]
        /\ silent' = silent \ {u}
    BY <1>5 DEF Rejoin, vars, table, requests
  <2>2. later'[u] = later[u] \cup {<<"leave", moves'>>, <<"again", moves'>>}
    BY <2>1
  <2>3. <<"again", moves'>> \in later'[u]
    BY <2>2
  <2>4. <<"again", moves'>>[1] = "again"
    OBVIOUS
  <2>5. Due(u)'
    BY <2>3, <2>4
  <2>6. \A w \in Uids \ {u} : later'[w] = later[w] /\ (w \in silent' <=> w \in silent)
    BY <2>1
  <2>7. \A w \in Uids : DOMAIN later' = Uids /\ silent' \subseteq silent /\ (Due(w) => Due(w)')
    BY <2>1, <2>5, <2>6
  <2>8. \A t \in later'[u] :
           t[1] # "gone" /\ (t[1] = "leave" => t = <<"leave", t[2]>> /\ <<"again", t[2]>> \in later'[u])
    <3>1. ASSUME NEW t \in later[u]
          PROVE  t[1] # "gone" /\ (t[1] = "leave" => t = <<"leave", t[2]>> /\ <<"again", t[2]>> \in later'[u])
      BY <2>2
    <3>2. ASSUME NEW t \in {<<"leave", moves'>>, <<"again", moves'>>}
          PROVE  t[1] # "gone" /\ (t[1] = "leave" => t = <<"leave", t[2]>> /\ <<"again", t[2]>> \in later'[u])
      BY <2>3
    <3> QED
      BY <2>2, <3>1, <3>2
  <2> QED
    BY <2>1, <2>5, <2>6, <2>7, <2>8
<1>6. ASSUME NEW u \in Uids, Receive(u)
      PROVE  MemberInv'
  <2>1. UNCHANGED <<members, joining, leaving, open, parting, overtaken, silent>>
    BY <1>6 DEF Receive, vars, table, requests
  <2>2. ASSUME NEW T, later' = [later EXCEPT ![u] = @ \cup T],
               \A t \in T : t[1] \in {"offer", "answer", "apply"}
        PROVE  MemberInv'
    BY <2>1, <2>2
  <2>3. CASE later' = later
    BY <2>1, <2>3
  <2>4. ASSUME NEW L, NEW last, CallAll(u, L, last)
        PROVE  MemberInv'
    <3> DEFINE T == {<<"offer", Call1(u, v)>> : v \in L}
    <3>1. \A t \in T : t[1] \in {"offer", "answer", "apply"}
      OBVIOUS
    <3>2. later' = [later EXCEPT ![u] = @ \cup T]
      BY <2>4 DEF CallAll
    <3> HIDE DEF T
    <3> QED
      BY <2>2, <3>1, <3>2
  <2>5. ASSUME NEW c, NEW k \in {"answer", "apply"}, later' = [later EXCEPT ![u] = @ \cup {<<k, c>>}]
        PROVE  MemberInv'
    <3> DEFINE T == {<<k, c>>}
    <3>1. later' = [later EXCEPT ![u] = @ \cup T] /\ \A t \in T : t[1] \in {"offer", "answer", "apply"}
      BY <2>5
    <3> HIDE DEF T, MemberInv
    <3> QED
      BY <2>2, <3>1
  <2> QED
    <3> HIDE DEF MemberInv
    <3>1. ASSUME NEW c, BeCalled(u, c)
          PROVE  MemberInv'
      BY <2>5, <3>1 DEF BeCalled
    <3>2. ASSUME NEW c, BeAnswered(u, c)
          PROVE  MemberInv'
      BY <2>5, <3>2 DEF BeAnswered
    <3> QED
      BY <1>6, <2>3, <2>4, <3>1, <3>2 DEF Receive
<1>7. ASSUME NEW u \in Uids, Apply(u)
      PROVE  MemberInv'
  BY <1>7 DEF Apply, vars, table, requests
<1>8. ASSUME NEW u \in Uids, Close(u)
      PROVE  MemberInv'
  <2>1. UNCHANGED <<members, joining, leaving, overtaken>>
    BY <1>8 DEF Close, vars, table, requests
  <2>2. /\ open' = [open EXCEPT ![u] = FALSE] /\ later' = [later EXCEPT ![u] = {}] /\ silent' = silent \ {u}
        /\ \E T : parting' = [parting EXCEPT ![u] = T]
    BY <1>8 DEF Close
  <2> QED
    BY <2>1, <2>2
<1>9. ASSUME NEW u \in Uids, Open(u)
      PROVE  MemberInv'
  BY <1>9 DEF Open, vars, table, requests
<1>10. ASSUME NEW u \in Uids, Handle(u)
       PROVE  MemberInv'
  <2>1. UNCHANGED <<open, overtaken, silent>>
    BY <1>10 DEF Handle
  <2>2. ASSUME NEW m \in later[u], Pass(u, m, later[u] \ {m}),
               later' = [later EXCEPT ![u] = @ \ {m}], parting' = parting
        PROVE  MemberInv'
    <3>1. m[1] # "gone" /\ (m[1] = "leave" => m = <<"leave", m[2]>>)
      BY <2>2
    <3>2. CASE m[1] \in {"join", "again"}
      <4>1. joining' # None /\ joining'.uid = u /\ UNCHANGED <<members, leaving>>
        BY <2>2, <3>2, PassJoins
      <4>2. \A t \in later[u] : t[1] = "leave" => <<"again", t[2]>> # m
        <5> SUFFICES ASSUME NEW t \in later[u], t[1] = "leave", m = <<"again", t[2]>>
                     PROVE  FALSE
          OBVIOUS
        <5>1. m[1] = "again" /\ m[2] = t[2] /\ t = <<"leave", m[2]>> /\ t # m
          OBVIOUS
        <5>2. <<"leave", m[2]>> \notin later[u] \ {m}
          BY <2>2, <5>1, PassJoins
        <5> QED
          BY <5>1, <5>2
      <4>3. \A v \in Uids : \A t \in later'[v] : t \in later[v] /\ (t[1] = "leave" => <<"again", t[2]>> \in later'[v])
        BY <2>2, <4>2
      <4>4. \A v \in Uids : later'[v] = later[v] \/ v = u
        BY <2>2
      <4>5. \A v \in Uids : Due(v) => Due(v)'
        <5>1. joining = None
          BY <2>2, <3>2, PassJoins
        <5> QED
          BY <4>1, <4>4, <5>1
      <4>6. Due(u)'
        BY <4>1
      <4> HIDE DEF Due
      <4> QED
        BY <2>1, <2>2, <4>1, <4>3, <4>4, <4>5, <4>6
    <3>3. CASE m[1] \notin {"join", "again"}
      <4>1. /\ UNCHANGED <<members, joining>>
            /\ leaving' = leaving \/ (m[1] = "leave" /\ leaving' = u)
        BY <2>2, <3>1, <3>3, PassLeaves
      <4>2. \A v \in Uids : \A t \in later[v] : t[1] \in {"join", "again"} => t \in later'[v]
        BY <2>2, <3>3
      <4>3. \A v \in Uids : \A t \in later'[v] : t \in later[v] /\ (t[1] = "leave" => <<"again", t[2]>> \in later'[v])
        <5>1. \A k : <<"again", k>>[1] = "again"
          OBVIOUS
        <5> QED
          BY <2>2, <4>2, <5>1
      <4>4. \A v \in Uids : Due(v) => Due(v)'
        BY <4>1, <4>2
      <4>5. m[1] = "leave" => Due(u)'
        <5> SUFFICES ASSUME m[1] = "leave" PROVE Due(u)'
          OBVIOUS
        <5>1. <<"again", m[2]>> \in later'[u]
          BY <2>2, <4>2
        <5> QED
          BY <5>1
      <4> HIDE DEF Due
      <4> QED
        BY <2>1, <2>2, <4>1, <4>3, <4>4, <4>5
    <3> QED
      BY <3>2, <3>3
  <2>3. ASSUME NEW t \in parting[u], Pass(u, t[2], RestOf(u, t)),
               parting' = [parting EXCEPT ![u] = @ \ {t}], later' = later
        PROVE  MemberInv'
    <3>1. /\ DOMAIN parting' = Uids /\ members' = members
          /\ \A v \in Uids : parting'[v] # {} => parting[v] # {}
          /\ leaving' = leaving \/ (leaving' = u /\ parting[u] # {})
      BY <2>3, PassJoins, PassLeaves
    <3>2. joining' = joining \/ (joining = None /\ joining' # None)
      BY <2>3, PassJoins, PassLeaves
    <3>3. \A v \in Uids : Due(v) => Due(v)'
      BY <2>3, <3>2
    <3> HIDE DEF Due
    <3> QED
      BY <2>1, <2>3, <3>1, <3>3
  <2> QED
    BY <1>10, <2>2, <2>3, HandleTakes
<1> QED
  BY <1>1, <1>2, <1>3, <1>4, <1>5, <1>6, <1>7, <1>8, <1>9, <1>10 DEF MeshNext

LEMMA MemberInvariant == MeshSpec => []MemberInv
<1>1. MeshInit => MemberInv
  BY DEF MeshInit, Init, MemberInv, Due
<1> QED
  BY <1>1, MemberStep, PTL DEF MeshSpec

(* Nothing but a leave served after the last join, although it was sent    *)
(* before, keeps the user of an open page that has sent a join out of the  *)
(* mesh in the end.                                                        *)
THEOREM OpenPagesAreMembers == MeshSpec => []MemberUnlessOvertaken
<1>1. MemberInv => MemberUnlessOvertaken
  BY DEF MemberInv, Due, MemberUnlessOvertaken, Quiet
<1> QED
  BY <1>1, MemberInvariant, PTL
-----------------------------------------------------------------------------
(* Lists of peers.                                                         *)

(* A nonempty set of naturals has a least element.                         *)
LEMMA LeastOf ==
  ASSUME NEW T \in SUBSET Nat, T # {}
  PROVE  \E n \in T : \A m \in T : n <= m
<1>1. PICK n \in T : \A m \in T : ~ (<<m, n>> \in OpToRel(<, Nat))
  BY WFMin, NatLessThanWellFounded
<1>2. \A m \in T : ~ (m < n)
  BY <1>1 DEF OpToRel
<1> QED
  BY <1>2

(* g collects the entries of the first n of s that are not of users.       *)
Keeps(g, n, s, users) ==
  g = [i \in 0 .. n |-> IF i = 0 THEN <<>>
                        ELSE IF s[i][1] \in users THEN g[i - 1] ELSE Append(g[i - 1], s[i])]

LEMMA KeepsExists ==
  ASSUME NEW s, NEW users, NEW N \in Nat
  PROVE  \E g : Keeps(g, N, s, users)
<1> DEFINE T == {n \in Nat : ~ \E g : Keeps(g, n, s, users)}
<1> SUFFICES T = {}
  OBVIOUS
<1> SUFFICES ASSUME T # {} PROVE FALSE
  OBVIOUS
<1>1. PICK n \in T : \A m \in T : n <= m
  <2> HIDE DEF T
  <2>1. T \in SUBSET Nat
    BY DEF T
  <2> QED
    BY <2>1, LeastOf
<1>2. CASE n = 0
  <2> DEFINE g == [i \in 0 .. 0 |-> <<>>]
  <2>1. Keeps(g, 0, s, users)
    BY DEF Keeps
  <2> QED
    BY <1>1, <1>2, <2>1
<1>3. CASE n # 0
  <2>1. n \in Nat /\ n - 1 \in Nat /\ ~ (n <= n - 1)
    BY <1>1, <1>3
  <2>2. PICK f : Keeps(f, n - 1, s, users)
    BY <1>1, <2>1
  <2> DEFINE last == IF s[n][1] \in users THEN f[n - 1] ELSE Append(f[n - 1], s[n])
             g == [i \in 0 .. n |-> IF i = n THEN last ELSE f[i]]
             h == [i \in 0 .. n |-> IF i = 0 THEN <<>>
                        ELSE IF s[i][1] \in users THEN g[i - 1] ELSE Append(g[i - 1], s[i])]
  <2>3. f = [i \in 0 .. n - 1 |-> IF i = 0 THEN <<>>
                        ELSE IF s[i][1] \in users THEN f[i - 1] ELSE Append(f[i - 1], s[i])]
    BY <2>2 DEF Keeps
  <2>4. ASSUME NEW i \in 0 .. n
        PROVE  g[i] = h[i]
    <3>1. CASE i = n
      BY <1>3, <2>1, <3>1
    <3>2. CASE i # n
      <4>1. i \in 0 .. n - 1 /\ (i # 0 => i - 1 \in 0 .. n - 1)
        BY <2>1, <2>4, <3>2
      <4>2. g[i] = f[i] /\ (i # 0 => g[i - 1] = f[i - 1])
        BY <2>1, <2>4, <3>2, <4>1
      <4>3. f[i] = IF i = 0 THEN <<>>
                   ELSE IF s[i][1] \in users THEN f[i - 1] ELSE Append(f[i - 1], s[i])
        BY <2>3, <4>1
      <4> QED
        BY <2>4, <4>2, <4>3
    <3> QED
      BY <3>1, <3>2
  <2> HIDE DEF last
  <2>5. g = h
    BY <2>4
  <2>6. Keeps(g, n, s, users)
    BY <2>5 DEF Keeps
  <2> HIDE DEF g
  <2> QED
    BY <1>1, <2>6
<1> QED
  BY <1>2, <1>3

(* What is in the first i entries of s and is not of users is in t, and    *)
(* nothing else, in the same order.                                        *)
Filters(t, i, s, users) ==
  /\ \A k \in DOMAIN t : t[k][1] \notin users /\ \E j \in 1 .. i : t[k] = s[j]
  /\ \A j \in 1 .. i : s[j][1] \notin users => \E k \in DOMAIN t : t[k] = s[j]
  /\ \A k, l \in DOMAIN t : k < l =>
       \E j, m \in 1 .. i : j < m /\ t[k] = s[j] /\ t[l] = s[m]

LEMMA WithoutFilters ==
  ASSUME NEW S, NEW s \in Seq(S), NEW users
  PROVE  LET t == Without(s, users)
         IN  /\ t \in Seq(S)
             /\ Filters(t, Len(s), s, users)
<1> DEFINE N == Len(s)
           kept == CHOOSE f : Keeps(f, N, s, users)
<1>1. N \in Nat /\ DOMAIN s = 1 .. N
  OBVIOUS
<1>2. Without(s, users) = kept[N]
  BY DEF Without, Keeps
<1> HIDE DEF N
<1>3. Keeps(kept, N, s, users)
  BY <1>1, KeepsExists
<1> HIDE DEF kept
<1> DEFINE Bad == {i \in 0 .. N : ~ (kept[i] \in Seq(S) /\ Filters(kept[i], i, s, users))}
<1>4. Bad = {}
  <2> SUFFICES ASSUME Bad # {} PROVE FALSE
    OBVIOUS
  <2>1. PICK n \in Bad : \A m \in Bad : n <= m
    <3>1. Bad \in SUBSET Nat
      BY <1>1
    <3> HIDE DEF Bad
    <3> QED
      BY <3>1, LeastOf
  <2>2. n \in 0 .. N /\ kept[n] = IF n = 0 THEN <<>>
               ELSE IF s[n][1] \in users THEN kept[n - 1] ELSE Append(kept[n - 1], s[n])
    BY <1>3, <2>1 DEF Keeps
  <2>3. CASE n = 0
    <3>1. kept[n] = <<>>
      BY <2>2, <2>3
    <3>2. <<>> \in Seq(S) /\ Filters(<<>>, 0, s, users)
      BY DEF Filters
    <3> QED
      BY <2>1, <2>3, <3>1, <3>2
  <2>4. CASE n # 0
    <3> DEFINE t == kept[n - 1]
    <3>1. n - 1 \in 0 .. N /\ n - 1 \in Nat /\ n \in 1 .. N
      BY <1>1, <2>2, <2>4
    <3>2. t \in Seq(S) /\ Filters(t, n - 1, s, users)
      <4>1. n - 1 \notin Bad
        BY <1>1, <2>1, <3>1
      <4> QED
        BY <3>1, <4>1
    <3>3. s[n] \in S
      BY <1>1, <3>1
    <3>4. CASE s[n][1] \in users
      <4>1. kept[n] = t
        BY <2>2, <2>4, <3>4
      <4>2. Filters(t, n, s, users)
        <5>1. \A j \in 1 .. n : s[j][1] \notin users => j \in 1 .. n - 1
          BY <3>1, <3>4
        <5>2. \A j \in 1 .. n - 1 : j \in 1 .. n
          BY <3>1
        <5> HIDE DEF t
        <5> QED
          BY <3>2, <5>1, <5>2 DEF Filters
      <4> QED
        BY <2>1, <3>2, <4>1, <4>2
    <3>5. CASE s[n][1] \notin users
      <4> DEFINE r == Append(t, s[n])
                 M == Len(t)
      <4>1. kept[n] = r
        BY <2>2, <2>4, <3>5
      <4>2. r \in Seq(S) /\ M \in Nat /\ DOMAIN t = 1 .. M /\ DOMAIN r = 1 .. M + 1
            /\ r[M + 1] = s[n] /\ \A k \in 1 .. M : r[k] = t[k]
        BY <3>2, <3>3
      <4> HIDE DEF r, t, M
      <4>3. ASSUME NEW k \in 1 .. M + 1
            PROVE  r[k][1] \notin users /\ \E j \in 1 .. n : r[k] = s[j]
        <5>1. CASE k = M + 1
          BY <3>1, <3>5, <4>2, <5>1
        <5>2. CASE k # M + 1
          <6>1. k \in 1 .. M /\ r[k] = t[k]
            BY <4>2, <5>2
          <6>2. t[k][1] \notin users /\ \E j \in 1 .. n - 1 : t[k] = s[j]
            BY <3>2, <4>2, <6>1 DEF Filters
          <6> QED
            BY <3>1, <6>1, <6>2
        <5> QED
          BY <5>1, <5>2
      <4>4. ASSUME NEW j \in 1 .. n, s[j][1] \notin users
            PROVE  \E k \in 1 .. M + 1 : r[k] = s[j]
        <5>1. CASE j = n
          BY <4>2, <5>1
        <5>2. CASE j # n
          <6>1. j \in 1 .. n - 1
            BY <3>1, <5>2
          <6>2. \E k \in 1 .. M : t[k] = s[j]
            BY <3>2, <4>2, <4>4, <6>1 DEF Filters
          <6> QED
            BY <4>2, <6>2
        <5> QED
          BY <5>1, <5>2
      <4>5. ASSUME NEW k \in 1 .. M + 1, NEW l \in 1 .. M + 1, k < l
            PROVE  \E j, m \in 1 .. n : j < m /\ r[k] = s[j] /\ r[l] = s[m]
        <5>1. k \in 1 .. M /\ r[k] = t[k]
          BY <4>2, <4>5
        <5>2. CASE l = M + 1
          <6>1. PICK j \in 1 .. n - 1 : t[k] = s[j]
            BY <3>2, <4>2, <5>1 DEF Filters
          <6>2. j \in 1 .. n /\ n \in 1 .. n /\ j < n
            BY <3>1
          <6>3. r[k] = s[j] /\ r[l] = s[n]
            BY <4>2, <5>1, <5>2, <6>1
          <6> QED
            BY <6>2, <6>3
        <5>3. CASE l # M + 1
          <6>1. l \in 1 .. M /\ r[l] = t[l]
            BY <4>2, <5>3
          <6>2. \E j, m \in 1 .. n - 1 : j < m /\ t[k] = s[j] /\ t[l] = s[m]
            <7>1. \A x, y \in DOMAIN t : x < y =>
                    \E j, m \in 1 .. n - 1 : j < m /\ t[x] = s[j] /\ t[y] = s[m]
              BY <3>2, Zenon DEF Filters
            <7>2. k \in DOMAIN t /\ l \in DOMAIN t
              BY <4>2, <5>1, <6>1
            <7> QED
              BY <4>5, <7>1, <7>2, Zenon
          <6>3. \A j \in 1 .. n - 1 : j \in 1 .. n
            BY <3>1
          <6> QED
            BY <5>1, <6>1, <6>2, <6>3
        <5> QED
          BY <5>2, <5>3
      <4>6. Filters(r, n, s, users)
        <5>1. DOMAIN r = 1 .. M + 1
          BY <4>2
        <5>2. \A k \in DOMAIN r : r[k][1] \notin users /\ \E j \in 1 .. n : r[k] = s[j]
          BY <4>3, <5>1
        <5>3. \A j \in 1 .. n : s[j][1] \notin users => \E k \in DOMAIN r : r[k] = s[j]
          BY <4>4, <5>1
        <5>4. \A k, l \in DOMAIN r : k < l => \E j, m \in 1 .. n : j < m /\ r[k] = s[j] /\ r[l] = s[m]
          BY <4>5, <5>1
        <5> QED
          BY <5>2, <5>3, <5>4 DEF Filters
      <4> QED
        BY <2>1, <4>1, <4>2, <4>6
    <3> QED
      BY <3>4, <3>5
  <2> QED
    BY <2>3, <2>4
<1>5. kept[N] \in Seq(S) /\ Filters(kept[N], N, s, users)
  <2>1. N \in 0 .. N /\ N \notin Bad
    BY <1>1, <1>4
  <2> QED
    BY <2>1
<1> QED
  BY <1>2, <1>5 DEF N

-----------------------------------------------------------------------------
(* What the pages and the goroutines hold.                                 *)
CallsFrom(u) == {c \in CallNames : c[1] = u /\ c[2] # u}
CallsTo(u) == {c \in CallNames : c[2] = u /\ c[1] # u}

Words == {<<"join">>} \cup ({"again", "leave"} \X Nat)
Todo(u) == Words \cup ({"offer", "apply"} \X CallsFrom(u)) \cup ({"answer"} \X CallsTo(u))
Sent(u) == Words \cup {<<"gone">>} \cup ({"offer"} \X CallsFrom(u)) \cup ({"answer"} \X CallsTo(u))
Written(u) == ({"users"} \X {u} \X (SUBSET (Uids \ {u})) \X (Uids \cup {None}))
                \cup ({"offer"} \X {u} \X CallsTo(u)) \cup ({"answer"} \X {u} \X CallsFrom(u))
Peers(u) == {e \in Uids \X CallNames : \/ e[2] \in CallsFrom(u) /\ e[1] = e[2][2]
                                       \/ e[2] \in CallsTo(u) /\ e[1] = e[2][1]}

PagesTyped ==
  /\ open \in [Uids -> BOOLEAN] /\ moves \in Nat
  /\ DOMAIN later = Uids /\ \A u \in Uids : later[u] \subseteq Todo(u)
  /\ DOMAIN parting = Uids
  /\ \A u \in Uids : \A t \in parting[u] :
       t \in Nat \X Sent(u) /\ <<t[1], <<"gone">>>> \in parting[u]
  /\ DOMAIN inbox = Uids /\ \A u \in Uids : inbox[u] \in Seq(Written(u))

WiresTyped ==
  /\ sending # None => sending \in CallsFrom(sending[1])
  /\ returning # None => returning \in CallsTo(returning[2])
  /\ toOne # None => toOne[2] \in Uids /\ toOne \in Written(toOne[2])

(* The last of a list of users is one of them.                             *)
LastListed(m) == m[1] = "users" => m[3] = {} \/ m[4] \in m[3]

ListsTyped ==
  /\ toOne # None => LastListed(toOne)
  /\ \A u \in Uids : \A i \in DOMAIN inbox[u] : LastListed(inbox[u][i])

CallsTyped == calls \in [Uids -> [Uids -> Seq(CallStates)]]

(* A call of one's own is the first of that user in the list, and what is  *)
(* shown is in the list.                                                   *)
PeersOf(u, r) ==
  /\ r \in Seq(Peers(u))
  /\ \A i \in DOMAIN r : r[i][2][1] = u => \A j \in 1 .. i - 1 : r[j][1] # r[i][1]
ShownIn(r, s) == \A v \in DOMAIN s : \E i \in DOMAIN r : r[i] = <<v, s[v]>>

PeersTyped ==
  /\ DOMAIN ref = Uids /\ DOMAIN shown = Uids
  /\ \A u \in Uids : PeersOf(u, ref[u]) /\ ShownIn(ref[u], shown[u])

(* A closed page does and holds nothing.                                   *)
ClosedInv ==
  /\ \A u \in Uids : ~open[u] => later[u] = {} /\ inbox[u] = <<>> /\ ref[u] = <<>>
  /\ crashed \subseteq {u \in Uids : open[u]}

ShapeInv == PagesTyped /\ WiresTyped /\ ListsTyped /\ CallsTyped /\ PeersTyped /\ ClosedInv

(* What a message of a page can be.                                        *)
LEMMA TodoCases ==
  ASSUME NEW u \in Uids, NEW t \in Todo(u) \cup Sent(u)
  PROVE  /\ t[1] \in {"join", "again", "leave", "gone", "offer", "answer", "apply"}
         /\ t[1] \in {"join", "gone"} => t = <<t[1]>>
         /\ t[1] \in {"offer", "apply"} => t = <<t[1], t[2]>> /\ t[2] \in CallsFrom(u)
         /\ t[1] = "answer" => t = <<t[1], t[2]>> /\ t[2] \in CallsTo(u)
  BY DEF Todo, Sent, Words

LEMMA WrittenCases ==
  ASSUME NEW u \in Uids, NEW m \in Written(u)
  PROVE  /\ m[1] \in {"users", "offer", "answer"} /\ m[2] = u
         /\ m[1] = "users" => /\ m = <<"users", u, m[3], m[4]>>
                              /\ m[3] \subseteq Uids \ {u}
         /\ m[1] = "offer" => m = <<"offer", u, m[3]>> /\ m[3] \in CallsTo(u)
         /\ m[1] = "answer" => m = <<"answer", u, m[3]>> /\ m[3] \in CallsFrom(u)
  BY DEF Written

LEMMA WrittenAreMessages ==
  ASSUME NEW u \in Uids, NEW m \in Written(u)
  PROVE  m # None
<1>1. m \in Messages
  BY DEF Written, Messages, CallsTo, CallsFrom
<1> QED
  BY <1>1, NoneAssumption

-----------------------------------------------------------------------------
(* The states of the calls.                                                *)
LEMMA StatesMapped ==
  ASSUME NEW s \in Seq(CallStates), NEW n \in DOMAIN s
  PROVE  /\ Dropped(s) \in Seq(CallStates) /\ DOMAIN Dropped(s) = DOMAIN s
         /\ Dropped(s)[n] = IF s[n] = "connected" THEN "connected" ELSE "over"
         /\ Settled(s) \in Seq(CallStates) /\ DOMAIN Settled(s) = DOMAIN s
         /\ Settled(s)[n] = IF s[n] \in {"stale", "late"} THEN "over" ELSE s[n]
  BY DEF Dropped, Settled, CallStates

LEMMA StatesMappedTyped ==
  ASSUME NEW s \in Seq(CallStates)
  PROVE  /\ Dropped(s) \in Seq(CallStates) /\ DOMAIN Dropped(s) = DOMAIN s /\ Len(Dropped(s)) = Len(s)
         /\ Settled(s) \in Seq(CallStates) /\ DOMAIN Settled(s) = DOMAIN s
<1>1. \A n \in DOMAIN s : s[n] \in CallStates
  OBVIOUS
<1>2. PICK k \in Nat : DOMAIN s = 1 .. k
  BY Len(s) \in Nat /\ DOMAIN s = 1 .. Len(s)
<1>3. Dropped(s) \in [1 .. k -> CallStates] /\ Settled(s) \in [1 .. k -> CallStates]
  BY <1>1, <1>2 DEF Dropped, Settled, CallStates
<1> QED
  BY <1>2, <1>3

(* One call gets a new state.                                              *)
LEMMA SetStateEffect ==
  ASSUME CallsTyped, NEW c \in CallNames, NEW s, SetState(c, s),
         c[3] \in DOMAIN calls[c[1]][c[2]] => s \in CallStates
  PROVE  /\ CallsTyped'
         /\ \A v, w \in Uids : DOMAIN calls'[v][w] = DOMAIN calls[v][w]
         /\ \A v, w \in Uids : \A n \in DOMAIN calls[v][w] :
              calls'[v][w][n] = IF v = c[1] /\ w = c[2] /\ n = c[3] THEN s ELSE calls[v][w][n]
<1> DEFINE a == c[1]
           b == c[2]
           k == c[3]
           t == [calls[a][b] EXCEPT ![k] = s]
<1>1. a \in Uids /\ b \in Uids /\ calls[a][b] \in Seq(CallStates)
  BY DEF CallNames, CallsTyped
<1>2. t \in Seq(CallStates) /\ DOMAIN t = DOMAIN calls[a][b]
      /\ \A n \in DOMAIN calls[a][b] : t[n] = IF n = k THEN s ELSE calls[a][b][n]
  <2>1. PICK m \in Nat : DOMAIN calls[a][b] = 1 .. m /\ \A n \in 1 .. m : calls[a][b][n] \in CallStates
    BY <1>1
  <2>2. t = [n \in 1 .. m |-> IF n = k THEN s ELSE calls[a][b][n]]
    BY <2>1
  <2>3. t \in [1 .. m -> CallStates]
    BY <2>1, <2>2
  <2>4. DOMAIN t = 1 .. m /\ \A n \in 1 .. m : t[n] = IF n = k THEN s ELSE calls[a][b][n]
    BY <2>2
  <2> HIDE DEF t, a, b, k
  <2>5. t \in Seq(CallStates)
    BY <2>3
  <2> QED
    BY <2>1, <2>4, <2>5
<1>3. calls' = [calls EXCEPT ![a] = [calls[a] EXCEPT ![b] = t]]
  BY DEF SetState
<1> HIDE DEF t, a, b, k
<1>4. \A v, w \in Uids : calls'[v][w] = IF v = a /\ w = b THEN t ELSE calls[v][w]
  BY <1>1, <1>3 DEF CallsTyped
<1>5. CallsTyped'
  BY <1>1, <1>2, <1>3 DEF CallsTyped
<1> QED
  BY <1>2, <1>4, <1>5 DEF a, b, k

(* Every user of the list is called once more.                             *)
LEMMA CallAllEffect ==
  ASSUME CallsTyped, NEW u \in Uids, NEW users \in SUBSET (Uids \ {u}), NEW last, CallAll(u, users, last)
  PROVE  /\ CallsTyped'
         /\ \A w \in users : /\ Len(calls[u][w]) + 1 \in Nat \ {0}
                             /\ DOMAIN calls'[u][w] = 1 .. Len(calls[u][w]) + 1
                             /\ Len(calls'[u][w]) = Len(calls[u][w]) + 1
                             /\ calls'[u][w][Len(calls[u][w]) + 1] = "called"
                             /\ \A n \in DOMAIN calls[u][w] :
                                  /\ n \in DOMAIN calls'[u][w]
                                  /\ calls'[u][w][n] = IF calls[u][w][n] = "connected" THEN "connected" ELSE "over"
         /\ \A v \in users : /\ DOMAIN calls'[v][u] = DOMAIN calls[v][u]
                             /\ \A n \in DOMAIN calls[v][u] :
                                  calls'[v][u][n] = IF calls[v][u][n] \in {"stale", "late"} THEN "over" ELSE calls[v][u][n]
         /\ \A v, w \in Uids : ~(v = u /\ w \in users) /\ ~(v \in users /\ w = u) => calls'[v][w] = calls[v][w]
<1>1. \A v, w \in Uids : calls[v][w] \in Seq(CallStates)
  BY DEF CallsTyped
<1>2. \A v, w \in Uids : calls'[v][w] = IF v = u /\ w \in users THEN Append(Dropped(calls[u][w]), "called")
                                        ELSE IF v \in users /\ w = u THEN Settled(calls[v][u])
                                        ELSE calls[v][w]
  BY DEF CallAll
<1>3. \A s \in Seq(CallStates) : Append(Dropped(s), "called") \in Seq(CallStates) /\ Settled(s) \in Seq(CallStates)
  <2> SUFFICES ASSUME NEW s \in Seq(CallStates)
               PROVE  Append(Dropped(s), "called") \in Seq(CallStates) /\ Settled(s) \in Seq(CallStates)
    OBVIOUS
  <2>1. "called" \in CallStates
    BY DEF CallStates
  <2> QED
    BY <2>1, StatesMappedTyped
<1>4. ASSUME NEW v \in Uids, NEW w \in Uids
      PROVE  calls'[v][w] \in Seq(CallStates)
  <2>1. calls[v][w] \in Seq(CallStates) /\ calls[u][w] \in Seq(CallStates) /\ calls[v][u] \in Seq(CallStates)
    BY <1>1
  <2>2. calls'[v][w] \in {Append(Dropped(calls[u][w]), "called"), Settled(calls[v][u]), calls[v][w]}
    BY <1>2
  <2> QED
    BY <1>3, <2>1, <2>2
<1>5. CallsTyped'
  <2>1. calls' = [v \in Uids |-> [w \in Uids |-> calls'[v][w]]]
    BY DEF CallAll
  <2> QED
    BY <1>4, <2>1 DEF CallsTyped
<1>6. ASSUME NEW w \in users
      PROVE  /\ Len(calls[u][w]) + 1 \in Nat \ {0}
             /\ DOMAIN calls'[u][w] = 1 .. Len(calls[u][w]) + 1
             /\ Len(calls'[u][w]) = Len(calls[u][w]) + 1
             /\ calls'[u][w][Len(calls[u][w]) + 1] = "called"
             /\ \A n \in DOMAIN calls[u][w] :
                  /\ n \in DOMAIN calls'[u][w]
                  /\ calls'[u][w][n] = IF calls[u][w][n] = "connected" THEN "connected" ELSE "over"
  <2> DEFINE s == calls[u][w]
             d == Dropped(s)
  <2>1. s \in Seq(CallStates) /\ calls'[u][w] = Append(d, "called")
    BY <1>1, <1>2
  <2>2. d \in Seq(CallStates) /\ Len(d) = Len(s) /\ Len(s) \in Nat /\ DOMAIN s = 1 .. Len(s)
    BY <2>1, StatesMappedTyped
  <2>3. \A n \in DOMAIN s : d[n] = IF s[n] = "connected" THEN "connected" ELSE "over"
    BY <2>1, StatesMapped
  <2> HIDE DEF d, s
  <2>4. /\ DOMAIN Append(d, "called") = 1 .. Len(s) + 1 /\ Len(Append(d, "called")) = Len(s) + 1
        /\ Append(d, "called")[Len(s) + 1] = "called"
        /\ \A n \in 1 .. Len(s) : Append(d, "called")[n] = d[n]
    BY <2>2
  <2> QED
    BY <2>1, <2>2, <2>3, <2>4 DEF s
<1>7. ASSUME NEW v \in users
      PROVE  /\ DOMAIN calls'[v][u] = DOMAIN calls[v][u]
             /\ \A n \in DOMAIN calls[v][u] :
                  calls'[v][u][n] = IF calls[v][u][n] \in {"stale", "late"} THEN "over" ELSE calls[v][u][n]
  BY <1>1, <1>2, StatesMapped, StatesMappedTyped
<1> QED
  BY <1>2, <1>5, <1>6, <1>7

(* A page that is closed ends its calls, and those to it but the ones that *)
(* it has not seen.                                                        *)
LEMMA CloseEffect ==
  ASSUME CallsTyped, NEW u \in Uids, Close(u)
  PROVE  /\ CallsTyped'
         /\ \A v, w \in Uids : DOMAIN calls'[v][w] = DOMAIN calls[v][w]
         /\ \A v, w \in Uids : v # u /\ w # u => calls'[v][w] = calls[v][w]
<1> DEFINE over(s) == [n \in DOMAIN s |-> "over"]
           ended(s) == [n \in DOMAIN s |-> IF s[n] = "called" THEN "called" ELSE "over"]
<1>1. \A v, w \in Uids : calls[v][w] \in Seq(CallStates)
  BY DEF CallsTyped
<1>2. ASSUME NEW s \in Seq(CallStates)
      PROVE  /\ over(s) \in Seq(CallStates) /\ DOMAIN over(s) = DOMAIN s
             /\ ended(s) \in Seq(CallStates) /\ DOMAIN ended(s) = DOMAIN s
  BY DEF CallStates
<1>3. \A v, w \in Uids : calls'[v][w] = IF v = u THEN over(calls[u][w])
                                        ELSE IF w = u THEN ended(calls[v][u]) ELSE calls[v][w]
  BY DEF Close
<1> HIDE DEF over, ended
<1>4. \A v, w \in Uids : calls'[v][w] \in Seq(CallStates) /\ DOMAIN calls'[v][w] = DOMAIN calls[v][w]
  BY <1>1, <1>2, <1>3
<1>5. CallsTyped'
  <2>1. calls' = [v \in Uids |-> [w \in Uids |-> calls'[v][w]]]
    BY DEF Close
  <2> QED
    BY <1>4, <2>1 DEF CallsTyped
<1> QED
  BY <1>3, <1>4, <1>5

-----------------------------------------------------------------------------
(* The lists of peers.                                                     *)
LEMMA CalledPushed ==
  ASSUME NEW u \in Uids, NEW r, NEW s, PeersOf(u, r), ShownIn(r, s), NEW c \in CallsTo(u)
  PROVE  LET r2 == Append(r, <<c[1], c>>)
         IN  /\ PeersOf(u, r2)
             /\ ShownIn(r2, [v \in DOMAIN s \cup {c[1]} |-> IF v = c[1] THEN c ELSE s[v]])
<1> DEFINE e == <<c[1], c>>
           r2 == Append(r, e)
           s2 == [v \in DOMAIN s \cup {c[1]} |-> IF v = c[1] THEN c ELSE s[v]]
<1>1. e \in Peers(u) /\ e[2][1] # u
  BY DEF Peers, CallsTo, CallNames
<1>2. PICK n \in Nat : DOMAIN r = 1 .. n /\ n = Len(r)
  BY DEF PeersOf
<1>3. /\ r2 \in Seq(Peers(u)) /\ DOMAIN r2 = 1 .. n + 1 /\ r2[n + 1] = e
      /\ \A i \in 1 .. n : r2[i] = r[i]
  BY <1>1, <1>2 DEF PeersOf
<1> HIDE DEF r2, e
<1>4. PeersOf(u, r2)
  <2>1. ASSUME NEW i \in 1 .. n + 1, r2[i][2][1] = u, NEW j \in 1 .. i - 1
        PROVE  r2[j][1] # r2[i][1]
    <3>1. i \in 1 .. n /\ j \in 1 .. n
      BY <1>1, <1>2, <1>3, <2>1
    <3> QED
      BY <1>2, <1>3, <2>1, <3>1 DEF PeersOf
  <2> QED
    BY <1>3, <2>1 DEF PeersOf
<1>5. ShownIn(r2, s2)
  <2> SUFFICES ASSUME NEW v \in DOMAIN s \cup {c[1]} PROVE \E i \in 1 .. n + 1 : r2[i] = <<v, s2[v]>>
    BY <1>3 DEF ShownIn
  <2>1. CASE v = c[1]
    BY <1>2, <1>3, <2>1 DEF e
  <2>2. CASE v # c[1]
    <3>1. v \in DOMAIN s /\ s2[v] = s[v]
      BY <2>2
    <3>2. PICK i \in DOMAIN r : r[i] = <<v, s[v]>>
      BY <3>1 DEF ShownIn
    <3>3. i \in 1 .. n + 1 /\ r2[i] = r[i]
      BY <1>2, <1>3, <3>2
    <3> QED
      BY <3>1, <3>2, <3>3
  <2> QED
    BY <2>1, <2>2
<1> QED
  BY <1>4, <1>5 DEF r2, e

LEMMA CallingPushed ==
  ASSUME NEW u \in Uids, NEW r, PeersOf(u, r), NEW users, NEW c \in CallsFrom(u), c[2] \in users
  PROVE  PeersOf(u, Append(Without(r, users), <<c[2], c>>))
<1> DEFINE e == <<c[2], c>>
           t == Without(r, users)
           r2 == Append(t, e)
<1>1. e \in Peers(u)
  BY DEF Peers, CallsFrom, CallNames
<1>2. t \in Seq(Peers(u)) /\ Filters(t, Len(r), r, users)
  BY WithoutFilters DEF PeersOf
<1> HIDE DEF t
<1>3. PICK n \in Nat : DOMAIN t = 1 .. n /\ n = Len(t)
  BY <1>2
<1>4. /\ r2 \in Seq(Peers(u)) /\ DOMAIN r2 = 1 .. n + 1 /\ r2[n + 1] = e
      /\ \A i \in 1 .. n : r2[i] = t[i]
  BY <1>1, <1>2, <1>3
<1>5. PICK m \in Nat : m = Len(r) /\ DOMAIN r = 1 .. m
  BY DEF PeersOf
<1> HIDE DEF r2
<1>6. ASSUME NEW i \in 1 .. n + 1, r2[i][2][1] = u, NEW j \in 1 .. i - 1
      PROVE  r2[j][1] # r2[i][1]
  <2>1. j \in 1 .. n /\ j < i
    BY <1>3, <1>6
  <2>2. t[j][1] \notin users
    BY <1>2, <1>3, <2>1 DEF Filters
  <2>3. CASE i = n + 1
    BY <1>4, <2>1, <2>2, <2>3
  <2>4. CASE i # n + 1
    <3>1. i \in 1 .. n
      BY <1>3, <2>4
    <3>2. \A x, y \in DOMAIN t : x < y => \E j1, i1 \in 1 .. Len(r) : j1 < i1 /\ t[x] = r[j1] /\ t[y] = r[i1]
      BY <1>2 DEF Filters
    <3>3. PICK j1 \in 1 .. m, i1 \in 1 .. m : j1 < i1 /\ t[j] = r[j1] /\ t[i] = r[i1]
      BY <1>3, <1>5, <2>1, <3>1, <3>2
    <3>4. r2[i] = r[i1] /\ r2[j] = r[j1] /\ j1 \in 1 .. i1 - 1
      BY <1>4, <1>5, <2>1, <3>1, <3>3
    <3> QED
      BY <1>5, <1>6, <3>3, <3>4 DEF PeersOf
  <2> QED
    BY <2>3, <2>4
<1>7. PeersOf(u, r2)
  BY <1>4, <1>6 DEF PeersOf
<1> QED
  BY <1>7 DEF r2, t

(* What the three handlers do to the lists of a page.                      *)
LEMMA CallAllPeers ==
  ASSUME PeersTyped, CallsTyped, NEW u \in Uids, NEW users \in SUBSET (Uids \ {u}), NEW last,
         users = {} \/ last \in users, CallAll(u, users, last)
  PROVE  PeersTyped'
<1>1. CASE users = {}
  <2>1. ref' = ref /\ shown' = [shown EXCEPT ![u] = <<>>]
    BY <1>1 DEF CallAll
  <2>2. \A r : ShownIn(r, <<>>)
    BY DEF ShownIn
  <2> QED
    BY <2>1, <2>2 DEF PeersTyped
<1>2. CASE users # {}
  <2> DEFINE c == Call1(u, last)
             r == Append(Without(ref[u], users), <<last, c>>)
             s == [v \in {last} |-> Call1(u, v)]
  <2>1. last \in users /\ last \in Uids \ {u}
    BY <1>2
  <2>2. c \in CallsFrom(u) /\ c[2] = last
    <3>1. Len(calls[u][last]) + 1 \in Nat \ {0}
      BY <2>1, CallAllEffect
    <3> QED
      BY <2>1, <3>1 DEF Call1, Call, CallsFrom, CallNames
  <2>3. ref' = [ref EXCEPT ![u] = r] /\ shown' = [shown EXCEPT ![u] = s]
    BY <1>2 DEF CallAll
  <2>4. PeersOf(u, ref[u])
    BY DEF PeersTyped
  <2> HIDE DEF c
  <2>5. PeersOf(u, r)
    BY <2>1, <2>2, <2>4, CallingPushed
  <2>6. ShownIn(r, s)
    <3>1. Without(ref[u], users) \in Seq(Peers(u))
      BY <2>4, WithoutFilters DEF PeersOf
    <3>2. <<last, c>> \in Peers(u)
      BY <2>1, <2>2 DEF Peers, CallsFrom, CallNames
    <3>3. \E i \in DOMAIN r : r[i] = <<last, c>>
      <4> DEFINE q == Without(ref[u], users)
      <4>1. PICK n \in Nat : n = Len(q)
        BY <3>1
      <4> HIDE DEF q
      <4>2. n + 1 \in DOMAIN Append(q, <<last, c>>) /\ Append(q, <<last, c>>)[n + 1] = <<last, c>>
        BY <3>1, <3>2, <4>1 DEF q
      <4> QED
        BY <4>2 DEF q
    <3>4. DOMAIN s = {last} /\ s[last] = c
      BY DEF c
    <3> HIDE DEF r, s
    <3> QED
      BY <3>3, <3>4 DEF ShownIn
  <2> HIDE DEF r, s
  <2> QED
    BY <2>3, <2>5, <2>6 DEF PeersTyped
<1> QED
  BY <1>1, <1>2

LEMMA BeCalledPeers ==
  ASSUME PeersTyped, NEW u \in Uids, NEW c \in CallsTo(u), BeCalled(u, c)
  PROVE  PeersTyped'
<1> DEFINE r == Append(ref[u], <<c[1], c>>)
           s == [v \in DOMAIN shown[u] \cup {c[1]} |-> IF v = c[1] THEN c ELSE shown[u][v]]
<1>1. PeersOf(u, r) /\ ShownIn(r, s)
  BY CalledPushed DEF PeersTyped
<1>2. ref' = [ref EXCEPT ![u] = r] /\ shown' = [shown EXCEPT ![u] = s]
  BY DEF BeCalled
<1> HIDE DEF r, s
<1> QED
  BY <1>1, <1>2 DEF PeersTyped

LEMMA BeAnsweredPeers ==
  ASSUME PeersTyped, NEW u \in Uids, NEW c, BeAnswered(u, c)
  PROVE  PeersTyped'
<1>1. ref' = ref /\ (shown' = shown \/ shown' = [shown EXCEPT ![u] = <<>>])
  BY DEF BeAnswered
<1>2. \A r : ShownIn(r, <<>>)
  BY DEF ShownIn
<1> QED
  BY <1>1, <1>2 DEF PeersTyped

(* First is the place of the first peer of that user, or 0 if he has none. *)
LEMMA FirstFinds ==
  ASSUME PeersTyped, NEW u \in Uids, NEW v
  PROVE  LET i == First(u, v)
         IN  \/ i = 0 /\ \A j \in DOMAIN ref[u] : ref[u][j][1] # v
             \/ /\ i \in DOMAIN ref[u] /\ ref[u][i][1] = v
                /\ \A j \in DOMAIN ref[u] : ref[u][j][1] = v => i <= j
<1> DEFINE T == {i \in 1 .. Len(ref[u]) : ref[u][i][1] = v}
           least == CHOOSE x \in T : \A y \in T : x <= y
<1>1. Len(ref[u]) \in Nat /\ DOMAIN ref[u] = 1 .. Len(ref[u])
  BY DEF PeersTyped, PeersOf
<1>2. First(u, v) = IF T # {} THEN least ELSE 0
  BY DEF First, Seqs!SelectInSeq, Seqs!Min
<1>3. CASE T # {}
  <2>1. \E x \in T : \A y \in T : x <= y
    <3>1. T \in SUBSET Nat
      BY <1>1
    <3> HIDE DEF T
    <3> QED
      BY <1>3, <3>1, LeastOf
  <2>2. least \in T /\ \A y \in T : least <= y
    BY <2>1
  <2> HIDE DEF least
  <2> QED
    BY <1>1, <1>2, <1>3, <2>2
<1>4. CASE T = {}
  BY <1>1, <1>2, <1>4
<1> QED
  BY <1>3, <1>4

(* What Apply does to the calls: nothing, or the peer found gets a state.  *)
LEMMA ApplyEffect ==
  ASSUME PeersTyped, CallsTyped, NEW u \in Uids, Apply(u)
  PROVE  \E t \in later[u] :
           /\ t[1] = "apply" /\ later' = [later EXCEPT ![u] = @ \ {t}]
           /\ \/ First(u, t[2][2]) = 0 /\ calls' = calls
              \/ \E d \in CallNames :
                   /\ First(u, t[2][2]) \in DOMAIN ref[u] /\ d = ref[u][First(u, t[2][2])][2]
                   /\ SetState(d, IF State(d) \in {"over", "late"} \/ (d = t[2] /\ State(d) # "answered")
                                  THEN State(d)
                                  ELSE IF d = t[2] THEN "connected" ELSE "stale")
<1>1. PICK t \in later[u] :
        /\ t[1] = "apply" /\ later' = [later EXCEPT ![u] = @ \ {t}]
        /\ LET c == t[2]
               i == First(u, c[2])
           IN  IF i = 0 THEN UNCHANGED calls
               ELSE LET d == ref[u][i][2] IN
                    SetState(d, IF State(d) \in {"over", "late"} \/ (d = c /\ State(d) # "answered")
                                THEN State(d)
                                ELSE IF d = c THEN "connected" ELSE "stale")
  BY DEF Apply
<1> DEFINE i == First(u, t[2][2])
           d == ref[u][i][2]
<1>2. i = 0 \/ i \in DOMAIN ref[u]
  BY FirstFinds
<1>3. i # 0 => d \in CallNames
  <2>1. ref[u] \in Seq(Peers(u))
    BY DEF PeersTyped, PeersOf
  <2>2. ASSUME i \in DOMAIN ref[u]
        PROVE  ref[u][i] \in Peers(u)
    <3> HIDE DEF i
    <3> QED
      BY <2>1, <2>2
  <2> QED
    <3> HIDE DEF i
    <3> QED
      BY <1>2, <2>2 DEF Peers
<1> HIDE DEF i
<1> QED
  BY <1>1, <1>2, <1>3 DEF i

(* What Receive does.                                                      *)
LEMMA ReceiveCases ==
  ASSUME PagesTyped, ListsTyped, NEW u \in Uids, Receive(u)
  PROVE  /\ inbox[u] # <<>> /\ inbox' = [inbox EXCEPT ![u] = Tail(@)]
         /\ UNCHANGED <<vars, open, parting, wires, overtaken, moves>>
         /\ \E m \in Written(u) :
              /\ m = inbox[u][1]
              /\ \/ u \in crashed /\ UNCHANGED <<later, peers>>
                 \/ /\ u \notin crashed /\ m[1] = "users" /\ CallAll(u, m[3], m[4])
                    /\ m[3] \in SUBSET (Uids \ {u}) /\ (m[3] = {} \/ m[4] \in m[3])
                 \/ u \notin crashed /\ m[1] = "offer" /\ m[3] \in CallsTo(u) /\ BeCalled(u, m[3])
                 \/ u \notin crashed /\ m[1] = "answer" /\ m[3] \in CallsFrom(u) /\ BeAnswered(u, m[3])
<1> DEFINE m == inbox[u][1]
<1>1. inbox[u] # <<>> /\ inbox[u] \in Seq(Written(u))
  BY DEF Receive, PagesTyped
<1>2. 1 \in DOMAIN inbox[u] /\ m \in Written(u) /\ Head(inbox[u]) = m
  BY <1>1
<1>3. LastListed(m)
  BY <1>2 DEF ListsTyped
<1>4. /\ m[1] = "users" => m[3] \in SUBSET (Uids \ {u})
      /\ m[1] = "offer" => m[3] \in CallsTo(u)
      /\ m[1] = "answer" => m[3] \in CallsFrom(u)
  BY <1>2, WrittenCases
<1> HIDE DEF m
<1> QED
  BY <1>1, <1>2, <1>3, <1>4 DEF Receive, LastListed

-----------------------------------------------------------------------------
(* The shapes are kept.                                                    *)
LEMMA CallsAre ==
  ASSUME NEW c \in CallNames
  PROVE  c[1] \in Uids /\ c[2] \in Uids /\ c[3] \in Nat \ {0} /\ c = <<c[1], c[2], c[3]>>
  BY DEF CallNames

LEMMA ShapeOfServeJoin ==
  ASSUME ShapeInv, members \subseteq Uids, ServeJoin
  PROVE  ShapeInv'
<1> DEFINE u == joining.uid
           users == members \ {u}
<1>1. u \in Uids /\ users \in SUBSET (Uids \ {u})
  BY DEF ServeJoin, Join, JoinRequests
<1>2. PICK last \in IF users = {} THEN {None} ELSE users : toOne' = <<"users", u, users, last>>
  BY DEF ServeJoin
<1>3. UNCHANGED <<open, later, parting, inbox, moves, sending, returning, ref, shown, crashed, calls>>
  BY DEF ServeJoin, page, peers
<1> HIDE DEF u, users
<1>4. last \in Uids \cup {None} /\ (users = {} \/ last \in users)
  BY <1>1, <1>2
<1>5. toOne'[2] = u /\ toOne' \in Written(u) /\ LastListed(toOne')
  BY <1>1, <1>2, <1>4 DEF Written, LastListed
<1>6. PagesTyped' /\ CallsTyped' /\ PeersTyped' /\ ClosedInv'
  BY <1>3 DEF ShapeInv, PagesTyped, CallsTyped, PeersTyped, ClosedInv
<1>7. WiresTyped' /\ ListsTyped'
  BY <1>1, <1>3, <1>5 DEF ShapeInv, WiresTyped, ListsTyped
<1> QED
  BY <1>6, <1>7 DEF ShapeInv

LEMMA ShapeOfForward ==
  ASSUME ShapeInv, Forward
  PROVE  ShapeInv'
<1>1. UNCHANGED <<open, later, parting, inbox, moves, ref, shown, crashed, calls>>
  BY DEF Forward, page, peers
<1>2. PagesTyped' /\ CallsTyped' /\ PeersTyped' /\ ClosedInv'
  BY <1>1 DEF ShapeInv, PagesTyped, CallsTyped, PeersTyped, ClosedInv
<1>3. CASE sending # None /\ toOne' = <<"offer", sending[2], sending>> /\ sending' = None /\ returning' = returning
  <2>1. sending \in CallsTo(sending[2]) /\ sending[2] \in Uids
    BY <1>3 DEF ShapeInv, WiresTyped, CallsFrom, CallsTo, CallNames
  <2>2. toOne'[2] = sending[2] /\ toOne' \in Written(sending[2]) /\ toOne'[1] # "users"
    BY <1>3, <2>1 DEF Written
  <2>3. WiresTyped' /\ ListsTyped'
    BY <1>1, <1>3, <2>1, <2>2 DEF ShapeInv, WiresTyped, ListsTyped, LastListed
  <2> QED
    BY <1>2, <2>3 DEF ShapeInv
<1>4. CASE returning # None /\ toOne' = <<"answer", returning[1], returning>> /\ returning' = None /\ sending' = sending
  <2>1. returning \in CallsFrom(returning[1]) /\ returning[1] \in Uids
    BY <1>4 DEF ShapeInv, WiresTyped, CallsFrom, CallsTo, CallNames
  <2>2. toOne'[2] = returning[1] /\ toOne' \in Written(returning[1]) /\ toOne'[1] # "users"
    BY <1>4, <2>1 DEF Written
  <2>3. WiresTyped' /\ ListsTyped'
    BY <1>1, <1>4, <2>1, <2>2 DEF ShapeInv, WiresTyped, ListsTyped, LastListed
  <2> QED
    BY <1>2, <2>3 DEF ShapeInv
<1> QED
  BY <1>3, <1>4 DEF Forward

LEMMA ShapeOfDeliver ==
  ASSUME ShapeInv, Deliver
  PROVE  ShapeInv'
<1> DEFINE u == toOne[2]
<1>1. UNCHANGED <<open, later, parting, moves, sending, returning, ref, shown, crashed, calls>> /\ toOne' = None
  BY DEF Deliver, peers
<1>2. u \in Uids /\ toOne \in Written(u) /\ LastListed(toOne)
  BY DEF Deliver, ShapeInv, WiresTyped, ListsTyped
<1>3. CallsTyped' /\ PeersTyped' /\ WiresTyped'
  BY <1>1 DEF ShapeInv, CallsTyped, PeersTyped, WiresTyped
<1>4. CASE open[u] /\ inbox' = [inbox EXCEPT ![u] = Append(@, toOne)]
  <2>1. inbox[u] \in Seq(Written(u)) /\ DOMAIN inbox = Uids
    BY <1>2 DEF ShapeInv, PagesTyped
  <2>2. PICK n \in Nat : n = Len(inbox[u]) /\ DOMAIN inbox[u] = 1 .. n
    BY <2>1
  <2>3. inbox'[u] = Append(inbox[u], toOne) /\ \A v \in Uids : v # u => inbox'[v] = inbox[v]
    BY <1>2, <1>4, <2>1
  <2>4. /\ inbox'[u] \in Seq(Written(u)) /\ DOMAIN inbox'[u] = 1 .. n + 1 /\ inbox'[u][n + 1] = toOne
        /\ \A i \in 1 .. n : inbox'[u][i] = inbox[u][i]
    BY <1>2, <2>1, <2>2, <2>3
  <2>5. PagesTyped'
    BY <1>1, <1>4, <2>1, <2>3, <2>4 DEF ShapeInv, PagesTyped
  <2>6. \A i \in DOMAIN inbox'[u] : LastListed(inbox'[u][i])
    <3> SUFFICES ASSUME NEW i \in 1 .. n + 1 PROVE LastListed(inbox'[u][i])
      BY <2>4
    <3>1. CASE i = n + 1
      BY <1>2, <2>4, <3>1
    <3>2. CASE i # n + 1
      <4>1. i \in 1 .. n
        BY <2>2, <3>2
      <4> QED
        BY <1>2, <2>2, <2>4, <4>1 DEF ShapeInv, ListsTyped
    <3> QED
      BY <3>1, <3>2
  <2>7. ListsTyped'
    BY <1>1, <2>3, <2>6 DEF ShapeInv, ListsTyped
  <2>8. ClosedInv'
    BY <1>1, <1>4, <2>3 DEF ShapeInv, ClosedInv
  <2> QED
    BY <1>3, <2>5, <2>7, <2>8 DEF ShapeInv
<1>5. CASE inbox' = inbox
  <2>1. PagesTyped' /\ ListsTyped' /\ ClosedInv'
    BY <1>1, <1>5 DEF ShapeInv, PagesTyped, ListsTyped, ClosedInv
  <2> QED
    BY <1>3, <2>1 DEF ShapeInv
<1> QED
  BY <1>4, <1>5 DEF Deliver

LEMMA ShapeOfRejoin ==
  ASSUME ShapeInv, NEW u \in Uids, Rejoin(u)
  PROVE  ShapeInv'
<1>1. /\ UNCHANGED <<open, parting, inbox, sending, returning, toOne, ref, shown, crashed, calls>>
      /\ open[u] /\ later' = [later EXCEPT ![u] = @ \cup {<<"leave", moves'>>, <<"again", moves'>>}]
      /\ moves' = moves + 1
  BY DEF Rejoin, wires, peers
<1>2. moves' \in Nat /\ {<<"leave", moves'>>, <<"again", moves'>>} \subseteq Todo(u)
  BY <1>1 DEF ShapeInv, PagesTyped, Todo, Words
<1>3. PagesTyped'
  BY <1>1, <1>2 DEF ShapeInv, PagesTyped
<1>4. WiresTyped' /\ ListsTyped' /\ CallsTyped' /\ PeersTyped'
  BY <1>1 DEF ShapeInv, WiresTyped, ListsTyped, CallsTyped, PeersTyped
<1>5. ClosedInv'
  BY <1>1 DEF ShapeInv, ClosedInv, PagesTyped
<1> QED
  BY <1>3, <1>4, <1>5 DEF ShapeInv

LEMMA ShapeOfOpen ==
  ASSUME ShapeInv, NEW u \in Uids, Open(u)
  PROVE  ShapeInv'
<1>1. /\ UNCHANGED <<parting, inbox, sending, returning, toOne, ref, shown, crashed, calls>>
      /\ open' = [open EXCEPT ![u] = TRUE]
  BY DEF Open, wires, peers
<1>2. moves' \in Nat /\ \E T \in SUBSET Todo(u) : later' = [later EXCEPT ![u] = T]
  <2>1. PICK T \in SUBSET {<<"join">>, <<"again", moves + 1>>} :
               /\ later' = [later EXCEPT ![u] = T]
               /\ moves' = IF T \subseteq {<<"join">>} THEN moves ELSE moves + 1
    BY DEF Open
  <2>2. T \subseteq Todo(u) /\ moves' \in Nat
    BY <2>1 DEF ShapeInv, PagesTyped, Todo, Words
  <2> QED
    BY <2>1, <2>2
<1>3. PagesTyped'
  BY <1>1, <1>2 DEF ShapeInv, PagesTyped
<1>4. WiresTyped' /\ ListsTyped' /\ CallsTyped' /\ PeersTyped'
  BY <1>1 DEF ShapeInv, WiresTyped, ListsTyped, CallsTyped, PeersTyped
<1>5. ClosedInv'
  <2>1. DOMAIN open = Uids /\ DOMAIN later = Uids /\ UNCHANGED <<inbox, ref, crashed>>
    BY <1>1 DEF ShapeInv, PagesTyped
  <2>2. \A w \in Uids : ~open'[w] => w # u /\ ~open[w] /\ later'[w] = later[w]
    BY <1>1, <1>2, <2>1
  <2>3. \A w \in Uids : open[w] => open'[w]
    BY <1>1, <2>1
  <2> QED
    BY <2>1, <2>2, <2>3 DEF ShapeInv, ClosedInv
<1> QED
  BY <1>3, <1>4, <1>5 DEF ShapeInv

LEMMA ShapeOfClose ==
  ASSUME ShapeInv, NEW u \in Uids, Close(u)
  PROVE  ShapeInv'
<1>1. /\ UNCHANGED <<sending, returning, toOne>>
      /\ open' = [open EXCEPT ![u] = FALSE] /\ inbox' = [inbox EXCEPT ![u] = <<>>]
      /\ later' = [later EXCEPT ![u] = {}]
      /\ ref' = [ref EXCEPT ![u] = <<>>] /\ shown' = [shown EXCEPT ![u] = <<>>]
      /\ crashed' = crashed \ {u} /\ moves' = moves + 1
  BY DEF Close, wires
<1>2. PICK sent \in SUBSET {m \in later[u] : Sendable(m)} :
             parting' = [parting EXCEPT ![u] = @ \cup {<<moves', m>> : m \in sent \cup {<<"gone">>}}]
  BY DEF Close
<1>3. sent \subseteq Sent(u)
  <2> SUFFICES ASSUME NEW t \in sent PROVE t \in Sent(u)
    OBVIOUS
  <2>1. t \in Todo(u) /\ t[1] \in {"join", "again", "leave", "offer", "answer"}
    BY <1>2 DEF ShapeInv, PagesTyped, Sendable
  <2> QED
    BY <2>1 DEF Todo, Sent
<1>4. sent \cup {<<"gone">>} \subseteq Sent(u) /\ <<"gone">> \in sent \cup {<<"gone">>}
  BY <1>3 DEF Sent
<1>5. <<>> \in Seq(Written(u)) /\ DOMAIN <<>> = {}
  OBVIOUS
<1>6. PagesTyped'
  <2> DEFINE all == sent \cup {<<"gone">>}
             T == {<<moves', m>> : m \in all}
  <2>1. moves' \in Nat /\ DOMAIN parting = Uids
    BY <1>1 DEF ShapeInv, PagesTyped
  <2>2. \A t \in T : t \in Nat \X Sent(u) /\ <<t[1], <<"gone">>>> \in T
    <3> HIDE DEF all
    <3>1. all \subseteq Sent(u) /\ <<"gone">> \in all
      BY <1>4 DEF all
    <3> QED
      BY <2>1, <3>1
  <2>3. parting' = [parting EXCEPT ![u] = @ \cup T]
    BY <1>2
  <2> HIDE DEF T
  <2>4. \A v \in Uids : \A t \in parting'[v] : t \in Nat \X Sent(v) /\ <<t[1], <<"gone">>>> \in parting'[v]
    BY <2>1, <2>2, <2>3 DEF ShapeInv, PagesTyped
  <2>5. open' \in [Uids -> BOOLEAN] /\ DOMAIN later' = Uids /\ DOMAIN inbox' = Uids /\ DOMAIN parting' = Uids
    BY <1>1, <2>3 DEF ShapeInv, PagesTyped
  <2>6. \A v \in Uids : later'[v] \subseteq Todo(v) /\ inbox'[v] \in Seq(Written(v))
    BY <1>1, <1>5 DEF ShapeInv, PagesTyped
  <2> QED
    BY <2>1, <2>4, <2>5, <2>6 DEF PagesTyped
<1>7. WiresTyped' /\ ListsTyped'
  BY <1>1, <1>5 DEF ShapeInv, WiresTyped, ListsTyped, PagesTyped
<1>8. CallsTyped'
  BY CloseEffect DEF ShapeInv
<1>9. PeersTyped'
  <2>1. PeersOf(u, <<>>) /\ ShownIn(<<>>, <<>>)
    BY DEF PeersOf, ShownIn
  <2> QED
    BY <1>1, <2>1 DEF ShapeInv, PeersTyped
<1>10. ClosedInv'
  BY <1>1 DEF ShapeInv, ClosedInv, PagesTyped, PeersTyped
<1> QED
  BY <1>6, <1>7, <1>8, <1>9, <1>10 DEF ShapeInv

(* The end of a connection is passed on when no more is left of it.        *)
LEMMA LastOfConnection ==
  ASSUME NEW u \in Uids, NEW t \in parting[u], Pass(u, t[2], RestOf(u, t)),
         NEW s \in parting[u] \ {t}
  PROVE  <<s[1], <<"gone">>>> # t
<1> SUFFICES ASSUME <<s[1], <<"gone">>>> = t
             PROVE  FALSE
  OBVIOUS
<1>1. t[2] = <<"gone">> /\ s[1] = t[1]
  OBVIOUS
<1>2. s[2] \in RestOf(u, t)
  BY <1>1 DEF RestOf
<1>3. t[2][1] = "gone"
  BY <1>1
<1> QED
  BY <1>2, <1>3, PassTakes

LEMMA ShapeOfHandle ==
  ASSUME ShapeInv, NEW u \in Uids, Handle(u)
  PROVE  ShapeInv'
<1>1. UNCHANGED <<open, inbox, moves, ref, shown, crashed, calls>>
  BY DEF Handle, peers
<1>2. CallsTyped' /\ PeersTyped'
  BY <1>1 DEF ShapeInv, CallsTyped, PeersTyped
<1>3. ASSUME NEW m \in Todo(u) \cup Sent(u), NEW rest, Pass(u, m, rest)
      PROVE  /\ toOne' = toOne
             /\ sending' = sending \/ sending' \in CallsFrom(u)
             /\ returning' = returning \/ returning' \in CallsTo(u)
  BY <1>3, PassTakes, TodoCases
<1>4. ASSUME toOne' = toOne,
             sending' = sending \/ sending' \in CallsFrom(u),
             returning' = returning \/ returning' \in CallsTo(u)
      PROVE  WiresTyped' /\ ListsTyped'
  BY <1>1, <1>4 DEF ShapeInv, WiresTyped, ListsTyped, CallsFrom, CallsTo
<1>5. ASSUME NEW m \in later[u], Pass(u, m, later[u] \ {m}),
             later' = [later EXCEPT ![u] = @ \ {m}], parting' = parting
      PROVE  ShapeInv'
  <2>1. m \in Todo(u)
    BY DEF ShapeInv, PagesTyped
  <2>2. WiresTyped' /\ ListsTyped'
    BY <1>3, <1>4, <1>5, <2>1
  <2>3. PagesTyped' /\ ClosedInv'
    BY <1>1, <1>5 DEF ShapeInv, PagesTyped, ClosedInv
  <2> QED
    BY <1>2, <2>2, <2>3 DEF ShapeInv
<1>6. ASSUME NEW t \in parting[u], Pass(u, t[2], RestOf(u, t)),
             parting' = [parting EXCEPT ![u] = @ \ {t}], later' = later
      PROVE  ShapeInv'
  <2>1. t \in Nat \X Sent(u) /\ t[2] \in Sent(u) /\ DOMAIN parting = Uids
    BY DEF ShapeInv, PagesTyped
  <2>2. WiresTyped' /\ ListsTyped'
    BY <1>3, <1>4, <1>6, <2>1
  <2>3. \A s \in parting[u] \ {t} : <<s[1], <<"gone">>>> # t
    BY <1>6, <2>1, LastOfConnection
  <2>4. \A v \in Uids : \A s \in parting'[v] : s \in Nat \X Sent(v) /\ <<s[1], <<"gone">>>> \in parting'[v]
    BY <1>6, <2>1, <2>3 DEF ShapeInv, PagesTyped
  <2>5. PagesTyped' /\ ClosedInv'
    BY <1>1, <1>6, <2>1, <2>4 DEF ShapeInv, PagesTyped, ClosedInv
  <2> QED
    BY <1>2, <2>2, <2>5 DEF ShapeInv
<1> QED
  BY <1>5, <1>6, HandleTakes

LEMMA ShapeOfApply ==
  ASSUME ShapeInv, NEW u \in Uids, Apply(u)
  PROVE  ShapeInv'
<1>1. UNCHANGED <<open, parting, inbox, moves, sending, returning, toOne, ref, shown, crashed>>
  BY DEF Apply, wires
<1>2. PICK t \in later[u] :
           /\ t[1] = "apply" /\ later' = [later EXCEPT ![u] = @ \ {t}]
           /\ \/ First(u, t[2][2]) = 0 /\ calls' = calls
              \/ \E d \in CallNames :
                   /\ First(u, t[2][2]) \in DOMAIN ref[u] /\ d = ref[u][First(u, t[2][2])][2]
                   /\ SetState(d, IF State(d) \in {"over", "late"} \/ (d = t[2] /\ State(d) # "answered")
                                  THEN State(d)
                                  ELSE IF d = t[2] THEN "connected" ELSE "stale")
  BY ApplyEffect DEF ShapeInv
<1>3. CallsTyped'
  <2>1. CASE calls' = calls
    BY <2>1 DEF ShapeInv, CallsTyped
  <2>2. ASSUME NEW d \in CallNames, NEW x,
               SetState(d, IF x THEN State(d) ELSE IF d = t[2] THEN "connected" ELSE "stale")
        PROVE  CallsTyped'
    <3> DEFINE s == IF x THEN State(d) ELSE IF d = t[2] THEN "connected" ELSE "stale"
    <3>1. d[3] \in DOMAIN calls[d[1]][d[2]] => State(d) \in CallStates
      BY CallsAre DEF ShapeInv, CallsTyped, State
    <3>2. d[3] \in DOMAIN calls[d[1]][d[2]] => s \in CallStates
      BY <3>1 DEF CallStates
    <3> HIDE DEF s
    <3>3. SetState(d, s)
      BY <2>2 DEF s
    <3> QED
      BY <3>2, <3>3, SetStateEffect DEF ShapeInv
  <2> QED
    BY <1>2, <2>1, <2>2
<1>4. PagesTyped' /\ ClosedInv'
  BY <1>1, <1>2 DEF ShapeInv, PagesTyped, ClosedInv
<1>5. WiresTyped' /\ ListsTyped' /\ PeersTyped'
  BY <1>1 DEF ShapeInv, WiresTyped, ListsTyped, PeersTyped
<1> QED
  BY <1>3, <1>4, <1>5 DEF ShapeInv

LEMMA TailOf ==
  ASSUME NEW S, NEW s \in Seq(S), s # <<>>
  PROVE  /\ Tail(s) \in Seq(S) /\ Len(s) \in Nat \ {0} /\ DOMAIN s = 1 .. Len(s)
         /\ DOMAIN Tail(s) = 1 .. Len(s) - 1
         /\ \A i \in DOMAIN Tail(s) : i + 1 \in DOMAIN s /\ Tail(s)[i] = s[i + 1]
  OBVIOUS

LEMMA ShapeOfReceive ==
  ASSUME ShapeInv, NEW u \in Uids, Receive(u)
  PROVE  ShapeInv'
<1>1. /\ inbox[u] # <<>> /\ inbox' = [inbox EXCEPT ![u] = Tail(@)]
      /\ UNCHANGED <<vars, open, parting, wires, overtaken, moves>>
  BY ReceiveCases DEF ShapeInv
<1>2. PICK m \in Written(u) :
              /\ m = inbox[u][1]
              /\ \/ u \in crashed /\ UNCHANGED <<later, peers>>
                 \/ /\ u \notin crashed /\ m[1] = "users" /\ CallAll(u, m[3], m[4])
                    /\ m[3] \in SUBSET (Uids \ {u}) /\ (m[3] = {} \/ m[4] \in m[3])
                 \/ u \notin crashed /\ m[1] = "offer" /\ m[3] \in CallsTo(u) /\ BeCalled(u, m[3])
                 \/ u \notin crashed /\ m[1] = "answer" /\ m[3] \in CallsFrom(u) /\ BeAnswered(u, m[3])
  BY ReceiveCases DEF ShapeInv
<1>3. /\ DOMAIN inbox = Uids /\ inbox[u] \in Seq(Written(u))
      /\ inbox'[u] = Tail(inbox[u]) /\ \A v \in Uids : v # u => inbox'[v] = inbox[v]
  BY <1>1 DEF ShapeInv, PagesTyped
<1>4. /\ inbox'[u] \in Seq(Written(u))
      /\ \A i \in DOMAIN inbox'[u] : i + 1 \in DOMAIN inbox[u] /\ inbox'[u][i] = inbox[u][i + 1]
  BY <1>1, <1>3, TailOf
<1>5. open[u]
  BY <1>1 DEF ShapeInv, ClosedInv
<1>6. WiresTyped' /\ ListsTyped'
  <2>1. WiresTyped'
    BY <1>1 DEF ShapeInv, WiresTyped, wires
  <2>2. \A v \in Uids : \A i \in DOMAIN inbox'[v] : LastListed(inbox'[v][i])
    BY <1>3, <1>4 DEF ShapeInv, ListsTyped
  <2>3. toOne' = toOne
    BY <1>1 DEF wires
  <2> QED
    BY <2>1, <2>2, <2>3 DEF ShapeInv, ListsTyped
<1>7. ASSUME NEW T \in SUBSET Todo(u), later' = later \/ later' = [later EXCEPT ![u] = @ \cup T]
      PROVE  PagesTyped'
  <2>1. \A v \in Uids : later'[v] \subseteq Todo(v)
    BY <1>7 DEF ShapeInv, PagesTyped
  <2>2. \A v \in Uids : inbox'[v] \in Seq(Written(v))
    BY <1>3, <1>4 DEF ShapeInv, PagesTyped
  <2>3. DOMAIN inbox' = Uids /\ DOMAIN later' = Uids /\ UNCHANGED <<open, parting, moves>>
    BY <1>1, <1>3, <1>7 DEF ShapeInv, PagesTyped
  <2> QED
    BY <2>1, <2>2, <2>3 DEF ShapeInv, PagesTyped
<1>8. ASSUME CallsTyped', PeersTyped',
             NEW T \in SUBSET Todo(u), later' = later \/ later' = [later EXCEPT ![u] = @ \cup T],
             \A v \in Uids : v # u => ref'[v] = ref[v],
             crashed' \in {crashed, crashed \cup {u}}
      PROVE  ShapeInv'
  <2>1. PagesTyped'
    BY <1>7, <1>8
  <2>2. ClosedInv'
    <3>1. \A v \in Uids : v # u => later'[v] = later[v]
      BY <1>8 DEF ShapeInv, PagesTyped
    <3>2. open' = open
      BY <1>1
    <3> QED
      BY <1>3, <1>5, <1>8, <3>1, <3>2 DEF ShapeInv, ClosedInv
  <2> QED
    BY <1>6, <1>8, <2>1, <2>2 DEF ShapeInv
<1>9. CASE u \in crashed /\ UNCHANGED <<later, peers>>
  <2>1. CallsTyped' /\ PeersTyped' /\ ref' = ref /\ crashed' = crashed
    BY <1>9 DEF ShapeInv, CallsTyped, PeersTyped, peers
  <2>2. later' = later /\ {} \in SUBSET Todo(u)
    BY <1>9
  <2> QED
    BY <1>8, <2>1, <2>2
<1>10. ASSUME NEW L \in SUBSET (Uids \ {u}), NEW last, L = {} \/ last \in L, CallAll(u, L, last)
       PROVE  ShapeInv'
  <2> DEFINE T == {<<"offer", Call1(u, v)>> : v \in L}
  <2>1. CallsTyped' /\ \A w \in L : Len(calls[u][w]) + 1 \in Nat \ {0}
    BY <1>10, CallAllEffect DEF ShapeInv
  <2>2. PeersTyped'
    BY <1>10, CallAllPeers DEF ShapeInv
  <2>3. T \in SUBSET Todo(u)
    BY <2>1 DEF Todo, CallsFrom, CallNames, Call1, Call
  <2>4. /\ later' = [later EXCEPT ![u] = @ \cup T] /\ crashed' = crashed
        /\ \A v \in Uids : v # u => ref'[v] = ref[v]
    BY <1>10 DEF CallAll, ShapeInv, PeersTyped
  <2> HIDE DEF T
  <2> QED
    BY <1>8, <2>1, <2>2, <2>3, <2>4
<1>11. ASSUME NEW c \in CallsTo(u), BeCalled(u, c)
       PROVE  ShapeInv'
  <2> DEFINE s == IF State(c) = "called" THEN "answered" ELSE IF State(c) = "over" THEN "late" ELSE State(c)
  <2>1. c \in CallNames
    BY DEF CallsTo
  <2>2. c[3] \in DOMAIN calls[c[1]][c[2]] => s \in CallStates
    <3>1. c[3] \in DOMAIN calls[c[1]][c[2]] => State(c) \in CallStates
      BY <2>1, CallsAre DEF ShapeInv, CallsTyped, State
    <3> QED
      BY <3>1 DEF CallStates
  <2>3. SetState(c, s)
    BY <1>11 DEF BeCalled
  <2> HIDE DEF s
  <2>4. CallsTyped'
    BY <2>1, <2>2, <2>3, SetStateEffect DEF ShapeInv
  <2>5. PeersTyped'
    BY <1>11, BeCalledPeers DEF ShapeInv
  <2>6. {<<"answer", c>>} \in SUBSET Todo(u)
    BY DEF Todo
  <2>7. /\ later' = [later EXCEPT ![u] = @ \cup {<<"answer", c>>}] /\ crashed' = crashed
        /\ \A v \in Uids : v # u => ref'[v] = ref[v]
    BY <1>11 DEF BeCalled, ShapeInv, PeersTyped
  <2> QED
    BY <1>8, <2>4, <2>5, <2>6, <2>7
<1>12. ASSUME NEW c \in CallsFrom(u), BeAnswered(u, c)
       PROVE  ShapeInv'
  <2>1. CallsTyped'
    BY <1>12 DEF BeAnswered, ShapeInv, CallsTyped
  <2>2. PeersTyped'
    BY <1>12, BeAnsweredPeers DEF ShapeInv
  <2>3. {<<"apply", c>>} \in SUBSET Todo(u)
    BY DEF Todo
  <2>4. /\ later' = [later EXCEPT ![u] = @ \cup {<<"apply", c>>}] /\ ref' = ref
        /\ crashed' \in {crashed, crashed \cup {u}}
    BY <1>12 DEF BeAnswered
  <2> QED
    BY <1>8, <2>1, <2>2, <2>3, <2>4
<1> QED
  BY <1>2, <1>9, <1>10, <1>11, <1>12

LEMMA ShapeStep ==
  ASSUME ShapeInv, MemberInv, [MeshNext]_meshVars
  PROVE  ShapeInv'
<1>1. CASE UNCHANGED meshVars
  BY <1>1 DEF meshVars, page, wires, peers, ShapeInv, PagesTyped, WiresTyped, ListsTyped, CallsTyped, PeersTyped, ClosedInv
<1>2. CASE ServeJoin
  BY <1>2, ShapeOfServeJoin DEF MemberInv
<1>3. CASE ServeLeave
  BY <1>3 DEF ServeLeave, page, wires, peers, ShapeInv, PagesTyped, WiresTyped, ListsTyped, CallsTyped, PeersTyped, ClosedInv
<1> QED
  BY <1>1, <1>2, <1>3, ShapeOfForward, ShapeOfDeliver, ShapeOfRejoin, ShapeOfReceive, ShapeOfApply,
     ShapeOfClose, ShapeOfOpen, ShapeOfHandle DEF MeshNext

LEMMA ShapeInvariant == MeshSpec => []ShapeInv
<1>1. MeshInit => ShapeInv
  <2> SUFFICES ASSUME MeshInit PROVE ShapeInv
    OBVIOUS
  <2>1. ASSUME NEW u \in Uids
        PROVE  later[u] \subseteq Todo(u) /\ inbox[u] \in Seq(Written(u))
    <3>1. later[u] \subseteq {<<"join">>} /\ inbox[u] = <<>>
      BY DEF MeshInit
    <3>2. <<"join">> \in Todo(u)
      BY DEF Todo, Words
    <3> QED
      BY <3>1, <3>2
  <2>2. PagesTyped
    BY <2>1 DEF MeshInit, PagesTyped
  <2>3. WiresTyped /\ ListsTyped /\ ClosedInv
    BY DEF MeshInit, WiresTyped, ListsTyped, ClosedInv
  <2>4. PeersTyped
    <3>1. \A u : PeersOf(u, <<>>) /\ ShownIn(<<>>, <<>>)
      BY DEF PeersOf, ShownIn
    <3> QED
      BY <3>1 DEF MeshInit, PeersTyped
  <2>5. CallsTyped
    BY DEF MeshInit, CallsTyped
  <2> QED
    BY <2>2, <2>3, <2>4, <2>5 DEF ShapeInv
<1> QED
  BY <1>1, MemberInvariant, ShapeStep, PTL DEF MeshSpec

(* An own peer in the list is the first of its user.                       *)
LEMMA OwnIsFirst ==
  ASSUME ShapeInv, NEW u \in Uids, NEW c \in CallsFrom(u), Kept(c)
  PROVE  First(u, c[2]) \in DOMAIN ref[u] /\ ref[u][First(u, c[2])][2] = c
<1> DEFINE f == First(u, c[2])
<1>1. PICK i \in DOMAIN ref[u] : ref[u][i][2] = c
  BY DEF Kept, CallsFrom
<1>2. ref[u] \in Seq(Peers(u)) /\ PeersOf(u, ref[u])
  BY DEF ShapeInv, PeersTyped, PeersOf
<1>3. ref[u][i] \in Peers(u)
  BY <1>1, <1>2
<1>4. ref[u][i][1] = c[2] /\ ref[u][i][2][1] = u
  BY <1>1, <1>3 DEF Peers, CallsFrom, CallsTo
<1>5. f \in DOMAIN ref[u] /\ ref[u][f][1] = c[2] /\ f <= i
  BY <1>1, <1>4, FirstFinds DEF ShapeInv
<1>6. DOMAIN ref[u] = 1 .. Len(ref[u]) /\ Len(ref[u]) \in Nat
  BY <1>2
<1>7. f = i
  <2> HIDE DEF f
  <2>1. f \in 1 .. i - 1 => FALSE
    BY <1>1, <1>2, <1>4, <1>5 DEF PeersOf
  <2> QED
    BY <1>1, <1>5, <1>6, <2>1
<1> QED
  BY <1>1, <1>7

(* The answer to a call finds the peer that made it: an own peer in the    *)
(* list is the first one of its user, for any number of users, of pages    *)
(* closed and of rejoins.                                                  *)
THEOREM AnswersFindTheirPeers == MeshSpec => []AnswerFindsItsPeer
<1>1. ShapeInv => AnswerFindsItsPeer
  <2> SUFFICES ASSUME ShapeInv, NEW u \in Uids, NEW t \in later[u], t[1] = "apply", Kept(t[2])
               PROVE  ref[u][First(u, t[2][2])][2] = t[2]
    BY DEF AnswerFindsItsPeer
  <2>1. t[2] \in CallsFrom(u)
    BY TodoCases DEF ShapeInv, PagesTyped
  <2> QED
    BY <2>1, OwnIsFirst
<1> QED
  BY <1>1, ShapeInvariant, PTL

-----------------------------------------------------------------------------
(* Every call that is named anywhere has been made.                        *)
Left(u) == {s[2] : s \in parting[u]}

KnownInv ==
  /\ \A u \in Uids : \A t \in later[u] \cup Left(u) : t[1] \in {"offer", "answer", "apply"} => t[2] \in Calls
  /\ \A u \in Uids : \A i \in DOMAIN inbox[u] : inbox[u][i][1] \in {"offer", "answer"} => inbox[u][i][3] \in Calls
  /\ \A u \in Uids : \A i \in DOMAIN ref[u] : ref[u][i][2] \in Calls
  /\ sending \in Calls \cup {None} /\ returning \in Calls \cup {None}
  /\ toOne # None /\ toOne[1] \in {"offer", "answer"} => toOne[3] \in Calls

CallsIn(k, u, v) == {Call(u, v, n) : n \in DOMAIN k[u][v]}
MadeIn(k) == UNION {CallsIn(k, u, v) : u, v \in Uids}

LEMMA MadeIs ==
  ASSUME NEW k, NEW u \in Uids, NEW v \in Uids, NEW c \in CallsIn(k, u, v)
  PROVE  c \in MadeIn(k)
  BY DEF MadeIn

LEMMA CallsAreMade ==
  ASSUME NEW k \in [Uids -> [Uids -> Seq(CallStates)]], NEW c
  PROVE  c \in MadeIn(k) <=> c \in CallNames /\ c[3] \in DOMAIN k[c[1]][c[2]]
<1>1. ASSUME c \in CallNames, c[3] \in DOMAIN k[c[1]][c[2]]
      PROVE  c \in MadeIn(k)
  <2>1. c = Call(c[1], c[2], c[3]) /\ c[1] \in Uids /\ c[2] \in Uids
    BY <1>1, CallsAre DEF Call
  <2>2. c \in CallsIn(k, c[1], c[2])
    BY <1>1, <2>1 DEF CallsIn
  <2> QED
    BY <2>1, <2>2, MadeIs
<1>2. ASSUME NEW u \in Uids, NEW v \in Uids, NEW n \in DOMAIN k[u][v], c = <<u, v, n>>
      PROVE  c \in CallNames /\ c[3] \in DOMAIN k[c[1]][c[2]]
  <2>1. k[u][v] \in Seq(CallStates)
    OBVIOUS
  <2>2. n \in Nat \ {0}
    BY <2>1
  <2> QED
    BY <1>2, <2>2 DEF CallNames
<1> QED
  BY <1>1, <1>2 DEF MadeIn, CallsIn, Call

(* No call is forgotten.                                                   *)
LEMMA CallsGrow ==
  ASSUME ShapeInv, [MeshNext]_meshVars
  PROVE  \A v, w \in Uids : DOMAIN calls[v][w] \subseteq DOMAIN calls'[v][w]
<1>1. CASE calls' = calls
  BY <1>1
<1>2. ASSUME NEW u \in Uids, Receive(u)
      PROVE  \A v, w \in Uids : DOMAIN calls[v][w] \subseteq DOMAIN calls'[v][w]
  <2>1. ASSUME NEW L \in SUBSET (Uids \ {u}), NEW last, CallAll(u, L, last)
        PROVE  \A v, w \in Uids : DOMAIN calls[v][w] \subseteq DOMAIN calls'[v][w]
    <3>1. CallsTyped
      BY DEF ShapeInv
    <3>2. /\ \A w \in L : \A n \in DOMAIN calls[u][w] : n \in DOMAIN calls'[u][w]
          /\ \A v \in L : DOMAIN calls'[v][u] = DOMAIN calls[v][u]
          /\ \A v, w \in Uids : ~(v = u /\ w \in L) /\ ~(v \in L /\ w = u) => calls'[v][w] = calls[v][w]
      <4>1. \A w \in L : \A n \in DOMAIN calls[u][w] : n \in DOMAIN calls'[u][w]
        BY <2>1, <3>1, CallAllEffect
      <4>2. \A v \in L : DOMAIN calls'[v][u] = DOMAIN calls[v][u]
        BY <2>1, <3>1, CallAllEffect
      <4>3. \A v, w \in Uids : ~(v = u /\ w \in L) /\ ~(v \in L /\ w = u) => calls'[v][w] = calls[v][w]
        BY <2>1 DEF CallAll
      <4> QED
        BY <4>1, <4>2, <4>3
    <3> QED
      BY <3>2
  <2>2. ASSUME NEW c \in CallsTo(u), BeCalled(u, c)
        PROVE  \A v, w \in Uids : DOMAIN calls[v][w] \subseteq DOMAIN calls'[v][w]
    <3> SUFFICES ASSUME NEW v \in Uids, NEW w \in Uids
                 PROVE  DOMAIN calls'[v][w] = DOMAIN calls[v][w]
      OBVIOUS
    <3> QED
      BY <2>2, CallsAre DEF BeCalled, SetState, ShapeInv, CallsTyped, CallsTo
  <2>3. ASSUME NEW c, BeAnswered(u, c)
        PROVE  calls' = calls
    BY <2>3 DEF BeAnswered
  <2> QED
    BY <1>2, <2>1, <2>2, <2>3, ReceiveCases DEF ShapeInv, peers
<1>3. ASSUME NEW u \in Uids, Apply(u)
      PROVE  \A v, w \in Uids : DOMAIN calls[v][w] \subseteq DOMAIN calls'[v][w]
  <2>1. ASSUME NEW d \in CallNames, NEW s, SetState(d, s)
        PROVE  \A v, w \in Uids : DOMAIN calls[v][w] = DOMAIN calls'[v][w]
    BY <2>1, CallsAre DEF SetState, ShapeInv, CallsTyped
  <2>2. calls' = calls \/ \E d \in CallNames : \E s : SetState(d, s)
    BY <1>3, ApplyEffect DEF ShapeInv
  <2> QED
    BY <2>1, <2>2
<1>4. ASSUME NEW u \in Uids, Close(u)
      PROVE  \A v, w \in Uids : DOMAIN calls[v][w] \subseteq DOMAIN calls'[v][w]
  BY <1>4, CloseEffect DEF ShapeInv
<1>5. CASE UNCHANGED meshVars \/ ServeJoin \/ ServeLeave \/ Forward \/ Deliver
  BY <1>1, <1>5 DEF meshVars, peers, ServeJoin, ServeLeave, Forward, Deliver
<1>6. ASSUME NEW u \in Uids, Rejoin(u) \/ Open(u) \/ Handle(u)
      PROVE  calls' = calls
  BY <1>6 DEF Rejoin, Open, Handle, peers
<1> QED
  BY <1>1, <1>2, <1>3, <1>4, <1>5, <1>6 DEF MeshNext

LEMMA CallsStay ==
  ASSUME ShapeInv, ShapeInv', [MeshNext]_meshVars
  PROVE  Calls \subseteq Calls'
<1> SUFFICES ASSUME NEW c \in Calls PROVE c \in Calls'
  OBVIOUS
<1>1. calls \in [Uids -> [Uids -> Seq(CallStates)]] /\ calls' \in [Uids -> [Uids -> Seq(CallStates)]]
  BY DEF ShapeInv, CallsTyped
<1>2. Calls = MadeIn(calls) /\ Calls' = MadeIn(calls')
  BY DEF Calls, MadeIn, CallsIn
<1>3. c \in CallNames /\ c[3] \in DOMAIN calls[c[1]][c[2]]
  BY <1>1, <1>2, CallsAreMade
<1>4. c[3] \in DOMAIN calls'[c[1]][c[2]]
  BY <1>3, CallsGrow, CallsAre
<1>5. c \in MadeIn(calls')
  BY <1>1, <1>3, <1>4, CallsAreMade
<1> QED
  BY <1>2, <1>5

(* The calls that CallAll makes are made.                                  *)
LEMMA CallAllMakes ==
  ASSUME ShapeInv, ShapeInv', NEW u \in Uids, NEW L \in SUBSET (Uids \ {u}), NEW last, CallAll(u, L, last),
         NEW v \in L
  PROVE  Call1(u, v) \in Calls'
<1> DEFINE c == Call1(u, v)
<1>1. /\ calls' \in [Uids -> [Uids -> Seq(CallStates)]]
      /\ CallsTyped
  BY DEF ShapeInv, CallsTyped
<1>2. Len(calls[u][v]) + 1 \in Nat \ {0} /\ DOMAIN calls'[u][v] = 1 .. Len(calls[u][v]) + 1
  BY <1>1, CallAllEffect
<1>3. c = <<u, v, Len(calls[u][v]) + 1>>
  BY DEF Call1, Call
<1>4. c \in CallNames /\ c[3] \in DOMAIN calls'[c[1]][c[2]]
  BY <1>2, <1>3 DEF CallNames
<1> HIDE DEF c
<1>5. c \in MadeIn(calls')
  BY <1>1, <1>4, CallsAreMade
<1> QED
  BY <1>5 DEF c, Calls, MadeIn, CallsIn

LEMMA KnownOfReceive ==
  ASSUME ShapeInv, ShapeInv', KnownInv, Calls \subseteq Calls', NEW u \in Uids, Receive(u)
  PROVE  KnownInv'
<1>1. /\ inbox[u] # <<>> /\ inbox' = [inbox EXCEPT ![u] = Tail(@)]
      /\ UNCHANGED <<parting, sending, returning, toOne>>
  BY ReceiveCases DEF ShapeInv, wires
<1>2. PICK m \in Written(u) :
              /\ m = inbox[u][1]
              /\ \/ u \in crashed /\ UNCHANGED <<later, peers>>
                 \/ /\ u \notin crashed /\ m[1] = "users" /\ CallAll(u, m[3], m[4])
                    /\ m[3] \in SUBSET (Uids \ {u}) /\ (m[3] = {} \/ m[4] \in m[3])
                 \/ u \notin crashed /\ m[1] = "offer" /\ m[3] \in CallsTo(u) /\ BeCalled(u, m[3])
                 \/ u \notin crashed /\ m[1] = "answer" /\ m[3] \in CallsFrom(u) /\ BeAnswered(u, m[3])
  BY ReceiveCases DEF ShapeInv
<1>3. m[1] \in {"offer", "answer"} => m[3] \in Calls
  <2>1. inbox[u] \in Seq(Written(u))
    BY DEF ShapeInv, PagesTyped
  <2>2. 1 \in DOMAIN inbox[u]
    BY <1>1, <2>1
  <2> QED
    BY <1>2, <2>2 DEF KnownInv
<1>4. \A v \in Uids : \A i \in DOMAIN inbox'[v] : inbox'[v][i][1] \in {"offer", "answer"} => inbox'[v][i][3] \in Calls'
  <2>1. /\ DOMAIN inbox = Uids /\ inbox[u] \in Seq(Written(u))
        /\ inbox'[u] = Tail(inbox[u]) /\ \A v \in Uids : v # u => inbox'[v] = inbox[v]
    BY <1>1 DEF ShapeInv, PagesTyped
  <2>2. \A i \in DOMAIN inbox'[u] : i + 1 \in DOMAIN inbox[u] /\ inbox'[u][i] = inbox[u][i + 1]
    BY <1>1, <2>1, TailOf
  <2>3. ASSUME NEW v \in Uids, NEW i \in DOMAIN inbox'[v]
        PROVE  \E j \in DOMAIN inbox[v] : inbox'[v][i] = inbox[v][j]
    <3>1. CASE v = u
      BY <2>2, <2>3, <3>1
    <3>2. CASE v # u
      BY <2>1, <2>3, <3>2
    <3> QED
      BY <3>1, <3>2
  <2>4. \A v \in Uids : \A j \in DOMAIN inbox[v] : inbox[v][j][1] \in {"offer", "answer"} => inbox[v][j][3] \in Calls'
    BY DEF KnownInv
  <2> QED
    BY <2>3, <2>4
<1>5. ASSUME NEW T, \A t \in T : t[2] \in Calls',
             later' = later \/ later' = [later EXCEPT ![u] = @ \cup T],
             \A v \in Uids : \A i \in DOMAIN ref'[v] : ref'[v][i][2] \in Calls'
      PROVE  KnownInv'
  <2>1. \A v \in Uids : \A t \in later'[v] \cup Left(v)' : t[1] \in {"offer", "answer", "apply"} => t[2] \in Calls'
    <3>1. DOMAIN later = Uids
      BY DEF ShapeInv, PagesTyped
    <3>2. \A v \in Uids : \A t \in later'[v] : t \in later[v] \/ t \in T
      BY <1>5, <3>1
    <3>3. \A v \in Uids : Left(v)' = Left(v)
      BY <1>1 DEF Left
    <3> QED
      BY <1>5, <3>2, <3>3 DEF KnownInv
  <2>2. /\ sending' \in Calls' \cup {None} /\ returning' \in Calls' \cup {None}
        /\ toOne' # None /\ toOne'[1] \in {"offer", "answer"} => toOne'[3] \in Calls'
    BY <1>1 DEF KnownInv
  <2> QED
    BY <1>4, <1>5, <2>1, <2>2 DEF KnownInv
<1>6. \A v \in Uids : \A i \in DOMAIN ref[v] : ref[v][i][2] \in Calls'
  BY DEF KnownInv
<1>7. DOMAIN ref = Uids /\ ref[u] \in Seq(Peers(u))
  BY DEF ShapeInv, PeersTyped, PeersOf
<1>8. ASSUME NEW t \in Seq(Peers(u)), NEW e \in Peers(u), \A i \in DOMAIN t : t[i][2] \in Calls', e[2] \in Calls',
             \A v \in Uids : v # u => ref'[v] = ref[v], ref'[u] = Append(t, e)
      PROVE  \A v \in Uids : \A i \in DOMAIN ref'[v] : ref'[v][i][2] \in Calls'
  <2>1. PICK n \in Nat : DOMAIN t = 1 .. n
    BY <1>8
  <2>2. DOMAIN ref'[u] = 1 .. n + 1 /\ ref'[u][n + 1] = e /\ \A i \in 1 .. n : ref'[u][i] = t[i]
    BY <1>8, <2>1
  <2>3. \A i \in 1 .. n + 1 : i = n + 1 \/ i \in 1 .. n
    BY <2>1
  <2>4. \A i \in DOMAIN ref'[u] : ref'[u][i][2] \in Calls'
    BY <1>8, <2>1, <2>2, <2>3
  <2> QED
    BY <1>6, <1>8, <2>4
<1>9. CASE u \in crashed /\ UNCHANGED <<later, peers>>
  <2>1. ref' = ref /\ later' = later
    BY <1>9 DEF peers
  <2> DEFINE T == {}
  <2>2. \A t \in T : t[2] \in Calls'
    OBVIOUS
  <2> HIDE DEF T
  <2>3. \A v \in Uids : \A i \in DOMAIN ref'[v] : ref'[v][i][2] \in Calls'
    BY <1>6, <2>1
  <2> QED
    BY <1>5, <2>1, <2>2, <2>3
<1>10. ASSUME NEW L \in SUBSET (Uids \ {u}), NEW last, L = {} \/ last \in L, CallAll(u, L, last)
       PROVE  KnownInv'
  <2> DEFINE T == {<<"offer", Call1(u, v)>> : v \in L}
  <2>1. \A v \in L : Call1(u, v) \in Calls'
    BY <1>10, CallAllMakes
  <2>2. (\A t \in T : t[2] \in Calls') /\ later' = [later EXCEPT ![u] = @ \cup T]
    BY <1>10, <2>1 DEF CallAll
  <2> HIDE DEF T
  <2>3. \A v \in Uids : \A i \in DOMAIN ref'[v] : ref'[v][i][2] \in Calls'
    <3>1. CASE L = {}
      <4>1. ref' = ref
        BY <1>10, <3>1 DEF CallAll
      <4> QED
        BY <1>6, <4>1
    <3>2. CASE L # {}
      <4> DEFINE t == Without(ref[u], L)
                 e == <<last, Call1(u, last)>>
      <4>1. t \in Seq(Peers(u)) /\ Filters(t, Len(ref[u]), ref[u], L)
        BY <1>7, WithoutFilters
      <4>2. \A i \in DOMAIN t : t[i][2] \in Calls'
        <5>1. DOMAIN ref[u] = 1 .. Len(ref[u])
          BY <1>7
        <5> HIDE DEF t
        <5>2. \A i \in DOMAIN t : \E j \in DOMAIN ref[u] : t[i] = ref[u][j]
          BY <4>1, <5>1 DEF Filters
        <5>3. \A j \in DOMAIN ref[u] : ref[u][j][2] \in Calls'
          BY <1>6
        <5> QED
          BY <5>2, <5>3
      <4>3. e \in Peers(u) /\ e[2] \in Calls'
        <5>1. Len(calls[u][last]) + 1 \in Nat \ {0}
          BY <1>10, <3>2, CallAllEffect DEF ShapeInv
        <5> QED
          BY <1>10, <2>1, <3>2, <5>1 DEF Peers, CallsFrom, CallNames, Call1, Call
      <4>4. \A v \in Uids : v # u => ref'[v] = ref[v]
        BY <1>10, <1>7, <3>2 DEF CallAll
      <4>5. ref'[u] = Append(t, e)
        BY <1>10, <1>7, <3>2 DEF CallAll
      <4> HIDE DEF t, e
      <4> QED
        BY <1>8, <4>1, <4>2, <4>3, <4>4, <4>5
    <3> QED
      BY <3>1, <3>2
  <2> QED
    BY <1>5, <2>2, <2>3
<1>11. ASSUME NEW c \in CallsTo(u), c \in Calls, BeCalled(u, c)
       PROVE  KnownInv'
  <2> DEFINE T == {<<"answer", c>>}
             e == <<c[1], c>>
  <2>1. (\A t \in T : t[2] \in Calls') /\ later' = [later EXCEPT ![u] = @ \cup T]
    BY <1>11 DEF BeCalled
  <2>2. e \in Peers(u) /\ e[2] \in Calls'
    BY <1>11 DEF Peers, CallsTo, CallNames
  <2>3. ref'[u] = Append(ref[u], e) /\ \A v \in Uids : v # u => ref'[v] = ref[v]
    BY <1>7, <1>11 DEF BeCalled
  <2> HIDE DEF T, e
  <2>4. \A v \in Uids : \A i \in DOMAIN ref'[v] : ref'[v][i][2] \in Calls'
    BY <1>6, <1>7, <1>8, <2>2, <2>3
  <2> QED
    BY <1>5, <2>1, <2>4
<1>12. ASSUME NEW c \in Calls, BeAnswered(u, c)
       PROVE  KnownInv'
  <2> DEFINE T == {<<"apply", c>>}
  <2>1. (\A t \in T : t[2] \in Calls') /\ later' = [later EXCEPT ![u] = @ \cup T] /\ ref' = ref
    BY <1>12 DEF BeAnswered
  <2> HIDE DEF T
  <2> QED
    BY <1>5, <1>6, <2>1
<1> QED
  BY <1>2, <1>3, <1>9, <1>10, <1>11, <1>12

LEMMA KnownStep ==
  ASSUME ShapeInv, ShapeInv', KnownInv, [MeshNext]_meshVars
  PROVE  KnownInv'
<1>1. Calls \subseteq Calls'
  BY CallsStay
<1>2. ASSUME UNCHANGED <<parting, inbox, ref, sending, returning, toOne>>,
             NEW u \in Uids, NEW T \in SUBSET Words, later' = later \/ \A v \in Uids : later'[v] \subseteq later[v] \cup T
      PROVE  KnownInv'
  <2>1. \A t \in T : t[1] \notin {"offer", "answer", "apply"}
    BY DEF Words
  <2>2. \A v \in Uids : \A t \in later'[v] \cup Left(v)' : t[1] \in {"offer", "answer", "apply"} => t[2] \in Calls'
    BY <1>1, <1>2, <2>1 DEF KnownInv, Left
  <2>3. /\ \A v \in Uids : \A i \in DOMAIN inbox'[v] : inbox'[v][i][1] \in {"offer", "answer"} => inbox'[v][i][3] \in Calls'
        /\ \A v \in Uids : \A i \in DOMAIN ref'[v] : ref'[v][i][2] \in Calls'
    BY <1>1, <1>2 DEF KnownInv
  <2>4. /\ sending' \in Calls' \cup {None} /\ returning' \in Calls' \cup {None}
        /\ toOne' # None /\ toOne'[1] \in {"offer", "answer"} => toOne'[3] \in Calls'
    BY <1>1, <1>2 DEF KnownInv
  <2> QED
    BY <2>2, <2>3, <2>4 DEF KnownInv
<1>3. ASSUME UNCHANGED <<later, parting, inbox, ref>>,
             sending' \in Calls' \cup {None}, returning' \in Calls' \cup {None},
             toOne' # None /\ toOne'[1] \in {"offer", "answer"} => toOne'[3] \in Calls'
      PROVE  KnownInv'
  <2>1. \A v \in Uids : Left(v)' = Left(v)
    BY <1>3 DEF Left
  <2> QED
    BY <1>1, <1>3, <2>1 DEF KnownInv
<1>4. CASE UNCHANGED meshVars \/ ServeLeave
  <2>1. UNCHANGED <<later, parting, inbox, ref, sending, returning, toOne>>
    BY <1>4 DEF meshVars, page, wires, peers, ServeLeave
  <2> QED
    BY <1>1, <1>3, <2>1 DEF KnownInv
<1>5. CASE ServeJoin
  <2>1. UNCHANGED <<later, parting, inbox, ref, sending, returning>> /\ toOne'[1] = "users"
    BY <1>5 DEF ServeJoin, page, peers
  <2> QED
    BY <1>1, <1>3, <2>1 DEF KnownInv
<1>6. CASE Forward
  <2>1. UNCHANGED <<later, parting, inbox, ref>>
    BY <1>6 DEF Forward, page, peers
  <2>2. /\ sending' \in {sending, None} /\ returning' \in {returning, None}
        /\ \/ sending # None /\ toOne' = <<"offer", sending[2], sending>>
           \/ returning # None /\ toOne' = <<"answer", returning[1], returning>>
    BY <1>6 DEF Forward
  <2>3. toOne'[3] \in Calls'
    BY <1>1, <2>2 DEF KnownInv
  <2> QED
    BY <1>1, <1>3, <2>1, <2>2, <2>3 DEF KnownInv
<1>7. CASE Deliver
  <2> DEFINE u == toOne[2]
  <2>1. UNCHANGED <<later, parting, sending, returning, ref>> /\ toOne' = None
    BY <1>7 DEF Deliver, peers
  <2>2. u \in Uids /\ toOne \in Written(u) /\ (toOne[1] \in {"offer", "answer"} => toOne[3] \in Calls')
    BY <1>1, <1>7 DEF Deliver, ShapeInv, WiresTyped, KnownInv
  <2>3. ASSUME NEW v \in Uids, NEW i \in DOMAIN inbox'[v], inbox'[v][i][1] \in {"offer", "answer"}
        PROVE  inbox'[v][i][3] \in Calls'
    <3>1. inbox' = inbox \/ inbox' = [inbox EXCEPT ![u] = Append(@, toOne)]
      BY <1>7 DEF Deliver
    <3>2. inbox[v] \in Seq(Written(v)) /\ DOMAIN inbox = Uids
      BY DEF ShapeInv, PagesTyped
    <3>3. CASE inbox'[v] = inbox[v]
      BY <1>1, <2>3, <3>3 DEF KnownInv
    <3>4. CASE v = u /\ inbox'[v] = Append(inbox[v], toOne)
      <4>1. PICK n \in Nat : DOMAIN inbox[v] = 1 .. n
        BY <3>2
      <4>2. DOMAIN inbox'[v] = 1 .. n + 1 /\ inbox'[v][n + 1] = toOne /\ \A j \in 1 .. n : inbox'[v][j] = inbox[v][j]
        BY <2>2, <3>2, <3>4, <4>1
      <4>3. CASE i = n + 1
        BY <2>2, <2>3, <4>2, <4>3
      <4>4. CASE i # n + 1
        <5>1. i \in 1 .. n
          BY <4>1, <4>2, <4>4
        <5> QED
          BY <1>1, <2>3, <4>1, <4>2, <5>1 DEF KnownInv
      <4> QED
        BY <4>3, <4>4
    <3> QED
      BY <3>1, <3>2, <3>3, <3>4
  <2>4. /\ \A v \in Uids : \A t \in later'[v] \cup Left(v)' : t[1] \in {"offer", "answer", "apply"} => t[2] \in Calls'
        /\ \A v \in Uids : \A i \in DOMAIN ref'[v] : ref'[v][i][2] \in Calls'
        /\ sending' \in Calls' \cup {None} /\ returning' \in Calls' \cup {None}
    BY <1>1, <2>1 DEF KnownInv, Left
  <2> QED
    BY <2>1, <2>3, <2>4 DEF KnownInv
<1>8. ASSUME NEW u \in Uids, Rejoin(u)
      PROVE  KnownInv'
  <2> DEFINE T == {<<"leave", moves'>>, <<"again", moves'>>}
  <2>1. /\ UNCHANGED <<parting, inbox, ref, sending, returning, toOne>>
        /\ later' = [later EXCEPT ![u] = @ \cup T]
    BY <1>8 DEF Rejoin, wires, peers
  <2>2. T \in SUBSET Words
    BY DEF Words, ShapeInv, PagesTyped
  <2> HIDE DEF T
  <2>3. \A v \in Uids : later'[v] \subseteq later[v] \cup T
    BY <2>1 DEF ShapeInv, PagesTyped
  <2> QED
    BY <1>2, <2>1, <2>2, <2>3
<1>9. ASSUME NEW u \in Uids, Open(u)
      PROVE  KnownInv'
  <2>1. UNCHANGED <<parting, inbox, ref, sending, returning, toOne>>
    BY <1>9 DEF Open, wires, peers
  <2>2. PICK T \in SUBSET {<<"join">>, <<"again", moves + 1>>} : later' = [later EXCEPT ![u] = T]
    BY <1>9 DEF Open
  <2>3. T \in SUBSET Words
    <3>1. moves + 1 \in Nat
      BY DEF ShapeInv, PagesTyped
    <3> QED
      BY <2>2, <3>1 DEF Words
  <2>4. \A v \in Uids : later'[v] \subseteq later[v] \cup T
    BY <2>2 DEF ShapeInv, PagesTyped
  <2> QED
    BY <1>2, <2>1, <2>3, <2>4
<1>10. ASSUME NEW u \in Uids, Apply(u)
       PROVE  KnownInv'
  <2>1. /\ UNCHANGED <<parting, inbox, ref, sending, returning, toOne>>
        /\ \E t : later' = [later EXCEPT ![u] = @ \ {t}]
    BY <1>10 DEF Apply, wires
  <2> DEFINE T == {}
  <2>2. T \in SUBSET Words /\ \A v \in Uids : later'[v] \subseteq later[v] \cup T
    BY <2>1 DEF ShapeInv, PagesTyped
  <2> HIDE DEF T
  <2> QED
    BY <1>2, <2>1, <2>2
<1>11. ASSUME NEW u \in Uids, Close(u)
       PROVE  KnownInv'
  <2>1. /\ UNCHANGED <<sending, returning, toOne>>
        /\ inbox' = [inbox EXCEPT ![u] = <<>>] /\ later' = [later EXCEPT ![u] = {}]
        /\ ref' = [ref EXCEPT ![u] = <<>>]
    BY <1>11 DEF Close, wires
  <2>2. PICK sent \in SUBSET {m \in later[u] : Sendable(m)} :
          parting' = [parting EXCEPT ![u] = @ \cup {<<moves', m>> : m \in sent \cup {<<"gone">>}}]
    BY <1>11 DEF Close
  <2>3. DOMAIN later = Uids /\ DOMAIN parting = Uids /\ DOMAIN inbox = Uids /\ DOMAIN ref = Uids
    BY DEF ShapeInv, PagesTyped, PeersTyped
  <2>4. \A v \in Uids : later'[v] \subseteq later[v] /\ Left(v)' \subseteq later[v] \cup Left(v) \cup {<<"gone">>}
    BY <2>1, <2>2, <2>3 DEF Left
  <2>5. \A v \in Uids : \A t \in later'[v] \cup Left(v)' : t[1] \in {"offer", "answer", "apply"} => t[2] \in Calls'
    BY <1>1, <2>4 DEF KnownInv
  <2>6. /\ \A v \in Uids : inbox'[v] = <<>> \/ inbox'[v] = inbox[v]
        /\ \A v \in Uids : ref'[v] = <<>> \/ ref'[v] = ref[v]
    BY <2>1, <2>3
  <2>7. /\ \A v \in Uids : \A i \in DOMAIN inbox'[v] : inbox'[v][i][1] \in {"offer", "answer"} => inbox'[v][i][3] \in Calls'
        /\ \A v \in Uids : \A i \in DOMAIN ref'[v] : ref'[v][i][2] \in Calls'
    BY <1>1, <2>6 DEF KnownInv
  <2> QED
    BY <1>1, <2>1, <2>5, <2>7 DEF KnownInv
<1>12. ASSUME NEW u \in Uids, Handle(u)
       PROVE  KnownInv'
  <2>1. UNCHANGED <<inbox, ref>>
    BY <1>12 DEF Handle, peers
  <2>2. ASSUME NEW m \in later[u] \cup Left(u), NEW rest, Pass(u, m, rest),
               \A v \in Uids : later'[v] \cup Left(v)' \subseteq later[v] \cup Left(v)
        PROVE  KnownInv'
    <3>1. m[1] \in {"offer", "answer"} => m[2] \in Calls
      BY DEF KnownInv
    <3>2. toOne' = toOne /\ sending' \in {sending} \cup Calls /\ returning' \in {returning} \cup Calls
      BY <2>2, <3>1, PassTakes
    <3>3. \A v \in Uids : \A t \in later'[v] \cup Left(v)' : t[1] \in {"offer", "answer", "apply"} => t[2] \in Calls'
      BY <1>1, <2>2 DEF KnownInv
    <3>4. /\ \A v \in Uids : \A i \in DOMAIN inbox'[v] : inbox'[v][i][1] \in {"offer", "answer"} => inbox'[v][i][3] \in Calls'
          /\ \A v \in Uids : \A i \in DOMAIN ref'[v] : ref'[v][i][2] \in Calls'
      BY <1>1, <2>1 DEF KnownInv
    <3>5. /\ sending' \in Calls' \cup {None} /\ returning' \in Calls' \cup {None}
          /\ toOne' # None /\ toOne'[1] \in {"offer", "answer"} => toOne'[3] \in Calls'
      BY <1>1, <3>2 DEF KnownInv
    <3> QED
      BY <3>3, <3>4, <3>5 DEF KnownInv
  <2>3. DOMAIN later = Uids /\ DOMAIN parting = Uids
    BY DEF ShapeInv, PagesTyped
  <2>4. ASSUME NEW m \in later[u], Pass(u, m, later[u] \ {m}),
               later' = [later EXCEPT ![u] = @ \ {m}], parting' = parting
        PROVE  KnownInv'
    BY <2>2, <2>3, <2>4 DEF Left
  <2>5. ASSUME NEW t \in parting[u], Pass(u, t[2], RestOf(u, t)),
               parting' = [parting EXCEPT ![u] = @ \ {t}], later' = later
        PROVE  KnownInv'
    <3>1. t[2] \in Left(u) /\ \A v \in Uids : Left(v)' \subseteq Left(v)
      BY <2>3, <2>5 DEF Left
    <3> QED
      BY <2>2, <2>5, <3>1
  <2> QED
    BY <1>12, <2>4, <2>5 DEF Handle
<1> QED
  BY <1>1, <1>4, <1>5, <1>6, <1>7, <1>8, <1>9, <1>10, <1>11, <1>12, KnownOfReceive DEF MeshNext

LEMMA KnownInvariant == MeshSpec => []KnownInv
<1>1. ASSUME MeshInit PROVE KnownInv
  <2>1. \A u \in Uids : later[u] = {} /\ Left(u) = {} /\ inbox[u] = <<>> /\ ref[u] = <<>>
    BY <1>1 DEF MeshInit, Left
  <2>2. sending = None /\ returning = None /\ toOne = None
    BY <1>1 DEF MeshInit
  <2> QED
    BY <2>1, <2>2 DEF KnownInv
<1> QED
  BY <1>1, ShapeInvariant, KnownStep, PTL DEF MeshSpec

(* The types of the pages, of the goroutines and of the calls: a closed    *)
(* page holds nothing, what is shown is listed, and a signal in a          *)
(* goroutine's hands is of a call that was made.                           *)
THEOREM MeshTypesHold == MeshSpec => []MeshTypeOK
<1>1. ShapeInv /\ KnownInv /\ MemberInv => MeshTypeOK
  <2> SUFFICES ASSUME ShapeInv, KnownInv, MemberInv PROVE MeshTypeOK
    OBVIOUS
  <2>1. \A u \in Uids : ~open[u] => later[u] = {} /\ inbox[u] = <<>> /\ ref[u] = <<>>
    BY DEF ShapeInv, ClosedInv
  <2>2. \A u, v \in Uids : \A n \in DOMAIN calls[u][v] : calls[u][v][n] \in CallStates
    <3>1. \A u, v \in Uids : calls[u][v] \in Seq(CallStates)
      BY DEF ShapeInv, CallsTyped
    <3> QED
      BY <3>1
  <2>3. \A u \in Uids : \A v \in DOMAIN shown[u] : \E i \in DOMAIN ref[u] : ref[u][i] = <<v, shown[u][v]>>
    BY DEF ShapeInv, PeersTyped, ShownIn
  <2>4. sending \in Calls \cup {None} /\ returning \in Calls \cup {None}
    BY DEF KnownInv
  <2>5. (\A u \in crashed : open[u]) /\ members \cup overtaken \cup silent \subseteq Uids
    BY DEF ShapeInv, ClosedInv, MemberInv
  <2> QED
    BY <2>1, <2>2, <2>3, <2>4, <2>5 DEF MeshTypeOK
<1> QED
  BY <1>1, ShapeInvariant, KnownInvariant, MemberInvariant, PTL

-----------------------------------------------------------------------------
(* What keeps two pages together.                                          *)

(* What is written to a user, with the message on its way to him.          *)
Wire(u) == IF toOne # None /\ toOne[2] = u THEN Append(inbox[u], toOne) ELSE inbox[u]

NoUsersAfter(s, i) == \A j \in DOMAIN s : j > i => s[j][1] # "users"
NoUsers(s) == \A j \in DOMAIN s : s[j][1] # "users"
Lists(m, v) == m[1] = "users" /\ v \in m[3]
RenewedIn(s, v) == \E i \in DOMAIN s : Lists(s[i], v)
ListedIn(s, v) == \E i \in DOMAIN s : Lists(s[i], v) /\ NoUsersAfter(s, i)
OfferIn(s, c) == \E i \in DOMAIN s : s[i] = <<"offer", c[2], c>> /\ NoUsersAfter(s, i)
AnswerIn(s, c) == \E i \in DOMAIN s : s[i] = <<"answer", c[1], c>>

LEMMA WireAppended ==
  ASSUME NEW S, NEW s \in Seq(S), NEW m \in S, NEW v, NEW c
  PROVE  LET t == Append(s, m) IN
         /\ m[1] # "users" => /\ NoUsers(s) => NoUsers(t)
                              /\ RenewedIn(s, v) => RenewedIn(t, v)
                              /\ ListedIn(s, v) => ListedIn(t, v)
                              /\ OfferIn(s, c) => OfferIn(t, c)
         /\ AnswerIn(s, c) => AnswerIn(t, c)
         /\ Lists(m, v) => ListedIn(t, v)
         /\ m = <<"offer", c[2], c>> => OfferIn(t, c)
         /\ m = <<"answer", c[1], c>> => AnswerIn(t, c)
<1> DEFINE t == Append(s, m)
<1>1. PICK n \in Nat : n = Len(s) /\ DOMAIN s = 1 .. n
  OBVIOUS
<1>2. DOMAIN t = 1 .. n + 1 /\ t[n + 1] = m /\ \A i \in 1 .. n : t[i] = s[i]
  BY <1>1
<1> HIDE DEF t
<1>3. \A i \in 1 .. n : i \in 1 .. n + 1
  BY <1>1
<1>4. n + 1 \in 1 .. n + 1 /\ NoUsersAfter(t, n + 1)
  BY <1>1, <1>2 DEF NoUsersAfter
<1>5. \A i \in 1 .. n + 1 : i = n + 1 \/ i \in 1 .. n
  BY <1>1
<1>6. m[1] # "users" => /\ NoUsers(s) => NoUsers(t)
                        /\ \A i \in 1 .. n : NoUsersAfter(s, i) => NoUsersAfter(t, i)
  BY <1>1, <1>2, <1>5 DEF NoUsers, NoUsersAfter
<1>7. m[1] # "users" => /\ RenewedIn(s, v) => RenewedIn(t, v)
                        /\ ListedIn(s, v) => ListedIn(t, v)
                        /\ OfferIn(s, c) => OfferIn(t, c)
  BY <1>1, <1>2, <1>3, <1>6 DEF RenewedIn, ListedIn, OfferIn
<1>8. AnswerIn(s, c) => AnswerIn(t, c)
  BY <1>1, <1>2, <1>3 DEF AnswerIn
<1>9. /\ Lists(m, v) => ListedIn(t, v)
      /\ m = <<"offer", c[2], c>> => OfferIn(t, c)
      /\ m = <<"answer", c[1], c>> => AnswerIn(t, c)
  BY <1>2, <1>4 DEF ListedIn, OfferIn, AnswerIn
<1> QED
  BY <1>6, <1>7, <1>8, <1>9 DEF t

LEMMA WireTaken ==
  ASSUME NEW S, NEW s \in Seq(S), s # <<>>, NEW v, NEW c
  PROVE  LET t == Tail(s)
             m == s[1] IN
         /\ NoUsers(s) => NoUsers(t) /\ m[1] # "users"
         /\ RenewedIn(s, v) => RenewedIn(t, v) \/ Lists(m, v)
         /\ ListedIn(s, v) => ListedIn(t, v) \/ (Lists(m, v) /\ NoUsers(t))
         /\ OfferIn(s, c) => OfferIn(t, c) \/ (m = <<"offer", c[2], c>> /\ NoUsers(t))
         /\ AnswerIn(s, c) => AnswerIn(t, c) \/ m = <<"answer", c[1], c>>
<1> DEFINE t == Tail(s)
           m == s[1]
<1>1. PICK n \in Nat \ {0} : n = Len(s) /\ DOMAIN s = 1 .. n
  BY TailOf
<1>2. DOMAIN t = 1 .. n - 1 /\ \A i \in 1 .. n - 1 : t[i] = s[i + 1]
  BY <1>1, TailOf
<1> HIDE DEF t, m
<1>3. \A i \in 1 .. n - 1 : i + 1 \in 1 .. n
  BY <1>1
<1>4. 1 \in 1 .. n /\ \A i \in 1 .. n : i # 1 => i - 1 \in 1 .. n - 1 /\ (i - 1) + 1 = i
  BY <1>1
<1>5. \A i \in 1 .. n : i # 1 => t[i - 1] = s[i]
  BY <1>2, <1>4
<1>6. NoUsers(s) => NoUsers(t) /\ m[1] # "users"
  BY <1>1, <1>2, <1>3, <1>4 DEF NoUsers, m
<1>7. NoUsersAfter(s, 1) => NoUsers(t)
  <2> SUFFICES ASSUME NoUsersAfter(s, 1), NEW j \in 1 .. n - 1 PROVE t[j][1] # "users"
    BY <1>2 DEF NoUsers
  <2>1. j + 1 \in 1 .. n /\ j + 1 > 1 /\ t[j] = s[j + 1]
    BY <1>1, <1>2
  <2> QED
    BY <1>1, <2>1 DEF NoUsersAfter
<1>8. ASSUME NEW i \in 1 .. n, i # 1, NoUsersAfter(s, i)
      PROVE  NoUsersAfter(t, i - 1)
  <2> SUFFICES ASSUME NEW j \in 1 .. n - 1, j > i - 1 PROVE t[j][1] # "users"
    BY <1>2 DEF NoUsersAfter
  <2>1. j + 1 \in 1 .. n /\ j + 1 > i /\ t[j] = s[j + 1]
    BY <1>1, <1>2
  <2> QED
    BY <1>1, <1>8, <2>1 DEF NoUsersAfter
<1>9. RenewedIn(s, v) => RenewedIn(t, v) \/ Lists(m, v)
  BY <1>1, <1>2, <1>4, <1>5 DEF RenewedIn, m
<1>10. ListedIn(s, v) => ListedIn(t, v) \/ (Lists(m, v) /\ NoUsers(t))
  BY <1>1, <1>2, <1>4, <1>5, <1>7, <1>8 DEF ListedIn, m
<1>11. OfferIn(s, c) => OfferIn(t, c) \/ (m = <<"offer", c[2], c>> /\ NoUsers(t))
  <2> SUFFICES ASSUME NEW i \in 1 .. n, s[i] = <<"offer", c[2], c>>, NoUsersAfter(s, i)
               PROVE  OfferIn(t, c) \/ (m = <<"offer", c[2], c>> /\ NoUsers(t))
    BY <1>1 DEF OfferIn
  <2>1. CASE i = 1
    BY <1>7, <2>1 DEF m
  <2>2. CASE i # 1
    <3>1. i - 1 \in 1 .. n - 1 /\ t[i - 1] = <<"offer", c[2], c>> /\ NoUsersAfter(t, i - 1)
      BY <1>4, <1>5, <1>8, <2>2
    <3> QED
      BY <1>2, <3>1 DEF OfferIn
  <2> QED
    BY <2>1, <2>2
<1>12. AnswerIn(s, c) => AnswerIn(t, c) \/ m = <<"answer", c[1], c>>
  BY <1>1, <1>2, <1>4, <1>5 DEF AnswerIn, m
<1>13. /\ NoUsers(s) => NoUsers(t) /\ m[1] # "users"
       /\ RenewedIn(s, v) => RenewedIn(t, v) \/ Lists(m, v)
       /\ ListedIn(s, v) => ListedIn(t, v) \/ (Lists(m, v) /\ NoUsers(t))
       /\ OfferIn(s, c) => OfferIn(t, c) \/ (m = <<"offer", c[2], c>> /\ NoUsers(t))
       /\ AnswerIn(s, c) => AnswerIn(t, c) \/ m = <<"answer", c[1], c>>
  BY <1>6, <1>9, <1>10, <1>11, <1>12
<1> QED
  BY <1>13, Zenon DEF t, m

-----------------------------------------------------------------------------
(* A user in the mesh with an open page that has sent its join, and no     *)
(* join and no leave under way.                                            *)
Firm(u) ==
  open[u] /\ u \notin silent /\ parting[u] = {} /\ u \in members /\ leaving # u /\ ~Due(u)

(* The offer of a call, the answer to one, is on its way.                  *)
OfferComes(c) ==
  \/ <<"offer", c>> \in later[c[1]]
  \/ sending = c
  \/ OfferIn(Wire(c[2]), c)

AnswerComes(c) ==
  \/ <<"answer", c>> \in later[c[2]]
  \/ returning = c
  \/ AnswerIn(Wire(c[1]), c)
  \/ <<"apply", c>> \in later[c[1]]

CallsOf(u, v) == CallsIn(calls, u, v)
Latest(u, v) == Call(u, v, Len(calls[u][v]))
Shows(u, v, c) == v \in DOMAIN shown[u] /\ shown[u][v] = c
Ended(c) == State(c) \in {"connected", "late", "stale"}
Settling(c) == Ended(c) \/ (State(c) = "answered" /\ (~Kept(c) \/ AnswerComes(c)))

(* Who is called shows the call, or an older one that is not replaced.     *)
CalleeShows(c) ==
  LET u == c[1]
      v == c[2]
  IN  \E e \in CallsOf(u, v) : Shows(v, u, e) /\ (e = c \/ Ended(e))

(* Who calls shows the call, or shows or will show one the other way.      *)
CallerShows(c) ==
  LET u == c[1]
      v == c[2]
  IN  \/ RenewedIn(Wire(v), u)
      \/ Shows(u, v, c)
      \/ \E e \in CallsOf(v, u) : OfferComes(e) \/ (Shows(u, v, e) /\ Settling(e))

(* The last call of u to v has its offer on the way, or has been answered. *)
CalledWith(u, v, c) ==
  /\ c \in CallsOf(u, v)
  /\ NoUsers(Wire(u))
  /\ \A e \in CallsOf(u, v) : e # c => Ended(e) \/ State(e) = "over"
  /\ ~Kept(c) => State(c) # "connected"
  /\ \/ OfferComes(c)
     \/ /\ NoUsers(Wire(v))
        /\ \/ State(c) \in {"stale", "late"}
           \/ State(c) = "answered" /\ (~Kept(c) \/ (AnswerComes(c) /\ CalleeShows(c)))
           \/ State(c) = "connected" /\ CalleeShows(c)
  /\ Kept(c) => CallerShows(c)

(* u is still to call v, or has called him.                                *)
Chain(u, v) == ListedIn(Wire(u), v) \/ CalledWith(u, v, Latest(u, v))

(* Of two users in the mesh with nothing of their own under way, one calls *)
(* the other or has called him.                                            *)
ChainInv ==
  \A u, v \in Uids : u # v /\ Firm(u) /\ Firm(v)
    => u \in crashed \/ v \in crashed \/ Chain(u, v) \/ Chain(v, u)

LEMMA FirmStep ==
  ASSUME ShapeInv, [MeshNext]_meshVars, NEW u \in Uids, Firm(u)'
  PROVE  Firm(u) \/ (ServeJoin /\ joining.uid = u)
<1>1. DOMAIN later = Uids /\ DOMAIN open = Uids /\ DOMAIN parting = Uids
  BY DEF ShapeInv, PagesTyped
<1>2. /\ open'[u] /\ u \notin silent' /\ parting'[u] = {} /\ u \in members' /\ leaving' # u
      /\ ~(joining' # None /\ joining'.uid = u)
      /\ \A t \in later'[u] : t[1] \notin {"join", "again"}
  BY DEF Firm, Due
<1>3. CASE UNCHANGED meshVars \/ Forward \/ Deliver
  <2>1. UNCHANGED <<open, silent, parting, members, leaving, joining, later>>
    BY <1>3 DEF meshVars, vars, table, requests, page, Forward, Deliver
  <2> QED
    BY <1>2, <2>1 DEF Firm, Due
<1>4. CASE ServeJoin
  <2>1. /\ UNCHANGED <<open, silent, parting, leaving, later>> /\ members' = members \cup {joining.uid}
    BY <1>4 DEF ServeJoin, Join, page
  <2> QED
    BY <1>2, <1>4, <2>1 DEF Firm, Due
<1>5. CASE ServeLeave
  <2>1. UNCHANGED <<open, silent, parting, joining, later>> /\ members' = members \ {leaving}
    BY <1>5 DEF ServeLeave, Leave, page
  <2> QED
    BY <1>2, <2>1 DEF Firm, Due
<1>6. ASSUME NEW r \in Uids, Rejoin(r)
      PROVE  Firm(u)
  <2>1. /\ UNCHANGED <<members, leaving, joining, open, parting>> /\ silent' = silent \ {r}
        /\ later' = [later EXCEPT ![r] = @ \cup {<<"leave", moves'>>, <<"again", moves'>>}]
    BY <1>6 DEF Rejoin, vars, table, requests
  <2>2. r # u
    <3>1. ASSUME r = u PROVE <<"again", moves'>> \in later'[u]
      BY <1>1, <2>1, <3>1
    <3> QED
      BY <1>2, <3>1
  <2> QED
    BY <1>1, <1>2, <2>1, <2>2 DEF Firm, Due
<1>7. ASSUME NEW r \in Uids, Receive(r)
      PROVE  Firm(u)
  <2>1. UNCHANGED <<members, leaving, joining, open, silent, parting>>
    BY <1>7 DEF Receive, vars, table, requests
  <2>2. later' = later \/ \E T : later' = [later EXCEPT ![r] = @ \cup T]
    BY <1>7 DEF Receive, peers, CallAll, BeCalled, BeAnswered
  <2>3. later[u] \subseteq later'[u]
    BY <1>1, <2>2
  <2> QED
    BY <1>2, <2>1, <2>3 DEF Firm, Due
<1>8. ASSUME NEW r \in Uids, Apply(r)
      PROVE  Firm(u)
  <2>1. UNCHANGED <<members, leaving, joining, open, silent, parting>>
        /\ \E t : t[1] = "apply" /\ later' = [later EXCEPT ![r] = @ \ {t}]
    BY <1>8 DEF Apply, vars, table, requests
  <2> QED
    BY <1>1, <1>2, <2>1 DEF Firm, Due
<1>9. ASSUME NEW r \in Uids, Close(r)
      PROVE  Firm(u)
  <2>1. UNCHANGED <<members, leaving, joining>> /\ silent' = silent \ {r}
        /\ open' = [open EXCEPT ![r] = FALSE] /\ later' = [later EXCEPT ![r] = {}]
        /\ \E T : parting' = [parting EXCEPT ![r] = @ \cup T]
    BY <1>9 DEF Close, vars, table, requests
  <2> QED
    BY <1>1, <1>2, <2>1 DEF Firm, Due
<1>10. ASSUME NEW r \in Uids, Open(r)
       PROVE  Firm(u)
  <2>1. UNCHANGED <<members, leaving, joining, parting>> /\ open' = [open EXCEPT ![r] = TRUE]
    BY <1>10 DEF Open, vars, table, requests
  <2>2. PICK T \in SUBSET {<<"join">>, <<"again", moves + 1>>} :
          /\ later' = [later EXCEPT ![r] = T]
          /\ silent' = IF T = {} THEN silent \cup {r} ELSE silent
    BY <1>10 DEF Open
  <2>3. r # u
    BY <1>1, <1>2, <2>2
  <2> QED
    BY <1>1, <1>2, <2>1, <2>2, <2>3 DEF Firm, Due
<1>11. ASSUME NEW r \in Uids, Handle(r)
       PROVE  Firm(u)
  <2>1. open' = open /\ silent' = silent
    BY <1>11 DEF Handle
  <2>2. ASSUME NEW m \in later[r], Pass(r, m, later[r] \ {m}),
               later' = [later EXCEPT ![r] = @ \ {m}], parting' = parting
        PROVE  Firm(u)
    <3>1. m \in Todo(r)
      BY DEF ShapeInv, PagesTyped
    <3>2. CASE m[1] \in {"join", "again"}
      <4>1. joining = None /\ joining' # None /\ joining'.uid = r /\ UNCHANGED <<members, leaving>>
        BY <2>2, <3>2, PassJoins
      <4> QED
        BY <1>1, <1>2, <2>1, <2>2, <4>1 DEF Firm, Due
    <3>3. CASE m[1] \notin {"join", "again"}
      <4>1. UNCHANGED <<members, joining>> /\ (leaving' = leaving \/ leaving = None)
        BY <2>2, <3>3, PassLeaves
      <4>2. None # u
        BY NoneAssumption
      <4>3. \A t \in later[u] : t \in later'[u] \/ t = m
        BY <1>1, <2>2
      <4> QED
        BY <1>2, <2>1, <2>2, <3>3, <4>1, <4>2, <4>3 DEF Firm, Due
    <3> QED
      BY <3>2, <3>3
  <2>3. ASSUME NEW t \in parting[r], Pass(r, t[2], RestOf(r, t)),
               parting' = [parting EXCEPT ![r] = @ \ {t}], later' = later
        PROVE  Firm(u)
    <3>1. \A x \in parting[r] : <<x[1], <<"gone">>>> \in parting[r] /\ x = <<x[1], x[2]>> /\ x[2] \in Sent(r)
      <4>1. \A x \in parting[r] : x \in Nat \X Sent(r) /\ <<x[1], <<"gone">>>> \in parting[r]
        BY DEF ShapeInv, PagesTyped
      <4> SUFFICES ASSUME NEW x \in parting[r]
                   PROVE  <<x[1], <<"gone">>>> \in parting[r] /\ x = <<x[1], x[2]>> /\ x[2] \in Sent(r)
        OBVIOUS
      <4>2. x \in Nat \X Sent(r)
        BY <4>1
      <4>3. x = <<x[1], x[2]>> /\ x[2] \in Sent(r)
        BY <4>2
      <4> QED
        BY <4>1, <4>3
    <3>2. t[2][1] = "gone" => t[2] = <<"gone">>
      BY <3>1, TodoCases
    <3>3. members' = members /\ (joining' = joining \/ joining = None)
      BY <2>3, PassJoins, PassLeaves
    <3>4. /\ leaving' = leaving \/ leaving = None
          /\ t[2][1] = "gone" => leaving' = r
      BY <2>3, PassJoins, PassLeaves
    <3>5. parting[u] = {}
      <4> SUFFICES ASSUME r = u, parting[r] = {t} PROVE FALSE
        BY <1>1, <1>2, <2>3
      <4>1. t[2][1] = "gone"
        BY <3>1
      <4> QED
        BY <1>2, <3>4, <4>1
    <3>6. None # u
      BY NoneAssumption
    <3> QED
      BY <1>2, <2>1, <2>3, <3>3, <3>4, <3>5, <3>6 DEF Firm, Due
  <2> QED
    BY <1>11, <2>2, <2>3, HandleTakes
<1> QED
  <2>1. ASSUME NEW r \in Uids, Rejoin(r) \/ Receive(r) \/ Apply(r) \/ Close(r) \/ Open(r) \/ Handle(r)
        PROVE  Firm(u)
    BY <1>6, <1>7, <1>8, <1>9, <1>10, <1>11, <2>1
  <2> QED
    BY <1>3, <1>4, <1>5, <2>1 DEF MeshNext

-----------------------------------------------------------------------------
(* What the steps do to what is written to a user.                         *)
LEMMA WireTyped ==
  ASSUME ShapeInv, NEW u \in Uids
  PROVE  Wire(u) \in Seq(Written(u))
  BY DEF Wire, ShapeInv, PagesTyped, WiresTyped

LEMMA WireOfDeliver ==
  ASSUME ShapeInv, NEW u \in Uids, Firm(u), Deliver
  PROVE  Wire(u)' = Wire(u)
<1>1. /\ toOne # None /\ toOne' = None
      /\ \/ inbox' = [inbox EXCEPT ![toOne[2]] = Append(@, toOne)]
         \/ (~open[toOne[2]] \/ parting[toOne[2]] # {}) /\ inbox' = inbox
  BY DEF Deliver
<1>2. DOMAIN inbox = Uids
  BY DEF ShapeInv, PagesTyped
<1> QED
  BY <1>1, <1>2 DEF Firm, Wire

LEMMA WireOfReceive ==
  ASSUME ShapeInv, NEW r \in Uids, Receive(r)
  PROVE  /\ Wire(r) # <<>> /\ Wire(r)[1] = inbox[r][1] /\ Wire(r)' = Tail(Wire(r))
         /\ \A u \in Uids : u # r => Wire(u)' = Wire(u)
<1>1. inbox[r] # <<>> /\ inbox' = [inbox EXCEPT ![r] = Tail(@)] /\ toOne' = toOne
  BY DEF Receive, wires
<1>2. DOMAIN inbox = Uids /\ inbox[r] \in Seq(Written(r))
  BY DEF ShapeInv, PagesTyped
<1>3. toOne # None /\ toOne[2] = r => toOne \in Written(r)
  BY DEF ShapeInv, WiresTyped
<1>4. ASSUME NEW S, NEW s \in Seq(S), NEW m \in S, s # <<>>
      PROVE  Append(s, m) # <<>> /\ Append(s, m)[1] = s[1] /\ Append(Tail(s), m) = Tail(Append(s, m))
  <2>1. PICK n \in Nat \ {0} : n = Len(s) /\ DOMAIN s = 1 .. n
    BY <1>4, TailOf
  <2>2. Append(s, m) # <<>> /\ Append(s, m)[1] = s[1]
    BY <1>4, <2>1
  <2>3. /\ Tail(s) \in Seq(S) /\ Append(Tail(s), m) \in Seq(S) /\ Tail(Append(s, m)) \in Seq(S)
        /\ Len(Append(Tail(s), m)) = n /\ Len(Tail(Append(s, m))) = n
    BY <1>4, <2>1
  <2>4. \A i \in 1 .. n : Append(Tail(s), m)[i] = Tail(Append(s, m))[i]
    BY <1>4, <2>1
  <2> QED
    BY <2>1, <2>2, <2>3, <2>4
<1>5. \A u \in Uids : u # r => Wire(u)' = Wire(u)
  BY <1>1, <1>2 DEF Wire
<1>6. CASE toOne # None /\ toOne[2] = r
  <2>1. Wire(r) = Append(inbox[r], toOne) /\ Wire(r)' = Append(Tail(inbox[r]), toOne)
    BY <1>1, <1>2, <1>6 DEF Wire
  <2> QED
    BY <1>1, <1>2, <1>3, <1>4, <1>5, <1>6, <2>1
<1>7. CASE ~(toOne # None /\ toOne[2] = r)
  BY <1>1, <1>2, <1>5, <1>7 DEF Wire
<1> QED
  BY <1>6, <1>7

-----------------------------------------------------------------------------
(* The calls between two users.                                            *)
LEMMA BetweenIs ==
  ASSUME NEW k, NEW u, NEW v, NEW e \in CallsIn(k, u, v)
  PROVE  e[1] = u /\ e[2] = v /\ e[3] \in DOMAIN k[u][v] /\ e = Call(u, v, e[3])
  BY DEF CallsIn, Call

LEMMA StateKept ==
  ASSUME NEW u, NEW v, calls'[u][v] = calls[u][v]
  PROVE  /\ CallsOf(u, v)' = CallsOf(u, v)
         /\ \A e \in CallsOf(u, v) : State(e)' = State(e)
         /\ Latest(u, v)' = Latest(u, v)
  BY DEF CallsOf, CallsIn, Call, State, Latest

(* A pair is kept together by a step that leaves its calls as they are,    *)
(* loses no offer, and no answer but to a call that is not listed.         *)
LEMMA ChainCarried ==
  ASSUME NEW p \in Uids, NEW q \in Uids,
         calls'[p][q] = calls[p][q], calls'[q][p] = calls[q][p],
         NoUsers(Wire(p)) => NoUsers(Wire(p))', NoUsers(Wire(q)) => NoUsers(Wire(q))',
         ListedIn(Wire(p), q) => ListedIn(Wire(p), q)',
         RenewedIn(Wire(q), p) => RenewedIn(Wire(q), p)',
         \A e \in CallsOf(p, q) \cup CallsOf(q, p) :
           /\ Kept(e)' = Kept(e)
           /\ OfferComes(e) => OfferComes(e)'
           /\ AnswerComes(e) /\ Kept(e) => AnswerComes(e)'
           /\ Shows(p, q, e) => Shows(p, q, e)'
           /\ Shows(q, p, e) => Shows(q, p, e)',
         Chain(p, q)
  PROVE  Chain(p, q)'
<1>0. PICK c : c = Latest(p, q)
  OBVIOUS
<1>1. /\ CallsOf(p, q)' = CallsOf(p, q) /\ CallsOf(q, p)' = CallsOf(q, p) /\ Latest(p, q)' = c
      /\ \A e \in CallsOf(p, q) \cup CallsOf(q, p) : State(e)' = State(e)
  BY <1>0, StateKept
<1>2. c[1] = p /\ c[2] = q
  BY <1>0 DEF Latest, Call
<1>3. \A e \in CallsOf(p, q) \cup CallsOf(q, p) :
        /\ Ended(e) => Ended(e)'
        /\ Settling(e) => Settling(e)'
  BY <1>1 DEF Ended, Settling
<1>4. ASSUME CalledWith(p, q, c)
      PROVE  CalledWith(p, q, c)'
  <2>1. c \in CallsOf(p, q)
    BY <1>4 DEF CalledWith
  <2>2. CalleeShows(c) => CalleeShows(c)'
    BY <1>1, <1>2, <1>3 DEF CalleeShows
  <2>3. CallerShows(c) => CallerShows(c)'
    BY <1>1, <1>2, <1>3, <2>1 DEF CallerShows
  <2>4. (OfferComes(c) => OfferComes(c)') /\ (AnswerComes(c) /\ Kept(c) => AnswerComes(c)') /\ State(c)' = State(c)
        /\ Kept(c)' = Kept(c)
    BY <1>1, <2>1
  <2>5. \A e \in CallsOf(p, q) : e # c => Ended(e)' \/ State(e)' = "over"
    BY <1>1, <1>3, <1>4 DEF CalledWith
  <2> QED
    BY <1>1, <1>4, <2>1, <2>2, <2>3, <2>4, <2>5 DEF CalledWith
<1> QED
  BY <1>0, <1>1, <1>4 DEF Chain

LEMMA BetweenAre ==
  ASSUME ShapeInv, NEW u \in Uids, NEW v \in Uids, NEW e \in CallsOf(u, v)
  PROVE  e \in CallNames /\ e \in Calls /\ e # None /\ State(e) \in CallStates
<1>1. e = <<u, v, e[3]>> /\ e[1] = u /\ e[2] = v /\ e[3] \in DOMAIN calls[u][v]
  BY BetweenIs DEF CallsOf, Call
<1>2. calls \in [Uids -> [Uids -> Seq(CallStates)]] /\ calls[u][v] \in Seq(CallStates)
  BY DEF ShapeInv, CallsTyped
<1>3. e[3] \in Nat \ {0} /\ calls[u][v][e[3]] \in CallStates
  BY <1>1, <1>2
<1>4. e \in CallNames
  BY <1>1, <1>3 DEF CallNames
<1>5. e \in Calls
  <2>1. e \in MadeIn(calls)
    BY <1>1, <1>2, <1>4, CallsAreMade
  <2> QED
    BY <2>1 DEF Calls, MadeIn, CallsIn
<1> QED
  BY <1>1, <1>3, <1>4, <1>5, NoneAssumption DEF State

(* A step that leaves the peers of both pages as they are.                 *)
LEMMA ChainMoved ==
  ASSUME ShapeInv, NEW p \in Uids, NEW q \in Uids,
         calls'[p][q] = calls[p][q], calls'[q][p] = calls[q][p],
         ref'[p] = ref[p], ref'[q] = ref[q], shown'[p] = shown[p], shown'[q] = shown[q],
         NoUsers(Wire(p)) => NoUsers(Wire(p))', NoUsers(Wire(q)) => NoUsers(Wire(q))',
         ListedIn(Wire(p), q) => ListedIn(Wire(p), q)',
         RenewedIn(Wire(q), p) => RenewedIn(Wire(q), p)',
         \A e \in CallsOf(p, q) \cup CallsOf(q, p) :
           (OfferComes(e) => OfferComes(e)') /\ (AnswerComes(e) /\ Kept(e) => AnswerComes(e)'),
         Chain(p, q)
  PROVE  Chain(p, q)'
<1>1. ASSUME NEW e \in CallsOf(p, q) \cup CallsOf(q, p)
      PROVE  /\ Kept(e)' = Kept(e)
             /\ Shows(p, q, e) => Shows(p, q, e)'
             /\ Shows(q, p, e) => Shows(q, p, e)'
  <2>1. e[1] \in {p, q}
    BY BetweenIs DEF CallsOf
  <2> QED
    BY <2>1 DEF Kept, Shows
<1> QED
  BY <1>1, ChainCarried

(* A message is put at the end of what is written to its user.             *)
LEMMA WireOfForward ==
  ASSUME ShapeInv, ShapeInv', Forward, NEW u \in Uids, NEW v, NEW c
  PROVE  /\ NoUsers(Wire(u)) => NoUsers(Wire(u))'
         /\ RenewedIn(Wire(u), v) => RenewedIn(Wire(u), v)'
         /\ ListedIn(Wire(u), v) => ListedIn(Wire(u), v)'
         /\ OfferIn(Wire(u), c) => OfferIn(Wire(u), c)'
         /\ AnswerIn(Wire(u), c) => AnswerIn(Wire(u), c)'
         /\ toOne' = <<"offer", c[2], c>> /\ c[2] = u => OfferIn(Wire(u), c)'
         /\ toOne' = <<"answer", c[1], c>> /\ c[1] = u => AnswerIn(Wire(u), c)'
<1>1. toOne = None /\ inbox' = inbox /\ toOne'[1] # "users"
  BY DEF Forward, page
<1>2. Wire(u) = inbox[u] /\ inbox[u] \in Seq(Written(u))
  BY <1>1 DEF Wire, ShapeInv, PagesTyped
<1>3. toOne' # None => toOne' \in Written(toOne'[2])
  BY DEF ShapeInv, WiresTyped
<1>4. toOne' # None
  <2>1. CASE sending # None /\ toOne' = <<"offer", sending[2], sending>>
    <3>1. sending \in CallNames /\ sending[2] \in Uids
      BY <2>1, CallsAre DEF ShapeInv, WiresTyped, CallsFrom
    <3>2. toOne' \in Messages
      BY <2>1, <3>1 DEF Messages
    <3> QED
      BY <3>2, NoneAssumption
  <2>2. CASE returning # None /\ toOne' = <<"answer", returning[1], returning>>
    <3>1. returning \in CallNames /\ returning[1] \in Uids
      BY <2>2, CallsAre DEF ShapeInv, WiresTyped, CallsTo
    <3>2. toOne' \in Messages
      BY <2>2, <3>1 DEF Messages
    <3> QED
      BY <3>2, NoneAssumption
  <2> QED
    BY <2>1, <2>2 DEF Forward
<1>5. CASE toOne'[2] = u
  <2>1. Wire(u)' = Append(Wire(u), toOne') /\ toOne' \in Written(u)
    BY <1>1, <1>2, <1>3, <1>4, <1>5 DEF Wire
  <2> DEFINE m == toOne'
             s == Wire(u)
             t == Append(s, m)
  <2>2. /\ NoUsers(s) => NoUsers(t)
        /\ RenewedIn(s, v) => RenewedIn(t, v)
        /\ ListedIn(s, v) => ListedIn(t, v)
        /\ OfferIn(s, c) => OfferIn(t, c)
        /\ AnswerIn(s, c) => AnswerIn(t, c)
        /\ m = <<"offer", c[2], c>> => OfferIn(t, c)
        /\ m = <<"answer", c[1], c>> => AnswerIn(t, c)
    BY <1>1, <1>2, <2>1, WireAppended
  <2>3. /\ NoUsers(Wire(u))' = NoUsers(t) /\ RenewedIn(Wire(u), v)' = RenewedIn(t, v)
        /\ ListedIn(Wire(u), v)' = ListedIn(t, v)
        /\ OfferIn(Wire(u), c)' = OfferIn(t, c) /\ AnswerIn(Wire(u), c)' = AnswerIn(t, c)
    BY <2>1 DEF NoUsers, RenewedIn, ListedIn, OfferIn, AnswerIn, NoUsersAfter
  <2> QED
    BY <2>2, <2>3
<1>6. CASE toOne'[2] # u
  <2>1. Wire(u)' = Wire(u)
    BY <1>1, <1>2, <1>6 DEF Wire
  <2>2. /\ NoUsers(Wire(u))' = NoUsers(Wire(u)) /\ RenewedIn(Wire(u), v)' = RenewedIn(Wire(u), v)
        /\ ListedIn(Wire(u), v)' = ListedIn(Wire(u), v)
        /\ OfferIn(Wire(u), c)' = OfferIn(Wire(u), c) /\ AnswerIn(Wire(u), c)' = AnswerIn(Wire(u), c)
    BY <2>1 DEF NoUsers, RenewedIn, ListedIn, OfferIn, AnswerIn, NoUsersAfter
  <2> QED
    BY <1>6, <2>2
<1> QED
  BY <1>5, <1>6

LEMMA ComesOfForward ==
  ASSUME ShapeInv, ShapeInv', NEW c \in CallNames, Forward
  PROVE  (OfferComes(c) => OfferComes(c)') /\ (AnswerComes(c) => AnswerComes(c)')
<1>1. c[1] \in Uids /\ c[2] \in Uids /\ c # None
  BY CallsAre, NoneAssumption
<1>2. /\ OfferIn(Wire(c[2]), c) => OfferIn(Wire(c[2]), c)'
      /\ AnswerIn(Wire(c[1]), c) => AnswerIn(Wire(c[1]), c)'
      /\ toOne' = <<"offer", c[2], c>> => OfferIn(Wire(c[2]), c)'
      /\ toOne' = <<"answer", c[1], c>> => AnswerIn(Wire(c[1]), c)'
  BY <1>1, WireOfForward
<1>3. /\ later' = later
      /\ sending = c => sending' = c \/ toOne' = <<"offer", c[2], c>>
      /\ returning = c => returning' = c \/ toOne' = <<"answer", c[1], c>>
  BY DEF Forward, page
<1> QED
  BY <1>2, <1>3 DEF OfferComes, AnswerComes

LEMMA ComesOfHandle ==
  ASSUME ShapeInv, NEW c \in CallNames, NEW r \in Uids, Handle(r)
  PROVE  (OfferComes(c) => OfferComes(c)') /\ (AnswerComes(c) => AnswerComes(c)')
<1>1. c[1] \in Uids /\ c[2] \in Uids /\ c # None
  BY CallsAre, NoneAssumption
<1>2. DOMAIN later = Uids
  BY DEF ShapeInv, PagesTyped
<1>3. ASSUME NEW m, NEW rest, Pass(r, m, rest),
             later' = later \/ later' = [later EXCEPT ![r] = @ \ {m}]
      PROVE  (OfferComes(c) => OfferComes(c)') /\ (AnswerComes(c) => AnswerComes(c)')
  <2>1. /\ sending = c => sending' = c
        /\ m = <<"offer", c>> => sending' = c
        /\ returning = c => returning' = c
        /\ m = <<"answer", c>> => returning' = c
        /\ m # <<"apply", c>>
    BY <1>1, <1>3, PassSignals
  <2>2. \A t : t # m => (t \in later[c[1]] => t \in later'[c[1]]) /\ (t \in later[c[2]] => t \in later'[c[2]])
    BY <1>1, <1>2, <1>3
  <2>3. /\ OfferIn(Wire(c[2]), c)' = OfferIn(Wire(c[2]), c)
        /\ AnswerIn(Wire(c[1]), c)' = AnswerIn(Wire(c[1]), c)
    <3>1. inbox' = inbox /\ toOne' = toOne
      BY <1>3, PassTakes DEF Handle
    <3> QED
      BY <3>1 DEF Wire, OfferIn, AnswerIn, NoUsersAfter
  <2> QED
    BY <2>1, <2>2, <2>3 DEF OfferComes, AnswerComes
<1> QED
  BY <1>3, HandleTakes

(* What the messages written to a user say is the same when they are.      *)
LEMMA WireSame ==
  ASSUME NEW u, Wire(u)' = Wire(u), NEW v, NEW c
  PROVE  /\ NoUsers(Wire(u))' = NoUsers(Wire(u)) /\ RenewedIn(Wire(u), v)' = RenewedIn(Wire(u), v)
         /\ ListedIn(Wire(u), v)' = ListedIn(Wire(u), v)
         /\ OfferIn(Wire(u), c)' = OfferIn(Wire(u), c) /\ AnswerIn(Wire(u), c)' = AnswerIn(Wire(u), c)
  BY DEF NoUsers, RenewedIn, ListedIn, OfferIn, AnswerIn, NoUsersAfter

(* A step that changes nothing of two pages.                               *)
LEMMA ChainUntouched ==
  ASSUME ShapeInv, NEW p \in Uids, NEW q \in Uids,
         calls'[p][q] = calls[p][q], calls'[q][p] = calls[q][p],
         ref'[p] = ref[p], ref'[q] = ref[q], shown'[p] = shown[p], shown'[q] = shown[q],
         later'[p] = later[p], later'[q] = later[q], sending' = sending, returning' = returning,
         Wire(p)' = Wire(p), Wire(q)' = Wire(q), Chain(p, q)
  PROVE  Chain(p, q)'
<1>1. ASSUME NEW e \in CallsOf(p, q) \cup CallsOf(q, p)
      PROVE  OfferComes(e)' = OfferComes(e) /\ AnswerComes(e)' = AnswerComes(e)
  <2>1. e[1] \in {p, q} /\ e[2] \in {p, q}
    BY BetweenIs DEF CallsOf
  <2>2. OfferIn(Wire(e[2]), e)' = OfferIn(Wire(e[2]), e) /\ AnswerIn(Wire(e[1]), e)' = AnswerIn(Wire(e[1]), e)
    <3>1. Wire(e[1])' = Wire(e[1]) /\ Wire(e[2])' = Wire(e[2])
      BY <2>1
    <3> QED
      BY <3>1, WireSame
  <2> QED
    BY <2>1, <2>2 DEF OfferComes, AnswerComes
<1>2. /\ NoUsers(Wire(p))' = NoUsers(Wire(p)) /\ NoUsers(Wire(q))' = NoUsers(Wire(q))
      /\ ListedIn(Wire(p), q)' = ListedIn(Wire(p), q) /\ RenewedIn(Wire(q), p)' = RenewedIn(Wire(q), p)
  BY WireSame
<1> QED
  BY <1>1, <1>2, ChainMoved

(* The steps of the server, and those of other pages.                      *)
LEMMA ChainOfServer ==
  ASSUME ShapeInv, ShapeInv', NEW p \in Uids, NEW q \in Uids, p # q, Firm(p), Firm(q),
         \/ UNCHANGED meshVars \/ ServeLeave \/ Forward \/ Deliver
         \/ ServeJoin /\ joining.uid \notin {p, q}
         \/ \E r \in Uids : Handle(r),
         Chain(p, q)
  PROVE  Chain(p, q)'
<1>1. UNCHANGED peers
  BY DEF meshVars, ServeLeave, Forward, Deliver, ServeJoin, Handle
<1>2. /\ calls'[p][q] = calls[p][q] /\ calls'[q][p] = calls[q][p]
      /\ ref'[p] = ref[p] /\ ref'[q] = ref[q] /\ shown'[p] = shown[p] /\ shown'[q] = shown[q]
  BY <1>1 DEF peers
<1>3. CASE UNCHANGED meshVars \/ ServeLeave
  <2>1. UNCHANGED <<later, inbox, sending, returning, toOne>>
    BY <1>3 DEF meshVars, page, wires, ServeLeave
  <2>2. Wire(p)' = Wire(p) /\ Wire(q)' = Wire(q)
    BY <2>1 DEF Wire
  <2> QED
    BY <1>2, <2>1, <2>2, ChainUntouched
<1>4. CASE Deliver
  <2>1. UNCHANGED <<later, sending, returning>>
    BY <1>4 DEF Deliver
  <2>2. Wire(p)' = Wire(p) /\ Wire(q)' = Wire(q)
    BY <1>4, WireOfDeliver
  <2> QED
    BY <1>2, <2>1, <2>2, ChainUntouched
<1>5. CASE ServeJoin /\ joining.uid \notin {p, q}
  <2>1. UNCHANGED <<later, inbox, sending, returning>> /\ toOne = None /\ toOne'[2] = joining.uid
    BY <1>5 DEF ServeJoin, page
  <2>2. Wire(p)' = Wire(p) /\ Wire(q)' = Wire(q)
    BY <1>5, <2>1 DEF Wire
  <2> QED
    BY <1>2, <2>1, <2>2, ChainUntouched
<1>6. ASSUME NEW e \in CallsOf(p, q) \cup CallsOf(q, p)
      PROVE  e \in CallNames
  BY BetweenAre
<1>7. CASE Forward
  <2>1. /\ NoUsers(Wire(p)) => NoUsers(Wire(p))'
        /\ NoUsers(Wire(q)) => NoUsers(Wire(q))'
        /\ ListedIn(Wire(p), q) => ListedIn(Wire(p), q)'
        /\ RenewedIn(Wire(q), p) => RenewedIn(Wire(q), p)'
    BY <1>7, WireOfForward
  <2> QED
    BY <1>2, <1>6, <1>7, <2>1, ComesOfForward, ChainMoved
<1>8. ASSUME NEW r \in Uids, Handle(r)
      PROVE  Chain(p, q)'
  <2>1. inbox' = inbox /\ toOne' = toOne
    BY <1>8, PassTakes DEF Handle
  <2>2. Wire(p)' = Wire(p) /\ Wire(q)' = Wire(q)
    BY <2>1 DEF Wire
  <2>3. /\ NoUsers(Wire(p))' = NoUsers(Wire(p)) /\ NoUsers(Wire(q))' = NoUsers(Wire(q))
        /\ ListedIn(Wire(p), q)' = ListedIn(Wire(p), q) /\ RenewedIn(Wire(q), p)' = RenewedIn(Wire(q), p)
    BY <2>2, WireSame
  <2> QED
    BY <1>2, <1>6, <1>8, <2>3, ComesOfHandle, ChainMoved
<1> QED
  BY <1>3, <1>4, <1>5, <1>7, <1>8

(* A call between two other users is left alone by what a page does.       *)
LEMMA CallsElsewhere ==
  ASSUME ShapeInv, NEW r \in Uids, NEW p \in Uids \ {r}, NEW q \in Uids \ {r},
         Receive(r) \/ Apply(r) \/ Close(r)
  PROVE  calls'[p][q] = calls[p][q]
<1>1. ASSUME NEW d \in CallsFrom(r) \cup CallsTo(r), NEW s, SetState(d, s)
      PROVE  calls'[p][q] = calls[p][q]
  BY <1>1 DEF SetState, CallsFrom, CallsTo, CallNames, ShapeInv, CallsTyped
<1>2. ASSUME Receive(r)
      PROVE  calls'[p][q] = calls[p][q]
  <2>1. ASSUME NEW L, NEW last, CallAll(r, L, last)
        PROVE  calls'[p][q] = calls[p][q]
    BY <2>1 DEF CallAll
  <2>2. ASSUME NEW c \in CallsTo(r), BeCalled(r, c)
        PROVE  calls'[p][q] = calls[p][q]
    BY <1>1, <2>2 DEF BeCalled
  <2>3. ASSUME NEW c, BeAnswered(r, c)
        PROVE  calls'[p][q] = calls[p][q]
    BY <2>3 DEF BeAnswered
  <2> QED
    BY <1>2, <2>1, <2>2, <2>3, ReceiveCases DEF ShapeInv, peers
<1>3. ASSUME Apply(r)
      PROVE  calls'[p][q] = calls[p][q]
  <2>1. \/ calls' = calls
        \/ \E i \in DOMAIN ref[r] : \E s : SetState(ref[r][i][2], s)
    BY <1>3, ApplyEffect DEF ShapeInv
  <2>2. ASSUME NEW i \in DOMAIN ref[r]
        PROVE  ref[r][i][2] \in CallsFrom(r) \cup CallsTo(r)
    <3>1. ref[r] \in Seq(Peers(r))
      BY DEF ShapeInv, PeersTyped, PeersOf
    <3>2. ref[r][i] \in Peers(r)
      BY <3>1
    <3> QED
      BY <3>2 DEF Peers
  <2> QED
    BY <1>1, <2>1, <2>2
<1> QED
  BY <1>2, <1>3, CloseEffect DEF ShapeInv

LEMMA ChainOfOthers ==
  ASSUME ShapeInv, NEW p \in Uids, NEW q \in Uids, p # q, NEW r \in Uids, r \notin {p, q},
         Rejoin(r) \/ Open(r) \/ Receive(r) \/ Apply(r) \/ Close(r),
         Chain(p, q)
  PROVE  Chain(p, q)'
<1>1. /\ sending' = sending /\ returning' = returning /\ toOne' = toOne
      /\ inbox'[p] = inbox[p] /\ inbox'[q] = inbox[q]
  BY DEF Rejoin, Open, Receive, Apply, Close, wires, ShapeInv, PagesTyped
<1>2. Wire(p)' = Wire(p) /\ Wire(q)' = Wire(q)
  BY <1>1 DEF Wire
<1>3. later'[p] = later[p] /\ later'[q] = later[q]
  BY DEF Rejoin, Open, Receive, Apply, Close, CallAll, BeCalled, BeAnswered, peers, ShapeInv, PagesTyped
<1>4. ref'[p] = ref[p] /\ ref'[q] = ref[q] /\ shown'[p] = shown[p] /\ shown'[q] = shown[q]
  BY DEF Rejoin, Open, Receive, Apply, Close, CallAll, BeCalled, BeAnswered, peers, ShapeInv, PeersTyped
<1>5. calls'[p][q] = calls[p][q] /\ calls'[q][p] = calls[q][p]
  <2>1. CASE Rejoin(r) \/ Open(r)
    BY <2>1 DEF Rejoin, Open, peers
  <2>2. CASE Receive(r) \/ Apply(r) \/ Close(r)
    BY <2>2, CallsElsewhere
  <2> QED
    BY <2>1, <2>2
<1> QED
  BY <1>1, <1>2, <1>3, <1>4, <1>5, ChainUntouched

-----------------------------------------------------------------------------
(* A page handles a message.                                               *)

(* The message handled is the first of those written to the user.          *)
LEMMA WireAfterReceive ==
  ASSUME ShapeInv, NEW r \in Uids, Receive(r), NEW v, NEW c
  PROVE  LET m == inbox[r][1] IN
         /\ NoUsers(Wire(r)) => NoUsers(Wire(r))' /\ m[1] # "users"
         /\ RenewedIn(Wire(r), v) => RenewedIn(Wire(r), v)' \/ Lists(m, v)
         /\ ListedIn(Wire(r), v) => ListedIn(Wire(r), v)' \/ (Lists(m, v) /\ NoUsers(Wire(r))')
         /\ OfferIn(Wire(r), c) => OfferIn(Wire(r), c)' \/ (m = <<"offer", c[2], c>> /\ NoUsers(Wire(r))')
         /\ AnswerIn(Wire(r), c) => AnswerIn(Wire(r), c)' \/ m = <<"answer", c[1], c>>
<1> DEFINE m == inbox[r][1]
           s == Wire(r)
           t == Tail(s)
<1>1. s # <<>> /\ s[1] = m /\ Wire(r)' = t
  BY WireOfReceive
<1>2. s \in Seq(Written(r))
  BY WireTyped
<1>3. /\ NoUsers(s) => NoUsers(t) /\ m[1] # "users"
      /\ RenewedIn(s, v) => RenewedIn(t, v) \/ Lists(m, v)
      /\ ListedIn(s, v) => ListedIn(t, v) \/ (Lists(m, v) /\ NoUsers(t))
      /\ OfferIn(s, c) => OfferIn(t, c) \/ (m = <<"offer", c[2], c>> /\ NoUsers(t))
      /\ AnswerIn(s, c) => AnswerIn(t, c) \/ m = <<"answer", c[1], c>>
  BY <1>1, <1>2, WireTaken
<1>4. /\ NoUsers(Wire(r))' = NoUsers(t) /\ RenewedIn(Wire(r), v)' = RenewedIn(t, v)
      /\ ListedIn(Wire(r), v)' = ListedIn(t, v)
      /\ OfferIn(Wire(r), c)' = OfferIn(t, c) /\ AnswerIn(Wire(r), c)' = AnswerIn(t, c)
  BY <1>1 DEF NoUsers, RenewedIn, ListedIn, OfferIn, AnswerIn, NoUsersAfter
<1> QED
  BY <1>3, <1>4

LEMMA WireOfAnother ==
  ASSUME ShapeInv, NEW r \in Uids, Receive(r), NEW u \in Uids, u # r, NEW v, NEW c
  PROVE  /\ NoUsers(Wire(u))' = NoUsers(Wire(u)) /\ RenewedIn(Wire(u), v)' = RenewedIn(Wire(u), v)
         /\ ListedIn(Wire(u), v)' = ListedIn(Wire(u), v)
         /\ OfferIn(Wire(u), c)' = OfferIn(Wire(u), c) /\ AnswerIn(Wire(u), c)' = AnswerIn(Wire(u), c)
  BY WireOfReceive, WireSame

LEMMA ReceiveGrows ==
  ASSUME ShapeInv, NEW r \in Uids, Receive(r), NEW u \in Uids
  PROVE  later[u] \subseteq later'[u]
<1>1. later' = later \/ \E T : later' = [later EXCEPT ![r] = @ \cup T]
  BY DEF Receive, peers, CallAll, BeCalled, BeAnswered
<1> QED
  BY <1>1 DEF ShapeInv, PagesTyped

LEMMA ComesOfReceive ==
  ASSUME ShapeInv, NEW r \in Uids, Receive(r), NEW c \in CallNames
  PROVE  LET m == inbox[r][1] IN
         /\ OfferComes(c) => \/ OfferComes(c)'
                             \/ c[2] = r /\ m = <<"offer", c[2], c>> /\ NoUsers(Wire(r))'
         /\ AnswerComes(c) => \/ AnswerComes(c)'
                              \/ c[1] = r /\ m = <<"answer", c[1], c>>
<1> DEFINE m == inbox[r][1]
<1>1. c[1] \in Uids /\ c[2] \in Uids
  BY CallsAre
<1>2. later[c[1]] \subseteq later'[c[1]] /\ later[c[2]] \subseteq later'[c[2]]
  BY <1>1, ReceiveGrows
<1>3. sending' = sending /\ returning' = returning
  BY DEF Receive, wires
<1>4. OfferIn(Wire(c[2]), c) => \/ OfferIn(Wire(c[2]), c)'
                                \/ c[2] = r /\ m = <<"offer", c[2], c>> /\ NoUsers(Wire(r))'
  <2>1. CASE c[2] = r
    <3>1. OfferIn(Wire(r), c) => OfferIn(Wire(r), c)' \/ (m = <<"offer", c[2], c>> /\ NoUsers(Wire(r))')
      BY WireAfterReceive
    <3>2. OfferIn(Wire(c[2]), c) = OfferIn(Wire(r), c) /\ OfferIn(Wire(c[2]), c)' = OfferIn(Wire(r), c)'
      BY <2>1
    <3> QED
      BY <2>1, <3>1, <3>2
  <2>2. CASE c[2] # r
    BY <1>1, <2>2, WireOfAnother
  <2> QED
    BY <2>1, <2>2
<1>5. AnswerIn(Wire(c[1]), c) => AnswerIn(Wire(c[1]), c)' \/ (c[1] = r /\ m = <<"answer", c[1], c>>)
  <2>1. CASE c[1] = r
    <3>1. AnswerIn(Wire(r), c) => AnswerIn(Wire(r), c)' \/ m = <<"answer", c[1], c>>
      BY WireAfterReceive
    <3>2. AnswerIn(Wire(c[1]), c) = AnswerIn(Wire(r), c) /\ AnswerIn(Wire(c[1]), c)' = AnswerIn(Wire(r), c)'
      BY <2>1
    <3> QED
      BY <2>1, <3>1, <3>2
  <2>2. CASE c[1] # r
    BY <1>1, <2>2, WireOfAnother
  <2> QED
    BY <2>1, <2>2
<1> HIDE DEF m
<1>6. OfferComes(c) => \/ OfferComes(c)'
                       \/ c[2] = r /\ m = <<"offer", c[2], c>> /\ NoUsers(Wire(r))'
  BY <1>2, <1>3, <1>4 DEF OfferComes
<1>7. AnswerComes(c) => \/ AnswerComes(c)'
                        \/ c[1] = r /\ m = <<"answer", c[1], c>>
  BY <1>2, <1>3, <1>5 DEF AnswerComes
<1> QED
  BY <1>6, <1>7 DEF m

(* What a page does with the offer of a call.                              *)
LEMMA BeCalledCalls ==
  ASSUME ShapeInv, NEW u \in Uids, NEW d \in CallsTo(u), BeCalled(u, d), NEW v \in Uids, NEW w \in Uids
  PROVE  /\ CallsOf(v, w)' = CallsOf(v, w) /\ Latest(v, w)' = Latest(v, w)
         /\ \A e \in CallsOf(v, w) :
              State(e)' = IF e = d THEN IF State(d) = "called" THEN "answered"
                                        ELSE IF State(d) = "over" THEN "late" ELSE State(d)
                          ELSE State(e)
<1> DEFINE s == IF State(d) = "called" THEN "answered" ELSE IF State(d) = "over" THEN "late" ELSE State(d)
<1>1. d \in CallNames /\ d[1] \in Uids /\ d[2] \in Uids /\ d = <<d[1], d[2], d[3]>>
  BY CallsAre DEF CallsTo
<1>2. SetState(d, s)
  BY DEF BeCalled
<1>3. d[3] \in DOMAIN calls[d[1]][d[2]] => s \in CallStates
  <2>1. calls[d[1]][d[2]] \in Seq(CallStates)
    BY <1>1 DEF ShapeInv, CallsTyped
  <2>2. d[3] \in DOMAIN calls[d[1]][d[2]] => State(d) \in CallStates
    BY <2>1 DEF State
  <2> QED
    BY <2>2 DEF CallStates
<1> HIDE DEF s
<1>4. /\ CallsTyped'
      /\ \A x, y \in Uids : DOMAIN calls'[x][y] = DOMAIN calls[x][y]
      /\ \A x, y \in Uids : \A n \in DOMAIN calls[x][y] :
           calls'[x][y][n] = IF x = d[1] /\ y = d[2] /\ n = d[3] THEN s ELSE calls[x][y][n]
  BY <1>1, <1>2, <1>3, SetStateEffect DEF ShapeInv
<1>5. CallsOf(v, w)' = CallsOf(v, w)
  BY <1>4 DEF CallsOf, CallsIn, Call
<1>6. Latest(v, w)' = Latest(v, w)
  <2>1. calls[v][w] \in Seq(CallStates) /\ calls'[v][w] \in Seq(CallStates) /\ DOMAIN calls'[v][w] = DOMAIN calls[v][w]
    BY <1>4 DEF ShapeInv, CallsTyped
  <2>2. Len(calls'[v][w]) = Len(calls[v][w])
    BY <2>1
  <2> QED
    BY <2>2 DEF Latest, Call
<1>7. ASSUME NEW e \in CallsOf(v, w)
      PROVE  State(e)' = IF e = d THEN s ELSE State(e)
  <2>1. e = <<v, w, e[3]>> /\ e[1] = v /\ e[2] = w /\ e[3] \in DOMAIN calls[v][w]
    BY BetweenIs DEF CallsOf, Call
  <2>2. e = d <=> v = d[1] /\ w = d[2] /\ e[3] = d[3]
    BY <1>1, <2>1
  <2> QED
    BY <1>4, <2>1, <2>2 DEF State
<1> QED
  BY <1>5, <1>6, <1>7 DEF s

LEMMA BeCalledLists ==
  ASSUME ShapeInv, NEW u \in Uids, NEW d \in CallsTo(u), BeCalled(u, d), NEW e \in CallNames, NEW v \in Uids, NEW w
  PROVE  /\ Kept(e)' = Kept(e)
         /\ ~(v = u /\ w = d[1]) => Shows(v, w, e)' = Shows(v, w, e)
         /\ Shows(u, d[1], d)'
<1>1. /\ ref' = [ref EXCEPT ![u] = Append(@, <<d[1], d>>)]
      /\ shown' = [shown EXCEPT ![u] = [x \in DOMAIN @ \cup {d[1]} |-> IF x = d[1] THEN d ELSE @[x]]]
  BY DEF BeCalled
<1>2. DOMAIN ref = Uids /\ DOMAIN shown = Uids /\ ref[u] \in Seq(Peers(u))
  BY DEF ShapeInv, PeersTyped, PeersOf
<1>3. <<d[1], d>> \in Peers(u) /\ d[1] # u /\ (e[1] = u => e # d)
  BY DEF Peers, CallsTo, CallNames
<1>4. e[1] \in Uids
  BY CallsAre
<1>5. Kept(e)' = Kept(e)
  <2>1. PICK n \in Nat : DOMAIN ref[u] = 1 .. n
    BY <1>2
  <2>2. DOMAIN ref'[u] = 1 .. n + 1 /\ ref'[u][n + 1] = <<d[1], d>> /\ \A i \in 1 .. n : ref'[u][i] = ref[u][i]
    BY <1>1, <1>2, <1>3, <2>1
  <2>3. (\A i \in 1 .. n + 1 : i = n + 1 \/ i \in 1 .. n) /\ \A i \in 1 .. n : i \in 1 .. n + 1
    BY <2>1
  <2>4. \A x \in Uids : x # u => ref'[x] = ref[x]
    BY <1>1, <1>2
  <2>5. CASE e[1] = u
    <3>1. ref'[u][n + 1][2] # e
      BY <1>3, <2>2, <2>5
    <3>2. (\E i \in DOMAIN ref'[u] : ref'[u][i][2] = e) <=> (\E i \in DOMAIN ref[u] : ref[u][i][2] = e)
      BY <2>1, <2>2, <2>3, <3>1
    <3> QED
      BY <2>5, <3>2 DEF Kept
  <2>6. CASE e[1] # u
    BY <1>4, <2>4, <2>6 DEF Kept
  <2> QED
    BY <2>5, <2>6
<1>6. ~(v = u /\ w = d[1]) => Shows(v, w, e)' = Shows(v, w, e)
  BY <1>1, <1>2 DEF Shows
<1>7. Shows(u, d[1], d)'
  BY <1>1, <1>2 DEF Shows
<1> QED
  BY <1>5, <1>6, <1>7

(* A call stays the one that keeps two pages together.                     *)
LEMMA CalledKept ==
  ASSUME NEW p \in Uids, NEW q \in Uids, NEW c, c[1] = p, c[2] = q,
         CallsOf(p, q)' = CallsOf(p, q), State(c)' = State(c),
         \A e \in CallsOf(p, q) : e # c /\ (Ended(e) \/ State(e) = "over") => Ended(e)' \/ State(e)' = "over",
         NoUsers(Wire(p)) => NoUsers(Wire(p))', NoUsers(Wire(q)) => NoUsers(Wire(q))',
         Kept(c)' = Kept(c),
         OfferComes(c) => OfferComes(c)', Kept(c) /\ AnswerComes(c) => AnswerComes(c)',
         CalleeShows(c) => CalleeShows(c)',
         Kept(c) /\ CallerShows(c) => CallerShows(c)',
         CalledWith(p, q, c)
  PROVE  CalledWith(p, q, c)'
<1>1. \A e \in CallsOf(p, q) : e # c => Ended(e)' \/ State(e)' = "over"
  BY DEF CalledWith
<1> QED
  BY <1>1 DEF CalledWith

LEMMA CallerShowsKept ==
  ASSUME NEW p \in Uids, NEW q \in Uids, NEW c, c[1] = p, c[2] = q,
         CallsOf(q, p) \subseteq CallsOf(q, p)',
         RenewedIn(Wire(q), p) => RenewedIn(Wire(q), p)',
         Shows(p, q, c) => Shows(p, q, c)',
         \A e \in CallsOf(q, p) : /\ OfferComes(e) => OfferComes(e)'
                                  /\ Shows(p, q, e) => Shows(p, q, e)'
                                  /\ Settling(e) => Settling(e)',
         CallerShows(c)
  PROVE  CallerShows(c)'
  BY DEF CallerShows

LEMMA CalleeShowsKept ==
  ASSUME NEW p \in Uids, NEW q \in Uids, NEW c, c[1] = p, c[2] = q,
         CallsOf(p, q)' = CallsOf(p, q),
         \A e \in CallsOf(p, q) : /\ Shows(q, p, e) => Shows(q, p, e)'
                                  /\ Ended(e) => Ended(e)',
         CalleeShows(c)
  PROVE  CalleeShows(c)'
  BY DEF CalleeShows

(* A call that was offered is answered, or was already, or comes late.     *)
LEMMA OfferedStates ==
  ASSUME ShapeInv, NEW u \in Uids, NEW d \in CallsTo(u), d \in CallsOf(d[1], u), BeCalled(u, d)
  PROVE  /\ State(d)' \in {"answered", "connected", "stale", "late"}
         /\ State(d)' = "connected" => State(d) = "connected"
         /\ Ended(d) \/ State(d) = "over" => Ended(d)'
         /\ <<"answer", d>> \in later'[u]
<1>1. d[1] \in Uids /\ State(d) \in CallStates
  <2>1. d[1] \in Uids
    BY DEF CallsTo, CallNames
  <2> QED
    BY <2>1, BetweenAre
<1>2. State(d)' = IF State(d) = "called" THEN "answered" ELSE IF State(d) = "over" THEN "late" ELSE State(d)
  BY <1>1, BeCalledCalls
<1>3. <<"answer", d>> \in later'[u]
  BY DEF BeCalled, ShapeInv, PagesTyped
<1> QED
  BY <1>1, <1>2, <1>3 DEF CallStates, Ended

(* One of two pages handles the offer of a call of the other.              *)
LEMMA SettlingAfterCalled ==
  ASSUME ShapeInv, NEW u \in Uids, NEW d \in CallsTo(u), d \in CallsOf(d[1], u), BeCalled(u, d)
  PROVE  Settling(d)'
<1>1. d[2] = u
  BY DEF CallsTo
<1>2. AnswerComes(d)'
  BY <1>1, OfferedStates DEF AnswerComes
<1> QED
  BY <1>2, OfferedStates DEF Settling, Ended

LEMMA CallerIsCalled ==
  ASSUME ShapeInv, NEW p \in Uids, NEW q \in Uids, p # q, Receive(p),
         NEW d \in CallsTo(p), d \in CallsOf(d[1], p), inbox[p][1] = <<"offer", p, d>>, BeCalled(p, d),
         Chain(p, q)
  PROVE  Chain(p, q)'
<1>1. PICK c : c = Latest(p, q)
  OBVIOUS
<1>2. c[1] = p /\ c[2] = q /\ d[1] # p /\ d[2] = p /\ d[1] \in Uids
  BY <1>1, CallsAre DEF Latest, Call, CallsTo
<1>3. /\ NoUsers(Wire(p)) => NoUsers(Wire(p))'
      /\ ListedIn(Wire(p), q) => ListedIn(Wire(p), q)'
  BY WireAfterReceive DEF Lists
<1>4. /\ NoUsers(Wire(q))' = NoUsers(Wire(q)) /\ RenewedIn(Wire(q), p)' = RenewedIn(Wire(q), p)
  BY WireOfAnother
<1>5. ASSUME NEW e \in CallNames
      PROVE  /\ OfferComes(e) /\ e # d => OfferComes(e)'
             /\ AnswerComes(e) => AnswerComes(e)'
             /\ Kept(e)' = Kept(e)
             /\ d[1] # q => Shows(p, q, e)' = Shows(p, q, e)
             /\ Shows(q, p, e)' = Shows(q, p, e)
  <2>1. inbox[p][1] # <<"answer", e[1], e>> /\ (e # d => inbox[p][1] # <<"offer", e[2], e>>)
    OBVIOUS
  <2>2. (OfferComes(e) /\ e # d => OfferComes(e)') /\ (AnswerComes(e) => AnswerComes(e)')
    BY <2>1, ComesOfReceive
  <2> QED
    BY <1>2, <2>2, BeCalledLists
<1>6. \A e \in CallsOf(p, q) \cup CallsOf(q, p) : e \in CallNames
  BY BetweenAre
<1>7. /\ CallsOf(p, q)' = CallsOf(p, q) /\ Latest(p, q)' = c /\ CallsOf(q, p)' = CallsOf(q, p)
      /\ \A e \in CallsOf(p, q) : e # d /\ State(e)' = State(e)
      /\ \A e \in CallsOf(q, p) : e # d => State(e)' = State(e)
  <2>1. \A e \in CallsOf(p, q) : e # d
    BY <1>2, BetweenIs DEF CallsOf
  <2> QED
    BY <1>1, <2>1, BeCalledCalls
<1>8. ASSUME CalledWith(p, q, c)
      PROVE  CalledWith(p, q, c)'
  <2>1. c \in CallsOf(p, q) /\ c \in CallNames
    BY <1>6, <1>8 DEF CalledWith
  <2>2. CalleeShows(c) => CalleeShows(c)'
    <3>1. \A e \in CallsOf(p, q) : (Shows(q, p, e) => Shows(q, p, e)') /\ (Ended(e) => Ended(e)')
      BY <1>5, <1>6, <1>7 DEF Ended
    <3> QED
      BY <1>2, <1>7, <3>1, CalleeShowsKept
  <2>3. CallerShows(c) => CallerShows(c)'
    <3>1. CASE d[1] = q
      <4>1. d \in CallsOf(q, p)' /\ Shows(p, q, d)'
        BY <1>2, <1>5, <1>7, <2>1, <3>1, BeCalledLists
      <4>2. Settling(d)'
        BY SettlingAfterCalled
      <4> QED
        BY <1>2, <4>1, <4>2 DEF CallerShows
    <3>2. CASE d[1] # q
      <4>1. \A e \in CallsOf(q, p) : e # d
        BY <1>2, <3>2, BetweenIs DEF CallsOf
      <4>2. \A e \in CallsOf(q, p) : /\ OfferComes(e) => OfferComes(e)'
                                     /\ Shows(p, q, e) => Shows(p, q, e)'
                                     /\ Settling(e) => Settling(e)'
        BY <1>5, <1>6, <1>7, <3>2, <4>1 DEF Settling, Ended
      <4>3. Shows(p, q, c) => Shows(p, q, c)'
        BY <1>5, <2>1, <3>2
      <4> QED
        BY <1>2, <1>4, <1>7, <4>2, <4>3, CallerShowsKept
    <3> QED
      BY <3>1, <3>2
  <2>4. \A e \in CallsOf(p, q) : e # c /\ (Ended(e) \/ State(e) = "over") => Ended(e)' \/ State(e)' = "over"
    BY <1>7 DEF Ended
  <2>5. (OfferComes(c) => OfferComes(c)') /\ (AnswerComes(c) => AnswerComes(c)') /\ Kept(c)' = Kept(c)
        /\ State(c)' = State(c)
    BY <1>5, <1>7, <2>1
  <2> QED
    BY <1>2, <1>3, <1>4, <1>7, <1>8, <2>2, <2>3, <2>4, <2>5, CalledKept
<1> QED
  BY <1>1, <1>3, <1>7, <1>8 DEF Chain

LEMMA CalleeIsCalled ==
  ASSUME ShapeInv, NEW p \in Uids, NEW q \in Uids, p # q, Receive(q),
         NEW d \in CallsTo(q), d \in CallsOf(d[1], q), inbox[q][1] = <<"offer", q, d>>, BeCalled(q, d),
         Chain(p, q)
  PROVE  Chain(p, q)'
<1>1. PICK c : c = Latest(p, q)
  OBVIOUS
<1>2. c[1] = p /\ c[2] = q /\ d[1] # q /\ d[2] = q /\ d[1] \in Uids
  BY <1>1, CallsAre DEF Latest, Call, CallsTo
<1>3. /\ NoUsers(Wire(q)) => NoUsers(Wire(q))'
      /\ RenewedIn(Wire(q), p) => RenewedIn(Wire(q), p)'
  BY WireAfterReceive DEF Lists
<1>4. NoUsers(Wire(p))' = NoUsers(Wire(p)) /\ ListedIn(Wire(p), q)' = ListedIn(Wire(p), q)
  BY WireOfAnother
<1>5. ASSUME NEW e \in CallNames
      PROVE  /\ OfferComes(e) => OfferComes(e)' \/ (e = d /\ NoUsers(Wire(q))')
             /\ AnswerComes(e) => AnswerComes(e)'
             /\ Kept(e)' = Kept(e)
             /\ Shows(p, q, e)' = Shows(p, q, e)
             /\ d[1] # p => Shows(q, p, e)' = Shows(q, p, e)
  <2>1. inbox[q][1] # <<"answer", e[1], e>> /\ (e # d => inbox[q][1] # <<"offer", e[2], e>>)
    OBVIOUS
  <2>2. (OfferComes(e) => OfferComes(e)' \/ (e = d /\ NoUsers(Wire(q))')) /\ (AnswerComes(e) => AnswerComes(e)')
    BY <2>1, ComesOfReceive
  <2> QED
    BY <1>2, <2>2, BeCalledLists
<1>6. \A e \in CallsOf(p, q) \cup CallsOf(q, p) : e \in CallNames
  BY BetweenAre
<1>7. /\ CallsOf(p, q)' = CallsOf(p, q) /\ Latest(p, q)' = c /\ CallsOf(q, p)' = CallsOf(q, p)
      /\ \A e \in CallsOf(p, q) : e # d => State(e)' = State(e)
      /\ \A e \in CallsOf(q, p) : e # d /\ State(e)' = State(e)
  <2>1. \A e \in CallsOf(q, p) : e # d
    BY <1>2, BetweenIs DEF CallsOf
  <2> QED
    BY <1>1, <2>1, BeCalledCalls
<1>8. ASSUME CalledWith(p, q, c)
      PROVE  CalledWith(p, q, c)'
  <2>1. c \in CallsOf(p, q) /\ c \in CallNames
    BY <1>6, <1>8 DEF CalledWith
  <2>2. CallerShows(c) => CallerShows(c)'
    <3>1. \A e \in CallsOf(q, p) : /\ OfferComes(e) => OfferComes(e)'
                                   /\ Shows(p, q, e) => Shows(p, q, e)'
                                   /\ Settling(e) => Settling(e)'
      BY <1>5, <1>6, <1>7 DEF Settling, Ended
    <3>2. Shows(p, q, c) => Shows(p, q, c)'
      BY <1>5, <2>1
    <3> QED
      BY <1>2, <1>3, <1>7, <3>1, <3>2, CallerShowsKept
  <2>3. \A e \in CallsOf(p, q) : (Ended(e) => Ended(e)') /\ (State(e) = "over" => Ended(e)' \/ State(e)' = "over")
    <3>1. \A e \in CallsOf(p, q) : e # d => (Ended(e) => Ended(e)') /\ (State(e) = "over" => State(e)' = "over")
      BY <1>7 DEF Ended
    <3>2. (Ended(d) => Ended(d)') /\ (State(d) = "over" => Ended(d)')
      BY OfferedStates
    <3> QED
      BY <3>1, <3>2
  <2>4. Kept(c)' = Kept(c) /\ (AnswerComes(c) => AnswerComes(c)')
    BY <1>5, <2>1
  <2>5. CASE d = c
    <3>1. CalleeShows(c)' /\ AnswerComes(c)'
      <4>1. Shows(q, p, c)'
        BY <1>2, <2>1, <2>5, BeCalledLists
      <4>2. <<"answer", c>> \in later'[q]
        BY <2>5, OfferedStates
      <4> QED
        BY <1>2, <1>7, <2>1, <4>1, <4>2 DEF CalleeShows, AnswerComes
    <3>2. State(c)' \in {"answered", "connected", "stale", "late"} /\ (State(c)' = "connected" => State(c) = "connected")
      BY <2>5, OfferedStates
    <3>3. OfferComes(c)' \/ NoUsers(Wire(q))'
      BY <1>3, <1>5, <1>8, <2>1 DEF CalledWith
    <3>4. \A e \in CallsOf(p, q)' : e # c => Ended(e)' \/ State(e)' = "over"
      BY <1>7, <1>8, <2>3 DEF CalledWith
    <3>5. NoUsers(Wire(p))' /\ (~Kept(c)' => State(c)' # "connected") /\ (Kept(c)' => CallerShows(c)')
      BY <1>4, <1>8, <2>2, <2>4, <3>2 DEF CalledWith
    <3> QED
      BY <1>7, <2>1, <3>1, <3>2, <3>3, <3>4, <3>5 DEF CalledWith
  <2>6. CASE d # c
    <3>1. State(c)' = State(c) /\ (OfferComes(c) => OfferComes(c)')
      BY <1>5, <1>7, <2>1, <2>6
    <3>2. CalleeShows(c) => CalleeShows(c)'
      <4>1. CASE d[1] = p
        <5>1. d \in CallsOf(p, q)' /\ Ended(d)'
          <6>1. Ended(d) \/ State(d) = "over"
            BY <1>8, <2>6, <4>1 DEF CalledWith
          <6> QED
            BY <1>7, <4>1, <6>1, OfferedStates
        <5>2. Shows(q, p, d)'
          BY <1>2, <2>1, <4>1, BeCalledLists
        <5> QED
          BY <1>2, <5>1, <5>2 DEF CalleeShows
      <4>2. CASE d[1] # p
        <5>1. \A e \in CallsOf(p, q) : (Shows(q, p, e) => Shows(q, p, e)') /\ (Ended(e) => Ended(e)')
          BY <1>5, <1>6, <2>3, <4>2
        <5> QED
          BY <1>2, <1>7, <5>1, CalleeShowsKept
      <4> QED
        BY <4>1, <4>2
    <3>3. \A e \in CallsOf(p, q) : e # c /\ (Ended(e) \/ State(e) = "over") => Ended(e)' \/ State(e)' = "over"
      BY <2>3
    <3> QED
      BY <1>2, <1>3, <1>4, <1>7, <1>8, <2>2, <2>4, <3>1, <3>2, <3>3, CalledKept
  <2> QED
    BY <2>5, <2>6
<1> QED
  BY <1>1, <1>4, <1>7, <1>8 DEF Chain

(* One of two pages handles an answer, of whatever call.                   *)
LEMMA ChainOfAnswered ==
  ASSUME ShapeInv, NEW p \in Uids, NEW q \in Uids, p # q, NEW r \in {p, q}, Receive(r),
         NEW d \in CallsFrom(r), inbox[r][1] = <<"answer", r, d>>, BeAnswered(r, d), r \notin crashed,
         Chain(p, q)
  PROVE  r \in crashed' \/ Chain(p, q)'
<1> SUFFICES ASSUME r \notin crashed' PROVE Chain(p, q)'
  OBVIOUS
<1>1. /\ UNCHANGED <<ref, calls, shown>>
      /\ later' = [later EXCEPT ![r] = @ \cup {<<"apply", d>>}]
  BY DEF BeAnswered
<1>2. d[1] = r /\ <<"apply", d>> \in later'[r]
  BY <1>1 DEF CallsFrom, ShapeInv, PagesTyped
<1>3. \A u \in Uids : \A v : /\ NoUsers(Wire(u)) => NoUsers(Wire(u))'
                             /\ ListedIn(Wire(u), v) => ListedIn(Wire(u), v)'
                             /\ RenewedIn(Wire(u), v) => RenewedIn(Wire(u), v)'
  <2>1. ASSUME NEW u \in Uids, NEW v
        PROVE  /\ NoUsers(Wire(u)) => NoUsers(Wire(u))'
               /\ ListedIn(Wire(u), v) => ListedIn(Wire(u), v)'
               /\ RenewedIn(Wire(u), v) => RenewedIn(Wire(u), v)'
    <3>1. CASE u = r
      <4>1. /\ NoUsers(Wire(r)) => NoUsers(Wire(r))'
            /\ ListedIn(Wire(r), v) => ListedIn(Wire(r), v)'
            /\ RenewedIn(Wire(r), v) => RenewedIn(Wire(r), v)'
        BY WireAfterReceive DEF Lists
      <4> QED
        BY <3>1, <4>1
    <3>2. CASE u # r
      BY <3>2, WireOfAnother
    <3> QED
      BY <3>1, <3>2
  <2> QED
    BY <2>1
<1>4. ASSUME NEW e \in CallsOf(p, q) \cup CallsOf(q, p)
      PROVE  (OfferComes(e) => OfferComes(e)') /\ (AnswerComes(e) => AnswerComes(e)')
  <2>1. e \in CallNames
    BY BetweenAre
  <2>2. inbox[r][1] # <<"offer", e[2], e>> /\ (inbox[r][1] = <<"answer", e[1], e>> => e = d)
    OBVIOUS
  <2>3. AnswerComes(d)'
    BY <1>2 DEF AnswerComes
  <2> QED
    BY <2>1, <2>2, <2>3, ComesOfReceive
<1> QED
  BY <1>1, <1>3, <1>4, ChainMoved

(* What a page does when it is told whom to call.                          *)
LEMMA CallAllKeeps ==
  ASSUME ShapeInv, NEW u \in Uids, NEW L \in SUBSET (Uids \ {u}), NEW last, L = {} \/ last \in L,
         CallAll(u, L, last), NEW e \in CallNames
  PROVE  /\ Kept(e)' => Kept(e) \/ (L # {} /\ e = Call1(u, last))
         /\ e[1] # u => Kept(e)' = Kept(e)
<1>1. DOMAIN ref = Uids /\ ref[u] \in Seq(Peers(u)) /\ e[1] \in Uids
  BY CallsAre DEF ShapeInv, PeersTyped, PeersOf
<1>2. CASE L = {}
  <2>1. ref' = ref
    BY <1>2 DEF CallAll
  <2> QED
    BY <2>1 DEF Kept
<1>3. CASE L # {}
  <2> DEFINE t == Without(ref[u], L)
             o == <<last, Call1(u, last)>>
  <2>1. ref' = [ref EXCEPT ![u] = Append(t, o)]
    BY <1>3 DEF CallAll
  <2>2. t \in Seq(Peers(u)) /\ Filters(t, Len(ref[u]), ref[u], L)
    BY <1>1, WithoutFilters
  <2>3. o \in Peers(u)
    <3>1. Len(calls[u][last]) + 1 \in Nat \ {0}
      BY <1>3, CallAllEffect DEF ShapeInv
    <3> QED
      BY <1>3, <3>1 DEF Peers, CallsFrom, CallNames, Call1, Call
  <2>4. o[2] = Call1(u, last)
    OBVIOUS
  <2> HIDE DEF t, o
  <2>5. PICK n \in Nat : DOMAIN t = 1 .. n
    BY <2>2
  <2>6. ref'[u] = Append(t, o) /\ \A x \in Uids : x # u => ref'[x] = ref[x]
    BY <1>1, <2>1
  <2>7. DOMAIN ref'[u] = 1 .. n + 1 /\ ref'[u][n + 1] = o /\ \A i \in 1 .. n : ref'[u][i] = t[i]
    BY <2>2, <2>3, <2>5, <2>6
  <2>8. \A i \in 1 .. n : \E j \in DOMAIN ref[u] : t[i] = ref[u][j]
    <3>1. DOMAIN ref[u] = 1 .. Len(ref[u])
      BY <1>1
    <3> QED
      BY <2>2, <2>5, <3>1 DEF Filters
  <2>9. \A i \in 1 .. n + 1 : i = n + 1 \/ i \in 1 .. n
    BY <2>5
  <2>10. CASE e[1] = u
    <3>1. ASSUME NEW i \in DOMAIN ref'[u], ref'[u][i][2] = e, e # o[2]
          PROVE  \E j \in DOMAIN ref[u] : ref[u][j][2] = e
      <4>1. i \in 1 .. n /\ t[i][2] = e
        BY <2>7, <2>9, <3>1
      <4> QED
        BY <2>8, <4>1
    <3> QED
      BY <1>3, <2>4, <2>10, <3>1 DEF Kept
  <2>11. CASE e[1] # u
    BY <1>1, <2>6, <2>11 DEF Kept
  <2> QED
    BY <2>10, <2>11
<1> QED
  BY <1>2, <1>3

LEMMA CallAllSettles ==
  ASSUME ShapeInv, NEW u \in Uids, NEW L \in SUBSET (Uids \ {u}), NEW last, CallAll(u, L, last),
         NEW v \in Uids \ {u}
  PROVE  /\ CallsOf(v, u)' = CallsOf(v, u) /\ Latest(v, u)' = Latest(v, u)
         /\ \A e \in CallsOf(v, u) : /\ Ended(e) \/ State(e) = "over" => Ended(e)' \/ State(e)' = "over"
                                     /\ State(e)' = "connected" => State(e) = "connected"
<1>1. calls[v][u] \in Seq(CallStates)
  BY DEF ShapeInv, CallsTyped
<1>2. CASE v \in L
  <2>1. calls'[v][u] = Settled(calls[v][u])
    BY <1>2 DEF CallAll
  <2>2. /\ calls'[v][u] \in Seq(CallStates) /\ DOMAIN calls'[v][u] = DOMAIN calls[v][u]
        /\ \A n \in DOMAIN calls[v][u] :
             calls'[v][u][n] = IF calls[v][u][n] \in {"stale", "late"} THEN "over" ELSE calls[v][u][n]
    BY <1>1, <2>1, StatesMapped, StatesMappedTyped
  <2>3. Len(calls'[v][u]) = Len(calls[v][u])
    BY <1>1, <2>2
  <2>4. CallsOf(v, u)' = CallsOf(v, u) /\ Latest(v, u)' = Latest(v, u)
    BY <2>2, <2>3 DEF CallsOf, CallsIn, Latest, Call
  <2>5. ASSUME NEW e \in CallsOf(v, u)
        PROVE  State(e)' = IF State(e) \in {"stale", "late"} THEN "over" ELSE State(e)
    <3>1. e[1] = v /\ e[2] = u /\ e[3] \in DOMAIN calls[v][u]
      BY BetweenIs DEF CallsOf
    <3> QED
      BY <2>2, <3>1 DEF State
  <2> QED
    BY <2>4, <2>5 DEF Ended
<1>3. CASE v \notin L
  <2>1. calls'[v][u] = calls[v][u]
    BY <1>3 DEF CallAll
  <2> QED
    BY <2>1, StateKept DEF Ended
<1> QED
  BY <1>2, <1>3

LEMMA CallAllCalls ==
  ASSUME ShapeInv, KnownInv, NEW u \in Uids, NEW L \in SUBSET (Uids \ {u}), NEW last, L = {} \/ last \in L,
         CallAll(u, L, last), NEW v \in L, NEW c, c = Call1(u, v)
  PROVE  /\ c \in CallNames /\ c \in CallsOf(u, v)' /\ Latest(u, v)' = c /\ State(c)' = "called" /\ ~Kept(c)
         /\ \A e \in CallsOf(u, v)' : e # c => Ended(e)' \/ State(e)' = "over"
         /\ <<"offer", c>> \in later'[u]
<1> DEFINE k == Len(calls[u][v])
<1>1. /\ k + 1 \in Nat \ {0} /\ DOMAIN calls'[u][v] = 1 .. k + 1 /\ Len(calls'[u][v]) = k + 1
      /\ calls'[u][v][k + 1] = "called"
      /\ \A n \in DOMAIN calls[u][v] :
           calls'[u][v][n] = IF calls[u][v][n] = "connected" THEN "connected" ELSE "over"
  <2>1. CallsTyped
    BY DEF ShapeInv
  <2>2. /\ k + 1 \in Nat \ {0} /\ DOMAIN calls'[u][v] = 1 .. k + 1 /\ Len(calls'[u][v]) = k + 1
        /\ calls'[u][v][k + 1] = "called"
    BY <2>1, CallAllEffect
  <2>3. ASSUME NEW n \in DOMAIN calls[u][v]
        PROVE  calls'[u][v][n] = IF calls[u][v][n] = "connected" THEN "connected" ELSE "over"
    <3> DEFINE s == calls[u][v]
               d == Dropped(s)
    <3>1. s \in Seq(CallStates) /\ calls'[u][v] = Append(d, "called")
      BY <2>1 DEF CallAll, CallsTyped
    <3>2. d \in Seq(CallStates) /\ n \in DOMAIN d /\ d[n] = IF s[n] = "connected" THEN "connected" ELSE "over"
      BY <3>1, StatesMapped
    <3> HIDE DEF d
    <3>3. Append(d, "called")[n] = d[n]
      BY <3>2
    <3> QED
      BY <3>1, <3>2, <3>3
  <2> QED
    BY <2>2, <2>3
<1>2. DOMAIN calls[u][v] = 1 .. k /\ k \in Nat
  BY DEF ShapeInv, CallsTyped
<1>3. c = <<u, v, k + 1>>
  BY DEF Call1, Call
<1>4. <<"offer", c>> \in later'[u]
  <2>1. <<"offer", c>> \in {<<"offer", Call1(u, w)>> : w \in L}
    OBVIOUS
  <2> QED
    BY <2>1 DEF CallAll, ShapeInv, PagesTyped
<1> HIDE DEF k
<1>5. c \in CallNames /\ c \in CallsOf(u, v)' /\ State(c)' = "called"
  BY <1>1, <1>3 DEF CallNames, CallsOf, CallsIn, Call, State
<1>6. Latest(u, v)' = c
  BY <1>1, <1>3 DEF Latest, Call
<1>7. ~Kept(c)
  <2>1. c \notin Calls
    <3>1. c[3] \notin DOMAIN calls[c[1]][c[2]]
      BY <1>2, <1>3
    <3>2. c \notin MadeIn(calls)
      BY <3>1, CallsAreMade DEF ShapeInv, CallsTyped
    <3> QED
      BY <3>2 DEF Calls, MadeIn, CallsIn
  <2>2. c[1] = u
    BY <1>3
  <2> QED
    BY <2>1, <2>2 DEF Kept, KnownInv
<1>8. ASSUME NEW e \in CallsOf(u, v)', e # c
      PROVE  Ended(e)' \/ State(e)' = "over"
  <2>1. e = <<u, v, e[3]>> /\ e[1] = u /\ e[2] = v /\ e[3] \in 1 .. k + 1
    BY <1>1, BetweenIs DEF CallsOf, Call
  <2>2. e[3] \in 1 .. k
    BY <1>2, <1>3, <1>8, <2>1
  <2>3. State(e)' \in {"connected", "over"}
    BY <1>1, <1>2, <2>1, <2>2 DEF State
  <2> QED
    BY <2>3 DEF Ended
<1> QED
  BY <1>4, <1>5, <1>6, <1>7, <1>8

LEMMA CallerCalls ==
  ASSUME ShapeInv, KnownInv, NEW p \in Uids, NEW q \in Uids, p # q, Receive(p), inbox[p][1][1] = "users",
         NEW L \in SUBSET (Uids \ {p}), L = inbox[p][1][3], NEW last, L = {} \/ last \in L, CallAll(p, L, last),
         Chain(p, q)
  PROVE  Chain(p, q)'
<1>1. ListedIn(Wire(p), q)
  BY WireAfterReceive DEF Chain, CalledWith
<1>2. ListedIn(Wire(p), q)' \/ (q \in L /\ NoUsers(Wire(p))')
  BY <1>1, WireAfterReceive DEF Lists
<1>3. ASSUME q \in L, NoUsers(Wire(p))'
      PROVE  CalledWith(p, q, Latest(p, q))'
  <2>1. PICK c : c = Call1(p, q)
    OBVIOUS
  <2>2. c[1] = p /\ c[2] = q
    BY <2>1 DEF Call1, Call
  <2>3. /\ c \in CallNames /\ c \in CallsOf(p, q)' /\ Latest(p, q)' = c /\ State(c)' = "called" /\ ~Kept(c)
        /\ \A e \in CallsOf(p, q)' : e # c => Ended(e)' \/ State(e)' = "over"
        /\ <<"offer", c>> \in later'[p]
    BY <1>3, <2>1, CallAllCalls
  <2>4. OfferComes(c)'
    BY <2>2, <2>3 DEF OfferComes
  <2>5. ASSUME Kept(c)'
        PROVE  CallerShows(c)'
    <3>1. L # {} /\ c = Call1(p, last)
      BY <2>3, <2>5, CallAllKeeps
    <3>2. last = q
      BY <2>2, <3>1 DEF Call1, Call
    <3>3. shown' = [shown EXCEPT ![p] = [v \in {last} |-> Call1(p, v)]]
      BY <3>1 DEF CallAll
    <3>4. Shows(p, q, c)'
      BY <2>1, <3>2, <3>3 DEF Shows, ShapeInv, PeersTyped
    <3> QED
      BY <2>2, <3>4 DEF CallerShows
  <2>6. CalledWith(p, q, c)'
    BY <1>3, <2>3, <2>4, <2>5 DEF CalledWith
  <2> QED
    BY <2>3, <2>6
<1> QED
  BY <1>2, <1>3 DEF Chain

LEMMA CalleeCalls ==
  ASSUME ShapeInv, KnownInv, NEW p \in Uids, NEW q \in Uids, p # q, Receive(q), inbox[q][1][1] = "users",
         NEW L \in SUBSET (Uids \ {q}), L = inbox[q][1][3], NEW last, L = {} \/ last \in L, CallAll(q, L, last),
         Chain(p, q)
  PROVE  Chain(p, q)'
<1>1. ListedIn(Wire(p), q)' = ListedIn(Wire(p), q) /\ NoUsers(Wire(p))' = NoUsers(Wire(p))
  BY WireOfAnother
<1>2. ~NoUsers(Wire(q)) /\ (RenewedIn(Wire(q), p) => RenewedIn(Wire(q), p)' \/ p \in L)
  BY WireAfterReceive DEF Lists
<1>3. PICK c : c = Latest(p, q)
  OBVIOUS
<1>4. c[1] = p /\ c[2] = q
  BY <1>3 DEF Latest, Call
<1>5. ASSUME NEW e \in CallNames
      PROVE  /\ OfferComes(e) => OfferComes(e)'
             /\ AnswerComes(e) => AnswerComes(e)'
  <2>1. inbox[q][1] # <<"offer", e[2], e>> /\ inbox[q][1] # <<"answer", e[1], e>>
    OBVIOUS
  <2> QED
    BY <2>1, ComesOfReceive
<1>6. \A e \in CallsOf(p, q) \cup CallsOf(q, p) : e \in CallNames
  BY BetweenAre
<1>7. /\ CallsOf(p, q)' = CallsOf(p, q) /\ Latest(p, q)' = c
      /\ \A e \in CallsOf(p, q) : /\ Ended(e) \/ State(e) = "over" => Ended(e)' \/ State(e)' = "over"
                                  /\ State(e)' = "connected" => State(e) = "connected"
  BY <1>3, CallAllSettles
<1>8. ASSUME CalledWith(p, q, c)
      PROVE  CalledWith(p, q, c)'
  <2>1. c \in CallsOf(p, q) /\ c \in CallNames /\ OfferComes(c)'
    BY <1>2, <1>5, <1>6, <1>8 DEF CalledWith
  <2>2. Kept(c)' = Kept(c)
    BY <1>4, <2>1, CallAllKeeps
  <2>3. \A x : Shows(p, q, x)' = Shows(p, q, x)
    BY DEF CallAll, Shows, ShapeInv, PeersTyped
  <2>4. CallerShows(c) => CallerShows(c)'
    <3>1. CASE p \in L
      <4>1. PICK o : o = Call1(q, p)
        OBVIOUS
      <4>2. o \in CallsOf(q, p)' /\ <<"offer", o>> \in later'[q] /\ o[1] = q
        BY <3>1, <4>1, CallAllCalls DEF Call1, Call
      <4>3. OfferComes(o)'
        BY <4>2 DEF OfferComes
      <4> QED
        BY <1>4, <4>2, <4>3 DEF CallerShows
    <3>2. CASE p \notin L
      <4>1. calls'[q][p] = calls[q][p]
        BY <3>2 DEF CallAll
      <4>2. CallsOf(q, p)' = CallsOf(q, p) /\ \A e \in CallsOf(q, p) : State(e)' = State(e)
        BY <4>1, StateKept
      <4>3. ASSUME NEW e \in CallsOf(q, p), ~Kept(e)
            PROVE  ~Kept(e)'
        <5>1. e[2] = p /\ e \in CallNames
          BY <1>6, BetweenIs DEF CallsOf
        <5>2. L # {} => e # Call1(q, last)
          BY <3>2, <5>1 DEF Call1, Call
        <5>3. Kept(e)' => Kept(e) \/ (L # {} /\ e = Call1(q, last))
          BY <5>1, CallAllKeeps
        <5> QED
          BY <4>3, <5>2, <5>3
      <4>4. \A e \in CallsOf(q, p) : /\ OfferComes(e) => OfferComes(e)'
                                     /\ Settling(e) => Settling(e)'
        BY <1>5, <1>6, <4>2, <4>3 DEF Settling, Ended
      <4>5. CallsOf(q, p) \subseteq CallsOf(q, p)'
        BY <4>2
      <4> QED
        BY <1>2, <1>4, <2>3, <3>2, <4>4, <4>5, CallerShowsKept
    <3> QED
      BY <3>1, <3>2
  <2>5. \A e \in CallsOf(p, q)' : e # c => Ended(e)' \/ State(e)' = "over"
    BY <1>7, <1>8 DEF CalledWith
  <2>6. NoUsers(Wire(p))' /\ (~Kept(c)' => State(c)' # "connected") /\ (Kept(c)' => CallerShows(c)')
    BY <1>1, <1>7, <1>8, <2>1, <2>2, <2>4 DEF CalledWith
  <2> QED
    BY <1>7, <2>1, <2>5, <2>6 DEF CalledWith
<1> QED
  BY <1>1, <1>3, <1>7, <1>8 DEF Chain

(* One of two pages handles a message.                                     *)
LEMMA ChainOfReceive ==
  ASSUME ShapeInv, KnownInv, NEW p \in Uids, NEW q \in Uids, p # q, NEW r \in {p, q}, Receive(r),
         Chain(p, q)
  PROVE  r \in crashed' \/ Chain(p, q)'
<1>1. PICK m \in Written(r) :
        /\ m = inbox[r][1]
        /\ \/ r \in crashed /\ UNCHANGED <<later, peers>>
           \/ /\ r \notin crashed /\ m[1] = "users" /\ CallAll(r, m[3], m[4])
              /\ m[3] \in SUBSET (Uids \ {r}) /\ (m[3] = {} \/ m[4] \in m[3])
           \/ r \notin crashed /\ m[1] = "offer" /\ m[3] \in CallsTo(r) /\ BeCalled(r, m[3])
           \/ r \notin crashed /\ m[1] = "answer" /\ m[3] \in CallsFrom(r) /\ BeAnswered(r, m[3])
  BY ReceiveCases DEF ShapeInv
<1>2. CASE r \in crashed /\ UNCHANGED <<later, peers>>
  BY <1>2 DEF peers
<1>3. CASE /\ r \notin crashed /\ m[1] = "users" /\ CallAll(r, m[3], m[4])
           /\ m[3] \in SUBSET (Uids \ {r}) /\ (m[3] = {} \/ m[4] \in m[3])
  <2>1. PICK L : L = m[3]
    OBVIOUS
  <2>2. CASE r = p
    BY <1>1, <1>3, <2>1, <2>2, CallerCalls
  <2>3. CASE r = q
    BY <1>1, <1>3, <2>1, <2>3, CalleeCalls
  <2> QED
    BY <2>2, <2>3
<1>4. CASE r \notin crashed /\ m[1] = "offer" /\ m[3] \in CallsTo(r) /\ BeCalled(r, m[3])
  <2>1. PICK d \in CallsTo(r) : d = m[3]
    BY <1>4
  <2>2. m = <<"offer", r, d>>
    BY <1>4, <2>1, WrittenCases
  <2>3. d \in Calls
    <3>1. inbox[r] \in Seq(Written(r)) /\ inbox[r] # <<>>
      BY DEF ShapeInv, PagesTyped, Receive
    <3>2. 1 \in DOMAIN inbox[r]
      BY <3>1
    <3> QED
      BY <1>1, <1>4, <2>1, <3>2 DEF KnownInv
  <2>4. d \in CallsOf(d[1], r)
    <3>1. d \in MadeIn(calls)
      BY <2>3 DEF Calls, MadeIn, CallsIn
    <3>2. d \in CallNames /\ d[3] \in DOMAIN calls[d[1]][d[2]] /\ d[2] = r
      BY <3>1, CallsAreMade DEF ShapeInv, CallsTyped, CallsTo
    <3> QED
      BY <3>2, CallsAre DEF CallsOf, CallsIn, Call
  <2>5. CASE r = p
    BY <1>1, <1>4, <2>1, <2>2, <2>4, <2>5, CallerIsCalled
  <2>6. CASE r = q
    BY <1>1, <1>4, <2>1, <2>2, <2>4, <2>6, CalleeIsCalled
  <2> QED
    BY <2>5, <2>6
<1>5. CASE r \notin crashed /\ m[1] = "answer" /\ m[3] \in CallsFrom(r) /\ BeAnswered(r, m[3])
  <2>1. PICK d \in CallsFrom(r) : d = m[3]
    BY <1>5
  <2>2. m = <<"answer", r, d>>
    BY <1>5, <2>1, WrittenCases
  <2> QED
    BY <1>1, <1>5, <2>1, <2>2, ChainOfAnswered
<1> QED
  BY <1>1, <1>2, <1>3, <1>4, <1>5

-----------------------------------------------------------------------------
(* A page gives a signal to a peer.                                        *)

(* What a signal does to the calls of two users: none ends that had not,   *)
(* but the one it is for, and none that is listed loses its answer.        *)
LEMMA ApplyStates ==
  ASSUME ShapeInv, NEW r \in Uids, Apply(r), NEW v \in Uids, NEW w \in Uids
  PROVE  /\ CallsOf(v, w)' = CallsOf(v, w) /\ Latest(v, w)' = Latest(v, w)
         /\ \A e \in CallsOf(v, w) :
              /\ Ended(e) => Ended(e)'
              /\ State(e) = "over" => State(e)' = "over"
              /\ State(e) \in {"stale", "late"} => State(e)' \in {"stale", "late"}
              /\ State(e)' = "connected" => State(e) = "connected" \/ Kept(e)
              /\ State(e) = "answered" /\ (~Kept(e) \/ AnswerComes(e))
                   => Ended(e)' \/ (State(e)' = "answered" /\ (~Kept(e) \/ AnswerComes(e)'))
<1>1. PICK t \in later[r] :
           /\ t[1] = "apply" /\ later' = [later EXCEPT ![r] = @ \ {t}]
           /\ \/ First(r, t[2][2]) = 0 /\ calls' = calls
              \/ \E d \in CallNames :
                   /\ First(r, t[2][2]) \in DOMAIN ref[r] /\ d = ref[r][First(r, t[2][2])][2]
                   /\ SetState(d, IF State(d) \in {"over", "late"} \/ (d = t[2] /\ State(d) # "answered")
                                  THEN State(d)
                                  ELSE IF d = t[2] THEN "connected" ELSE "stale")
  BY ApplyEffect DEF ShapeInv
<1>2. PICK a \in CallsFrom(r) : a = t[2] /\ t = <<"apply", a>>
  BY <1>1, TodoCases DEF ShapeInv, PagesTyped
<1>3. a[1] = r
  BY <1>2 DEF CallsFrom
<1>4. ASSUME NEW e \in CallsOf(v, w), e # a, AnswerComes(e)
      PROVE  AnswerComes(e)'
  <2>1. e[1] \in Uids /\ e[2] \in Uids
    BY BetweenAre, CallsAre
  <2>2. \A x \in Uids : \A y : y \in later[x] /\ y # t => y \in later'[x]
    BY <1>1 DEF ShapeInv, PagesTyped
  <2>3. returning' = returning /\ AnswerIn(Wire(e[1]), e)' = AnswerIn(Wire(e[1]), e)
    BY DEF Apply, wires, Wire, AnswerIn
  <2>4. <<"answer", e>> # t /\ <<"apply", e>> # t
    BY <1>2, <1>4
  <2> QED
    BY <1>4, <2>1, <2>2, <2>3, <2>4 DEF AnswerComes
<1>5. CASE First(r, t[2][2]) = 0 /\ calls' = calls
  <2>1. ~Kept(a)
    <3>1. 0 \notin DOMAIN ref[r]
      BY DEF ShapeInv, PeersTyped, PeersOf
    <3> QED
      BY <1>2, <1>5, <3>1, OwnIsFirst
  <2>2. /\ CallsOf(v, w)' = CallsOf(v, w) /\ Latest(v, w)' = Latest(v, w)
        /\ \A e \in CallsOf(v, w) : State(e)' = State(e)
    BY <1>5, StateKept
  <2> QED
    BY <1>4, <2>1, <2>2 DEF Ended
<1>6. ASSUME NEW d \in CallNames, First(r, a[2]) \in DOMAIN ref[r], d = ref[r][First(r, a[2])][2],
             SetState(d, IF State(d) \in {"over", "late"} \/ (d = a /\ State(d) # "answered")
                         THEN State(d)
                         ELSE IF d = a THEN "connected" ELSE "stale")
      PROVE  /\ CallsOf(v, w)' = CallsOf(v, w) /\ Latest(v, w)' = Latest(v, w)
             /\ \A e \in CallsOf(v, w) :
                  /\ Ended(e) => Ended(e)'
                  /\ State(e) = "over" => State(e)' = "over"
                  /\ State(e) \in {"stale", "late"} => State(e)' \in {"stale", "late"}
                  /\ State(e)' = "connected" => State(e) = "connected" \/ Kept(e)
                  /\ State(e) = "answered" /\ (~Kept(e) \/ AnswerComes(e))
                       => Ended(e)' \/ (State(e)' = "answered" /\ (~Kept(e) \/ AnswerComes(e)'))
  <2> DEFINE s == IF State(d) \in {"over", "late"} \/ (d = a /\ State(d) # "answered")
                  THEN State(d)
                  ELSE IF d = a THEN "connected" ELSE "stale"
  <2>1. Kept(a) <=> d = a
    <3>1. Kept(a) => d = a
      BY <1>6, OwnIsFirst
    <3>2. d = a => Kept(a)
      BY <1>3, <1>6 DEF Kept
    <3> QED
      BY <3>1, <3>2
  <2>2. d[1] \in Uids /\ d[2] \in Uids /\ d = <<d[1], d[2], d[3]>>
    BY CallsAre
  <2>3. d[3] \in DOMAIN calls[d[1]][d[2]] => s \in CallStates
    <3>1. calls[d[1]][d[2]] \in Seq(CallStates)
      BY <2>2 DEF ShapeInv, CallsTyped
    <3>2. d[3] \in DOMAIN calls[d[1]][d[2]] => State(d) \in CallStates
      BY <3>1 DEF State
    <3> QED
      BY <3>2 DEF CallStates
  <2>4. SetState(d, s)
    BY <1>6
  <2>5. /\ State(d) \in {"over", "late"} => s = State(d)
        /\ d = a => s = IF State(d) = "answered" THEN "connected" ELSE State(d)
        /\ d # a /\ State(d) \notin {"over", "late"} => s = "stale"
    OBVIOUS
  <2> HIDE DEF s
  <2>6. /\ CallsTyped'
        /\ \A x, y \in Uids : DOMAIN calls'[x][y] = DOMAIN calls[x][y]
        /\ \A x, y \in Uids : \A n \in DOMAIN calls[x][y] :
             calls'[x][y][n] = IF x = d[1] /\ y = d[2] /\ n = d[3] THEN s ELSE calls[x][y][n]
    BY <2>3, <2>4, SetStateEffect DEF ShapeInv
  <2>7. CallsOf(v, w)' = CallsOf(v, w)
    BY <2>6 DEF CallsOf, CallsIn, Call
  <2>8. Latest(v, w)' = Latest(v, w)
    <3>1. calls[v][w] \in Seq(CallStates) /\ calls'[v][w] \in Seq(CallStates) /\ DOMAIN calls'[v][w] = DOMAIN calls[v][w]
      BY <2>6 DEF ShapeInv, CallsTyped
    <3>2. Len(calls'[v][w]) = Len(calls[v][w])
      BY <3>1
    <3> QED
      BY <3>2 DEF Latest, Call
  <2>9. ASSUME NEW e \in CallsOf(v, w)
        PROVE  State(e)' = IF e = d THEN s ELSE State(e)
    <3>1. e = <<v, w, e[3]>> /\ e[1] = v /\ e[2] = w /\ e[3] \in DOMAIN calls[v][w]
      BY BetweenIs DEF CallsOf, Call
    <3>2. e = d <=> v = d[1] /\ w = d[2] /\ e[3] = d[3]
      BY <2>2, <3>1
    <3> QED
      BY <2>6, <3>1, <3>2 DEF State
  <2>10. ASSUME NEW e \in CallsOf(v, w)
         PROVE  /\ Ended(e) => Ended(e)'
                /\ State(e) = "over" => State(e)' = "over"
                /\ State(e) \in {"stale", "late"} => State(e)' \in {"stale", "late"}
                /\ State(e)' = "connected" => State(e) = "connected" \/ Kept(e)
                /\ State(e) = "answered" /\ (~Kept(e) \/ AnswerComes(e))
                     => Ended(e)' \/ (State(e)' = "answered" /\ (~Kept(e) \/ AnswerComes(e)'))
    <3>1. CASE e = d
      <4>1. State(e)' = s /\ State(e) = State(d)
        BY <2>9, <3>1
      <4> QED
        BY <2>1, <2>5, <3>1, <4>1 DEF Ended
    <3>2. CASE e # d
      <4>1. State(e)' = State(e)
        BY <2>9, <3>2
      <4>2. Kept(e) => e # a
        BY <2>1, <3>2
      <4> QED
        BY <1>4, <4>1, <4>2 DEF Ended
    <3> QED
      BY <3>1, <3>2
  <2> QED
    BY <2>7, <2>8, <2>10
<1> QED
  BY <1>1, <1>2, <1>5, <1>6

LEMMA ChainOfApply ==
  ASSUME ShapeInv, NEW p \in Uids, NEW q \in Uids, p # q, NEW r \in Uids, Apply(r),
         Chain(p, q)
  PROVE  Chain(p, q)'
<1>1. PICK c : c = Latest(p, q)
  OBVIOUS
<1>2. c[1] = p /\ c[2] = q
  BY <1>1 DEF Latest, Call
<1>3. /\ UNCHANGED <<inbox, sending, returning, toOne, ref, shown>>
      /\ \E t : t[1] = "apply" /\ later' = [later EXCEPT ![r] = @ \ {t}]
  BY DEF Apply, wires
<1>4. /\ NoUsers(Wire(p))' = NoUsers(Wire(p)) /\ NoUsers(Wire(q))' = NoUsers(Wire(q))
      /\ ListedIn(Wire(p), q)' = ListedIn(Wire(p), q) /\ RenewedIn(Wire(q), p)' = RenewedIn(Wire(q), p)
  <2>1. Wire(p)' = Wire(p) /\ Wire(q)' = Wire(q)
    BY <1>3 DEF Wire
  <2> QED
    BY <2>1, WireSame
<1>5. ASSUME NEW e \in CallNames
      PROVE  /\ Kept(e)' = Kept(e) /\ Shows(p, q, e)' = Shows(p, q, e) /\ Shows(q, p, e)' = Shows(q, p, e)
             /\ OfferComes(e) => OfferComes(e)'
  <2>1. OfferIn(Wire(e[2]), e)' = OfferIn(Wire(e[2]), e)
    BY <1>3 DEF Wire, OfferIn, NoUsersAfter
  <2>2. <<"offer", e>> \in later[e[1]] => <<"offer", e>> \in later'[e[1]]
    BY <1>3, CallsAre DEF ShapeInv, PagesTyped
  <2>3. OfferComes(e) => OfferComes(e)'
    BY <1>3, <2>1, <2>2 DEF OfferComes
  <2>4. Kept(e)' = Kept(e) /\ Shows(p, q, e)' = Shows(p, q, e) /\ Shows(q, p, e)' = Shows(q, p, e)
    BY <1>3 DEF Kept, Shows
  <2> QED
    BY <2>3, <2>4
<1>6. \A e \in CallsOf(p, q) \cup CallsOf(q, p) : e \in CallNames
  BY BetweenAre
<1>7. CallsOf(p, q)' = CallsOf(p, q) /\ Latest(p, q)' = c /\ CallsOf(q, p)' = CallsOf(q, p)
  BY <1>1, ApplyStates
<1>8. ASSUME NEW e \in CallsOf(p, q) \cup CallsOf(q, p)
      PROVE  /\ Ended(e) => Ended(e)'
             /\ State(e) = "over" => State(e)' = "over"
             /\ State(e) \in {"stale", "late"} => State(e)' \in {"stale", "late"}
             /\ State(e)' = "connected" => State(e) = "connected" \/ Kept(e)
             /\ State(e) = "answered" /\ (~Kept(e) \/ AnswerComes(e))
                  => Ended(e)' \/ (State(e)' = "answered" /\ (~Kept(e) \/ AnswerComes(e)'))
  BY ApplyStates
<1>9. ASSUME CalledWith(p, q, c)
      PROVE  CalledWith(p, q, c)'
  <2>1. c \in CallsOf(p, q) /\ c \in CallNames
    BY <1>6, <1>9 DEF CalledWith
  <2>2. CalleeShows(c) => CalleeShows(c)'
    BY <1>2, <1>5, <1>6, <1>7, <1>8, CalleeShowsKept
  <2>3. CallerShows(c) => CallerShows(c)'
    <3>1. \A e \in CallsOf(q, p) : Settling(e) => Settling(e)'
      BY <1>5, <1>6, <1>8 DEF Settling
    <3>2. \A e \in CallsOf(q, p) : /\ OfferComes(e) => OfferComes(e)'
                                   /\ Shows(p, q, e) => Shows(p, q, e)'
      BY <1>5, <1>6
    <3>3. Shows(p, q, c) => Shows(p, q, c)'
      BY <1>5, <2>1
    <3>4. CallsOf(q, p) \subseteq CallsOf(q, p)'
      BY <1>7
    <3> QED
      BY <1>2, <1>4, <3>1, <3>2, <3>3, <3>4, CallerShowsKept
  <2>4. \A e \in CallsOf(p, q)' : e # c => Ended(e)' \/ State(e)' = "over"
    BY <1>7, <1>8, <1>9 DEF CalledWith
  <2>5. Kept(c)' = Kept(c) /\ (OfferComes(c) => OfferComes(c)')
    BY <1>5, <2>1
  <2>6. ~Kept(c) => State(c)' # "connected"
    BY <1>8, <1>9, <2>1 DEF CalledWith
  <2>7. Ended(c)' => State(c)' \in {"connected", "stale", "late"}
    BY DEF Ended
  <2>8. \/ OfferComes(c)'
        \/ /\ NoUsers(Wire(q))'
           /\ \/ State(c)' \in {"stale", "late"}
              \/ State(c)' = "answered" /\ (~Kept(c)' \/ (AnswerComes(c)' /\ CalleeShows(c)'))
              \/ State(c)' = "connected" /\ CalleeShows(c)'
    <3>1. CASE OfferComes(c)
      BY <2>5, <3>1
    <3>2. CASE NoUsers(Wire(q)) /\ State(c) \in {"stale", "late"}
      BY <1>4, <1>8, <2>1, <3>2
    <3>3. CASE NoUsers(Wire(q)) /\ State(c) = "answered" /\ ~Kept(c)
      BY <1>4, <1>8, <2>1, <2>5, <2>6, <2>7, <3>3
    <3>4. CASE NoUsers(Wire(q)) /\ State(c) = "answered" /\ AnswerComes(c) /\ CalleeShows(c)
      BY <1>4, <1>8, <2>1, <2>2, <2>5, <2>6, <2>7, <3>4
    <3>5. CASE NoUsers(Wire(q)) /\ State(c) = "connected" /\ CalleeShows(c)
      <4>1. Ended(c)'
        BY <1>8, <2>1, <3>5 DEF Ended
      <4> QED
        BY <1>4, <2>2, <2>7, <3>5, <4>1
    <3> QED
      BY <1>9, <3>1, <3>2, <3>3, <3>4, <3>5 DEF CalledWith
  <2>9. NoUsers(Wire(p))' /\ (Kept(c)' => CallerShows(c)')
    BY <1>4, <1>9, <2>3, <2>5 DEF CalledWith
  <2> QED
    BY <1>7, <2>1, <2>4, <2>5, <2>6, <2>8, <2>9 DEF CalledWith
<1> QED
  BY <1>1, <1>4, <1>7, <1>9 DEF Chain

-----------------------------------------------------------------------------
(* Two pages are kept together.                                            *)

(* Who joins is told to call the others.                                   *)
LEMMA ChainOfJoin ==
  ASSUME ShapeInv, ShapeInv', MemberInv, ServeJoin, NEW u \in Uids, joining.uid = u, NEW v \in members \ {u}
  PROVE  Chain(u, v)'
<1>1. toOne = None /\ inbox' = inbox
  BY DEF ServeJoin, page
<1>2. PICK last \in Uids : toOne' = <<"users", u, members \ {u}, last>>
  BY DEF ServeJoin, MemberInv
<1>3. toOne' # None
  <2>1. toOne' \in Messages
    BY <1>2 DEF Messages, MemberInv
  <2> QED
    BY <2>1, NoneAssumption
<1>4. toOne' \in Written(u) /\ Lists(toOne', v)
  BY <1>2, <1>3 DEF ShapeInv, WiresTyped, Lists
<1>5. Wire(u)' = Append(inbox[u], toOne') /\ inbox[u] \in Seq(Written(u))
  BY <1>1, <1>2, <1>3 DEF Wire, ShapeInv, PagesTyped
<1>6. ListedIn(Append(inbox[u], toOne'), v)
  BY <1>4, <1>5, WireAppended
<1>7. ListedIn(Wire(u), v)'
  BY <1>5, <1>6 DEF ListedIn, NoUsersAfter
<1> QED
  BY <1>7 DEF Chain

LEMMA CrashedStays ==
  ASSUME [MeshNext]_meshVars, NEW u \in crashed, open'[u], ShapeInv
  PROVE  u \in crashed'
<1>1. CASE UNCHANGED crashed
  BY <1>1
<1>2. ASSUME NEW r \in Uids, Receive(r)
      PROVE  u \in crashed'
  BY <1>2 DEF Receive, CallAll, BeCalled, BeAnswered, peers
<1>3. ASSUME NEW r \in Uids, Close(r)
      PROVE  u \in crashed'
  BY <1>3 DEF Close, ShapeInv, PagesTyped
<1> QED
  BY <1>1, <1>2, <1>3
  DEF MeshNext, ServeJoin, ServeLeave, Forward, Deliver, Rejoin, Apply, Open, Handle, peers, meshVars

(* A pair stays together as long as neither joins again.                   *)
LEMMA ChainStep ==
  ASSUME ShapeInv, ShapeInv', KnownInv, [MeshNext]_meshVars, NEW p \in Uids, NEW q \in Uids, p # q,
         Firm(p), Firm(q), Firm(p)', Firm(q)', ~(ServeJoin /\ joining.uid \in {p, q}),
         Chain(p, q)
  PROVE  p \in crashed' \/ q \in crashed' \/ Chain(p, q)'
<1>1. CASE \/ UNCHANGED meshVars \/ ServeLeave \/ Forward \/ Deliver \/ ServeJoin
           \/ \E r \in Uids : Handle(r)
  BY <1>1, ChainOfServer
<1>2. ASSUME NEW r \in Uids, Receive(r), r \in {p, q}
      PROVE  p \in crashed' \/ q \in crashed' \/ Chain(p, q)'
  BY <1>2, ChainOfReceive
<1>3. ASSUME NEW r \in Uids, Apply(r)
      PROVE  Chain(p, q)'
  BY <1>3, ChainOfApply
<1>4. ASSUME NEW r \in Uids, Rejoin(r) \/ Open(r) \/ Close(r), r \in {p, q}
      PROVE  FALSE
  <2>1. open[r] /\ open'[r] /\ \A t \in later'[r] : t[1] # "again"
    BY <1>4 DEF Firm, Due
  <2>2. ~Open(r) /\ ~Close(r)
    BY <2>1 DEF Open, Close, ShapeInv, PagesTyped
  <2>3. Rejoin(r) => <<"again", moves'>> \in later'[r]
    BY DEF Rejoin, ShapeInv, PagesTyped
  <2> QED
    BY <1>4, <2>1, <2>2, <2>3
<1>5. ASSUME NEW r \in Uids \ {p, q}, Rejoin(r) \/ Open(r) \/ Receive(r) \/ Close(r)
      PROVE  Chain(p, q)'
  BY <1>5, ChainOfOthers
<1> QED
  BY <1>1, <1>2, <1>3, <1>4, <1>5 DEF MeshNext

LEMMA ChainInvStep ==
  ASSUME ShapeInv, ShapeInv', KnownInv, MemberInv, ChainInv, [MeshNext]_meshVars
  PROVE  ChainInv'
<1> SUFFICES ASSUME NEW p \in Uids, NEW q \in Uids, p # q, Firm(p)', Firm(q)'
             PROVE  p \in crashed' \/ q \in crashed' \/ Chain(p, q)' \/ Chain(q, p)'
  BY DEF ChainInv
<1>1. ASSUME NEW u \in {p, q}, NEW v \in {p, q}, u # v, ServeJoin, joining.uid = u
      PROVE  Chain(u, v)'
  <2>1. Firm(v)
    BY <1>1, FirmStep
  <2>2. v \in members \ {u}
    BY <1>1, <2>1 DEF Firm
  <2> QED
    BY <1>1, <2>2, ChainOfJoin
<1>2. CASE ~(ServeJoin /\ joining.uid \in {p, q})
  <2>1. Firm(p) /\ Firm(q)
    BY <1>2, FirmStep
  <2>2. \A u \in {p, q} : u \in crashed => u \in crashed'
    BY CrashedStays DEF Firm
  <2> QED
    BY <1>2, <2>1, <2>2, ChainStep DEF ChainInv
<1> QED
  BY <1>1, <1>2

LEMMA ChainInvariant == MeshSpec => []ChainInv
<1>1. MeshInit => ChainInv
  BY DEF MeshInit, Init, ChainInv, Firm
<1> QED
  BY <1>1, ShapeInvariant, KnownInvariant, MemberInvariant, ChainInvStep, PTL DEF MeshSpec

(* When nothing is under way, a pair kept together watches each other, but *)
(* for what excuses it.                                                    *)
LEMMA QuietChain ==
  ASSUME ShapeInv, Quiet, NEW p \in Uids, NEW q \in Uids, p # q, Chain(p, q)
  PROVE  Excused(p, q) \/ (Watching(p, q) /\ Watching(q, p))
<1>1. PICK c : c = Latest(p, q)
  OBVIOUS
<1>2. c[1] = p /\ c[2] = q
  BY <1>1 DEF Latest, Call
<1>3. \A u \in Uids : Wire(u) = <<>> /\ later[u] = {}
  BY DEF Quiet, Wire
<1>4. ASSUME NEW s, s = <<>>, NEW x
      PROVE  ~RenewedIn(s, x) /\ ~ListedIn(s, x) /\ ~OfferIn(s, x) /\ ~AnswerIn(s, x)
  BY <1>4 DEF RenewedIn, ListedIn, OfferIn, AnswerIn
<1>5. ASSUME NEW u \in {p, q}, NEW v \in {p, q}, u # v, NEW e \in CallsOf(u, v)
      PROVE  /\ ~OfferComes(e) /\ ~AnswerComes(e)
             /\ State(e) \in {"stale", "late"} \/ (State(e) = "answered" /\ ~Kept(e)) => Excused(p, q)
  <2>1. e[1] = u /\ e[2] = v /\ e \in Calls /\ e # None
    BY <1>5, BetweenAre, BetweenIs DEF CallsOf
  <2>2. ~OfferComes(e) /\ ~AnswerComes(e)
    BY <1>3, <1>4, <2>1 DEF OfferComes, AnswerComes, Quiet
  <2>3. {e[1], e[2]} = {p, q}
    BY <1>5, <2>1
  <2> QED
    BY <2>1, <2>2, <2>3 DEF Excused
<1>6. CalledWith(p, q, c)
  BY <1>1, <1>3, <1>4 DEF Chain
<1>7. c \in CallsOf(p, q) /\ ~OfferComes(c) /\ ~AnswerComes(c)
  BY <1>5, <1>6 DEF CalledWith
<1> SUFFICES ASSUME ~Excused(p, q) PROVE Watching(p, q) /\ Watching(q, p)
  OBVIOUS
<1>8. State(c) = "connected" /\ CalleeShows(c) /\ Kept(c) /\ CallerShows(c)
  <2>1. State(c) \notin {"stale", "late"} /\ ~(State(c) = "answered" /\ ~Kept(c))
    BY <1>5, <1>7
  <2> QED
    BY <1>6, <1>7, <2>1 DEF CalledWith
<1>9. Watching(q, p)
  <2>1. PICK e \in CallsOf(p, q) : Shows(q, p, e) /\ (e = c \/ Ended(e))
    BY <1>2, <1>8 DEF CalleeShows
  <2>2. State(e) = "connected"
    BY <1>5, <1>8, <2>1 DEF Ended
  <2> QED
    BY <2>1, <2>2 DEF Watching, Shows
<1>10. Watching(p, q)
  <2>1. CASE Shows(p, q, c)
    BY <1>8, <2>1 DEF Watching, Shows
  <2>2. ASSUME NEW e \in CallsOf(q, p), Shows(p, q, e), Settling(e)
        PROVE  Watching(p, q)
    <3>1. State(e) = "connected"
      BY <1>5, <2>2 DEF Settling, Ended
    <3> QED
      BY <2>2, <3>1 DEF Watching, Shows
  <2>3. ~RenewedIn(Wire(q), p)
    BY <1>3, <1>4
  <2> QED
    BY <1>2, <1>5, <1>8, <2>1, <2>2, <2>3 DEF CallerShows
<1> QED
  BY <1>9, <1>10

(* When nothing is under way, the pages of any two users in the mesh watch *)
(* each other, whatever the order in which the joins, the offers and the   *)
(* answers of any number of users were served, but for the five cases that *)
(* Excused names.                                                          *)
THEOREM PagesWatchEachOther == MeshSpec => []MeshComplete
<1>1. ShapeInv /\ MemberInv /\ ChainInv => MeshComplete
  <2> SUFFICES ASSUME ShapeInv, MemberInv, ChainInv, Quiet,
                      NEW u \in members, NEW v \in members, u # v, open[u], open[v]
               PROVE  Watching(u, v) \/ Excused(u, v)
    BY DEF MeshComplete
  <2>1. u \in Uids /\ v \in Uids
    BY DEF MemberInv
  <2>2. (Firm(u) /\ Firm(v)) \/ u \in silent \/ v \in silent
    <3>1. None \notin Uids
      BY NoneAssumption
    <3> QED
      BY <2>1, <3>1 DEF Quiet, Firm, Due
  <2>3. CASE u \in crashed \cup silent \/ v \in crashed \cup silent
    BY <2>3 DEF Excused
  <2>4. CASE Chain(u, v)
    BY <2>1, <2>4, QuietChain
  <2>5. CASE Chain(v, u)
    <3>1. Excused(v, u) \/ Watching(u, v)
      BY <2>1, <2>5, QuietChain
    <3>2. Excused(v, u) => Excused(u, v)
      <4>1. {u, v} = {v, u}
        OBVIOUS
      <4> QED
        BY <4>1 DEF Excused
    <3> QED
      BY <3>1, <3>2
  <2> QED
    BY <2>1, <2>2, <2>3, <2>4, <2>5 DEF ChainInv
<1> QED
  BY <1>1, ShapeInvariant, MemberInvariant, ChainInvariant, PTL
=============================================================================
