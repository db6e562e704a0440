------------------------------ MODULE PoolProofs ------------------------------
(* Proofs about Pool, for any number of requests and connections.          *)
EXTENDS Pool, FiniteSetTheorems, TLAPS

(* The connections the recorder holds, by how far it is.                   *)
RecHolds == IF rec \in {"recv", "first"} THEN 0 ELSE IF rec = "update" THEN 2 ELSE 1

(* The stages that wait for others to give back what they have.            *)
Shared == {"acquire", "record"}

(* A body has one of them, and a handler with a connection is past it.     *)
AcquiresOnce ==
  \A r \in Requests : \A i \in DOMAIN todo[r] :
    todo[r][i] \in Shared =>
      r \notin holds /\ \A j \in DOMAIN todo[r] : todo[r][j] \in Shared => j = i

(* It is never the last thing a body does.                                 *)
NeverLast ==
  \A r \in Requests : \A i \in DOMAIN todo[r] : todo[r][i] \in Shared => i # Len(todo[r])

(* The handler whose blob the recorder has waits for it.                   *)
Posted == rec # "recv" => At(recFor, "record")

(* What the counting depends on, and the rest of the types.                *)
CoreType ==
  /\ todo \in [Requests -> Seq(Stages)]
  /\ holds \subseteq Requests
  /\ idle \in 0 .. MaxConns
  /\ rec \in {"recv", "first", "select", "second", "update", "write"}
  /\ recFor \in Requests \cup {None}
  /\ recFor = None <=> rec = "recv"

FlagsType ==
  /\ begun \subseteq Requests /\ late \subseteq Requests
  /\ flowing \in BOOLEAN /\ alive \in BOOLEAN /\ recLate \in BOOLEAN

(* A request that has not arrived has nothing to do.                       *)
BegunOnly == \A r \in Requests \ begun : todo[r] = <<>>

(* Finitely many handlers hold connections, so that they can be counted.   *)
PoolInv ==
  /\ CoreType
  /\ Conserved
  /\ BegunOnly
  /\ IsFiniteSet(holds)
  /\ recHolds = RecHolds
  /\ AcquiresOnce
  /\ NeverLast
  /\ Posted

(* All connections are idle at first.                                      *)
LEMMA PoolInit == Init => PoolInv
<1> SUFFICES ASSUME Init PROVE PoolInv
  OBVIOUS
<1>1. IsFiniteSet(holds) /\ Cardinality(holds) = 0
  BY FS_EmptySet DEF Init
<1>2. CoreType
  BY MaxConnsAssumption, NoneAssumption DEF Init, CoreType
<1>3. Conserved
  BY <1>1, MaxConnsAssumption DEF Init, Conserved
<1>4. recHolds = RecHolds /\ AcquiresOnce /\ BegunOnly /\ NeverLast /\ Posted
  BY DEF Init, RecHolds, AcquiresOnce, BegunOnly, NeverLast, Posted
<1> QED
  BY <1>1, <1>2, <1>3, <1>4 DEF PoolInv

(* Every body is a sequence of stages and takes a connection at most once. *)
LEMMA BodiesType ==
  ASSUME NEW kind \in DOMAIN Bodies
  PROVE  /\ Bodies[kind] \in Seq(Stages) /\ Bodies[kind] # <<>>
         /\ \A i, j \in DOMAIN Bodies[kind] :
              Bodies[kind][i] \in Shared /\ Bodies[kind][j] \in Shared => j = i
         /\ \A i \in DOMAIN Bodies[kind] :
              Bodies[kind][i] \in Shared => i # Len(Bodies[kind])
<1>1. kind \in {"read", "login", "register", "newcomer", "delete", "old", "refresh", "chunk"}
  BY DEF Bodies
<1>2. CASE kind = "read"
  <2>1. Bodies[kind] = <<"acquire", "query">>
    BY <1>2 DEF Bodies, Read
  <2> QED
    BY <2>1 DEF Stages, Shared
<1>3. CASE kind = "login"
  <2>1. Bodies[kind] = <<"acquire", "query", "authorize">>
    BY <1>3 DEF Bodies, StreamerLogin
  <2> QED
    BY <2>1 DEF Stages, Shared
<1>4. CASE kind = "register"
  <2>1. Bodies[kind] = <<"acquire", "query", "authorize", "send">>
    BY <1>4 DEF Bodies, StreamerRegister
  <2> QED
    BY <2>1 DEF Stages, Shared
<1>5. CASE kind = "newcomer"
  <2>1. Bodies[kind] = <<"acquire", "query", "send", "authorize">>
    BY <1>5 DEF Bodies, InitialLogin
  <2> QED
    BY <2>1 DEF Stages, Shared
<1>6. CASE kind = "delete"
  <2>1. Bodies[kind] = <<"session", "acquire", "send", "query", "send">>
    BY <1>6 DEF Bodies, DeleteStream
  <2> QED
    BY <2>1 DEF Stages, Shared
<1>7. CASE kind = "old"
  <2>1. Bodies[kind] = <<"session", "send", "acquire", "query">>
    BY <1>7 DEF Bodies, GetOldStreams
  <2> QED
    BY <2>1 DEF Stages, Shared
<1>8. CASE kind = "refresh"
  <2>1. Bodies[kind] = <<"session", "authorize">>
    BY <1>8 DEF Bodies, Refresh
  <2> QED
    BY <2>1 DEF Stages, Shared
<1>9. CASE kind = "chunk"
  <2>1. Bodies[kind] = <<"session", "record", "return">>
    BY <1>9 DEF Bodies, HandleChunk
  <2> QED
    BY <2>1 DEF Stages, Shared
<1> QED
  BY <1>1, <1>2, <1>3, <1>4, <1>5, <1>6, <1>7, <1>8, <1>9

(* A sequence of more than one element has a rest.                         *)
LEMMA TailNonempty ==
  ASSUME NEW S, NEW s \in Seq(S), s # <<>>, Len(s) # 1
  PROVE  Tail(s) # <<>>
<1>1. Len(Tail(s)) = Len(s) - 1 /\ Len(s) # 0 /\ Len(s) \in Nat
  OBVIOUS
<1>2. Len(Tail(s)) # 0
  BY <1>1
<1>3. Len(<<>>) = 0
  OBVIOUS
<1> QED
  BY <1>2, <1>3, Zenon

(* What is left of a body after a stage takes no more connections.         *)
LEMMA TailType ==
  ASSUME PoolInv, NEW r \in Requests, todo[r] # <<>>
  PROVE  /\ Tail(todo[r]) \in Seq(Stages) /\ <<>> \in Seq(Stages)
         /\ Len(Tail(todo[r])) + 1 = Len(todo[r])
         /\ \A i \in DOMAIN Tail(todo[r]) : i + 1 \in DOMAIN todo[r] /\ Tail(todo[r])[i] = todo[r][i + 1]
  BY DEF CoreType, PoolInv

(* The handlers' share of the invariant, when r goes on with rest.         *)
LEMMA AcquiresOnceStep ==
  ASSUME PoolInv, NEW r \in Requests, NEW rest \in {<<>>, Tail(todo[r])}, todo[r] # <<>>,
         todo' = [todo EXCEPT ![r] = rest], holds' \in SUBSET holds
  PROVE  AcquiresOnce' /\ NeverLast'
<1> USE DEF PoolInv, CoreType, AcquiresOnce, NeverLast
<1>1. \A q \in Requests \ {r} : todo'[q] = todo[q]
  OBVIOUS
<1>2. todo'[r] = rest
  OBVIOUS
<1>3. CASE rest = <<>>
  BY <1>1, <1>2, <1>3
<1>4. CASE rest = Tail(todo[r])
  <2>1. ASSUME NEW i \in DOMAIN rest, rest[i] \in Shared
        PROVE  r \notin holds /\ \A j \in DOMAIN rest : rest[j] \in Shared => j = i
    <3>1. \A k \in DOMAIN rest : k \in Nat /\ k + 1 \in DOMAIN todo[r] /\ rest[k] = todo[r][k + 1]
      BY <1>4, TailType
    <3>2. r \notin holds
      BY <2>1, <3>1
    <3>3. ASSUME NEW j \in DOMAIN rest, rest[j] \in Shared PROVE j = i
      <4>1. i + 1 = j + 1
        BY <2>1, <3>1, <3>3
      <4> QED
        BY <3>1, <4>1
    <3> QED
      BY <3>2, <3>3
  <2>2. ASSUME NEW i \in DOMAIN rest, rest[i] \in Shared PROVE i # Len(rest)
    <3>1. i \in Nat /\ i + 1 \in DOMAIN todo[r] /\ rest[i] = todo[r][i + 1]
      BY <1>4, TailType
    <3> QED
      BY <1>4, <2>2, <3>1, TailType
  <2> QED
    BY <1>1, <1>2, <2>1, <2>2
<1> QED
  BY <1>3, <1>4

(* A handler that goes on keeps its connection, and gives it back at its   *)
(* end.                                                                    *)
LEMMA GoOnStep ==
  ASSUME PoolInv, NEW r \in Requests, NEW rest \in {<<>>, Tail(todo[r])}, todo[r] # <<>>,
         ~At(r, "record"), GoOn(r, rest), Aside
  PROVE  PoolInv'
<1> USE MaxConnsAssumption DEF PoolInv, recVars, Aside
<1>0. rest \in Seq(Stages) /\ recHolds \in 0 .. 2
  <2>1. rest \in Seq(Stages)
    BY TailType
  <2>2. recHolds \in 0 .. 2
    BY DEF RecHolds
  <2> QED
    BY <2>1, <2>2
<1>1. CoreType' /\ IsFiniteSet(holds') /\ idle' + Cardinality(holds') = idle + Cardinality(holds)
  <2>1. CASE rest = <<>> /\ r \in holds
    <3>1. idle' = idle + 1 /\ holds' = holds \ {r}
      BY <2>1 DEF GoOn
    <3>2. IsFiniteSet(holds') /\ Cardinality(holds') = Cardinality(holds) - 1
      BY <2>1, <3>1, FS_RemoveElement
    <3>3. Cardinality(holds) \in Nat /\ Cardinality(holds') \in Nat
      BY <3>2, FS_CardinalityType
    <3>4. idle' \in 0 .. MaxConns
      <4>1. idle \in Nat /\ recHolds \in Nat /\ idle + Cardinality(holds) + recHolds = MaxConns
        BY <1>0 DEF CoreType, Conserved
      <4> HIDE DEF PoolInv
      <4> QED
        BY <3>1, <3>2, <3>3, <4>1, MaxConnsAssumption
    <3>5. CoreType'
      BY <1>0, <3>1, <3>4 DEF CoreType, GoOn
    <3> QED
      BY <3>1, <3>2, <3>3, <3>5 DEF CoreType
  <2>2. CASE ~(rest = <<>> /\ r \in holds)
    BY <1>0, <2>2 DEF GoOn, CoreType
  <2> QED
    BY <2>1, <2>2
<1>2. \A q \in holds' : todo'[q] # <<>>
  BY <1>0 DEF GoOn, CoreType, Conserved
<1>3. Conserved'
  BY <1>1, <1>2 DEF Conserved
<1>4. recHolds' = RecHolds'
  BY DEF RecHolds
<1>5. AcquiresOnce' /\ NeverLast'
  <2>1. holds' \in SUBSET holds /\ todo' = [todo EXCEPT ![r] = rest]
    BY DEF GoOn
  <2> QED
    BY <2>1, AcquiresOnceStep
<1>6. BegunOnly'
  BY <1>0 DEF GoOn, BegunOnly, CoreType
<1>7. Posted'
  BY DEF GoOn, Posted, At, CoreType
<1> QED
  BY <1>1, <1>3, <1>4, <1>5, <1>6, <1>7

(* Nor does a handler lose or gain one otherwise.                          *)
LEMMA RequestSteps ==
  ASSUME PoolInv, NEW r \in Requests, Begin(r) \/ RequestStep(r) \/ Post(r) \/ Late(r)
  PROVE  PoolInv'
<1> USE DEF PoolInv
<1>1. CASE Begin(r)
  <2>1. PICK kind \in DOMAIN Bodies : todo' = [todo EXCEPT ![r] = Bodies[kind]]
    BY <1>1 DEF Begin
  <2>2. todo[r] = <<>> /\ r \notin holds
    BY <1>1 DEF Begin, BegunOnly, Conserved
  <2>3. CoreType'
    BY <1>1, <2>1, BodiesType DEF Begin, CoreType, recVars
  <2>4. Conserved'
    BY <1>1, <2>1, <2>2 DEF Begin, CoreType, Conserved, recVars
  <2>5. todo'[r] = Bodies[kind] /\ (\A q \in Requests \ {r} : todo'[q] = todo[q]) /\ holds' = holds
    BY <1>1, <2>1 DEF Begin, CoreType
  <2>6. AcquiresOnce' /\ NeverLast'
    BY <2>2, <2>5, BodiesType DEF AcquiresOnce, NeverLast
  <2>7. BegunOnly'
    BY <1>1, <2>5 DEF Begin, BegunOnly
  <2>8. Posted'
    BY <1>1, <2>2, <2>5 DEF Begin, Posted, At, CoreType, recVars
  <2> QED
    BY <1>1, <2>3, <2>4, <2>6, <2>7, <2>8 DEF Begin, RecHolds, recVars
<1>2. CASE Acquire(r)
  <2>1. todo[r] \in Seq(Stages) /\ todo[r] # <<>> /\ todo[r][1] = "acquire"
    BY <1>2 DEF Acquire, At, CoreType
  <2>2. r \notin holds
    BY <2>1 DEF AcquiresOnce, Shared
  <2>3. IsFiniteSet(holds') /\ Cardinality(holds') = Cardinality(holds) + 1 /\ Cardinality(holds) \in Nat
    BY <1>2, <2>2, FS_AddElement, FS_CardinalityType DEF Acquire
  <2>4. todo' = [todo EXCEPT ![r] = Tail(@)] /\ idle' = idle - 1 /\ holds' = holds \cup {r}
    BY <1>2 DEF Acquire
  <2>5. CoreType'
    <3>1. Tail(todo[r]) \in Seq(Stages)
      BY <2>1, TailType
    <3>2. idle' \in 0 .. MaxConns
      BY <1>2, MaxConnsAssumption DEF Acquire, CoreType
    <3> QED
      BY <1>2, <3>1, <3>2 DEF Acquire, Aside, recVars, CoreType
  <2>6. \A q \in holds' : todo'[q] # <<>>
    <3>1. 1 \in DOMAIN todo[r] /\ Len(todo[r]) # 1
      BY <2>1 DEF NeverLast, Shared
    <3>2. Tail(todo[r]) # <<>>
      BY <2>1, <3>1, TailNonempty
    <3> QED
      BY <2>4, <3>2 DEF CoreType, Conserved
  <2>7. Conserved'
    BY <1>2, <2>3, <2>4, <2>6 DEF Acquire, Aside, recVars, Conserved, CoreType
  <2>8. AcquiresOnce' /\ NeverLast'
    <3> DEFINE rest == Tail(todo[r])
    <3>1. \A k \in DOMAIN rest : k \in Nat /\ k + 1 # 1 /\ k + 1 \in DOMAIN todo[r] /\ rest[k] = todo[r][k + 1]
      BY <2>1, TailType
    <3>2. \A k \in DOMAIN rest : rest[k] \notin Shared
      BY <2>1, <3>1 DEF AcquiresOnce, Shared
    <3>4. todo'[r] = rest /\ \A q \in Requests \ {r} : todo'[q] = todo[q]
      BY <2>4 DEF CoreType
    <3> HIDE DEF rest
    <3>5. NeverLast'
      BY <3>2, <3>4 DEF NeverLast
    <3>6. AcquiresOnce'
      BY <2>4, <3>2, <3>4 DEF AcquiresOnce
    <3> QED
      BY <3>5, <3>6
  <2>9. Posted'
    BY <1>2, <2>1, <2>4 DEF Acquire, Aside, recVars, Posted, At, CoreType
  <2> QED
    BY <1>2, <2>3, <2>5, <2>7, <2>8, <2>9 DEF Acquire, Aside, recVars, RecHolds, BegunOnly
<1>3. CASE todo[r] # <<>> /\ ~At(r, "record") /\ \E rest \in {<<>>, Tail(todo[r])} : GoOn(r, rest) /\ Aside
  BY <1>3, GoOnStep
<1>4. CASE Answered(r) \/ Refused(r) \/ Send(r) \/ Authorize(r) \/ Return(r)
  BY <1>3, <1>4 DEF Answered, Refused, Send, Authorize, Return, At
<1>5. CASE AuthorizeDies(r) \/ Late(r)
  BY <1>5 DEF AuthorizeDies, Late, requestVars, recVars, CoreType, Conserved, RecHolds, AcquiresOnce, BegunOnly, NeverLast, Posted, At
<1>6. CASE Post(r)
  BY <1>6, NoneAssumption DEF Post, requestVars, CoreType, Conserved, RecHolds, AcquiresOnce, BegunOnly, NeverLast, Posted, At
<1> QED
  BY <1>1, <1>2, <1>4, <1>5, <1>6 DEF RequestStep

(* Nor does the recorder: what it takes and gives back adds up.            *)
LEMMA RecorderSteps ==
  ASSUME PoolInv, RecorderStep
  PROVE  PoolInv'
<1> USE MaxConnsAssumption, NoneAssumption DEF PoolInv, requestVars
<1>1. Cardinality(holds) \in Nat
  BY FS_CardinalityType
<1>2. CASE FirstConn
  BY <1>1, <1>2 DEF FirstConn, CoreType, Conserved, RecHolds, AcquiresOnce, BegunOnly, NeverLast, Posted, At
<1>3. CASE Select
  BY <1>1, <1>3 DEF Select, CoreType, Conserved, RecHolds, AcquiresOnce, BegunOnly, NeverLast, Posted, At
<1>4. CASE SecondConn
  BY <1>1, <1>4 DEF SecondConn, CoreType, Conserved, RecHolds, AcquiresOnce, BegunOnly, NeverLast, Posted, At
<1>5. CASE Update
  BY <1>1, <1>5 DEF Update, CoreType, Conserved, RecHolds, AcquiresOnce, BegunOnly, NeverLast, Posted, At
<1>6. CASE FirstConnFails \/ InsertDies
  BY <1>6 DEF FirstConnFails, InsertDies, recVars, CoreType, Conserved, RecHolds, AcquiresOnce, BegunOnly, NeverLast, Posted, At
<1>7. CASE Answer /\ rec # "recv"
  <2>1. recFor \in Requests /\ recHolds \in 0 .. 2
    BY <1>7 DEF CoreType, RecHolds
  <2>2. todo[recFor] \in Seq(Stages) /\ todo[recFor] # <<>> /\ todo[recFor][1] = "record"
    BY <1>7, <2>1 DEF Posted, At, CoreType
  <2>3. Tail(todo[recFor]) \in Seq(Stages) /\ Len(Tail(todo[recFor])) + 1 = Len(todo[recFor])
    BY <2>1, <2>2, TailType
  <2>4. Len(todo[recFor]) # 1
    BY <2>1, <2>2 DEF NeverLast, Shared
  <2>5. Tail(todo[recFor]) # <<>>
    BY <2>2, <2>4, TailNonempty
  <2>6. /\ todo' = [todo EXCEPT ![recFor] = Tail(todo[recFor])] /\ holds' = holds /\ begun' = begun
        /\ idle' = idle + recHolds /\ recHolds' = 0 /\ rec' = "recv" /\ recFor' = None
    BY <1>7 DEF Answer
  <2>7. AcquiresOnce' /\ NeverLast'
    BY <2>1, <2>2, <2>6, AcquiresOnceStep
  <2>8. CoreType'
    BY <1>1, <2>1, <2>3, <2>6 DEF CoreType, Conserved
  <2>9. Conserved'
    BY <1>1, <2>1, <2>5, <2>6 DEF CoreType, Conserved
  <2> QED
    BY <2>1, <2>2, <2>6, <2>7, <2>8, <2>9 DEF BegunOnly, RecHolds, Posted, CoreType
<1> QED
  BY <1>2, <1>3, <1>4, <1>5, <1>6, <1>7 DEF RecorderStep, Written, Errored

(* The rest of the types.                                                  *)
LEMMA FlagsStep ==
  ASSUME FlagsType, [Next]_vars
  PROVE  FlagsType'
<1> USE DEF FlagsType, requestVars, recVars
<1>1. CASE UNCHANGED vars
  BY <1>1 DEF vars
<1>2. ASSUME NEW r \in Requests, Begin(r) \/ RequestStep(r) \/ Post(r) \/ Late(r)
      PROVE  FlagsType'
  BY <1>2 DEF Begin, RequestStep, Acquire, Answered, Refused, Send, Authorize, AuthorizeDies, Return,
       GoOn, Aside, Post, Late
<1>3. CASE RecorderStep \/ RecLate \/ Stall
  BY <1>3 DEF RecorderStep, FirstConn, FirstConnFails, Select, SecondConn, Update, Written, Errored,
       Answer, InsertDies, RecLate, Stall
<1> QED
  BY <1>1, <1>2, <1>3 DEF Next

(* Every step keeps the invariant.                                         *)
LEMMA PoolStep ==
  ASSUME PoolInv, [Next]_vars
  PROVE  PoolInv'
<1>1. CASE RecLate \/ Stall \/ UNCHANGED vars
  BY <1>1 DEF RecLate, Stall, vars, requestVars, recVars, PoolInv, CoreType, Conserved, BegunOnly,
       RecHolds, AcquiresOnce, NeverLast, Posted, At
<1> QED
  BY <1>1, RequestSteps, RecorderSteps DEF Next

(* No connection is lost or given back twice, for any number of requests   *)
(* and connections: the counting of db.go's pool by handlers and recorder. *)
THEOREM PoolConserved == Spec => []Conserved
<1>1. PoolInv => Conserved
  BY DEF PoolInv
<1> QED
  BY <1>1, PoolInit, PoolStep, PTL DEF Spec

(* The types of the pool's state, for any number of requests.              *)
THEOREM PoolTypes == Spec => []TypeOK
<1>1. Init => FlagsType
  BY DEF Init, FlagsType
<1>2. PoolInv /\ FlagsType => TypeOK
  <2> SUFFICES ASSUME PoolInv, FlagsType PROVE TypeOK
    OBVIOUS
  <2>1. recHolds \in 0 .. 2
    BY DEF PoolInv, RecHolds
  <2> QED
    BY <2>1 DEF PoolInv, CoreType, FlagsType, TypeOK
<1> QED
  BY <1>1, <1>2, PoolInit, PoolStep, FlagsStep, PTL DEF Spec

(* While the two servers take what is sent to them, the pool never stops   *)
(* everybody, with any two connections or more: who holds one is past the  *)
(* stage that waits for another, and the recorder waits with at most one.  *)
THEOREM PoolGoesOn == Spec => []NeverAllWaiting
<1>1. PoolInv => NeverAllWaiting
  <2> SUFFICES ASSUME PoolInv, flowing, ~NeverAllWaiting
               PROVE  FALSE
    BY DEF NeverAllWaiting
  <2>1. /\ rec # "recv" \/ \E r \in Requests : todo[r] # <<>>
        /\ rec # "recv" => RecWaiting
        /\ \A r \in Requests : todo[r] # <<>> => Waiting(r)
    BY DEF NeverAllWaiting
  <2>2. idle \in Nat /\ idle + Cardinality(holds) + recHolds = MaxConns
    BY DEF PoolInv, CoreType, Conserved
  <2>3. ASSUME NEW r \in holds PROVE FALSE
    <3>1. r \in Requests /\ todo[r] # <<>> /\ todo[r] \in Seq(Stages)
      BY DEF PoolInv, CoreType, Conserved
    <3>2. 1 \in DOMAIN todo[r] /\ todo[r][1] \in Shared
      BY <2>1, <3>1 DEF Waiting, At, Shared
    <3> QED
      BY <3>1, <3>2 DEF PoolInv, AcquiresOnce
  <2>4. Cardinality(holds) = 0
    <3>1. holds = {}
      BY <2>3
    <3> QED
      BY <3>1, FS_EmptySet
  <2>5. recHolds \in 0 .. 1
    BY <2>1 DEF PoolInv, RecHolds, RecWaiting
  <2>6. idle # 0
    BY <2>2, <2>4, <2>5, MaxConnsAssumption
  <2>7. rec = "recv"
    BY <2>1, <2>6 DEF RecWaiting
  <2> QED
    BY <2>1, <2>6, <2>7 DEF Waiting
<1> QED
  BY <1>1, PoolInit, PoolStep, PTL DEF Spec
=============================================================================
