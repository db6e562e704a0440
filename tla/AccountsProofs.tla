--------------------------- MODULE AccountsProofs ---------------------------
(***************************************************************************)
(* Proofs about Accounts: types, and what the sessions of a browser's      *)
(* cookies may be, for any number of browsers, requests and streamers.     *)
(***************************************************************************)
EXTENDS Accounts, TLAPS

(* A request in progress that came with a cookie.                          *)
Refreshing(r) == pc[r] # "idle" /\ op[r].kind = "refresh"

(* The two refresh commands are for refreshes, the SQL for the others.     *)
StepFitsKind ==
  \A r \in Reqs :
    /\ pc[r] \in {"exists", "select", "insert"} => op[r].kind # "refresh"
    /\ pc[r] \in {"get", "del"} => op[r].kind = "refresh"

(* Every session id in circulation has been made.                          *)
SidsMade ==
  /\ \A b \in Browsers : cookie[b] \in made \cup {None}
  /\ \A r \in Reqs : Refreshing(r) => op[r].sid \in made
  /\ \A r \in Reqs : pc[r] = "respond" => new[r] \in made

(* A session id that no browser has got yet is known to one request only.  *)
NewIsPrivate ==
  \A r \in Reqs : pc[r] = "respond" =>
    /\ \A b \in Browsers : cookie[b] # new[r]
    /\ \A q \in Reqs : Refreshing(q) => op[q].sid # new[r]
    /\ \A q \in Reqs : pc[q] = "respond" /\ new[q] = new[r] => q = r

(* No two browsers share a session, nor does a request carry another's.    *)
OneBrowserPerSid ==
  /\ \A b, c \in Browsers : cookie[b] # None /\ cookie[b] = cookie[c] => b = c
  /\ \A r \in Reqs, b \in Browsers : Refreshing(r) /\ op[r].sid = cookie[b] => op[r].browser = b

(* What a request is about to make, or has made, a session for.            *)
UidOfOwnLogin ==
  \A r \in Reqs :
    /\ Refreshing(r) /\ sessions[op[r].sid] # None => sessions[op[r].sid] \in logins[op[r].browser]
    /\ Refreshing(r) /\ pc[r] \in {"del", "authorize", "respond"} => uid[r] \in logins[op[r].browser]
    /\ pc[r] = "respond" => sessions[new[r]] \in {uid[r], None}

(* A session that has been made for an answer lasts until it runs out.     *)
NewIsLive ==
  \A r \in Reqs : pc[r] = "respond" /\ sessions[new[r]] = None => new[r] \in expired

(* What StreamerRegister and InitialLogin looked for before they insert.   *)
Checked(r) == IF op[r].kind = "register" THEN Trim[op[r].name] ELSE op[r].name

ExistsIsRegister == \A r \in Reqs : pc[r] = "exists" => op[r].kind = "register"

(* It is still not there when the insert comes, unless another inserted.   *)
StillFree == \A r \in Reqs : pc[r] = "insert" /\ r \notin late => Found(Checked(r)) = {}

SidInv == TypeOK /\ StepFitsKind /\ SidsMade /\ NewIsPrivate /\ OneBrowserPerSid
LoginInv == SidInv /\ UidOfOwnLogin /\ CookieOfOwnLogin
UsableInv == SidInv /\ NewIsLive /\ CookieStaysUsable
NamesInv == SidInv /\ ExistsIsRegister /\ StillFree /\ ClashesOnlyByRace

-----------------------------------------------------------------------------
(* Both invariants hold before anybody has logged in.                      *)
LEMMA AccountInit == Init => LoginInv /\ UsableInv
  BY NoneAssumption
  DEF Init, LoginInv, UsableInv, SidInv, TypeOK, StepFitsKind, SidsMade, NewIsPrivate,
      OneBrowserPerSid, UidOfOwnLogin, CookieOfOwnLogin, NewIsLive, CookieStaysUsable, Refreshing

(* A request that ends without an answer to its browser disturbs nothing.  *)
LEMMA EndKeeps ==
  ASSUME SidInv, NEW r \in Reqs, End(r),
         UNCHANGED <<streamers, sessions, made, cookie, logins, raced, expired>>,
         orphaned' \subseteq Sids
  PROVE  SidInv'
<1>1. TypeOK'
  BY DEF SidInv, TypeOK, End, Goto
<1> QED
  BY <1>1 DEF SidInv, TypeOK, End, Goto, StepFitsKind, SidsMade, NewIsPrivate,
      OneBrowserPerSid, Refreshing

(* What a new request is, and where it starts.                             *)
LEMMA BeginShape ==
  ASSUME NEW r \in Reqs, Begin(r)
  PROVE  \E q \in Request, first \in {"exists", "select", "get"} :
           /\ q.browser \in Browsers
           /\ q.kind = "refresh" => q.sid \in Sids /\ q.sid = cookie[q.browser]
           /\ first = "get" <=> q.kind = "refresh"
           /\ first = "exists" <=> q.kind = "register"
           /\ op' = [op EXCEPT ![r] = q]
           /\ pc' = [pc EXCEPT ![r] = first]
<1>1. PICK q \in Request :
        /\ q.kind = "refresh" => q.sid = cookie[q.browser]
        /\ op' = [op EXCEPT ![r] = q]
        /\ pc' = [pc EXCEPT ![r] = FirstStep[q.kind]]
  BY DEF Begin
<1>2. /\ q.browser \in Browsers
      /\ q.kind \in {"register", "initial", "login", "refresh"}
      /\ q.kind = "refresh" => q.sid \in Sids
  BY RequestKindsAssumption DEF Request
<1>3. /\ FirstStep.register = "exists" /\ FirstStep.initial = "select"
      /\ FirstStep.login = "select" /\ FirstStep.refresh = "get"
  BY DEF FirstStep
<1> QED
  BY <1>1, <1>2, <1>3

(* A new request carries its own browser's cookie.                         *)
LEMMA BeginSids ==
  ASSUME SidInv, NEW r \in Reqs, Begin(r)
  PROVE  SidInv'
<1> USE NoneAssumption
<1>1. PICK q \in Request, first \in {"exists", "select", "get"} :
        /\ q.browser \in Browsers
        /\ q.kind = "refresh" => q.sid \in Sids /\ q.sid = cookie[q.browser]
        /\ first = "get" <=> q.kind = "refresh"
        /\ op' = [op EXCEPT ![r] = q]
        /\ pc' = [pc EXCEPT ![r] = first]
  BY BeginShape
<1> QED
  BY <1>1 DEF Begin, SidInv, TypeOK, StepFitsKind, SidsMade, NewIsPrivate,
      OneBrowserPerSid, Refreshing, history

(* The steps of a request between its first and its answer.                *)
LEMMA MoveSids ==
  ASSUME SidInv, NEW r \in Reqs,
         SelectStreamer(r) \/ InsertStreamer(r) \/ RegisterExists(r) \/ GetSession(r)
  PROVE  SidInv'
<1> USE NoneAssumption
<1>1. ASSUME End(r), UNCHANGED <<streamers, sessions, made, cookie, logins, raced, expired, orphaned>>
      PROVE  SidInv'
  BY <1>1, EndKeeps DEF SidInv, TypeOK
<1>2. CASE SelectStreamer(r)
  <2>1. ASSUME NEW i \in Ids, uid' = [uid EXCEPT ![r] = i], Goto(r, "authorize"), UNCHANGED <<op, new, late>>
        PROVE  SidInv'
    BY <1>2, <2>1 DEF SelectStreamer, Goto, SidInv, TypeOK, StepFitsKind, SidsMade, NewIsPrivate,
        OneBrowserPerSid, Refreshing
  <2>2. ASSUME op[r].kind = "initial", Goto(r, "insert"), UNCHANGED <<op, uid, new, late>>
        PROVE  SidInv'
    BY <1>2, <2>2 DEF SelectStreamer, Goto, SidInv, TypeOK, StepFitsKind, SidsMade, NewIsPrivate,
        OneBrowserPerSid, Refreshing
  <2> QED
    BY <1>1, <1>2, <2>1, <2>2 DEF SelectStreamer, Found
<1>3. CASE InsertStreamer(r)
  BY <1>3 DEF InsertStreamer, Goto, SidInv, TypeOK, StepFitsKind, SidsMade, NewIsPrivate,
      OneBrowserPerSid, Refreshing, Request
<1>4. CASE RegisterExists(r)
  BY <1>1, <1>4 DEF RegisterExists, Goto, history, SidInv, TypeOK, StepFitsKind, SidsMade, NewIsPrivate,
      OneBrowserPerSid, Refreshing
<1>5. CASE GetSession(r)
  BY <1>1, <1>5 DEF GetSession, Goto, SidInv, TypeOK, StepFitsKind, SidsMade, NewIsPrivate,
      OneBrowserPerSid, Refreshing, Request
<1> QED
  BY <1>2, <1>3, <1>4, <1>5

(* The session an answer will carry is known to its request only.          *)
LEMMA SessionSids ==
  ASSUME SidInv, NEW r \in Reqs, DelSession(r) \/ DelFails(r) \/ AuthorizeLogin(r)
  PROVE  SidInv'
<1> USE NoneAssumption
<1>1. CASE DelSession(r) \/ DelFails(r)
  <2>1. /\ pc[r] = "del" /\ pc' = [pc EXCEPT ![r] = "authorize"]
        /\ sessions' \in [Sids -> Ids \cup {None}]
        /\ UNCHANGED <<streamers, made, cookie, op, uid, new, logins, late, raced, expired, orphaned>>
    BY <1>1 DEF DelSession, DelFails, Goto, history, SidInv, TypeOK
  <2>2. TypeOK'
    BY <2>1 DEF SidInv, TypeOK
  <2> QED
    BY <2>1, <2>2 DEF SidInv, TypeOK, StepFitsKind, SidsMade, NewIsPrivate, OneBrowserPerSid, Refreshing
<1>2. CASE AuthorizeLogin(r)
  BY <1>2 DEF AuthorizeLogin, Goto, history, SidInv, TypeOK, StepFitsKind, SidsMade, NewIsPrivate,
      OneBrowserPerSid, Refreshing
<1> QED
  BY <1>1, <1>2

(* An answer passes that session on to the browser of the request.         *)
LEMMA AnswerSids ==
  ASSUME SidInv, NEW r \in Reqs, Respond(r) \/ LoseAnswer(r) \/ Refuse(r)
  PROVE  SidInv'
<1> USE NoneAssumption
<1>1. CASE Respond(r)
  BY <1>1 DEF Respond, End, Goto, SidInv, TypeOK, StepFitsKind, SidsMade, NewIsPrivate,
      OneBrowserPerSid, Refreshing, Request
<1>2. CASE LoseAnswer(r)
  BY <1>2, EndKeeps DEF LoseAnswer, SidInv, TypeOK, SidsMade, Refreshing
<1>3. CASE Refuse(r)
  BY <1>3, EndKeeps DEF Refuse, SidInv, TypeOK
<1> QED
  BY <1>1, <1>2, <1>3

(* So session ids are never shared, whatever expires or restarts.          *)
LEMMA SidStep == SidInv /\ [Next]_accountVars => SidInv'
<1> SUFFICES ASSUME SidInv, [Next]_accountVars PROVE SidInv'
  OBVIOUS
<1> USE NoneAssumption
<1>1. ASSUME NEW r \in Reqs, RequestStep(r) PROVE SidInv'
  BY <1>1, BeginSids, MoveSids, SessionSids, AnswerSids DEF RequestStep
<1>2. ASSUME NEW s \in Sids, Expire(s) PROVE SidInv'
  BY <1>2 DEF Expire, SidInv, TypeOK, StepFitsKind, SidsMade, NewIsPrivate, OneBrowserPerSid, Refreshing
<1>3. CASE Restart
  BY <1>3 DEF Restart, SidInv, TypeOK, StepFitsKind, SidsMade, NewIsPrivate, OneBrowserPerSid, Refreshing
<1>4. CASE UNCHANGED accountVars
  BY <1>4 DEF accountVars, history, SidInv, TypeOK, StepFitsKind, SidsMade, NewIsPrivate,
      OneBrowserPerSid, Refreshing
<1> QED
  BY <1>1, <1>2, <1>3, <1>4 DEF Next

-----------------------------------------------------------------------------
(* The uid of a session is copied from a session of the same browser.      *)
LEMMA LoginStep ==
  ASSUME LoginInv, [Next]_accountVars
  PROVE  UidOfOwnLogin' /\ CookieOfOwnLogin'
<1> USE NoneAssumption DEF LoginInv, SidInv, TypeOK, UidOfOwnLogin, CookieOfOwnLogin, Refreshing
<1>1. ASSUME NEW r \in Reqs, RequestStep(r)
      PROVE  UidOfOwnLogin' /\ CookieOfOwnLogin'
  <2>1. CASE Begin(r)
    <3>1. PICK q \in Request, first \in {"exists", "select", "get"} :
            /\ q.browser \in Browsers
            /\ q.kind = "refresh" => q.sid \in Sids /\ q.sid = cookie[q.browser]
            /\ first = "get" <=> q.kind = "refresh"
            /\ op' = [op EXCEPT ![r] = q]
            /\ pc' = [pc EXCEPT ![r] = first]
      BY <2>1, BeginShape
    <3>2. UNCHANGED <<sessions, cookie, uid, new, logins, expired, orphaned>> /\ pc[r] = "idle"
      BY <2>1 DEF Begin, history
    <3>3. \A p \in Reqs \ {r} : pc'[p] = pc[p] /\ op'[p] = op[p]
      BY <3>1
    <3>4. pc'[r] = first /\ op'[r] = q
      BY <3>1
    <3> QED
      BY <3>1, <3>2, <3>3, <3>4
  <2>2. CASE RegisterExists(r) \/ InsertStreamer(r) \/ Refuse(r)
    BY <2>2 DEF RegisterExists, InsertStreamer, Refuse, End, Goto, history, StepFitsKind
  <2>3. CASE SelectStreamer(r)
    BY <2>3 DEF SelectStreamer, End, Goto, StepFitsKind
  <2>4. CASE GetSession(r)
    BY <2>4 DEF GetSession, End, Goto, StepFitsKind
  <2>5. CASE DelSession(r) \/ DelFails(r)
    BY <2>5 DEF DelSession, DelFails, Goto, history, StepFitsKind, Request
  <2>6. CASE AuthorizeLogin(r)
    BY <2>6 DEF AuthorizeLogin, Goto, history, SidsMade
  <2>7. CASE Respond(r)
    BY <2>7 DEF Respond, End, Goto, Request, NewIsPrivate
  <2>8. CASE LoseAnswer(r)
    BY <2>8 DEF LoseAnswer, End, Goto
  <2> QED
    BY <1>1, <2>1, <2>2, <2>3, <2>4, <2>5, <2>6, <2>7, <2>8 DEF RequestStep
<1>2. ASSUME NEW s \in Sids, Expire(s)
      PROVE  UidOfOwnLogin' /\ CookieOfOwnLogin'
  BY <1>2 DEF Expire, Request, SidsMade
<1>3. CASE Restart
  BY <1>3 DEF Restart
<1>4. CASE UNCHANGED accountVars
  BY <1>4 DEF accountVars, history
<1> QED
  BY <1>1, <1>2, <1>3, <1>4 DEF Next

(* Only a refresh by its own browser ends the session of a cookie early.   *)
LEMMA UsableStep ==
  ASSUME UsableInv, [Next]_accountVars
  PROVE  NewIsLive' /\ CookieStaysUsable'
<1> USE NoneAssumption DEF UsableInv, SidInv, TypeOK, NewIsLive, CookieStaysUsable, Refreshing
<1>1. ASSUME NEW r \in Reqs, RequestStep(r)
      PROVE  NewIsLive' /\ CookieStaysUsable'
  <2>1. CASE Begin(r)
    <3>1. PICK q \in Request, first \in {"exists", "select", "get"} :
            /\ q.browser \in Browsers
            /\ q.kind = "refresh" => q.sid \in Sids /\ q.sid = cookie[q.browser]
            /\ first = "get" <=> q.kind = "refresh"
            /\ op' = [op EXCEPT ![r] = q]
            /\ pc' = [pc EXCEPT ![r] = first]
      BY <2>1, BeginShape
    <3>2. UNCHANGED <<sessions, cookie, uid, new, logins, expired, orphaned>> /\ pc[r] = "idle"
      BY <2>1 DEF Begin, history
    <3>3. \A p \in Reqs \ {r} : pc'[p] = pc[p] /\ op'[p] = op[p]
      BY <3>1
    <3>4. pc'[r] = first /\ op'[r] = q
      BY <3>1
    <3> QED
      BY <3>1, <3>2, <3>3, <3>4
  <2>2. CASE RegisterExists(r) \/ InsertStreamer(r) \/ Refuse(r)
    BY <2>2 DEF RegisterExists, InsertStreamer, Refuse, End, Goto, history
  <2>3. CASE SelectStreamer(r)
    BY <2>3 DEF SelectStreamer, End, Goto
  <2>4. CASE GetSession(r)
    BY <2>4 DEF GetSession, End, Goto
  <2>5. CASE DelSession(r) \/ DelFails(r)
    <3>1. CASE DelSession(r)
      <4>1. NewIsLive'
        BY <3>1 DEF DelSession, Goto, history, StepFitsKind, NewIsPrivate
      <4>2. CookieStaysUsable'
        BY <3>1 DEF DelSession, Goto, history, StepFitsKind, OneBrowserPerSid
      <4> QED
        BY <4>1, <4>2
    <3>2. CASE DelFails(r)
      BY <3>2 DEF DelFails, Goto, history
    <3> QED
      BY <2>5, <3>1, <3>2
  <2>6. CASE AuthorizeLogin(r)
    BY <2>6 DEF AuthorizeLogin, Goto, history, SidsMade
  <2>7. CASE Respond(r)
    BY <2>7 DEF Respond, End, Goto, OneBrowserPerSid
  <2>8. CASE LoseAnswer(r)
    BY <2>8 DEF LoseAnswer, End, Goto
  <2> QED
    BY <1>1, <2>1, <2>2, <2>3, <2>4, <2>5, <2>6, <2>7, <2>8 DEF RequestStep
<1>2. ASSUME NEW s \in Sids, Expire(s)
      PROVE  NewIsLive' /\ CookieStaysUsable'
  BY <1>2 DEF Expire
<1>3. CASE Restart
  BY <1>3 DEF Restart, SidsMade
<1>4. CASE UNCHANGED accountVars
  BY <1>4 DEF accountVars, history
<1> QED
  BY <1>1, <1>2, <1>3, <1>4 DEF Next

-----------------------------------------------------------------------------
(* The row a request inserts has a name like another's only if somebody    *)
(* inserted in between, or it is not the name that was looked for.         *)
LEMMA InsertNames ==
  ASSUME NamesInv, NEW r \in Reqs, InsertStreamer(r)
  PROVE  StillFree' /\ ClashesOnlyByRace'
<1> USE NoneAssumption, NameOpsAssumption DEF NamesInv, SidInv, TypeOK
<1>1. PICK i \in Ids : /\ streamers[i] = None
                       /\ streamers' = [streamers EXCEPT ![i] = op[r].name]
                       /\ raced' = IF r \in late THEN raced \cup {i} ELSE raced
  BY DEF InsertStreamer
<1>2. /\ pc[r] = "insert" /\ pc' = [pc EXCEPT ![r] = "authorize"]
      /\ late' = late \cup {q \in Reqs \ {r} : pc[q] = "insert"}
  BY DEF InsertStreamer, Goto
<1>3. op[r].name \in Names
  BY <1>2 DEF StepFitsKind, Request
<1>4. \A q \in Reqs : pc'[q] = "insert" => q \in late'
  BY <1>2
<1>5. ASSUME NEW j \in Ids, j # i, streamers[j] # None, Lower[streamers[j]] = Lower[op[r].name], r \notin late
      PROVE  Trim[op[r].name] # op[r].name
  BY <1>2, <1>5 DEF StillFree, Found, Checked
<1>6. ASSUME NEW j \in Ids, NEW k \in Ids, Clash(j, k)'
      PROVE  \/ j \in raced' \/ k \in raced'
             \/ Trim[streamers'[j]] # streamers'[j] \/ Trim[streamers'[k]] # streamers'[k]
  <2>1. CASE j # i /\ k # i
    <3>1. Clash(j, k)
      BY <1>1, <1>6, <2>1 DEF Clash
    <3> QED
      BY <1>1, <2>1, <3>1 DEF ClashesOnlyByRace
  <2>2. CASE j = i
    BY <1>1, <1>3, <1>5, <1>6, <2>2 DEF Clash
  <2>3. CASE k = i
    BY <1>1, <1>3, <1>5, <1>6, <2>3 DEF Clash
  <2> QED
    BY <2>1, <2>2, <2>3
<1> QED
  BY <1>4, <1>6 DEF StillFree, ClashesOnlyByRace

(* Every other step keeps the rows, and what was looked for by those who   *)
(* are about to insert.                                                    *)
LEMMA OtherNames ==
  ASSUME NamesInv, UNCHANGED <<streamers, raced>>,
         \A r \in Reqs : pc'[r] = "insert" /\ r \notin late' =>
           Found(Checked(r)) = {} /\ op'[r] = op[r]
  PROVE  StillFree' /\ ClashesOnlyByRace'
<1>1. ASSUME NEW r \in Reqs, pc'[r] = "insert" /\ r \notin late'
      PROVE  Found(Checked(r))' = {}
  BY <1>1 DEF Found, Checked
<1>2. ClashesOnlyByRace'
  BY DEF NamesInv, ClashesOnlyByRace, Clash
<1> QED
  BY <1>1, <1>2 DEF StillFree

(* NamesInv is inductive.                                                  *)
LEMMA NamesStep ==
  ASSUME NamesInv, [Next]_accountVars
  PROVE  NamesInv'
<1> USE NoneAssumption DEF NamesInv, ExistsIsRegister
<1>1. SidInv'
  BY SidStep
<1>2. SidInv => TypeOK
  BY DEF SidInv
<1>3. ASSUME NEW r \in Reqs, RequestStep(r)
      PROVE  ExistsIsRegister' /\ StillFree' /\ ClashesOnlyByRace'
  <2>1. CASE Begin(r)
    <3>1. PICK q \in Request, first \in {"exists", "select", "get"} :
            /\ first = "exists" <=> q.kind = "register"
            /\ op' = [op EXCEPT ![r] = q]
            /\ pc' = [pc EXCEPT ![r] = first]
      BY <2>1, BeginShape
    <3>2. UNCHANGED <<streamers, raced, late>>
      BY <2>1 DEF Begin, history
    <3>3. ExistsIsRegister'
      BY <1>2, <3>1 DEF TypeOK
    <3> QED
      BY <1>2, <3>1, <3>2, <3>3, OtherNames DEF TypeOK, StillFree
  <2>2. CASE RegisterExists(r)
    <3>1. /\ pc[r] = "exists" /\ UNCHANGED <<streamers, raced>>
          /\ \/ End(r)
             \/ /\ Found(Trim[op[r].name]) = {}
                /\ pc' = [pc EXCEPT ![r] = "insert"] /\ UNCHANGED <<op, late>>
      BY <2>2 DEF RegisterExists, Goto, history
    <3>2. ExistsIsRegister'
      BY <1>2, <3>1 DEF TypeOK, End, Goto
    <3> QED
      BY <1>2, <3>1, <3>2, OtherNames DEF TypeOK, End, Goto, StillFree, Checked
  <2>3. CASE SelectStreamer(r)
    <3>1. /\ pc[r] = "select" /\ UNCHANGED <<streamers, raced>>
          /\ \/ End(r)
             \/ pc' = [pc EXCEPT ![r] = "authorize"] /\ UNCHANGED <<op, late>>
             \/ /\ op[r].kind = "initial" /\ Found(op[r].name) = {}
                /\ pc' = [pc EXCEPT ![r] = "insert"] /\ UNCHANGED <<op, late>>
      BY <2>3 DEF SelectStreamer, Goto
    <3>2. ExistsIsRegister'
      BY <1>2, <3>1 DEF TypeOK, End, Goto
    <3> QED
      BY <1>2, <3>1, <3>2, OtherNames DEF TypeOK, End, Goto, StillFree, Checked
  <2>4. CASE InsertStreamer(r)
    <3>1. ExistsIsRegister'
      BY <1>2, <2>4 DEF TypeOK, InsertStreamer, Goto
    <3> QED
      BY <2>4, <3>1, InsertNames
  <2>5. CASE GetSession(r) \/ Respond(r) \/ LoseAnswer(r) \/ Refuse(r)
    <3>1. /\ UNCHANGED <<streamers, raced>>
          /\ \/ End(r)
             \/ pc' = [pc EXCEPT ![r] = "del"] /\ UNCHANGED <<op, late>>
      BY <2>5 DEF GetSession, Respond, LoseAnswer, Refuse, Goto
    <3>2. ExistsIsRegister'
      BY <1>2, <3>1 DEF TypeOK, End, Goto
    <3> QED
      BY <1>2, <3>1, <3>2, OtherNames DEF TypeOK, End, Goto, StillFree
  <2>6. CASE DelSession(r) \/ DelFails(r) \/ AuthorizeLogin(r)
    <3>1. /\ UNCHANGED <<streamers, raced, op, late>>
          /\ \E s \in {"authorize", "respond"} : pc' = [pc EXCEPT ![r] = s]
      BY <2>6 DEF DelSession, DelFails, AuthorizeLogin, Goto, history
    <3>2. ExistsIsRegister'
      BY <1>2, <3>1 DEF TypeOK
    <3> QED
      BY <1>2, <3>1, <3>2, OtherNames DEF TypeOK, StillFree
  <2> QED
    BY <1>3, <2>1, <2>2, <2>3, <2>4, <2>5, <2>6 DEF RequestStep
<1>4. ASSUME NEW s \in Sids, Expire(s)
      PROVE  ExistsIsRegister' /\ StillFree' /\ ClashesOnlyByRace'
  <2>1. UNCHANGED <<streamers, raced, pc, op, late>>
    BY <1>4 DEF Expire
  <2> QED
    BY <2>1, OtherNames DEF StillFree
<1>5. CASE Restart
  <2>1. UNCHANGED <<streamers, raced>> /\ \A r \in Reqs : pc'[r] = "idle"
    BY <1>5 DEF Restart
  <2> QED
    BY <1>1, <2>1, OtherNames DEF StillFree
<1>6. CASE UNCHANGED accountVars
  <2>1. UNCHANGED <<streamers, raced, pc, op, late>>
    BY <1>6 DEF accountVars, history
  <2> QED
    BY <1>1, <2>1, OtherNames DEF StillFree
<1> QED
  BY <1>1, <1>3, <1>4, <1>5, <1>6 DEF Next

-----------------------------------------------------------------------------
(* Each variable of the account handlers has its type in every state.      *)
THEOREM AccountTypes == Spec => []TypeOK
<1>1. Init => SidInv
  BY AccountInit DEF LoginInv
<1>2. SidInv => TypeOK
  BY DEF SidInv
<1> QED
  BY <1>1, <1>2, SidStep, PTL DEF Spec

(* However logins and refreshes overlap, a browser's session is that of a  *)
(* streamer this browser has logged in as (RefreshToken, AuthorizeLogin).  *)
THEOREM OwnSessions == Spec => []CookieOfOwnLogin
<1>1. LoginInv /\ [Next]_accountVars => LoginInv'
  BY LoginStep, SidStep DEF LoginInv
<1>2. LoginInv => CookieOfOwnLogin
  BY DEF LoginInv
<1> QED
  BY <1>1, <1>2, AccountInit, PTL DEF Spec

(* Refreshing does not throw a browser out: RefreshToken deletes a session *)
(* before it makes the next, and still the cookie's session is live unless *)
(* it ran out, an answer was lost, or a refresh is replacing it.           *)
THEOREM SessionsStayUsable == Spec => []CookieStaysUsable
<1>1. UsableInv /\ [Next]_accountVars => UsableInv'
  BY UsableStep, SidStep DEF UsableInv
<1>2. UsableInv => CookieStaysUsable
  BY DEF UsableInv
<1> QED
  BY <1>1, <1>2, AccountInit, PTL DEF Spec

(* The check for the name and the insert are two statements, and still two *)
(* streamers share a name only if their requests overlapped or a name was  *)
(* stored in another form than it was looked for (handlers/auth.go).       *)
THEOREM NamesClashByRaceOnly == Spec => []ClashesOnlyByRace
<1>1. Init => NamesInv
  BY AccountInit DEF LoginInv, NamesInv, Init, ExistsIsRegister, StillFree, ClashesOnlyByRace, Clash
<1>2. NamesInv /\ [Next]_accountVars => NamesInv'
  BY NamesStep
<1>3. NamesInv => ClashesOnlyByRace
  BY DEF NamesInv
<1> QED
  BY <1>1, <1>2, <1>3, PTL DEF Spec
=============================================================================
