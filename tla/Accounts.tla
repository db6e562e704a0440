------------------------------ MODULE Accounts ------------------------------
(***************************************************************************)
(* Streamers and sessions: handlers/auth.go (StreamerRegister,             *)
(* InitialLogin, StreamerLogin, Refresh) with helpers/authHelpers.  Each   *)
(* SQL statement and each Redis command of a request is a step, requests   *)
(* run concurrently, and a browser may have several in flight (every       *)
(* client refreshes every 20 s, two tabs share one cookie).                *)
(*                                                                         *)
(* The password check and the validation of a body only refuse requests    *)
(* that then change nothing.  The CHANGE broadcast of a new streamer is in *)
(* Relay (BeginNewStreamer, Announce).  StreamerLogout changes no state,   *)
(* ServerLogout has no route.                                              *)
(***************************************************************************)
CONSTANTS Browsers,  \* cookie jars
          Reqs,      \* requests in progress at a time (bound)
          Kinds,     \* the kinds of requests made in this instance
          Ids,       \* ids of streamers rows ever inserted (bound)
          Sids,      \* session ids ever made (bound)
          Names,     \* streamer names
          Lower,     \* LOWER of a name
          Trim,      \* strings.TrimSpace of a name
          None

ASSUME RequestKindsAssumption == Kinds \subseteq {"register", "initial", "login", "refresh"}
ASSUME NameOpsAssumption == Lower \in [Names -> Names] /\ Trim \in [Names -> Names]
ASSUME NoneAssumption == None \notin Ids \cup Sids \cup Names

VARIABLES
  streamers,  \* table streamers: the name in the row of an id, or None
  sessions,   \* Redis: the uid of a session, or None
  made,       \* session ids that have been made
  cookie,     \* session_token of a browser: a session id, or None
  pc,         \* the statement or command a request is about to execute
  op,         \* the request: its kind, browser, name, and the cookie it carries
  uid,        \* id / uid, None before it is known
  new,        \* the session id of the cookie a request answers with, or None
  logins,     \* history: the streamers a browser has logged in as
  late,       \* history: requests since whose name check a streamer was inserted
  raced,      \* history: streamers inserted by such a request
  expired,    \* history: sessions that ran out or were flushed by a restart
  orphaned    \* history: sessions replaced in an answer that was lost

history == <<logins, late, raced, expired, orphaned>>
accountVars == <<streamers, sessions, made, cookie, pc, op, uid, new, history>>

Init ==
  /\ streamers = [i \in Ids |-> None]
  /\ sessions = [s \in Sids |-> None]
  /\ made = {}
  /\ cookie = [b \in Browsers |-> None]
  /\ pc = [r \in Reqs |-> "idle"]
  /\ op = [r \in Reqs |-> None]
  /\ uid = [r \in Reqs |-> None]
  /\ new = [r \in Reqs |-> None]
  /\ logins = [b \in Browsers |-> {}]
  /\ late = {} /\ raced = {} /\ expired = {} /\ orphaned = {}

-----------------------------------------------------------------------------
(* A request by name, or one that goes by the cookie it carries.           *)
Request ==
  [kind : Kinds \ {"refresh"}, browser : Browsers, name : Names, sid : {None}]
    \cup [kind : Kinds \cap {"refresh"}, browser : Browsers, name : {None}, sid : Sids]

FirstStep == [register |-> "exists", initial |-> "select", login |-> "select", refresh |-> "get"]

(* A request comes in; without a cookie a refresh is refused at once.      *)
Begin(r) ==
  /\ pc[r] = "idle"
  /\ \E q \in Request :
       /\ q.kind = "refresh" => q.sid = cookie[q.browser]
       /\ op' = [op EXCEPT ![r] = q]
       /\ pc' = [pc EXCEPT ![r] = FirstStep[q.kind]]
  /\ UNCHANGED <<streamers, sessions, made, cookie, uid, new, history>>

Goto(r, step) == pc' = [pc EXCEPT ![r] = step]

End(r) ==
  /\ Goto(r, "idle")
  /\ op' = [op EXCEPT ![r] = None]
  /\ uid' = [uid EXCEPT ![r] = None]
  /\ new' = [new EXCEPT ![r] = None]
  /\ late' = late \ {r}

(* Mutant: the name is compared as it is.                                  *)
FoundExact(name) == {i \in Ids : streamers[i] = name}

(* The ids SELECT finds for a name.                                        *)
Found(name) == {i \in Ids : streamers[i] # None /\ Lower[streamers[i]] = Lower[name]}

(* StreamerRegister looks for the trimmed name, and stores it as it is.    *)
RegisterExists(r) ==
  /\ pc[r] = "exists"
  /\ IF Found(Trim[op[r].name]) # {}
     THEN End(r) /\ UNCHANGED <<streamers, sessions, made, cookie, logins, raced, expired, orphaned>>
     ELSE /\ Goto(r, "insert")
          /\ UNCHANGED <<streamers, sessions, made, cookie, op, uid, new, history>>

(* StreamerLogin trims the name, InitialLogin does not; the one refuses a  *)
(* name that is not found, the other creates it.                           *)
SelectStreamer(r) ==
  LET found == Found(IF op[r].kind = "login" THEN Trim[op[r].name] ELSE op[r].name) IN
  /\ pc[r] = "select"
  /\ UNCHANGED <<streamers, sessions, made, cookie, logins, raced, expired, orphaned>>
  /\ \/ \E i \in found :
          /\ uid' = [uid EXCEPT ![r] = i]
          /\ Goto(r, "authorize")
          /\ UNCHANGED <<op, new, late>>
     \/ /\ found = {} /\ op[r].kind = "initial"
        /\ Goto(r, "insert")
        /\ UNCHANGED <<op, uid, new, late>>
     \/ /\ found = {} /\ op[r].kind = "login"
        /\ End(r)

InsertStreamer(r) ==
  /\ pc[r] = "insert"
  /\ \E i \in Ids :
       /\ streamers[i] = None
       /\ streamers' = [streamers EXCEPT ![i] = op[r].name]
       /\ uid' = [uid EXCEPT ![r] = i]
       /\ raced' = IF r \in late THEN raced \cup {i} ELSE raced
  /\ late' = late \cup {q \in Reqs \ {r} : pc[q] = "insert"}
  /\ Goto(r, "authorize")
  /\ UNCHANGED <<sessions, made, cookie, op, new, logins, expired, orphaned>>

-----------------------------------------------------------------------------
(* Mutant: any live session is taken for the one of the cookie.            *)
GetAnySession(r) ==
  /\ pc[r] = "get"
  /\ UNCHANGED <<streamers, sessions, made, cookie, logins, raced, expired, orphaned>>
  /\ IF sessions[op[r].sid] # None
     THEN /\ \E s \in Sids :
               sessions[s] # None /\ uid' = [uid EXCEPT ![r] = sessions[s]]
          /\ Goto(r, "del")
          /\ UNCHANGED <<op, new, late>>
     ELSE End(r)

(* RefreshToken: the session of the cookie the request came with ...       *)
GetSession(r) ==
  /\ pc[r] = "get"
  /\ UNCHANGED <<streamers, sessions, made, cookie, logins, raced, expired, orphaned>>
  /\ IF sessions[op[r].sid] # None
     THEN /\ uid' = [uid EXCEPT ![r] = sessions[op[r].sid]]
          /\ Goto(r, "del")
          /\ UNCHANGED <<op, new, late>>
     ELSE End(r)

(* Mutant: a refresh ends every session of the streamer.                   *)
DelEverySession(r) ==
  /\ pc[r] = "del"
  /\ sessions' = [s \in Sids |-> IF sessions[s] = uid[r] THEN None ELSE sessions[s]]
  /\ Goto(r, "authorize")
  /\ UNCHANGED <<streamers, made, cookie, op, uid, new, history>>

(* ... is deleted; the error of Del is ignored ...                         *)
DelSession(r) ==
  /\ pc[r] = "del"
  /\ sessions' = [sessions EXCEPT ![op[r].sid] = None]
  /\ Goto(r, "authorize")
  /\ UNCHANGED <<streamers, made, cookie, op, uid, new, history>>

DelFails(r) ==
  /\ pc[r] = "del"
  /\ Goto(r, "authorize")
  /\ UNCHANGED <<streamers, sessions, made, cookie, op, uid, new, history>>

(* Mutant: what is stored under the session is the name.                   *)
AuthorizeName(r) ==
  /\ pc[r] = "authorize"
  /\ \E s \in Sids \ made :
       /\ made' = made \cup {s}
       /\ sessions' = [sessions EXCEPT ![s] = op[r].name]
       /\ new' = [new EXCEPT ![r] = s]
  /\ Goto(r, "respond")
  /\ UNCHANGED <<streamers, cookie, op, uid, history>>

(* ... and AuthorizeLogin makes a new one for the same uid.                *)
AuthorizeLogin(r) ==
  /\ pc[r] = "authorize"
  /\ \E s \in Sids \ made :
       /\ made' = made \cup {s}
       /\ sessions' = [sessions EXCEPT ![s] = uid[r]]
       /\ new' = [new EXCEPT ![r] = s]
  /\ Goto(r, "respond")
  /\ UNCHANGED <<streamers, cookie, op, uid, history>>

(* The browser gets the answer with the cookie, or never does.             *)
Respond(r) ==
  LET b == op[r].browser IN
  /\ pc[r] = "respond"
  /\ cookie' = [cookie EXCEPT ![b] = new[r]]
  /\ logins' = IF op[r].kind = "refresh" THEN logins ELSE [logins EXCEPT ![b] = @ \cup {uid[r]}]
  /\ End(r)
  /\ UNCHANGED <<streamers, sessions, made, raced, expired, orphaned>>

LoseAnswer(r) ==
  /\ pc[r] = "respond"
  /\ orphaned' = IF op[r].kind = "refresh" THEN orphaned \cup {op[r].sid} ELSE orphaned
  /\ End(r)
  /\ UNCHANGED <<streamers, sessions, made, cookie, logins, raced, expired>>

(* A statement or the Get fails, or the 8 seconds are over.                *)
Refuse(r) ==
  /\ pc[r] \in {"exists", "select", "insert", "get"}
  /\ End(r)
  /\ UNCHANGED <<streamers, sessions, made, cookie, logins, raced, expired, orphaned>>

-----------------------------------------------------------------------------
(* Redis drops a session after two minutes.                                *)
Expire(s) ==
  /\ sessions[s] # None
  /\ sessions' = [sessions EXCEPT ![s] = None]
  /\ expired' = expired \cup {s}
  /\ UNCHANGED <<streamers, made, cookie, pc, op, uid, new, logins, late, raced, orphaned>>

(* An error of Set in AuthorizeLogin ends the process (log.Fatalln), as    *)
(* anything else may; at its start it flushes Redis.                       *)
Restart ==
  /\ sessions' = [s \in Sids |-> None]
  /\ expired' = made
  /\ pc' = [r \in Reqs |-> "idle"]
  /\ op' = [r \in Reqs |-> None]
  /\ uid' = [r \in Reqs |-> None]
  /\ new' = [r \in Reqs |-> None]
  /\ late' = {}
  /\ UNCHANGED <<streamers, made, cookie, logins, raced, orphaned>>

RequestStep(r) ==
  \/ Begin(r) \/ RegisterExists(r) \/ SelectStreamer(r) \/ InsertStreamer(r)
  \/ GetSession(r) \/ DelSession(r) \/ DelFails(r) \/ AuthorizeLogin(r)
  \/ Respond(r) \/ LoseAnswer(r) \/ Refuse(r)

Next ==
  \/ \E r \in Reqs : RequestStep(r)
  \/ \E s \in Sids : Expire(s)
  \/ Restart

Spec == Init /\ [][Next]_accountVars

-----------------------------------------------------------------------------
(* Each variable has its type.                                             *)
TypeOK ==
  /\ streamers \in [Ids -> Names \cup {None}]
  /\ sessions \in [Sids -> Ids \cup {None}]
  /\ made \subseteq Sids
  /\ cookie \in [Browsers -> Sids \cup {None}]
  /\ pc \in [Reqs -> {"idle", "exists", "select", "insert", "get", "del", "authorize", "respond"}]
  /\ op \in [Reqs -> Request \cup {None}]
  /\ uid \in [Reqs -> Ids \cup {None}] /\ new \in [Reqs -> Sids \cup {None}]
  /\ \A r \in Reqs :
       /\ IF pc[r] = "idle" THEN op[r] = None ELSE op[r] \in Request
       /\ uid[r] \in IF pc[r] \in {"del", "authorize", "respond"} THEN Ids ELSE {None}
       /\ new[r] \in IF pc[r] = "respond" THEN Sids ELSE {None}
  /\ logins \in [Browsers -> SUBSET Ids]
  /\ late \subseteq Reqs /\ raced \subseteq Ids
  /\ expired \subseteq Sids /\ orphaned \subseteq Sids

Clash(i, j) ==
  i # j /\ streamers[i] # None /\ streamers[j] # None /\ Lower[streamers[i]] = Lower[streamers[j]]

(* The table has no unique constraint, and "There is already another       *)
(* streamer with that name" (handlers/auth.go:100) is decided before the   *)
(* insert.  Still two streamers have one name only if one was inserted     *)
(* after the other's request had looked for the name, or if                *)
(* StreamerRegister stored a name it had looked for in another form:       *)
(* requests that do not overlap keep trimmed names apart, whatever their   *)
(* case and whichever of the two handlers creates them.                    *)
ClashesOnlyByRace ==
  \A i, j \in Ids : Clash(i, j) =>
    i \in raced \/ j \in raced \/ Trim[streamers[i]] # streamers[i] \/ Trim[streamers[j]] # streamers[j]

(* The session of a browser's cookie is that of a streamer this browser    *)
(* has logged in as, however its logins and refreshes overlap.             *)
CookieOfOwnLogin ==
  \A b \in Browsers :
    cookie[b] # None /\ sessions[cookie[b]] # None => sessions[cookie[b]] \in logins[b]

(* A browser is not thrown out by refreshing: its cookie is that of a live *)
(* session, unless the session has run out, or the answer that replaced it *)
(* was lost, or a refresh that is still in progress is replacing it.  Two  *)
(* refreshes of one session and answers in any order do no harm.           *)
CookieStaysUsable ==
  \A b \in Browsers : cookie[b] # None /\ sessions[cookie[b]] = None =>
    \/ cookie[b] \in expired \cup orphaned
    \/ \E r \in Reqs : /\ pc[r] \in {"authorize", "respond"}
                       /\ op[r].kind = "refresh" /\ op[r].browser = b /\ op[r].sid = cookie[b]
=============================================================================
