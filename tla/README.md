# Verification of go-react-vid-streams

The program is a surveillance service: browsers stream their cameras to each other over
WebRTC, and every stream is recorded on the server. A Go process (Fiber, PostgreSQL, Redis)
relays the WebRTC signalling over WebSockets, stores the recordings and serves them; a React
client runs in each browser. This directory holds TLA+ models of the server and of the client's
mesh of calls, the TLC runs that check them on small instances, and proofs checked by TLAPS for
every instance.

Paths below are relative to `src/server/pkg/` unless they start with `src/`.

## 1. The system

| component | source | state | operations | modelled in |
|---|---|---|---|---|
| socket server | `socketServer/socketServer.go` | map of open connections behind a mutex | register, unregister, send to one / to several / to all / to all but one, `messageLoop` | `SocketServer` |
| WebRTC server | `webRTCserver/webRTCserver.go` | registry of users in the mesh and their live streams, behind a mutex | join, leave, pass on two kinds of signal, motion update, delete a stream, list active streams, watch for disconnects | `WebRTCServer`; what it promises: `Registry` |
| WebSocket handlers | `handlers/socket.go`, `socketHandler.go` | one goroutine per connection | read, dispatch, unregister on failure | `Relay` |
| HTTP handlers that use both | `handlers/video.go`, `auth.go`; wired in `src/server/main.go` | one goroutine per request | delete a stream, list old streams, announce a new streamer | `Relay` |
| recorder | `videoServer/videoServer.go`, `src/server/SCHEMA.sql` | tables `vid_meta`, `vid_chunks` | store a blob, statement by statement | `VideoServer`; what it promises: `Recording` |
| download | `handlers/video.go` | none of its own | read a recording chunk by chunk | `VideoDownload` |
| streamers and sessions | `handlers/auth.go`, `helpers/authHelpers` | table `streamers`, sessions in Redis, cookies | register, initial login, login, refresh | `Accounts` |
| database pool | `db/db.go`, and every handler that acquires | idle connections, who waits for one | acquire, release, deadlines of 3 to 8 s | `Pool` |
| streamer queries | `handlers/streamers.go`, `GetVideoMeta` | none | read-only queries | `Pool` (the connection they hold) |
| client: peer mesh | `src/client/src/context/StreamsContext.tsx` | two lists of peers, one in a ref | reacts to the server's messages | `Mesh` |
| client: own streams, recorder | `StreamingContext.tsx` | streams and recorders of this browser | post blobs, rejoin | rejoin in `Mesh`; blobs arrive at any time in `VideoServer` |
| client: socket, auth, streamers | `SocketContext.tsx`, `AuthContext.tsx`, `StreamersContext.tsx` | socket, session, list | first join, refresh, reconnect | `Mesh`, and the server's side of refresh in `Accounts` |
| client: pages | `src/client/src/components` | rendering | - | not modelled |

**How they interact.** `main.go` makes the socket server, the WebRTC server and the recorder, and
an unbuffered channel `rtcDC` from the first to the second. A WebSocket handler sends its
connection to `RegisterConn`, then each event it reads to one of the WebRTC server's channels,
and at the end its connection to `UnregisterConn`. The WebRTC server's goroutines send messages
to clients by sending to the socket server's goroutines, most of them while they hold the
registry's mutex. A socket goroutine holds the connection map's mutex while it passes its
message to `messageLoop`, connection by connection. `unregisterConn` sends the uid of a closed
connection on `rtcDC`, holding the map's mutex, to `watchForSocketDisconnect`, which passes it to
`leaveWebRTC`. HTTP handlers send to either server without a timeout, some of them with a
connection of the pool in hand; the recorder takes blobs one at a time and needs two connections of
the same pool. Recorder, downloads and deletions meet in the database, the account handlers in the
database and in Redis. The pages call each other from the list of users the server sends them
when they join, and exchange offers and answers through the server.

**What is hard in it.** Five goroutines share one mutex and eight another, and hold them
across channel sends; joins and leaves of one user are served by different goroutines, so their
order is not that of the client; announcements are made by a third goroutine after their cause;
none of the SQL sequences is a transaction, any statement may fail, and requests overlap; sessions
are replaced while other requests carry them; handlers wait for each other with pool connections in
hand; a page keeps its peers in two lists with different rules and looks them up by user alone. What
each component has to guarantee is in section 4; `PROJECT.json` lists the hazards line by line,
with the properties that cover them.

## 2. The modules

    SocketServer <- WebRTCServer <- Relay <- Waiting <- MCWaiting          (<- is EXTENDS)
                      |   ^          ^
                      |  WebRTCProofs <- RelayProofs
                      |
                      +--INSTANCE--> Registry <- Mesh <- MCMesh
                                                  ^
                                              MeshProofs

    VideoServer <- VideoDownload <- MCVideoDownload        Accounts <- MCAccounts
      |    ^  ^                                               ^
      |    | MCVideoServer                              AccountsProofs
      |    |
      |  VideoServerProofs <- ChunkProofs                  Pool <- MCPool
      |                           ^                           ^
      |                  VideoDownloadProofs              PoolProofs
      |                (also EXTENDS VideoDownload)
      +--INSTANCE--> Recording

Operators under a comment that begins "Mutant:" are wrong versions of the definition that follows
them; no specification uses them. They show that a property notices the mistake they make.

**`SocketServer`**. `conns` is `Connections.data` (the uid of a connection, `None` if it is not in
the map), `connMutex` the mutex, `phase[g]` the place of goroutine `g`: `recv` at its `<-`, `lock`
at `Lock()`, `write` in the loop, `handoff` at the send on `rtcDC`. The channels are unbuffered,
so a send and its receive are one step, enabled when the receiver is at `recv`; the blocked
sender simply has no step. `LockOne`/`LockMany`, `Write`, `Unlock` are the four senders,
`MessageLoop` the end of a write, `RegisterConn`, `UnregisterLock`, `UnregisterUnknown` and
`HandOff` the two registrars. The environment sends any message at any time.

**`WebRTCServer`** adds the registry (`members`, `streams`), its mutex `rtcMutex`, and `step[g]`:
`recv`, `lock`, and in the critical section `notify` (before the send to a socket goroutine) and,
for `joinWebRTC`, `reply` (before its second one). A step ends where the goroutine would block
again, so `JoinLock; JoinNotify; JoinReply` are the three sections of `joinWebRTC` between which
others run. `roster[u]` remembers whom the last `WEBRTC_ALL_USERS` to `u` listed. `DeletePanic`
is the index -1 of `deleteStream` on an empty list: the process is gone (`alive = FALSE`).

**`Registry`** is what these goroutines promise together: a table on which a join, a leave, a
removal and a question for the names that are live each take effect at one instant, some time after
the request was taken. `Linearizable` states that `WebRTCServer` implements it: entries become
sets of `<<id, name>>`, a request is pending from the receive until the step of the critical section
that stores the result.

**`Relay`** is the process `main.go` wires: `handler[c]` for the WebSocket handler of a connection
(`closed`, `register`, `open`, `send`, `unregister`, `gone`), `http[h]` for an HTTP handler. The
environment of the two servers is now what these handlers really send. PING and refused messages
change no state and are left out, but for the invalid message that ends the handler.

**`Waiting`** defines which goroutine each goroutine waits for, and the properties about it.

**`Mesh`** puts the pages on top of `Registry`. `ref` is `peersRef`, `shown` the state `peers`, a call is
`<<caller, callee, n>>` with a state in `calls`; `later` holds what a page has sent or will do by a
timer, a peer's signal or the end of a handler, in any order. `CallAll`, `BeCalled` and `BeAnswered` are
the three cases of `handleMessage` that do anything; `Rejoin`, `Close` and `Open` are
`rejoinWebRTC`, and closing and loading a page. All pages are closed at first. `Open` puts the page's first join
under way, or loses it: the timer of a second in `SocketContext.tsx` does not look whether the socket is open,
and a `send` on one that is still connecting throws. Rejoins overlap freely, each with its own leave and join. A page may be closed
and loaded again with any number of earlier connections still to be noticed: `parting` has the messages left of each,
as `<<connection, message>>`, and its end. Two histories that only properties read: `overtaken`, the users whose last join
was served before a leave sent earlier, and `silent`, those whose page has sent no join. The server is `joinWebRTC` and `leaveWebRTC` at the
grain of `Registry`, the two forwarding goroutines, and `sendDataToUid`, which writes to the
connection of a page that has been closed as well as to that of the new one.

**`VideoServer`** has the two tables, and the locals of `handleChunk`; `pc` is the SQL statement
it executes next. A byte is named by the position the recorder gives it. `Fail` is every way a
statement can go wrong, including the end of the process; `DeleteStream` happens between any
two statements. Two history variables: `acked`, bytes of blobs answered without error, and
`lossy`, videos that had a failed blob or a blob that began exactly at a chunk's end.

**`Recording`** is what the recorder promises: a log, created empty, only ever appended to, deleted as
a whole and for good. `AppendOnly` states that `VideoServer` implements it, with the log of a video
made of its bytes, each with its row and its place in the row.

**`VideoDownload`** runs one download beside that recorder. The section asked for is any integer: `Atoi` takes a
negative one, and only one that is too large is refused.

**`Accounts`** has one step per SQL statement or Redis command, several requests of one browser at a
time, lost answers, expiry of sessions, and restarts; its history variables say who logged in
where, which insertions raced, and which sessions ended by expiry or with a lost answer.

**`Pool`** has, for each kind of handler, the list of what it still does with connections: check the
session, acquire, query, send to one of the two servers, authorize, post a blob, return (`Read`,
`StreamerLogin`, `DeleteStream`, ... , one definition per handler), and the recorder's two `Acquire`s.
`idle` counts the free connections, `holds` and `recHolds` who has the others, `late` whose deadline has
passed; `flowing` says whether the two servers take what is sent to them at present.

## 3. The runs

Every passing run is exhaustive. Deadlock is not checked in the relay runs, where the system stops
when all events are used up, in the disconnect circle, and after the panic; nor in `mesh` and `pool`,
where it stops when the moves are used up and when all requests have ended.

| run | module | question | outcome |
|---|---|---|---|
| `relay_membership` | MCWaiting | do joins, leaves, disconnects and their announcements agree, in every interleaving, and do they do what an atomic table does? | holds |
| `relay_streams` | MCWaiting | all events and requests of a user: stream lists, the order of waits, and the atomic table | holds |
| `relay_served` | MCWaiting | does every WebSocket handler get on, and every HTTP handler that announces a streamer or asks for the live streams? (weak fairness) | holds |
| `relay_disconnect` | MCWaiting | does a uid handed to `rtcDC` get through? (weak fairness) | violated |
| `relay_ghost_member` | MCWaiting | is the registry empty when every connection has closed and been handed over? | violated |
| `relay_delete` | MCWaiting | does a deletion only ever remove the named stream? | violated |
| `video_layout` | MCVideoDownload | rows of both tables, and a download meanwhile, under failures and deletions; is a recording an append-only log? | holds |
| `video_lost` | MCVideoServer | are acknowledged bytes stored? | violated |
| `download_section` | MCVideoDownload | does a download stop at its section's end? | violated |
| `accounts` | MCAccounts | names and sessions under overlapping requests | holds |
| `pool` | MCPool | four kinds of handler under deadlines and stalled servers: no connection lost, none kept, no circle of waits | holds |
| `mesh` | MCMesh | does every pair of members watch each other in the end, and who stays out? | holds |

**Bounds, and why they suffice.**
`relay_membership`: two users with a connection each, four events in all. Everything in the
registry is about pairs of users; four events let each of them join, leave and rejoin while the
disconnects, which are not counted, add two more leaves. Empty stream lists, which membership
does not depend on. The users are interchangeable (`Swap`).
`relay_streams`: one connected user and another uid to signal to, all five kinds of events, all three
kinds of HTTP request, lists of up to two streams: deleting or updating the first, the last, a
missing one and one of an empty list are the cases of the code. Two events: a join, and a second
one concurrent with the deletion.
`relay_served`: two events, or one event and one request of a waiting kind (`EventsOrRequests`): enough
for the circle of section 5 to close, so that the run shows that nothing else stops a handler. The
kinds of request leave out the deletion, a limit of this run: it sends to `deleteStream` as any request to a goroutine
of the registry, and its waits are in `LockOrder` of `relay_streams`, but that it is answered is not checked here. The
constraint cuts off only steps of the environment, a client that sends or a request that comes,
which no fairness asks for; every behaviour that is left is a fair one of the whole.
`video_layout`: chunks of two bytes and blobs of one, three and four, so that a blob ends within, at the
end of, and beyond a chunk and spans up to three, and fills up a chunk before it; either one
recording of up to eight bytes with a download, of either section of two chunks or of section -1, until it ends, or up to two
recordings at a time of up to three bytes by two streamers under the names `A` and `a`
(`LongOrMany`). Different recordings share only the statements that look rows up by name, which
need no length. A download that has ended is followed no further: the recorder does not depend on it. `MaxSize` stands for the largest INT.
`accounts`: two requests in flight, two streamers, three sessions (of a login, of another, of a
refresh), names `a`, `A` and `a` with a space.
`pool`: two connections, which is what the recorder takes for itself; three requests are more than there
are connections and make a circle of three kinds of waits possible. The kinds are one of each
shape: a newcomer (two statements and an announcement), a deletion (a send to each server with the
connection in hand), a list of old streams, a blob. The theorems of `PoolProofs` are for all kinds.
`mesh`: three users whose pages load, join and close in any order, or two with two moves between them, a move
being a rejoin or a reload beside an earlier connection (`MovesOfTwo`; the two may be two overlapping rejoins, or two
reloads before the first old connection is noticed): a third user matters when `WEBRTC_ALL_USERS` lists more than one; what a rejoin
or a reload does to a call is about a pair. Streams do not matter to the calls (`Ids` and `Names` are
empty). The users are interchangeable.

**Fairness.** `Relay!Fairness` is weak fairness of each goroutine's own steps: a runnable goroutine
runs, a `sync.Mutex` that is free is taken in the end (Go's mutexes do not starve: a waiter gets
it after 1 ms), and a sender blocked on a channel is served first in, first out. In the model
several goroutines may wait for one receiver, and weak fairness of a handler suffices there
because the number of events is bounded: competitors run out. No fairness is assumed of clients:
nothing makes them connect, send or leave. `MessageLoop` is fair: a write to a connection ends, with
an error or not. A client that accepts no bytes and keeps its TCP connection open breaks
that assumption, and stalls the server for everybody; `Pool` takes that case up with `Stall`.
`Pool!Fairness` is weak fairness of each handler and of the recorder, and of time: a deadline that was
set passes in the end. Posting a blob has strong fairness, because the senders blocked on the
recorder's channel queue up in order. Nothing is assumed of `Stall`; `RequestsEnd` asks for servers that in
the end take what they are sent. `Mesh` assumes no fairness: its properties are about the states in
which nothing is under way.

## 4. The properties

*Connections.* `MutexHeldInside`, `RtcMutexHeldInside`: hand-written Lock and Unlock pairs, held
over channel sends, exclude. `MapFrozenWhileIterated`: what a sender has still to write to stays
registered and addressed. `HandOffKnowsItsUid`: the uid on `rtcDC` is of a connection still in the
map.

*Membership.* `UsersStillTheOthers`: the list `joinWebRTC` collected before two sends is current
when it stores the entry. `NoteMatchesRegistry`: what is being announced of a user agrees with the
registry for as long as it is being announced. `PairHasInitiator`: of any two members, one was sent
a list that names the other. The client opens peer connections from that list only, so a pair
without an initiator would never connect.

*Streams.* `StreamsAsJoined`: entries written and moved by index stay entries of a list a client
joined with, none twice. `DeleteRemovesNamed`: deleting a live stream removes that one.

*Both.* `Linearizable`: although each operation is spread over several steps, with sends in the middle
of its critical section, the registry, the lists of users handed out and the answers with the names
that are live are those of a table with atomic operations (`Registry`). It holds of clients that give their
streams different ids, which is how the browser makes them (`DistinctIds`).

*Waiting.* `LockOrder`: every wait goes up in one fixed order of the goroutines, except the one at
`socketServer.go:249`. `HandlersServed`, `HttpServed`: as a consequence, nothing waits for ever
unless the circle through that line has closed or the process has died.

*Recordings.* `AppendOnly`: however statements of a blob fail and deletions come between them, no
stored byte is ever moved, changed, dropped or stored again, and new ones come behind it.
`MetaUnique`, `ChunkIndexUnique`: no duplicate rows, though no constraint forbids them.
`OnlyOwnerWrites`: a recording changes only for a blob of its own streamer, although the chunk
statements go by id alone. `SizeCoversChunks`, `BytesInOrder`: after any failures the rows are
within the size and in order, no byte twice. `CompleteUnlessLossy`: without failures and full last
chunks nothing is missing. `DownloadInOrder`, `QuietDownloadComplete` say the same of what is
sent out, whatever section is asked for; a section before the first byte is answered with nothing.

*Accounts.* `ClashesOnlyByRace`: two streamers share a name only by an overlap of check and insert,
or untrimmed. `CookieOfOwnLogin`, `CookieStaysUsable`: refreshes, answers out of order and logins
never leave a browser with another's session, nor, unless an answer was lost or the session ran
out, with a dead one.

*Pool.* `Conserved`: no path through a handler or the recorder loses a connection or gives it back
twice. `NeverAllWaiting`: handlers wait with connections in hand, and the recorder holds one while it waits
for another, yet they never all wait for each other while the two servers flow. `KeptOnlyBySend`: past its
deadline a connection is kept by a send to a server that does not take it, and by nothing else.
`RequestsEnd`: if the servers do not stall for good, every request and every blob comes to its end.

*Mesh.* `AnswerFindsItsPeer`: an answer is given to the first peer of a user in the list, and that is the
one that made the call whenever that one is still listed. `MeshComplete`: when nothing is under way, any
two members watch each other, but for the five cases `Excused` names (section 5). `MemberUnlessOvertaken`: a user with an
open page is a member, unless the page has sent no join, or a leave sent before his last join was served after it.

## 5. What the code does otherwise than it says

* **A disconnect can stop the server** (`relay_disconnect`). `unregisterConn` sends on `rtcDC` with
  the map's mutex held. With the watcher holding an earlier uid for `leaveWebRTC`, `leaveWebRTC`
  waiting for `sendDataToUids`, and that for the mutex, the circle is closed.
* **A ghost in the mesh** (`relay_ghost_member`). `joinWebRTC` has taken a join; the connection closes,
  `unregisterConn` hands its uid over, `leaveWebRTC` serves that leave first, and the join is then served: every
  connection has closed, the WebRTC server has been told of all of them (`AllHandedOver`), and the user is registered.
* **Deleting another stream** (`relay_delete`). For a name that is not live, `index` stays 0 and the
  first live stream goes; with an empty list the process panics.
* **Bytes lost at a full chunk** (`video_lost`). When a recording ends exactly at a chunk's end, the
  next blob updates a row that does not exist and is answered without error.
* **A section without an end** (`download_section`). The limit is looked at only when a query fails.

Some of what the code does no line of the repository speaks about, so it is no divergence, but a reader should know of it.
The first six are the exceptions of `MeshComplete` and `MemberUnlessOvertaken`, which `Excused`, `overtaken` and `silent` name:

* `WEBRTC_ALL_USERS` filters *all* listed users out of both lists at each turn of its loop
  (`StreamsContext.tsx`), so of the peers it has just made only the last is kept; with three users
  the third watches one of the others only, until a caller calls again.
* A page's first join is sent one second after its socket was made, open or not (`SocketContext.tsx:33-44`). If it is
  still connecting, `send` throws, and nothing sends the join again until a stream is added or deleted.
* A message for a user who reloads may be written to the connection of the closed page. (That alone keeps
  nobody apart: the new page's join has everything sent again, and `Excused` does not name it.)
* The answer to a call may be given to the peer of another call to the same user that took its
  place, or come after the calls that replaced it.
* An offer sent before a reload or a rejoin may arrive after the new ones.
* The place of a peer in `peersRef` is used as a place in `peers`. After a join that finds nobody
  `peers` is empty and `peersRef` is not, and a late answer then takes the page down.
* The leave of a closed page, or of a rejoin, may be served after the join of the new one: the user has
  an open page and is in no mesh until he rejoins.
* An unregister may be served before the register it follows (`socketServer.go:244`): the closed connection is then in
  the map for good, and the WebRTC server is never told of it. The user is a ghost for another reason than in
  `relay_ghost_member`, which looks only at connections that were handed over.
* `i = -1` passes the check of `DownloadStreamVideo` (`handlers/video.go:61`); its first query finds no row, which is taken for
  the end (`:93`), and the answer is 200 with nothing in it.

## 6. The proofs

All are for arbitrary constants, under the assumptions named in the modules (`UidOfAssumption`,
`NoneAssumption`, `NotesAssumption`, `KindsAssumption`, ...), which only say what kind of
value a constant is. `RelayRefinesRegistry` needs in addition that the lists clients join with have
distinct ids.

`WebRTCProofs`, first part: `SocketInv` is `SocketTypeOK`, `MutexHeldInside`, `MapFrozenWhileIterated`, and what
they rest on: a goroutine past its receive knows its connection (`ArgKnown`), the map stores a
connection under its own uid (`StoredUnderOwner`), and the connection of a hand-off is in it
(`HandOffRegistered`). `MapFrozenWhileIterated` alone is not inductive: nobody changes the map
during a loop only because whoever does holds the mutex. Theorems `SocketMutex`,
`IterationSafe`, `HandOffSafe`, `SocketTypes`.

Second part: `RtcRefinesSocket`, that every step of `WebRTCServer` is one of `SocketServer`
or leaves it alone, so `SocketInv` carries over. `RtcInv` has the types the membership needs, that
a goroutine past its receive has a request of its own kind (`ReqKnown`), the mutex,
`UsersStillTheOthers`, `NoteMatchesRegistry`, `PairHasInitiator`, and `JoinHasBroadcaster`: between the
two sends of `joinWebRTC` nobody else uses `sendDataToUids`. Without the last one the entry could be
stored while a leave of the same user is still being announced. Four actions
make the membership (`JoinLock`, `JoinNotify`, `JoinReply`, `LeaveNotify`) and are treated one by one; all
others are shown to be `Aside`, which preserves the rest at once. Theorems `RtcTypes`, `RtcMutex`,
`ListsAreCurrent`, `BroadcastsAgree`, `EveryPairConnects`.

`RelayProofs`: `RelayRefinesRtc`, every step of the wired process is a step of `WebRTCServer` with
an arbitrary environment, or a stutter; it needs `Handed`, that an event waiting to be handed over is a
request its goroutine serves. Hence `RelayBroadcastsAgree` and `RelayEveryPairConnects`, in
the system the runs check. `WaitsAreOrdered` is `LockOrder` for any number of clients: a goroutine
waits for a mutex only at `lock`, and by the two mutex invariants the holder is inside its
critical section, which ranks higher. `RelayTypes` is `RelayTypeOK`.

Its second part: `RtcStreamsAsJoined` and `RelayStreamsAsJoined` by induction on the steps that write by index;
then the refinement. With `StreamsAsJoined` the ids in a list are distinct, so taking out the entry at an
index takes exactly one pair out of the set (`DeleteNotify` against `Remove`), and changing a `motion`
changes no pair. Each action maps to a request taken, to the operation that serves it, or to a stutter.
Theorems `RtcRefinesRegistry` and, through `RelayRefinesRtc`, `RelayRefinesRegistry`. From the same
invariant, `RtcDeleteRemovesNamed` and `RelayDeleteRemovesNamed`: ids being distinct, the entry of the name
asked for is the only one that goes (`WithoutIndexNames`).

`VideoServerProofs`: `MetaInv` adds to `MetaUnique` what `handleChunk` knows between its statements: at
`insert` there is still no row of that name and streamer, since only the recorder inserts
(`InsertIsNew`); the video being written, if it still exists, is the blob's streamer's
(`WritesOwn`); an id is given out once (`IdsUsed`). Theorems `OneRecordingPerName` and, with the shape
of chunk rows, `OwnerWrites`.

`ChunkProofs`: `ChunkInv` says what is stored is in order, filled and counted (`Stored`), that the size
already counts the blob being handled (`Counted`), that until chunks are written everything stored
lies before the blob (`BeforeBlob`), that the bytes read of a chunk are still what it has (`ReadBack`), and
that the pieces still to be written fit behind the rows there are (`Pieces`). None of `ChunkIndexUnique`,
`SizeCoversChunks`, `BytesInOrder` is inductive alone: a recorder that had lost count would write an
index twice. The arithmetic of `splitIntoChunks` is in `PartOfRun`, `SplitPieces` and `PiecesOfRun`. Theorems
`OneChunkPerIndex`, `ChunksCounted`, `BytesStayInOrder`, `RecorderTypes`, and `RecorderImplementsRecording`, that
`VideoServer` implements `Recording`: by `RowWritten`, a statement that lengthens one row, or inserts one,
with later bytes and no row behind it, is an `Append`. `RecordingsComplete` needs one more invariant,
`CompleteInv`: of a video that is not `lossy` every byte its size counts is stored where it belongs; while a
blob is being written, every byte before the blob, and then every byte but those in the pieces still to come.

`VideoDownloadProofs`: `DownloadRefinesRecorder`, every step with a download beside the recorder is a step of the
recorder or leaves it alone, so all of the above holds there too (`RecorderStaysCorrect`, `RecorderStaysALog`). What
was sent is still stored, in rows before the next one to be read (`SentInv`), so by `BytesInOrder` the next row
continues it: hence `DownloadReadsInOrder`. For `QuietDownloadsComplete`, `QuietInv` says that as long as the
tables have not changed the response is the recording from where the section starts up to the next row
(`SentWhole`), and that it is nothing if the section starts before the first chunk, since the next row to be read is then
one that does not exist; that each row of a complete recording is full but the last is `RowOfWhole`, and where a section starts, for
any integer and the division of Go, is `FirstIndexIs`.

`PoolProofs`: the invariant counts the connections (`Conserved`), and says where a handler or the recorder
stands when it holds some. A handler that holds one either sends, which a flowing server takes, or does
not wait for another; the recorder waits with one, so two connections are enough for
somebody to go on. Theorems `PoolTypes`, `PoolConserved`, `PoolGoesOn` (for `MaxConns >= 2`).

`AccountsProofs`: `SidInv` is types and who may know a session id: an id just made for an answer is known
to that request only (`NewIsPrivate`), and neither a cookie nor a request in progress has an id of
another browser's cookie (`OneBrowserPerSid`). Without it a refresh could end a session under
somebody else's cookie. `LoginInv` and `UsableInv` add what a request carries from one command to
the next. Theorems `AccountTypes`, `OwnSessions`, `SessionsStayUsable`. `NamesClashByRaceOnly` rests
on `NamesInv`: when the insert comes, the name looked for is still free, unless another request has inserted
since the look (`StillFree`).

`MeshProofs`: `MemberInv` says that the user of an open page is a member or is `Due` (his join is sent or being
served), and that a leave still to be served has a join of his behind it, unless he is overtaken or `silent`;
`OpenPagesAreMembers` follows. `ShapeInv` says what the pages, the goroutines and the wires between them can hold
(`PagesTyped`, `WiresTyped`, `ListsTyped`, `CallsTyped`, `ClosedInv`) and, of the two lists of peers, that a call of
one's own is the first of its user in `peersRef` and that what is shown is listed (`PeersTyped`): the part
that makes `AnswersFindTheirPeers`, and that an offer pushed onto the list, unlike `CallAll`, keeps only because it
is of another's call. `KnownInv` adds that no call is named anywhere before it is made, for `MeshTypesHold`. What the
recursive filter of a list keeps, and in which order, is `WithoutFilters`, by the least counterexample.

`PagesWatchEachOther` (`MeshComplete`) needs the state of two pages while they are not quiet. Call a user `Firm`
whose page is open and not `silent`, who is a member and of whom no join or leave is under way. `ChainInv`: of any two firm users
neither of whom has crashed, one (`u`) has a `Chain` to the other (`v`). A chain is a `WEBRTC_ALL_USERS` that lists
`v`, the last one on its way to `u`, or a last call of `u` to `v` whose offer is under way, or which `v` has answered
and shows (`CalleeShows`), with its answer under way, applied, or lost in one of the ways `Excused` names
(`CalledWith`). Three clauses
are there only because they are needed to carry it: earlier calls of the pair are over or ended, so that no answer to
one of them replaces what is shown now; an offer counts as under way only when no `WEBRTC_ALL_USERS`, which clears
the list of peers, comes behind it; and the caller shows that call, or shows or awaits one in the
other direction (`CallerShows`), because two pages may call each other. A user becomes firm only when his join is served
(`FirmStep`), and that step makes a chain from him to everybody in the mesh (`ChainOfJoin`), since the list of users he is sent
is the membership he joins, taken under one lock. Every other step keeps each chain
(`ChainStep`, one lemma for each action that touches a page or a wire). When all is quiet, a chain that
is left is two pages watching each other, or is excused (`QuietChain`).

**Model-checked only.** Liveness (`HandlersServed`, `HttpServed`, `KeptOnlyBySend`, `RequestsEnd`): temporal
reasoning under fairness is beyond these provers. Every safety property of a passing run has a theorem.

## 7. Not modelled, and why

* `sendData` and `sendDataMulti`: nothing sends to them. `ServerLogout` has no route,
  `StreamerLogout` changes no state. `GetVideoMeta`, `GetStreamers`, `GetStreamer` only read: `Pool` has
  the connections they hold, not the rows they return.
* The list of old streams (`GetOldStreams`) compares live and recorded streams by name. The names it gets
  from the WebRTC server are in `Registry` (`Answer`); the comparison is a set difference shown to a user.
* The columns `seconds`, `active`, `created_at`: nothing the recorder decides depends on them.
* Writes of two goroutines to one connection (`SendSocketErrorMessage` beside `messageLoop`), writes
  to a connection whose handler has returned, and its reuse: their effect is in the WebSocket
  library.
* The aliasing of a list of streams between the registry and a message not yet marshalled: lists are
  passed by value.
* The read lock in `videoServer.go:77` is never released, but nobody takes that lock for writing.
* The client's recorder and its detection of motion (`StreamingContext.tsx`): timers, `MediaRecorder` and pixels.
  What it posts is covered: `VideoServer` takes any blob at any time. The media, the ICE exchange and the
  names of the streams attached to a peer belong to `simple-peer` and to rendering.
* `WEBRTC_USER_LEFT` and `WEBRTC_MOTION_UPDATE` on a page: their handlers look into the peers of the render
  that made them, which has none, and change nothing.
* A socket that is lost while its page stays open: the page of this code does not notice it and does not connect again, so the
  model's `Close` ends the page with its connection. A change of `uid`, which makes a second socket without closing the first, and two tabs of
  one user at a time, both of which the server sees as two live connections of one uid.
* Validation and password checks only refuse requests; authorisation is "logged in", so that any
  streamer may delete any stream, as in the code. Code that is commented out in `handlers/video.go`.

## 8. Plan

*Done*: the socket server, the WebRTC server, their composition and what they wait for; the
recorder, downloads, accounts, the pool, the mesh of pages; the two abstract specifications and both
refinements proved; the proofs of section 6.

*Left*: the aliasing of stream lists, which needs arrays shared by
reference; the posting client beside `Accounts` (blobs refused while a session is being replaced); two tabs of
one user at a time or a second socket after a change of `uid`, of which `Mesh` has the reload only; a socket lost while its page stays open.
