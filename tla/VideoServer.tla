----------------------------- MODULE VideoServer -----------------------------
(***************************************************************************)
(* The recorder of server/pkg/videoServer/videoServer.go: one goroutine    *)
(* that takes the blobs clients post every second (handlers/video.go       *)
(* HandleChunk) and stores them in the tables vid_meta and vid_chunks, in  *)
(* rows of VID_CHUNK_SIZE bytes.  It runs one SQL statement after another, *)
(* with no transaction around them; each is a step here, and between two   *)
(* of them a stream may be deleted (handlers/video.go DeleteStream).       *)
(*                                                                         *)
(* A byte is the position the recorder gives it: the size of the recording *)
(* before the blob, plus its place in the blob.                            *)
(***************************************************************************)
EXTENDS Integers, Sequences, FiniteSets

CONSTANTS Videos,     \* ids of vid_meta rows ever inserted (bound)
          Names,      \* stream names
          Lower,      \* LOWER of a name
          Streamers,  \* streamer ids
          Lens,       \* lengths of blobs
          DBChunkSize,
          MaxSize,    \* the largest value of the INT column size (bound)
          None

ASSUME LowerAssumption == Lower \in [Names -> Names]
ASSUME LensAssumption == Lens \subseteq Nat \ {0}
ASSUME DBChunkSizeAssumption == DBChunkSize \in Nat \ {0}
ASSUME MaxSizeAssumption == MaxSize \in Nat

(* What a client posts: the stream name of the query, its own uid, bytes.  *)
Blob == [name : Names, uid : Streamers, len : Lens]

(* The columns of vid_meta and vid_chunks the recorder depends on.         *)
MetaRow == [name : Names, streamer : Streamers, size : 0 .. MaxSize]
ChunkRow == [vid : Videos, index : Nat, bytes : Seq(Nat)]

ASSUME NoneAssumption == None \notin Videos \cup Blob \cup MetaRow

VARIABLES
  meta,      \* vid_meta: the row of an id, or None
  used,      \* ids that have been given to a row
  chunks,    \* vid_chunks: a set of ChunkRow
  pc,        \* the statement handleChunk is about to execute
  blob,      \* data: the blob it handles, or None
  vid,       \* id, None before the meta row is written
  pre,       \* preSavedSize
  index,     \* index
  current,   \* currentChunkBytes
  rest,      \* the chunks splitIntoChunks returned, less those inserted
  acked,     \* history: the bytes of a video whose blob was answered without error
  lossy      \* history: videos with a failed blob, or one that began at a full chunk

tables == <<meta, used, chunks>>
locals == <<pc, blob, vid, pre, index, current, rest>>
videoVars == <<tables, locals, acked, lossy>>

Init ==
  /\ meta = [v \in Videos |-> None]
  /\ used = {}
  /\ chunks = {}
  /\ pc = "idle" /\ blob = None /\ vid = None
  /\ pre = 0 /\ index = 0 /\ current = <<>> /\ rest = <<>>
  /\ acked = [v \in Videos |-> {}]
  /\ lossy = {}

-----------------------------------------------------------------------------
Rows == {v \in Videos : meta[v] # None}
ChunksOf(v) == {c \in chunks : c.vid = v}

(* The bytes of the blob being handled.                                    *)
Data == [i \in 1 .. blob.len |-> pre + i - 1]

(* Mutant: the last chunk is dropped unless it is full.                    *)
SplitFullOnly(s) ==
  [k \in 1 .. Len(s) \div DBChunkSize |-> SubSeq(s, (k - 1) * DBChunkSize + 1, k * DBChunkSize)]

(* Mutant: every chunk ends with the first byte of the next.               *)
SplitOverlapping(s) ==
  [k \in 1 .. (Len(s) + DBChunkSize - 1) \div DBChunkSize |->
     SubSeq(s, (k - 1) * DBChunkSize + 1,
               IF k * DBChunkSize < Len(s) THEN k * DBChunkSize + 1 ELSE Len(s))]

(* splitIntoChunks                                                         *)
Split(s) ==
  [k \in 1 .. (Len(s) + DBChunkSize - 1) \div DBChunkSize |->
     SubSeq(s, (k - 1) * DBChunkSize + 1,
               IF k * DBChunkSize < Len(s) THEN k * DBChunkSize ELSE Len(s))]

(* Mutant: the index is missing in the where clause.                       *)
UpdateAllBytes(v, i, b) == {IF c.vid = v THEN [c EXCEPT !.bytes = b] ELSE c : c \in chunks}

(* UPDATE vid_chunks SET bytes = b WHERE vid_id = v AND index = i          *)
UpdateBytes(v, i, b) ==
  {IF c.vid = v /\ c.index = i THEN [c EXCEPT !.bytes = b] ELSE c : c \in chunks}

-----------------------------------------------------------------------------
(* HandleChunk passes on a blob that is not empty, with a name.            *)
Receive ==
  /\ pc = "idle"
  /\ \E b \in Blob : blob' = b
  /\ pc' = "select"
  /\ UNCHANGED <<tables, vid, pre, index, current, rest, acked, lossy>>

(* Mutant: the select compares the name as it is.                          *)
SelectMetaExact ==
  /\ pc = "select"
  /\ pc' = IF \E v \in Rows : meta[v].name = blob.name /\ meta[v].streamer = blob.uid
           THEN "update" ELSE "insert"
  /\ UNCHANGED <<tables, blob, vid, pre, index, current, rest, acked, lossy>>

SelectMeta ==
  /\ pc = "select"
  /\ pc' = IF \E v \in Rows : /\ Lower[meta[v].name] = Lower[blob.name]
                              /\ meta[v].streamer = blob.uid
           THEN "update" ELSE "insert"
  /\ UNCHANGED <<tables, blob, vid, pre, index, current, rest, acked, lossy>>

(* Mutant: the update goes by the name alone.                              *)
UpdatedByName == {v \in Rows : meta[v].name = blob.name}

(* The name is compared as it is, unlike in the select.                    *)
Updated == {v \in Rows : meta[v].name = blob.name /\ meta[v].streamer = blob.uid}

UpdateMeta ==
  /\ pc = "update"
  /\ \A v \in Updated : meta[v].size + blob.len <= MaxSize
  /\ \E v \in Updated :
       /\ vid' = v
       /\ pre' = meta[v].size
       /\ index' = meta[v].size \div DBChunkSize
       /\ lossy' = IF meta[v].size % DBChunkSize = 0 THEN lossy \cup {v} ELSE lossy
  /\ meta' = [v \in Videos |->
                IF v \in Updated THEN [meta[v] EXCEPT !.size = @ + blob.len] ELSE meta[v]]
  /\ pc' = "exists"
  /\ UNCHANGED <<used, chunks, blob, current, rest, acked>>

InsertMeta ==
  /\ pc = "insert"
  /\ blob.len <= MaxSize
  /\ \E v \in Videos \ used :
       /\ vid' = v
       /\ used' = used \cup {v}
       /\ meta' = [meta EXCEPT ![v] = [name |-> blob.name, streamer |-> blob.uid,
                                       size |-> blob.len]]
  /\ pre' = 0
  /\ index' = 0
  /\ pc' = "exists"
  /\ UNCHANGED <<chunks, blob, current, rest, acked, lossy>>

(* Has any chunk of the video been written?                                *)
ChunkExists ==
  /\ pc = "exists"
  /\ IF ChunksOf(vid) = {}
     THEN pc' = "chunks" /\ rest' = Split(Data)
     ELSE pc' = "bytes" /\ UNCHANGED rest
  /\ UNCHANGED <<tables, blob, vid, pre, index, current, acked, lossy>>

(* The bytes of the chunk at the index, none if there is no such row.      *)
SelectBytes ==
  /\ pc = "bytes"
  /\ \/ \E c \in ChunksOf(vid) : c.index = index /\ current' = c.bytes
     \/ (\A c \in ChunksOf(vid) : c.index # index) /\ current' = <<>>
  /\ pc' = "write"
  /\ UNCHANGED <<tables, blob, vid, pre, index, rest, acked, lossy>>

(* Mutant: the bytes the chunk has are not put before those of the blob.   *)
AppendToChunkAlone ==
  /\ pc = "write"
  /\ blob.len + pre <= DBChunkSize
  /\ chunks' = UpdateBytes(vid, index, Data)
  /\ pc' = "chunks"
  /\ rest' = <<>>
  /\ UNCHANGED <<meta, used, blob, vid, pre, index, current, acked, lossy>>

(* The blob fits into the first chunk ...                                  *)
AppendToChunk ==
  /\ pc = "write"
  /\ blob.len + pre <= DBChunkSize
  /\ chunks' = UpdateBytes(vid, index, current \o Data)
  /\ pc' = "chunks"
  /\ rest' = <<>>
  /\ UNCHANGED <<meta, used, blob, vid, pre, index, current, acked, lossy>>

(* ... or it fills the chunk at the index, the remainder makes new ones.   *)
DataRange ==
  IF DBChunkSize - Len(current) > blob.len THEN blob.len ELSE DBChunkSize - Len(current)

(* Mutant: the new chunks begin at the index of the one that was filled.   *)
FillChunkSameIndex ==
  /\ pc = "write"
  /\ blob.len + pre > DBChunkSize
  /\ chunks' = UpdateBytes(vid, index, current \o SubSeq(Data, 1, DataRange))
  /\ rest' = Split(SubSeq(Data, DataRange + 1, blob.len))
  /\ pc' = "chunks"
  /\ UNCHANGED <<meta, used, blob, vid, pre, index, current, acked, lossy>>

FillChunk ==
  /\ pc = "write"
  /\ blob.len + pre > DBChunkSize
  /\ chunks' = UpdateBytes(vid, index, current \o SubSeq(Data, 1, DataRange))
  /\ index' = index + 1
  /\ rest' = Split(SubSeq(Data, DataRange + 1, blob.len))
  /\ pc' = "chunks"
  /\ UNCHANGED <<meta, used, blob, vid, pre, current, acked, lossy>>

(* The foreign key refuses a chunk of a video that has been deleted.       *)
InsertChunk ==
  /\ pc = "chunks"
  /\ rest # <<>>
  /\ vid \in Rows
  /\ chunks' = chunks \cup {[vid |-> vid, index |-> index, bytes |-> Head(rest)]}
  /\ rest' = Tail(rest)
  /\ index' = index + 1
  /\ UNCHANGED <<meta, used, pc, blob, vid, pre, current, acked, lossy>>

(* Mutant: id is declared outside the loop.                                *)
ForgetButVid ==
  /\ pc' = "idle" /\ blob' = None /\ vid' = vid
  /\ pre' = 0 /\ index' = 0 /\ current' = <<>> /\ rest' = <<>>

(* The end of the loop body: all locals are declared anew for each blob.   *)
Forget ==
  /\ pc' = "idle" /\ blob' = None /\ vid' = None
  /\ pre' = 0 /\ index' = 0 /\ current' = <<>> /\ rest' = <<>>

Reply ==
  /\ pc = "chunks"
  /\ rest = <<>>
  /\ acked' = [acked EXCEPT ![vid] = @ \cup {pre + i - 1 : i \in 1 .. blob.len}]
  /\ Forget
  /\ UNCHANGED <<tables, lossy>>

(* A statement fails: its error, no row to update, a size out of range, a  *)
(* foreign key, the 3 seconds of the context (its effect may have taken    *)
(* place all the same), the nil dereferences that follow a failed Acquire  *)
(* or a failed insert in the inner loops, a crash of the process and its   *)
(* restart.  The client gets an error or none; the tables stay as they are.*)
Fail ==
  /\ pc # "idle"
  /\ lossy' = IF vid = None THEN lossy ELSE lossy \cup {vid}
  /\ Forget
  /\ UNCHANGED <<tables, acked>>

-----------------------------------------------------------------------------
(* DELETE /api/streams/:name, by any user: every row of that name, and by  *)
(* ON DELETE CASCADE its chunks.                                           *)
DeleteStream(name) ==
  LET gone == {v \in Rows : Lower[meta[v].name] = Lower[name]} IN
  /\ gone # {}
  /\ meta' = [v \in Videos |-> IF v \in gone THEN None ELSE meta[v]]
  /\ chunks' = {c \in chunks : c.vid \notin gone}
  /\ UNCHANGED <<used, locals, acked, lossy>>

HandleChunk ==
  \/ SelectMeta \/ UpdateMeta \/ InsertMeta \/ ChunkExists
  \/ SelectBytes \/ AppendToChunk \/ FillChunk \/ InsertChunk
  \/ Reply \/ Fail

Next ==
  \/ Receive
  \/ HandleChunk
  \/ \E name \in Names : DeleteStream(name)

Spec == Init /\ [][Next]_videoVars

-----------------------------------------------------------------------------
(* Each variable has its type.                                             *)
TypeOK ==
  /\ meta \in [Videos -> MetaRow \cup {None}]
  /\ used \subseteq Videos
  /\ chunks \subseteq ChunkRow
  /\ pc \in {"idle", "select", "update", "insert", "exists", "bytes", "write", "chunks"}
  /\ blob \in Blob \cup {None}
  /\ (blob = None <=> pc = "idle")
  /\ vid \in Videos \cup {None}
  /\ (vid = None <=> pc \in {"idle", "select", "update", "insert"})
  /\ pre \in 0 .. MaxSize
  /\ index \in Nat
  /\ current \in Seq(Nat)
  /\ rest \in Seq(Seq(Nat))
  /\ acked \in [Videos -> SUBSET Nat]
  /\ lossy \subseteq Videos

(* A streamer has at most one recording of a name, whatever its case: the  *)
(* select and the insert are two statements, and the table has no unique   *)
(* constraint.                                                             *)
MetaUnique ==
  \A v, w \in Rows :
    meta[v].streamer = meta[w].streamer /\ Lower[meta[v].name] = Lower[meta[w].name] => v = w

(* vid_chunks has no unique constraint either, but the recorder never      *)
(* writes two rows of one index of a video, also after failed blobs.       *)
ChunkIndexUnique ==
  \A c, d \in chunks : c.vid = d.vid /\ c.index = d.index => c = d

(* No row is empty or longer than VID_CHUNK_SIZE, none is left without its *)
(* video, and the size of the video counts at least the bytes up to its    *)
(* end: a download finds the chunk of a byte by dividing.                  *)
SizeCoversChunks ==
  \A c \in chunks :
    /\ Len(c.bytes) \in 1 .. DBChunkSize
    /\ c.vid \in Rows
    /\ c.index * DBChunkSize + Len(c.bytes) <= meta[c.vid].size

(* Read by index, the bytes of a video come in the order they arrived, and *)
(* none comes twice, whatever blobs failed half way.                       *)
BytesInOrder ==
  \A c, d \in chunks : \A i \in DOMAIN c.bytes : \A j \in DOMAIN d.bytes :
    c.vid = d.vid /\ (c.index < d.index \/ (c = d /\ i < j)) => c.bytes[i] < d.bytes[j]

(* Between two blobs a video of which no blob failed, and none began where *)
(* a chunk was full, is stored completely: byte p is in row p \div         *)
(* VID_CHUNK_SIZE at its place.                                            *)
CompleteUnlessLossy ==
  pc = "idle" =>
    \A v \in Rows \ lossy : \A p \in 0 .. meta[v].size - 1 :
      \E c \in ChunksOf(v) :
        /\ c.index = p \div DBChunkSize
        /\ (p % DBChunkSize) + 1 \in DOMAIN c.bytes
        /\ c.bytes[(p % DBChunkSize) + 1] = p

(* The bytes of a recording, each with its row and its place there.        *)
Placed(v) == UNION {{<<c.index, i, c.bytes[i]>> : i \in DOMAIN c.bytes} : c \in ChunksOf(v)}

(* The recorder implements Recording: however statements of a blob fail    *)
(* and deletions come between them, no byte that is stored is ever moved,  *)
(* changed, dropped or stored again, new ones only come behind it, and a   *)
(* deleted recording does not come back under its id.                      *)
Recorded == INSTANCE Recording WITH log <- [v \in Videos |-> Placed(v)], there <- Rows
AppendOnly == Recorded!Spec

(* "also functions as an auth check by including streamer ID in where      *)
(* clause" (videoServer.go:92): while a video stays, its row and its       *)
(* chunks change only for a blob of its own streamer, although the chunk   *)
(* statements go by the id alone.                                          *)
OnlyOwnerWrites ==
  [][\A v \in Rows :
       meta'[v] # None /\ (meta'[v] # meta[v] \/ {c \in chunks' : c.vid = v} # ChunksOf(v)) =>
         blob # None /\ blob.uid = meta[v].streamer]_videoVars

(* A blob "will overflow the chunk - so fill in any remaining space in the *)
(* chunk then write the extra chunk(s)" (videoServer.go:174): once it is   *)
(* answered without error its bytes are stored, as long as the video is.   *)
AckedBytesStored ==
  \A v \in Rows : \A p \in acked[v] : \E c \in ChunksOf(v) : \E i \in DOMAIN c.bytes : c.bytes[i] = p
=============================================================================
