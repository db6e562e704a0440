-------------------------- MODULE VideoServerProofs --------------------------
(* Proofs about VideoServer, for any names, streamers, blobs, chunk size   *)
(* and number of recordings.                                               *)
EXTENDS VideoServer, TLAPS

(* The types of what the meta rows are made of.                            *)
MetaTypeOK ==
  /\ meta \in [Videos -> MetaRow \cup {None}]
  /\ pc \in {"idle", "select", "update", "insert", "exists", "bytes", "write", "chunks"}
  /\ blob \in Blob \cup {None}
  /\ pc # "idle" => blob # None
  /\ vid \in Videos \cup {None}
  /\ vid = None <=> pc \in {"idle", "select", "update", "insert"}

Same(v, name, uid) == Lower[meta[v].name] = Lower[name] /\ meta[v].streamer = uid

(* When it is about to insert a meta row there is still none of that name: *)
(* rows are inserted by this goroutine only.                               *)
InsertIsNew == pc = "insert" => \A v \in Rows : ~Same(v, blob.name, blob.uid)

(* The video it writes chunks of, if it still exists, is the streamer's.   *)
WritesOwn == vid # None /\ vid \in Rows => meta[vid].streamer = blob.uid

(* An id is given to one row only, also when the row is deleted.           *)
IdsUsed == Rows \subseteq used

MetaInv == MetaTypeOK /\ InsertIsNew /\ WritesOwn /\ IdsUsed /\ MetaUnique

(* Every row of vid_chunks has the three columns.                          *)
ChunkShape == \A c \in chunks : c = [vid |-> c.vid, index |-> c.index, bytes |-> c.bytes]

(* It holds of an empty database and an idle recorder.                     *)
LEMMA MetaInitInv == Init => MetaInv
  BY NoneAssumption DEF Init, MetaInv, MetaTypeOK, InsertIsNew, WritesOwn, IdsUsed, MetaUnique, Rows

(* The statements after the meta row do not touch the meta rows.           *)
ChunkStatement ==
  \/ ChunkExists \/ SelectBytes \/ AppendToChunk \/ FillChunk \/ InsertChunk

(* They leave the blob and the video it goes to as they are.               *)
LEMMA ChunkStatementAside ==
  ASSUME MetaInv, ChunkStatement
  PROVE  /\ UNCHANGED <<meta, blob, vid>>
         /\ pc \in {"exists", "bytes", "write", "chunks"}
         /\ pc' \in {"exists", "bytes", "write", "chunks"}
  BY DEF ChunkStatement, ChunkExists, SelectBytes, AppendToChunk, FillChunk, InsertChunk, tables

(* Every statement, and every deletion, keeps the types; the size column   *)
(* because an UPDATE or INSERT out of its range fails.                     *)
LEMMA MetaTypeStep ==
  ASSUME MetaInv, Next
  PROVE  MetaTypeOK'
<1> USE NoneAssumption DEF MetaInv, MetaTypeOK, tables
<1>1. CASE Receive
  BY <1>1 DEF Receive
<1>2. CASE SelectMeta
  BY <1>2 DEF SelectMeta
<1>3. CASE UpdateMeta
  <2>1. blob \in Blob
    BY <1>3 DEF UpdateMeta
  <2>2. ASSUME NEW v \in Updated
        PROVE  [meta[v] EXCEPT !.size = @ + blob.len] \in MetaRow
    <3>1. meta[v] \in MetaRow /\ meta[v].size + blob.len <= MaxSize
      BY <1>3, <2>2 DEF UpdateMeta, Updated, Rows
    <3>2. blob.len \in Nat
      BY <2>1, LensAssumption DEF Blob
    <3>3. meta[v].size \in Nat
      BY <3>1, MaxSizeAssumption DEF MetaRow
    <3>4. meta[v].size + blob.len \in 0 .. MaxSize
      BY <3>1, <3>2, <3>3, MaxSizeAssumption
    <3> QED
      BY <3>1, <3>4 DEF MetaRow
  <2>3. meta' \in [Videos -> MetaRow \cup {None}]
    BY <1>3, <2>2 DEF UpdateMeta
  <2>4. vid' \in Videos
    BY <1>3 DEF UpdateMeta, Updated, Rows
  <2> QED
    BY <1>3, <2>3, <2>4 DEF UpdateMeta
<1>4. CASE InsertMeta
  <2>1. blob \in Blob
    BY <1>4 DEF InsertMeta
  <2>2. [name |-> blob.name, streamer |-> blob.uid, size |-> blob.len] \in MetaRow
    <3>1. blob.len \in Nat
      BY <2>1, LensAssumption DEF Blob
    <3>2. blob.len \in 0 .. MaxSize
      BY <1>4, <3>1, MaxSizeAssumption DEF InsertMeta
    <3> QED
      BY <2>1, <3>2 DEF MetaRow, Blob
  <2> QED
    BY <1>4, <2>2 DEF InsertMeta
<1>5. CASE ChunkStatement
  BY <1>5, ChunkStatementAside
<1>6. CASE Reply \/ Fail
  BY <1>6 DEF Reply, Fail, Forget
<1>7. ASSUME NEW name \in Names, DeleteStream(name)
      PROVE  MetaTypeOK'
  BY <1>7 DEF DeleteStream, locals
<1> QED
  BY <1>1, <1>2, <1>3, <1>4, <1>5, <1>6, <1>7 DEF Next, HandleChunk, ChunkStatement

(* Names and streamers of rows never change; a row appears by InsertMeta   *)
(* only.                                                                   *)
LEMMA RowsStep ==
  ASSUME MetaInv, Next, ~InsertMeta, NEW v \in Rows'
  PROVE  v \in Rows /\ meta'[v].name = meta[v].name /\ meta'[v].streamer = meta[v].streamer
<1> USE DEF MetaInv, MetaTypeOK, Rows, tables
<1>1. CASE UpdateMeta
  <2>1. meta'[v] = IF v \in Updated THEN [meta[v] EXCEPT !.size = @ + blob.len] ELSE meta[v]
    BY <1>1 DEF UpdateMeta
  <2>2. CASE v \in Updated
    <3>1. meta[v] \in MetaRow
      BY <2>2 DEF Updated
    <3> QED
      BY <2>1, <2>2, <3>1 DEF MetaRow, Updated
  <2> QED
    BY <2>1, <2>2
<1>2. CASE Receive \/ SelectMeta \/ Reply \/ Fail
  BY <1>2 DEF Receive, SelectMeta, Reply, Fail
<1>3. CASE ChunkStatement
  BY <1>3, ChunkStatementAside
<1>4. ASSUME NEW name \in Names, DeleteStream(name)
      PROVE  meta'[v] = meta[v]
  BY <1>4 DEF DeleteStream
<1> QED
  BY <1>1, <1>2, <1>3, <1>4 DEF Next, HandleChunk, ChunkStatement

(* Between the select that found no row and the insert nobody else inserts.*)
LEMMA InsertIsNewStep ==
  ASSUME MetaInv, Next
  PROVE  InsertIsNew'
<1> USE DEF MetaInv, InsertIsNew, Same, Rows
<1>1. CASE SelectMeta
  BY <1>1 DEF SelectMeta, tables
<1>2. ASSUME NEW name \in Names, DeleteStream(name)
      PROVE  InsertIsNew'
  BY <1>2 DEF DeleteStream, locals
<1>3. CASE Receive \/ UpdateMeta \/ InsertMeta \/ Reply \/ Fail
  BY <1>3 DEF Receive, UpdateMeta, InsertMeta, Reply, Fail, Forget
<1>4. CASE ChunkStatement
  BY <1>4, ChunkStatementAside
<1> QED
  BY <1>1, <1>2, <1>3, <1>4 DEF Next, HandleChunk, ChunkStatement

(* The id the chunk statements go by is that of a row of the blob's        *)
(* streamer, or of a row deleted since.                                    *)
LEMMA WritesOwnStep ==
  ASSUME MetaInv, Next
  PROVE  WritesOwn'
<1> USE DEF MetaInv, WritesOwn
<1>1. CASE InsertMeta
  BY <1>1 DEF InsertMeta, MetaTypeOK
<1>2. CASE UpdateMeta
  <2>1. vid' \in Updated
    BY <1>2 DEF UpdateMeta
  <2>2. ~InsertMeta
    BY <1>2 DEF UpdateMeta, InsertMeta
  <2> QED
    BY <1>2, <2>1, <2>2, RowsStep DEF UpdateMeta, Updated
<1>3. CASE vid' = vid /\ blob' = blob /\ ~InsertMeta
  BY <1>3, RowsStep
<1>4. CASE vid' = None
  BY <1>4
<1>5. CASE Receive
  BY <1>5 DEF Receive, MetaTypeOK
<1>6. CASE Reply \/ Fail
  BY <1>4, <1>6 DEF Reply, Fail, Forget
<1>7. CASE ChunkStatement
  BY <1>3, <1>7, ChunkStatementAside DEF InsertMeta
<1>8. CASE SelectMeta
  BY <1>3, <1>8 DEF SelectMeta, InsertMeta
<1>9. ASSUME NEW name \in Names, DeleteStream(name)
      PROVE  WritesOwn'
  BY <1>3, <1>9 DEF DeleteStream, locals, InsertMeta
<1> QED
  BY <1>1, <1>2, <1>5, <1>6, <1>7, <1>8, <1>9 DEF Next, HandleChunk, ChunkStatement

(* Only InsertMeta adds a row, and what it adds is new.                    *)
LEMMA MetaUniqueStep ==
  ASSUME MetaInv, Next
  PROVE  MetaUnique'
<1> USE DEF MetaInv, MetaUnique
<1>1. CASE InsertMeta
  <2>1. PICK v \in Videos \ used : meta' = [meta EXCEPT ![v] = [name |-> blob.name, streamer |-> blob.uid,
                                                             size |-> blob.len]]
    BY <1>1 DEF InsertMeta
  <2>2. \A w \in Rows : ~Same(w, blob.name, blob.uid)
    BY <1>1 DEF InsertMeta, InsertIsNew
  <2>3. meta'[v].name = blob.name /\ meta'[v].streamer = blob.uid
    BY <2>1 DEF MetaTypeOK
  <2>4. \A w \in Videos \ {v} : meta'[w] = meta[w]
    BY <2>1 DEF MetaTypeOK
  <2> QED
    BY <2>2, <2>3, <2>4 DEF Same, Rows
<1>2. CASE ~InsertMeta
  BY <1>2, RowsStep
<1> QED
  BY <1>1, <1>2

(* A row that appears is put among the used ids with it.                   *)
LEMMA IdsUsedStep ==
  ASSUME MetaInv, Next
  PROVE  IdsUsed'
<1> USE DEF MetaInv, IdsUsed
<1>1. CASE InsertMeta
  BY <1>1 DEF InsertMeta, MetaTypeOK, Rows
<1>2. CASE ~InsertMeta
  <2>1. used' = used
    BY <1>2 DEF Next, HandleChunk, Receive, SelectMeta, UpdateMeta, ChunkExists, SelectBytes,
                AppendToChunk, FillChunk, InsertChunk, Reply, Fail, DeleteStream, tables
  <2> QED
    BY <1>2, <2>1, RowsStep
<1> QED
  BY <1>1, <1>2

(* MetaInv is inductive.                                                   *)
LEMMA MetaInvStep ==
  ASSUME MetaInv, [Next]_videoVars
  PROVE  MetaInv'
<1>1. CASE Next
  BY <1>1, MetaTypeStep, InsertIsNewStep, WritesOwnStep, IdsUsedStep, MetaUniqueStep DEF MetaInv
<1>2. CASE UNCHANGED videoVars
  BY <1>2 DEF videoVars, tables, locals, MetaInv, MetaTypeOK, InsertIsNew, Same, WritesOwn, IdsUsed, MetaUnique, Rows
<1> QED
  BY <1>1, <1>2

(* The meta rows are well formed, and while a blob is handled the recorder *)
(* knows what it has to about them, in every reachable state.              *)
THEOREM MetaInvariant == Spec => []MetaInv
<1>1. Init => MetaInv
  BY MetaInitInv
<1>2. MetaInv /\ [Next]_videoVars => MetaInv'
  BY MetaInvStep
<1> QED
  BY <1>1, <1>2, PTL DEF Spec

(* No streamer ever has two recordings of one name, whatever blobs fail    *)
(* and whatever is deleted in between.                                     *)
THEOREM OneRecordingPerName == Spec => []MetaUnique
<1>1. MetaInv => MetaUnique
  BY DEF MetaInv
<1> QED
  BY <1>1, MetaInvariant, PTL

(* An UPDATE of vid_chunks keeps the columns, and changes rows of the one  *)
(* video only.                                                             *)
LEMMA UpdateBytesKeeps ==
  ASSUME ChunkShape, NEW w, NEW i, NEW b
  PROVE  /\ \A c \in UpdateBytes(w, i, b) : c = [vid |-> c.vid, index |-> c.index, bytes |-> c.bytes]
         /\ \A v : v # w => {c \in UpdateBytes(w, i, b) : c.vid = v} = ChunksOf(v)
<1>1. ASSUME NEW c \in chunks
      PROVE  [c EXCEPT !.bytes = b] = [vid |-> c.vid, index |-> c.index, bytes |-> b]
  BY <1>1 DEF ChunkShape
<1> QED
  BY <1>1 DEF UpdateBytes, ChunksOf, ChunkShape

(* No statement makes a row of another shape.                              *)
LEMMA ChunkShapeStep ==
  ASSUME ChunkShape, [Next]_videoVars
  PROVE  ChunkShape'
<1>1. CASE AppendToChunk
  BY <1>1, UpdateBytesKeeps DEF AppendToChunk, ChunkShape
<1>2. CASE FillChunk
  BY <1>2, UpdateBytesKeeps DEF FillChunk, ChunkShape
<1>3. CASE InsertChunk
  BY <1>3 DEF InsertChunk, ChunkShape
<1>4. ASSUME NEW name \in Names, DeleteStream(name)
      PROVE  ChunkShape'
  BY <1>4 DEF DeleteStream, ChunkShape
<1>5. CASE UNCHANGED chunks
  BY <1>5 DEF ChunkShape
<1> QED
  BY <1>1, <1>2, <1>3, <1>4, <1>5
     DEF Next, HandleChunk, Receive, SelectMeta, UpdateMeta, InsertMeta, ChunkExists, SelectBytes,
         Reply, Fail, tables, videoVars

(* A step that changes the meta row or the chunks of a video which stays   *)
(* handles a blob of the video's own streamer.                             *)
LEMMA OwnerStep ==
  ASSUME MetaInv, ChunkShape, [Next]_videoVars, NEW v \in Rows, meta'[v] # None,
         meta'[v] # meta[v] \/ {c \in chunks' : c.vid = v} # ChunksOf(v)
  PROVE  blob # None /\ blob.uid = meta[v].streamer
<1>1. CASE UpdateMeta
  <2>1. chunks' = chunks
    BY <1>1 DEF UpdateMeta
  <2>2. v \in Updated
    BY <1>1, <2>1 DEF UpdateMeta, ChunksOf, Rows
  <2> QED
    BY <1>1, <2>2 DEF UpdateMeta, Updated, MetaInv, MetaTypeOK
<1>2. CASE InsertMeta
  BY <1>2 DEF InsertMeta, ChunksOf, MetaInv, MetaTypeOK, IdsUsed, Rows
<1>3. CASE ChunkStatement
  <2>1. meta'[v] = meta[v] /\ pc \in {"exists", "bytes", "write", "chunks"}
    BY <1>3, ChunkStatementAside
  <2>2. ASSUME ChunkExists \/ SelectBytes PROVE FALSE
    BY <2>1, <2>2 DEF ChunkExists, SelectBytes, ChunksOf, tables
  <2>3. ASSUME AppendToChunk PROVE v = vid
    BY <2>1, <2>3, UpdateBytesKeeps DEF AppendToChunk
  <2>4. ASSUME FillChunk PROVE v = vid
    BY <2>1, <2>4, UpdateBytesKeeps DEF FillChunk
  <2>5. ASSUME InsertChunk PROVE v = vid
    BY <2>1, <2>5 DEF InsertChunk, ChunksOf
  <2>6. v = vid
    BY <1>3, <2>2, <2>3, <2>4, <2>5 DEF ChunkStatement
  <2> QED
    BY <2>1, <2>6, NoneAssumption DEF MetaInv, MetaTypeOK, WritesOwn, Rows
<1>4. CASE Receive \/ SelectMeta \/ Reply \/ Fail \/ UNCHANGED videoVars
  BY <1>4 DEF Receive, SelectMeta, Reply, Fail, videoVars, tables, ChunksOf
<1>5. ASSUME NEW name \in Names, DeleteStream(name)
      PROVE  FALSE
  BY <1>5 DEF DeleteStream, ChunksOf, Rows
<1> QED
  BY <1>1, <1>2, <1>3, <1>4, <1>5 DEF Next, HandleChunk, ChunkStatement

(* While a video stays, only blobs of its own streamer change its row or   *)
(* its chunks, although the chunk statements go by the id alone.           *)
THEOREM OwnerWrites == Spec => OnlyOwnerWrites
<1>1. Init => ChunkShape
  BY DEF Init, ChunkShape
<1>2. ChunkShape /\ [Next]_videoVars => ChunkShape'
  BY ChunkShapeStep
<1>3. MetaInv /\ ChunkShape /\ [Next]_videoVars =>
        [\A v \in Rows :
           meta'[v] # None /\ (meta'[v] # meta[v] \/ {c \in chunks' : c.vid = v} # ChunksOf(v)) =>
             blob # None /\ blob.uid = meta[v].streamer]_videoVars
  BY OwnerStep
<1> QED
  BY <1>1, <1>2, <1>3, MetaInvariant, PTL DEF Spec, OnlyOwnerWrites
=============================================================================
