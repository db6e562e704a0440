----------------------------- MODULE ChunkProofs -----------------------------
(* Proofs about the chunks VideoServer writes, for any names, streamers,   *)
(* blobs, chunk size and number of recordings.                             *)
EXTENDS VideoServerProofs, SequenceTheorems

(* Where the chunk of an index begins.                                     *)
Base(i) == i * DBChunkSize

LEMMA BaseType ==
  ASSUME NEW i \in Nat
  PROVE  Base(i) \in Nat
  BY DBChunkSizeAssumption DEF Base

LEMMA BaseNext ==
  ASSUME NEW i \in Nat
  PROVE  Base(i + 1) = Base(i) + DBChunkSize
  BY DBChunkSizeAssumption DEF Base

LEMMA BaseSum ==
  ASSUME NEW i \in Nat, NEW j \in Nat
  PROVE  Base(i + j) = Base(i) + Base(j)
  BY DBChunkSizeAssumption DEF Base

LEMMA BaseOrder ==
  ASSUME NEW i \in Nat, NEW j \in Nat, i < j
  PROVE  Base(i) + DBChunkSize <= Base(j)
<1> DEFINE d == j - (i + 1)
<1>1. d \in Nat /\ j = (i + 1) + d
  OBVIOUS
<1>2. Base(j) = Base(i + 1) + Base(d)
  BY <1>1, BaseSum
<1> HIDE DEF d
<1> QED
  BY <1>1, <1>2, BaseNext, BaseType, DBChunkSizeAssumption

LEMMA BaseOfSize ==
  ASSUME NEW n \in Nat
  PROVE  /\ n \div DBChunkSize \in Nat
         /\ Base(n \div DBChunkSize) <= n
         /\ n < Base(n \div DBChunkSize) + DBChunkSize
  BY DBChunkSizeAssumption DEF Base

(* A run of bytes as they arrive, from b on.                               *)
Consecutive(s, b) == s \in Seq(Nat) /\ \A i \in DOMAIN s : s[i] = b + (i - 1)

(* A part of a run is a run.                                               *)
LEMMA PartOfRun ==
  ASSUME NEW b \in Nat, NEW s, Consecutive(s, b),
         NEW m \in Nat, m >= 1, NEW n \in Nat, n <= Len(s)
  PROVE  /\ Consecutive(SubSeq(s, m, n), b + (m - 1))
         /\ Len(SubSeq(s, m, n)) = IF m <= n THEN (n - m) + 1 ELSE 0
<1> DEFINE t == SubSeq(s, m, n)
<1>1. s \in Seq(Nat) /\ DOMAIN s = 1 .. Len(s) /\ \A i \in DOMAIN s : s[i] \in Nat /\ s[i] = b + (i - 1)
  BY DEF Consecutive
<1>2. \A i \in m .. n : i \in DOMAIN s
  BY <1>1
<1>3. /\ t \in Seq(Nat)
      /\ Len(t) = IF m <= n THEN n - m + 1 ELSE 0
      /\ \A i \in 1 .. n - m + 1 : t[i] = s[m + i - 1]
  BY <1>1, <1>2, SubSeqProperties
<1> HIDE DEF t
<1>4. ASSUME NEW i \in DOMAIN t
      PROVE  t[i] = (b + (m - 1)) + (i - 1)
  <2>1. m <= n /\ i \in 1 .. n - m + 1
    BY <1>3, SMTT(40)
  <2>2. t[i] = s[m + i - 1] /\ m + i - 1 \in m .. n /\ i \in Nat
    BY <1>3, <2>1
  <2>3. s[m + i - 1] = b + ((m + i - 1) - 1)
    BY <1>1, <1>2, <2>2
  <2> QED
    BY <2>2, <2>3
<1>5. Consecutive(t, b + (m - 1))
  BY <1>3, <1>4 DEF Consecutive
<1> QED
  BY <1>3, <1>5 DEF t

(* What splitIntoChunks makes of a run of bytes: runs of at most           *)
(* VID_CHUNK_SIZE bytes, the k-th from the place where the k-th chunk      *)
(* would begin.                                                            *)
LEMMA SplitPieces ==
  ASSUME NEW b \in Nat, NEW s, Consecutive(s, b)
  PROVE  /\ Split(s) \in Seq(Seq(Nat))
         /\ \A k \in DOMAIN Split(s) :
              /\ k \in Nat /\ k >= 1
              /\ Consecutive(Split(s)[k], b + Base(k - 1))
              /\ Len(Split(s)[k]) \in 1 .. DBChunkSize
              /\ Base(k - 1) + Len(Split(s)[k]) <= Len(s)
<1> DEFINE n == (Len(s) + DBChunkSize - 1) \div DBChunkSize
           to(k) == IF Base(k) < Len(s) THEN Base(k) ELSE Len(s)
<1>1. s \in Seq(Nat) /\ Len(s) \in Nat /\ DOMAIN s = 1 .. Len(s) /\ \A i \in DOMAIN s : s[i] = b + (i - 1)
  BY DEF Consecutive
<1>2. Len(s) + DBChunkSize - 1 \in Nat
  BY <1>1, DBChunkSizeAssumption
<1>3. n \in Nat /\ Base(n) <= Len(s) + DBChunkSize - 1
  BY <1>2, BaseOfSize
<1>4. Split(s) = [k \in 1 .. n |-> SubSeq(s, Base(k - 1) + 1, to(k))]
  BY DEF Split, Base
<1> HIDE DEF n
<1>5. ASSUME NEW k \in 1 .. n
      PROVE  /\ k \in Nat /\ k >= 1
             /\ Consecutive(Split(s)[k], b + Base(k - 1))
             /\ Len(Split(s)[k]) \in 1 .. DBChunkSize
             /\ Base(k - 1) + Len(Split(s)[k]) <= Len(s)
  <2>1. k \in Nat /\ k >= 1 /\ k - 1 \in Nat /\ (k - 1) + 1 = k
    BY <1>3
  <2>2. Base(k - 1) \in Nat /\ Base(k) = Base(k - 1) + DBChunkSize
    BY <2>1, BaseType, BaseNext
  <2>3. Base(k) <= Base(n)
    <3>1. CASE k = n
      BY <3>1, <2>1, <2>2, DBChunkSizeAssumption
    <3>2. CASE k < n
      BY <3>2, <2>1, <2>2, <1>3, BaseOrder, BaseType, DBChunkSizeAssumption
    <3> QED
      BY <3>1, <3>2, <1>3
  <2>4. Base(k - 1) < Len(s)
    BY <2>2, <2>3, <1>1, <1>3, BaseType, DBChunkSizeAssumption, SMTT(40)
  <2>5. to(k) \in Nat /\ to(k) <= Len(s) /\ Base(k - 1) + 1 <= to(k) /\ to(k) - Base(k - 1) <= DBChunkSize
    BY <2>2, <2>4, <1>1, DBChunkSizeAssumption
  <2>6. Split(s)[k] = SubSeq(s, Base(k - 1) + 1, to(k))
    BY <1>4
  <2> HIDE DEF to
  <2>7. /\ Consecutive(Split(s)[k], b + Base(k - 1))
        /\ Len(Split(s)[k]) = to(k) - Base(k - 1)
    <3>1. Base(k - 1) + 1 \in Nat /\ Base(k - 1) + 1 >= 1 /\ (Base(k - 1) + 1) - 1 = Base(k - 1)
      BY <2>2
    <3>2. /\ Consecutive(Split(s)[k], b + ((Base(k - 1) + 1) - 1))
          /\ Len(Split(s)[k]) = (to(k) - (Base(k - 1) + 1)) + 1
      BY <2>5, <2>6, <3>1, PartOfRun
    <3> QED
      BY <3>1, <3>2, <2>2, <2>5
  <2> QED
    BY <2>1, <2>2, <2>5, <2>7, <1>1, DBChunkSizeAssumption, SMTT(40)
<1>6. DOMAIN Split(s) = 1 .. n /\ \A k \in 1 .. n : Split(s)[k] \in Seq(Nat)
  BY <1>4, <1>5 DEF Consecutive
<1>7. Split(s) \in Seq(Seq(Nat))
  BY <1>3, <1>4, <1>6
<1> QED
  BY <1>5, <1>6, <1>7

-----------------------------------------------------------------------------
(* The inductive invariant.                                                *)

Increasing(s) == \A i, j \in DOMAIN s : i < j => s[i] < s[j]
Below(s, n) == \A i \in DOMAIN s : s[i] < n
AllBefore(s, t) == \A i \in DOMAIN s : \A j \in DOMAIN t : s[i] < t[j]

(* A piece of a recording that may be stored at the index i when n bytes   *)
(* have been counted.                                                      *)
Fits(s, i, n) ==
  /\ s \in Seq(Nat)
  /\ Len(s) \in 1 .. DBChunkSize
  /\ Base(i) + Len(s) <= n
  /\ Increasing(s)
  /\ Below(s, n)

(* What is stored: of every video whose row exists, in order.              *)
Stored ==
  /\ chunks \subseteq ChunkRow
  /\ \A c \in chunks : c.vid \in Rows /\ Fits(c.bytes, c.index, meta[c.vid].size)
  /\ \A c, d \in chunks : c.vid = d.vid =>
       /\ c.index = d.index => c = d
       /\ c.index < d.index => AllBefore(c.bytes, d.bytes)

Counting == pc \in {"exists", "bytes", "write", "chunks"}

(* The bytes of the blob being handled are counted already.                *)
Counted ==
  Counting => /\ pre \in Nat /\ index \in Nat
              /\ vid \in Rows => meta[vid].size = pre + blob.len

(* Until chunks are written all that is stored lies before it, and index   *)
(* is that of the chunk the next byte belongs to.                          *)
BeforeBlob ==
  pc \in {"exists", "bytes", "write"} =>
    /\ index = pre \div DBChunkSize
    /\ \A c \in ChunksOf(vid) : Fits(c.bytes, c.index, pre)

(* What was read of the chunk at index is still what is stored there.      *)
ReadBack ==
  pc = "write" =>
    /\ current \in Seq(Nat)
    /\ Base(index) + Len(current) <= pre
    /\ Increasing(current)
    /\ Below(current, pre)
    /\ \A c \in ChunksOf(vid) : c.index = index => c.bytes = current

(* The pieces still to be written fit behind what is stored.               *)
Pieces ==
  pc = "chunks" =>
    /\ rest \in Seq(Seq(Nat))
    /\ \A k \in DOMAIN rest : Fits(rest[k], index + (k - 1), pre + blob.len)
    /\ \A k, l \in DOMAIN rest : k < l => AllBefore(rest[k], rest[l])
    /\ \A c \in ChunksOf(vid) : \A k \in DOMAIN rest :
         c.index < index /\ AllBefore(c.bytes, rest[k])

ChunkInv == Stored /\ Counted /\ BeforeBlob /\ ReadBack /\ Pieces

LEMMA BlobLength ==
  ASSUME blob \in Blob
  PROVE  blob.len \in Nat /\ blob.len >= 1
<1>1. blob.len \in Lens
  BY DEF Blob
<1>2. blob.len \in Nat \ {0}
  BY <1>1, LensAssumption
<1> QED
  BY <1>2

(* What fits still fits when more bytes are counted.                       *)
LEMMA FitsLonger ==
  ASSUME NEW s, NEW i \in Nat, NEW n \in Nat, NEW m \in Nat, n <= m, Fits(s, i, n)
  PROVE  Fits(s, i, m)
<1>1. s \in Seq(Nat) /\ Base(i) \in Nat
  BY BaseType DEF Fits
<1>2. Len(s) \in Nat /\ Base(i) + Len(s) <= m
  BY <1>1 DEF Fits
<1>3. Below(s, m)
  BY <1>1 DEF Fits, Below
<1> QED
  BY <1>2, <1>3 DEF Fits

(* A run of bytes that comes after b bytes.                                *)
LEMMA RunOrdered ==
  ASSUME NEW b \in Nat, NEW s, Consecutive(s, b)
  PROVE  /\ Increasing(s)
         /\ Below(s, b + Len(s))
         /\ \A i \in DOMAIN s : b <= s[i]
  BY DEF Consecutive, Increasing, Below

(* The empty database satisfies it.                                        *)
LEMMA ChunkInitInv == Init => ChunkInv
  BY DEF Init, ChunkInv, Stored, Counted, Counting, BeforeBlob, ReadBack, Pieces

(* Steps that leave the tables alone and end or have not begun the         *)
(* handling of a blob.                                                     *)
LEMMA AsideStep ==
  ASSUME ChunkInv, UNCHANGED <<meta, chunks>>, ~Counting'
  PROVE  ChunkInv'
<1>1. Stored'
  BY DEF ChunkInv, Stored, Rows, Fits, Increasing, Below, AllBefore, Base
<1> QED
  BY <1>1 DEF ChunkInv, Counted, Counting, BeforeBlob, ReadBack, Pieces

(* The statements that put nothing into the tables keep what is stored.    *)
LEMMA StoredAside ==
  ASSUME Stored, UNCHANGED <<meta, chunks>>
  PROVE  Stored'
  BY DEF Stored, Rows, Fits, Increasing, Below, AllBefore, Base

(* The UPDATE of vid_meta only lets sizes grow.                            *)
LEMMA RowsNotUpdatedAway ==
  ASSUME MetaInv, UpdateMeta, NEW w \in Rows
  PROVE  /\ meta[w] \in MetaRow /\ meta[w].size \in Nat
         /\ w \in Rows'
         /\ meta'[w].size \in Nat /\ meta[w].size <= meta'[w].size
         /\ w \in Updated => meta'[w].size = meta[w].size + blob.len
<1> USE NoneAssumption
<1>1. blob \in Blob /\ blob.len \in Nat /\ blob.len >= 1
  BY BlobLength DEF MetaInv, MetaTypeOK, UpdateMeta
<1>3. /\ meta' = [v \in Videos |->
                    IF v \in Updated THEN [meta[v] EXCEPT !.size = @ + blob.len] ELSE meta[v]]
  BY DEF UpdateMeta
<1>5. meta[w] \in MetaRow /\ w \in Videos
  BY DEF Rows, MetaInv, MetaTypeOK
<1>6. meta[w].size \in Nat
  BY <1>5, MaxSizeAssumption DEF MetaRow
<1>7. CASE w \in Updated
  <2>1. meta'[w] = [meta[w] EXCEPT !.size = @ + blob.len]
    BY <1>3, <1>5, <1>7
  <2>2. meta'[w].size = meta[w].size + blob.len
    BY <1>5, <2>1 DEF MetaRow
  <2>3. meta'[w] \in [name : Names, streamer : Streamers, size : Nat]
    BY <1>1, <1>5, <1>6, <2>1 DEF MetaRow
  <2>4. meta' \in [Videos -> MetaRow \cup {None}]
    BY MetaTypeStep DEF Next, HandleChunk, MetaTypeOK
  <2>5. meta'[w] # None
    <3>1. meta[w].size + blob.len \in 0 .. MaxSize
      BY <1>1, <1>6, <1>7, MaxSizeAssumption DEF UpdateMeta
    <3>2. meta'[w] \in MetaRow
      BY <1>5, <2>1, <3>1 DEF MetaRow
    <3> QED
      BY <3>2
  <2> QED
    BY <1>1, <1>5, <1>6, <2>2, <2>5 DEF Rows
<1>8. CASE w \notin Updated
  <2>1. meta'[w] = meta[w]
    BY <1>3, <1>5, <1>8
  <2> QED
    BY <1>5, <1>6, <1>8, <2>1 DEF Rows
<1> QED
  BY <1>7, <1>8

LEMMA UpdateMetaStep ==
  ASSUME MetaInv, ChunkInv, UpdateMeta
  PROVE  ChunkInv'
<1> USE NoneAssumption
<1>1. blob \in Blob /\ blob.len \in Nat /\ blob.len >= 1
  BY BlobLength DEF MetaInv, MetaTypeOK, UpdateMeta
<1>2. PICK v \in Updated : vid' = v /\ pre' = meta[v].size /\ index' = meta[v].size \div DBChunkSize
  BY DEF UpdateMeta
<1>3. /\ meta' = [w \in Videos |->
                    IF w \in Updated THEN [meta[w] EXCEPT !.size = @ + blob.len] ELSE meta[w]]
      /\ chunks' = chunks /\ blob' = blob /\ pc' = "exists"
  BY DEF UpdateMeta
<1>4. ASSUME NEW w \in Rows
      PROVE  /\ meta[w] \in MetaRow /\ meta[w].size \in Nat
             /\ w \in Rows'
             /\ meta'[w].size \in Nat /\ meta[w].size <= meta'[w].size
             /\ w \in Updated => meta'[w].size = meta[w].size + blob.len
  BY RowsNotUpdatedAway
<1>5. ASSUME NEW c \in chunks
      PROVE  c \in ChunkRow /\ c.index \in Nat /\ c.vid \in Rows /\ Fits(c.bytes, c.index, meta[c.vid].size)
  BY DEF ChunkInv, Stored, ChunkRow
<1>6. Stored'
  <2>1. ASSUME NEW c \in chunks
        PROVE  c.vid \in Rows' /\ Fits(c.bytes, c.index, meta'[c.vid].size)
    BY <1>4, <1>5, FitsLonger
  <2> QED
    BY <1>3, <2>1 DEF ChunkInv, Stored, Fits, Increasing, Below, AllBefore, Base
<1>7. v \in Rows /\ meta[v].size \in Nat
  BY <1>4 DEF Updated
<1>8. Counted'
  BY <1>1, <1>2, <1>3, <1>4, <1>7, BaseOfSize DEF Counted, Counting
<1>9. BeforeBlob'
  <2>1. \A c \in ChunksOf(v) : Fits(c.bytes, c.index, meta[v].size)
    BY <1>5 DEF ChunksOf
  <2> QED
    BY <1>2, <1>3, <2>1 DEF BeforeBlob, ChunksOf, Fits, Increasing, Below, Base
<1> QED
  BY <1>3, <1>6, <1>8, <1>9 DEF ChunkInv, ReadBack, Pieces

LEMMA InsertMetaStep ==
  ASSUME MetaInv, ChunkInv, InsertMeta
  PROVE  ChunkInv'
<1> USE NoneAssumption
<1>1. blob \in Blob /\ blob.len \in Nat /\ blob.len >= 1
  BY BlobLength DEF MetaInv, MetaTypeOK, InsertMeta
<1>2. PICK v \in Videos \ used :
        /\ vid' = v
        /\ meta' = [meta EXCEPT ![v] = [name |-> blob.name, streamer |-> blob.uid, size |-> blob.len]]
  BY DEF InsertMeta
<1>3. chunks' = chunks /\ blob' = blob /\ pc' = "exists" /\ pre' = 0 /\ index' = 0
  BY DEF InsertMeta
<1>4. /\ v \notin Rows
      /\ meta'[v].size = blob.len
      /\ \A w \in Videos \ {v} : meta'[w] = meta[w]
  BY <1>2 DEF MetaInv, MetaTypeOK, IdsUsed
<1>5. \A c \in chunks : c.vid \in Rows /\ c.vid \in Videos \ {v}
  BY <1>4 DEF ChunkInv, Stored, Rows
<1>6. Stored'
  <2>1. ASSUME NEW c \in chunks
        PROVE  c.vid \in Rows' /\ Fits(c.bytes, c.index, meta'[c.vid].size)
    BY <1>4, <1>5 DEF ChunkInv, Stored, Rows
  <2> QED
    BY <1>3, <2>1 DEF ChunkInv, Stored, Fits, Increasing, Below, AllBefore, Base
<1>7. Counted'
  BY <1>1, <1>2, <1>3, <1>4 DEF Counted, Counting
<1>8. BeforeBlob'
  <2>1. 0 \div DBChunkSize = 0
    BY DBChunkSizeAssumption
  <2> QED
    BY <1>2, <1>3, <1>5, <2>1 DEF BeforeBlob, ChunksOf
<1> QED
  BY <1>3, <1>6, <1>7, <1>8 DEF ChunkInv, ReadBack, Pieces

(* A byte of a later chunk is later.                                       *)
LEMMA LaterByte ==
  ASSUME NEW b \in Nat, NEW f \in Nat, NEW g \in Nat, NEW d \in Nat,
         NEW x \in Nat, NEW y \in Nat, f + d <= g, x <= d, y >= 1
  PROVE  (b + f) + (x - 1) < (b + g) + (y - 1)
  OBVIOUS

(* Of the pieces of a run only the last is short, so they follow each      *)
(* other.                                                                  *)
LEMMA PiecesOfRun ==
  ASSUME NEW b \in Nat, NEW s, Consecutive(s, b), NEW i \in Nat, NEW n \in Nat,
         Base(i) + Len(s) <= n, b + Len(s) <= n
  PROVE  /\ Split(s) \in Seq(Seq(Nat))
         /\ \A k \in DOMAIN Split(s) :
              Fits(Split(s)[k], i + (k - 1), n) /\ \A j \in DOMAIN Split(s)[k] : b <= Split(s)[k][j]
         /\ \A k, l \in DOMAIN Split(s) : k < l => AllBefore(Split(s)[k], Split(s)[l])
<1> DEFINE p == Split(s)
<1>1. /\ p \in Seq(Seq(Nat))
      /\ \A k \in DOMAIN p :
           /\ k \in Nat /\ k >= 1
           /\ Consecutive(p[k], b + Base(k - 1))
           /\ Len(p[k]) \in 1 .. DBChunkSize
           /\ Base(k - 1) + Len(p[k]) <= Len(s)
  BY SplitPieces
<1>2. Len(s) \in Nat
  BY DEF Consecutive
<1> HIDE DEF p
<1>3. ASSUME NEW k \in DOMAIN p
      PROVE  Fits(p[k], i + (k - 1), n) /\ \A j \in DOMAIN p[k] : b <= p[k][j]
  <2>1. k \in Nat /\ k >= 1
    BY <1>1
  <2>2. PICK m \in Nat : m = k - 1
    BY <2>1
  <2>3. /\ Consecutive(p[k], b + Base(m))
        /\ Len(p[k]) \in 1 .. DBChunkSize
        /\ Base(m) + Len(p[k]) <= Len(s)
    BY <1>1, <2>2
  <2>4. Base(m) \in Nat /\ Base(i) \in Nat /\ Base(i + m) = Base(i) + Base(m)
    BY BaseType, BaseSum
  <2>5. p[k] \in Seq(Nat) /\ Len(p[k]) \in Nat /\ \A j \in DOMAIN p[k] : p[k][j] \in Nat
    BY <2>3 DEF Consecutive
  <2>6. Base(i + m) + Len(p[k]) <= n /\ (b + Base(m)) + Len(p[k]) <= n /\ b + Base(m) \in Nat
    BY <1>2, <2>3, <2>4, <2>5, SMTT(40)
  <2>7. /\ Increasing(p[k])
        /\ Below(p[k], (b + Base(m)) + Len(p[k]))
        /\ \A j \in DOMAIN p[k] : b + Base(m) <= p[k][j]
    BY <2>3, <2>6, RunOrdered
  <2>8. Below(p[k], n)
    <3>1. (b + Base(m)) + Len(p[k]) \in Nat
      BY <2>5, <2>6
    <3> QED
      BY <2>5, <2>6, <2>7, <3>1 DEF Below
  <2>9. \A j \in DOMAIN p[k] : b <= p[k][j]
    BY <2>4, <2>5, <2>7
  <2> QED
    BY <2>2, <2>3, <2>5, <2>6, <2>7, <2>8, <2>9 DEF Fits
<1>4. ASSUME NEW k \in DOMAIN p, NEW l \in DOMAIN p, k < l
      PROVE  AllBefore(p[k], p[l])
  <2>1. k \in Nat /\ k >= 1 /\ l \in Nat /\ l >= 1
    BY <1>1
  <2>2. PICK m \in Nat : m = k - 1
    BY <2>1
  <2>3. PICK o \in Nat : o = l - 1
    BY <2>1
  <2>4. Base(m) \in Nat /\ Base(o) \in Nat /\ Base(m) + DBChunkSize <= Base(o)
    BY <1>4, <2>1, <2>2, <2>3, BaseType, BaseOrder
  <2>5. Consecutive(p[k], b + Base(m)) /\ Consecutive(p[l], b + Base(o)) /\ Len(p[k]) \in 1 .. DBChunkSize
    BY <1>1, <2>2, <2>3
  <2>6. ASSUME NEW x \in DOMAIN p[k], NEW y \in DOMAIN p[l]
        PROVE  p[k][x] < p[l][y]
    <3>1. p[k] \in Seq(Nat) /\ p[l] \in Seq(Nat)
      BY <2>5 DEF Consecutive
    <3>2. p[k][x] = (b + Base(m)) + (x - 1) /\ p[l][y] = (b + Base(o)) + (y - 1)
      BY <2>5, <2>6 DEF Consecutive
    <3>3. x \in Nat /\ x <= Len(p[k]) /\ y \in Nat /\ y >= 1
      BY <2>6, <3>1, SMTT(40)
    <3>4. x <= DBChunkSize
      BY <2>5, <3>3, DBChunkSizeAssumption
    <3>5. (b + Base(m)) + (x - 1) < (b + Base(o)) + (y - 1)
      <4>1. DBChunkSize \in Nat
        BY DBChunkSizeAssumption
      <4> QED
        BY <2>4, <3>3, <3>4, <4>1, LaterByte
    <3> QED
      BY <3>2, <3>5
  <2> QED
    BY <2>6 DEF AllBefore
<1> QED
  BY <1>1, <1>3, <1>4 DEF p

LEMMA DataIsRun ==
  ASSUME pre \in Nat, blob.len \in Nat
  PROVE  Consecutive(Data, pre) /\ Len(Data) = blob.len
<1>1. Data \in Seq(Nat) /\ Len(Data) = blob.len
  BY DEF Data
<1>2. \A i \in DOMAIN Data : Data[i] = pre + (i - 1)
  BY DEF Data
<1> QED
  BY <1>1, <1>2 DEF Consecutive

LEMMA ChunkExistsStep ==
  ASSUME MetaInv, ChunkInv, ChunkExists
  PROVE  ChunkInv'
<1>1. blob \in Blob /\ blob.len \in Nat /\ blob.len >= 1
  BY BlobLength, NoneAssumption DEF MetaInv, MetaTypeOK, ChunkExists
<1>2. pre \in Nat /\ index \in Nat /\ index = pre \div DBChunkSize
  BY DEF ChunkInv, Counted, Counting, BeforeBlob, ChunkExists
<1>3. UNCHANGED <<meta, chunks, blob, vid, pre, index>>
  BY DEF ChunkExists, tables
<1>4. Stored'
  BY <1>3, StoredAside DEF ChunkInv
<1>5. Counted'
  BY <1>3 DEF ChunkInv, Counted, Counting, ChunkExists, Rows
<1>6. CASE ChunksOf(vid) = {}
  <2>1. pc' = "chunks" /\ rest' = Split(Data)
    BY <1>6 DEF ChunkExists
  <2>2. Base(index) \in Nat /\ Base(index) <= pre
    BY <1>2, BaseType, BaseOfSize
  <2>3. Consecutive(Data, pre) /\ Len(Data) = blob.len
    BY <1>1, <1>2, DataIsRun
  <2>4. pre + blob.len \in Nat /\ Base(index) + Len(Data) <= pre + blob.len /\ pre + Len(Data) <= pre + blob.len
    BY <1>1, <1>2, <2>2, <2>3
  <2>5. /\ Split(Data) \in Seq(Seq(Nat))
        /\ \A k \in DOMAIN Split(Data) : Fits(Split(Data)[k], index + (k - 1), pre + blob.len)
        /\ \A k, l \in DOMAIN Split(Data) : k < l => AllBefore(Split(Data)[k], Split(Data)[l])
    BY <1>2, <2>3, <2>4, PiecesOfRun
  <2>6. ChunksOf(vid)' = {}
    BY <1>3, <1>6 DEF ChunksOf
  <2>7. Pieces'
    BY <1>3, <2>1, <2>5, <2>6 DEF Pieces, Fits, AllBefore, Increasing, Below, Base
  <2> QED
    BY <1>4, <1>5, <2>1, <2>7 DEF ChunkInv, BeforeBlob, ReadBack
<1>7. CASE ChunksOf(vid) # {}
  <2>1. pc = "exists" /\ pc' = "bytes"
    BY <1>7 DEF ChunkExists
  <2>2. BeforeBlob'
    BY <1>2, <1>3, <2>1 DEF ChunkInv, BeforeBlob, ChunksOf, Fits, Increasing, Below, Base
  <2> QED
    BY <1>4, <1>5, <2>1, <2>2 DEF ChunkInv, Pieces, ReadBack
<1> QED
  BY <1>6, <1>7

LEMMA SelectBytesStep ==
  ASSUME MetaInv, ChunkInv, SelectBytes
  PROVE  ChunkInv'
<1>1. pre \in Nat /\ index \in Nat /\ index = pre \div DBChunkSize
  BY DEF ChunkInv, Counted, Counting, BeforeBlob, SelectBytes
<1>2. UNCHANGED <<meta, chunks, blob, vid, pre, index>> /\ pc = "bytes" /\ pc' = "write"
  BY DEF SelectBytes, tables
<1>3. Stored'
  BY <1>2, StoredAside DEF ChunkInv
<1>4. Counted'
  BY <1>2 DEF ChunkInv, Counted, Counting, Rows
<1>5. BeforeBlob'
  BY <1>1, <1>2 DEF ChunkInv, BeforeBlob, ChunksOf, Fits, Increasing, Below, Base
<1>6. /\ current' \in Seq(Nat)
      /\ Base(index) + Len(current') <= pre
      /\ Increasing(current')
      /\ Below(current', pre)
      /\ \A c \in ChunksOf(vid) : c.index = index => c.bytes = current'
  <2>1. CASE \E c \in ChunksOf(vid) : c.index = index /\ current' = c.bytes
    <3>1. PICK c \in ChunksOf(vid) : c.index = index /\ current' = c.bytes
      BY <2>1
    <3>2. Fits(c.bytes, c.index, pre)
      BY <1>2, <3>1 DEF ChunkInv, BeforeBlob
    <3>3. \A d \in ChunksOf(vid) : d.index = index => d = c
      BY <3>1 DEF ChunkInv, Stored, ChunksOf
    <3>4. c.bytes \in Seq(Nat) /\ Base(index) + Len(c.bytes) <= pre /\ Increasing(c.bytes) /\ Below(c.bytes, pre)
      BY <3>1, <3>2 DEF Fits
    <3> QED
      BY <3>1, <3>3, <3>4
  <2>2. CASE (\A c \in ChunksOf(vid) : c.index # index) /\ current' = <<>>
    <3>1. Base(index) \in Nat /\ Base(index) <= pre
      BY <1>1, BaseOfSize, BaseType
    <3>2. current' \in Seq(Nat) /\ Len(current') = 0 /\ DOMAIN current' = {}
      BY <2>2
    <3> QED
      BY <1>1, <2>2, <3>1, <3>2 DEF Increasing, Below
  <2> QED
    BY <2>1, <2>2 DEF SelectBytes
<1>7. ReadBack'
  BY <1>2, <1>6 DEF ReadBack, ChunksOf, Increasing, Below, Base
<1> QED
  BY <1>2, <1>3, <1>4, <1>5, <1>7 DEF ChunkInv, Pieces

(* Nothing is stored behind the chunk at the index.                        *)
LEMMA NoneBehind ==
  ASSUME pre \in Nat, index = pre \div DBChunkSize, NEW i \in Nat, NEW s, Fits(s, i, pre)
  PROVE  i <= index
<1>1. index \in Nat /\ pre < Base(index) + DBChunkSize
  BY BaseOfSize
<1>2. SUFFICES ASSUME index < i PROVE FALSE
  BY <1>1
<1>3. Base(index) + DBChunkSize <= Base(i)
  BY <1>1, <1>2, BaseOrder
<1>4. Len(s) \in Nat /\ Len(s) >= 1 /\ Base(i) + Len(s) <= pre
  BY DBChunkSizeAssumption DEF Fits
<1>5. Base(i) \in Nat /\ Base(index) \in Nat
  BY <1>1, BaseType
<1> QED
  BY <1>1, <1>3, <1>4, <1>5, DBChunkSizeAssumption

(* The bytes a chunk has, and behind them a run of later ones.             *)
LEMMA Lengthened ==
  ASSUME NEW s \in Seq(Nat), NEW b \in Nat, NEW x, Consecutive(x, b), NEW i \in Nat, NEW n \in Nat,
         Increasing(s), Below(s, b), Len(s) + Len(x) \in 1 .. DBChunkSize,
         Base(i) + Len(s) + Len(x) <= n, b + Len(x) <= n
  PROVE  /\ Fits(s \o x, i, n)
         /\ Below(s \o x, b + Len(x))
         /\ DOMAIN s \subseteq DOMAIN (s \o x)
         /\ \A k \in DOMAIN (s \o x) : (k \in DOMAIN s /\ (s \o x)[k] = s[k]) \/ b <= (s \o x)[k]
<1> DEFINE t == s \o x
<1>a. x \in Seq(Nat) /\ Base(i) \in Nat
  BY BaseType DEF Consecutive
<1>1. x \in Seq(Nat) /\ Len(x) \in Nat /\ Len(s) \in Nat /\ Base(i) \in Nat
  BY <1>a
<1>2. /\ t \in Seq(Nat) /\ Len(t) = Len(s) + Len(x)
      /\ \A k \in 1 .. Len(s) : t[k] = s[k]
      /\ \A k \in Len(s) + 1 .. Len(t) : t[k] = x[k - Len(s)]
  BY <1>1
<1> HIDE DEF t
<1>3. DOMAIN s = 1 .. Len(s) /\ DOMAIN t = 1 .. Len(t) /\ DOMAIN x = 1 .. Len(x)
  BY <1>1, <1>2
<1>4. ASSUME NEW k \in DOMAIN t, k \notin DOMAIN s
      PROVE  k \in Nat /\ k > Len(s) /\ t[k] = b + ((k - Len(s)) - 1) /\ t[k] < b + Len(x) /\ b <= t[k]
  <2>1. k \in Nat /\ k > Len(s) /\ k <= Len(s) + Len(x)
    BY <1>1, <1>2, <1>3, <1>4, SMTT(40)
  <2>2. PICK j \in Nat : j = k - Len(s)
    BY <1>1, <2>1
  <2>3. j >= 1 /\ j <= Len(x) /\ j \in 1 .. Len(x)
    BY <1>1, <2>1, <2>2, SMTT(40)
  <2>4. k \in Len(s) + 1 .. Len(t)
    <3>1. Len(t) \in Nat /\ k <= Len(t)
      BY <1>1, <1>2, <2>1
    <3> QED
      BY <1>1, <2>1, <3>1
  <2>5. t[k] = x[j]
    BY <1>2, <2>2, <2>4
  <2>6. x[j] = b + (j - 1)
    BY <1>3, <2>3 DEF Consecutive
  <2>7. b + (j - 1) < b + Len(x) /\ b <= b + (j - 1)
    BY <1>1, <2>3
  <2> QED
    BY <2>1, <2>2, <2>5, <2>6, <2>7
<1>5. ASSUME NEW k \in DOMAIN s
      PROVE  k \in DOMAIN t /\ t[k] = s[k] /\ s[k] \in Nat /\ s[k] < b
  BY <1>1, <1>2, <1>3, SMTT(40) DEF Below
<1>6. ASSUME NEW k \in DOMAIN t, NEW l \in DOMAIN t, k < l
      PROVE  t[k] < t[l]
  <2>1. CASE l \in DOMAIN s
    <3>1. k \in DOMAIN s
      BY <1>1, <1>2, <1>3, <1>6, <2>1
    <3>2. s[k] < s[l]
      BY <1>6, <2>1, <3>1 DEF Increasing
    <3> QED
      BY <1>5, <2>1, <3>1, <3>2
  <2>2. CASE k \in DOMAIN s /\ l \notin DOMAIN s
    <3>1. t[k] \in Nat /\ t[k] < b
      BY <1>5, <2>2
    <3>2. t[l] \in Nat
      BY <1>2, <1>6
    <3>3. b <= t[l]
      BY <1>4, <1>6, <2>2
    <3> QED
      BY <3>1, <3>2, <3>3
  <2>3. CASE k \notin DOMAIN s /\ l \notin DOMAIN s
    <3>1. k \in Nat /\ l \in Nat /\ t[k] = b + ((k - Len(s)) - 1) /\ t[l] = b + ((l - Len(s)) - 1)
      BY <1>4, <2>3
    <3> QED
      BY <1>1, <1>6, <3>1
  <2> QED
    BY <2>1, <2>2, <2>3
<1>7. ASSUME NEW k \in DOMAIN t
      PROVE  t[k] \in Nat /\ t[k] < b + Len(x) /\ ((k \in DOMAIN s /\ t[k] = s[k]) \/ b <= t[k])
  <2>1. CASE k \in DOMAIN s
    <3>1. t[k] = s[k] /\ s[k] \in Nat /\ s[k] < b
      BY <1>5, <2>1
    <3> QED
      BY <1>1, <2>1, <3>1
  <2>2. CASE k \notin DOMAIN s
    BY <1>1, <1>4, <2>2, SMTT(40)
  <2> QED
    BY <2>1, <2>2
<1>8. Below(t, b + Len(x)) /\ Below(t, n)
  <2>1. b + Len(x) \in Nat
    BY <1>1
  <2> QED
    BY <1>7, <2>1 DEF Below
<1>9. Base(i) + Len(t) <= n /\ Len(t) \in 1 .. DBChunkSize
  BY <1>1, <1>2
<1>10. Fits(t, i, n)
  BY <1>2, <1>6, <1>8, <1>9 DEF Fits, Increasing
<1> QED
  BY <1>5, <1>7, <1>8, <1>10 DEF t

(* The UPDATE puts a run of bytes behind those of the chunk at the index,  *)
(* if there is one.                                                        *)
LEMMA UpdateStored ==
  ASSUME MetaInv, ChunkInv, pc = "write", NEW x, Consecutive(x, pre), Len(x) <= blob.len,
         Len(current) + Len(x) <= DBChunkSize, meta' = meta,
         chunks' = UpdateBytes(vid, index, current \o x)
  PROVE  /\ Stored'
         /\ \A c \in chunks' : c.vid = vid => c.index <= index /\ Below(c.bytes, pre + Len(x))
<1> DEFINE new(c) == IF c.vid = vid /\ c.index = index THEN [c EXCEPT !.bytes = current \o x] ELSE c
<1>1. chunks' = {new(c) : c \in chunks}
  BY DEF UpdateBytes
<1>2. /\ pre \in Nat /\ index \in Nat /\ index = pre \div DBChunkSize
      /\ current \in Seq(Nat) /\ Base(index) + Len(current) <= pre
      /\ Increasing(current) /\ Below(current, pre)
      /\ vid \in Rows => meta[vid].size = pre + blob.len
  BY DEF ChunkInv, Counted, Counting, BeforeBlob, ReadBack
<1>3. blob.len \in Nat
  BY BlobLength, NoneAssumption DEF MetaInv, MetaTypeOK
<1>4. ASSUME NEW c \in chunks
      PROVE  /\ c \in ChunkRow /\ c.index \in Nat /\ c.vid \in Rows
             /\ c.bytes \in Seq(Nat)
             /\ Fits(c.bytes, c.index, meta[c.vid].size)
  BY DEF ChunkInv, Stored, ChunkRow
<1>5. ASSUME NEW c \in chunks, c.vid = vid
      PROVE  /\ Fits(c.bytes, c.index, pre) /\ c.index <= index
             /\ c.index = index => c.bytes = current
             /\ meta[c.vid].size = pre + blob.len
  <2>1. c \in ChunksOf(vid)
    BY <1>5 DEF ChunksOf
  <2>2. Fits(c.bytes, c.index, pre) /\ (c.index = index => c.bytes = current)
    BY <2>1 DEF ChunkInv, BeforeBlob, ReadBack
  <2>3. c.index <= index
    BY <1>2, <1>4, <2>2, NoneBehind
  <2> QED
    BY <1>2, <1>4, <1>5, <2>2, <2>3
<1>6. x \in Seq(Nat) /\ Len(x) \in Nat /\ Len(current) \in Nat /\ Base(index) \in Nat
  BY <1>2, BaseType DEF Consecutive
<1>7. ASSUME NEW c \in chunks, c.vid = vid, c.index = index
      PROVE  /\ new(c) = [vid |-> vid, index |-> index, bytes |-> current \o x]
             /\ new(c) \in ChunkRow
             /\ Fits(current \o x, index, pre + blob.len)
             /\ Below(current \o x, pre + Len(x))
             /\ \A k \in DOMAIN (current \o x) :
                  (k \in DOMAIN current /\ (current \o x)[k] = current[k]) \/ pre <= (current \o x)[k]
  <2>1. Len(current) >= 1
    BY <1>5, <1>7, DBChunkSizeAssumption DEF Fits
  <2>2. Len(current) + Len(x) \in 1 .. DBChunkSize
    BY <1>6, <2>1, DBChunkSizeAssumption
  <2>3. /\ Base(index) + Len(current) + Len(x) <= pre + blob.len
        /\ pre + Len(x) <= pre + blob.len
        /\ pre + blob.len \in Nat
    BY <1>2, <1>3, <1>6
  <2>4. new(c) = [vid |-> vid, index |-> index, bytes |-> current \o x]
    BY <1>4, <1>7 DEF ChunkRow
  <2>5. vid \in Videos
    BY <1>4, <1>7 DEF Rows
  <2> HIDE DEF new
  <2>6. new(c) \in ChunkRow
    <3>1. current \o x \in Seq(Nat)
      BY <1>2, <1>6
    <3> QED
      BY <1>2, <2>4, <2>5, <3>1 DEF ChunkRow
  <2>7. /\ Fits(current \o x, index, pre + blob.len)
        /\ Below(current \o x, pre + Len(x))
        /\ \A k \in DOMAIN (current \o x) :
             (k \in DOMAIN current /\ (current \o x)[k] = current[k]) \/ pre <= (current \o x)[k]
    BY <1>2, <2>2, <2>3, Lengthened
  <2> QED
    BY <2>4, <2>6, <2>7
<1>8. ASSUME NEW c \in chunks
      PROVE  /\ new(c) \in ChunkRow
             /\ new(c).vid = c.vid /\ new(c).index = c.index
             /\ Fits(new(c).bytes, c.index, meta[c.vid].size)
             /\ c.vid = vid => Below(new(c).bytes, pre + Len(x))
  <2>1. CASE c.vid = vid /\ c.index = index
    BY <1>5, <1>7, <2>1
  <2>2. CASE ~(c.vid = vid /\ c.index = index)
    <3>1. new(c) = c
      BY <2>2
    <3>2. c.vid = vid => Below(c.bytes, pre + Len(x))
      <4>1. \A k \in DOMAIN c.bytes : c.bytes[k] \in Nat
        BY <1>4
      <4> QED
        BY <1>2, <1>5, <1>6, <4>1 DEF Fits, Below
    <3> QED
      BY <1>4, <3>1, <3>2
  <2> QED
    BY <2>1, <2>2
<1>9. ASSUME NEW c \in chunks, NEW d \in chunks, c.vid = d.vid
      PROVE  /\ c.index = d.index => c = d
             /\ c.index < d.index => AllBefore(new(c).bytes, new(d).bytes)
  <2>1. c.index = d.index => c = d
    BY <1>9 DEF ChunkInv, Stored
  <2>2. c.index < d.index => AllBefore(c.bytes, d.bytes)
    BY <1>9 DEF ChunkInv, Stored
  <2>3. ASSUME d.vid = vid, d.index = index, c.index < d.index
        PROVE  AllBefore(new(c).bytes, new(d).bytes)
    <3>1. new(c) = c
      BY <1>4, <2>3
    <3>2. d.bytes = current /\ new(d).bytes = current \o x /\ Below(c.bytes, pre)
      BY <1>5, <1>7, <1>9, <2>3 DEF Fits
    <3>3. ASSUME NEW i \in DOMAIN c.bytes, NEW j \in DOMAIN (current \o x)
          PROVE  c.bytes[i] < (current \o x)[j]
      <4>1. CASE j \in DOMAIN current /\ (current \o x)[j] = current[j]
        BY <2>2, <2>3, <3>2, <4>1 DEF AllBefore
      <4>2. CASE pre <= (current \o x)[j]
        <5>1. c.bytes[i] \in Nat /\ c.bytes[i] < pre
          BY <1>4, <3>2 DEF Below
        <5>2. (current \o x)[j] \in Nat
          BY <1>2, <1>6, SMTT(40)
        <5> QED
          BY <1>2, <4>2, <5>1, <5>2
      <4> QED
        BY <1>7, <2>3, <4>1, <4>2
    <3> QED
      BY <3>1, <3>2, <3>3 DEF AllBefore
  <2>4. ASSUME c.vid = vid, c.index = index, c.index < d.index
        PROVE  FALSE
    <3>1. d.vid = vid /\ d.index <= index /\ d.index \in Nat
      BY <1>4, <1>5, <1>9, <2>4
    <3> QED
      BY <1>2, <2>4, <3>1
  <2>5. ASSUME ~(c.vid = vid /\ c.index = index), ~(d.vid = vid /\ d.index = index), c.index < d.index
        PROVE  AllBefore(new(c).bytes, new(d).bytes)
    <3>1. new(c) = c /\ new(d) = d
      BY <2>5
    <3> QED
      BY <2>2, <2>5, <3>1
  <2> HIDE DEF new
  <2> QED
    BY <2>1, <2>3, <2>4, <2>5
<1> HIDE DEF new
<1>10. ASSUME NEW e \in chunks', NEW f \in chunks', e.vid = f.vid
       PROVE  /\ e.index = f.index => e = f
              /\ e.index < f.index => AllBefore(e.bytes, f.bytes)
  <2>1. PICK c \in chunks : e = new(c)
    BY <1>1
  <2>2. PICK d \in chunks : f = new(d)
    BY <1>1
  <2> QED
    BY <1>8, <1>9, <1>10, <2>1, <2>2
<1>11. ASSUME NEW e \in chunks'
       PROVE  /\ e \in ChunkRow /\ e.vid \in Rows'
              /\ Fits(e.bytes, e.index, meta'[e.vid].size)
              /\ e.vid = vid => e.index <= index /\ Below(e.bytes, pre + Len(x))
  <2>1. PICK c \in chunks : e = new(c)
    BY <1>1
  <2> QED
    BY <1>4, <1>5, <1>8, <2>1 DEF Rows
<1>12. Stored'
  BY <1>10, <1>11 DEF Stored, Fits, Increasing, Below, AllBefore, Base
<1> QED
  BY <1>11, <1>12

(* What fits into the first chunk.                                         *)
LEMMA AppendedPart ==
  ASSUME MetaInv, ChunkInv, AppendToChunk
  PROVE  Consecutive(Data, pre) /\ Len(Data) <= blob.len /\ Len(current) + Len(Data) <= DBChunkSize
<1>1. blob \in Blob /\ blob.len \in Nat /\ blob.len >= 1
  BY BlobLength, NoneAssumption DEF MetaInv, MetaTypeOK, AppendToChunk
<1>2. /\ pre \in Nat /\ index \in Nat /\ current \in Seq(Nat)
      /\ Base(index) + Len(current) <= pre
  BY DEF ChunkInv, Counted, Counting, ReadBack, AppendToChunk
<1>3. blob.len + pre <= DBChunkSize
  BY DEF AppendToChunk
<1>4. Consecutive(Data, pre) /\ Len(Data) = blob.len
  BY <1>1, <1>2, DataIsRun
<1>5. Len(current) + Len(Data) <= DBChunkSize
  <2>1. Base(index) \in Nat /\ Len(current) \in Nat
    BY <1>2, BaseType
  <2> QED
    BY <1>1, <1>2, <1>3, <1>4, <2>1, DBChunkSizeAssumption
<1> QED
  BY <1>1, <1>4, <1>5

LEMMA AppendToChunkStep ==
  ASSUME MetaInv, ChunkInv, AppendToChunk
  PROVE  ChunkInv'
<1>1. /\ UNCHANGED <<meta, blob, vid, pre, index>>
      /\ pc = "write" /\ pc' = "chunks" /\ rest' = <<>>
      /\ chunks' = UpdateBytes(vid, index, current \o Data)
  BY DEF AppendToChunk
<1>2. Stored'
  BY <1>1, AppendedPart, UpdateStored
<1>3. Counted'
  BY <1>1 DEF ChunkInv, Counted, Counting, Rows
<1>4. Pieces'
  <2>1. <<>> \in Seq(Seq(Nat)) /\ DOMAIN <<>> = {}
    OBVIOUS
  <2> QED
    BY <1>1, <2>1 DEF Pieces
<1> QED
  BY <1>1, <1>2, <1>3, <1>4 DEF ChunkInv, BeforeBlob, ReadBack

(* The part of the blob that fills the chunk at index.                     *)
LEMMA FilledPart ==
  ASSUME MetaInv, ChunkInv, FillChunk
  PROVE  /\ DataRange \in Nat /\ DataRange <= blob.len /\ Len(current) + DataRange <= DBChunkSize
         /\ DataRange = blob.len \/ DataRange = DBChunkSize - Len(current)
         /\ Consecutive(SubSeq(Data, 1, DataRange), pre) /\ Len(SubSeq(Data, 1, DataRange)) = DataRange
<1> DEFINE d == DataRange
           x == SubSeq(Data, 1, d)
<1>1. blob \in Blob /\ blob.len \in Nat /\ blob.len >= 1
  BY BlobLength, NoneAssumption DEF MetaInv, MetaTypeOK, FillChunk
<1>2. /\ pre \in Nat /\ index \in Nat /\ current \in Seq(Nat)
      /\ index = pre \div DBChunkSize
      /\ Base(index) + Len(current) <= pre
  BY DEF ChunkInv, Counted, Counting, BeforeBlob, ReadBack, FillChunk
<1>4. Consecutive(Data, pre) /\ Len(Data) = blob.len
  BY <1>1, <1>2, DataIsRun
<1>5. /\ pre \in Nat /\ index \in Nat /\ Base(index) \in Nat /\ Len(current) \in Nat
      /\ Base(index) + Len(current) <= pre /\ pre < Base(index) + DBChunkSize
  BY <1>2, BaseType, BaseOfSize
<1>6. /\ d \in Nat /\ d <= blob.len /\ Len(current) + d <= DBChunkSize
      /\ d = blob.len \/ d = DBChunkSize - Len(current)
  <2>1. Len(current) < DBChunkSize
    BY <1>5, DBChunkSizeAssumption
  <2>2. d = IF DBChunkSize - Len(current) > blob.len THEN blob.len ELSE DBChunkSize - Len(current)
    BY DEF DataRange
  <2> HIDE DEF d
  <2> QED
    BY <1>1, <1>5, <2>1, <2>2, DBChunkSizeAssumption
<1> HIDE DEF d
<1>7. Consecutive(x, pre) /\ Len(x) = d
  <2>1. /\ Consecutive(SubSeq(Data, 1, d), pre + (1 - 1))
        /\ Len(SubSeq(Data, 1, d)) = IF 1 <= d THEN (d - 1) + 1 ELSE 0
    BY <1>4, <1>5, <1>6, PartOfRun
  <2>2. pre + (1 - 1) = pre /\ (IF 1 <= d THEN (d - 1) + 1 ELSE 0) = d
    BY <1>5, <1>6
  <2>3. Consecutive(SubSeq(Data, 1, d), pre)
    BY <2>1, <2>2, Zenon
  <2>4. Len(SubSeq(Data, 1, d)) = d
    <3> DEFINE n == Len(SubSeq(Data, 1, d))
    <3>1. n = IF 1 <= d THEN (d - 1) + 1 ELSE 0
      BY <2>1
    <3> HIDE DEF n
    <3>2. n = d
      BY <1>6, <3>1
    <3> QED
      BY <3>2 DEF n
  <2> QED
    BY <2>3, <2>4
<1> QED
  BY <1>6, <1>7 DEF d

LEMMA FillChunkStep ==
  ASSUME MetaInv, ChunkInv, FillChunk
  PROVE  ChunkInv'
<1> DEFINE d == DataRange
           x == SubSeq(Data, 1, d)
           y == SubSeq(Data, d + 1, blob.len)
<1>1. blob \in Blob /\ blob.len \in Nat /\ blob.len >= 1
  BY BlobLength, NoneAssumption DEF MetaInv, MetaTypeOK, FillChunk
<1>2. /\ pre \in Nat /\ index \in Nat /\ current \in Seq(Nat)
      /\ index = pre \div DBChunkSize
      /\ Base(index) + Len(current) <= pre
  BY DEF ChunkInv, Counted, Counting, BeforeBlob, ReadBack, FillChunk
<1>3. /\ UNCHANGED <<meta, blob, vid, pre>>
      /\ pc = "write" /\ pc' = "chunks"
      /\ rest' = Split(y) /\ index' = index + 1
      /\ chunks' = UpdateBytes(vid, index, current \o x)
  BY DEF FillChunk
<1>4. Consecutive(Data, pre) /\ Len(Data) = blob.len
  BY <1>1, <1>2, DataIsRun
<1>5. /\ pre \in Nat /\ index \in Nat /\ Base(index) \in Nat /\ Len(current) \in Nat
      /\ Base(index) + Len(current) <= pre /\ pre < Base(index) + DBChunkSize
  BY <1>2, BaseType, BaseOfSize
<1>6. /\ d \in Nat /\ d <= blob.len /\ Len(current) + d <= DBChunkSize
      /\ d = blob.len \/ d = DBChunkSize - Len(current)
  BY FilledPart
<1>7. Consecutive(x, pre) /\ Len(x) = d
  BY FilledPart
<1> HIDE DEF d
<1>8. Consecutive(y, pre + d) /\ Len(y) = blob.len - d
  <2>1. /\ Consecutive(SubSeq(Data, d + 1, blob.len), pre + ((d + 1) - 1))
        /\ Len(SubSeq(Data, d + 1, blob.len)) = IF d + 1 <= blob.len THEN (blob.len - (d + 1)) + 1 ELSE 0
    BY <1>1, <1>4, <1>5, <1>6, PartOfRun
  <2>2. /\ pre + ((d + 1) - 1) = pre + d
        /\ (IF d + 1 <= blob.len THEN (blob.len - (d + 1)) + 1 ELSE 0) = blob.len - d
    BY <1>1, <1>5, <1>6
  <2> QED
    BY <2>1, <2>2
<1> HIDE DEF x, y
<1>9. /\ Stored'
      /\ \A c \in chunks' : c.vid = vid => c.index <= index /\ Below(c.bytes, pre + d)
  BY <1>3, <1>6, <1>7, UpdateStored
<1>10. Counted'
  BY <1>2, <1>3 DEF ChunkInv, Counted, Counting, Rows
<1>11. /\ rest' \in Seq(Seq(Nat))
       /\ \A k \in DOMAIN rest' :
            Fits(rest'[k], index' + (k - 1), pre + blob.len) /\ \A j \in DOMAIN rest'[k] : pre + d <= rest'[k][j]
       /\ \A k, l \in DOMAIN rest' : k < l => AllBefore(rest'[k], rest'[l])
  <2>1. pre + d \in Nat /\ pre + blob.len \in Nat /\ (pre + d) + Len(y) <= pre + blob.len
    BY <1>1, <1>2, <1>6, <1>8
  <2>2. index + 1 \in Nat /\ Base(index + 1) = Base(index) + DBChunkSize
    BY <1>5, BaseNext
  <2>3. CASE d = DBChunkSize - Len(current)
    <3>1. Base(index + 1) + Len(y) <= pre + blob.len
      BY <1>1, <1>5, <1>6, <1>8, <2>2, <2>3, DBChunkSizeAssumption, SMTT(40)
    <3> QED
      BY <1>3, <1>8, <2>1, <2>2, <3>1, PiecesOfRun
  <2>4. CASE d = blob.len
    <3>1. Len(y) = 0 /\ (Len(y) + DBChunkSize - 1) \div DBChunkSize = 0
      BY <1>1, <1>8, <2>4, DBChunkSizeAssumption
    <3>2. Split(y) = <<>>
      BY <3>1 DEF Split
    <3> QED
      BY <1>3, <3>2
  <2> QED
    BY <1>6, <2>3, <2>4
<1>12. ASSUME NEW c \in chunks', c.vid = vid, NEW k \in DOMAIN rest'
       PROVE  c.index < index' /\ AllBefore(c.bytes, rest'[k])
  <2>1. c.index <= index /\ Below(c.bytes, pre + d) /\ c.index \in Nat /\ c.bytes \in Seq(Nat)
    BY <1>9, <1>12 DEF Stored, ChunkRow
  <2>2. rest'[k] \in Seq(Nat) /\ \A j \in DOMAIN rest'[k] : pre + d <= rest'[k][j]
    BY <1>11
  <2>3. pre + d \in Nat
    BY <1>2, <1>6
  <2>4. AllBefore(c.bytes, rest'[k])
    BY <2>1, <2>2, <2>3 DEF Below, AllBefore
  <2> QED
    BY <1>2, <1>3, <2>1, <2>4
<1>13. Pieces'
  BY <1>3, <1>11, <1>12 DEF Pieces, ChunksOf, Fits, AllBefore, Increasing, Below, Base
<1> QED
  BY <1>3, <1>9, <1>10, <1>13 DEF ChunkInv, BeforeBlob, ReadBack

LEMMA InsertChunkStep ==
  ASSUME MetaInv, ChunkInv, InsertChunk
  PROVE  ChunkInv'
<1> DEFINE new == [vid |-> vid, index |-> index, bytes |-> Head(rest)]
<1>1. blob \in Blob /\ blob.len \in Nat /\ vid \in Videos
  BY BlobLength, NoneAssumption DEF MetaInv, MetaTypeOK, InsertChunk
<1>2. /\ UNCHANGED <<meta, blob, vid, pre>>
      /\ pc = "chunks" /\ pc' = "chunks" /\ vid \in Rows
      /\ rest # <<>> /\ rest' = Tail(rest)
      /\ chunks' = chunks \cup {new} /\ index' = index + 1
  BY DEF InsertChunk
<1>3. /\ pre \in Nat /\ index \in Nat /\ meta[vid].size = pre + blob.len
      /\ rest \in Seq(Seq(Nat))
      /\ \A k \in DOMAIN rest : Fits(rest[k], index + (k - 1), pre + blob.len)
      /\ \A k, l \in DOMAIN rest : k < l => AllBefore(rest[k], rest[l])
      /\ \A c \in ChunksOf(vid) : \A k \in DOMAIN rest : c.index < index /\ AllBefore(c.bytes, rest[k])
  BY <1>2 DEF ChunkInv, Counted, Counting, Pieces
<1>4. /\ 1 \in DOMAIN rest /\ Head(rest) = rest[1] /\ rest' \in Seq(Seq(Nat))
      /\ \A k \in DOMAIN rest' : /\ k \in Nat /\ k + 1 \in DOMAIN rest /\ k + 1 > 1 /\ rest'[k] = rest[k + 1]
  <2>1. Len(rest) \in Nat /\ Len(rest) >= 1 /\ DOMAIN rest = 1 .. Len(rest) /\ Head(rest) = rest[1]
    BY <1>2, <1>3
  <2>2. /\ rest' \in Seq(Seq(Nat)) /\ Len(rest') = Len(rest) - 1
        /\ \A k \in 1 .. Len(rest') : rest'[k] = rest[k + 1]
    BY <1>2, <1>3, HeadTailProperties
  <2>3. DOMAIN rest' = 1 .. Len(rest')
    BY <2>2
  <2> QED
    BY <2>1, <2>2, <2>3
<1>5. Fits(Head(rest), index, pre + blob.len)
  <2>1. index + (1 - 1) = index
    BY <1>3
  <2>2. Fits(rest[1], index + (1 - 1), pre + blob.len)
    BY <1>3, <1>4
  <2> QED
    BY <1>4, <2>1, <2>2, Zenon
<1>6. new \in ChunkRow /\ new.vid = vid /\ new.index = index /\ new.bytes = Head(rest)
  <2>1. Head(rest) \in Seq(Nat)
    BY <1>5 DEF Fits
  <2> QED
    BY <1>1, <1>3, <2>1 DEF ChunkRow
<1> HIDE DEF new
<1>7. ASSUME NEW c \in chunks
      PROVE  /\ c \in ChunkRow /\ c.vid \in Rows /\ c.index \in Nat
             /\ Fits(c.bytes, c.index, meta[c.vid].size)
             /\ c.vid = vid => c.index < index /\ AllBefore(c.bytes, Head(rest))
  BY <1>3, <1>4 DEF ChunkInv, Stored, ChunkRow, ChunksOf
<1>8. Stored'
  <2>1. ASSUME NEW e \in chunks'
        PROVE  e \in ChunkRow /\ e.vid \in Rows' /\ Fits(e.bytes, e.index, meta'[e.vid].size)
    <3>1. CASE e \in chunks
      BY <1>2, <1>7, <3>1 DEF Rows
    <3>2. CASE e = new
      BY <1>2, <1>3, <1>5, <1>6, <3>2 DEF Rows
    <3> QED
      BY <1>2, <3>1, <3>2
  <2>2. ASSUME NEW e \in chunks', NEW f \in chunks', e.vid = f.vid
        PROVE  /\ e.index = f.index => e = f
               /\ e.index < f.index => AllBefore(e.bytes, f.bytes)
    <3>1. CASE e \in chunks /\ f \in chunks
      BY <2>2, <3>1 DEF ChunkInv, Stored
    <3>2. CASE e = new /\ f = new
      BY <1>3, <1>6, <3>2
    <3>3. CASE e \in chunks /\ f = new
      BY <1>3, <1>6, <1>7, <2>2, <3>3
    <3>4. CASE e = new /\ f \in chunks
      BY <1>3, <1>6, <1>7, <2>2, <3>4
    <3> QED
      BY <1>2, <3>1, <3>2, <3>3, <3>4
  <2> QED
    BY <2>1, <2>2 DEF Stored, Fits, Increasing, Below, AllBefore, Base
<1>9. Counted'
  BY <1>2, <1>3 DEF ChunkInv, Counted, Counting, Rows
<1>10. ASSUME NEW k \in DOMAIN rest'
       PROVE  Fits(rest'[k], index' + (k - 1), pre + blob.len)
  <2>1. Fits(rest[k + 1], index + ((k + 1) - 1), pre + blob.len)
    BY <1>3, <1>4
  <2>2. index + ((k + 1) - 1) = index' + (k - 1)
    BY <1>2, <1>3, <1>4
  <2>3. Fits(rest[k + 1], index' + (k - 1), pre + blob.len)
    BY <2>1, <2>2, Zenon
  <2> QED
    BY <1>4, <2>3
<1>11. ASSUME NEW k \in DOMAIN rest', NEW l \in DOMAIN rest', k < l
       PROVE  AllBefore(rest'[k], rest'[l])
  <2>1. k + 1 < l + 1
    BY <1>4, <1>11
  <2> QED
    BY <1>3, <1>4, <2>1
<1>12. ASSUME NEW c \in chunks', c.vid = vid, NEW k \in DOMAIN rest'
       PROVE  c.index < index' /\ AllBefore(c.bytes, rest'[k])
  <2>1. CASE c \in chunks
    <3>1. c \in ChunksOf(vid)
      BY <1>12, <2>1 DEF ChunksOf
    <3>2. c.index < index /\ AllBefore(c.bytes, rest[k + 1])
      BY <1>3, <1>4, <3>1
    <3>3. c.index < index'
      BY <1>2, <1>3, <1>7, <2>1, <3>2, SMTT(40)
    <3>4. rest'[k] = rest[k + 1]
      BY <1>4
    <3> QED
      BY <3>2, <3>3, <3>4, Zenon
  <2>2. CASE c = new
    <3>1. c.index < index'
      <4>1. c.index = index
        BY <1>6, <2>2, Zenon
      <4> QED
        BY <1>2, <1>3, <4>1
    <3>2. AllBefore(rest[1], rest[k + 1])
      BY <1>3, <1>4
    <3>3. c.bytes = rest[1] /\ rest'[k] = rest[k + 1]
      BY <1>4, <1>6, <2>2
    <3> QED
      BY <3>1, <3>2, <3>3, Zenon
  <2> QED
    BY <1>2, <2>1, <2>2
<1>13. Pieces'
  BY <1>2, <1>4, <1>10, <1>11, <1>12 DEF Pieces, ChunksOf, Fits, AllBefore, Increasing, Below, Base
<1> QED
  BY <1>2, <1>8, <1>9, <1>13 DEF ChunkInv, BeforeBlob, ReadBack

(* A deletion takes rows away together with their chunks.                  *)
LEMMA DeleteStreamStep ==
  ASSUME MetaInv, ChunkInv, NEW name \in Names, DeleteStream(name)
  PROVE  ChunkInv'
<1>1. UNCHANGED <<pc, blob, vid, pre, index, current, rest>>
  BY DEF DeleteStream, locals
<1>2. chunks' \subseteq chunks /\ \A c \in chunks' : c.vid \in Rows' /\ meta'[c.vid] = meta[c.vid]
  BY DEF DeleteStream, ChunkInv, Stored, Rows
<1>3. \A v \in Rows' : v \in Rows /\ meta'[v] = meta[v]
  BY DEF DeleteStream, Rows
<1>4. Stored'
  BY <1>2 DEF ChunkInv, Stored, Fits, Increasing, Below, AllBefore, Base
<1>5. Counted'
  BY <1>1, <1>3 DEF ChunkInv, Counted, Counting
<1>6. ChunksOf(vid)' \subseteq ChunksOf(vid)
  BY <1>1, <1>2 DEF ChunksOf
<1>7. BeforeBlob'
  BY <1>1, <1>6 DEF ChunkInv, BeforeBlob, Fits, Increasing, Below, Base
<1>8. ReadBack'
  BY <1>1, <1>6 DEF ChunkInv, ReadBack, Increasing, Below, Base
<1>9. Pieces'
  BY <1>1, <1>6 DEF ChunkInv, Pieces, Fits, Increasing, Below, AllBefore, Base
<1> QED
  BY <1>4, <1>5, <1>7, <1>8, <1>9 DEF ChunkInv

(* ChunkInv is inductive.                                                  *)
LEMMA ChunkInvStep ==
  ASSUME MetaInv, ChunkInv, [Next]_videoVars
  PROVE  ChunkInv'
<1>1. CASE Receive \/ SelectMeta \/ Reply \/ Fail
  <2>1. UNCHANGED <<meta, chunks>> /\ ~Counting'
    BY <1>1 DEF Receive, SelectMeta, Reply, Fail, Forget, tables, Counting
  <2> QED
    BY <2>1, AsideStep
<1>2. CASE UNCHANGED videoVars
  BY <1>2 DEF videoVars, tables, locals, ChunkInv, Stored, Counted, Counting, BeforeBlob, ReadBack, Pieces,
              ChunksOf, Rows, Fits, Increasing, Below, AllBefore, Base
<1> QED
  BY <1>1, <1>2, UpdateMetaStep, InsertMetaStep, ChunkExistsStep, SelectBytesStep, AppendToChunkStep,
     FillChunkStep, InsertChunkStep, DeleteStreamStep DEF Next, HandleChunk

(* In every reachable state the chunks are in order and what the recorder  *)
(* has read of them is what it will write behind.                          *)
THEOREM ChunkInvariant == Spec => []ChunkInv
<1>1. Init => ChunkInv
  BY ChunkInitInv
<1>2. MetaInv /\ ChunkInv /\ [Next]_videoVars => ChunkInv'
  BY ChunkInvStep
<1> QED
  BY <1>1, <1>2, MetaInvariant, PTL DEF Spec

(* No two rows of a video have one index.                                  *)
THEOREM OneChunkPerIndex == Spec => []ChunkIndexUnique
<1>1. ChunkInv => ChunkIndexUnique
  BY DEF ChunkInv, Stored, ChunkIndexUnique
<1> QED
  BY <1>1, ChunkInvariant, PTL

(* Every row is filled, belongs to a video and is counted in its size.     *)
THEOREM ChunksCounted == Spec => []SizeCoversChunks
<1>1. ChunkInv => SizeCoversChunks
  BY DEF ChunkInv, Stored, Fits, Base, SizeCoversChunks
<1> QED
  BY <1>1, ChunkInvariant, PTL

(* The bytes of a video are stored in the order they came, none twice.     *)
THEOREM BytesStayInOrder == Spec => []BytesInOrder
<1>1. ChunkInv => BytesInOrder
  BY DEF ChunkInv, Stored, Fits, Increasing, AllBefore, BytesInOrder
<1> QED
  BY <1>1, ChunkInvariant, PTL

(* The types of all variables are kept.                                    *)
LEMMA TypeStep ==
  ASSUME MetaInv, ChunkInv, TypeOK, [Next]_videoVars, ChunkInv', MetaInv'
  PROVE  TypeOK'
<1> USE NoneAssumption DEF TypeOK, tables
<1>1. chunks' \subseteq ChunkRow /\ meta' \in [Videos -> MetaRow \cup {None}] /\ vid' \in Videos \cup {None}
  BY DEF ChunkInv, Stored, MetaInv, MetaTypeOK
<1>2. CASE Receive
  BY <1>1, <1>2 DEF Receive
<1>3. CASE SelectMeta
  BY <1>1, <1>3 DEF SelectMeta
<1>4. CASE UpdateMeta
  <2>1. PICK v \in Updated : vid' = v /\ pre' = meta[v].size /\ index' = meta[v].size \div DBChunkSize
    BY <1>4 DEF UpdateMeta
  <2>2. v \in Videos /\ meta[v].size \in 0 .. MaxSize /\ meta[v].size \in Nat
    BY <2>1, MaxSizeAssumption DEF Updated, Rows, MetaRow
  <2>3. index' \in Nat
    BY <2>1, <2>2, BaseOfSize
  <2>4. lossy' \subseteq Videos
    BY <1>4 DEF UpdateMeta, Updated, Rows
  <2> QED
    BY <1>1, <1>4, <2>1, <2>2, <2>3, <2>4 DEF UpdateMeta
<1>5. CASE InsertMeta
  BY <1>1, <1>5, MaxSizeAssumption DEF InsertMeta
<1>6. CASE ChunkExists
  BY <1>1, <1>6 DEF ChunkExists, ChunkInv, Pieces
<1>7. CASE SelectBytes
  <2>1. current' \in Seq(Nat)
    BY <1>7 DEF SelectBytes, ChunkInv, ReadBack
  <2> QED
    BY <1>1, <1>7, <2>1 DEF SelectBytes
<1>8. CASE AppendToChunk
  BY <1>1, <1>8 DEF AppendToChunk, ChunkInv, Pieces
<1>9. CASE FillChunk
  BY <1>1, <1>9 DEF FillChunk, ChunkInv, Pieces
<1>10. CASE InsertChunk
  BY <1>1, <1>10 DEF InsertChunk, ChunkInv, Pieces
<1>11. CASE Reply
  <2>1. \A i \in 1 .. blob.len : pre + i - 1 \in Nat
    BY DEF ChunkInv, Counted, Counting
  <2>2. vid \in Videos
    BY <1>11 DEF Reply
  <2>3. acked' \in [Videos -> SUBSET Nat]
    BY <1>11, <2>1, <2>2 DEF Reply
  <2> QED
    BY <1>1, <1>11, <2>3, MaxSizeAssumption DEF Reply, Forget
<1>12. CASE Fail
  BY <1>1, <1>12, MaxSizeAssumption DEF Fail, Forget
<1>13. ASSUME NEW name \in Names, DeleteStream(name)
       PROVE  TypeOK'
  BY <1>1, <1>13 DEF DeleteStream, locals
<1>14. CASE UNCHANGED videoVars
  BY <1>1, <1>14 DEF videoVars, locals
<1> QED
  BY <1>2, <1>3, <1>4, <1>5, <1>6, <1>7, <1>8, <1>9, <1>10, <1>11, <1>12, <1>13, <1>14 DEF Next, HandleChunk

(* Each variable has its type in every reachable state.                    *)
THEOREM RecorderTypes == Spec => []TypeOK
<1>1. Init => TypeOK
  BY NoneAssumption, MaxSizeAssumption DEF Init, TypeOK
<1>2. MetaInv /\ MetaInv' /\ ChunkInv /\ ChunkInv' /\ TypeOK /\ [Next]_videoVars => TypeOK'
  BY TypeStep
<1> QED
  BY <1>1, <1>2, MetaInvariant, ChunkInvariant, PTL DEF Spec

-----------------------------------------------------------------------------
(* The recorder implements Recording.                                      *)

(* A byte of a recording is one of a row of it.                            *)
LEMMA PlacedMember ==
  ASSUME NEW S, NEW t
  PROVE  t \in UNION {{<<c.index, i, c.bytes[i]>> : i \in DOMAIN c.bytes} : c \in S} <=>
           \E c \in S : \E i \in DOMAIN c.bytes : t = <<c.index, i, c.bytes[i]>>
<1> DEFINE P(c) == {<<c.index, i, c.bytes[i]>> : i \in DOMAIN c.bytes}
<1>1. \A c : t \in P(c) <=> \E i \in DOMAIN c.bytes : t = <<c.index, i, c.bytes[i]>>
  OBVIOUS
<1> HIDE DEF P
<1>2. t \in UNION {P(c) : c \in S} <=> \E c \in S : t \in P(c)
  OBVIOUS
<1> QED
  BY <1>1, <1>2 DEF P

(* The recordings as Recording sees them.                                  *)
Log == [v \in Videos |-> Placed(v)]

(* What is written of a recording is one row e of later bytes: a new one,  *)
(* or one that had n bytes and keeps them.                                 *)
LEMMA RowWritten ==
  ASSUME vid \in Rows, UNCHANGED <<meta, used, vid>>,
         \A w \in Videos \ {vid} : ChunksOf(w)' = ChunksOf(w),
         NEW n \in Nat,
         NEW e, e \in ChunksOf(vid)', e.bytes \in Seq(Nat), Increasing(e.bytes),
         \A d \in ChunksOf(vid)' : d = e \/ d \in ChunksOf(vid),
         \A c \in ChunksOf(vid) :
           \/ /\ c \in ChunksOf(vid)'
              /\ c.index < e.index /\ AllBefore(c.bytes, e.bytes)
           \/ /\ c.index = e.index
              /\ \A i \in DOMAIN c.bytes : i \in DOMAIN e.bytes /\ i <= n /\ e.bytes[i] = c.bytes[i],
         \A i \in DOMAIN e.bytes : i > n \/ <<e.index, i, e.bytes[i]>> \in Placed(vid)
  PROVE  Recorded!Append(vid)
<1>1. ASSUME NEW p \in Placed(vid)
      PROVE  \E c \in ChunksOf(vid) : \E i \in DOMAIN c.bytes : p = <<c.index, i, c.bytes[i]>>
  BY PlacedMember DEF Placed
<1>2. ASSUME NEW c \in ChunksOf(vid)', NEW i \in DOMAIN c.bytes
      PROVE  <<c.index, i, c.bytes[i]>> \in Placed(vid)'
  BY PlacedMember DEF Placed
<1>3. ASSUME NEW c \in ChunksOf(vid), NEW i \in DOMAIN c.bytes
      PROVE  <<c.index, i, c.bytes[i]>> \in Placed(vid)
  BY PlacedMember DEF Placed
<1>4. ASSUME NEW p \in Placed(vid)
      PROVE  p \in Placed(vid)'
  <2>1. PICK c \in ChunksOf(vid) : \E i \in DOMAIN c.bytes : p = <<c.index, i, c.bytes[i]>>
    BY <1>1
  <2>2. PICK i \in DOMAIN c.bytes : p = <<c.index, i, c.bytes[i]>>
    BY <2>1
  <2>3. CASE c \in ChunksOf(vid)'
    BY <1>2, <2>2, <2>3
  <2>4. CASE c.index = e.index /\ i \in DOMAIN e.bytes /\ e.bytes[i] = c.bytes[i]
    BY <1>2, <2>2, <2>4
  <2> QED
    BY <2>3, <2>4
<1>5. ASSUME NEW q \in Placed(vid)' \ Placed(vid)
      PROVE  \E i \in DOMAIN e.bytes : i > n /\ q = <<e.index, i, e.bytes[i]>>
  <2>1. PICK c \in ChunksOf(vid)' : \E i \in DOMAIN c.bytes : q = <<c.index, i, c.bytes[i]>>
    BY PlacedMember DEF Placed
  <2>2. PICK i \in DOMAIN c.bytes : q = <<c.index, i, c.bytes[i]>>
    BY <2>1
  <2>3. c = e
    BY <1>3, <2>2
  <2> QED
    BY <2>2, <2>3
<1>6. ASSUME NEW q \in Placed(vid)' \ Placed(vid), NEW p \in Placed(vid)
      PROVE  Recorded!Before(p, q)
  <2>1. PICK i \in DOMAIN e.bytes : i > n /\ q = <<e.index, i, e.bytes[i]>>
    BY <1>5
  <2>2. PICK c \in ChunksOf(vid) : \E j \in DOMAIN c.bytes : p = <<c.index, j, c.bytes[j]>>
    BY <1>1
  <2>3. PICK j \in DOMAIN c.bytes : p = <<c.index, j, c.bytes[j]>>
    BY <2>2
  <2>4. CASE c.index < e.index /\ AllBefore(c.bytes, e.bytes)
    BY <2>1, <2>3, <2>4 DEF AllBefore, Recorded!Before
  <2>5. CASE c.index = e.index /\ j \in DOMAIN e.bytes /\ j <= n /\ e.bytes[j] = c.bytes[j]
    <3>1. i \in Nat /\ j \in Nat /\ j < i
      BY <2>1, <2>5
    <3>2. e.bytes[j] < e.bytes[i]
      BY <2>1, <2>5, <3>1 DEF Increasing
    <3> QED
      BY <2>1, <2>3, <2>5, <3>1, <3>2 DEF Recorded!Before
  <2> QED
    BY <2>3, <2>4, <2>5
<1>7. ASSUME NEW q \in Placed(vid)' \ Placed(vid), NEW r \in Placed(vid)' \ Placed(vid)
      PROVE  q = r \/ Recorded!Before(q, r) \/ Recorded!Before(r, q)
  <2>1. PICK i \in DOMAIN e.bytes : i > n /\ q = <<e.index, i, e.bytes[i]>>
    BY <1>5
  <2>2. PICK j \in DOMAIN e.bytes : j > n /\ r = <<e.index, j, e.bytes[j]>>
    BY <1>5
  <2>3. i \in Nat /\ j \in Nat
    BY <2>1, <2>2
  <2>4. CASE i < j
    BY <2>1, <2>2, <2>4 DEF Increasing, Recorded!Before
  <2>5. CASE j < i
    BY <2>1, <2>2, <2>5 DEF Increasing, Recorded!Before
  <2>6. CASE i = j
    BY <2>1, <2>2, <2>6
  <2> QED
    BY <2>3, <2>4, <2>5, <2>6
<1>8. vid \in Videos /\ Rows' = Rows
  BY DEF Rows
<1>9. \A w \in Videos \ {vid} : Placed(w)' = Placed(w)
  BY DEF Placed
<1>10. \A w \in Videos : Log[w] = Placed(w) /\ Log'[w] = Placed(w)'
  BY DEF Log
<1>11. \A w \in Videos \ {vid} : Log'[w] = Log[w]
  BY <1>9, <1>10
<1>12. Log[vid] \subseteq Log'[vid]
  BY <1>4, <1>8, <1>10
<1>13. ASSUME NEW q \in Log'[vid] \ Log[vid]
       PROVE  /\ \A p \in Log[vid] : Recorded!Before(p, q)
              /\ \A r \in Log'[vid] \ Log[vid] :
                   q = r \/ Recorded!Before(q, r) \/ Recorded!Before(r, q)
  BY <1>6, <1>7, <1>8, <1>10
<1>14. vid \in Rows /\ Rows' = Rows /\ used' = used
  BY <1>8
<1> QED
  BY <1>11, <1>12, <1>13, <1>14 DEF Recorded!Append, Log

(* The UPDATE of the chunk at index, by x.                                 *)
LEMMA UpdateWritten ==
  ASSUME MetaInv, ChunkInv, pc = "write", NEW x, Consecutive(x, pre), Len(x) <= blob.len,
         Len(current) + Len(x) <= DBChunkSize, UNCHANGED <<meta, used, vid>>,
         chunks' = UpdateBytes(vid, index, current \o x)
  PROVE  Recorded!Append(vid) \/ UNCHANGED <<Log, Rows, used>>
<1> DEFINE new(c) == IF c.vid = vid /\ c.index = index THEN [c EXCEPT !.bytes = current \o x] ELSE c
<1>1. chunks' = {new(c) : c \in chunks}
  BY DEF UpdateBytes
<1>2. CASE \A c \in chunks : ~(c.vid = vid /\ c.index = index)
  <2>1. chunks' = chunks
    BY <1>1, <1>2
  <2> QED
    BY <2>1 DEF Log, Placed, ChunksOf, Rows
<1>3. CASE \E c \in chunks : c.vid = vid /\ c.index = index
  <2>1. PICK c \in chunks : c.vid = vid /\ c.index = index
    BY <1>3
  <2>2. /\ pre \in Nat /\ index \in Nat /\ index = pre \div DBChunkSize
        /\ current \in Seq(Nat) /\ c.bytes = current
        /\ vid \in Rows /\ c \in ChunkRow /\ c \in ChunksOf(vid)
    BY <2>1 DEF ChunkInv, Stored, Counted, Counting, BeforeBlob, ReadBack, ChunksOf
  <2>3. /\ Stored'
        /\ \A d \in chunks' : d.vid = vid => d.index <= index
    BY UpdateStored
  <2> DEFINE e == new(c)
  <2>4. e \in chunks' /\ e.vid = vid /\ e.index = index /\ e.bytes = current \o x
    BY <1>1, <2>1, <2>2 DEF ChunkRow
  <2>5. ASSUME NEW d \in chunks
        PROVE  /\ d = c => new(d) = e
               /\ d # c => new(d) = d
    BY <2>1 DEF ChunkInv, Stored
  <2> HIDE DEF new, e
  <2>6. e.bytes \in Seq(Nat) /\ Increasing(e.bytes)
    BY <2>3, <2>4 DEF Stored, Fits, Increasing
  <2>7. Len(current) \in Nat /\ \A i \in DOMAIN e.bytes :
          i \in Nat /\ (i <= Len(current) => i \in DOMAIN current /\ e.bytes[i] = current[i])
    BY <2>2, <2>4 DEF Consecutive
  <2>8. \A i \in DOMAIN current : i \in DOMAIN e.bytes /\ i <= Len(current) /\ e.bytes[i] = current[i]
    BY <2>2, <2>4 DEF Consecutive
  <2>9. ASSUME NEW d \in ChunksOf(vid)
        PROVE  \/ d \in ChunksOf(vid)' /\ d.index < e.index /\ AllBefore(d.bytes, e.bytes)
               \/ /\ d.index = e.index
                  /\ \A i \in DOMAIN d.bytes : i \in DOMAIN e.bytes /\ i <= Len(current) /\ e.bytes[i] = d.bytes[i]
    <3>1. CASE d = c
      BY <2>1, <2>2, <2>4, <2>8, <3>1
    <3>2. CASE d # c
      <4>1. d \in chunks' /\ d.vid = vid
        BY <1>1, <2>5, <3>2 DEF ChunksOf
      <4>2. d.index # index /\ d.index \in Nat /\ d.index <= index
        BY <2>1, <2>3, <3>2, <4>1 DEF ChunkInv, Stored, ChunkRow, ChunksOf
      <4>3. d.index < e.index
        BY <2>2, <2>4, <4>2
      <4>4. AllBefore(d.bytes, e.bytes)
        BY <2>3, <2>4, <4>1, <4>3 DEF Stored, AllBefore
      <4> QED
        BY <4>1, <4>3, <4>4 DEF ChunksOf
    <3> QED
      BY <3>1, <3>2
  <2>10. ASSUME NEW d \in ChunksOf(vid)'
         PROVE  d = e \/ d \in ChunksOf(vid)
    BY <1>1, <2>5 DEF ChunksOf
  <2>11. ASSUME NEW i \in DOMAIN e.bytes
         PROVE  i > Len(current) \/ <<e.index, i, e.bytes[i]>> \in Placed(vid)
    <3>1. SUFFICES ASSUME i <= Len(current) PROVE <<e.index, i, e.bytes[i]>> \in Placed(vid)
      BY <2>7
    <3>2. i \in DOMAIN c.bytes /\ <<e.index, i, e.bytes[i]>> = <<c.index, i, c.bytes[i]>>
      BY <2>1, <2>2, <2>4, <2>7, <3>1
    <3> QED
      BY <2>2, <3>2, PlacedMember DEF Placed
  <2>12. e \in ChunksOf(vid)'
    BY <2>4 DEF ChunksOf
  <2>13. \A w \in Videos \ {vid} : ChunksOf(w)' = ChunksOf(w)
    <3>1. ChunkShape
      BY DEF ChunkInv, Stored, ChunkRow, ChunkShape
    <3> QED
      BY <3>1, UpdateBytesKeeps DEF ChunksOf
  <2> DEFINE n == Len(current)
  <2>14. n \in Nat
    BY <2>7
  <2>15. \A d \in ChunksOf(vid) :
           \/ d \in ChunksOf(vid)' /\ d.index < e.index /\ AllBefore(d.bytes, e.bytes)
           \/ /\ d.index = e.index
              /\ \A i \in DOMAIN d.bytes : i \in DOMAIN e.bytes /\ i <= n /\ e.bytes[i] = d.bytes[i]
    BY <2>9
  <2>16. \A i \in DOMAIN e.bytes : i > n \/ <<e.index, i, e.bytes[i]>> \in Placed(vid)
    BY <2>11
  <2> HIDE DEF n
  <2>17. vid \in Rows
    BY <2>2
  <2> QED
    BY <2>6, <2>10, <2>12, <2>13, <2>14, <2>15, <2>16, <2>17, RowWritten
<1> QED
  BY <1>2, <1>3

(* The INSERT of one piece of a blob.                                      *)
LEMMA InsertWritten ==
  ASSUME MetaInv, ChunkInv, InsertChunk
  PROVE  Recorded!Append(vid)
<1> DEFINE e == [vid |-> vid, index |-> index, bytes |-> Head(rest)]
<1>1. /\ UNCHANGED <<meta, used, vid>> /\ vid \in Rows /\ pc = "chunks" /\ rest # <<>>
      /\ chunks' = chunks \cup {e}
  BY DEF InsertChunk
<1>2. /\ index \in Nat /\ rest \in Seq(Seq(Nat))
      /\ \A k \in DOMAIN rest : Fits(rest[k], index + (k - 1), pre + blob.len)
      /\ \A c \in ChunksOf(vid) : \A k \in DOMAIN rest : c.index < index /\ AllBefore(c.bytes, rest[k])
  BY <1>1 DEF ChunkInv, Counted, Counting, Pieces
<1>3. 1 \in DOMAIN rest /\ Head(rest) = rest[1]
  BY <1>1, <1>2
<1>4. e.vid = vid /\ e.index = index /\ e.bytes = rest[1]
  BY <1>3
<1> HIDE DEF e
<1>5. e.bytes \in Seq(Nat) /\ Increasing(e.bytes)
  BY <1>2, <1>3, <1>4 DEF Fits
<1>6. e \in ChunksOf(vid)'
  BY <1>1, <1>4 DEF ChunksOf
<1>7. \A w \in Videos \ {vid} : ChunksOf(w)' = ChunksOf(w)
  BY <1>1, <1>4 DEF ChunksOf
<1>8. \A d \in ChunksOf(vid)' : d = e \/ d \in ChunksOf(vid)
  BY <1>1 DEF ChunksOf
<1>9. \A c \in ChunksOf(vid) : c \in ChunksOf(vid)' /\ c.index < e.index /\ AllBefore(c.bytes, e.bytes)
  BY <1>1, <1>2, <1>3, <1>4 DEF ChunksOf
<1>10. 0 \in Nat /\ \A i \in DOMAIN e.bytes : i > 0
  BY <1>5
<1> QED
  BY <1>1, <1>5, <1>6, <1>7, <1>8, <1>9, <1>10, RowWritten

(* A video that has no row has no bytes.                                   *)
LEMMA NoRowNoBytes ==
  ASSUME ChunkInv, NEW v, v \notin Rows
  PROVE  Placed(v) = {}
<1>1. ChunksOf(v) = {}
  BY DEF ChunkInv, Stored, ChunksOf
<1> QED
  BY <1>1 DEF Placed

LEMMA InsertCreates ==
  ASSUME MetaInv, ChunkInv, NEW v \in Videos \ used, chunks' = chunks, used' = used \cup {v},
         NEW r, r # None, meta' = [meta EXCEPT ![v] = r]
  PROVE  Recorded!Create(v)
<1>1. v \notin Rows /\ Rows' = Rows \cup {v}
  BY DEF MetaInv, MetaTypeOK, IdsUsed, Rows
<1>2. \A w \in Videos : Log[w] = Placed(w)
  BY DEF Log
<1>3. Log[v] = {}
  BY <1>1, <1>2, NoRowNoBytes
<1>4. Log' = Log
  BY DEF Log, Placed, ChunksOf
<1>5. Log = [Log EXCEPT ![v] = {}]
  BY <1>3 DEF Log
<1> QED
  BY <1>1, <1>4, <1>5 DEF Recorded!Create, Log

LEMMA DeleteDeletes ==
  ASSUME MetaInv, ChunkInv, NEW name \in Names, DeleteStream(name)
  PROVE  Recorded!Delete
<1>1. Rows' \subseteq Rows /\ used' = used
  BY DEF DeleteStream, Rows
<1>2. \A w \in Videos : ChunksOf(w)' = IF w \in Rows' THEN ChunksOf(w) ELSE {}
  BY DEF DeleteStream, Rows, ChunksOf, ChunkInv, Stored
<1>3. \A w \in Videos : Placed(w)' = IF w \in Rows' THEN Placed(w) ELSE {}
  BY <1>2 DEF Placed
<1>4. /\ \A w \in Videos : Log[w] = Placed(w)
      /\ Log' = [w \in Videos |-> Placed(w)']
  BY DEF Log
<1>5. Log' = [w \in Videos |-> IF w \in Rows' THEN Log[w] ELSE {}]
  BY <1>3, <1>4
<1> QED
  BY <1>1, <1>5 DEF Recorded!Delete, Log

(* Every statement is a step of Recording, or one it does not see.         *)
LEMMA StepRecorded ==
  ASSUME MetaInv, ChunkInv, [Next]_videoVars
  PROVE  [Recorded!Next]_(Recorded!vars)
<1>1. CASE UNCHANGED <<meta, used, chunks>>
  BY <1>1 DEF Recorded!vars, Placed, ChunksOf, Rows
<1>2. CASE UpdateMeta
  <2>1. Next /\ ~InsertMeta
    BY <1>2 DEF Next, HandleChunk, UpdateMeta, InsertMeta
  <2>2. Rows' = Rows
    BY <1>2, <2>1, RowsNotUpdatedAway, RowsStep
  <2>3. Rows' = Rows /\ chunks' = chunks /\ used' = used
    BY <1>2, <2>2 DEF UpdateMeta
  <2> QED
    BY <2>3 DEF Recorded!vars, Placed, ChunksOf
<1>3. CASE InsertMeta
  <2>1. PICK v \in Videos \ used :
          /\ used' = used \cup {v}
          /\ meta' = [meta EXCEPT ![v] = [name |-> blob.name, streamer |-> blob.uid, size |-> blob.len]]
    BY <1>3 DEF InsertMeta
  <2>2. [name |-> blob.name, streamer |-> blob.uid, size |-> blob.len] # None
    <3>1. blob \in Blob /\ blob.len \in Nat /\ blob.len <= MaxSize
      BY <1>3, BlobLength, NoneAssumption DEF InsertMeta, MetaInv, MetaTypeOK
    <3>2. [name |-> blob.name, streamer |-> blob.uid, size |-> blob.len] \in MetaRow
      BY <3>1, MaxSizeAssumption DEF MetaRow, Blob
    <3> QED
      BY <3>2, NoneAssumption
  <2>3. Recorded!Create(v)
    BY <1>3, <2>1, <2>2, InsertCreates DEF InsertMeta
  <2> QED
    BY <2>1, <2>3 DEF Recorded!Next
<1>4. CASE AppendToChunk
  <2>1. UNCHANGED <<meta, used, vid>> /\ pc = "write" /\ chunks' = UpdateBytes(vid, index, current \o Data)
    BY <1>4 DEF AppendToChunk
  <2>2. Consecutive(Data, pre) /\ Len(Data) <= blob.len /\ Len(current) + Len(Data) <= DBChunkSize
    BY <1>4, AppendedPart
  <2>3. Recorded!Append(vid) \/ UNCHANGED <<Log, Rows, used>>
    BY <2>1, <2>2, UpdateWritten
  <2> QED
    BY <2>1, <2>3 DEF Recorded!Next, Recorded!vars, Recorded!Append, Log, Rows
<1>5. CASE FillChunk
  <2> DEFINE x == SubSeq(Data, 1, DataRange)
  <2>1. UNCHANGED <<meta, used, vid>> /\ pc = "write" /\ chunks' = UpdateBytes(vid, index, current \o x)
    BY <1>5 DEF FillChunk
  <2>2. Consecutive(x, pre) /\ Len(x) <= blob.len /\ Len(current) + Len(x) <= DBChunkSize
    BY <1>5, FilledPart
  <2> HIDE DEF x
  <2>3. Recorded!Append(vid) \/ UNCHANGED <<Log, Rows, used>>
    BY <2>1, <2>2, UpdateWritten
  <2> QED
    BY <2>1, <2>3 DEF Recorded!Next, Recorded!vars, Recorded!Append, Log, Rows
<1>6. CASE InsertChunk
  <2>1. Recorded!Append(vid) /\ vid \in Videos
    BY <1>6, InsertWritten DEF InsertChunk, Rows
  <2> QED
    BY <2>1 DEF Recorded!Next
<1>7. ASSUME NEW name \in Names, DeleteStream(name)
      PROVE  Recorded!Next
  BY <1>7, DeleteDeletes DEF Recorded!Next
<1> QED
  BY <1>1, <1>2, <1>3, <1>4, <1>5, <1>6, <1>7
     DEF Next, HandleChunk, Receive, SelectMeta, ChunkExists, SelectBytes, Reply, Fail, tables, videoVars

(* However statements of a blob fail and deletions come between them, the  *)
(* recorder (handleChunk) implements the log a recording is meant to be.   *)
THEOREM RecorderImplementsRecording == Spec => AppendOnly
<1>1. Init => Recorded!Init
  BY DEF Init, Recorded!Init, Placed, ChunksOf, Rows
<1>2. MetaInv /\ ChunkInv /\ [Next]_videoVars => [Recorded!Next]_(Recorded!vars)
  BY StepRecorded
<1> QED
  BY <1>1, <1>2, MetaInvariant, ChunkInvariant, PTL DEF Spec, AppendOnly, Recorded!Spec

-----------------------------------------------------------------------------
(* A recording of which no blob was lost is complete.                      *)

(* The row and the place in it where the byte p belongs.                   *)
At(p) == <<p \div DBChunkSize, (p % DBChunkSize) + 1, p>>

(* The first n bytes are among those stored, where they belong.            *)
Whole(log, n) == \A p \in 0 .. n - 1 : At(p) \in log

(* The byte is in a piece still to be written, and will be where it        *)
(* belongs.                                                                *)
Pending(p) == \E k \in DOMAIN rest : \E j \in DOMAIN rest[k] : At(p) = <<index + (k - 1), j, rest[k][j]>>

(* A video without a lost byte: before the chunks of a blob are written it *)
(* has every byte before the blob, then every byte that is not pending.  A *)
(* blob that begins where a chunk is full would be put into the wrong row, *)
(* so such a video is lossy.                                               *)
CompleteInv ==
  /\ pc \in {"bytes", "write"} => pre >= 1
  /\ \A v \in Rows \ lossy :
       /\ v # vid => Whole(Placed(v), meta[v].size)
       /\ v = vid /\ pc = "chunks" => \A p \in 0 .. meta[v].size - 1 : At(p) \in Placed(v) \/ Pending(p)
       /\ v = vid /\ pc # "chunks" => (pre = 0 \/ pre % DBChunkSize # 0) /\ Whole(Placed(v), pre)

(* A place in a row, by division.                                          *)
LEMMA PlaceBounds ==
  ASSUME NEW p \in Nat
  PROVE  /\ p \div DBChunkSize \in Nat /\ p % DBChunkSize \in Nat /\ p % DBChunkSize < DBChunkSize
         /\ p = Base(p \div DBChunkSize) + (p % DBChunkSize)
<1>1. DBChunkSize \in Nat \ {0}
  BY DBChunkSizeAssumption
<1>2. p \div DBChunkSize \in Nat /\ p % DBChunkSize \in Nat /\ p % DBChunkSize < DBChunkSize
  BY <1>1
<1>3. p = DBChunkSize * (p \div DBChunkSize) + (p % DBChunkSize)
  BY <1>1
<1> QED
  BY <1>1, <1>2, <1>3 DEF Base

LEMMA PlaceOf ==
  ASSUME NEW i \in Nat, NEW p \in Nat, Base(i) <= p, p < Base(i) + DBChunkSize
  PROVE  p \div DBChunkSize = i /\ p % DBChunkSize = p - Base(i)
<1>1. PICK a \in Nat : a = p \div DBChunkSize
  BY PlaceBounds
<1>2. Base(a) <= p /\ p < Base(a) + DBChunkSize
  BY <1>1, BaseOfSize
<1>3. DBChunkSize \in Nat /\ Base(a) \in Nat /\ Base(i) \in Nat
  BY BaseType, DBChunkSizeAssumption
<1>4. a = i
  <2>1. ~(a < i)
    BY <1>2, <1>3, BaseOrder
  <2>2. ~(i < a)
    BY <1>2, <1>3, BaseOrder
  <2> QED
    BY <2>1, <2>2
<1>5. p = Base(i) + (p % DBChunkSize) /\ p % DBChunkSize \in Nat
  BY <1>1, <1>4, PlaceBounds
<1> QED
  BY <1>1, <1>3, <1>4, <1>5

(* Every byte of a run is in a piece of it, at the place where it would be *)
(* if the run began with a row.                                            *)
LEMMA SplitCovers ==
  ASSUME NEW b \in Nat, NEW s, Consecutive(s, b), NEW q \in Nat, q < Len(s)
  PROVE  \E k \in DOMAIN Split(s) : \E j \in DOMAIN Split(s)[k] :
           /\ k - 1 = q \div DBChunkSize /\ j = (q % DBChunkSize) + 1 /\ Split(s)[k][j] = b + q
<1> DEFINE n == (Len(s) + DBChunkSize - 1) \div DBChunkSize
           m == q \div DBChunkSize
           j == (q % DBChunkSize) + 1
           k == m + 1
<1>1. s \in Seq(Nat) /\ Len(s) \in Nat
  BY DEF Consecutive
<1>2. m \in Nat /\ Base(m) \in Nat /\ q = Base(m) + (j - 1) /\ j \in 1 .. DBChunkSize
  <2>1. m \in Nat /\ Base(m) \in Nat /\ q % DBChunkSize \in Nat /\ q % DBChunkSize < DBChunkSize
    BY PlaceBounds, BaseType
  <2>2. q = Base(m) + (q % DBChunkSize)
    BY PlaceBounds
  <2> QED
    BY <2>1, <2>2, DBChunkSizeAssumption
<1>3. Len(s) + DBChunkSize - 1 \in Nat
  BY <1>1, DBChunkSizeAssumption
<1>4. n \in Nat /\ Len(s) + DBChunkSize - 1 < Base(n) + DBChunkSize /\ Base(n) \in Nat
  BY <1>3, BaseOfSize, BaseType
<1> HIDE DEF n, m, j
<1>5. m < n
  <2>1. SUFFICES ASSUME n <= m PROVE FALSE
    BY <1>2, <1>4
  <2>2. Base(n) <= Base(m)
    <3>1. CASE n = m
      BY <3>1, <1>4
    <3>2. CASE n < m
      BY <3>2, <1>2, <1>4, BaseOrder, DBChunkSizeAssumption
    <3> QED
      BY <2>1, <3>1, <3>2, <1>2, <1>4
  <2> QED
    BY <1>1, <1>2, <1>4, <2>2, DBChunkSizeAssumption
<1>6. k \in 1 .. n /\ k - 1 = m /\ k \in DOMAIN Split(s)
  <2>1. DOMAIN Split(s) = 1 .. n
    BY DEF Split, n
  <2> QED
    BY <1>2, <1>4, <1>5, <2>1
<1> HIDE DEF k
<1>7. Consecutive(Split(s)[k], b + Base(m))
  BY <1>6, SplitPieces
<1>8. j \in DOMAIN Split(s)[k]
  <2>1. Split(s)[k] = SubSeq(s, m * DBChunkSize + 1, IF k * DBChunkSize < Len(s) THEN k * DBChunkSize ELSE Len(s))
    BY <1>6 DEF Split, n
  <2>2. k * DBChunkSize = Base(m) + DBChunkSize /\ m * DBChunkSize = Base(m)
    BY <1>2, <1>6, DBChunkSizeAssumption DEF Base
  <2> DEFINE to == IF Base(m) + DBChunkSize < Len(s) THEN Base(m) + DBChunkSize ELSE Len(s)
  <2>3. Split(s)[k] = SubSeq(s, Base(m) + 1, to)
    BY <2>1, <2>2
  <2>4. to \in Nat /\ to <= Len(s) /\ Base(m) + 1 <= to /\ j <= to - Base(m)
    <3>1. j \in Nat /\ j >= 1 /\ j <= DBChunkSize /\ Base(m) + j <= Len(s) /\ DBChunkSize \in Nat
      BY <1>1, <1>2, DBChunkSizeAssumption
    <3>2. CASE Base(m) + DBChunkSize < Len(s)
      BY <1>1, <1>2, <3>1, <3>2, SMTT(40)
    <3>3. CASE Len(s) <= Base(m) + DBChunkSize
      <4>1. to = Len(s)
        BY <1>1, <1>2, <3>1, <3>3
      <4> HIDE DEF to
      <4> QED
        BY <1>1, <1>2, <3>1, <4>1
    <3> QED
      BY <1>1, <1>2, <3>1, <3>2, <3>3
  <2>5. Base(m) + 1 \in Nat /\ Base(m) + 1 >= 1
    BY <1>2
  <2> HIDE DEF to
  <2>6. Len(Split(s)[k]) = (to - (Base(m) + 1)) + 1
    BY <2>3, <2>4, <2>5, PartOfRun
  <2>7. Split(s)[k] \in Seq(Nat)
    BY <1>7 DEF Consecutive
  <2>8. j \in 1 .. Len(Split(s)[k])
    BY <1>2, <2>4, <2>6
  <2> QED
    BY <2>7, <2>8
<1>9. Split(s)[k][j] = b + q
  <2>1. Split(s)[k][j] = (b + Base(m)) + (j - 1)
    BY <1>7, <1>8 DEF Consecutive
  <2> QED
    BY <1>2, <2>1, DBChunkSizeAssumption
<1> QED
  BY <1>6, <1>8, <1>9 DEF m, j

(* What is stored of a video that stays is kept.                           *)
LEMMA PlacedKept ==
  ASSUME MetaInv, ChunkInv, [Next]_videoVars, NEW v \in Rows, v \in Rows'
  PROVE  Placed(v) \subseteq Placed(v)'
<1>1. v \in Videos /\ v \in used
  BY DEF Rows, MetaInv, IdsUsed
<1>2. Log[v] = Placed(v) /\ Log'[v] = Placed(v)'
  BY <1>1 DEF Log
<1>3. [Recorded!Next]_(Recorded!vars)
  BY StepRecorded
<1>4. CASE Recorded!Delete
  BY <1>1, <1>2, <1>4 DEF Recorded!Delete, Log
<1>5. ASSUME NEW w \in Videos, Recorded!Create(w)
      PROVE  Log[v] \subseteq Log'[v]
  BY <1>1, <1>5 DEF Recorded!Create, Log
<1>6. ASSUME NEW w \in Videos, Recorded!Append(w)
      PROVE  Log[v] \subseteq Log'[v]
  BY <1>1, <1>6 DEF Recorded!Append, Log
<1>7. CASE UNCHANGED Recorded!vars
  BY <1>2, <1>7 DEF Recorded!vars, Log
<1> QED
  BY <1>2, <1>3, <1>4, <1>5, <1>6, <1>7 DEF Recorded!Next

(* So the bytes a video that stays has where they belong stay there.       *)
LEMMA WholeKept ==
  ASSUME MetaInv, ChunkInv, [Next]_videoVars, NEW v \in Rows, v \in Rows', NEW n, Whole(Placed(v), n)
  PROVE  Whole(Placed(v)', n)
<1>1. Placed(v) \subseteq Placed(v)'
  BY PlacedKept
<1> QED
  BY <1>1 DEF Whole, At

(* A byte of a row is one of the recording.                                *)
LEMMA InRow ==
  ASSUME NEW v, NEW c \in ChunksOf(v), NEW i \in DOMAIN c.bytes
  PROVE  <<c.index, i, c.bytes[i]>> \in Placed(v)
  BY PlacedMember DEF Placed

LEMMA CompleteUpdate ==
  ASSUME MetaInv, ChunkInv, CompleteInv, UpdateMeta
  PROVE  CompleteInv'
<1>1. PICK u \in Updated :
        /\ vid' = u /\ pre' = meta[u].size
        /\ lossy' = IF meta[u].size % DBChunkSize = 0 THEN lossy \cup {u} ELSE lossy
  BY DEF UpdateMeta
<1>2. pc' = "exists" /\ vid = None
  BY DEF UpdateMeta, MetaInv, MetaTypeOK
<1>3. Next /\ ~InsertMeta
  BY DEF Next, HandleChunk, UpdateMeta, InsertMeta
<1>4. ASSUME NEW v \in Rows' \ lossy'
      PROVE  /\ v # u => Whole(Placed(v)', meta'[v].size)
             /\ v = u => pre' % DBChunkSize # 0 /\ Whole(Placed(v)', pre')
  <2>1. v \in Rows /\ v \notin lossy /\ v # vid
    BY <1>1, <1>2, <1>3, <1>4, RowsStep, NoneAssumption DEF Rows
  <2>2. Whole(Placed(v)', meta[v].size)
    BY <1>3, <1>4, <2>1, WholeKept DEF CompleteInv
  <2>3. CASE v # u
    <3>1. v \notin Updated
      BY <1>1, <2>1, <2>3 DEF Updated, MetaInv, MetaUnique
    <3>2. meta'[v] = meta[v]
      BY <2>1, <3>1 DEF UpdateMeta, Rows
    <3> QED
      BY <2>2, <2>3, <3>2
  <2>4. CASE v = u
    BY <1>1, <1>4, <2>2, <2>4
  <2> QED
    BY <2>3, <2>4
<1> QED
  BY <1>1, <1>2, <1>4 DEF CompleteInv

LEMMA CompleteInsert ==
  ASSUME MetaInv, ChunkInv, CompleteInv, InsertMeta
  PROVE  CompleteInv'
<1>1. PICK u \in Videos \ used :
        vid' = u /\ meta' = [meta EXCEPT ![u] = [name |-> blob.name, streamer |-> blob.uid, size |-> blob.len]]
  BY DEF InsertMeta
<1>2. pc' = "exists" /\ vid = None /\ pre' = 0 /\ lossy' = lossy /\ Next
  BY DEF InsertMeta, MetaInv, MetaTypeOK, Next, HandleChunk
<1>3. ASSUME NEW v \in Rows' \ lossy', v # u
      PROVE  Whole(Placed(v)', meta'[v].size)
  <2>1. meta'[v] = meta[v] /\ v \in Rows /\ v # vid
    BY <1>1, <1>2, <1>3, NoneAssumption DEF Rows, MetaInv, MetaTypeOK
  <2> QED
    BY <1>2, <1>3, <2>1, WholeKept DEF CompleteInv
<1>4. Whole(Placed(u)', 0)
  BY DEF Whole
<1> QED
  BY <1>1, <1>2, <1>3, <1>4 DEF CompleteInv

(* For the videos that are not written to nothing changes while a blob is  *)
(* handled.                                                                *)
LEMMA CompleteOthers ==
  ASSUME MetaInv, ChunkInv, CompleteInv, Next, meta' = meta, lossy' = lossy,
         NEW v \in Rows' \ lossy', v # vid
  PROVE  Whole(Placed(v)', meta'[v].size)
<1>1. v \in Rows
  BY DEF Rows
<1> QED
  BY <1>1, WholeKept DEF CompleteInv

LEMMA CompleteExists ==
  ASSUME MetaInv, ChunkInv, CompleteInv, ChunkExists
  PROVE  CompleteInv'
<1>1. UNCHANGED <<meta, chunks, blob, vid, pre, index, lossy>> /\ pc = "exists" /\ Next
  BY DEF ChunkExists, tables, Next, HandleChunk
<1>2. /\ pre \in Nat /\ index \in Nat /\ index = pre \div DBChunkSize
      /\ vid \in Rows => meta[vid].size = pre + blob.len
      /\ \A c \in ChunksOf(vid) : Fits(c.bytes, c.index, pre)
  BY <1>1 DEF ChunkInv, Counted, Counting, BeforeBlob
<1>3. blob.len \in Nat
  BY <1>1, BlobLength, NoneAssumption DEF MetaInv, MetaTypeOK
<1>4. CASE ChunksOf(vid) # {}
  <2>1. pc' = "bytes"
    BY <1>4 DEF ChunkExists
  <2>2. PICK c \in ChunksOf(vid) : TRUE
    BY <1>4
  <2>3. c.index \in Nat /\ Fits(c.bytes, c.index, pre)
    BY <1>2 DEF ChunkInv, Stored, ChunkRow, ChunksOf
  <2>4. pre >= 1
    <3>1. Base(c.index) \in Nat /\ Len(c.bytes) \in 1 .. DBChunkSize /\ Base(c.index) + Len(c.bytes) <= pre
      BY <2>3, BaseType DEF Fits
    <3> QED
      BY <1>2, <3>1, DBChunkSizeAssumption
  <2>5. ASSUME NEW v \in Rows' \ lossy', v = vid
        PROVE  (pre = 0 \/ pre % DBChunkSize # 0) /\ Whole(Placed(v)', pre)
    BY <1>1, <2>5, WholeKept DEF CompleteInv, Rows
  <2> QED
    BY <1>1, <2>1, <2>4, <2>5, CompleteOthers DEF CompleteInv
<1>5. CASE ChunksOf(vid) = {}
  <2>1. pc' = "chunks" /\ rest' = Split(Data)
    BY <1>5 DEF ChunkExists
  <2>2. ASSUME NEW v \in Rows' \ lossy', v = vid, NEW p \in 0 .. meta[v].size - 1
        PROVE  Pending(p)'
    <3>1. v \in Rows \ lossy /\ Whole(Placed(v), pre)
      BY <1>1, <2>2 DEF CompleteInv, Rows
    <3>2. Placed(v) = {}
      BY <1>5, <2>2 DEF Placed
    <3>3. pre = 0
      <4>1. SUFFICES ASSUME pre # 0 PROVE FALSE
        OBVIOUS
      <4>2. 0 \in 0 .. pre - 1
        BY <1>2, <4>1
      <4> QED
        BY <3>1, <3>2, <4>2 DEF Whole
    <3>4. p \in Nat /\ p < blob.len
      BY <1>2, <1>3, <2>2, <3>1, <3>3
    <3>5. Consecutive(Data, 0) /\ Len(Data) = blob.len
      BY <1>2, <1>3, <3>3, DataIsRun
    <3>6. PICK k \in DOMAIN Split(Data) : \E j \in DOMAIN Split(Data)[k] :
            k - 1 = p \div DBChunkSize /\ j = (p % DBChunkSize) + 1 /\ Split(Data)[k][j] = 0 + p
      BY <3>4, <3>5, SplitCovers
    <3>7. PICK j \in DOMAIN Split(Data)[k] :
            k - 1 = p \div DBChunkSize /\ j = (p % DBChunkSize) + 1 /\ Split(Data)[k][j] = 0 + p
      BY <3>6
    <3>8. 0 \div DBChunkSize = 0
      BY DBChunkSizeAssumption
    <3>9. index = 0
      BY <1>2, <3>3, <3>8
    <3>10. index + (k - 1) = p \div DBChunkSize /\ Split(Data)[k][j] = p
      BY <3>4, <3>7, <3>9, PlaceBounds
    <3> QED
      BY <1>1, <2>1, <3>7, <3>10 DEF Pending, At
  <2> QED
    BY <1>1, <2>1, <2>2, CompleteOthers DEF CompleteInv
<1> QED
  BY <1>4, <1>5

LEMMA CompleteSelectBytes ==
  ASSUME MetaInv, ChunkInv, CompleteInv, SelectBytes
  PROVE  CompleteInv'
<1>1. UNCHANGED <<meta, chunks, vid, pre, lossy>> /\ pc = "bytes" /\ pc' = "write" /\ Next
  BY DEF SelectBytes, tables, Next, HandleChunk
<1>2. ASSUME NEW v \in Rows' \ lossy', v = vid
      PROVE  (pre = 0 \/ pre % DBChunkSize # 0) /\ Whole(Placed(v)', pre)
  BY <1>1, <1>2, WholeKept DEF CompleteInv, Rows
<1> QED
  BY <1>1, <1>2, CompleteOthers DEF CompleteInv

(* What was read is then the chunk up to the blob.                         *)
LEMMA CurrentUpToBlob ==
  ASSUME MetaInv, ChunkInv, CompleteInv, pc = "write", vid \in Rows \ lossy
  PROVE  \E c \in ChunksOf(vid) : c.index = index /\ c.bytes = current /\ Base(index) + Len(current) = pre
<1>1. /\ pre \in Nat /\ index \in Nat /\ index = pre \div DBChunkSize /\ pre >= 1
      /\ current \in Seq(Nat) /\ Base(index) + Len(current) <= pre
      /\ \A c \in ChunksOf(vid) : c.index = index => c.bytes = current
      /\ pre % DBChunkSize # 0 /\ Whole(Placed(vid), pre)
  BY DEF ChunkInv, Counted, Counting, BeforeBlob, ReadBack, CompleteInv
<1>2. /\ DBChunkSize \in Nat /\ Base(index) \in Nat /\ pre % DBChunkSize \in Nat /\ pre % DBChunkSize < DBChunkSize
      /\ pre = Base(index) + (pre % DBChunkSize)
  BY <1>1, PlaceBounds, BaseType, DBChunkSizeAssumption
<1>3. PICK q \in Nat : q = pre - 1
  BY <1>1
<1>4. Base(index) <= q /\ q < Base(index) + DBChunkSize
  BY <1>1, <1>2, <1>3
<1>5. q \div DBChunkSize = index /\ q % DBChunkSize = q - Base(index)
  BY <1>1, <1>4, PlaceOf
<1>6. <<index, (q - Base(index)) + 1, q>> \in Placed(vid)
  BY <1>1, <1>3, <1>5 DEF Whole, At
<1>7. PICK c \in ChunksOf(vid) : \E i \in DOMAIN c.bytes : <<index, (q - Base(index)) + 1, q>> = <<c.index, i, c.bytes[i]>>
  BY <1>6, PlacedMember DEF Placed
<1>8. c.index = index /\ c.bytes = current /\ (q - Base(index)) + 1 \in DOMAIN current
  BY <1>1, <1>7
<1>9. (q - Base(index)) + 1 <= Len(current)
  BY <1>1, <1>8
<1>10. Base(index) + Len(current) = pre
  <2>1. Len(current) \in Nat
    BY <1>1
  <2> QED
    BY <1>1, <1>2, <1>3, <1>9, <2>1
<1> QED
  BY <1>8, <1>10

(* The UPDATE puts what it appends where it belongs.                       *)
LEMMA AppendedWhole ==
  ASSUME MetaInv, ChunkInv, CompleteInv, Next, pc = "write", NEW x, Consecutive(x, pre), Len(x) <= blob.len,
         Len(current) + Len(x) <= DBChunkSize, UNCHANGED <<meta, vid>>,
         chunks' = UpdateBytes(vid, index, current \o x), vid \in Rows \ lossy
  PROVE  Whole(Placed(vid)', pre + Len(x))
<1>1. PICK c \in ChunksOf(vid) : c.index = index /\ c.bytes = current /\ Base(index) + Len(current) = pre
  BY CurrentUpToBlob
<1>2. /\ pre \in Nat /\ index \in Nat /\ current \in Seq(Nat) /\ x \in Seq(Nat) /\ Base(index) \in Nat
      /\ DBChunkSize \in Nat
  BY BaseType, DBChunkSizeAssumption DEF ChunkInv, Counted, Counting, ReadBack, Consecutive
<1>3. PICK e \in ChunksOf(vid)' : e.index = index /\ e.bytes = current \o x
  <2> DEFINE e == [c EXCEPT !.bytes = current \o x]
  <2>1. c \in chunks /\ c.vid = vid /\ c \in ChunkRow
    BY DEF ChunksOf, ChunkInv, Stored
  <2>2. e.index = index /\ e.bytes = current \o x /\ e.vid = vid
    BY <1>1, <2>1 DEF ChunkRow
  <2>3. e \in chunks'
    BY <1>1, <2>1 DEF UpdateBytes
  <2> HIDE DEF e
  <2> QED
    BY <2>2, <2>3 DEF ChunksOf
<1>4. ASSUME NEW p \in 0 .. (pre + Len(x)) - 1
      PROVE  At(p) \in Placed(vid)'
  <2>1. CASE p < pre
    <3>1. Whole(Placed(vid)', pre) /\ p \in 0 .. pre - 1
      BY <1>2, <1>4, <2>1, WholeKept, SMTT(40) DEF CompleteInv, Rows
    <3> QED
      BY <3>1 DEF Whole, At
  <2>2. CASE pre <= p
    <3> DEFINE j == (p - Base(index)) + 1
    <3>1. /\ p \in Nat /\ Base(index) <= p /\ p < Base(index) + DBChunkSize
          /\ j \in Nat /\ j > Len(current) /\ j <= Len(current) + Len(x) /\ j - Len(current) = (p - pre) + 1
      <4>1. PICK m \in Nat, n \in Nat : m = Len(current) /\ n = Len(x)
        BY <1>2
      <4>2. Base(index) + m = pre /\ m + n <= DBChunkSize /\ p \in Int /\ p < pre + n
        BY <1>1, <1>2, <4>1
      <4>3. p \in Nat
        BY <1>2, <2>2, <4>2
      <4> QED
        BY <1>2, <2>2, <4>1, <4>2, <4>3, SMTT(40)
    <3> HIDE DEF j
    <3>2. p \div DBChunkSize = index /\ (p % DBChunkSize) + 1 = j
      BY <1>2, <3>1, PlaceOf DEF j
    <3>3. j \in DOMAIN (current \o x) /\ (current \o x)[j] = x[j - Len(current)] /\ j - Len(current) \in DOMAIN x
      BY <1>2, <3>1, SMTT(40)
    <3>4. x[j - Len(current)] = pre + ((j - Len(current)) - 1)
      BY <3>3 DEF Consecutive
    <3>5. (current \o x)[j] = p
      BY <1>2, <3>1, <3>3, <3>4
    <3>6. <<e.index, j, e.bytes[j]>> \in Placed(vid)'
      BY <1>3, <3>3, PlacedMember DEF Placed
    <3> QED
      BY <1>3, <3>2, <3>5, <3>6 DEF At
  <2> QED
    BY <1>2, <1>4, <2>1, <2>2
<1> QED
  BY <1>4 DEF Whole, At

LEMMA CompleteAppend ==
  ASSUME MetaInv, ChunkInv, CompleteInv, AppendToChunk
  PROVE  CompleteInv'
<1>1. /\ UNCHANGED <<meta, vid, pre, lossy>> /\ pc = "write" /\ pc' = "chunks" /\ Next
      /\ chunks' = UpdateBytes(vid, index, current \o Data)
  BY DEF AppendToChunk, Next, HandleChunk
<1>2. /\ Consecutive(Data, pre) /\ Len(Data) <= blob.len /\ Len(current) + Len(Data) <= DBChunkSize
  BY AppendedPart
<1>3. Len(Data) = blob.len /\ (vid \in Rows => meta[vid].size = pre + blob.len)
  <2>1. blob.len \in Nat
    BY <1>1, BlobLength, NoneAssumption DEF MetaInv, MetaTypeOK
  <2> QED
    BY <1>1, <2>1, DataIsRun DEF ChunkInv, Counted, Counting
<1>4. ASSUME vid \in Rows' \ lossy'
      PROVE  Whole(Placed(vid)', meta'[vid].size)
  <2>1. vid \in Rows \ lossy /\ meta'[vid].size = pre + Len(Data)
    BY <1>1, <1>3, <1>4 DEF Rows
  <2> HIDE DEF Data
  <2>2. Whole(Placed(vid)', pre + Len(Data))
    BY <1>1, <1>2, <2>1, AppendedWhole
  <2> QED
    BY <2>1, <2>2
<1> QED
  BY <1>1, <1>4, CompleteOthers DEF CompleteInv, Whole

(* What is left of the blob when the chunk at the index is full.           *)
LEMMA FilledRest ==
  ASSUME pre \in Nat, blob.len \in Nat, NEW d \in Nat, d <= blob.len
  PROVE  Consecutive(SubSeq(Data, d + 1, blob.len), pre + d) /\ Len(SubSeq(Data, d + 1, blob.len)) = blob.len - d
<1>1. Consecutive(Data, pre) /\ Len(Data) = blob.len
  BY DataIsRun
<1>2. /\ Consecutive(SubSeq(Data, d + 1, blob.len), pre + ((d + 1) - 1))
      /\ Len(SubSeq(Data, d + 1, blob.len)) = IF d + 1 <= blob.len THEN (blob.len - (d + 1)) + 1 ELSE 0
  BY <1>1, PartOfRun
<1>3. /\ pre + ((d + 1) - 1) = pre + d
      /\ (IF d + 1 <= blob.len THEN (blob.len - (d + 1)) + 1 ELSE 0) = blob.len - d
  OBVIOUS
<1> QED
  BY <1>2, <1>3

LEMMA CompleteFill ==
  ASSUME MetaInv, ChunkInv, CompleteInv, FillChunk
  PROVE  CompleteInv'
<1> DEFINE d == DataRange
           x == SubSeq(Data, 1, d)
           y == SubSeq(Data, d + 1, blob.len)
<1>1. /\ UNCHANGED <<meta, vid, pre, lossy>> /\ pc = "write" /\ pc' = "chunks" /\ Next
      /\ rest' = Split(y) /\ index' = index + 1
      /\ chunks' = UpdateBytes(vid, index, current \o x)
  BY DEF FillChunk, Next, HandleChunk
<1>2. /\ blob.len \in Nat /\ pre \in Nat /\ index \in Nat
      /\ vid \in Rows => meta[vid].size = pre + blob.len
  BY <1>1, BlobLength, NoneAssumption DEF MetaInv, MetaTypeOK, ChunkInv, Counted, Counting
<1>3. /\ d \in Nat /\ d <= blob.len /\ Len(current) + d <= DBChunkSize
      /\ d = blob.len \/ d = DBChunkSize - Len(current)
      /\ Consecutive(x, pre) /\ Len(x) = d
  BY FilledPart
<1> HIDE DEF d
<1>4. Consecutive(y, pre + d) /\ Len(y) = blob.len - d
  BY <1>2, <1>3, FilledRest DEF d
<1> HIDE DEF x, y
<1>5. ASSUME vid \in Rows' \ lossy', NEW p \in 0 .. meta'[vid].size - 1
      PROVE  At(p) \in Placed(vid)' \/ Pending(p)'
  <2>1. vid \in Rows \ lossy /\ meta'[vid].size = pre + blob.len
    BY <1>1, <1>2, <1>5 DEF Rows
  <2>2. Whole(Placed(vid)', pre + d)
    BY <1>1, <1>3, <2>1, AppendedWhole
  <2>3. PICK c \in ChunksOf(vid) : c.bytes = current /\ Base(index) + Len(current) = pre
    BY <1>1, <2>1, CurrentUpToBlob
  <2>4. CASE p < pre + d
    BY <1>2, <1>3, <1>5, <2>2, <2>4 DEF Whole
  <2>5. CASE pre + d <= p
    <3>1. current \in Seq(Nat)
      BY <1>1 DEF ChunkInv, ReadBack
    <3>2. p \in Nat /\ p < pre + blob.len
      BY <1>2, <1>5, <2>1
    <3>3. d = DBChunkSize - Len(current)
      BY <1>2, <1>3, <2>5, <3>2
    <3>4. DBChunkSize \in Nat /\ Base(index) \in Nat /\ Base(index + 1) = Base(index) + DBChunkSize
      BY <1>2, BaseType, BaseNext, DBChunkSizeAssumption
    <3>5. Base(index + 1) = pre + d
      BY <2>3, <3>1, <3>3, <3>4
    <3>6. PICK q \in Nat : q = p - (pre + d)
      BY <1>2, <1>3, <2>5, <3>2
    <3>7. q < Len(y) /\ pre + d \in Nat
      BY <1>2, <1>3, <1>4, <3>2, <3>6
    <3>8. PICK k \in DOMAIN Split(y) : \E j \in DOMAIN Split(y)[k] :
            k - 1 = q \div DBChunkSize /\ j = (q % DBChunkSize) + 1 /\ Split(y)[k][j] = (pre + d) + q
      BY <1>4, <3>7, SplitCovers
    <3>9. PICK j \in DOMAIN Split(y)[k] :
            k - 1 = q \div DBChunkSize /\ j = (q % DBChunkSize) + 1 /\ Split(y)[k][j] = (pre + d) + q
      BY <3>8
    <3>10. PICK m \in Nat : m = q \div DBChunkSize /\ q % DBChunkSize \in Nat /\ q % DBChunkSize < DBChunkSize
                            /\ q = Base(m) + (q % DBChunkSize)
      BY PlaceBounds
    <3>11. /\ (index + 1) + m \in Nat /\ Base(m) \in Nat
           /\ Base((index + 1) + m) = (pre + d) + Base(m)
      <4>1. index + 1 \in Nat /\ (index + 1) + m \in Nat
        BY <1>2, <3>10
      <4>2. Base((index + 1) + m) = Base(index + 1) + Base(m)
        BY <3>10, <4>1, BaseSum
      <4> QED
        BY <3>5, <3>10, <4>1, <4>2, BaseType
    <3>12. p = Base((index + 1) + m) + (q % DBChunkSize)
      <4>1. p = (pre + d) + q
        BY <1>2, <1>3, <3>2, <3>6
      <4>2. PICK r \in Nat : r = q % DBChunkSize /\ q = Base(m) + r
        BY <3>10
      <4> QED
        BY <3>7, <3>11, <4>1, <4>2
    <3>13. p \div DBChunkSize = (index + 1) + m /\ p % DBChunkSize = q % DBChunkSize
      <4>1. PICK r \in Nat : r = q % DBChunkSize
        BY <3>10
      <4>2. Base((index + 1) + m) \in Nat
        BY <3>11, BaseType
      <4>3. Base((index + 1) + m) <= p /\ p < Base((index + 1) + m) + DBChunkSize /\ r = p - Base((index + 1) + m)
        BY <3>4, <3>10, <3>12, <4>1, <4>2
      <4> QED
        BY <3>2, <3>11, <4>1, <4>3, PlaceOf
    <3>14. k \in Int /\ (index + 1) + (k - 1) = p \div DBChunkSize
      BY <3>9, <3>10, <3>13 DEF Split
    <3>15. Split(y)[k][j] = p
      BY <1>2, <1>3, <3>2, <3>6, <3>9
    <3> QED
      BY <1>1, <3>9, <3>13, <3>14, <3>15 DEF Pending, At
  <2> QED
    BY <1>2, <1>3, <1>5, <2>1, <2>4, <2>5
<1> QED
  BY <1>1, <1>5, CompleteOthers DEF CompleteInv

LEMMA CompleteInsertChunk ==
  ASSUME MetaInv, ChunkInv, CompleteInv, InsertChunk
  PROVE  CompleteInv'
<1> DEFINE e == [vid |-> vid, index |-> index, bytes |-> Head(rest)]
<1>1. /\ UNCHANGED <<meta, vid, lossy>> /\ pc = "chunks" /\ pc' = "chunks" /\ Next
      /\ rest # <<>> /\ rest' = Tail(rest) /\ index' = index + 1 /\ chunks' = chunks \cup {e}
  BY DEF InsertChunk, Next, HandleChunk
<1>2. index \in Nat /\ rest \in Seq(Seq(Nat))
  BY <1>1 DEF ChunkInv, Counted, Counting, Pieces
<1>3. ASSUME NEW k \in DOMAIN rest, k # 1
      PROVE  k - 1 \in DOMAIN rest' /\ rest'[k - 1] = rest[k] /\ k \in Nat
  <2>1. Len(rest) \in Nat /\ Len(rest) >= 1 /\ DOMAIN rest = 1 .. Len(rest)
    BY <1>1, <1>2
  <2>2. /\ Tail(rest) \in Seq(Seq(Nat)) /\ Len(Tail(rest)) = Len(rest) - 1
        /\ \A i \in 1 .. Len(Tail(rest)) : Tail(rest)[i] = rest[i + 1]
    BY <1>1, <1>2, HeadTailProperties
  <2>3. k \in Nat /\ k - 1 \in 1 .. Len(Tail(rest)) /\ (k - 1) + 1 = k
    BY <1>3, <2>1, <2>2
  <2> QED
    BY <1>1, <2>2, <2>3
<1>4. e.index = index /\ e.bytes = rest[1] /\ e \in ChunksOf(vid)'
  BY <1>1, <1>2 DEF ChunksOf
<1> HIDE DEF e
<1>5. ASSUME vid \in Rows' \ lossy', NEW p \in 0 .. meta'[vid].size - 1
      PROVE  At(p) \in Placed(vid)' \/ Pending(p)'
  <2>1. vid \in Rows \ lossy /\ (At(p) \in Placed(vid) \/ Pending(p))
    BY <1>1, <1>5 DEF CompleteInv, Rows
  <2>2. CASE At(p) \in Placed(vid)
    BY <1>1, <1>5, <2>1, <2>2, PlacedKept
  <2>3. CASE Pending(p)
    <3>1. PICK k \in DOMAIN rest : \E j \in DOMAIN rest[k] : At(p) = <<index + (k - 1), j, rest[k][j]>>
      BY <2>3 DEF Pending
    <3>2. PICK j \in DOMAIN rest[k] : At(p) = <<index + (k - 1), j, rest[k][j]>>
      BY <3>1
    <3>3. CASE k = 1
      <4>1. At(p) = <<e.index, j, e.bytes[j]>> /\ j \in DOMAIN e.bytes
        BY <1>2, <1>4, <3>2, <3>3
      <4> QED
        BY <1>4, <4>1, PlacedMember DEF Placed
    <3>4. CASE k # 1
      <4>1. k - 1 \in DOMAIN rest' /\ rest'[k - 1] = rest[k] /\ k \in Nat
        BY <1>3, <3>4
      <4>2. index' + ((k - 1) - 1) = index + (k - 1)
        BY <1>1, <1>2, <4>1
      <4> QED
        BY <3>2, <4>1, <4>2 DEF Pending, At
    <3> QED
      BY <3>3, <3>4
  <2> QED
    BY <2>1, <2>2, <2>3
<1> QED
  BY <1>1, <1>5, CompleteOthers DEF CompleteInv

LEMMA CompleteReply ==
  ASSUME MetaInv, ChunkInv, CompleteInv, Reply
  PROVE  CompleteInv'
<1>1. /\ UNCHANGED <<meta, chunks, lossy>> /\ pc = "chunks" /\ rest = <<>> /\ Next
      /\ pc' = "idle" /\ vid' = None
  BY DEF Reply, Forget, tables, Next, HandleChunk
<1>2. ASSUME NEW v \in Rows' \ lossy', v = vid
      PROVE  Whole(Placed(v)', meta'[v].size)
  <2>1. v \in Rows \ lossy /\ \A p : ~Pending(p)
    BY <1>1, <1>2 DEF Rows, Pending
  <2>2. Whole(Placed(v), meta[v].size)
    BY <1>1, <1>2, <2>1 DEF CompleteInv, Whole
  <2> QED
    BY <1>1, <1>2, <2>1, <2>2, WholeKept
<1>3. None \notin Rows'
  BY NoneAssumption DEF Rows
<1> QED
  BY <1>1, <1>2, <1>3, CompleteOthers DEF CompleteInv

(* A statement that fails, like a deletion, may lose bytes of no video but *)
(* those it makes lossy or takes away.                                     *)
LEMMA CompleteFail ==
  ASSUME MetaInv, ChunkInv, CompleteInv, Fail
  PROVE  CompleteInv'
<1>1. /\ UNCHANGED <<meta, chunks>> /\ pc' = "idle" /\ vid' = None /\ Next
      /\ lossy \subseteq lossy' /\ (vid # None => vid \in lossy')
  BY DEF Fail, Forget, tables, Next, HandleChunk
<1>2. None \notin Rows'
  BY NoneAssumption DEF Rows
<1>3. ASSUME NEW v \in Rows' \ lossy'
      PROVE  Whole(Placed(v)', meta'[v].size)
  <2>1. v \in Rows \ lossy /\ v # vid
    BY <1>1, <1>2, <1>3 DEF Rows
  <2> QED
    BY <1>1, <1>3, <2>1, WholeKept DEF CompleteInv
<1> QED
  BY <1>1, <1>2, <1>3 DEF CompleteInv

LEMMA CompleteDelete ==
  ASSUME MetaInv, ChunkInv, CompleteInv, NEW name \in Names, DeleteStream(name)
  PROVE  CompleteInv'
<1>1. UNCHANGED <<pc, vid, pre, index, rest, lossy>> /\ Next
  BY DEF DeleteStream, locals, Next
<1>2. ASSUME NEW v \in Rows'
      PROVE  v \in Rows /\ meta'[v] = meta[v] /\ Placed(v) \subseteq Placed(v)'
  <2>1. v \in Rows /\ meta'[v] = meta[v]
    BY <1>2 DEF DeleteStream, Rows
  <2> QED
    BY <1>1, <1>2, <2>1, PlacedKept
<1>3. \A p : Pending(p)' <=> Pending(p)
  BY <1>1 DEF Pending, At
<1> QED
  BY <1>1, <1>2, <1>3 DEF CompleteInv, Whole

(* CompleteInv is inductive.                                               *)
LEMMA CompleteInvStep ==
  ASSUME MetaInv, ChunkInv, CompleteInv, [Next]_videoVars
  PROVE  CompleteInv'
<1>1. CASE Receive \/ SelectMeta
  <2>1. UNCHANGED <<meta, chunks, vid, lossy>> /\ vid = None /\ pc' \in {"select", "update", "insert"} /\ Next
    BY <1>1 DEF Receive, SelectMeta, tables, Next, HandleChunk, MetaInv, MetaTypeOK
  <2>2. None \notin Rows'
    BY NoneAssumption DEF Rows
  <2> QED
    BY <2>1, <2>2, CompleteOthers DEF CompleteInv
<1>2. CASE UNCHANGED videoVars
  <2>1. UNCHANGED <<meta, chunks, pc, vid, pre, index, rest, lossy>>
    BY <1>2 DEF videoVars, tables, locals
  <2>2. Rows' = Rows /\ (\A v : Placed(v)' = Placed(v)) /\ \A p : Pending(p)' <=> Pending(p)
    BY <2>1 DEF Rows, Placed, ChunksOf, Pending, At
  <2> QED
    BY <2>1, <2>2 DEF CompleteInv
<1> QED
  BY <1>1, <1>2, CompleteUpdate, CompleteInsert, CompleteExists, CompleteSelectBytes, CompleteAppend,
     CompleteFill, CompleteInsertChunk, CompleteReply, CompleteFail, CompleteDelete DEF Next, HandleChunk

THEOREM CompleteInvariant == Spec => []CompleteInv
<1>1. Init => CompleteInv
  BY DEF Init, CompleteInv, Rows
<1>2. MetaInv /\ ChunkInv /\ CompleteInv /\ [Next]_videoVars => CompleteInv'
  BY CompleteInvStep
<1> QED
  BY <1>1, <1>2, MetaInvariant, ChunkInvariant, PTL DEF Spec

(* Between two blobs a video of which no blob failed, and none began where *)
(* a chunk was full, is stored byte by byte where a download looks.        *)
THEOREM RecordingsComplete == Spec => []CompleteUnlessLossy
<1>1. ASSUME MetaInv, CompleteInv, pc = "idle", NEW v \in Rows \ lossy, NEW p \in 0 .. meta[v].size - 1
      PROVE  \E c \in ChunksOf(v) : /\ c.index = p \div DBChunkSize
                                    /\ (p % DBChunkSize) + 1 \in DOMAIN c.bytes
                                    /\ c.bytes[(p % DBChunkSize) + 1] = p
  <2>1. v # vid
    BY <1>1, NoneAssumption DEF MetaInv, MetaTypeOK, Rows
  <2>2. At(p) \in Placed(v)
    BY <1>1, <2>1 DEF CompleteInv, Whole
  <2>3. PICK c \in ChunksOf(v) : \E i \in DOMAIN c.bytes : At(p) = <<c.index, i, c.bytes[i]>>
    BY <2>2, PlacedMember DEF Placed
  <2> QED
    BY <2>3 DEF At
<1>2. MetaInv /\ CompleteInv => CompleteUnlessLossy
  BY <1>1 DEF CompleteUnlessLossy
<1> QED
  BY <1>2, MetaInvariant, CompleteInvariant, PTL
=============================================================================
