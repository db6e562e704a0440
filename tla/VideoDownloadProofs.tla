------------------------- MODULE VideoDownloadProofs -------------------------
(* Proofs about VideoDownload, for any names, streamers, blobs, chunk and  *)
(* section size and number of recordings.                                  *)
EXTENDS VideoDownload, ChunkProofs

(* A download only reads: for the recorder its steps are none.             *)
LEMMA DownloadStep == [DownloadNext]_allVars => [Next]_videoVars
  BY DEF DownloadNext, Recorder, Start, WriteChunk, NoMoreChunks, QueryFails, allVars

(* So all that is proved of the recorder holds while recordings are        *)
(* downloaded.                                                             *)
THEOREM DownloadRefinesRecorder == DownloadSpec => Spec
<1>1. DownloadInit => Init
  BY DEF DownloadInit
<1> QED
  BY <1>1, DownloadStep, PTL DEF DownloadSpec, Spec

(* The properties of the recorder, as the run checks them: types, one      *)
(* recording of a name, one row of an index, rows filled and counted,      *)
(* bytes in order, and all of them of a video without a lost blob.         *)
THEOREM RecorderStaysCorrect ==
  DownloadSpec => [](/\ TypeOK /\ MetaUnique /\ ChunkIndexUnique /\ SizeCoversChunks /\ BytesInOrder
                     /\ CompleteUnlessLossy)
  BY DownloadRefinesRecorder, RecorderTypes, OneRecordingPerName, OneChunkPerIndex, ChunksCounted,
     BytesStayInOrder, RecordingsComplete, PTL

(* ... and what no step may do to a recording.                             *)
THEOREM RecorderStaysALog == DownloadSpec => AppendOnly /\ OnlyOwnerWrites
  BY DownloadRefinesRecorder, RecorderImplementsRecording, OwnerWrites, PTL

-----------------------------------------------------------------------------
(* The response is in order.                                               *)

(* What was sent of a recording is still stored, in rows before the one to *)
(* be read next.                                                           *)
SentInv ==
  /\ sent \in Seq(Nat) /\ dlIndex \in Int
  /\ dl = "idle" => sent = <<>>
  /\ dlId \in used \cup {None}
  /\ Increasing(sent)
  /\ dlId \in Rows => \A j \in DOMAIN sent : \E q \in Placed(dlId) : q[1] < dlIndex /\ q[3] = sent[j]

LEMMA IncreasingConcat ==
  ASSUME NEW s \in Seq(Nat), NEW t \in Seq(Nat), Increasing(s), Increasing(t), AllBefore(s, t)
  PROVE  Increasing(s \o t)
<1>1. /\ Len(s) \in Nat /\ Len(t) \in Nat /\ DOMAIN (s \o t) = 1 .. Len(s) + Len(t)
      /\ DOMAIN s = 1 .. Len(s) /\ DOMAIN t = 1 .. Len(t)
  OBVIOUS
<1>2. ASSUME NEW i \in DOMAIN (s \o t)
      PROVE  \/ i \in DOMAIN s /\ (s \o t)[i] = s[i]
             \/ i > Len(s) /\ i - Len(s) \in DOMAIN t /\ (s \o t)[i] = t[i - Len(s)]
  BY <1>1
<1>3. ASSUME NEW i \in DOMAIN (s \o t), NEW j \in DOMAIN (s \o t), i < j
      PROVE  (s \o t)[i] < (s \o t)[j]
  <2>1. CASE j \in DOMAIN s
    <3>1. i \in DOMAIN s /\ (s \o t)[i] = s[i] /\ (s \o t)[j] = s[j]
      BY <1>1, <1>2, <1>3, <2>1
    <3> QED
      BY <1>3, <2>1, <3>1 DEF Increasing
  <2>2. CASE i \in DOMAIN s /\ j \notin DOMAIN s
    <3>1. (s \o t)[i] = s[i]
      BY <1>1, <1>2, <2>2
    <3>2. j - Len(s) \in DOMAIN t /\ (s \o t)[j] = t[j - Len(s)]
      BY <1>2, <2>2
    <3> QED
      BY <2>2, <3>1, <3>2 DEF AllBefore
  <2>3. CASE i \notin DOMAIN s /\ j \notin DOMAIN s
    <3>1. /\ i - Len(s) \in DOMAIN t /\ (s \o t)[i] = t[i - Len(s)]
          /\ j - Len(s) \in DOMAIN t /\ (s \o t)[j] = t[j - Len(s)]
      BY <1>2, <2>3
    <3>2. i - Len(s) < j - Len(s)
      BY <1>1, <1>3
    <3> QED
      BY <3>1, <3>2 DEF Increasing
  <2> QED
    BY <2>1, <2>2, <2>3
<1> QED
  BY <1>3 DEF Increasing

(* A recording that is gone does not come back under its id.               *)
LEMMA StaysGone ==
  ASSUME MetaInv, [Next]_videoVars, NEW v \in used
  PROVE  v \in used' /\ (v \in Rows' => v \in Rows)
<1>1. CASE InsertMeta
  BY <1>1 DEF InsertMeta, Rows, MetaInv, MetaTypeOK
<1>2. CASE Next /\ ~InsertMeta
  <2>1. used' = used
    BY <1>2 DEF Next, HandleChunk, Receive, SelectMeta, UpdateMeta, ChunkExists, SelectBytes,
                AppendToChunk, FillChunk, InsertChunk, Reply, Fail, DeleteStream, tables
  <2> QED
    BY <1>2, <2>1, RowsStep
<1>3. CASE UNCHANGED videoVars
  BY <1>3 DEF videoVars, tables, Rows
<1> QED
  BY <1>1, <1>2, <1>3

(* A section that is not before the video starts within the chunk of its   *)
(* first byte.                                                             *)
LEMMA FirstIndexIs ==
  ASSUME NEW i \in Sections
  PROVE  /\ i * SectionSize \in Int /\ FirstIndex(i) \in Int
         /\ FirstIndex(i) \in Nat => Base(FirstIndex(i)) <= i * SectionSize \/ FirstIndex(i) = 0
<1> DEFINE n == i * SectionSize
<1>1. n \in Int
  BY SectionsAssumption, SectionSizeAssumption
<1> HIDE DEF n
<1>2. FirstIndex(i) = IF n >= 0 THEN n \div DBChunkSize ELSE -((-n) \div DBChunkSize)
  BY DEF FirstIndex, n
<1>3. CASE n >= 0
  <2>1. n \in Nat
    BY <1>1, <1>3
  <2>2. n \div DBChunkSize \in Nat /\ Base(n \div DBChunkSize) <= n
    BY <2>1, BaseOfSize
  <2> QED
    BY <1>1, <1>2, <1>3, <2>2 DEF n
<1>4. CASE n < 0
  <2>1. PICK k \in Nat : k = (-n) \div DBChunkSize
    <3>1. -n \in Nat
      BY <1>1, <1>4
    <3> QED
      BY <3>1, BaseOfSize
  <2>2. FirstIndex(i) = -k
    BY <1>1, <1>2, <1>4, <2>1
  <2>3. FirstIndex(i) \in Int /\ (FirstIndex(i) \in Nat => FirstIndex(i) = 0)
    BY <2>2
  <2> QED
    BY <1>1, <2>3 DEF n
<1> QED
  BY <1>1, <1>3, <1>4

(* The rows are read one after another, and what the recorder has added or *)
(* taken away in between is not before one that was read.                  *)
LEMMA SentInvStep ==
  ASSUME MetaInv, ChunkInv, SentInv, [DownloadNext]_allVars
  PROVE  SentInv'
<1> USE NoneAssumption
<1>1. ASSUME NEW name \in Names, NEW i \in Sections, Start(name, i)
      PROVE  SentInv'
  <2>1. PICK v \in Rows : i * SectionSize <= meta[v].size /\ dlId' = v /\ dlSize' = meta[v].size
    BY <1>1 DEF Start
  <2>4. dlIndex' \in Int
    BY <1>1, FirstIndexIs DEF Start
  <2>5. UNCHANGED <<meta, used, chunks, sent>> /\ sent = <<>> /\ dl' = "write"
    BY <1>1 DEF Start, SentInv, videoVars, tables
  <2>6. v \in used
    BY DEF MetaInv, IdsUsed
  <2> QED
    BY <2>1, <2>4, <2>5, <2>6 DEF SentInv, Increasing, Rows
<1>2. CASE WriteChunk
  <2>1. PICK c \in ChunksOf(dlId) : c.index = dlIndex /\ sent' = sent \o c.bytes
    BY <1>2 DEF WriteChunk, Here
  <2>2. UNCHANGED <<meta, used, chunks, dl, dlId>> /\ dl = "write" /\ dlIndex' = dlIndex + 1
    BY <1>2 DEF WriteChunk, videoVars, tables
  <2>3. dlId \in Rows /\ c.bytes \in Seq(Nat) /\ Increasing(c.bytes) /\ sent \in Seq(Nat) /\ dlIndex \in Int
    BY DEF ChunkInv, Stored, ChunksOf, Fits, SentInv
  <2>4. AllBefore(sent, c.bytes)
    <3>1. ASSUME NEW j \in DOMAIN sent, NEW k \in DOMAIN c.bytes
          PROVE  sent[j] < c.bytes[k]
      <4>1. PICK q \in Placed(dlId) : q[1] < dlIndex /\ q[3] = sent[j]
        BY <2>3 DEF SentInv
      <4>2. PICK d \in ChunksOf(dlId) : \E i \in DOMAIN d.bytes : q = <<d.index, i, d.bytes[i]>>
        BY PlacedMember DEF Placed
      <4>3. PICK i \in DOMAIN d.bytes : q = <<d.index, i, d.bytes[i]>>
        BY <4>2
      <4>4. d.index < c.index
        BY <2>1, <4>1, <4>3
      <4>5. AllBefore(d.bytes, c.bytes)
        BY <4>4 DEF ChunkInv, Stored, ChunksOf
      <4> QED
        BY <4>1, <4>3, <4>5 DEF AllBefore
    <3> QED
      BY <3>1 DEF AllBefore
  <2>5. Increasing(sent')
    BY <2>1, <2>3, <2>4, IncreasingConcat DEF SentInv
  <2>6. ASSUME NEW j \in DOMAIN sent'
        PROVE  \E q \in Placed(dlId) : q[1] < dlIndex + 1 /\ q[3] = sent'[j]
    <3>1. CASE j \in DOMAIN sent
      <4>1. sent'[j] = sent[j]
        BY <2>1, <2>3, <3>1
      <4>2. PICK q \in Placed(dlId) : q[1] < dlIndex /\ q[3] = sent[j]
        BY <2>3, <3>1 DEF SentInv
      <4>3. PICK d \in ChunksOf(dlId) : q[1] = d.index
        BY PlacedMember DEF Placed
      <4>4. q[1] \in Nat
        BY <4>3 DEF ChunkInv, Stored, ChunkRow, ChunksOf
      <4> QED
        BY <2>3, <4>1, <4>2, <4>4
    <3>2. CASE j \notin DOMAIN sent
      <4>1. PICK k \in DOMAIN c.bytes : sent'[j] = c.bytes[k]
        <5>1. Len(sent) \in Nat /\ DOMAIN sent = 1 .. Len(sent) /\ DOMAIN sent' = 1 .. Len(sent) + Len(c.bytes)
          BY <2>1, <2>3
        <5>2. j \in Nat /\ j > Len(sent) /\ j <= Len(sent) + Len(c.bytes)
          BY <2>3, <3>2, <5>1
        <5>3. j - Len(sent) \in DOMAIN c.bytes /\ sent'[j] = c.bytes[j - Len(sent)]
          BY <2>1, <2>3, <5>2
        <5> QED
          BY <5>3
      <4>2. <<c.index, k, c.bytes[k]>> \in Placed(dlId)
        BY InRow
      <4>3. dlIndex < dlIndex + 1
        BY <2>3
      <4>4. PICK q \in Placed(dlId) : q = <<c.index, k, c.bytes[k]>>
        BY <4>2
      <4>5. q[1] = dlIndex /\ q[3] = sent'[j]
        BY <2>1, <4>1, <4>4
      <4> QED
        BY <4>3, <4>5
    <3> QED
      BY <3>1, <3>2
  <2>7. sent' \in Seq(Nat)
    BY <2>1, <2>3
  <2>8. Placed(dlId)' = Placed(dlId)
    BY <2>2 DEF Placed, ChunksOf
  <2> QED
    BY <2>2, <2>3, <2>5, <2>6, <2>7, <2>8 DEF SentInv, Rows
<1>3. CASE NoMoreChunks \/ QueryFails
  BY <1>3 DEF NoMoreChunks, QueryFails, SentInv, videoVars, tables, Rows, Placed, ChunksOf
<1>4. CASE Recorder \/ UNCHANGED allVars
  <2>1. [Next]_videoVars /\ UNCHANGED <<dl, dlId, dlIndex, sent>>
    BY <1>4 DEF Recorder, allVars, dlVars
  <2>2. ASSUME dlId \in Rows'
        PROVE  dlId \in Rows /\ Placed(dlId) \subseteq Placed(dlId)'
    <3>1. dlId \in Videos /\ dlId \in used
      BY <2>2 DEF Rows, SentInv, MetaInv, IdsUsed
    <3>2. dlId \in Rows
      BY <2>1, <2>2, <3>1, StaysGone
    <3>3. \A w \in Rows : w \in Rows' => Placed(w) \subseteq Placed(w)'
      BY <2>1, PlacedKept
    <3> QED
      BY <2>1, <2>2, <3>2, <3>3 DEF Placed, ChunksOf
  <2>3. dlId \in used => dlId \in used'
    BY <2>1, StaysGone
  <2>4. ASSUME dlId \in Rows', NEW j \in DOMAIN sent
        PROVE  \E q \in Placed(dlId)' : q[1] < dlIndex /\ q[3] = sent[j]
    BY <2>2, <2>4 DEF SentInv
  <2> QED
    BY <2>1, <2>3, <2>4 DEF SentInv, Increasing
<1> QED
  BY <1>1, <1>2, <1>3, <1>4 DEF DownloadNext

(* What has been sent is in the order in which it was recorded, and no     *)
(* byte is sent twice, whatever is recorded or deleted meanwhile.          *)
THEOREM DownloadReadsInOrder == DownloadSpec => []DownloadInOrder
<1>1. DownloadInit => SentInv
  BY NoneAssumption DEF DownloadInit, Init, SentInv, Increasing, Rows
<1>2. MetaInv /\ ChunkInv /\ SentInv /\ [DownloadNext]_allVars => SentInv'
  BY SentInvStep
<1>3. SentInv => DownloadInOrder
  BY DEF SentInv, Increasing, DownloadInOrder
<1> QED
  BY <1>1, <1>2, <1>3, DownloadRefinesRecorder, MetaInvariant, ChunkInvariant, PTL DEF DownloadSpec

-----------------------------------------------------------------------------
(* A download during which the tables stay as they are.                    *)

(* So far the response is the recording from where its section starts, up  *)
(* to the row to be read next or to the end.                               *)
SentWhole ==
  /\ \A i \in DOMAIN sent : sent[i] = Base(first) + i - 1
  /\ \/ Base(first) + Len(sent) = Base(dlIndex) /\ Base(dlIndex) <= dlSize
     \/ Base(first) + Len(sent) = dlSize /\ dlSize <= Base(dlIndex)

(* While the tables have not changed the recorder has not got as far as to *)
(* know the video of a blob, so what was stored is complete.  A section    *)
(* before the video stays at its first index, where there is no row.       *)
QuietInv ==
  quiet /\ dl \in {"write", "done"} =>
    /\ vid = None
    /\ dlId \in Rows /\ meta[dlId].size = dlSize
    /\ first \in Int
    /\ first < 0 => dlIndex = first /\ sent = <<>>
    /\ first >= 0 => dlIndex \in Nat
    /\ first >= 0 /\ dlId \notin lossy =>
         /\ SentWhole
         /\ dl = "done" => Len(sent) >= SectionSize \/ Base(first) + Len(sent) >= dlSize

(* Every row of a complete video is full but the last, and holds the bytes *)
(* that belong there.                                                      *)
LEMMA RowOfWhole ==
  ASSUME ChunkInv, NEW v \in Rows, meta[v].size \in Nat, Whole(Placed(v), meta[v].size), NEW c \in ChunksOf(v)
  PROVE  /\ c.index \in Nat /\ c.bytes \in Seq(Nat)
         /\ Base(c.index) + Len(c.bytes) <= meta[v].size /\ Len(c.bytes) \in 1 .. DBChunkSize
         /\ \A i \in DOMAIN c.bytes : c.bytes[i] = Base(c.index) + i - 1
         /\ Len(c.bytes) = DBChunkSize \/ Base(c.index) + Len(c.bytes) = meta[v].size
<1>1. /\ c.index \in Nat /\ c.bytes \in Seq(Nat) /\ Len(c.bytes) \in 1 .. DBChunkSize
      /\ Base(c.index) + Len(c.bytes) <= meta[v].size
      /\ \A d \in ChunksOf(v) : d.index = c.index => d = c
  BY DEF ChunkInv, Stored, ChunkRow, ChunksOf, Fits
<1>2. Base(c.index) \in Nat /\ DBChunkSize \in Nat
  BY <1>1, BaseType, DBChunkSizeAssumption
<1>3. ASSUME NEW p \in Nat, p < meta[v].size, Base(c.index) <= p, p < Base(c.index) + DBChunkSize
      PROVE  (p - Base(c.index)) + 1 \in DOMAIN c.bytes /\ c.bytes[(p - Base(c.index)) + 1] = p
  <2>1. p \div DBChunkSize = c.index /\ p % DBChunkSize = p - Base(c.index)
    BY <1>1, <1>3, PlaceOf
  <2>2. <<c.index, (p - Base(c.index)) + 1, p>> \in Placed(v)
    BY <1>3, <2>1 DEF Whole, At
  <2>3. PICK d \in ChunksOf(v) : \E i \in DOMAIN d.bytes : <<c.index, (p - Base(c.index)) + 1, p>> = <<d.index, i, d.bytes[i]>>
    BY <2>2, PlacedMember DEF Placed
  <2> QED
    BY <1>1, <2>3
<1>4. ASSUME NEW i \in DOMAIN c.bytes
      PROVE  c.bytes[i] = Base(c.index) + i - 1
  <2>1. i \in Nat /\ i >= 1 /\ i <= Len(c.bytes)
    BY <1>1
  <2>2. PICK p \in Nat : p = Base(c.index) + i - 1
    BY <1>2, <2>1
  <2>3. PICK n \in Nat : n = Len(c.bytes) /\ n <= DBChunkSize /\ i <= n /\ Base(c.index) + n <= meta[v].size
    BY <1>1, <1>2, <2>1
  <2>4. p < meta[v].size /\ Base(c.index) <= p /\ p < Base(c.index) + DBChunkSize /\ (p - Base(c.index)) + 1 = i
    BY <1>2, <2>1, <2>2, <2>3, SMTT(40)
  <2> QED
    BY <1>3, <2>2, <2>4
<1>5. ASSUME Len(c.bytes) # DBChunkSize, Base(c.index) + Len(c.bytes) # meta[v].size
      PROVE  FALSE
  <2>1. PICK p \in Nat : p = Base(c.index) + Len(c.bytes)
    BY <1>1, <1>2
  <2>2. p < meta[v].size /\ Base(c.index) <= p /\ p < Base(c.index) + DBChunkSize /\ p - Base(c.index) = Len(c.bytes)
    BY <1>1, <1>2, <1>5, <2>1
  <2>3. Len(c.bytes) + 1 \in DOMAIN c.bytes
    BY <1>3, <2>2
  <2> QED
    BY <1>1, <2>3
<1> QED
  BY <1>1, <1>4, <1>5

LEMMA QuietStart ==
  ASSUME MetaInv, ChunkInv, SentInv, NEW name \in Names, NEW i \in Sections, Start(name, i)
  PROVE  QuietInv'
<1>1. PICK v \in Rows : i * SectionSize <= meta[v].size /\ dlId' = v /\ dlSize' = meta[v].size
  BY DEF Start
<1>2. /\ dlIndex' = first' /\ first' = FirstIndex(i)
      /\ sent' = <<>> /\ UNCHANGED <<meta, vid, lossy>> /\ dl' = "write" /\ quiet' = (pc = "idle")
  BY DEF Start, SentInv, videoVars, tables, locals
<1>3. i * SectionSize \in Int /\ FirstIndex(i) \in Int
      /\ (FirstIndex(i) \in Nat => Base(FirstIndex(i)) <= i * SectionSize \/ FirstIndex(i) = 0)
  BY FirstIndexIs
<1>5. meta[v].size \in Nat
  BY MaxSizeAssumption DEF MetaInv, MetaTypeOK, Rows, MetaRow
<1>6. ASSUME first' \in Nat
      PROVE  Base(first') \in Nat /\ Base(first') <= meta[v].size
  <2>1. Base(first') \in Nat
    BY <1>6, BaseType
  <2>2. CASE first' = 0
    <3>1. Base(first') = 0
      BY <2>2, DBChunkSizeAssumption DEF Base
    <3> QED
      BY <1>5, <3>1
  <2>3. CASE Base(first') <= i * SectionSize
    BY <1>1, <1>3, <1>5, <2>1, <2>3
  <2> QED
    BY <1>2, <1>3, <1>6, <2>1, <2>2, <2>3
<1>7. quiet' => vid' = None
  BY <1>2 DEF MetaInv, MetaTypeOK
<1>8. Len(sent') = 0 /\ DOMAIN sent' = {}
  BY <1>2
<1>9. first' \in Nat => SentWhole'
  BY <1>1, <1>2, <1>6, <1>8 DEF SentWhole, Base
<1>10. first' >= 0 => first' \in Nat
  BY <1>2, <1>3
<1> QED
  BY <1>1, <1>2, <1>3, <1>7, <1>9, <1>10 DEF QuietInv, Rows

LEMMA QuietWrite ==
  ASSUME MetaInv, ChunkInv, CompleteInv, SentInv, QuietInv, WriteChunk
  PROVE  QuietInv'
<1>1. PICK c \in ChunksOf(dlId) : c.index = dlIndex /\ sent' = sent \o c.bytes
  BY DEF WriteChunk, Here
<1>2. UNCHANGED <<meta, vid, lossy, dl, dlId, dlSize, first, quiet>> /\ dl = "write" /\ dlIndex' = dlIndex + 1
  BY DEF WriteChunk, videoVars, tables, locals
<1>3. ASSUME quiet, first >= 0, dlId \notin lossy
      PROVE  SentWhole'
  <2>1. /\ dlId \in Rows /\ meta[dlId].size = dlSize /\ vid = None /\ first \in Nat /\ SentWhole
        /\ sent \in Seq(Nat) /\ dlIndex \in Nat
    BY <1>2, <1>3 DEF QuietInv, SentInv
  <2>2. dlSize \in Nat
    BY <2>1, MaxSizeAssumption DEF MetaInv, MetaTypeOK, Rows, MetaRow
  <2>3. Whole(Placed(dlId), meta[dlId].size)
    BY <1>3, <2>1, NoneAssumption DEF CompleteInv, Rows
  <2>4. /\ c.bytes \in Seq(Nat)
        /\ Base(dlIndex) + Len(c.bytes) <= dlSize /\ Len(c.bytes) \in 1 .. DBChunkSize
        /\ \A i \in DOMAIN c.bytes : c.bytes[i] = Base(dlIndex) + i - 1
        /\ Len(c.bytes) = DBChunkSize \/ Base(dlIndex) + Len(c.bytes) = dlSize
    BY <1>1, <2>1, <2>2, <2>3, RowOfWhole
  <2>5. /\ Base(dlIndex) \in Nat /\ Base(first) \in Nat /\ Base(dlIndex + 1) = Base(dlIndex) + DBChunkSize
        /\ DBChunkSize \in Nat
    BY <2>1, BaseType, BaseNext, DBChunkSizeAssumption
  <2>6. PICK m \in Nat, n \in Nat : m = Len(sent) /\ n = Len(c.bytes) /\ n >= 1 /\ n <= DBChunkSize
    BY <2>1, <2>4, <2>5
  <2>7. Base(first) + m = Base(dlIndex)
    BY <2>1, <2>2, <2>4, <2>5, <2>6 DEF SentWhole
  <2>8. /\ sent' \in Seq(Nat) /\ Len(sent') = m + n /\ DOMAIN sent' = 1 .. m + n
        /\ \A i \in 1 .. m : i \in DOMAIN sent /\ sent'[i] = sent[i]
        /\ \A i \in m + 1 .. m + n : i - m \in DOMAIN c.bytes /\ sent'[i] = c.bytes[i - m]
    BY <1>1, <2>1, <2>4, <2>6, SMTT(40)
  <2>9. ASSUME NEW i \in DOMAIN sent'
        PROVE  sent'[i] = Base(first) + i - 1
    <3>1. CASE i <= m
      <4>1. i \in 1 .. m
        BY <2>8, <3>1
      <4> QED
        BY <2>1, <2>8, <4>1 DEF SentWhole
    <3>2. CASE m < i
      <4>1. i \in Nat /\ i \in m + 1 .. m + n
        BY <2>8, <3>2
      <4>2. sent'[i] = Base(dlIndex) + (i - m) - 1
        BY <2>4, <2>8, <4>1
      <4> QED
        BY <2>5, <2>7, <4>1, <4>2
    <3> QED
      BY <2>8, <3>1, <3>2
  <2>10. Base(first) + Len(sent') = Base(dlIndex) + n
    <3>1. PICK a \in Nat : a = Base(first) /\ a + m = Base(dlIndex)
      BY <2>5, <2>7
    <3>2. a + (m + n) = (a + m) + n
      BY <3>1
    <3> QED
      BY <2>8, <3>1, <3>2
  <2>11. \/ Base(first) + Len(sent') = Base(dlIndex + 1) /\ Base(dlIndex + 1) <= dlSize
         \/ Base(first) + Len(sent') = dlSize /\ dlSize <= Base(dlIndex + 1)
    BY <2>2, <2>4, <2>5, <2>6, <2>10, SMTT(40)
  <2> QED
    BY <1>2, <2>9, <2>11 DEF SentWhole, Base
<1>4. c.index \in Nat
  BY DEF ChunkInv, Stored, ChunkRow, ChunksOf
<1>5. ASSUME quiet
      PROVE  first >= 0 /\ dlIndex' \in Nat
  <2>1. first \in Int /\ (first < 0 => dlIndex = first) /\ (first >= 0 => dlIndex \in Nat)
    BY <1>2, <1>5 DEF QuietInv
  <2> QED
    BY <1>1, <1>2, <1>4, <2>1
<1> QED
  BY <1>2, <1>3, <1>5 DEF QuietInv, Rows

LEMMA QuietEnd ==
  ASSUME MetaInv, ChunkInv, CompleteInv, SentInv, QuietInv, NoMoreChunks \/ QueryFails
  PROVE  QuietInv'
<1>1. UNCHANGED <<meta, vid, lossy, dlId, dlSize, first, dlIndex, sent, quiet>> /\ dl = "write"
  BY DEF NoMoreChunks, QueryFails, videoVars, tables, locals
<1>2. ASSUME quiet, first >= 0, dlId \notin lossy, dl' = "done"
      PROVE  Len(sent) >= SectionSize \/ Base(first) + Len(sent) >= dlSize
  <2>1. /\ dlId \in Rows /\ meta[dlId].size = dlSize /\ vid = None /\ first \in Nat /\ SentWhole
        /\ sent \in Seq(Nat) /\ dlIndex \in Nat
    BY <1>1, <1>2 DEF QuietInv, SentInv
  <2>2. dlSize \in Nat /\ Base(dlIndex) \in Nat /\ Base(first) \in Nat /\ Len(sent) \in Nat /\ DBChunkSize \in Nat \ {0}
    BY <2>1, BaseType, DBChunkSizeAssumption, MaxSizeAssumption, SMTT(40) DEF MetaInv, MetaTypeOK, Rows, MetaRow
  <2>3. CASE NoMoreChunks
    <3>1. Here = {}
      BY <2>3 DEF NoMoreChunks
    <3>2. SUFFICES ASSUME Base(dlIndex) < dlSize PROVE FALSE
      BY <2>1, <2>2 DEF SentWhole
    <3>3. PICK p \in Nat : p = Base(dlIndex)
      BY <2>2
    <3>4. p \div DBChunkSize = dlIndex
      <4>1. Base(dlIndex) <= p /\ p < Base(dlIndex) + DBChunkSize
        BY <2>2, <3>3
      <4> QED
        BY <2>1, <4>1, PlaceOf
    <3>5. At(p) \in Placed(dlId)
      BY <1>2, <2>1, <2>2, <3>2, <3>3, NoneAssumption DEF CompleteInv, Whole, Rows
    <3>6. PICK c \in ChunksOf(dlId) : \E i \in DOMAIN c.bytes : At(p) = <<c.index, i, c.bytes[i]>>
      BY <3>5, PlacedMember DEF Placed
    <3> QED
      BY <3>1, <3>4, <3>6 DEF At, Here
  <2>4. CASE QueryFails
    BY <1>2, <2>2, <2>4, SectionSizeAssumption DEF QueryFails
  <2> QED
    BY <2>3, <2>4
<1>3. dl' \in {"done", "failed"}
  BY DEF NoMoreChunks, QueryFails
<1> QED
  BY <1>1, <1>2, <1>3 DEF QuietInv, SentWhole, Rows

(* A statement of the recorder that puts something into the tables ends    *)
(* the quiet, and only the UPDATE and INSERT of vid_meta find out vid.     *)
LEMMA QuietRecorder ==
  ASSUME MetaInv, QuietInv, Recorder
  PROVE  QuietInv'
<1>1. UNCHANGED <<dl, dlId, dlSize, first, dlIndex, sent>> /\ Next /\ (quiet' => quiet /\ UNCHANGED tables)
  BY DEF Recorder
<1>2. ASSUME quiet', UpdateMeta
      PROVE  FALSE
  <2>1. PICK v \in Updated : TRUE
    BY <1>2 DEF UpdateMeta
  <2>2. v \in Rows /\ meta' = meta /\ blob \in Blob /\ meta[v].size \in Nat
    BY <1>1, <1>2, <2>1, NoneAssumption, MaxSizeAssumption
       DEF Updated, Rows, tables, MetaInv, MetaTypeOK, MetaRow, UpdateMeta
  <2>3. meta'[v].size = meta[v].size + blob.len
    BY <1>2, <2>1, <2>2, RowsNotUpdatedAway
  <2> QED
    BY <2>2, <2>3, BlobLength
<1>3. ASSUME quiet', InsertMeta
      PROVE  FALSE
  BY <1>1, <1>3 DEF InsertMeta, tables
<1>4. ASSUME quiet', vid = None
      PROVE  vid' = None /\ lossy' = lossy
  BY <1>1, <1>2, <1>3, <1>4
     DEF Next, HandleChunk, Receive, SelectMeta, ChunkExists, SelectBytes, AppendToChunk, FillChunk,
         InsertChunk, Reply, Fail, Forget, DeleteStream, locals, MetaInv, MetaTypeOK
<1> QED
  BY <1>1, <1>4 DEF QuietInv, SentWhole, Rows, tables

LEMMA QuietInvStep ==
  ASSUME MetaInv, ChunkInv, CompleteInv, SentInv, QuietInv, [DownloadNext]_allVars
  PROVE  QuietInv'
<1>1. CASE UNCHANGED allVars
  BY <1>1 DEF allVars, dlVars, videoVars, tables, locals, QuietInv, SentWhole, Rows
<1> QED
  BY <1>1, QuietStart, QuietWrite, QuietEnd, QuietRecorder DEF DownloadNext

(* A download answered 200 of a video without a lost byte, while the       *)
(* tables stayed as they were, is the video from the chunk where its       *)
(* section starts, without a gap, up to the end of the section or of the   *)
(* video, whichever section was asked for; that of a section before the    *)
(* video, which is not refused, is empty.                                  *)
THEOREM QuietDownloadsComplete == DownloadSpec => []QuietDownloadComplete
<1>1. DownloadInit => SentInv /\ QuietInv
  BY NoneAssumption DEF DownloadInit, Init, SentInv, QuietInv, Increasing, Rows
<1>2. MetaInv /\ ChunkInv /\ SentInv /\ [DownloadNext]_allVars => SentInv'
  BY SentInvStep
<1>3. MetaInv /\ ChunkInv /\ CompleteInv /\ SentInv /\ QuietInv /\ [DownloadNext]_allVars => QuietInv'
  BY QuietInvStep
<1>4. QuietInv => QuietDownloadComplete
  BY DEF QuietInv, SentWhole, QuietDownloadComplete, Base
<1> QED
  BY <1>1, <1>2, <1>3, <1>4, DownloadRefinesRecorder, MetaInvariant, ChunkInvariant, CompleteInvariant, PTL
     DEF DownloadSpec
=============================================================================
