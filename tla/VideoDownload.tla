---------------------------- MODULE VideoDownload ----------------------------
(***************************************************************************)
(* A download of a recording (handlers/video.go DownloadStreamVideo),      *)
(* while the recorder of VideoServer goes on and streams are deleted.  The *)
(* handler reads the meta row, then one chunk row after another until a    *)
(* row is missing.  One download is followed.                              *)
(***************************************************************************)
EXTENDS VideoServer

CONSTANTS SectionSize,  \* 256 MB in the code
          Sections      \* the values of the query parameter i, which may be negative

ASSUME SectionSizeAssumption == SectionSize \in Nat \ {0}
ASSUME SectionsAssumption == Sections \subseteq Int

VARIABLES
  dl,       \* "idle", "write" in the loop, "done" answered 200, "failed"
  dlId,     \* id of the video, or None
  dlSize,   \* size, as read at the start
  first,    \* history: the index the loop started with
  dlIndex,  \* index
  sent,     \* the bytes written to the response
  quiet     \* history: the tables have not changed since the meta row was read

dlVars == <<dl, dlId, dlSize, first, dlIndex, sent, quiet>>
allVars == <<videoVars, dlVars>>

DownloadInit ==
  /\ Init
  /\ dl = "idle" /\ dlId = None /\ dlSize = 0
  /\ first = 0 /\ dlIndex = 0 /\ sent = <<>> /\ quiet = TRUE

(* The index the loop starts with: a division of int truncates.  i is any  *)
(* number Atoi takes; a product beyond 64 bits wraps to a smaller one.     *)
FirstIndex(i) ==
  LET n == i * SectionSize
  IN  IF n >= 0 THEN n \div DBChunkSize ELSE -((-n) \div DBChunkSize)

(* The meta row is looked up by name alone: with several, any.  A section  *)
(* is refused if it is too large, but not if it is negative.               *)
Start(name, i) ==
  /\ dl = "idle"
  /\ \E v \in Rows :
       /\ meta[v].name = name
       /\ i * SectionSize <= meta[v].size
       /\ dlId' = v
       /\ dlSize' = meta[v].size
  /\ first' = FirstIndex(i)
  /\ dlIndex' = FirstIndex(i)
  /\ dl' = "write"
  /\ quiet' = (pc = "idle")
  /\ UNCHANGED <<videoVars, sent>>

Here == {c \in ChunksOf(dlId) : c.index = dlIndex}

(* Mutant: the index is not counted up.                                    *)
WriteChunkAgain ==
  /\ dl = "write"
  /\ Len(sent) <= MaxSize
  /\ \E c \in Here : sent' = sent \o c.bytes
  /\ UNCHANGED <<videoVars, dl, dlId, dlSize, first, dlIndex, quiet>>

WriteChunk ==
  /\ dl = "write"
  /\ \E c \in Here : sent' = sent \o c.bytes
  /\ dlIndex' = dlIndex + 1
  /\ UNCHANGED <<videoVars, dl, dlId, dlSize, first, quiet>>

NoMoreChunks ==
  /\ dl = "write"
  /\ Here = {}
  /\ dl' = "done"
  /\ UNCHANGED <<videoVars, dlId, dlSize, first, dlIndex, sent, quiet>>

(* Mutant: an error ends the response like the last row.                   *)
QueryFailsQuietly ==
  /\ dl = "write"
  /\ dl' = "done"
  /\ UNCHANGED <<videoVars, dlId, dlSize, first, dlIndex, sent, quiet>>

(* A query fails, or the 8 seconds are over: no error any more if enough   *)
(* has been written.                                                       *)
QueryFails ==
  /\ dl = "write"
  /\ dl' = IF Len(sent) >= dlSize \/ Len(sent) >= SectionSize THEN "done" ELSE "failed"
  /\ UNCHANGED <<videoVars, dlId, dlSize, first, dlIndex, sent, quiet>>

Recorder ==
  /\ Next
  /\ quiet' = (quiet /\ UNCHANGED tables)
  /\ UNCHANGED <<dl, dlId, dlSize, first, dlIndex, sent>>

DownloadNext ==
  \/ Recorder
  \/ \E name \in Names, i \in Sections : Start(name, i)
  \/ WriteChunk \/ NoMoreChunks \/ QueryFails

DownloadSpec == DownloadInit /\ [][DownloadNext]_allVars

-----------------------------------------------------------------------------
(* The bytes of a response come in the order they were recorded and none   *)
(* comes twice, although the recorder may lengthen and add rows and        *)
(* another user may delete the stream between two queries.                 *)
DownloadInOrder == \A i, j \in DOMAIN sent : i < j => sent[i] < sent[j]

(* A download answered 200 while nothing was recorded or deleted, of a     *)
(* video that is stored completely, starts at the first byte of the chunk  *)
(* its section starts in, has no gap, and ends no earlier than the section *)
(* or the video.  Only a section before the first chunk is empty: it is    *)
(* not refused (handlers/video.go:61), its first query finds no row, and   *)
(* that is taken for the end (:93).                                        *)
QuietDownloadComplete ==
  dl = "done" /\ quiet /\ dlId \notin lossy =>
    IF first < 0 THEN sent = <<>>
    ELSE /\ \A i \in DOMAIN sent : sent[i] = first * DBChunkSize + i - 1
         /\ Len(sent) >= SectionSize \/ first * DBChunkSize + Len(sent) >= dlSize

(* "doesn't download the entire video stream for >2g, downloads a video    *)
(* stream 256mb section" (handlers/video.go:23): a response is no longer   *)
(* than a section, rounded up to whole chunks.                             *)
SectionBound == Len(sent) < SectionSize + DBChunkSize
=============================================================================
