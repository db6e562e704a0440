--------------------------- MODULE MCVideoDownload ---------------------------
(* Instance of VideoDownload: names that differ only in case, sections of  *)
(* two chunks, and a bound on how much of both happens in one behaviour.   *)
EXTENDS VideoDownload

CONSTANTS v1, v2, s1, s2

(* "A" and "a" are one name to LOWER.                                      *)
MCLower == [n \in Names |-> "a"]

(* One before the video, which the code does not refuse.                   *)
MCSections == {-1, 0, 1}

(* Bound: one recording, of any length, which is downloaded meanwhile      *)
(* (the recorder touches nothing of a download that has ended) ...         *)
OneRecording ==
  /\ used \subseteq {v1}
  /\ dl \in {"idle", "write"}
  /\ blob # None => blob.name = "a" /\ blob.uid = s1

(* ... or several streamers have several short ones, of blobs of one byte. *)
ShortRecordings ==
  /\ dl = "idle"
  /\ blob # None => blob.len = 1
  /\ \A v \in Rows : meta[v].size <= 3

LongOrMany == OneRecording \/ ShortRecordings
=============================================================================
