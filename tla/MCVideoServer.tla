---------------------------- MODULE MCVideoServer ----------------------------
(* Instance of VideoServer: one recording of one name.                     *)
EXTENDS VideoServer

CONSTANTS v1, s1

(* The name is in lower case already.                                      *)
MCLower == [n \in Names |-> n]
=============================================================================
