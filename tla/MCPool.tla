-------------------------------- MODULE MCPool --------------------------------
(* Instance of Pool: three requests, two connections.                      *)
EXTENDS Pool

CONSTANTS r1, r2, r3
=============================================================================
