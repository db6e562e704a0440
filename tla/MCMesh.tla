------------------------------- MODULE MCMesh -------------------------------
(* Instances of Mesh with users who are alike.                             *)
EXTENDS Mesh, FiniteSets, TLC

CONSTANTS u1, u2, u3

ThreeUids == {u1, u2, u3}
Alike == Permutations(Uids)

(* Bound: three users join, or two of them also leave, close and reload.   *)
Present == {u \in Uids : open[u] \/ parting[u] # {} \/ u \in members}
MovesOfTwo == moves = 0 \/ Cardinality(Present) <= 2
=============================================================================
