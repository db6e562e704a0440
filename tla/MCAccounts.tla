------------------------------ MODULE MCAccounts ------------------------------
(* Instance of Accounts: one browser with two requests in flight, names    *)
(* that differ in case and in surrounding space.                           *)
EXTENDS Accounts, TLC

CONSTANTS b1, r1, r2, d1, d2, e1, e2, e3

MCLower == [n \in Names |-> IF n = "A" THEN "a" ELSE n]
MCTrim == [n \in Names |-> IF n = " a" THEN "a" ELSE n]

AllKinds == {"register", "initial", "login", "refresh"}

Alike == Permutations(Reqs) \cup Permutations(Ids) \cup Permutations(Sids)
=============================================================================
