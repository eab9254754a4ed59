--------------------------- MODULE MCAccountLockout ---------------------------
(***************************************************************************)
(* AccountLockout for TLC: the requests are alike.                         *)
(***************************************************************************)
EXTENDS AccountLockout, TLC

Symmetric == Permutations(Requests)
===============================================================================
