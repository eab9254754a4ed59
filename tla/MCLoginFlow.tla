---------------------------- MODULE MCLoginFlow ----------------------------
(***************************************************************************)
(* One browser, two accounts.                                              *)
(***************************************************************************)
EXTENDS LoginFlow, TLC

Symmetric == Permutations(Accounts)
===========================================================================
