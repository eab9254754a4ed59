------------------------------- MODULE MCMfa -------------------------------
(***************************************************************************)
(* Two overlapping requests on the second factors of one account.          *)
(***************************************************************************)
EXTENDS Mfa, TLC

Symmetric == Permutations(Requests) \cup Permutations(Slots)
============================================================================
