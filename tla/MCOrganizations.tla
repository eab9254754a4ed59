-------------------------- MODULE MCOrganizations --------------------------
(***************************************************************************)
(* Two accounts, members with any roles as long as one is an owner.        *)
(***************************************************************************)
EXTENDS Organizations, TLC

Symmetric == Permutations(Requests) \cup Permutations(Accounts)
===========================================================================
