--------------------------- MODULE MCLoginSlot ---------------------------
(***************************************************************************)
(* A small instance of LoginSlot: three requests in flight, two            *)
(* interactions, two codes, two issues, and deadlines that fall inside     *)
(* the clock's range.                                                      *)
(***************************************************************************)
EXTENDS LoginSlot, TLC

Symmetric == Permutations(Requests) \cup Permutations(Uids) \cup Permutations(Codes)
==========================================================================
