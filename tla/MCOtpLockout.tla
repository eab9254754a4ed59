--------------------------- MODULE MCOtpLockout ---------------------------
(***************************************************************************)
(* Stores that OtpLockout meets: the Lucid store, which gives rows out and *)
(* finds none by token, and one that also finds them.                      *)
(***************************************************************************)
EXTENDS OtpLockout, TLC

LucidStore == {"__getRawRow", "__model"}
FindingStore == LucidStore \cup {"__findByTokenField"}

Symmetric == Permutations(Requests)
===========================================================================
