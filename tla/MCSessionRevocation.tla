------------------------ MODULE MCSessionRevocation ------------------------
(***************************************************************************)
(* Two logins and one revokeAll, two ticks to the second.                  *)
(***************************************************************************)
EXTENDS SessionRevocation, TLC

Symmetric == Permutations(Logins)
===========================================================================
