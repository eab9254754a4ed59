------------------------- MODULE MCBrowserSession -------------------------
(***************************************************************************)
(* Two overlapping requests of a browser shared by an administrator and a  *)
(* user.                                                                   *)
(***************************************************************************)
EXTENDS BrowserSession, TLC

Symmetric == Permutations(Requests)
===========================================================================
