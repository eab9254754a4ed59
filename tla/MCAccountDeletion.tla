------------------------- MODULE MCAccountDeletion -------------------------
(***************************************************************************)
(* The owner and an administrator delete the account at the same time.     *)
(* The cascade treats what belongs to the account alike, but for the       *)
(* sessions, which the owner's request takes away first.                   *)
(***************************************************************************)
EXTENDS AccountDeletion, TLC

SomeBelongings == <<"sessions", "passkeys", "mfa">>
===========================================================================
