---------------------------- MODULE MCKeystore ----------------------------
(***************************************************************************)
(* Two instances of the IdP over one vault.                                *)
(***************************************************************************)
EXTENDS Keystore

NoManual == {}

(* An administrator's rotation inside one instance, and one from the       *)
(* command line on the same machine.                                       *)
ByHand == {"admin", "cli"} \X {CHOOSE i \in Instances : TRUE}
==========================================================================
