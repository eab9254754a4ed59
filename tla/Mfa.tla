-------------------------------- MODULE Mfa --------------------------------
(***************************************************************************)
(* The second factors of one account: its row of auth_mfa, which holds the *)
(* TOTP secret, the enabled flag, the recovery codes and the last accepted *)
(* step (lucid_store/mfa.ts over buildMfaStateRepo of shared.ts), and its  *)
(* passkeys (lucid_store/webauthn.ts), which share the enabled flag.       *)
(*                                                                         *)
(* Every operation reads the row, decides, and later writes the columns it *)
(* changes, with no transaction: first an UPDATE, and an INSERT when that  *)
(* touched no row.                                                         *)
(***************************************************************************)
EXTENDS Naturals, FiniteSets

CONSTANTS
  Requests,   \* HTTP requests that can be in progress at once
  Slots,      \* positions in a batch of recovery codes: 1..recoveryCodeCount
  Passkeys,   \* credentials the user may register
  MaxSecrets, \* bound on the TOTP secrets generated
  MaxBatches, \* bound on the batches of recovery codes generated
  MaxStep,    \* bound on the clock, in TOTP periods
  MaxRaces    \* no request starts after so many writes over a changed row

ASSUME SlotsAssumption == IsFiniteSet(Slots)
ASSUME BoundsAssumption ==
  {MaxSecrets, MaxBatches, MaxStep, MaxRaces} \subseteq Nat /\ MaxStep # 0

VARIABLES
  row,       \* the row of auth_mfa, Blank when there is none
  there,     \* the row exists
  passkeys,  \* the credentials registered
  now,       \* the current TOTP step
  req,       \* per request: its phase, the columns it writes, what it then
             \* answers, and (history) whether the row changed meanwhile
  secrets, batches,  \* how many were generated so far
  watched,   \* history: any one code,
  accepted,  \* and how often it was accepted at the login
  handed,    \* history: the batch the user was last given, 0 for none
  vouched,   \* history: secrets of which a code was confirmed, or that were
             \* pending when a passkey enabled the row
  orphaned,  \* history: the last passkey was removed, and none added since
  races      \* history: writes over a row that had changed since it was read

vars == <<row, there, passkeys, now, req, secrets, batches, watched, accepted, handed,
          vouched, orphaned, races>>
ghosts == <<watched, accepted, handed, vouched, orphaned, races>>

Totp == (1..MaxSecrets) \X (1..MaxStep)
Recovery == (1..MaxBatches) \X Slots
Codes == ({"totp"} \X Totp) \cup ({"recovery"} \X Recovery)

(* A TOTP code is named by its secret and step; 0 stands for null.         *)
Rows == [secret : 0..MaxSecrets, on : BOOLEAN, codes : SUBSET Recovery, last : 0..MaxStep]
Blank == [secret |-> 0, on |-> FALSE, codes |-> {}, last |-> 0]
Batch(b) == {b} \X Slots

NoPatch == [c \in {} |-> 0]
Nothing == <<"none">>
Resting == [phase |-> "idle", patch |-> NoPatch, answer |-> Nothing,
             stale |-> FALSE]

Init ==
  /\ row = Blank /\ there = FALSE /\ passkeys = {}
  /\ now = 1
  /\ req = [r \in Requests |-> Resting]
  /\ secrets = 0 /\ batches = 0
  /\ watched \in Codes /\ accepted = 0
  /\ handed = 0 /\ vouched = {} /\ orphaned = FALSE /\ races = 0

Free(r) == req[r].phase = "idle" /\ races < MaxRaces

(* Request r read the row and is about to write patch over it, and answer; *)
(* what the others read of the row is stale once it changes.               *)
Save(r, patch, answer) ==
  req' = [req EXCEPT ![r] =
            [phase |-> "updating", patch |-> patch, answer |-> answer, stale |-> FALSE]]

Outdated == [q \in Requests |-> [req[q] EXCEPT !.stale = @ \/ row' # row]]

---------------------------------------------------------------------------
(* Enrollment.  A new secret replaces all there was; it is meant to be     *)
(* pending until a code of it is confirmed.                                *)
startKeepingEnabled(r) ==   \* mutant: the new secret is active before it is confirmed
  /\ Free(r) /\ secrets < MaxSecrets
  /\ secrets' = secrets + 1
  /\ Save(r, [secret |-> secrets + 1, last |-> 0, codes |-> {}], <<"enrolled">>)
  /\ UNCHANGED <<row, there, passkeys, now, batches, ghosts>>

startTotpEnrollment(r) ==
  /\ Free(r) /\ secrets < MaxSecrets
  /\ secrets' = secrets + 1
  /\ Save(r, [Blank EXCEPT !.secret = secrets + 1], <<"enrolled">>)
  /\ UNCHANGED <<row, there, passkeys, now, batches, ghosts>>

confirmKeepingCodes(r) ==   \* mutant: the codes of an earlier enrollment stay valid
  /\ Free(r) /\ batches < MaxBatches
  /\ row.secret # 0
  /\ batches' = batches + 1
  /\ Save(r, [on |-> TRUE, codes |-> row.codes \cup Batch(batches + 1)],
             <<"confirmed", batches + 1, row.secret>>)
  /\ UNCHANGED <<row, there, passkeys, now, secrets, ghosts>>

confirmTotpEnrollment(r) ==
  /\ Free(r) /\ batches < MaxBatches
  /\ row.secret # 0
  /\ batches' = batches + 1
  /\ Save(r, [on |-> TRUE, codes |-> Batch(batches + 1)], <<"confirmed", batches + 1, row.secret>>)
  /\ UNCHANGED <<row, there, passkeys, now, secrets, ghosts>>

(* The console clears the row in one DELETE; passkeys stay.                *)
clearSecretOnly ==   \* mutant: the flag survives
  /\ row' = [row EXCEPT !.secret = 0, !.codes = {}, !.last = 0]
  /\ handed' = 0
  /\ req' = Outdated
  /\ UNCHANGED <<there, passkeys, now, secrets, batches, watched, accepted, vouched,
                 orphaned, races>>

disableMfa ==
  /\ row' = Blank /\ there' = FALSE
  /\ handed' = 0
  /\ req' = Outdated
  /\ UNCHANGED <<passkeys, now, secrets, batches, watched, accepted, vouched, orphaned, races>>

---------------------------------------------------------------------------
(* The login challenge.  The code typed is one of the current step.        *)
verifyTotpReplayed(r) ==   \* mutant: the last step is not looked at
  /\ Free(r)
  /\ row.on /\ row.secret # 0
  /\ Save(r, [last |-> now], <<"totp", <<row.secret, now>>>>)
  /\ UNCHANGED <<row, there, passkeys, now, secrets, batches, ghosts>>

verifyTotp(r) ==
  /\ Free(r)
  /\ row.on /\ row.secret # 0
  /\ now > row.last
  /\ Save(r, [last |-> now], <<"totp", <<row.secret, now>>>>)
  /\ UNCHANGED <<row, there, passkeys, now, secrets, batches, ghosts>>

consumeRecoveryCode(r) ==
  /\ Free(r)
  /\ row.on
  /\ \E code \in row.codes : Save(r, [codes |-> row.codes \ {code}], <<"recovery", code>>)
  /\ UNCHANGED <<row, there, passkeys, now, secrets, batches, ghosts>>

(* A call that is turned down changes nothing.                             *)
refuse(r) ==
  /\ req[r].phase = "idle"
  /\ UNCHANGED vars

---------------------------------------------------------------------------
(* A passkey is stored first; then the row is read, and enabled if it was  *)
(* not.                                                                    *)
createPasskey(r) ==
  /\ Free(r)
  /\ \E p \in Passkeys \ passkeys : passkeys' = passkeys \cup {p}
  /\ req' = [req EXCEPT ![r].phase = "registering"]
  /\ orphaned' = FALSE
  /\ UNCHANGED <<row, there, now, secrets, batches, watched, accepted, handed, vouched, races>>

enableMfa(r) ==
  /\ req[r].phase = "registering"
  /\ IF row.on THEN req' = [req EXCEPT ![r] = Resting]
               ELSE Save(r, [on |-> TRUE], <<"registered">>)
  /\ UNCHANGED <<row, there, passkeys, now, secrets, batches, ghosts>>

removePasskey ==
  /\ \E p \in passkeys : passkeys' = passkeys \ {p}
  /\ orphaned' = (passkeys' = {})
  /\ UNCHANGED <<row, there, now, req, secrets, batches, watched, accepted, handed, vouched,
                 races>>

---------------------------------------------------------------------------
(* upsert: the columns of the patch replace those of the row.              *)
Patched(old, patch) ==
  [c \in DOMAIN old |-> IF c \in DOMAIN patch THEN patch[c] ELSE old[c]]

Answer(r) ==
  LET answer == req[r].answer IN
  /\ accepted' = IF answer = watched THEN accepted + 1 ELSE accepted
  /\ handed' = CASE answer[1] = "confirmed" -> answer[2]
                 [] answer[1] = "enrolled" -> 0
                 [] OTHER -> handed
  /\ vouched' = CASE answer[1] = "confirmed" -> vouched \cup {answer[3]}
                  [] answer[1] = "registered" -> vouched \cup {row.secret}
                  [] OTHER -> vouched
  /\ races' = IF answer[1] # "enrolled" /\ req[r].stale THEN races + 1 ELSE races
  /\ req' = [Outdated EXCEPT ![r] = Resting]
  /\ UNCHANGED <<watched, orphaned>>

Write(r) ==
  /\ row' = Patched(row, req[r].patch)
  /\ there' = TRUE
  /\ Answer(r)

update(r) ==
  /\ req[r].phase = "updating"
  /\ IF there THEN Write(r)
              ELSE /\ req' = [req EXCEPT ![r].phase = "inserting"]
                   /\ UNCHANGED <<row, there, ghosts>>
  /\ UNCHANGED <<passkeys, now, secrets, batches>>

(* account_id is the primary key: an INSERT beside another one throws.     *)
insert(r) ==
  /\ req[r].phase = "inserting"
  /\ IF there THEN req' = [req EXCEPT ![r] = Resting] /\ UNCHANGED <<row, there, ghosts>>
              ELSE Write(r)
  /\ UNCHANGED <<passkeys, now, secrets, batches>>

(* The database throws before it writes, or the process dies.              *)
fail(r) ==
  /\ req[r].phase # "idle"
  /\ req' = [req EXCEPT ![r] = Resting]
  /\ UNCHANGED <<row, there, passkeys, now, secrets, batches, ghosts>>

Tick ==
  /\ now < MaxStep
  /\ now' = now + 1
  /\ UNCHANGED <<row, there, passkeys, req, secrets, batches, ghosts>>

Next ==
  \/ \E r \in Requests :
       \/ startTotpEnrollment(r) \/ confirmTotpEnrollment(r)
       \/ verifyTotp(r) \/ consumeRecoveryCode(r) \/ refuse(r)
       \/ createPasskey(r) \/ enableMfa(r)
       \/ update(r) \/ insert(r) \/ fail(r)
  \/ disableMfa \/ removePasskey
  \/ Tick

Spec == Init /\ [][Next]_vars

---------------------------------------------------------------------------
(* Types of the row, the requests and the generators.                      *)
TypeOK ==
  /\ row \in Rows /\ there \in BOOLEAN
  /\ passkeys \subseteq Passkeys /\ now \in 1..MaxStep
  /\ \A r \in Requests :
       /\ req[r].phase \in {"idle", "registering", "updating", "inserting"}
       /\ req[r].stale \in BOOLEAN
       /\ Patched(Blank, req[r].patch) \in Rows
  /\ secrets \in 0..MaxSecrets /\ batches \in 0..MaxBatches
  /\ watched \in Codes /\ accepted \in Nat
  /\ ~there => row = Blank

(* A TOTP or recovery code is accepted again only for a write over a row   *)
(* that had changed since it was read: each such write gives away at most  *)
(* one acceptance more of a code.                                          *)
ReusesAreRaces == accepted <= 1 + races

(* Without such writes the recovery codes of an enabled row are those the  *)
(* user was last given, less those spent: so it is for the watched code,   *)
(* which is any.                                                           *)
RecoveryCodesAreExact ==
  row.on /\ races = 0 =>
    /\ row.codes \subseteq Batch(handed)
    /\ \A c \in Batch(handed) : watched = <<"recovery", c>> => (c \in row.codes <=> accepted = 0)

(* Without such writes the secret that an enabled row accepts codes of was *)
(* confirmed, or was pending when a passkey enabled the row.               *)
ActiveSecretIsProven ==
  row.on /\ races = 0 => row.secret \in {0} \cup vouched

(* Without such writes an enabled row comes with a factor to be challenged *)
(* for, unless the last passkey was removed under it.                      *)
FactorUnlessOrphaned ==
  row.on /\ races = 0 /\ ~orphaned => row.secret # 0 \/ passkeys # {}
============================================================================
