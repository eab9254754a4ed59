---------------------------- MODULE OtpLockout ----------------------------
(***************************************************************************)
(* The second step of the login of one account under guessing: the failure *)
(* counter and the lock that host/otp_lockout.ts keeps in the limiter, the *)
(* challenge that consults them (mfaVerify of interaction_controller.ts),  *)
(* and the unlock link that a lock sends by e-mail, whose hash takes the   *)
(* passwordResetToken column (sendOtpUnlockEmailIfAble and otpUnlock).     *)
(*                                                                         *)
(* Each call of the limiter, of the account store and of the mailer is a   *)
(* step.  Their errors are swallowed, and the code goes on as if the       *)
(* factor were not locked.  Whether an answer is right is the business of  *)
(* the TOTP and recovery codes, and free here.                             *)
(***************************************************************************)
EXTENDS Naturals, FiniteSets

CONSTANTS
  Requests,     \* HTTP requests that can be in progress at once
  MaxAttempts,  \* otp_lockout.maxAttempts
  StoreExposes, \* the members outside its contract that the account store has
  MaxLinks,     \* no challenge starts once so many unlock links were issued
  MaxErrors,    \* bound on the errors of limiter, audit, store and mailer
  MaxGuesses    \* bound on the wrong answers counted in the history

ASSUME MaxAttemptsAssumption == MaxAttempts \in Nat \ {0}
ASSUME BoundsAssumption == {MaxLinks, MaxErrors, MaxGuesses} \subseteq Nat
ASSUME RequestsAssumption == IsFiniteSet(Requests)

VARIABLES
  fails,     \* the counter authkit_otp_fail of the account
  locked,    \* the block authkit_otp_lock of the account
  slot,      \* the unlock link whose hash the row holds, 0 for none
  live,      \* passwordResetExpiresAt is to come
  req,       \* where each request is, and the link it saves, sends or follows
  links,     \* number of links issued
  mailed,    \* the links that reached the user
  errors,    \* number of errors so far
  guesses,   \* history: wrong answers since the counter or the lock was last
             \* reset by a right answer, a followed link or their TTL
  fate,      \* history: the link last issued is "open", was "used" to the end
             \* or was "taken" from the row by another flow or a late click
  lifted     \* history: the links that have lifted a lock, but for those of which
             \* two clicks overlapped, or which an error then left in the row

vars == <<fails, locked, slot, live, req, links, mailed, errors, guesses, fate, lifted>>
limiter == <<fails, locked>>
row == <<slot, live, fate>>
mail == <<links, mailed>>

Phases == {"idle", "challenged", "right", "wrong", "counting", "locking", "forgetting",
           "mailing", "posting", "following", "unlocking", "discarding"}
At(r, phase) == req[r].phase = phase
Go(r, phase) == req' = [req EXCEPT ![r].phase = phase]
GoWith(r, phase, link) == req' = [req EXCEPT ![r] = [phase |-> phase, link |-> link]]

(* Requests that started before the bound may each issue one link more.    *)
Links == 1..(MaxLinks + Cardinality(Requests))

Quiet == \A r \in Requests : At(r, "idle")

Init ==
  /\ fails = 0 /\ locked = FALSE
  /\ slot = 0 /\ live = FALSE
  /\ req = [r \in Requests |-> [phase |-> "idle", link |-> 0]]
  /\ links = 0 /\ mailed = {}
  /\ errors = 0 /\ guesses = 0
  /\ fate = "open"
  /\ lifted = {}

(* A call of the limiter, the audit, the store or the mailer throws.       *)
Throws == errors < MaxErrors /\ errors' = errors + 1

(* The bounds on the challenges that start.                                *)
MayStart == guesses < MaxGuesses /\ links < MaxLinks

---------------------------------------------------------------------------
(* mfaVerify: a locked factor is refused before the answer is looked at.   *)
neverLocked(r) ==   \* mutant: the challenge does not ask for the lock
  /\ At(r, "idle")
  /\ MayStart
  /\ Go(r, "challenged")
  /\ UNCHANGED <<errors, limiter, row, mail, guesses, lifted>>

isLocked(r) ==
  /\ At(r, "idle")
  /\ MayStart
  /\ (~locked /\ UNCHANGED errors) \/ Throws
  /\ Go(r, "challenged")
  /\ UNCHANGED <<limiter, row, mail, guesses, lifted>>

answer(r) ==
  /\ At(r, "challenged")
  /\ \/ Go(r, "right") /\ UNCHANGED guesses
     \/ Go(r, "wrong") /\ guesses' = guesses + 1
  /\ UNCHANGED <<limiter, row, mail, errors, lifted>>

(* A right answer resets the counter and leaves the lock alone.            *)
clearFailures(r) ==
  /\ At(r, "right")
  /\ \/ fails' = 0 /\ guesses' = 0 /\ UNCHANGED errors
     \/ Throws /\ UNCHANGED <<fails, guesses>>
  /\ Go(r, "idle")
  /\ UNCHANGED <<locked, row, mail, lifted>>

---------------------------------------------------------------------------
(* recordFailure: ask for the lock, count, lock at the threshold, forget   *)
(* the count.  An error ends it with "not locked".                         *)
recordFailure(r) ==
  /\ At(r, "wrong")
  /\ Go(r, IF locked THEN "mailing" ELSE "counting")
  /\ UNCHANGED <<limiter, row, mail, errors, guesses, lifted>>

increment(r) ==
  /\ At(r, "counting")
  /\ fails' = fails + 1
  /\ Go(r, IF fails + 1 < MaxAttempts THEN "idle" ELSE "locking")
  /\ UNCHANGED <<locked, row, mail, errors, guesses, lifted>>

block(r) ==
  /\ At(r, "locking")
  /\ locked' = TRUE
  /\ Go(r, "forgetting")
  /\ UNCHANGED <<fails, row, mail, errors, guesses, lifted>>

forgetSilently(r) ==   \* mutant: the request that locks sends no mail
  /\ At(r, "forgetting")
  /\ fails' = 0
  /\ Go(r, "idle")
  /\ UNCHANGED <<locked, row, mail, errors, guesses, lifted>>

(* Once the count is forgotten the audit may still throw: no mail then.    *)
forget(r) ==
  /\ At(r, "forgetting")
  /\ fails' = 0
  /\ \/ Go(r, "mailing") /\ UNCHANGED errors
     \/ Go(r, "idle") /\ Throws
  /\ UNCHANGED <<locked, row, mail, guesses, lifted>>

failUncounted(r) ==
  /\ req[r].phase \in {"wrong", "counting", "locking", "forgetting"}
  /\ Throws
  /\ Go(r, "idle")
  /\ UNCHANGED <<limiter, row, mail, guesses, lifted>>

---------------------------------------------------------------------------
(* The mail with the unlock link: the row takes its hash, if the store     *)
(* gives the row out, and the mail is sent in any case.                    *)
saveToken(r) ==
  /\ At(r, "mailing")
  /\ links' = links + 1
  /\ IF "__getRawRow" \in StoreExposes
       THEN slot' = links + 1 /\ live' = TRUE
       ELSE UNCHANGED <<slot, live>>
  /\ fate' = "open"
  /\ GoWith(r, "posting", links + 1)
  /\ UNCHANGED <<limiter, mailed, errors, guesses, lifted>>

tokenUnsaved(r) ==   \* the store throws: no link, no mail
  /\ At(r, "mailing")
  /\ Throws
  /\ Go(r, "idle")
  /\ UNCHANGED <<limiter, row, mail, guesses, lifted>>

onOtpUnlock(r) ==
  /\ At(r, "posting")
  /\ \/ mailed' = mailed \cup {req[r].link} /\ UNCHANGED errors
     \/ Throws /\ UNCHANGED mailed
  /\ GoWith(r, "idle", 0)
  /\ UNCHANGED <<limiter, row, links, guesses, lifted>>

(* The link is followed: the row is looked up by the hash, through a       *)
(* member that the store may not have, and its deadline is checked.        *)
CanFind == StoreExposes \cap {"__findByTokenField", "__Model"} # {}
Finds(link) == CanFind /\ slot = link /\ live

(* A click on the link is under way, with the row it found.                *)
Clicking == {"following", "unlocking", "discarding"}
Held(r, link) == req[r].phase \in Clicking /\ req[r].link = link

otpUnlock(r, link) ==
  /\ At(r, "idle")
  /\ link \in mailed
  /\ IF Finds(link)
       THEN /\ GoWith(r, "following", link)
            /\ lifted' = IF \E q \in Requests : Held(q, link) THEN lifted \ {link} ELSE lifted
       ELSE UNCHANGED <<req, lifted>>
  /\ UNCHANGED <<limiter, row, mail, errors, guesses>>

(* unlock: the counter and then the lock; an error skips what is left.     *)
unlock(r) ==
  /\ \/ /\ At(r, "following")
        /\ fails' = 0 /\ guesses' = 0
        /\ Go(r, "unlocking") /\ UNCHANGED <<locked, errors, lifted>>
     \/ /\ At(r, "unlocking")
        /\ locked' = FALSE /\ guesses' = IF locked THEN 0 ELSE guesses
        /\ lifted' = IF locked /\ \A q \in Requests \ {r} : ~Held(q, req[r].link)
                        THEN lifted \cup {req[r].link} ELSE lifted
        /\ Go(r, "discarding") /\ UNCHANGED <<fails, errors>>
     \/ /\ req[r].phase \in {"following", "unlocking"}
        /\ Throws
        /\ Go(r, "discarding") /\ UNCHANGED <<fails, locked, guesses, lifted>>
  /\ UNCHANGED <<row, mail>>

(* The row is saved without a token, whatever token it holds by now.       *)
discardNothing(r) ==   \* mutant: a followed link stays in the row
  /\ At(r, "discarding")
  /\ fate' = "used"
  /\ GoWith(r, "idle", 0)
  /\ UNCHANGED <<limiter, slot, live, mail, errors, guesses, lifted>>

discard(r) ==
  /\ At(r, "discarding")
  /\ slot' = 0 /\ live' = FALSE
  /\ fate' = CASE slot = 0 -> fate
               [] slot # 0 /\ slot = req[r].link -> "used"
               [] OTHER -> "taken"
  /\ GoWith(r, "idle", 0)
  /\ UNCHANGED <<limiter, mail, errors, guesses, lifted>>

discardFails(r) ==   \* the store throws: the row keeps its token
  /\ At(r, "discarding")
  /\ Throws
  /\ lifted' = lifted \ {req[r].link}
  /\ GoWith(r, "idle", 0)
  /\ UNCHANGED <<limiter, row, mail, guesses>>

---------------------------------------------------------------------------
(* A password reset or a magic link takes the columns (see LoginSlot).     *)
otherToken ==
  /\ slot # 0
  /\ slot' = 0 /\ live' = FALSE
  /\ fate' = "taken"
  /\ UNCHANGED <<limiter, req, mail, errors, guesses, lifted>>

(* The TTLs, hours long, end while no request is under way.                *)
lockExpires ==
  /\ Quiet /\ locked
  /\ locked' = FALSE /\ guesses' = 0
  /\ UNCHANGED <<fails, row, req, mail, errors, lifted>>

countExpires ==
  /\ Quiet /\ fails > 0
  /\ fails' = 0 /\ guesses' = 0
  /\ UNCHANGED <<locked, row, req, mail, errors, lifted>>

linkExpires ==
  /\ Quiet /\ live
  /\ live' = FALSE
  /\ UNCHANGED <<limiter, slot, fate, req, mail, errors, guesses, lifted>>

mfaVerify(r) ==
  \/ isLocked(r) \/ answer(r) \/ clearFailures(r)
  \/ recordFailure(r) \/ increment(r) \/ block(r) \/ forget(r) \/ failUncounted(r)
  \/ saveToken(r) \/ tokenUnsaved(r) \/ onOtpUnlock(r)

followLink(r) ==
  unlock(r) \/ discard(r) \/ discardFails(r) \/ \E link \in Links : otpUnlock(r, link)

Next ==
  \/ \E r \in Requests : mfaVerify(r) \/ followLink(r)
  \/ otherToken \/ lockExpires \/ countExpires \/ linkExpires

Spec == Init /\ [][Next]_vars

---------------------------------------------------------------------------
(* Types; the counter passes the threshold only by the requests and errors *)
(* that were under way when it was reached.                                *)
TypeOK ==
  /\ fails \in 0..(MaxAttempts + Cardinality(Requests) + MaxErrors - 1) /\ locked \in BOOLEAN
  /\ slot \in Links \cup {0} /\ live \in BOOLEAN
  /\ req \in [Requests -> [phase : Phases, link : Links \cup {0}]]
  /\ links \in Links \cup {0} /\ mailed \subseteq Links
  /\ errors \in 0..MaxErrors /\ guesses \in Nat
  /\ fate \in {"open", "used", "taken"}
  /\ lifted \subseteq Links

(* However requests interleave, the wrong answers between two resets are   *)
(* bounded: each request may have one under way when the lock falls, and   *)
(* each may forget a count it did not make, after a link lifted its lock.  *)
(* Each error of the limiter gives away one more.                          *)
GuessesBounded == guesses <= MaxAttempts * Cardinality(Requests) + errors

(* With no errors, a locked account was mailed the link last issued, and a *)
(* click on it finds its row until its deadline, unless another flow, or a *)
(* late click on an older link, took it from there.                        *)
LockIsAnnounced ==
  locked /\ Quiet /\ errors = 0 =>
    links \in mailed /\ (fate = "taken" \/ (slot = links /\ (live => Finds(links))))

(* Only its TTL and a link lift the lock: a right answer that was under    *)
(* way when the lock fell does not.  A link that has lifted a lock lifts   *)
(* another only if two clicks on it overlapped, or an error left it in the *)
(* row.  When a click begins, its link is the last that was issued, and no *)
(* other click has taken it from the row.                                  *)
Lifts(r) == At(r, "unlocking") /\ unlock(r) /\ req[r].link \notin lifted

OnlyLinksUnlock ==
  [][/\ locked /\ ~locked' => Quiet \/ \E r \in Requests : Lifts(r)
     /\ \A r \in Requests :
          At(r, "idle") /\ req'[r].phase = "following" => req'[r].link = links /\ fate = "open"]_vars
===========================================================================
