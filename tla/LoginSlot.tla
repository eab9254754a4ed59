---------------------------- MODULE LoginSlot ----------------------------
(***************************************************************************)
(* The pair of columns (passwordResetToken, passwordResetExpiresAt) of one *)
(* account row, shared by four flows: password reset, magic link, magic    *)
(* link with a typed login code (accounts/lucid_store/core.ts, the "ml2:"  *)
(* slot of host/otp_login.ts), and the "ou:" token that a locked second    *)
(* factor sends by e-mail (host/controllers/interaction_controller.ts).    *)
(*                                                                         *)
(* Requests run concurrently.  Consuming a link or a reset token is an     *)
(* unlocked SELECT followed, after other awaits, by an UPDATE of the row.  *)
(* Verifying a code is one transaction that holds the row lock from the    *)
(* SELECT ... FOR UPDATE to the commit; while it is held the UPDATE of any *)
(* other request waits.  Each token issued is a fresh random value, named  *)
(* here by its issue number.                                               *)
(***************************************************************************)
EXTENDS Integers, FiniteSets

CONSTANTS
  Requests,     \* HTTP requests that can be in progress at once
  Uids,         \* uids of the login interactions open for the e-mail
  Codes,        \* the typable codes
  MaxAttempts,  \* login.otp.maxAttempts
  CodeTtl,      \* login.otp.ttlMinutes, lifetime of a code
  LinkTtl,      \* 15 minutes, lifetime of a magic link
  ResetTtl,     \* 1 hour, lifetime of a password reset token
  UnlockTtl,    \* otp_lockout.unlockTtlHours, lifetime of an unlock token
  MaxIssues,    \* bound on the tokens issued
  MaxTime,      \* bound on the clock
  Nobody        \* the row lock is free

ASSUME MaxAttemptsAssumption == MaxAttempts \in Nat \ {0}
ASSUME TtlAssumption == {CodeTtl, LinkTtl, ResetTtl, UnlockTtl} \subseteq Nat
ASSUME BoundsAssumption == MaxIssues \in Nat /\ MaxTime \in Nat
ASSUME NobodyAssumption == Nobody \notin Requests

VARIABLES
  token,      \* passwordResetToken, decoded
  expiresAt,  \* passwordResetExpiresAt
  rowLock,    \* the request whose transaction locked the row, or Nobody
  req,        \* what each request has read and still holds
  now,        \* the clock
  issued,     \* number of tokens issued so far
  compared,   \* history: answered comparisons against the code of each issue
  redeemed,   \* history: times the link or reset token of an issue was accepted
  codeOk      \* history: times the code of an issue was accepted

vars == <<token, expiresAt, rowLock, req, now, issued, compared, redeemed, codeOk>>
row == <<token, expiresAt>>
history == <<compared, redeemed, codeOk>>

Issues == 1..MaxIssues
LinkKinds == {"ml", "ml2"}
TokenKinds == {"reset", "unlock"} \cup LinkKinds

(***************************************************************************)
(* The stored value.  "ml2" carries, besides the hash of the link, the     *)
(* hash of <<uid, code>> (Voided once lockout emptied it), the deadline of *)
(* the code and the attempts counter.  Other kinds leave those fields at   *)
(* their neutral value.                                                    *)
(***************************************************************************)
Null == -1
Voided == <<>>
CodeHashes == (Uids \X Codes) \cup {Voided}
hashLoginOtp(uid, code) == <<uid, code>>

Stored(kind, id, hash, exp) ==
  [kind |-> kind, id |-> id, codeHash |-> hash, codeExp |-> exp, attempts |-> 0]
NoToken == Stored("none", 0, Voided, Null)

Tokens == [kind : TokenKinds \cup {"none"}, id : 0..MaxIssues, codeHash : CodeHashes,
           codeExp : Int, attempts : 0..MaxAttempts]

(* What a request holds across its awaits: the value it read and, for a    *)
(* code, the typed <<uid, code>>.                                          *)
Holding(op, t, hash) == [op |-> op, seen |-> t, typed |-> hash]
Idle == Holding("idle", NoToken, Voided)
Holdings == [op : {"idle", "link", "reset", "code"}, seen : Tokens, typed : CodeHashes]

Init ==
  /\ token = NoToken
  /\ expiresAt = Null
  /\ rowLock = Nobody
  /\ req = [r \in Requests |-> Idle]
  /\ now = 0
  /\ issued = 0
  /\ compared = [i \in Issues |-> 0]
  /\ redeemed = [i \in Issues |-> 0]
  /\ codeOk = [i \in Issues |-> 0]

(***************************************************************************)
(* Issuing: one UPDATE overwrites whatever the slot held.                  *)
(***************************************************************************)
Overwrite(kind, ttl, hash, codeExp) ==
  /\ rowLock = Nobody
  /\ issued < MaxIssues
  /\ issued' = issued + 1
  /\ token' = Stored(kind, issued + 1, hash, codeExp)
  /\ expiresAt' = now + ttl
  /\ UNCHANGED <<rowLock, req, now, history>>

issuePasswordResetToken == Overwrite("reset", ResetTtl, Voided, Null)

issueOtpUnlockToken == Overwrite("unlock", UnlockTtl, Voided, Null)

issueMagicLinkToken == Overwrite("ml", LinkTtl, Voided, Null)

issueMagicLinkWithCode(uid, code) ==
  Overwrite("ml2", LinkTtl, hashLoginOtp(uid, code), now + CodeTtl)

(***************************************************************************)
(* Consuming a link or a reset token.  The SELECT looks the token up and   *)
(* checks the deadline; a request that finds nothing ends there.           *)
(***************************************************************************)
Expired(deadline) == deadline < now

FindLive(r, kinds, op) ==
  /\ req[r] = Idle
  /\ token.kind \in kinds
  /\ ~Expired(expiresAt)
  /\ req' = [req EXCEPT ![r] = Holding(op, token, Voided)]
  /\ UNCHANGED <<row, rowLock, now, issued, history>>

findMagicLink(r) == FindLive(r, LinkKinds, "link")
findPasswordReset(r) == FindLive(r, {"reset"}, "reset")

(* The UPDATE that clears the slot, by primary key: it does not look at    *)
(* what the slot holds by now.  A link request then returns the account; a *)
(* reset request has set the password in the same UPDATE.                  *)
clearSlotUnlocked(r) ==   \* mutant: does not wait for the row lock
  /\ req[r].op \in {"link", "reset"}
  /\ token' = NoToken
  /\ expiresAt' = Null
  /\ redeemed' = [redeemed EXCEPT ![req[r].seen.id] = @ + 1]
  /\ req' = [req EXCEPT ![r] = Idle]
  /\ UNCHANGED <<rowLock, now, issued, compared, codeOk>>

clearSlot(r) ==
  /\ req[r].op \in {"link", "reset"}
  /\ rowLock = Nobody
  /\ token' = NoToken
  /\ expiresAt' = Null
  /\ redeemed' = [redeemed EXCEPT ![req[r].seen.id] = @ + 1]
  /\ req' = [req EXCEPT ![r] = Idle]
  /\ UNCHANGED <<rowLock, now, issued, compared, codeOk>>

(* assertAcceptable refuses the new password, or the UPDATE fails: the     *)
(* request ends without having written.                                    *)
abandon(r) ==
  /\ req[r].op \in {"link", "reset"}
  /\ req' = [req EXCEPT ![r] = Idle]
  /\ UNCHANGED <<row, rowLock, now, issued, history>>

(***************************************************************************)
(* Verifying a code: BEGIN; SELECT ... FOR UPDATE, then the evaluation of  *)
(* what was read and the write, then COMMIT.                               *)
(***************************************************************************)
readUnlocked(r, uid, code) ==   \* mutant: a plain SELECT
  /\ req[r] = Idle
  /\ req' = [req EXCEPT ![r] = Holding("code", token, hashLoginOtp(uid, code))]
  /\ UNCHANGED <<row, rowLock, now, issued, history>>

lockForUpdate(r, uid, code) ==
  /\ req[r] = Idle
  /\ rowLock = Nobody
  /\ rowLock' = r
  /\ req' = [req EXCEPT ![r] = Holding("code", token, hashLoginOtp(uid, code))]
  /\ UNCHANGED <<row, now, issued, history>>

(* COMMIT or ROLLBACK, and the answer.                                     *)
EndTransaction(r) ==
  /\ req[r].op = "code"
  /\ rowLock' = Nobody
  /\ req' = [req EXCEPT ![r] = Idle]
  /\ UNCHANGED <<now, issued, redeemed>>

(* The guards of evaluateLoginOtp, in its order.                           *)
CodeLocked(t) == t.codeHash = Voided \/ t.attempts >= MaxAttempts
Comparable(t) == t.kind = "ml2" /\ ~CodeLocked(t) /\ ~Expired(t.codeExp)

(* The slot after a failed comparison: the last one voids the code and     *)
(* leaves the link.                                                        *)
Uncounted(t) ==   \* mutant: the failure is not counted
  [t EXCEPT !.codeHash = IF t.attempts + 1 >= MaxAttempts THEN Voided ELSE @]

MissedDropsSlot(t) ==   \* mutant: the last failure takes the link away too
  IF t.attempts + 1 >= MaxAttempts THEN NoToken ELSE [t EXCEPT !.attempts = @ + 1]

Missed(t) ==
  [t EXCEPT !.attempts = @ + 1,
            !.codeHash = IF t.attempts + 1 >= MaxAttempts THEN Voided ELSE @]

refuseCode(r) ==   \* no_code, locked or expired: nothing is compared or written
  /\ ~Comparable(req[r].seen)
  /\ EndTransaction(r)
  /\ UNCHANGED <<row, compared, codeOk>>

Compare(r) ==
  /\ Comparable(req[r].seen)
  /\ compared' = [compared EXCEPT ![req[r].seen.id] = @ + 1]
  /\ EndTransaction(r)

acceptKeepingSlot(r) ==   \* mutant: success leaves the slot as it was
  /\ Compare(r)
  /\ req[r].typed = req[r].seen.codeHash
  /\ codeOk' = [codeOk EXCEPT ![req[r].seen.id] = @ + 1]
  /\ UNCHANGED row

acceptCode(r) ==
  /\ Compare(r)
  /\ req[r].typed = req[r].seen.codeHash
  /\ token' = NoToken
  /\ expiresAt' = Null
  /\ codeOk' = [codeOk EXCEPT ![req[r].seen.id] = @ + 1]

missCode(r) ==
  /\ Compare(r)
  /\ req[r].typed # req[r].seen.codeHash
  /\ token' = Missed(req[r].seen)
  /\ UNCHANGED <<expiresAt, codeOk>>

rollback(r) ==   \* a database error: no write is kept and no answer is given
  /\ EndTransaction(r)
  /\ UNCHANGED <<row, compared, codeOk>>

Tick ==
  /\ now < MaxTime
  /\ now' = now + 1
  /\ UNCHANGED <<row, rowLock, req, issued, history>>

Issue ==
  \/ issuePasswordResetToken
  \/ issueOtpUnlockToken
  \/ issueMagicLinkToken
  \/ \E uid \in Uids, code \in Codes : issueMagicLinkWithCode(uid, code)

Next ==
  \/ Issue
  \/ Tick
  \/ \E r \in Requests :
       \/ findMagicLink(r)
       \/ findPasswordReset(r)
       \/ clearSlot(r)
       \/ abandon(r)
       \/ \E uid \in Uids, code \in Codes : lockForUpdate(r, uid, code)
       \/ refuseCode(r)
       \/ acceptCode(r)
       \/ missCode(r)
       \/ rollback(r)

Spec == Init /\ [][Next]_vars

---------------------------------------------------------------------------
(* Every variable stays in its type: the counter of attempts never passes  *)
(* maxAttempts and the row lock is held by a request or by nobody.         *)
TypeOK ==
  /\ token \in Tokens
  /\ expiresAt \in Int
  /\ rowLock \in Requests \cup {Nobody}
  /\ req \in [Requests -> Holdings]
  /\ now \in Nat
  /\ issued \in 0..MaxIssues
  /\ {compared, redeemed, codeOk} \subseteq [Issues -> Nat]

(* However requests interleave, at most maxAttempts comparisons against    *)
(* the code of one issue are ever answered: the "hard" guarantee that the  *)
(* comment of verifyLoginCode claims for its locked transaction.           *)
ComparisonsBounded == \A i \in Issues : compared[i] <= MaxAttempts

(* The counter stored in the slot is the number of comparisons answered    *)
(* for that issue: no concurrent write loses an increment.                 *)
CounterIsExact ==
  token.kind = "ml2" => token.attempts = compared[token.id]

(* Once the link, the reset token or the code of an issue was accepted,    *)
(* the slot never holds that issue again: no late write of a verification  *)
(* that read it before brings it back.                                     *)
SpentStaysSpent ==
  \A i \in Issues : redeemed[i] + codeOk[i] > 0 => token.id # i

(* A code is accepted only if neither it nor the link it came with was     *)
(* accepted before: half of the joint single use of evaluateLoginOtp.      *)
CodeNeverAfterLink ==
  [][\A i \in Issues : codeOk'[i] # codeOk[i] => codeOk[i] + redeemed[i] = 0]_vars

(* Wrong, late and surplus codes never take the link away or move its      *)
(* deadline: an issue leaves the slot only when a token or its code is     *)
(* accepted, or a newer issue replaces it.                                 *)
FailedCodeKeepsLink ==
  [][token.id # 0 =>
       IF token'.id = token.id
         THEN expiresAt' = expiresAt /\ token'.kind = token.kind
         ELSE issued' > issued \/ codeOk' # codeOk \/ redeemed' # redeemed]_vars

---------------------------------------------------------------------------
(* The slot as an implementation of the promise made of one code, with the *)
(* wrong guesses and the acceptances of each issue read off the history.   *)
Promise == INSTANCE CodePromise WITH
  Ids <- Issues,
  tries <- [i \in Issues |-> compared[i] - codeOk[i]],
  accepted <- {i \in Issues : codeOk[i] > 0},
  closed <- {i \in 1..issued : ~(token.kind = "ml2" /\ token.id = i)}

(* Every behaviour of the slot is a behaviour of CodePromise.              *)
KeepsPromise == Promise!Spec
==========================================================================
