---------------------------- MODULE AccountLockout ----------------------------
(***************************************************************************)
(* The password step of the login under guessing: what                     *)
(* host/account_lockout.ts keeps in the limiter for one e-mail, and the    *)
(* sequence of attemptPasswordLogin (host/login_attempt.ts) around it.     *)
(* Unlike the lock of the second factor (OtpLockout), this one grows with  *)
(* every lock, and a right password lifts it.                              *)
(*                                                                         *)
(* Each call of the limiter and of the audit is a step.  Errors of the     *)
(* limiter are swallowed, as if there were no lock; an audit that throws   *)
(* ends the request before the failure is counted.                         *)
(***************************************************************************)
EXTENDS Naturals, FiniteSets

CONSTANTS
  Requests,       \* login requests that can be in progress at once
  MaxAttempts,    \* lockout.maxAttempts
  baseLockoutSec, maxLockoutSec,
  MaxLocks,       \* no login starts once there were so many locks in a window
  MaxErrors,      \* bound on the errors of limiter and audit
  MaxGuesses      \* no login starts after so many wrong passwords

ASSUME PolicyAssumption == {MaxAttempts, baseLockoutSec, maxLockoutSec} \subseteq Nat \ {0}
ASSUME LimitsAssumption == {MaxLocks, MaxErrors, MaxGuesses} \subseteq Nat
ASSUME RequestsAreFinite == IsFiniteSet(Requests)

VARIABLES
  fails,     \* authkit_lockout_fail: failures in the window
  lock,      \* authkit_lockout: how long the lock was set for, 0 for none
  locks,     \* authkit_lockout_count: locks in the long window
  req,       \* where each request is, and the lock it is about to set or report
  errors,    \* errors so far
  guesses,   \* history: wrong passwords since the counter or the lock was last
             \* reset by a right one or by its TTL
  reports,   \* history: reports of a lock since the account was last locked
  reported,  \* history: the duration in the last of them
  overlapped \* history: when that lock was set another request was past asking
             \* for it and was not done with its failure

lockoutVars == <<fails, lock, locks, req, errors, guesses, reports, reported, overlapped>>
limiter == <<fails, lock, locks>>
history == <<guesses, reports, reported, overlapped>>
reporting == <<reports, reported, overlapped>>

LockoutPhases == {"idle", "asked", "right", "clearing", "wrong", "failed",
                   "counting", "locking", "blocking", "forgetting", "reporting"}
Doing(r, phase) == req[r].phase = phase
GoTo(r, phase) == req' = [req EXCEPT ![r].phase = phase]
GoWith(r, phase, sec) == req' = [req EXCEPT ![r] = [phase |-> phase, sec |-> sec]]
Ends(r) == GoWith(r, "idle", 0)

LockoutInit ==
  /\ fails = 0 /\ lock = 0 /\ locks = 0
  /\ req = [r \in Requests |-> [phase |-> "idle", sec |-> 0]]
  /\ errors = 0 /\ guesses = 0
  /\ reports = 0 /\ reported = 0 /\ overlapped = FALSE

Throws == errors < MaxErrors /\ errors' = errors + 1

(* The lock doubles with each one before it in the window.                 *)
doubled[n \in Nat] == IF n = 0 THEN baseLockoutSec ELSE 2 * doubled[n - 1]

computeLockoutSec(n) ==
  IF doubled[n - 1] < maxLockoutSec THEN doubled[n - 1] ELSE maxLockoutSec

---------------------------------------------------------------------------
(* attemptPasswordLogin: with a lock the password is not looked at.        *)
MayStart == locks < MaxLocks /\ guesses < MaxGuesses

neverLocked(r) ==   \* mutant: the login does not ask for the lock
  /\ Doing(r, "idle") /\ MayStart
  /\ GoTo(r, "asked")
  /\ UNCHANGED <<limiter, errors, history>>

isLocked(r) ==
  /\ Doing(r, "idle") /\ MayStart
  /\ (lock = 0 /\ UNCHANGED errors) \/ Throws
  /\ GoTo(r, "asked")
  /\ UNCHANGED <<limiter, history>>

verifyCredentialsOf(r) ==
  /\ Doing(r, "asked")
  /\ \/ GoTo(r, "wrong") /\ guesses' = guesses + 1
     \/ GoTo(r, "right") /\ UNCHANGED guesses
     \/ Ends(r) /\ UNCHANGED guesses   \* right, and the account is disabled
  /\ UNCHANGED <<limiter, errors, reporting>>

(* A right password, also of an account that is unverified or expired,     *)
(* drops the counter and then the lock; the number of locks stays.         *)
clearFailures(r) ==
  /\ \/ Doing(r, "right") /\ fails' = 0 /\ guesses' = 0 /\ GoTo(r, "clearing")
        /\ UNCHANGED <<lock, errors>>
     \/ Doing(r, "clearing") /\ lock' = 0 /\ guesses' = (IF lock # 0 THEN 0 ELSE guesses) /\ Ends(r)
        /\ UNCHANGED <<fails, errors>>
     \/ req[r].phase \in {"right", "clearing"} /\ Throws /\ Ends(r)
        /\ UNCHANGED <<fails, lock, guesses>>
  /\ UNCHANGED <<locks, reporting>>

auditFailure(r) ==   \* login.failure; if the audit throws, so does the request
  /\ Doing(r, "wrong")
  /\ \/ GoTo(r, "failed") /\ UNCHANGED errors
     \/ Ends(r) /\ Throws
  /\ UNCHANGED <<limiter, history>>

---------------------------------------------------------------------------
(* recordFailure, one call of the limiter after the other.                 *)
recordBlindly(r) ==   \* mutant: the failure of a locked account is counted
  /\ Doing(r, "failed")
  /\ GoTo(r, "counting")
  /\ UNCHANGED <<limiter, errors, history>>

recordFailure(r) ==
  /\ Doing(r, "failed")
  /\ IF lock = 0 THEN GoTo(r, "counting") ELSE Ends(r)
  /\ UNCHANGED <<limiter, errors, history>>

incrementFails(r) ==
  /\ Doing(r, "counting")
  /\ fails' = fails + 1
  /\ IF fails + 1 < MaxAttempts THEN Ends(r) ELSE GoTo(r, "locking")
  /\ UNCHANGED <<lock, locks, errors, history>>

incrementLocks(r) ==
  /\ Doing(r, "locking")
  /\ locks' = locks + 1
  /\ GoWith(r, "blocking", computeLockoutSec(locks + 1))
  /\ UNCHANGED <<fails, lock, errors, history>>

Past(r) == req[r].phase \in {"counting", "locking", "blocking", "forgetting", "reporting"}

block(r) ==
  /\ Doing(r, "blocking")
  /\ lock' = req[r].sec
  /\ GoTo(r, "forgetting")
  /\ overlapped' = ((lock # 0 /\ overlapped) \/ \E q \in Requests \ {r} : Past(q))
  /\ reports' = IF lock = 0 THEN 0 ELSE reports
  /\ UNCHANGED <<fails, locks, errors, guesses, reported>>

forget(r) ==
  /\ Doing(r, "forgetting")
  /\ fails' = 0
  /\ GoTo(r, "reporting")
  /\ UNCHANGED <<lock, locks, errors, history>>

report(r) ==   \* account.locked
  /\ Doing(r, "reporting")
  /\ reports' = reports + 1 /\ reported' = req[r].sec
  /\ Ends(r)
  /\ UNCHANGED <<limiter, errors, guesses, overlapped>>

fail(r) ==   \* any of these calls throws: the rest is skipped
  /\ Doing(r, "failed") \/ Past(r)
  /\ Throws
  /\ Ends(r)
  /\ UNCHANGED <<limiter, history>>

---------------------------------------------------------------------------
(* The TTLs end at any time; the window of the number of locks outlasts    *)
(* the lock, and counts from the first of them.                            *)
lockExpires ==
  /\ lock # 0
  /\ lock' = 0 /\ guesses' = 0
  /\ UNCHANGED <<fails, locks, req, errors, reporting>>

windowExpires ==
  /\ fails > 0
  /\ fails' = 0 /\ guesses' = 0
  /\ UNCHANGED <<lock, locks, req, errors, reporting>>

countExpires ==
  /\ locks > 0
  /\ locks' = 0
  /\ UNCHANGED <<fails, lock, req, errors, history>>

attemptPasswordLogin(r) ==
  \/ isLocked(r) \/ verifyCredentialsOf(r) \/ clearFailures(r) \/ auditFailure(r)
  \/ recordFailure(r) \/ incrementFails(r) \/ incrementLocks(r) \/ block(r)
  \/ forget(r) \/ report(r) \/ fail(r)

LockoutNext ==
  \/ \E r \in Requests : attemptPasswordLogin(r)
  \/ lockExpires \/ windowExpires \/ countExpires

LockoutSpec == LockoutInit /\ [][LockoutNext]_lockoutVars
---------------------------------------------------------------------------
(* Types.                                                                  *)
LockoutTypeOK ==
  /\ {fails, locks, guesses, reports} \subseteq Nat
  /\ {lock, reported} \subseteq 0..maxLockoutSec
  /\ req \in [Requests -> [phase : LockoutPhases, sec : 0..maxLockoutSec]]
  /\ errors \in 0..MaxErrors /\ overlapped \in BOOLEAN

(* However logins interleave, the wrong passwords between two resets are   *)
(* bounded: each request may have one under way when the lock falls, and   *)
(* may forget failures it did not count, after its lock was lifted.  Each  *)
(* error gives away one more.                                              *)
GuessesBounded == guesses <= MaxAttempts * Cardinality(Requests) + errors

Quiet == \A r \in Requests : Doing(r, "idle")

(* A lock is reported once, with the duration it was set for, unless       *)
(* another failure that had found no lock was still being recorded when it *)
(* was set; then it may be set and reported twice, and the shorter         *)
(* duration may be the one that stays.                                     *)
LockIsReportedOnce ==
  lock # 0 /\ Quiet /\ errors = 0 =>
    /\ reports >= 1
    /\ overlapped \/ (reports = 1 /\ reported = lock)
===============================================================================
