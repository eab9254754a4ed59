# AuthKit: TLA+ models, checks and proofs

AuthKit (`packages/authkit-*`) is an OpenID Connect identity provider for AdonisJS: it wraps
the `oidc-provider` library, keeps accounts, credentials and organisations in a SQL database
through Lucid, keeps OIDC artifacts in Redis or SQL, and adds login screens, an admin console
and client packages. This directory holds TLA+ models of the parts whose correctness depends
on the order in which concurrent requests, processes and timers take their steps, the TLC
configurations that check them, and proofs that TLAPS checks. Paths below are relative to
`packages/authkit-server/src` unless they start with another package.

Two facts shape every model:

* Node runs each request to its next `await`, so the atomic steps of a request are its
  database, Redis or vault calls, together with the synchronous code before the next one.
* Almost nothing uses a transaction or a lock. Apart from `verifyLoginCode` (a transaction
  with `SELECT ... FOR UPDATE`) and the scheduled rotation (a single-flight lock), what is read
  may be stale when it is used. The models keep the read and the write as separate actions
  exactly where the code awaits between them.

## 1. Inventory

| Component | State | Operations | Interacts with | What is hard | Correct when | Module |
|---|---|---|---|---|---|---|
| One-time tokens (`accounts/lucid_store/core.ts`, `host/otp_login.ts`) | `passwordResetToken`, `passwordResetExpiresAt` of an account | issue reset token, magic link, link with code, unlock token; redeem each; verify a code | login, registration and account controllers, second factor (shares the columns) | four flows on one pair of columns; unlocked read-then-write beside a locked transaction | guesses of a code are bounded, tokens are used once, nothing spent returns | `LoginSlot`, `CodePromise` |
| Signing keystore (`keys/`, `provider/keystore_reload.ts`, `provider/key_rotation_scheduler.ts`, `provider/single_flight_lock.ts`, `provider/oidc_service.ts`) | a vault blob; per process the served keys, the poller's last head, reload and rotation chains | boot, rotate, reload, poll, age check, rotate by hand | admin console, command line, lock service | several processes over one blob, crash with the lock held, stale reads, failed reloads | no key lost, no key rotated early, every instance converges, an aged key is replaced | `Keystore` |
| Organisations (`accounts/lucid_store/organizations.ts`, `host/controllers/account_orgs_controller.ts`, `host/admin_api/admin_orgs_service.ts`) | member and invitation rows | create, add, invite, accept, revoke, change role, remove, leave, delete | account deletion, admin API | check-then-act without transactions | there is always an owner; roles are granted by those who may | `Organizations` |
| Second factor (`accounts/lucid_store/mfa.ts`, `webauthn.ts`, `host/controllers/account_mfa_controller.ts`) | `auth_mfa` row, passkeys | enrol, confirm, verify TOTP, use recovery code, register and remove passkeys, disable | login, account screens | anti-replay and single use by read-then-write | codes are accepted once, what is enabled was proved | `Mfa` |
| Second factor challenge (`host/otp_lockout.ts`, `host/controllers/interaction_controller.ts`) | failure counter and lock in the limiter, the token columns | check, answer, count, lock, mail and follow the unlock link | limiter, mailer, token columns | a limiter that may fail between any two calls | guesses are bounded, a locked user has a way out | `OtpLockout` |
| Account lockout (`host/account_lockout.ts`, `host/login_attempt.ts`) | failure counter, lock, count of locks in the limiter | check, count, lock with backoff, clear | password login | check-then-count across requests; fail-open | attempts are bounded, one report per lock | `AccountLockout` |
| Login flow (`host/controllers/interaction_controller.ts`, `host/login_attempt.ts`, `host/trusted_device.ts`) | session keys of the typed e-mail, the pending second factor and the forced change; trusted-device cookie | identifier, password, second factor, passkey, mail, forced change | accounts, lockouts, `oidc-provider` | pending keys outlive the interaction; the status changes between the steps | the second factor is asked of whoever has one, trust was earned | `LoginFlow` |
| Sudo mode and impersonation (`host/sudo_mode.ts`, `host/sudo/`, `host/impersonation_session.ts`, `host/register_auth_host.ts`) | session keys | log in and out, mark, check, mail and follow a link, start and stop, idle timeout | account screens, admin console | the session keeps its data when its account changes; overlapping requests write it back | elevation belongs to who earned it, the real person is known | `BrowserSession` |
| Session revocation (`host/admin_sessions_service.ts`, `authkit-client/src/revocation`) and OIDC artifacts (`adapters/`) | sessions, grants and tokens; the log of revocations | revoke all, revoke all but one, consent, refresh, log out, check a request | `oidc-provider`, admin console, applications | listing and destroying one by one beside new logins; two clock precisions | what was there goes, applications hear of it, the new login stays | `SessionRevocation` |
| Account deletion (`host/account_deletion_service.ts`, `host/account_deletion_ops.ts`, `host/durable/`) | rows in all stores, replay log of the durable run | cascade inline or as durable steps | organisations, sessions, tokens, MFA, audit | partial failure, replay after a crash, use during the cascade | nothing of a deleted account remains | `AccountDeletion` |
| Runtime settings (`host/runtime_settings.ts`) | `auth_settings` rows, a cache per process | get, set, delete, invalidate | all settings users | cache fill racing a write, non-atomic upsert with swallowed errors | a process sees a write within the TTL | not modelled |
| E-mail verification and change (`accounts/lucid_store/core.ts`) | `emailVerificationToken`, e-mail | request, confirm | registration, account screens | uniqueness checked before a later save | an address belongs to one account | not modelled |
| Token exchange, passwords, PATs, audit, rate limit, bot protection, i18n, mailer, doctor, schema, admin CRUD, React, SDK, cloud vaults | rows or none | CRUD, validation, I/O | | little or no interleaving of interest | | section 8 |

How they meet: the token columns of `LoginSlot` are those in which `OtpLockout` keeps its unlock
link (there `otherToken` stands for the flows of `LoginSlot`); the login of `LoginFlow` is let
through by `AccountLockout`, challenged by `OtpLockout` against the row of `Mfa`, and ends in the
`completeLogin` with which `SessionRevocation` begins; `AccountDeletion` takes away the rows of all
of them. Each module takes its neighbours as free choices, so what it shows holds whatever they do.

## 2. Plan

Order of work, most important behaviour first.

| Step | Modules | State |
|---|---|---|
| 1 | `LoginSlot`, abstract `CodePromise` | modelled, checked, proved, refinement proved |
| 2 | `Keystore` | modelled, checked with liveness; the safety proved |
| 3 | `Organizations` | members and invitations modelled, checked, proved |
| 4 | `OtpLockout` | modelled, checked, proved |
| 5 | `Mfa` | modelled, checked, proved |
| 6 | `AccountLockout`, `LoginFlow` | modelled, checked, proved |
| 7 | `BrowserSession` | modelled, checked, proved |
| 8 | `SessionRevocation` | modelled, checked, proved |
| 9 | `AccountDeletion` | modelled, checked with liveness; the safety proved |
| later | `GrantStore`: the lists and TTLs of the Redis adapter behind the stores that `SessionRevocation` takes as atomic | |
| later | `createOrg`, `deleteOrg` and `removeAccountFromAllOrgs` as actions of `Organizations` | |

Every safety property that a run checks is now also a theorem. What is left for proofs comes with
the modules that are left: that the Redis lists of `GrantStore` keep the promise of the grants in
`SessionRevocation`, and that an organisation has an owner from the second insert of `createOrg` on.

## 3. Modules

### LoginSlot (module `LoginSlot`, abstract `CodePromise`)

`token` is `passwordResetToken` decoded: its kind (`reset`, `unlock`, `ml`, `ml2`), the number of
the issue that stands for the random value, and for `ml2` the hash of `<<uid, code>>`, the
deadline of the code and the attempts counter that `encodeOtpToken` stores. `expiresAt` is
`passwordResetExpiresAt`. `req[r]` is what request `r` read and still holds across its awaits.

| Action | Code |
|---|---|
| `issuePasswordResetToken`, `issueMagicLinkToken`, `issueMagicLinkWithCode` | the methods of the same name in `core.ts` |
| `issueOtpUnlockToken` | `sendOtpUnlockEmailIfAble` in `interaction_controller.ts` (row save, lines 699-707) |
| `findMagicLink`, `findPasswordReset` | the SELECT and deadline check of `consumeMagicLinkToken`, `consumePasswordResetToken` |
| `clearSlot` | the UPDATE by primary key that follows; `abandon` is the refusal of the new password or a failing UPDATE |
| `lockForUpdate` | BEGIN and `SELECT ... FOR UPDATE` of `verifyLoginCode` |
| `refuseCode`, `acceptCode`, `missCode` | the outcomes of `evaluateLoginOtp` with the write and the COMMIT |
| `rollback` | the catch branch |

An UPDATE of another request waits for the row lock (`rowLock = Nobody` guards every write
outside the transaction); a plain SELECT does not. This is PostgreSQL and MySQL; SQLite, which
ignores `forUpdate`, serialises writers by itself. Two issues never have equal random values.
`compared`, `redeemed` and `codeOk` are history variables: they count answers, and guard nothing.

`CodePromise` says what a code promises whatever stores it: at most `MaxAttempts` wrong
guesses, at most one acceptance, and nothing after it was closed. `Promise` in `LoginSlot`
maps the history to it, and `KeepsPromise` is the refinement.

### Keystore (module `Keystore`)

`vault` is the sequence of key ids in the blob, `version` what `head()` distinguishes.
Processes: `Instances`; `Jobs` are rotations (`<<"sched", i>>` the scheduler of instance `i`,
`<<"admin", i>>` the console, `<<"cli", i>>` the command line).

| Action | Code |
|---|---|
| `ensureRead`, `ensureWrite` | `KeystoreManager.ensure` at boot |
| `readHead`, `compareHead`, `pollReload`, `pollReloadFails` | `KeystoreReloadPoller.tick` |
| `StartReload`, `EndReload` | `OidcService.reloadKeys` under `#reloadChain` |
| `startScheduler`, `schedulerFails` | `#startKeyRotationScheduler` of the provider, once for each start of an instance: it installs the scheduler, or one error of vault or database leaves the instance without (`scheduler`) |
| `tick`, `acquireImmediately`, `ageAgain` | `KeyRotationScheduler.tick` and `makeSingleFlightLock` |
| `rotateByHand` | `rotateNow`, `authkit:keys:rotate`, with any `keep` of `HandKeeps` |
| `rotateRead`, `rotateWrite`, `rotateReload`, `rotateFails` | `KeystoreManager.rotate`, `OidcService.rotateKeys` under `#rotateChain` |
| `Crash`, `lockExpires`, `Age` | a process dies; the TTL of its lock; `maxAgeDays` pass |

The scheduled lock is assumed installed (without it the code documents a single instance). Its TTL
(5 minutes) is far longer than a rotation, so it expires only for a dead holder. `Age` happens only
when every instance is down or has started its scheduler (or failed to) and polled once, and no
rotation is under way: ninety days against seconds. `schema.autoManage` is on and Lucid there:
otherwise `start()` returns (lines 234, 237 of the provider) before it starts poller and scheduler.
Overlapping ticks of one poller (a reload longer than a minute) are left out. `loaded`, `byHand` and
`stranded` are history.

`ScheduledRotationsAreKept` speaks of the keys made after a scheduled rotation read the vault. That
no key of the vault at all is dropped is too much to ask: two rotations by hand that race can bring
an older key back after the scheduled one has read, which then drops it again. The run by hand
is too small for that; it came out of the attempt to prove it, and TLC finds it with a third key
kept.

### Organizations (module `Organizations`)

`rows[a]` is the membership row of an account (`id` 0 is no row), `invites` the invitations.
A request carries the row it read; every statement of the store is an action (`readRow`,
`countOwners`, `deleteRow`, `saveRole`, `insertRow`, `markAccepted`, `createOrgInvitation`,
`deleteInvitation`), and the checks of the controllers are the guards of the action that starts
the request (`leave`, `removeMember`, `invite`, `revokeInvitation`, `acceptInvitation`,
`AdminRequest`). Writes go by primary key, so a statement on a row that was deleted and inserted
again does nothing; an insert against the unique pair (organisation, account) fails. Role
catalogues, slugs, mail and expiry of invitations are abstracted. `overtaken` and `everOwner`
are history.

### OtpLockout (module `OtpLockout`)

`fails` and `locked` are the two keys of the limiter, `slot` and `live` the token columns as far as
the unlock link uses them (`LoginSlot` has the columns themselves; here any other flow is
`otherToken`). Links are numbered in the order they are issued; 0 is none.

| Action | Code |
|---|---|
| `isLocked`, `answer`, `clearFailures` | `mfaVerify`: the lock check, the answer, the reset after a right one |
| `recordFailure`, `increment`, `block`, `forget` | the four awaits of `OtpLockout.recordFailure`; `failUncounted` is its catch |
| `saveToken`, `tokenUnsaved`, `onOtpUnlock` | `sendOtpUnlockEmailIfAble`: the row save, the mail |
| `otpUnlock`, `unlock`, `discard`, `discardFails` | the route of the link: lookup and deadline (`Finds`), `OtpLockout.unlock`, the row save, or its error, which is caught and leaves the link |
| `otherToken`, `lockExpires`, `countExpires`, `linkExpires` | another flow takes the columns; the TTLs |

`StoreExposes` lists the members outside the `AccountStore` contract that the controller looks for
in the store by name: it is what decides whether a link is stored and found. `guesses`, `fate` and
`lifted` are history: `lifted` is the links that have lifted a lock, but for those two clicks on
which overlapped (`Held`) or that an error then left in the row. TTLs are hours and end only while
no request is in progress.

### Mfa (module `Mfa`)

`row` and `there` are the row of `auth_mfa`, 0 and `{}` standing for null; a TOTP code is the pair
of its secret and step. Every operation reads the row and decides in one action
(`startTotpEnrollment`, `confirmTotpEnrollment`, `verifyTotp`, `consumeRecoveryCode`,
`enableMfa`), and leaves the columns it will write in `req[r].patch`; `update` and `insert` are the
two statements of `upsert`, and give the answer. `disableMfa` is one DELETE, `createPasskey` and
`removePasskey` statements on the credentials. otplib's window is 0, so a code is accepted in its
own step only. `stale` says that the row changed between the read and the write of a request;
it and `watched`, `accepted`, `handed`, `vouched`, `orphaned` and `races` are history. `watched`
is one code chosen at the start, which may be any: counting its uses counts those of each.

### AccountLockout (module `AccountLockout`)

`fails`, `lock` and `locks` are the three keys of the limiter for one e-mail; `lock` holds the
duration it was set for. A request walks through `attemptPasswordLogin` one call at a time.

| Action | Code |
|---|---|
| `isLocked` | `AccountLockout.isLocked`; an error counts as no lock |
| `verifyCredentialsOf` | `verifyCredentials`: the comparison, and the refusal of a disabled account |
| `clearFailures` | `clearFailures` after a right password: the counter, then the lock |
| `auditFailure` | `login.failure`; an audit that throws ends the request |
| `recordFailure`, `incrementFails`, `incrementLocks`, `block`, `forget`, `report` | the awaits of `recordFailure`, up to the event `account.locked` |
| `fail` | its catch, at any of them |
| `lockExpires`, `windowExpires`, `countExpires` | the TTLs |

`computeLockoutSec` is the backoff, `doubled` its power of two. `guesses`, `reports`, `reported` and
`overlapped` are history.

### LoginFlow (module `LoginFlow`)

`account[a]` is what the gates read of an account, `session[b]` the three keys that the interaction
controller keeps in the session, `cookie[b]` the trusted device. The lockouts are elsewhere: what
they refuse changes nothing here. An enrolment number stands for `mfa_enabled_at`.

| Action | Code |
|---|---|
| `show`, `identifier`, `switchIdentifier` | another interaction in the same session; the e-mail screen |
| `verifyCredentials`, `assertAccountEnabled`, `assertAccountNotExpired` | `attemptPasswordLogin` from the right password on, in the order of its gates |
| `secondFactor` | `login` after the password: trusted device, challenge, `acr_values`, completion |
| `verifyTotp`, `verifyPasskey`, `assertLoginAllowed`, `finishFactor` | `mfaVerify` and `passkeyVerify`, with the cookie they may set |
| `consumeMail`, `finishMail` | `magicLinkConsume`, `otpVerify` |
| `changePassword`, `finishChange` | `changeExpiredPassword`: the new password, then its own gate |
| `disable`, `enable`, `confirmTotp`, `disableMfa`, `PasswordAges` | what happens to the account elsewhere |

`proved` and the fields `disabled`, `mfa` and `proven` of tasks and logins are history: what has been
so ever since the request began.

### BrowserSession (module `BrowserSession`)

`session` is the data in the session store; `req[r]` the copy a request works on, which it writes back
whole when it ends, so the last of two overlapping requests wins. A handler is one action: between
loading and writing back it touches nothing that others see but the mail.

| Action | Code |
|---|---|
| `login`, `logout` | `AccountSessionController.login`, `logout` (which drops only the account) |
| `startImpersonation`, `stopImpersonation` | `host/impersonation_session.ts`, with the check of the token exchange |
| `checkAndRefreshIdle`, `visit` | `accountGuard` in `register_auth_host.ts` |
| `confirmPassword` | the password method of sudo and `markSudo` |
| `issueSudoLinkToken`, `followLink` | the link method: `sudo/methods/magic_link.ts` over `sudo_mode.ts` |
| `commit` | the session middleware at the end of the response |

`isSudoActive`, `verifySudoLinkToken` and `realAccountId` are the functions of those names.
`proved`, `accepted`, `raced`, and `human` and `left` in the data, are history.

### SessionRevocation (module `SessionRevocation`)

`sessions` and `grants` are what the provider has stored for one account, `app[s]` what the
application of a session has: the grant its tokens are for, and the cookie it keeps, `log` the
revocations of its `sub` that the middleware of the client package checks. A task is a login under
the single-session policy or a revocation of everything.

| Action | Code |
|---|---|
| `listPrevious`, `completeLogin`, `findOwn` | `InteractionController.login`, lines 459-491 |
| `completeLoginOnly` | the other calls of `completeLogin`, which revoke nothing |
| `Resume` | external: the provider stores the session when the browser follows the redirect |
| `revokeAll`, `listSessions`, `destroySession`, `listGrants`, `destroyGrant`, `recordSubRevocation` | `AdminSessionsService.revokeAll` and `revokeAllExcept`, with `cutoff` |
| `Destroy`, `sessionSaved` | the `destroy` and `upsert` of the adapters: a session goes, and a request that had loaded it may store it again at its end |
| `consent`, `interactionFinished` | the consent screen makes a grant, whether or not the session it read is still stored; the provider resumes from it only with the session |
| `Refresh`, `Logout` | a code or refresh token brings an id_token; the end of one session |
| `handle`, `isRevoked` | `BackchannelRevocationMiddleware` and the revocation store |

Time is in ticks of a fraction of a second, because `loginTs` and `iat` are whole seconds and
`revoked_at` is not.

`oidc-provider` stores the session again at the end of every request that loaded it. That is its
behaviour and not in this repository, but neither adapter's `upsert` asks whether the row is still
there, so a session destroyed meanwhile comes back. `held` is the sessions destroyed that some
request under way had loaded (chosen when one is destroyed, where it first matters), `returned` those
that came back, until they are destroyed again. `returned`, `began`, `misled`, `own` and `overlapped`
are history; a login is misled if its own session was not stored when it looked for it, or another
had returned since it began.

### AccountDeletion (module `AccountDeletion`)

`has` is what belongs to the account, `trail` the audit records that name it. `Cascade` is the list of
steps that both runs share; a run is a place in it.

| Action | Code |
|---|---|
| `ask`, `recordUserDeleted`, `revokeFirst` | the account screen and `AdminUsersService.delete` up to the cascade |
| `delete`, `InlineStep`, `InlineFailure`, `InlineCrash` | `AccountDeletionService.delete`: a step that throws is left out, but for the last |
| `enqueueAccountDeletion` | `host/durable/index.ts`: one run for each account |
| `localStep`, `Checkpoint`, `EngineCrash` | a step of `account_deletion_workflow.ts`, its recording, and a crash between the two |
| `stepThrows`, `resumeByHand` | a step throws and, no retry being asked for, the run fails; somebody drives it on from the engine's tooling |
| `Use` | the owner logs in, enrols, joins... while the row is there |

`again`, `spared` and the field `failed` are history.

## 4. Runs

| Run | Question | Result |
|---|---|---|
| `LoginSlot` | the properties of the token slot and the refinement, three requests | hold, about 296 thousand states |
| `Keystore` | two instances, scheduled rotation, one crash, two errors of vault or start-up: safety and liveness | hold, about 401 thousand states |
| `KeystoreByHand` | the same safety beside rotations by an administrator or from the command line | hold, about 2.8 million states |
| `Organizations` | roles and last owner, two concurrent requests of members and administrators | hold, about 2.9 million states |
| `OtpLockout` | guesses, lock, mail and link, three concurrent answers or clicks, one error | hold, about 1.3 million states |
| `Mfa` | reuse of codes, exact recovery codes, proven secrets, a factor to ask for | hold, about 3.3 million states |
| `AccountLockout` | wrong passwords between two resets, reports of a lock, three concurrent logins, one error | hold, about 638 thousand states |
| `LoginFlow` | who gets in without a second factor, on a trusted device, or while disabled | hold, about 1.3 million states |
| `BrowserSession` | whose sudo, whose link, who is really there, two overlapping requests | hold, about 1.8 million states |
| `SessionRevocation` | what a revocation ends and what it spares, two logins and an administrator, sessions that come back | hold, about 3.9 million states |
| `EveryLogin` | does the single-session policy end the other sessions at every login | violated: only the login by password alone revokes |
| `AccountDeletion` | what is left of a deleted account, inline and durable, two deletions, two crashes or failed steps | hold, about 558 thousand states |

What the properties say is written above each of them in the module. Those of a passing run
come with the mutants of PROJECT.json: the definition of the code each one depends on, changed
as a plausible bug would change it, makes TLC find a violation.

## 5. Bounds, and why they are enough

* `LoginSlot`: three requests (a verification, a link and a second verification or a reset),
  two uids, two codes (right and wrong), `MaxAttempts = 2` (a first and a last failure), two
  issues (a token and its replacement), clock 0..3 with code lifetime 1 and link lifetime 2, so a
  code expires before its link and both expire in range. Requests, uids and codes are symmetric.
* `Keystore`: two instances, three keys (the first and two rotations, one more than `Keep`), one
  crash and two failures, so that a crashed holder, a failed reload, a race of two rotations and a
  start that fails in both instances all occur. By hand, one rotation at a time beside the scheduled
  ones, keeping one key (retire), as many as the policy, or one more; the theorems are for any number.
* `Organizations`: two accounts and two requests are enough for every pair of concurrent
  statements on a pair of owners, two rows beyond the first ones and one invitation for removal
  followed by a new acceptance.
* `OtpLockout`: three requests, `MaxAttempts = 2` and four links (a few more from the requests
  under way), with which `GuessesBounded` is tight without errors: six wrong answers in a row are
  reached, and no more. One error of the limiter, store, audit or mailer at any point. `MaxGuesses = 8`
  exceeds the bound and never binds.
* `Mfa`: two overlapping requests, a batch of two recovery codes (a lost removal needs two), two
  secrets and two batches (an older enrolment can come back), two TOTP steps (the last step can go
  back), one passkey. Calls start while fewer than two writes have raced, so a reuse after a race
  is also followed by another race.
* `AccountLockout`: three requests, `MaxAttempts = 2`, a base of 2 s capped at 3 s, so that the
  second lock of a window is longer than the first and already cut, three locks, one error. As
  above `MaxGuesses = 8` never binds.
* `LoginFlow`: one browser (its requests follow one another; browsers share only the accounts, and
  the theorems are for any number of them), two accounts, three changes elsewhere (an account that
  enrols, leaves and enrols again), two completed logins (the second meets what the first left).
* `BrowserSession`: two overlapping requests, an administrator and a user, grace, link and idle
  times of 1 in a clock of 0..2, so that each ends in range, one confirmation link, six requests
  (log in, impersonate, ask for the link, end or change the session, follow it twice).
* `SessionRevocation`: two logins and one revocation of everything, two ticks to a second and two
  seconds borders within the clock 0..2, two sessions, one grant. Every property speaks of one grant or
  one application at a time, so a second grant adds states and no case (and the theorems are for any
  number). Each destroyed session comes back at most once for each time it is destroyed. `EveryLogin`
  needs no administrator and one tick.
* `AccountDeletion`: the owner, an administrator and the engine at once, three belongings (the
  sessions, which the owner's request takes away first, and two that the cascade treats alike), two
  uses and two crashes, or steps of the workflow that throw (both are counted by `MaxCrashes`: one in a
  request and one in the engine, or a step that throws twice although somebody drove it on).

`MaxIssues`, `MaxTime`, `MaxKeys`, `MaxCrashes`, `MaxFailures`, `MaxByHand`, `MaxRows`, `MaxInvites`,
`MaxLinks`, `MaxErrors`, `MaxGuesses`, `MaxSecrets`, `MaxBatches`, `MaxStep`, `MaxRaces`, `MaxLocks`,
`MaxChanges`, `MaxLogins`, `MaxAnswers`, `MaxSessions`, `MaxGrants` and `MaxUses` bound counters in
the guards and have no counterpart in the code.

Deadlock checking is on where a request can always start (`LoginSlot`, `Keystore`, `Organizations`,
`OtpLockout`, `Mfa`, `AccountLockout`). It is off where the run really ends: each login or deletion
happens once (`SessionRevocation`, `EveryLogin`, `AccountDeletion`), or the requests are counted
(`BrowserSession`, `LoginFlow`).

## 6. Fairness

`Keystore` and `AccountDeletion` have liveness properties.

In `Keystore`, weak fairness on `Boot`, `Poll` and `Rotate` stands for the process manager, the
`setInterval` timers (60 seconds and one hour) and awaits that resume; weak fairness on
`lockExpires` for the TTL of the lock. No fairness is assumed of crashes, failures, ageing or
rotations by hand. Failures are bounded, so that a vault which never answers again is excluded. But
one failure is for good: an instance that had an error while it started its scheduler has none until
it starts again. `AgedKeyIsReplaced` says that this, in every instance, is all that keeps an aged key.

In `AccountDeletion`, weak fairness on `localStep` and `Checkpoint` stands for the workflow engine,
which goes on with the runs it has, also after a crash. It is not fair to a step that throws: the
run fails, and `resumeByHand` has no fairness either. So `EnqueuedIsDeleted` is that the account is
deleted, or the run is failed and stays so. The requests have no fairness: one may stop at any step,
and what is claimed of the inline cascade is only safety.

## 7. Proofs

Every theorem is for all values of the constants, where the run of the same property shows a small
instance. For each model an invariant (`IInv`, or `KeystoreInv` and `LockoutInv`) is proved by one
lemma for each kind of step (`InvariantHolds` and its like), and the listed properties follow from
it; the invariants were checked by TLC on the instances of the runs before they were proved.
`LoginProofs` and `ProviderProofs` are each about two models, which share no variable: those of the
login, and those of the provider.

| Module | Proved | What the invariant adds, and why it is needed |
|---|---|---|
| `LoginSlotProofs` | `TypeCorrect`, `BruteForceBound`, `ExactCounter`, `NoRevival`, `CodeIsNeverSecond`, `LinkSurvivesCodes`, `SlotKeepsPromise` | a verification in progress holds the row lock and what it read is what the row holds (`LockedReadIsCurrent`: this is what the transaction buys, and what makes the counter exact); consumers hold the number of an existing issue; the slot is empty exactly when it names no issue; nothing was counted for an issue not made yet |
| `MfaProofs` | `TypeCorrect`, `CodesAreReusedOnlyByRaces`, `RecoveryCodesStayExact`, `SecretsAreProven`, `FactorIsThere` | what a write is about to do and the answer it will give belong together (`Planned`); what a request that is not stale read is still so (`Current`); a secret or batch is in the row, or in the answer of another, only when the request that generated it is over (`RowIsBorn`), so a new one is never a code accepted before; unless the acceptances are at most the races, the watched code is spent in the row (`Counted`) |
| `OtpLockoutProofs` | `TypeCorrect`, `OtpGuessesBound`, `LockedAreMailed`, `EachLinkOnce`, `LinksAloneUnlock` | the row holds the link last issued or none; without errors that link is mailed or about to be, and a lock that nobody still owes a link has one that nobody has used up. A link that has lifted a lock is in the row only beside the click that is taking it from there, and no other click holds it before its unlock (`Once`). For the bound, a count over the requests by what each may still do (`Counts`): without the lock every wrong answer is in the counter, in a request about to count it, lost to an error, or forgotten by a request that was past the threshold, and each of those forgets less than `MaxAttempts`; with the lock only those already challenged can add one |
| `LoginProofs`, on `LoginFlow` | `TypeCorrect`, `SecondFactorIsAsked`, `TrustNeedsProof`, `DisabledDoNotBegin` | what a request says has been so ever since is so now; past the status gate it was not disabled all along; a trusted device is not newer than what its browser proved, nor that than the enrolment |
| `LoginProofs`, on `AccountLockout` | `LockoutTypeCorrect`, `PasswordGuessesBound`, `LocksAreReported`, `LocksGrow` | without the lock every wrong password is counted, held by a request about to count it, lost to an error, or forgotten by a request past the threshold (`Unlocked`; unlike in `OtpLockout`, a TTL may end while every request is about to forget, and then the guesses start anew); with the lock only those that asked before can add one (`Locked`). A lock that one failure alone set has exactly one request that is to report it, with its duration, or has been reported with it and nobody else is past asking (`Reported`) |
| `BrowserSessionProofs` | `TypeCorrect`, `SudoNeverInherited`, `RealAccountIsHuman`, `LinkServesItsReader`, `LinkServesOnce` | of the stored session and of the copy of every request (any copy may be written back): a mark of sudo is not from the future and its account proved to be there since; a pending link went to the account it is pending for; without a leftover the impersonator is who logged in. For the last theorem `LinkInv`: an overlap never becomes unknown, and without one an accepted link is gone from the copy of the request under way, or from the store |
| `OrganizationsProofs` | `TypeCorrect`, `OwnersAreInvitedByOwners`, `RolesComeFromGrants`, `LastOwnerLeavesOnlyByRaces` | a request that invites an owner has an author who may; all owners have been owners; the requests under way fit the bounds (the ids of rows and invitations are typed by them). For the action properties `Witnessed`: an acceptance has the account and role of its invitation, which never change; a row read that no write overtook is the row of the table, and a count of more than one owner still holds |
| `ProviderProofs`, on `SessionRevocation` | `TypeCorrect`, `RevocationEndsAll`, `RevocationsReachApps`, `OneSessionIsLeft`, `KeptAppSurvives`, `OwnSessionIsKept` | whatever was there when a revocation began is gone, listed and still to go, spared, or, of the sessions, came back since (`SessionsEnd`, `GrantsEnd`), and what it records covers it (`Logged`); no session or id_token is older than its login (`Timed`); without overlapping logins one at most is under way (`Alone`), and the session it made is the first since it began (`FirstOwn`) |
| `ProviderProofs`, on `Keystore` | `KeystoreTypeCorrect`, `ScheduledRotationsStay`, `YoungKeysStay`, `KeysOnlyAdvance` | an instance has at most one reload under way, read at a version between that of its copy and that of the vault (`Copies`: what `#reloadChain` buys); who is past `acquireImmediately` holds the lock (`Locked`), is still due unless a rotation by hand came first (`Due`), and only rotations by hand wrote since it read (`MadeSince`); kids are numbered as they are written (`Numbered`); nobody is still creating the keystore once a key has aged (`Settled`) |
| `AccountDeletionProofs` | `TypeCorrect`, `DeletedIsGone`, `RecordNamesNobody` | each step a cascade is past has left nothing but what failed or was made again (`Residue`), the same for the trail and the row; nothing comes back that is not in `again` (`Tidy`), so neither another cascade nor a replay after a crash spoils it. What the cascade is, place by place, is the lemma `CascadeIs` |

The backoff of `AccountLockout` is a recursive function, of which the provers know only that it is
some function that satisfies its equation if there is one. That there is one, and that no duration it
gives is 0 or shorter than the one before, is `DoubledIs`, `DoubledGrows` and `LocksGrow`: instead of
an induction over the number of locks they take the least number of which the claim fails
(`LeastNumber`, from the well-foundedness of the naturals). A lock of 0 seconds would be none,
so the other theorems rest on it.

`SlotKeepsPromise` is the refinement: every behaviour of `LoginSlot` is one of `CodePromise`.
`ComparisonsBounded` follows from `CounterIsExact` and the type of the counter once a spent issue
cannot return.

Assumptions are the named ASSUMEs of the modules: bounds and lifetimes are naturals, `MaxAttempts`,
`MaxRows`, `MaxStep` (the clock of `Mfa` starts at 1), `MaxKeys`, `Keep`, the durations of the lock
and `TicksPerSec` positive, `Nobody` and `Console` are nobody, a free lock is held by no instance,
rotations by hand are by an administrator or the command line, the kinds of tasks and deleters are
disjoint, and the requests of `Organizations`, `OtpLockout` and `AccountLockout` are finitely many,
for they are counted. The belongings of `AccountDeletion` are any of the kinds the code takes away,
in any order and number, but begin with the sessions, as both cascades of the code do.
`LockedAreMailed` also assumes that the store gives its rows out (`__getRawRow`) and finds them by
token (`CanFind`); without the first no link is stored, and without the second, as with the Lucid
store, none is found.

Only model-checked: liveness, that is `AgedKeyIsReplaced` and `PollCatchesUp` of `Keystore` and
`EnqueuedIsDeleted` of `AccountDeletion`, because fairness and ENABLED are outside TLAPS's reach. The
violation that `EveryLogin` shows is a run and no theorem.

## 8. Not modelled, and why

* Runtime settings: a reader sees a value at most one TTL old, and the toggles resolve a value with
  its defaults. The models take the settings as fixed while a request runs. A cache fill that began
  before a write does keep the old value for a TTL, and a failing upsert leaves the default.
* E-mail verification and change: two tokens, each read and redeemed by one request. Whether two
  accounts that confirm one address at once both get it is decided by the index of the host's table.
* The Redis and SQL adapters: in `SessionRevocation` a grant is stored or not. The list of a
  grant in Redis takes the TTL of the last token added, and `consume` can write back a key that was
  revoked in between; both leave tokens whose grant is gone, which the provider refuses.
* Creation and deletion of an organisation: one request on a row nobody else knows, and a cascade.
  A failure between the two inserts of `createOrg` leaves an organisation without an owner.
* `oidc-provider` itself (protocol, interactions, session cookies), the session store of the
  framework, the workflow engine and the limiter are external, modelled from how the code uses them.
* HTTP rendering, redirects, CSRF, mail wording, i18n: no state of interest. Hashing and
  encryption: values are distinct tokens. Passkey ceremonies and signature counters: a library.
* Schema DDL and the doctor (start-up only); admin CRUD, statistics and the account API (the same
  store calls); personal access tokens (insert, find and delete by hash); token verification and
  discovery in clients (stateless); React, SDK and testing packages; cloud vault drivers.

Most lines of the repository are of these kinds. What is modelled is the part whose correctness
depends on the order of steps.

## 9. Where code and documents disagree

One is checked by a run and listed in the `findings` of PROJECT.json: `EveryLogin`. The comment on
`singleSession` (`host/runtime_toggles.ts`, lines 626-628) says that after a login all other
sessions of the account are revoked. Only the login by password alone does it; by trusted device,
second factor, magic link, code, passkey or forced password change it does not.

Others met while modelling, which the properties of the passing runs except by name:

* A link and its code are not jointly single-use: a link request that found the token before the
  code was accepted redeems it too (`core.ts`, line 253, against the passwordless guide, line 127).
  `CodeNeverAfterLink` is the order that does hold.
* The first poll of the keystore takes a rotation since the boot as its baseline
  (`keystore_reload.ts`, line 24, against its header): hence `stranded` in `PollCatchesUp`.
* A rotation by hand takes no lock and can drop the key of a rotation in another process: hence
  `byHand` in `ScheduledRotationsAreKept`. The design document of the keystore says they need none.
* Two owners who leave at once leave no owner, and adding the last owner again demotes it
  (`organizations.ts`, lines 167 and 152, against the organisations guide, line 267): these are the
  exceptions of `LastOwnerStays`.
* With the Lucid store no unlock link of the second factor is ever found
  (`interaction_controller.ts`, line 1433, against the security guide, lines 575-577). The run
  `OtpLockout` assumes a store that finds it. The link is not strictly for one use either (the row save
  after the unlock may fail, and two clicks may overlap): the exceptions of `OnlyLinksUnlock`.
* Removing the last passkey leaves MFA enabled with no factor (`webauthn.ts`, line 149): the
  exception of `FactorUnlessOrphaned`. A passkey registered while a TOTP enrolment is pending
  enables the unconfirmed secret: the exception of `ActiveSecretIsProven`.
* A logout drops the account of the session and leaves the impersonator, so the next login there is
  taken for an impersonation (`console_session.ts`, line 31): the exception of `RealAccountLoggedIn`.
* An account disabled after its password was checked still finishes by second factor or by forced
  change (`login_attempt.ts`, lines 219-221): the exception of `DisabledOnlyFinishes`. The forced
  change also completes without a second factor for a client that requires one
  (`interaction_controller.ts`, line 1395 against 382-395): why `SecondFactorAsked` holds it only to
  its first part. Magic links and codes ask for no second factor by design.
* A login whose browser follows late destroys its own session, and its own grant if the consent
  came before the grants were listed: part of the exception `misled` of `KeepsOwnSession`.
* A request under way when its session is revoked stores it again, so "revoke all" can leave the
  session of whoever was just using it (`adapters/database_adapter.ts`, line 29; with the save of
  `oidc-provider`, which is not in this repository): the exception `returned`. Its grants do go, and
  the log of revocations still reaches the application.
* The rotation scheduler calls itself fail-safe, but one error while an instance starts means that it
  never gets one (`authkit_server_provider.ts`, lines 299-302): the exception of `AgedKeyIsReplaced`.
* `account_deletion_workflow.ts` (line 82) speaks of a retry for each step, but passes no retry options,
  and the compliance guide (lines 400-402) says that a run can fail halfway and be driven on by hand.
  While it is failed every later request to delete, having the same run id, is answered and starts
  nothing: the exception of `EnqueuedIsDeleted`.
* An administrator whose record `user.deleted` is written after another cascade anonymised the
  trail leaves it there for ever: their own cascade finds no account and stops
  (`admin_users_service.ts`, lines 350-351, says that this record is anonymised). This is why
  `AccountDeletedNamesNobody` is about `account.deleted` only. The audit sink swallows its errors, so
  not even the durable workflow tries the anonymisation again: hence `spared`.
