------------------------------ MODULE LoginFlow ------------------------------
(***************************************************************************)
(* The interactive login (host/controllers/interaction_controller.ts): the *)
(* password and the account's status (host/login_attempt.ts), the second   *)
(* factor, a trusted device (host/trusted_device.ts), the forced change of *)
(* an old password, passkey and e-mail, while accounts are disabled, enrol *)
(* and change elsewhere.  The lockout before the password is the business  *)
(* of AccountLockout, that of the second factor of OtpLockout: an attempt  *)
(* they refuse changes nothing here.                                       *)
(*                                                                         *)
(* A browser's session keeps the e-mail typed, the account whose second    *)
(* factor is awaited and the account whose password must be changed: they  *)
(* outlive the interaction.  Each browser has one request under way at a   *)
(* time.                                                                   *)
(***************************************************************************)
EXTENDS Naturals

CONSTANTS
  Browsers,
  Accounts,
  Nobody,       \* no account
  MaxChanges,   \* bound on what happens to the accounts elsewhere
  MaxLogins     \* bound on the logins completed

ASSUME NobodyAssumption == Nobody \notin Accounts
ASSUME BoundsAssumption == {MaxChanges, MaxLogins} \subseteq Nat

VARIABLES
  account,  \* of each account, what the gates read
  acr,      \* whether the client of the browser's interaction requires MFA
  session,  \* the three keys of the browser's session
  cookie,   \* the browser's trusted device cookie
  task,     \* the request each browser has under way
  login,    \* the login each browser completed last
  logins, changes,
  proved    \* history: the enrolment each browser last proved the second factor of

vars == <<account, acr, session, cookie, task, login, logins, changes, proved>>
accounts == <<account, changes>>
browser == <<session, cookie, login, logins, proved>>

Someone == Accounts \cup {Nobody}

(* "disabled" and "mfa" of a task are history: the account has been so     *)
(* ever since the request began.  A login takes them over; "proven" is     *)
(* history too: the browser had proved the factor of this enrolment.       *)
NoTask == [phase |-> "idle", of |-> Nobody, disabled |-> FALSE, mfa |-> FALSE]
NoLogin == [of |-> Nobody, by |-> "none", disabled |-> FALSE, mfa |-> FALSE,
            acr |-> FALSE, proven |-> FALSE]

Init ==
  /\ account = [a \in Accounts |-> [disabled |-> FALSE, mfa |-> FALSE, enrolment |-> 0, aged |-> FALSE]]
  /\ acr = [b \in Browsers |-> FALSE]
  /\ session = [b \in Browsers |-> [email |-> Nobody, mfa |-> Nobody, expired |-> Nobody]]
  /\ cookie = [b \in Browsers |-> [of |-> Nobody, enrolment |-> 0]]
  /\ task = [b \in Browsers |-> NoTask]
  /\ login = [b \in Browsers |-> NoLogin]
  /\ logins = 0 /\ changes = 0
  /\ proved = [b \in Browsers |-> [a \in Accounts |-> 0]]

At(b, phase) == task[b].phase = phase
Go(b, phase) == task' = [task EXCEPT ![b].phase = phase]
End(b) == task' = [task EXCEPT ![b] = NoTask]
Begin(b, phase, a) ==
  task' = [task EXCEPT ![b] = [phase |-> phase, of |-> a, disabled |-> account[a].disabled,
                               mfa |-> account[a].mfa]]

Completes(b, how) ==
  /\ logins < MaxLogins /\ logins' = logins + 1
  /\ LET a == task[b].of IN
       login' = [login EXCEPT ![b] = [of |-> a, by |-> how, disabled |-> task[b].disabled,
                                      mfa |-> task[b].mfa, acr |-> acr[b],
                                      proven |-> proved[b][a] = account[a].enrolment]]

---------------------------------------------------------------------------
(* Elsewhere: administrators, the account's own pages, and time.           *)
Change(a, rec) ==
  /\ changes < MaxChanges /\ changes' = changes + 1
  /\ account' = [account EXCEPT ![a] = rec]
  /\ UNCHANGED <<acr, browser>>

(* A change that ends what was so ever since.                              *)
disable(a) == Change(a, [account[a] EXCEPT !.disabled = TRUE]) /\ UNCHANGED task

enable(a) ==
  /\ Change(a, [account[a] EXCEPT !.disabled = FALSE])
  /\ task' = [b \in Browsers |-> IF task[b].of = a THEN [task[b] EXCEPT !.disabled = FALSE] ELSE task[b]]

confirmTotp(a) ==
  Change(a, [account[a] EXCEPT !.mfa = TRUE, !.enrolment = @ + 1]) /\ UNCHANGED task

disableMfa(a) ==
  /\ Change(a, [account[a] EXCEPT !.mfa = FALSE])
  /\ task' = [b \in Browsers |-> IF task[b].of = a THEN [task[b] EXCEPT !.mfa = FALSE] ELSE task[b]]

PasswordAges(a) ==
  Change(a, [account[a] EXCEPT !.aged = TRUE]) /\ UNCHANGED task

---------------------------------------------------------------------------
show(b) ==   \* another interaction, whose client requires MFA or not
  /\ At(b, "idle")
  /\ acr' \in {acr, [acr EXCEPT ![b] = ~@]}
  /\ UNCHANGED <<accounts, browser, task>>

identifier(b, a) ==
  /\ At(b, "idle")
  /\ session' = [session EXCEPT ![b].email = a]
  /\ UNCHANGED <<accounts, acr, cookie, login, logins, proved, task>>

switchIdentifier(b) ==
  /\ At(b, "idle")
  /\ session' = [session EXCEPT ![b].email = Nobody]
  /\ UNCHANGED <<accounts, acr, cookie, login, logins, proved, task>>

(* attemptPasswordLogin with the right password of the e-mail typed; after *)
(* a wrong one nothing is changed.                                         *)
verifyCredentials(b) ==
  /\ At(b, "idle") /\ session[b].email # Nobody
  /\ Begin(b, "right", session[b].email)
  /\ UNCHANGED <<accounts, acr, browser>>

disabledToo(b) ==   \* mutant: a disabled account is not refused
  /\ At(b, "right")
  /\ Go(b, "enabled")
  /\ UNCHANGED <<accounts, acr, browser>>

assertAccountEnabled(b) ==
  /\ At(b, "right")
  /\ IF account[task[b].of].disabled THEN End(b) ELSE Go(b, "enabled")
  /\ UNCHANGED <<accounts, acr, browser>>

ForcesChange(b) ==
  /\ session' = [session EXCEPT ![b].expired = task[b].of]
  /\ End(b)

assertAccountNotExpired(b) ==
  /\ At(b, "enabled")
  /\ \/ End(b) /\ UNCHANGED session   \* unverified, unused too long, maintenance
     \/ account[task[b].of].aged /\ ForcesChange(b)
     \/ ~account[task[b].of].aged /\ Go(b, "passed") /\ UNCHANGED session
  /\ UNCHANGED <<accounts, acr, cookie, login, logins, proved>>

TrustOfAnyEnrolment(b) == cookie[b].of = task[b].of   \* mutant: mfaEnabledAt is not compared

isTrustedDeviceValid(b) ==
  LET a == task[b].of IN cookie[b].of = a /\ cookie[b].enrolment >= account[a].enrolment

(* login, once the password passed: the second factor is awaited if the    *)
(* account has one, unless the device is trusted.                          *)
AsksFactor(b) ==
  /\ session' = [session EXCEPT ![b].mfa = task[b].of]
  /\ End(b)
  /\ UNCHANGED <<login, logins>>

Finishes(b, how) ==
  /\ Completes(b, how)
  /\ session' = [session EXCEPT ![b].email = Nobody]
  /\ End(b)

secondFactor(b) ==
  /\ At(b, "passed")
  /\ \/ account[task[b].of].mfa /\ ~acr[b] /\ isTrustedDeviceValid(b) /\ Finishes(b, "trusted")
     \/ account[task[b].of].mfa /\ (acr[b] \/ ~isTrustedDeviceValid(b)) /\ AsksFactor(b)
     \/ ~account[task[b].of].mfa /\ acr[b] /\ End(b) /\ UNCHANGED <<session, login, logins>>
     \/ ~account[task[b].of].mfa /\ ~acr[b] /\ Finishes(b, "pwd")
  /\ UNCHANGED <<accounts, acr, cookie, proved>>

---------------------------------------------------------------------------
(* mfaVerify: a right TOTP or recovery code; wrong ones are the business   *)
(* of OtpLockout.                                                          *)
verifyTotp(b) ==
  /\ At(b, "idle") /\ session[b].mfa # Nobody
  /\ account[session[b].mfa].mfa
  /\ Begin(b, "totp", session[b].mfa)
  /\ UNCHANGED <<accounts, acr, browser>>

(* passkeyVerify: the account that awaits its second factor, else the one  *)
(* of the e-mail typed or of the passkey.  Its status is asked again.      *)
verifyPasskey(b) ==
  /\ At(b, "idle")
  /\ \E a \in (IF session[b].mfa # Nobody THEN {session[b].mfa} ELSE Accounts) :
       Begin(b, "presented", a)
  /\ UNCHANGED <<accounts, acr, browser>>

assertLoginAllowed(b) ==
  /\ At(b, "presented")
  /\ \/ ~account[task[b].of].disabled /\ Go(b, "passkey")
     \/ End(b)   \* disabled, unverified, unused too long
  /\ UNCHANGED <<accounts, acr, browser>>

(* The end of both, with the device trusted from now on if that was asked. *)
finishFactor(b) ==
  /\ task[b].phase \in {"totp", "passkey"}
  /\ Completes(b, task[b].phase)
  /\ LET a == task[b].of IN
       /\ proved' = [proved EXCEPT ![b][a] = account[a].enrolment]
       /\ cookie' \in {cookie, [cookie EXCEPT ![b] = [of |-> a, enrolment |-> account[a].enrolment]]}
  /\ session' = [session EXCEPT ![b].email = Nobody, ![b].mfa = Nobody]
  /\ End(b)
  /\ UNCHANGED <<accounts, acr>>

(* magicLinkConsume and otpVerify: whose link or code it is is the         *)
(* business of LoginSlot.  They ask for no second factor.                  *)
consumeMail(b, a) ==
  /\ At(b, "idle")
  /\ Begin(b, "mail", a)
  /\ UNCHANGED <<accounts, acr, browser>>

finishMail(b) ==
  /\ At(b, "mail")
  /\ \/ ~account[task[b].of].disabled /\ Finishes(b, "mail")
     \/ End(b) /\ UNCHANGED <<session, login, logins>>
  /\ UNCHANGED <<accounts, acr, cookie, proved>>

(* changeExpiredPassword: the new password, then the second factor.        *)
changePassword(b) ==
  /\ At(b, "idle") /\ session[b].expired # Nobody
  /\ account' = [account EXCEPT ![session[b].expired].aged = FALSE]
  /\ Begin(b, "changed", session[b].expired)
  /\ session' = [session EXCEPT ![b].expired = Nobody]
  /\ UNCHANGED <<changes, acr, cookie, login, logins, proved>>

changedOnly(b) ==   \* mutant: the forced change does not ask for the second factor
  /\ At(b, "changed")
  /\ Completes(b, "changed") /\ End(b) /\ UNCHANGED session
  /\ UNCHANGED <<accounts, acr, cookie, proved>>

finishChange(b) ==
  /\ At(b, "changed")
  /\ \/ account[task[b].of].mfa /\ AsksFactor(b)
     \/ ~account[task[b].of].mfa /\ Completes(b, "changed") /\ End(b) /\ UNCHANGED session
  /\ UNCHANGED <<accounts, acr, cookie, proved>>

Request(b) ==
  \/ \E a \in Accounts : identifier(b, a)
  \/ show(b) \/ switchIdentifier(b)
  \/ verifyCredentials(b) \/ assertAccountEnabled(b) \/ assertAccountNotExpired(b)
  \/ secondFactor(b)
  \/ verifyTotp(b) \/ verifyPasskey(b) \/ assertLoginAllowed(b) \/ finishFactor(b)
  \/ finishMail(b) \/ \E a \in Accounts : consumeMail(b, a)
  \/ changePassword(b) \/ finishChange(b)

Elsewhere(a) ==
  \/ disable(a) \/ enable(a) \/ confirmTotp(a) \/ disableMfa(a) \/ PasswordAges(a)

Next == (\E b \in Browsers : Request(b)) \/ (\E a \in Accounts : Elsewhere(a))

Spec == Init /\ [][Next]_vars
---------------------------------------------------------------------------
Gates == [disabled : BOOLEAN, mfa : BOOLEAN, enrolment : Nat, aged : BOOLEAN]
Phases == {"idle", "right", "enabled", "passed", "totp", "presented", "passkey", "mail", "changed"}
Tasks == [phase : Phases, of : Someone, disabled : BOOLEAN, mfa : BOOLEAN]
Logins == [of : Someone, by : {"none", "pwd", "trusted", "totp", "passkey", "mail", "changed"},
           disabled : BOOLEAN, mfa : BOOLEAN, acr : BOOLEAN, proven : BOOLEAN]

(* Types of accounts, sessions, requests and logins.                       *)
TypeOK ==
  /\ account \in [Accounts -> Gates]
  /\ acr \in [Browsers -> BOOLEAN]
  /\ session \in [Browsers -> [email : Someone, mfa : Someone, expired : Someone]]
  /\ cookie \in [Browsers -> [of : Someone, enrolment : Nat]]
  /\ task \in [Browsers -> Tasks]
  /\ login \in [Browsers -> Logins]
  /\ logins \in Nat /\ changes \in Nat
  /\ proved \in [Browsers -> [Accounts -> Nat]]

(* A password alone completes a login only if the account was without a    *)
(* second factor at some moment of its last request, and never for a       *)
(* client that requires one, though the keys of a session outlive the      *)
(* interaction; the forced change of an old password is held to the first  *)
(* (for a client that requires MFA it completes without one).              *)
SecondFactorAsked ==
  \A b \in Browsers :
    /\ login[b].by \in {"pwd", "changed"} => ~login[b].mfa
    /\ login[b].by \in {"pwd", "trusted"} => ~login[b].acr

(* A trusted device stands for the second factor only if this browser      *)
(* proved it under the account's present enrolment.                        *)
TrustIsProven == \A b \in Browsers : login[b].by = "trusted" => login[b].proven

(* An account that was disabled all along the request that completes its   *)
(* login had its password checked in an earlier one.                       *)
DisabledOnlyFinishes ==
  \A b \in Browsers : login[b].disabled => login[b].by \in {"totp", "changed"}
===========================================================================
