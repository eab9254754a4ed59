--------------------------- MODULE LoginProofs ----------------------------
(***************************************************************************)
(* What holds of the login for every value of the constants.  First        *)
(* LoginFlow, for every number of browsers, accounts, changes and logins:  *)
(* which logins complete without a second factor, on a trusted device, or  *)
(* for an account that is disabled.  Then AccountLockout, for every number *)
(* of requests, attempts and errors, and every duration of the lock.       *)
(***************************************************************************)
EXTENDS LoginFlow, AccountLockout, Integers, FiniteSetTheorems, WellFoundedInduction, TLAPS

(* What a request says has been so ever since is so now, and a request     *)
(* that passed the status gate is not of an account disabled all along.    *)
Honest(t, gates) ==
  /\ t.phase # "idle" => t.of \in Accounts
  /\ (t.of \in Accounts /\ t.disabled) => gates[t.of].disabled
  /\ (t.of \in Accounts /\ t.mfa) => gates[t.of].mfa
  /\ t.phase \in {"enabled", "passed", "passkey"} => ~t.disabled

(* A trusted device was made so when the factor was proved, and no later   *)
(* enrolment was proved than the account has.                              *)
Trusted(c, p, gates) ==
  /\ c.of \in Accounts => c.enrolment <= p[c.of]
  /\ \A a \in Accounts : p[a] <= gates[a].enrolment

(* What a completed login promises.                                        *)
Fair(l) ==
  /\ l.by \in {"pwd", "changed"} => ~l.mfa
  /\ l.by \in {"pwd", "trusted"} => ~l.acr
  /\ l.by = "trusted" => l.proven
  /\ l.disabled => l.by \in {"totp", "changed"}

IInv ==
  /\ TypeOK
  /\ \A b \in Browsers : Honest(task[b], account)
  /\ \A b \in Browsers : Trusted(cookie[b], proved[b], account)
  /\ \A b \in Browsers : Fair(login[b])

---------------------------------------------------------------------------
LEMMA NoTaskHonest == NoTask \in Tasks /\ \A gates : Honest(NoTask, gates)
BY NobodyAssumption DEF NoTask, Tasks, Phases, Someone, Honest

(* A step that leaves the accounts alone: the task of one browser becomes  *)
(* another honest one, and its session is of its type.                     *)
LEMMA TaskStep ==
  ASSUME IInv, NEW b \in Browsers, NEW t \in Tasks, Honest(t, account),
         task' = [task EXCEPT ![b] = t],
         UNCHANGED <<account, changes, cookie, login, logins, proved>>,
         acr' \in [Browsers -> BOOLEAN],
         session' \in [Browsers -> [email : Someone, mfa : Someone, expired : Someone]]
  PROVE  IInv'
<1>1. TypeOK'
  BY DEF IInv, TypeOK
<1>2. \A c \in Browsers : task'[c] = IF c = b THEN t ELSE task[c]
  BY DEF IInv, TypeOK
<1>3. \A c \in Browsers : Honest(task'[c], account)
  BY <1>2 DEF IInv
<1>4. QED
  BY <1>1, <1>3 DEF IInv

(* A login completes: it is fair, and the browser's request ends.          *)
LEMMA LoginStep ==
  ASSUME IInv, NEW b \in Browsers, NEW l \in Logins, Fair(l),
         login' = [login EXCEPT ![b] = l], logins' = logins + 1, End(b),
         UNCHANGED <<accounts, acr>>,
         session' \in [Browsers -> [email : Someone, mfa : Someone, expired : Someone]],
         cookie' \in [Browsers -> [of : Someone, enrolment : Nat]],
         proved' \in [Browsers -> [Accounts -> Nat]],
         \A c \in Browsers : Trusted(cookie'[c], proved'[c], account)
  PROVE  IInv'
<1>1. account' = account /\ changes' = changes /\ acr' = acr
  BY DEF accounts
<1>2. task' = [task EXCEPT ![b] = NoTask]
  BY DEF End
<1>3. TypeOK'
  BY <1>1, <1>2, NoTaskHonest DEF IInv, TypeOK
<1>4. \A c \in Browsers : /\ task'[c] = IF c = b THEN NoTask ELSE task[c]
                          /\ login'[c] = IF c = b THEN l ELSE login[c]
  BY <1>2 DEF IInv, TypeOK
<1>5. \A c \in Browsers : Honest(task'[c], account) /\ Fair(login'[c])
  BY <1>4, NoTaskHonest DEF IInv
<1>6. QED
  BY <1>1, <1>3, <1>5 DEF IInv

(* The login that Completes records.                                       *)
LEMMA CompletedType ==
  ASSUME IInv, NEW b \in Browsers, task[b].of \in Accounts,
         NEW how \in {"pwd", "trusted", "totp", "passkey", "mail", "changed"}, Completes(b, how)
  PROVE  \E l \in Logins :
           /\ login' = [login EXCEPT ![b] = l] /\ logins' = logins + 1
           /\ l.of = task[b].of /\ l.by = how /\ l.disabled = task[b].disabled
           /\ l.mfa = task[b].mfa /\ l.acr = acr[b]
           /\ l.proven = (proved[b][task[b].of] = account[task[b].of].enrolment)
<1> DEFINE l == [of |-> task[b].of, by |-> how, disabled |-> task[b].disabled, mfa |-> task[b].mfa,
                 acr |-> acr[b], proven |-> proved[b][task[b].of] = account[task[b].of].enrolment]
<1>1. task[b] \in Tasks /\ acr[b] \in BOOLEAN
  BY DEF IInv, TypeOK
<1>2. (proved[b][task[b].of] = account[task[b].of].enrolment) \in BOOLEAN
  OBVIOUS
<1>3. l \in Logins
  BY <1>1, <1>2 DEF Logins, Tasks
<1>4. login' = [login EXCEPT ![b] = l] /\ logins' = logins + 1
  BY DEF Completes
<1>5. QED
  BY <1>3, <1>4

---------------------------------------------------------------------------
(* Elsewhere: what a request says has been so ever since, the change that  *)
(* ends it takes away.                                                     *)
LEMMA ElsewhereKeeps ==
  ASSUME IInv, NEW a \in Accounts, Elsewhere(a)
  PROVE  IInv'
<1>1. /\ changes' = changes + 1 /\ acr' = acr /\ session' = session /\ cookie' = cookie
      /\ login' = login /\ logins' = logins /\ proved' = proved
  BY DEF Elsewhere, disable, enable, confirmTotp, disableMfa, PasswordAges, Change, browser
<1>2. /\ account' \in [Accounts -> Gates]
      /\ \A x \in Accounts : x # a => account'[x] = account[x]
      /\ account'[a].enrolment >= account[a].enrolment
  <2>1. account \in [Accounts -> Gates] /\ account[a] \in Gates
    BY DEF IInv, TypeOK
  <2> DEFINE d == [account[a] EXCEPT !.disabled = TRUE]
             e == [account[a] EXCEPT !.disabled = FALSE]
             c == [account[a] EXCEPT !.mfa = TRUE, !.enrolment = @ + 1]
             m == [account[a] EXCEPT !.mfa = FALSE]
             g == [account[a] EXCEPT !.aged = TRUE]
  <2>2. /\ d \in Gates /\ d.enrolment >= account[a].enrolment
        /\ e \in Gates /\ e.enrolment >= account[a].enrolment
        /\ m \in Gates /\ m.enrolment >= account[a].enrolment
        /\ g \in Gates /\ g.enrolment >= account[a].enrolment
    <3>1. /\ d.enrolment = account[a].enrolment /\ e.enrolment = account[a].enrolment
          /\ m.enrolment = account[a].enrolment /\ g.enrolment = account[a].enrolment
          /\ account[a].enrolment \in Nat
      BY <2>1 DEF Gates
    <3>2. d \in Gates
      BY <2>1 DEF Gates
    <3>3. e \in Gates
      BY <2>1 DEF Gates
    <3>4. m \in Gates
      BY <2>1 DEF Gates
    <3>5. g \in Gates
      BY <2>1 DEF Gates
    <3> HIDE DEF d, e, c, m, g
    <3>6. QED
      BY <3>1, <3>2, <3>3, <3>4, <3>5
  <2>4. c \in Gates /\ c.enrolment >= account[a].enrolment
    <3>1. account[a].enrolment \in Nat /\ c.enrolment = account[a].enrolment + 1
      BY <2>1 DEF Gates
    <3> DEFINE n == account[a].enrolment + 1
               k == [account[a] EXCEPT !.mfa = TRUE]
    <3>4. k \in Gates /\ k.enrolment = account[a].enrolment
      BY <2>1 DEF Gates
    <3>5. c = [k EXCEPT !.enrolment = n]
      BY <2>1, <3>4 DEF Gates
    <3>6. n \in Nat
      BY <3>1
    <3> HIDE DEF n, k
    <3>2. c \in Gates
      BY <3>4, <3>5, <3>6 DEF Gates
    <3> HIDE DEF c
    <3>3. QED
      BY <3>1, <3>2
  <2>5. Change(a, d) \/ Change(a, e) \/ Change(a, c) \/ Change(a, m) \/ Change(a, g)
    BY Zenon DEF Elsewhere, disable, enable, confirmTotp, disableMfa, PasswordAges
  <2>6. \A rec \in Gates : Change(a, rec) /\ rec.enrolment >= account[a].enrolment =>
          /\ account' \in [Accounts -> Gates]
          /\ \A x \in Accounts : x # a => account'[x] = account[x]
          /\ account'[a].enrolment >= account[a].enrolment
    BY <2>1 DEF Change
  <2> HIDE DEF d, e, c, m, g
  <2>7. QED
    BY <2>2, <2>4, <2>5, <2>6
<1>3. task' \in [Browsers -> Tasks]
  <2>1. task \in [Browsers -> Tasks]
    BY DEF IInv, TypeOK
  <2>2. \A c \in Browsers : /\ [task[c] EXCEPT !.disabled = FALSE] \in Tasks
                            /\ [task[c] EXCEPT !.mfa = FALSE] \in Tasks
    BY <2>1 DEF Tasks
  <2>3. CASE enable(a)
    BY <2>1, <2>2, <2>3 DEF enable
  <2>4. CASE disableMfa(a)
    BY <2>1, <2>2, <2>4 DEF disableMfa
  <2>5. CASE task' = task
    BY <2>1, <2>5
  <2>6. QED
    BY <2>3, <2>4, <2>5 DEF Elsewhere, disable, confirmTotp, PasswordAges
<1>4. ASSUME NEW b \in Browsers PROVE Honest(task'[b], account')
  <2>1. task[b] \in Tasks /\ Honest(task[b], account) /\ account[a] \in Gates
    BY DEF IInv, TypeOK
  <2>2. CASE disable(a) \/ confirmTotp(a) \/ PasswordAges(a)
    <3>1. task'[b] = task[b]
      BY <2>2 DEF disable, confirmTotp, PasswordAges
    <3>2. /\ account[a].disabled => account'[a].disabled
          /\ account[a].mfa => account'[a].mfa
      <4>1. account \in [Accounts -> Gates]
        BY DEF IInv, TypeOK
      <4>2. CASE disable(a)
        BY <2>1, <4>1, <4>2 DEF disable, Change, Gates
      <4>3. CASE confirmTotp(a)
        BY <2>1, <4>1, <4>3 DEF confirmTotp, Change, Gates
      <4>4. CASE PasswordAges(a)
        BY <2>1, <4>1, <4>4 DEF PasswordAges, Change, Gates
      <4>5. QED
        BY <2>2, <4>2, <4>3, <4>4
    <3>3. QED
      BY <1>2, <2>1, <3>1, <3>2 DEF Honest
  <2>3. CASE enable(a)
    <3>1. task'[b] = IF task[b].of = a THEN [task[b] EXCEPT !.disabled = FALSE] ELSE task[b]
      BY <2>3 DEF enable
    <3>2. account'[a].mfa = account[a].mfa
      BY <2>3, <2>1 DEF enable, Change, IInv, TypeOK, Gates
    <3>3. CASE task[b].of = a
      BY <2>1, <3>1, <3>2, <3>3 DEF Honest, Tasks
    <3>4. CASE task[b].of # a
      BY <1>2, <2>1, <3>1, <3>4 DEF Honest
    <3>5. QED
      BY <3>3, <3>4
  <2>4. CASE disableMfa(a)
    <3>1. task'[b] = IF task[b].of = a THEN [task[b] EXCEPT !.mfa = FALSE] ELSE task[b]
      BY <2>4 DEF disableMfa
    <3>2. account'[a].disabled = account[a].disabled
      BY <2>4, <2>1 DEF disableMfa, Change, IInv, TypeOK, Gates
    <3>3. CASE task[b].of = a
      BY <2>1, <3>1, <3>2, <3>3 DEF Honest, Tasks
    <3>4. CASE task[b].of # a
      BY <1>2, <2>1, <3>1, <3>4 DEF Honest
    <3>5. QED
      BY <3>3, <3>4
  <2>5. QED
    BY <2>2, <2>3, <2>4 DEF Elsewhere
<1>5. ASSUME NEW b \in Browsers PROVE Trusted(cookie'[b], proved'[b], account')
  <2>1. Trusted(cookie[b], proved[b], account) /\ proved[b] \in [Accounts -> Nat]
    BY DEF IInv, TypeOK
  <2>2. \A x \in Accounts : account[x].enrolment \in Nat /\ account'[x].enrolment \in Nat
                          /\ account[x].enrolment <= account'[x].enrolment
    <3>1. \A x \in Accounts : account[x].enrolment \in Nat /\ account'[x].enrolment \in Nat
      BY <1>2 DEF IInv, TypeOK, Gates
    <3>2. QED
      BY <1>2, <3>1
  <2>3. \A x \in Accounts : proved[b][x] <= account'[x].enrolment
    BY <2>1, <2>2 DEF Trusted
  <2>4. QED
    BY <1>1, <2>1, <2>3 DEF Trusted
<1>6. TypeOK'
  BY <1>1, <1>2, <1>3 DEF IInv, TypeOK
<1>7. QED
  BY <1>1, <1>4, <1>5, <1>6 DEF IInv

---------------------------------------------------------------------------
(* Requests that complete no login.                                        *)
Sessions == [email : Someone, mfa : Someone, expired : Someone]

LEMMA GoHonest ==
  ASSUME IInv, NEW b \in Browsers, task[b].phase # "idle", NEW phase \in Phases,
         phase \in {"enabled", "passed", "passkey"} => ~task[b].disabled, Go(b, phase)
  PROVE  \E t \in Tasks : Honest(t, account) /\ task' = [task EXCEPT ![b] = t]
<1> DEFINE t == [task[b] EXCEPT !.phase = phase]
<1>1. task[b] \in Tasks /\ Honest(task[b], account)
  BY DEF IInv, TypeOK
<1>2. t \in Tasks
  BY <1>1 DEF Tasks
<1>3. t.phase = phase /\ t.of = task[b].of /\ t.disabled = task[b].disabled /\ t.mfa = task[b].mfa
  BY <1>1 DEF Tasks
<1>4. Honest(t, account)
  BY <1>1, <1>3 DEF Honest
<1>5. task' = [task EXCEPT ![b] = t]
  BY DEF Go, IInv, TypeOK
<1>6. QED
  BY <1>2, <1>4, <1>5

LEMMA EndHonest ==
  ASSUME NEW b \in Browsers, End(b)
  PROVE  \E t \in Tasks : Honest(t, account) /\ task' = [task EXCEPT ![b] = t]
BY NoTaskHonest DEF End

LEMMA BeginHonest ==
  ASSUME IInv, NEW b \in Browsers, NEW a \in Accounts,
         NEW phase \in {"right", "totp", "presented", "mail", "changed"}, Begin(b, phase, a)
  PROVE  \E t \in Tasks : Honest(t, account) /\ task' = [task EXCEPT ![b] = t]
<1> DEFINE t == [phase |-> phase, of |-> a, disabled |-> account[a].disabled, mfa |-> account[a].mfa]
<1>1. account[a] \in Gates
  BY DEF IInv, TypeOK
<1>2. t \in Tasks /\ Honest(t, account)
  BY <1>1 DEF Gates, Tasks, Phases, Someone, Honest
<1>3. QED
  BY <1>2 DEF Begin

LEMMA SessionForms ==
  ASSUME IInv, NEW b \in Browsers, NEW x \in Someone
  PROVE  /\ session \in [Browsers -> Sessions]
         /\ [session EXCEPT ![b].email = x] \in [Browsers -> Sessions]
         /\ [session EXCEPT ![b].expired = x] \in [Browsers -> Sessions]
         /\ [session EXCEPT ![b].mfa = x] \in [Browsers -> Sessions]
         /\ [session EXCEPT ![b].email = x, ![b].mfa = x] \in [Browsers -> Sessions]
<1>1. session \in [Browsers -> Sessions] /\ session[b] \in Sessions
  BY DEF IInv, TypeOK, Sessions
<1>2. /\ [session[b] EXCEPT !.email = x] \in Sessions /\ [session[b] EXCEPT !.expired = x] \in Sessions
      /\ [session[b] EXCEPT !.mfa = x] \in Sessions
      /\ [session[b] EXCEPT !.email = x, !.mfa = x] \in Sessions
  BY <1>1 DEF Sessions
<1>3. \A rec \in Sessions : [session EXCEPT ![b] = rec] \in [Browsers -> Sessions]
  BY <1>1
<1>4. QED
  BY <1>1, <1>2, <1>3

LEMMA TaskOwner ==
  ASSUME IInv, NEW b \in Browsers
  PROVE  task[b].of \in Someone /\ Nobody \in Someone
BY DEF IInv, TypeOK, Tasks, Someone

LEMMA SettingsKeep ==
  ASSUME IInv, NEW b \in Browsers,
         show(b) \/ switchIdentifier(b) \/ \E a \in Accounts : identifier(b, a)
  PROVE  IInv'
<1>1. UNCHANGED <<account, changes, cookie, login, logins, proved, task>>
  BY DEF show, switchIdentifier, identifier, accounts, browser
<1>2. acr' \in [Browsers -> BOOLEAN]
  BY DEF show, switchIdentifier, identifier, IInv, TypeOK
<1>3. session' \in [Browsers -> Sessions]
  <2>1. CASE show(b)
    BY <2>1, SessionForms, TaskOwner DEF show, browser
  <2>2. CASE switchIdentifier(b)
    BY <2>2, SessionForms, TaskOwner DEF switchIdentifier
  <2>3. CASE \E a \in Accounts : identifier(b, a)
    <3>1. PICK a \in Accounts : session' = [session EXCEPT ![b].email = a]
      BY <2>3 DEF identifier
    <3>2. a \in Someone
      BY DEF Someone
    <3>3. [session EXCEPT ![b].email = a] \in [Browsers -> Sessions]
      BY <3>2, SessionForms
    <3>4. QED
      BY <3>1, <3>3
  <2>4. QED
    BY <2>1, <2>2, <2>3
<1>4. task[b] \in Tasks /\ Honest(task[b], account) /\ task' = [task EXCEPT ![b] = task[b]]
  BY <1>1 DEF IInv, TypeOK
<1>5. QED
  BY <1>1, <1>2, <1>3, <1>4, TaskStep DEF Sessions

LEMMA BeginKeeps ==
  ASSUME IInv, NEW b \in Browsers,
         verifyCredentials(b) \/ verifyTotp(b) \/ verifyPasskey(b) \/ \E a \in Accounts : consumeMail(b, a)
  PROVE  IInv'
<1>1. UNCHANGED <<account, changes, cookie, login, logins, proved, acr, session>>
  BY DEF verifyCredentials, verifyTotp, verifyPasskey, consumeMail, accounts, browser
<1>2. acr \in [Browsers -> BOOLEAN] /\ session \in [Browsers -> Sessions]
  BY DEF IInv, TypeOK, Sessions
<1>3. session[b].email \in Someone /\ session[b].mfa \in Someone
  BY <1>2 DEF Sessions
<1>4. \E a \in Accounts, phase \in {"right", "totp", "presented", "mail", "changed"} : Begin(b, phase, a)
  BY <1>3 DEF verifyCredentials, verifyTotp, verifyPasskey, consumeMail, Someone
<1>5. QED
  BY <1>1, <1>2, <1>4, BeginHonest, TaskStep DEF Sessions

LEMMA GateKeeps ==
  ASSUME IInv, NEW b \in Browsers,
         assertAccountEnabled(b) \/ assertAccountNotExpired(b) \/ assertLoginAllowed(b)
  PROVE  IInv'
<1>1. UNCHANGED <<account, changes, cookie, login, logins, proved, acr>>
  BY DEF assertAccountEnabled, assertAccountNotExpired, assertLoginAllowed, accounts, browser
<1>2. acr \in [Browsers -> BOOLEAN] /\ session \in [Browsers -> Sessions]
      /\ task[b] \in Tasks /\ Honest(task[b], account)
  BY DEF IInv, TypeOK, Sessions
<1>3. session' \in [Browsers -> Sessions]
  BY <1>2 DEF assertAccountEnabled, assertAccountNotExpired, assertLoginAllowed, browser,
              ForcesChange, Sessions, Tasks
<1>4. task[b].phase # "idle" /\ task[b].of \in Accounts
  BY <1>2 DEF assertAccountEnabled, assertAccountNotExpired, assertLoginAllowed, At, Honest
<1>5. CASE End(b)
  BY <1>1, <1>2, <1>3, <1>5, EndHonest, TaskStep DEF Sessions
<1>6. CASE At(b, "right") /\ ~account[task[b].of].disabled /\ Go(b, "enabled")
  <2>1. ~task[b].disabled
    BY <1>2, <1>4, <1>6 DEF Honest
  <2>2. QED
    BY <1>1, <1>2, <1>3, <1>4, <1>6, <2>1, GoHonest, TaskStep DEF Sessions, Phases
<1>7. CASE At(b, "enabled") /\ Go(b, "passed")
  <2>1. ~task[b].disabled
    BY <1>2, <1>7 DEF Honest, At
  <2>2. QED
    BY <1>1, <1>2, <1>3, <1>4, <1>7, <2>1, GoHonest, TaskStep DEF Sessions, Phases
<1>8. CASE ~account[task[b].of].disabled /\ Go(b, "passkey")
  <2>1. ~task[b].disabled
    BY <1>2, <1>4, <1>8 DEF Honest
  <2>2. QED
    BY <1>1, <1>2, <1>3, <1>4, <1>8, <2>1, GoHonest, TaskStep DEF Sessions, Phases
<1>9. QED
  BY <1>5, <1>6, <1>7, <1>8 DEF assertAccountEnabled, assertAccountNotExpired, assertLoginAllowed,
                                ForcesChange

---------------------------------------------------------------------------
(* Requests that complete a login, or ask for the second factor first.     *)
LEMMA AsksKeeps ==
  ASSUME IInv, NEW b \in Browsers, session' \in [Browsers -> Sessions], End(b),
         UNCHANGED <<account, changes, cookie, login, logins, proved, acr>>
  PROVE  IInv'
<1>1. acr \in [Browsers -> BOOLEAN]
  BY DEF IInv, TypeOK
<1>2. QED
  BY <1>1, EndHonest, TaskStep DEF Sessions

LEMMA FinishKeeps ==
  ASSUME IInv, NEW b \in Browsers, task[b].of \in Accounts,
         NEW how \in {"pwd", "trusted", "mail", "changed"}, Completes(b, how), End(b),
         session' \in [Browsers -> Sessions], UNCHANGED <<accounts, acr, cookie, proved>>,
         how \in {"pwd", "changed"} => ~task[b].mfa,
         how \in {"pwd", "trusted"} => ~acr[b],
         how = "trusted" => proved[b][task[b].of] = account[task[b].of].enrolment,
         how # "changed" => ~task[b].disabled
  PROVE  IInv'
<1>1. PICK l \in Logins :
        /\ login' = [login EXCEPT ![b] = l] /\ logins' = logins + 1
        /\ l.of = task[b].of /\ l.by = how /\ l.disabled = task[b].disabled
        /\ l.mfa = task[b].mfa /\ l.acr = acr[b]
        /\ l.proven = (proved[b][task[b].of] = account[task[b].of].enrolment)
  BY CompletedType
<1>2. Fair(l)
  BY <1>1 DEF Fair
<1>3. /\ cookie' \in [Browsers -> [of : Someone, enrolment : Nat]]
      /\ proved' \in [Browsers -> [Accounts -> Nat]]
      /\ \A c \in Browsers : Trusted(cookie'[c], proved'[c], account)
  BY DEF IInv, TypeOK
<1>4. QED
  BY <1>1, <1>2, <1>3, LoginStep DEF Sessions

LEMMA SecondFactorKeeps ==
  ASSUME IInv, NEW b \in Browsers, secondFactor(b)
  PROVE  IInv'
<1>1. UNCHANGED <<account, changes, cookie, proved, acr>> /\ UNCHANGED <<accounts, acr, cookie, proved>>
  BY DEF secondFactor, accounts
<1>2. /\ task[b].of \in Accounts /\ ~task[b].disabled
      /\ task[b].mfa => account[task[b].of].mfa
  BY DEF secondFactor, At, IInv, Honest
<1>3. CASE account[task[b].of].mfa /\ ~acr[b] /\ isTrustedDeviceValid(b) /\ Finishes(b, "trusted")
  <2>1. /\ proved[b][task[b].of] <= account[task[b].of].enrolment
        /\ account[task[b].of].enrolment <= cookie[b].enrolment
        /\ cookie[b].enrolment <= proved[b][task[b].of]
    BY <1>2, <1>3 DEF isTrustedDeviceValid, IInv, Trusted, TypeOK, Gates
  <2>2. proved[b][task[b].of] \in Nat /\ account[task[b].of].enrolment \in Nat /\ cookie[b].enrolment \in Nat
    BY <1>2 DEF IInv, TypeOK, Gates
  <2>3. proved[b][task[b].of] = account[task[b].of].enrolment
    BY <2>1, <2>2
  <2>4. QED
    BY <1>1, <1>2, <1>3, <2>3, SessionForms, TaskOwner, FinishKeeps DEF Finishes
<1>4. CASE AsksFactor(b)
  BY <1>1, <1>4, SessionForms, TaskOwner, AsksKeeps DEF AsksFactor
<1>5. CASE End(b) /\ UNCHANGED <<session, login, logins>>
  BY <1>1, <1>5, SessionForms, TaskOwner, AsksKeeps
<1>6. CASE ~account[task[b].of].mfa /\ ~acr[b] /\ Finishes(b, "pwd")
  BY <1>1, <1>2, <1>6, SessionForms, TaskOwner, FinishKeeps DEF Finishes
<1>7. QED
  BY <1>3, <1>4, <1>5, <1>6 DEF secondFactor

LEMMA FactorKeeps ==
  ASSUME IInv, NEW b \in Browsers, finishFactor(b)
  PROVE  IInv'
<1> DEFINE a == task[b].of
           e == account[a].enrolment
<1>1. task[b].phase \in {"totp", "passkey"} /\ a \in Accounts /\ e \in Nat
      /\ (task[b].disabled => task[b].phase = "totp")
  BY DEF finishFactor, IInv, Honest, TypeOK, Gates
<1>2. /\ proved' = [proved EXCEPT ![b][a] = e]
      /\ cookie' \in {cookie, [cookie EXCEPT ![b] = [of |-> a, enrolment |-> e]]}
      /\ Completes(b, task[b].phase) /\ End(b) /\ UNCHANGED <<accounts, acr>>
      /\ session' = [session EXCEPT ![b].email = Nobody, ![b].mfa = Nobody]
  BY DEF finishFactor
<1>3. /\ cookie \in [Browsers -> [of : Someone, enrolment : Nat]]
      /\ proved \in [Browsers -> [Accounts -> Nat]]
      /\ \A c \in Browsers : Trusted(cookie[c], proved[c], account)
      /\ account \in [Accounts -> Gates]
  BY DEF IInv, TypeOK
<1> HIDE DEF e
<1>4. cookie' \in [Browsers -> [of : Someone, enrolment : Nat]] /\ proved' \in [Browsers -> [Accounts -> Nat]]
  BY <1>1, <1>2, <1>3 DEF Someone
<1>5. /\ proved'[b] = [proved[b] EXCEPT ![a] = e]
      /\ \A c \in Browsers : c # b => proved'[c] = proved[c] /\ cookie'[c] = cookie[c]
      /\ cookie'[b] \in {cookie[b], [of |-> a, enrolment |-> e]}
  BY <1>2, <1>3
<1>6. Trusted(cookie'[b], proved'[b], account)
  <2>1. Trusted(cookie[b], proved[b], account) /\ proved[b] \in [Accounts -> Nat]
        /\ cookie[b].enrolment \in Nat
    BY <1>3
  <2>2. \A x \in Accounts : proved'[b][x] = IF x = a THEN e ELSE proved[b][x]
    BY <1>5, <2>1
  <2>3. \A x \in Accounts : proved[b][x] <= proved'[b][x]
    BY <1>1, <2>1, <2>2 DEF Trusted, e
  <2>4. \A x \in Accounts : proved'[b][x] <= account[x].enrolment
    BY <1>1, <2>1, <2>2 DEF Trusted, e
  <2>5. \A x \in Accounts : proved[b][x] \in Nat /\ proved'[b][x] \in Nat
    BY <1>1, <2>1, <2>2
  <2>6. cookie'[b].of \in Accounts => cookie'[b].enrolment <= proved'[b][cookie'[b].of]
    <3>1. CASE cookie'[b] = cookie[b]
      BY <2>1, <2>3, <2>5, <3>1 DEF Trusted
    <3>2. CASE cookie'[b] = [of |-> a, enrolment |-> e]
      BY <1>1, <2>2, <3>2
    <3>3. QED
      BY <1>5, <3>1, <3>2
  <2>7. QED
    BY <2>4, <2>6 DEF Trusted
<1>7. \A c \in Browsers : Trusted(cookie'[c], proved'[c], account)
  BY <1>3, <1>5, <1>6
<1>8. PICK l \in Logins :
        /\ login' = [login EXCEPT ![b] = l] /\ logins' = logins + 1
        /\ l.by = task[b].phase /\ l.disabled = task[b].disabled
  BY <1>1, <1>2, CompletedType
<1>9. Fair(l)
  BY <1>1, <1>8 DEF Fair
<1>10. QED
  BY <1>2, <1>4, <1>7, <1>8, <1>9, SessionForms, TaskOwner, LoginStep DEF Sessions

LEMMA MailKeeps ==
  ASSUME IInv, NEW b \in Browsers, finishMail(b)
  PROVE  IInv'
<1>1. UNCHANGED <<account, changes, cookie, proved, acr>> /\ UNCHANGED <<accounts, acr, cookie, proved>>
  BY DEF finishMail, accounts
<1>2. /\ task[b].of \in Accounts
      /\ task[b].disabled => account[task[b].of].disabled
  BY DEF finishMail, At, IInv, Honest
<1>3. CASE ~account[task[b].of].disabled /\ Finishes(b, "mail")
  BY <1>1, <1>2, <1>3, SessionForms, TaskOwner, FinishKeeps DEF Finishes
<1>4. CASE End(b) /\ UNCHANGED <<session, login, logins>>
  BY <1>1, <1>4, SessionForms, TaskOwner, AsksKeeps
<1>5. QED
  BY <1>3, <1>4 DEF finishMail

LEMMA ChangeKeeps ==
  ASSUME IInv, NEW b \in Browsers, finishChange(b)
  PROVE  IInv'
<1>1. UNCHANGED <<account, changes, cookie, proved, acr>> /\ UNCHANGED <<accounts, acr, cookie, proved>>
  BY DEF finishChange, accounts
<1>2. /\ task[b].of \in Accounts
      /\ task[b].mfa => account[task[b].of].mfa
  BY DEF finishChange, At, IInv, Honest
<1>3. CASE AsksFactor(b)
  BY <1>1, <1>3, SessionForms, TaskOwner, AsksKeeps DEF AsksFactor
<1>4. CASE ~account[task[b].of].mfa /\ Completes(b, "changed") /\ End(b) /\ UNCHANGED session
  BY <1>1, <1>2, <1>4, SessionForms, TaskOwner, FinishKeeps
<1>5. QED
  BY <1>3, <1>4 DEF finishChange

(* The new password is set when the request begins.                        *)
LEMMA PasswordKeeps ==
  ASSUME IInv, NEW b \in Browsers, changePassword(b)
  PROVE  IInv'
<1> DEFINE a == session[b].expired
           t == [phase |-> "changed", of |-> a, disabled |-> account[a].disabled, mfa |-> account[a].mfa]
<1>1. a \in Accounts
  BY DEF changePassword, IInv, TypeOK, Someone
<1>2. /\ account' = [account EXCEPT ![a].aged = FALSE] /\ task' = [task EXCEPT ![b] = t]
      /\ UNCHANGED <<changes, acr, cookie, login, logins, proved>>
      /\ session' \in [Browsers -> Sessions]
  BY SessionForms, TaskOwner DEF changePassword, Begin
<1>3. account \in [Accounts -> Gates] /\ task \in [Browsers -> Tasks]
  BY DEF IInv, TypeOK
<1>4. /\ account' \in [Accounts -> Gates]
      /\ \A x \in Accounts : /\ account'[x].disabled = account[x].disabled
                             /\ account'[x].mfa = account[x].mfa
                             /\ account'[x].enrolment = account[x].enrolment
  BY <1>1, <1>2, <1>3 DEF Gates
<1>5. t \in Tasks /\ Honest(t, account)
  BY <1>1, <1>3 DEF Tasks, Phases, Gates, Someone, Honest
<1> HIDE DEF t, a
<1>6. TypeOK'
  BY <1>2, <1>3, <1>4, <1>5 DEF IInv, TypeOK, Sessions
<1>7. ASSUME NEW c \in Browsers PROVE Honest(task'[c], account') /\ Trusted(cookie'[c], proved'[c], account')
  <2>1. task'[c] \in {t, task[c]}
    BY <1>2, <1>3
  <2>2. Honest(task'[c], account) /\ Trusted(cookie[c], proved[c], account)
    BY <1>5, <2>1 DEF IInv
  <2>3. QED
    BY <1>2, <1>4, <2>2 DEF Honest, Trusted
<1>8. QED
  BY <1>2, <1>6, <1>7 DEF IInv

LEMMA InitKeeps == Init => IInv
<1> SUFFICES ASSUME Init PROVE IInv
  OBVIOUS
<1>1. account \in [Accounts -> Gates] /\ acr \in [Browsers -> BOOLEAN]
  BY DEF Init, Gates
<1>2. session \in [Browsers -> Sessions] /\ cookie \in [Browsers -> [of : Someone, enrolment : Nat]]
  BY DEF Init, Sessions, Someone
<1>3. NoLogin \in Logins /\ Fair(NoLogin)
  BY DEF NoLogin, Logins, Someone, Fair
<1>4. task \in [Browsers -> Tasks] /\ login \in [Browsers -> Logins]
  BY <1>3, NoTaskHonest DEF Init
<1>5. proved \in [Browsers -> [Accounts -> Nat]] /\ logins \in Nat /\ changes \in Nat
  BY DEF Init
<1>6. TypeOK
  BY <1>1, <1>2, <1>4, <1>5 DEF TypeOK, Sessions
<1>7. \A b \in Browsers : Honest(task[b], account) /\ Fair(login[b])
  BY <1>3, NoTaskHonest DEF Init
<1>8. ASSUME NEW b \in Browsers PROVE Trusted(cookie[b], proved[b], account)
  <2>1. cookie[b].of = Nobody
    BY DEF Init
  <2>2. \A a \in Accounts : proved[b][a] = 0 /\ account[a].enrolment = 0
    BY DEF Init
  <2>3. QED
    BY <2>1, <2>2, NobodyAssumption DEF Trusted
<1>9. QED
  BY <1>6, <1>7, <1>8 DEF IInv

LEMMA StutterKeeps ==
  ASSUME IInv, UNCHANGED vars
  PROVE  IInv'
BY DEF IInv, vars, TypeOK

---------------------------------------------------------------------------
(* The requests under way say what has been so ever since, devices are     *)
(* trusted for what was proved, and every completed login is fair.         *)
THEOREM InvariantHolds == Spec => []IInv
<1>1. Init => IInv
  BY InitKeeps
<1>2. IInv /\ [Next]_vars => IInv'
  BY ElsewhereKeeps, SettingsKeep, BeginKeeps, GateKeeps, SecondFactorKeeps, FactorKeeps, MailKeeps,
     ChangeKeeps, PasswordKeeps, StutterKeeps DEF Next, Request
<1>3. QED
  BY <1>1, <1>2, PTL DEF Spec

(* Accounts, sessions, requests and logins are well typed.                 *)
THEOREM TypeCorrect == Spec => []TypeOK
<1>1. IInv => TypeOK
  BY DEF IInv
<1>2. QED
  BY <1>1, InvariantHolds, PTL

(* A password alone completes a login only for an account that was without *)
(* a second factor at some moment of the request, and for no client that   *)
(* requires one.                                                           *)
THEOREM SecondFactorIsAsked == Spec => []SecondFactorAsked
<1>1. IInv => SecondFactorAsked
  BY DEF IInv, Fair, SecondFactorAsked
<1>2. QED
  BY <1>1, InvariantHolds, PTL

(* A trusted device stands for the second factor only after this browser   *)
(* proved it under the account's present enrolment.                        *)
THEOREM TrustNeedsProof == Spec => []TrustIsProven
<1>1. IInv => TrustIsProven
  BY DEF IInv, Fair, TrustIsProven
<1>2. QED
  BY <1>1, InvariantHolds, PTL

(* An account disabled all along a request completes in it only a login    *)
(* whose password an earlier one checked.                                  *)
THEOREM DisabledDoNotBegin == Spec => []DisabledOnlyFinishes
<1>1. IInv => DisabledOnlyFinishes
  BY DEF IInv, Fair, DisabledOnlyFinishes
<1>2. QED
  BY <1>1, InvariantHolds, PTL

---------------------------------------------------------------------------
(***************************************************************************)
(* The lock of the password.  How many guesses are under way while it is   *)
(* off, and who is still to report it while it is on.                      *)
(***************************************************************************)
(* The two counts and the history are numbers, and who is to set, forget   *)
(* or report a lock knows for how long it is.                              *)
Attempts == [phase : LockoutPhases, sec : 0..maxLockoutSec]
Setting == {"blocking", "forgetting", "reporting"}

Sound ==
  /\ fails \in Nat /\ locks \in Nat /\ guesses \in Nat /\ reports \in Nat
  /\ lock \in 0..maxLockoutSec /\ reported \in 0..maxLockoutSec
  /\ req \in [Requests -> Attempts]
  /\ errors \in 0..MaxErrors /\ overlapped \in BOOLEAN
  /\ \A r \in Requests : req[r].phase \in Setting => req[r].sec # 0

(* Who has set the lock and has not reported it.                           *)
Reporting(r) == req[r].phase \in {"forgetting", "reporting"}

(* With the lock on nobody new is past asking for it: if one alone was     *)
(* when it was set, that one is to report it or has.                       *)
Reported ==
  lock # 0 /\ errors = 0 =>
    /\ reports >= 1 \/ \E r \in Requests : Reporting(r)
    /\ overlapped
       \/ (reports = 1 /\ reported = lock /\ \A r \in Requests : ~Past(r))
       \/ (reports = 0 /\ \E r \in Requests : /\ Reporting(r) /\ req[r].sec = lock
                                              /\ \A q \in Requests \ {r} : ~Past(q))

(* How many guesses there can be.  Requests are counted by their phase:    *)
(* who may still guess, who holds a wrong password not counted yet or is   *)
(* to set the lock, and who is to forget a count.                          *)
In(phases) == {r \in Requests : req[r].phase \in phases}
Number(phases) == Cardinality(In(phases))
All == Cardinality(Requests)

Asked == {"asked"}
Guessing == {"wrong", "failed", "counting", "locking", "blocking"}
Forgetting == {"forgetting"}

(* The count, as far as it bounds the guesses: from the threshold on who   *)
(* counted one is to set the lock.                                         *)
Counted == IF fails < MaxAttempts THEN fails ELSE MaxAttempts - 1

(* What the requests that no longer are to forget a count may have         *)
(* forgotten, but for one of them.                                         *)
Forgotten(n) == (MaxAttempts - 1) * (All - 1 - n)

(* Without the lock a wrong password is counted, or about to be, or        *)
(* forgotten, or an error lost it.  Only the end of a lock's TTL, which    *)
(* resets the guesses, leaves everyone with a count to forget.             *)
Unlocked ==
  lock = 0 =>
    IF Number(Forgetting) = All THEN guesses <= errors
    ELSE guesses <= errors + (Counted + Number(Guessing) + Forgotten(Number(Forgetting)))

(* With the lock only those that found none may guess, and errors let      *)
(* others in.                                                              *)
Locked == lock # 0 => guesses + Number(Asked) <= MaxAttempts * All + errors

LockoutInv == Sound /\ Reported /\ Unlocked /\ Locked
---------------------------------------------------------------------------
(* The doubling, for every number of locks.  A set of numbers has a least  *)
(* one, and the least number of which something fails stands for an        *)
(* induction.                                                              *)
LEMMA LeastNumber ==
  ASSUME NEW T, T \subseteq Nat, T # {}
  PROVE  \E x \in T : \A y \in T : ~(y < x)
<1>1. \E x \in T : \A y \in T : ~(<<y, x>> \in OpToRel(<, Nat))
  BY NatLessThanWellFounded, WFMin
<1>2. QED
  BY <1>1 DEF OpToRel

(* The first n + 1 durations, each the double of the one before.           *)
Doublings(n) ==
  {f \in [0..n -> Nat] : f[0] = baseLockoutSec /\ \A k \in 1..n : f[k] = 2 * f[k - 1]}

LEMMA SomeDoublings ==
  ASSUME NEW n \in Nat
  PROVE  Doublings(n) # {}
<1> DEFINE T == {k \in Nat : Doublings(k) = {}}
<1>1. SUFFICES ASSUME T # {} PROVE FALSE
  OBVIOUS
<1>2. PICK m \in T : \A k \in T : ~(k < m)
  BY <1>1, LeastNumber
<1>3. baseLockoutSec \in Nat
  BY PolicyAssumption
<1>4. CASE m = 0
  <2>1. [k \in 0..0 |-> baseLockoutSec] \in Doublings(0)
    BY <1>3 DEF Doublings
  <2>2. QED
    BY <1>4, <2>1
<1>5. CASE m # 0
  <2>1. m - 1 \in Nat /\ Doublings(m - 1) # {}
    BY <1>2, <1>5
  <2>2. PICK f \in Doublings(m - 1) : TRUE
    BY <2>1
  <2>3. /\ f \in [0..(m - 1) -> Nat] /\ f[0] = baseLockoutSec
        /\ \A k \in 1..(m - 1) : f[k] = 2 * f[k - 1]
    BY <2>2 DEF Doublings
  <2> DEFINE g == [k \in 0..m |-> IF k = m THEN 2 * f[m - 1] ELSE f[k]]
  <2>4. g \in [0..m -> Nat]
    BY <2>1, <2>3
  <2>5. g[0] = baseLockoutSec
    BY <1>5, <2>1, <2>3
  <2>6. ASSUME NEW k \in 1..m PROVE g[k] = 2 * g[k - 1]
    BY <2>1, <2>3
  <2>7. g \in Doublings(m)
    BY <2>4, <2>5, <2>6 DEF Doublings
  <2>8. QED
    BY <2>7
<1>6. QED
  BY <1>4, <1>5

LEMMA SameDoublings ==
  ASSUME NEW m \in Nat, NEW n \in Nat, NEW f \in Doublings(m), NEW g \in Doublings(n),
         NEW i \in Nat, i <= m, i <= n
  PROVE  f[i] = g[i]
<1> DEFINE T == {k \in Nat : k <= m /\ k <= n /\ f[k] # g[k]}
<1>1. SUFFICES ASSUME T # {} PROVE FALSE
  OBVIOUS
<1>2. PICK k \in T : \A j \in T : ~(j < k)
  BY <1>1, LeastNumber
<1>3. /\ f[0] = baseLockoutSec /\ \A j \in 1..m : f[j] = 2 * f[j - 1]
      /\ g[0] = baseLockoutSec /\ \A j \in 1..n : g[j] = 2 * g[j - 1]
  BY DEF Doublings
<1>4. k # 0
  BY <1>2, <1>3
<1>5. k - 1 \in Nat /\ f[k - 1] = g[k - 1] /\ k \in 1..m /\ k \in 1..n
  BY <1>2, <1>4
<1>6. QED
  BY <1>2, <1>3, <1>5

(* So the recursion has a solution: doubled is one.                        *)
LEMMA DoubledIs ==
  /\ doubled[0] = baseLockoutSec
  /\ \A n \in Nat \ {0} : doubled[n] = 2 * doubled[n - 1]
<1> DEFINE F == [n \in Nat |-> (CHOOSE f \in Doublings(n) : TRUE)[n]]
           Doubling(g) == [n \in Nat |-> IF n = 0 THEN baseLockoutSec ELSE 2 * g[n - 1]]
<1>1. \A n \in Nat : (CHOOSE f \in Doublings(n) : TRUE) \in Doublings(n)
  BY SomeDoublings
<1>2. F[0] = baseLockoutSec
  BY <1>1 DEF Doublings
<1>3. ASSUME NEW n \in Nat \ {0} PROVE F[n] = 2 * F[n - 1]
  <2>1. PICK f \in Doublings(n) : F[n] = f[n]
    BY <1>1
  <2>2. n - 1 \in Nat /\ n - 1 <= n
    OBVIOUS
  <2>3. PICK g \in Doublings(n - 1) : F[n - 1] = g[n - 1]
    BY <1>1, <2>2
  <2>4. f[n] = 2 * f[n - 1]
    BY DEF Doublings
  <2>5. f[n - 1] = g[n - 1]
    BY <2>2, SameDoublings
  <2>6. QED
    BY <2>1, <2>3, <2>4, <2>5
<1>4. F = [n \in Nat |-> F[n]]
  OBVIOUS
<1> HIDE DEF F
<1>5. ASSUME NEW n \in Nat PROVE F[n] = IF n = 0 THEN baseLockoutSec ELSE 2 * F[n - 1]
  BY <1>2, <1>3
<1>6. F = Doubling(F)
  BY <1>4, <1>5
<1>7. doubled = CHOOSE g : g = Doubling(g)
  BY DEF doubled
<1>8. doubled = Doubling(doubled)
  BY <1>6, <1>7
<1>9. QED
  BY <1>8

LEMMA DoubledGrows ==
  ASSUME NEW n \in Nat
  PROVE  doubled[n] \in Nat /\ doubled[n] >= baseLockoutSec
<1> DEFINE T == {k \in Nat : ~(doubled[k] \in Nat /\ doubled[k] >= baseLockoutSec)}
<1>1. SUFFICES ASSUME T # {} PROVE FALSE
  OBVIOUS
<1>2. PICK k \in T : \A j \in T : ~(j < k)
  BY <1>1, LeastNumber
<1>3. baseLockoutSec \in Nat
  BY PolicyAssumption
<1>4. k # 0
  BY <1>2, <1>3, DoubledIs
<1>5. k - 1 \in Nat /\ doubled[k - 1] \in Nat /\ doubled[k - 1] >= baseLockoutSec
  BY <1>2, <1>4
<1>6. doubled[k] = 2 * doubled[k - 1]
  BY <1>2, <1>4, DoubledIs
<1>7. QED
  BY <1>2, <1>3, <1>5, <1>6

(* A lock lasts for some time and no longer than the longest, and one more *)
(* in the window never makes it shorter.                                   *)
THEOREM LocksGrow ==
  ASSUME NEW n \in Nat
  PROVE  /\ computeLockoutSec(n + 1) \in 1..maxLockoutSec
         /\ computeLockoutSec(n + 1) <= computeLockoutSec(n + 2)
<1>1. /\ doubled[n] \in Nat /\ doubled[n] >= baseLockoutSec /\ n + 1 - 1 = n
      /\ doubled[n + 1] = 2 * doubled[n] /\ n + 2 - 1 = n + 1
  BY DoubledGrows, DoubledIs
<1>2. baseLockoutSec \in Nat \ {0} /\ maxLockoutSec \in Nat \ {0}
  BY PolicyAssumption
<1>3. QED
  BY <1>1, <1>2 DEF computeLockoutSec

---------------------------------------------------------------------------
(* How a request moves.                                                    *)
LEMMA Steps ==
  ASSUME Sound, NEW r \in Requests
  PROVE  /\ req[r] \in Attempts /\ req[r].phase \in LockoutPhases /\ req[r].sec \in 0..maxLockoutSec
         /\ Ends(r) => GoWith(r, "idle", 0)
         /\ \A p \in LockoutPhases : GoTo(r, p) => GoWith(r, p, req[r].sec)
         /\ \A p \in LockoutPhases, sec \in 0..maxLockoutSec :
              GoWith(r, p, sec) =>
                /\ req'[r].phase = p /\ req'[r].sec = sec
                /\ \A q \in Requests \ {r} : req'[q] = req[q]
                /\ req' \in [Requests -> Attempts]
<1>1. req \in [Requests -> Attempts]
  BY DEF Sound
<1>2. req[r] \in Attempts /\ req[r].phase \in LockoutPhases /\ req[r].sec \in 0..maxLockoutSec
  BY <1>1 DEF Attempts
<1>3. ASSUME NEW p \in LockoutPhases, GoTo(r, p)
      PROVE  GoWith(r, p, req[r].sec)
  <2>1. [req[r] EXCEPT !.phase = p] = [phase |-> p, sec |-> req[r].sec]
    BY <1>2 DEF Attempts
  <2>2. QED
    BY <1>1, <1>3, <2>1 DEF GoTo, GoWith
<1>4. Ends(r) => GoWith(r, "idle", 0)
  BY DEF Ends
<1>5. ASSUME NEW p \in LockoutPhases, NEW sec \in 0..maxLockoutSec, GoWith(r, p, sec)
      PROVE  /\ req'[r].phase = p /\ req'[r].sec = sec
             /\ \A q \in Requests \ {r} : req'[q] = req[q]
             /\ req' \in [Requests -> Attempts]
  <2>1. [phase |-> p, sec |-> sec] \in Attempts
    BY DEF Attempts
  <2>2. QED
    BY <1>1, <1>5, <2>1 DEF GoWith
<1>6. QED
  BY <1>2, <1>3, <1>4, <1>5

LEMMA Numbers ==
  ASSUME Sound
  PROVE  /\ fails \in Nat /\ locks \in Nat /\ guesses \in Nat /\ reports \in Nat /\ errors \in Nat
         /\ lock \in 0..maxLockoutSec /\ reported \in 0..maxLockoutSec /\ 0 \in 0..maxLockoutSec
         /\ errors <= MaxErrors /\ MaxErrors \in Nat /\ maxLockoutSec \in Nat
         /\ MaxAttempts \in Nat /\ MaxAttempts >= 1
         /\ Throws => errors' = errors + 1 /\ errors' <= MaxErrors
  BY PolicyAssumption, LimitsAssumption DEF Sound, Throws

(* One request moved, the rest did what it says.                           *)
LEMMA MoveSound ==
  ASSUME Sound, NEW r \in Requests, NEW p \in LockoutPhases, NEW sec \in 0..maxLockoutSec,
         GoWith(r, p, sec), p \in Setting => sec # 0,
         fails' \in Nat, locks' \in Nat, guesses' \in Nat, reports' \in Nat,
         lock' \in 0..maxLockoutSec, reported' \in 0..maxLockoutSec,
         errors' = errors \/ Throws, overlapped' \in BOOLEAN
  PROVE  Sound'
<1>1. /\ req' \in [Requests -> Attempts] /\ req'[r].phase = p /\ req'[r].sec = sec
      /\ \A q \in Requests \ {r} : req'[q] = req[q]
  BY Steps
<1>2. \A q \in Requests : req'[q].phase \in Setting => req'[q].sec # 0
  BY <1>1 DEF Sound
<1>3. errors' \in 0..MaxErrors
  BY Numbers
<1>4. QED
  BY <1>1, <1>2, <1>3 DEF Sound

(* What attemptPasswordLogin does before the failure is counted.           *)
LEMMA CredentialsSound ==
  ASSUME Sound, NEW r \in Requests,
         isLocked(r) \/ verifyCredentialsOf(r) \/ clearFailures(r) \/ auditFailure(r) \/ recordFailure(r)
  PROVE  Sound'
<1>1. overlapped \in BOOLEAN
  BY DEF Sound
<1>2. CASE isLocked(r)
  <2>1. GoWith(r, "asked", req[r].sec) /\ req[r].sec \in 0..maxLockoutSec
        /\ UNCHANGED <<limiter, history>> /\ (errors' = errors \/ Throws)
    BY <1>2, Steps DEF isLocked, LockoutPhases
  <2>2. QED
    BY <1>1, <2>1, Numbers, MoveSound DEF limiter, history, LockoutPhases, Setting
<1>3. CASE verifyCredentialsOf(r)
  <2>1. PICK p \in {"wrong", "right", "idle"}, sec \in 0..maxLockoutSec : GoWith(r, p, sec)
    BY <1>3, Steps, Numbers DEF verifyCredentialsOf, LockoutPhases
  <2>2. guesses' \in Nat /\ UNCHANGED <<fails, lock, locks, errors, reports, reported, overlapped>>
    BY <1>3, Numbers DEF verifyCredentialsOf, limiter, reporting
  <2>3. QED
    BY <1>1, <2>1, <2>2, Numbers, MoveSound DEF LockoutPhases, Setting
<1>4. CASE clearFailures(r)
  <2>1. PICK p \in {"clearing", "idle"}, sec \in 0..maxLockoutSec : GoWith(r, p, sec)
    BY <1>4, Steps, Numbers DEF clearFailures, LockoutPhases
  <2>2. /\ guesses' \in Nat /\ fails' \in Nat /\ lock' \in 0..maxLockoutSec
        /\ UNCHANGED <<locks, reports, reported, overlapped>> /\ (errors' = errors \/ Throws)
    BY <1>4, Numbers DEF clearFailures, reporting
  <2>3. QED
    BY <1>1, <2>1, <2>2, Numbers, MoveSound DEF LockoutPhases, Setting
<1>5. CASE auditFailure(r) \/ recordFailure(r)
  <2>1. PICK p \in {"failed", "counting", "idle"}, sec \in 0..maxLockoutSec : GoWith(r, p, sec)
    BY <1>5, Steps, Numbers DEF auditFailure, recordFailure, LockoutPhases
  <2>2. UNCHANGED <<limiter, history>> /\ (errors' = errors \/ Throws)
    BY <1>5 DEF auditFailure, recordFailure
  <2>3. QED
    BY <1>1, <2>1, <2>2, Numbers, MoveSound DEF limiter, history, LockoutPhases, Setting
<1>6. QED
  BY <1>2, <1>3, <1>4, <1>5

(* What recordFailure does, and what cuts it short.                        *)
LEMMA FailureSound ==
  ASSUME Sound, NEW r \in Requests,
         incrementFails(r) \/ incrementLocks(r) \/ block(r) \/ forget(r) \/ report(r) \/ fail(r)
  PROVE  Sound'
<1>1. overlapped \in BOOLEAN /\ req[r].sec \in 0..maxLockoutSec
      /\ (req[r].phase \in Setting => req[r].sec # 0)
  BY Steps DEF Sound, LockoutPhases
<1>2. CASE incrementFails(r)
  <2>1. PICK p \in {"locking", "idle"}, sec \in 0..maxLockoutSec : GoWith(r, p, sec)
    BY <1>2, Steps, Numbers DEF incrementFails, LockoutPhases
  <2>2. fails' \in Nat /\ UNCHANGED <<lock, locks, errors, guesses, reports, reported, overlapped>>
    BY <1>2, Numbers DEF incrementFails, history
  <2>3. QED
    BY <1>1, <2>1, <2>2, Numbers, MoveSound DEF LockoutPhases, Setting
<1>3. CASE incrementLocks(r)
  <2>1. computeLockoutSec(locks + 1) \in 1..maxLockoutSec
    BY Numbers, LocksGrow
  <2>2. GoWith(r, "blocking", computeLockoutSec(locks + 1)) /\ locks' \in Nat
        /\ UNCHANGED <<fails, lock, errors, guesses, reports, reported, overlapped>>
    BY <1>3, Numbers DEF incrementLocks, history
  <2>3. QED
    BY <1>1, <2>1, <2>2, Numbers, MoveSound DEF LockoutPhases
<1>4. CASE block(r)
  <2>1. GoWith(r, "forgetting", req[r].sec) /\ req[r].sec # 0 /\ lock' \in 0..maxLockoutSec
        /\ overlapped' \in BOOLEAN /\ reports' \in Nat
        /\ UNCHANGED <<fails, locks, errors, guesses, reported>>
    BY <1>1, <1>4, Steps, Numbers DEF block, Doing, LockoutPhases, Setting
  <2>2. QED
    BY <1>1, <2>1, Numbers, MoveSound DEF LockoutPhases
<1>5. CASE forget(r)
  <2>1. GoWith(r, "reporting", req[r].sec) /\ req[r].sec # 0 /\ fails' \in Nat
        /\ UNCHANGED <<lock, locks, errors, guesses, reports, reported, overlapped>>
    BY <1>1, <1>5, Steps, Numbers DEF forget, Doing, LockoutPhases, Setting, history
  <2>2. QED
    BY <1>1, <2>1, Numbers, MoveSound DEF LockoutPhases
<1>6. CASE report(r)
  <2>1. GoWith(r, "idle", 0) /\ reports' \in Nat /\ reported' \in 0..maxLockoutSec
        /\ UNCHANGED <<fails, lock, locks, errors, guesses, overlapped>>
    BY <1>1, <1>6, Steps, Numbers DEF report, LockoutPhases, limiter
  <2>2. QED
    BY <1>1, <2>1, Numbers, MoveSound DEF LockoutPhases, Setting
<1>7. CASE fail(r)
  <2>1. GoWith(r, "idle", 0) /\ Throws
        /\ UNCHANGED <<fails, lock, locks, guesses, reports, reported, overlapped>>
    BY <1>7, Steps, Numbers DEF fail, LockoutPhases, limiter, history
  <2>2. QED
    BY <1>1, <2>1, Numbers, MoveSound DEF LockoutPhases, Setting
<1>8. QED
  BY <1>2, <1>3, <1>4, <1>5, <1>6, <1>7

LEMMA ExpirySound ==
  ASSUME Sound, lockExpires \/ windowExpires \/ countExpires \/ UNCHANGED lockoutVars
  PROVE  Sound'
<1>1. /\ UNCHANGED <<req, errors, reports, reported, overlapped>>
      /\ fails' \in Nat /\ locks' \in Nat /\ guesses' \in Nat /\ lock' \in 0..maxLockoutSec
  BY Numbers DEF lockExpires, windowExpires, countExpires, lockoutVars, reporting, history
<1>2. QED
  BY <1>1 DEF Sound

---------------------------------------------------------------------------
(* The report of the lock.                                                 *)
LEMMA MoveReported ==
  ASSUME Sound, Reported, NEW r \in Requests, NEW p \in LockoutPhases, NEW sec \in 0..maxLockoutSec,
         GoWith(r, p, sec), ~Reporting(r), p \notin {"forgetting", "reporting"},
         p \in {"counting", "locking", "blocking"} => Past(r) \/ lock = 0,
         UNCHANGED <<lock, reports, reported, overlapped>>, errors' = 0 => errors = 0
  PROVE  Reported'
<1> SUFFICES ASSUME lock' # 0, errors' = 0
             PROVE  /\ reports' >= 1 \/ \E q \in Requests : Reporting(q)'
                    /\ overlapped'
                       \/ (reports' = 1 /\ reported' = lock' /\ \A q \in Requests : ~Past(q)')
                       \/ (reports' = 0 /\ \E q \in Requests : /\ Reporting(q)' /\ req'[q].sec = lock'
                                                            /\ \A u \in Requests \ {q} : ~Past(u)')
  BY DEF Reported
<1>1. /\ req'[r].phase = p /\ \A q \in Requests \ {r} : req'[q] = req[q]
  BY Steps
<1>2. lock # 0 /\ errors = 0
  OBVIOUS
<1>3. \A q \in Requests : Past(q)' => Past(q)
  BY <1>1, <1>2 DEF Past
<1>4. \A q \in Requests : Reporting(q) => q # r /\ Reporting(q)' /\ req'[q].sec = req[q].sec
  BY <1>1 DEF Reporting
<1>5. reports' >= 1 \/ \E q \in Requests : Reporting(q)'
  BY <1>2, <1>4 DEF Reported
<1>6. CASE overlapped
  BY <1>5, <1>6
<1>7. CASE reports = 1 /\ reported = lock /\ \A q \in Requests : ~Past(q)
  BY <1>3, <1>5, <1>7
<1>8. CASE reports = 0 /\ \E q \in Requests : /\ Reporting(q) /\ req[q].sec = lock
                                             /\ \A u \in Requests \ {q} : ~Past(u)
  <2>1. PICK q \in Requests : /\ Reporting(q) /\ req[q].sec = lock
                              /\ \A u \in Requests \ {q} : ~Past(u)
    BY <1>8
  <2>2. Reporting(q)' /\ req'[q].sec = lock' /\ \A u \in Requests \ {q} : ~Past(u)'
    BY <1>3, <1>4, <2>1
  <2>3. QED
    BY <1>5, <1>8, <2>2
<1>9. QED
  BY <1>2, <1>6, <1>7, <1>8 DEF Reported

LEMMA CredentialsReported ==
  ASSUME Sound, Reported, NEW r \in Requests,
         isLocked(r) \/ verifyCredentialsOf(r) \/ clearFailures(r) \/ auditFailure(r) \/ recordFailure(r)
         \/ incrementFails(r) \/ incrementLocks(r)
  PROVE  Reported'
<1>1. /\ req[r].sec \in 0..maxLockoutSec /\ 0 \in 0..maxLockoutSec /\ errors \in Nat
      /\ computeLockoutSec(locks + 1) \in 0..maxLockoutSec
      /\ (Throws => errors' # 0)
  BY Steps, Numbers, LocksGrow
<1>2. UNCHANGED <<reports, reported, overlapped>> /\ (errors' = errors \/ Throws) /\ ~Reporting(r)
  BY DEF isLocked, verifyCredentialsOf, clearFailures, auditFailure, recordFailure, incrementFails,
         incrementLocks, history, reporting, Reporting, Doing
<1>3. CASE errors' # 0
  BY <1>3 DEF Reported
<1>4. CASE lock' = 0
  BY <1>4 DEF Reported
<1>5. CASE errors' = 0 /\ lock' # 0
  <2>1. lock' = lock /\ errors' = errors
    BY <1>1, <1>2, <1>5 DEF isLocked, verifyCredentialsOf, clearFailures, auditFailure, recordFailure,
      incrementFails, incrementLocks, limiter
  <2>2. CASE isLocked(r)
    <3>1. GoWith(r, "asked", req[r].sec)
      BY <2>2, Steps DEF isLocked, LockoutPhases
    <3>2. QED
      BY <1>1, <1>2, <1>5, <2>1, <3>1, MoveReported DEF LockoutPhases
  <2>3. CASE verifyCredentialsOf(r) \/ clearFailures(r) \/ auditFailure(r)
    <3>1. PICK p \in {"wrong", "right", "idle", "clearing", "failed"}, sec \in 0..maxLockoutSec :
            GoWith(r, p, sec)
      BY <1>1, <2>3, Steps DEF verifyCredentialsOf, clearFailures, auditFailure, LockoutPhases
    <3>2. QED
      BY <1>1, <1>2, <1>5, <2>1, <3>1, MoveReported DEF LockoutPhases
  <2>4. CASE recordFailure(r)
    <3>1. GoWith(r, "idle", 0)
      BY <1>5, <2>1, <2>4, Steps DEF recordFailure
    <3>2. QED
      BY <1>1, <1>2, <1>5, <2>1, <3>1, MoveReported DEF LockoutPhases
  <2>5. CASE incrementFails(r)
    <3>1. PICK p \in {"locking", "idle"}, sec \in 0..maxLockoutSec : GoWith(r, p, sec)
      BY <1>1, <2>5, Steps DEF incrementFails, LockoutPhases
    <3>2. Past(r)
      BY <2>5 DEF incrementFails, Doing, Past
    <3>3. QED
      BY <1>1, <1>2, <1>5, <2>1, <3>1, <3>2, MoveReported DEF LockoutPhases
  <2>6. CASE incrementLocks(r)
    <3>1. GoWith(r, "blocking", computeLockoutSec(locks + 1)) /\ Past(r)
      BY <2>6 DEF incrementLocks, Doing, Past
    <3>2. QED
      BY <1>1, <1>2, <1>5, <2>1, <3>1, MoveReported DEF LockoutPhases
  <2>7. QED
    BY <2>2, <2>3, <2>4, <2>5, <2>6
<1>6. QED
  BY <1>3, <1>4, <1>5

(* The lock is set: alone, or while it is overlapped already.              *)
LEMMA BlockReported ==
  ASSUME Sound, Reported, NEW r \in Requests, block(r)
  PROVE  Reported'
<1>1. /\ req[r].phase = "blocking" /\ lock' = req[r].sec /\ GoWith(r, "forgetting", req[r].sec)
      /\ req[r].sec \in 0..maxLockoutSec /\ errors' = errors
  BY Steps DEF block, Doing, LockoutPhases
<1>2. /\ req'[r].phase = "forgetting" /\ req'[r].sec = lock'
      /\ \A q \in Requests \ {r} : req'[q] = req[q]
  BY <1>1, Steps DEF LockoutPhases
<1>3. Reporting(r)' /\ Past(r) /\ ~Reporting(r)
  BY <1>1, <1>2 DEF Reporting, Past
<1>4. ASSUME ~overlapped', errors = 0
      PROVE  reports' = 0 /\ \A q \in Requests \ {r} : ~Past(q)'
  <2>1. \A q \in Requests \ {r} : ~Past(q)
    BY <1>4 DEF block
  <2>2. \A q \in Requests \ {r} : ~Past(q)'
    BY <1>2, <2>1 DEF Past
  <2>3. lock = 0
    <3>1. SUFFICES ASSUME lock # 0 PROVE FALSE
      OBVIOUS
    <3>2. ~overlapped
      BY <1>4, <3>1 DEF block
    <3>3. PICK q \in Requests : Reporting(q) /\ \A u \in Requests \ {q} : ~Past(u)
      BY <1>3, <1>4, <3>1, <3>2 DEF Reported
    <3>4. QED
      BY <1>3, <3>3
  <2>4. QED
    BY <2>2, <2>3 DEF block
<1>5. QED
  BY <1>1, <1>2, <1>3, <1>4 DEF Reported

LEMMA ReportReported ==
  ASSUME Sound, Reported, NEW r \in Requests, forget(r) \/ report(r) \/ fail(r)
  PROVE  Reported'
<1>1. req[r].sec \in 0..maxLockoutSec /\ errors \in Nat /\ reports \in Nat
  BY Steps, Numbers
<1>2. CASE fail(r)
  <2>1. errors' # 0
    BY <1>2, Numbers DEF fail
  <2>2. QED
    BY <2>1 DEF Reported
<1>3. ASSUME Reporting(r), lock # 0, errors = 0, ~overlapped
      PROVE  reports = 0 /\ req[r].sec = lock /\ \A q \in Requests \ {r} : ~Past(q)
  <2>1. Past(r)
    BY <1>3 DEF Reporting, Past
  <2>2. PICK q \in Requests : Reporting(q) /\ req[q].sec = lock /\ \A u \in Requests \ {q} : ~Past(u)
    BY <1>3, <2>1 DEF Reported
  <2>3. q = r
    BY <2>1, <2>2
  <2>4. QED
    BY <1>3, <2>1, <2>2, <2>3 DEF Reported
<1>4. CASE forget(r)
  <2>1. Reporting(r) /\ UNCHANGED <<lock, errors, reports, reported, overlapped>>
        /\ GoWith(r, "reporting", req[r].sec)
    BY <1>4, Steps DEF forget, Doing, Reporting, LockoutPhases, history
  <2>2. /\ req'[r].phase = "reporting" /\ req'[r].sec = req[r].sec
        /\ \A q \in Requests \ {r} : req'[q] = req[q]
    BY <1>1, <2>1, Steps DEF LockoutPhases
  <2>3. Reporting(r)' /\ \A q \in Requests \ {r} : Past(q)' = Past(q)
    BY <2>2 DEF Reporting, Past
  <2>4. QED
    BY <1>3, <2>1, <2>2, <2>3 DEF Reported
<1>5. CASE report(r)
  <2>1. Reporting(r) /\ UNCHANGED <<lock, errors, overlapped>> /\ GoWith(r, "idle", 0)
        /\ reports' = reports + 1 /\ reported' = req[r].sec
    BY <1>5, Steps DEF report, Doing, Reporting, limiter
  <2>2. req'[r].phase = "idle" /\ \A q \in Requests \ {r} : req'[q] = req[q]
    BY <1>1, <2>1, Steps, Numbers DEF LockoutPhases
  <2>3. ~Past(r)' /\ \A q \in Requests \ {r} : Past(q)' = Past(q)
    BY <2>2 DEF Past
  <2>4. reports' >= 1
    BY <1>1, <2>1
  <2>5. ASSUME lock # 0, errors = 0, ~overlapped
        PROVE  reports' = 1 /\ reported' = lock' /\ \A q \in Requests : ~Past(q)'
    BY <1>3, <2>1, <2>3, <2>5
  <2>6. QED
    BY <2>1, <2>4, <2>5 DEF Reported
<1>6. QED
  BY <1>2, <1>4, <1>5

LEMMA ExpiryReported ==
  ASSUME Sound, Reported, lockExpires \/ windowExpires \/ countExpires \/ UNCHANGED lockoutVars
  PROVE  Reported'
<1>1. CASE lockExpires
  BY <1>1 DEF lockExpires, Reported
<1>2. CASE windowExpires \/ countExpires \/ UNCHANGED lockoutVars
  <2>1. UNCHANGED <<lock, req, errors, reports, reported, overlapped>>
    BY <1>2 DEF windowExpires, countExpires, lockoutVars, reporting, history
  <2>2. QED
    BY <2>1 DEF Reported, Reporting, Past
<1>3. QED
  BY <1>1, <1>2

---------------------------------------------------------------------------
(* The number of guesses.                                                  *)
LEMMA InFinite ==
  ASSUME NEW phases
  PROVE  /\ IsFiniteSet(In(phases)) /\ Number(phases) \in Nat
         /\ All \in Nat /\ Number(phases) <= All
         /\ (\E r \in Requests : req[r].phase \notin phases) => Number(phases) < All
<1>1. IsFiniteSet(Requests) /\ In(phases) \in SUBSET Requests
  BY RequestsAreFinite DEF In
<1>2. IsFiniteSet(In(phases)) /\ Number(phases) <= All /\ (Number(phases) = All => In(phases) = Requests)
  BY <1>1, FS_Subset DEF Number, All
<1>3. Number(phases) \in Nat /\ All \in Nat
  BY <1>1, <1>2, FS_CardinalityType DEF Number, All
<1>4. ASSUME NEW r \in Requests, req[r].phase \notin phases PROVE In(phases) # Requests
  BY <1>4 DEF In
<1>5. QED
  BY <1>2, <1>3, <1>4

LEMMA Unions ==
  ASSUME NEW S, IsFiniteSet(S), NEW T, IsFiniteSet(T), S \cap T = {}
  PROVE  IsFiniteSet(S \cup T) /\ Cardinality(S \cup T) = Cardinality(S) + Cardinality(T)
<1>1. Cardinality(S \cup T) = Cardinality(S) + Cardinality(T) - Cardinality({})
  BY FS_Union
<1>2. Cardinality(S) \in Nat /\ Cardinality(T) \in Nat /\ Cardinality({}) = 0
  BY FS_CardinalityType, FS_EmptySet
<1>3. QED
  BY <1>1, <1>2, FS_Union

(* Nobody is counted twice.                                                *)
LEMMA Disjoint == Number(Asked) + Number(Guessing) + Number(Forgetting) <= All
<1>1. /\ IsFiniteSet(In(Asked)) /\ IsFiniteSet(In(Guessing)) /\ IsFiniteSet(In(Forgetting))
      /\ Number(Asked) \in Nat /\ Number(Guessing) \in Nat /\ Number(Forgetting) \in Nat
  BY InFinite
<1>2. /\ In(Asked) \cap In(Guessing) = {}
      /\ (In(Asked) \cup In(Guessing)) \cap In(Forgetting) = {}
  BY DEF In, Asked, Guessing, Forgetting
<1> DEFINE some == In(Asked) \cup In(Guessing)
<1>3. IsFiniteSet(some) /\ Cardinality(some) = Number(Asked) + Number(Guessing)
  BY <1>1, <1>2, Unions DEF Number
<1>4. Cardinality(some \cup In(Forgetting)) = Cardinality(some) + Number(Forgetting)
  BY <1>1, <1>2, <1>3, Unions DEF Number
<1>5. some \cup In(Forgetting) \in SUBSET Requests
  BY DEF In
<1>6. Cardinality(some \cup In(Forgetting)) <= All
  BY <1>5, RequestsAreFinite, FS_Subset DEF All
<1>7. QED
  BY <1>3, <1>4, <1>6

One(p, phases) == IF p \in phases THEN 1 ELSE 0

(* A request that moves is counted in its new phase and not in its old one.*)
LEMMA Moved ==
  ASSUME Sound, NEW r \in Requests, NEW p \in LockoutPhases, NEW sec \in 0..maxLockoutSec,
         GoWith(r, p, sec), NEW phases
  PROVE  /\ Number(phases) \in Nat /\ Number(phases)' \in Nat
         /\ Number(phases)' = Number(phases) - One(req[r].phase, phases) + One(p, phases)
<1>1. req'[r].phase = p /\ \A q \in Requests \ {r} : req'[q] = req[q]
  BY Steps
<1>2. IsFiniteSet(In(phases)) /\ Number(phases) \in Nat
  BY InFinite
<1> DEFINE rest == In(phases) \ {r}
<1>3. IsFiniteSet(rest) /\ Cardinality(rest) = Number(phases) - One(req[r].phase, phases)
  BY <1>2, FS_RemoveElement DEF In, Number, One
<1>4. Cardinality(rest) \in Nat
  BY <1>3, FS_CardinalityType
<1>5. CASE p \in phases
  <2>1. In(phases)' = rest \cup {r}
    BY <1>1, <1>5 DEF In
  <2>2. Cardinality(rest \cup {r}) = Cardinality(rest) + 1
    BY <1>3, FS_AddElement
  <2>3. Number(phases)' = Cardinality(rest) + 1
    BY <2>1, <2>2 DEF Number
  <2>4. QED
    BY <1>2, <1>3, <1>4, <1>5, <2>3 DEF One
<1>6. CASE p \notin phases
  <2>1. In(phases)' = rest
    BY <1>1, <1>6 DEF In
  <2>2. Number(phases)' = Cardinality(rest)
    BY <2>1 DEF Number
  <2>3. QED
    BY <1>2, <1>3, <1>4, <1>6, <2>2 DEF One
<1>7. QED
  BY <1>5, <1>6

LEMMA OnlyOne ==
  ASSUME NEW p, NEW phases
  PROVE  /\ One(p, phases) \in {0, 1}
         /\ p \in phases => One(p, phases) = 1
         /\ p \notin phases => One(p, phases) = 0
  BY DEF One

LEMMA CountedIs ==
  ASSUME Sound
  PROVE  /\ Counted \in Nat /\ Counted <= MaxAttempts - 1
         /\ fails' \in Nat => Counted' \in Nat
         /\ fails' = fails => Counted' = Counted
         /\ fails' = fails + 1 /\ fails + 1 < MaxAttempts => Counted' = Counted + 1
         /\ fails' = fails + 1 => Counted' >= Counted
  BY PolicyAssumption DEF Counted, Sound

(* Counts and products.                                                    *)
LEMMA Products ==
  ASSUME NEW n \in Nat, n < All
  PROVE  /\ Forgotten(n) \in Nat
         /\ n > 0 => Forgotten(n - 1) = Forgotten(n) + (MaxAttempts - 1)
         /\ (MaxAttempts - 1) + Forgotten(n) + (All - n) <= MaxAttempts * All
<1>1. MaxAttempts \in Nat /\ MaxAttempts >= 1 /\ All \in Nat
  BY PolicyAssumption, InFinite
<1> DEFINE m == MaxAttempts - 1
<1>2. m \in Nat /\ MaxAttempts = m + 1 /\ All - 1 - n \in Nat
  BY <1>1
<1>3. Forgotten(n) \in Nat
  BY <1>2 DEF Forgotten
<1>4. n > 0 => Forgotten(n - 1) = Forgotten(n) + m
  <2>1. m * (All - 1 - (n - 1)) = m * (All - 1 - n) + m
    BY <1>1, <1>2
  <2>2. QED
    BY <2>1 DEF Forgotten
<1>5. MaxAttempts * All = m * All + All
  BY <1>1, <1>2
<1>6. m * All \in Nat /\ m * n \in Nat
  BY <1>1, <1>2
<1>7. m + Forgotten(n) = m * All - m * n
  BY <1>1, <1>2 DEF Forgotten
<1>8. QED
  BY <1>1, <1>3, <1>4, <1>5, <1>6, <1>7

LEMMA Everyone ==
  /\ All \in Nat /\ MaxAttempts * All \in Nat /\ All <= MaxAttempts * All /\ All' = All
  /\ MaxAttempts \in Nat /\ MaxAttempts >= 1
<1>1. MaxAttempts \in Nat /\ MaxAttempts >= 1 /\ All \in Nat
  BY PolicyAssumption, InFinite
<1>2. MaxAttempts * All = (MaxAttempts - 1) * All + All /\ (MaxAttempts - 1) * All \in Nat
  BY <1>1
<1>3. QED
  BY <1>1, <1>2 DEF All

(* Without the lock there are as many guesses as attempts allow, one for   *)
(* each request that is to forget a count.                                 *)
LEMMA UnlockedBounds ==
  ASSUME Sound, Unlocked, lock = 0
  PROVE  /\ guesses <= MaxAttempts * All + errors
         /\ Number(Forgetting) < All => guesses + Number(Asked) <= MaxAttempts * All + errors
<1>1. /\ Number(Asked) \in Nat /\ Number(Guessing) \in Nat /\ Number(Forgetting) \in Nat
      /\ Number(Forgetting) <= All /\ guesses \in Nat /\ errors \in Nat
      /\ Counted \in Nat /\ Counted <= MaxAttempts - 1
  BY InFinite, CountedIs, Numbers
<1>2. CASE Number(Forgetting) = All
  BY <1>1, <1>2, Everyone DEF Unlocked
<1>3. CASE Number(Forgetting) < All
  <2>1. /\ Forgotten(Number(Forgetting)) \in Nat
        /\ (MaxAttempts - 1) + Forgotten(Number(Forgetting)) + (All - Number(Forgetting))
             <= MaxAttempts * All
    BY <1>1, <1>3, Products
  <2>2. guesses <= errors + (Counted + Number(Guessing) + Forgotten(Number(Forgetting)))
    BY <1>1, <1>3, Everyone DEF Unlocked
  <2>3. QED
    BY <1>1, <2>1, <2>2, Everyone, Disjoint
<1>4. QED
  BY <1>1, <1>2, <1>3, Everyone

(* A request moves, and neither sets the lock nor is to forget a count: a  *)
(* guess more has to be counted, or held by a request, or paid by an error.*)
LEMMA MoveGuesses ==
  ASSUME Sound, Unlocked, Locked,
         NEW r \in Requests, NEW p \in LockoutPhases, NEW sec \in 0..maxLockoutSec, GoWith(r, p, sec),
         req[r].phase # "forgetting", p # "forgetting", lock' = lock,
         guesses' \in Nat, errors' \in Nat, fails' \in Nat,
         lock = 0 => guesses' - guesses <= (errors' - errors) + (Counted' - Counted)
                                           + One(p, Guessing) - One(req[r].phase, Guessing),
         lock # 0 => guesses' - guesses <= (errors' - errors)
                                           + One(req[r].phase, Asked) - One(p, Asked)
  PROVE  Unlocked' /\ Locked'
<1>1. Number(Forgetting)' = Number(Forgetting) /\ Number(Forgetting) \in Nat /\ Number(Forgetting) < All
  BY Moved, InFinite DEF Forgetting, One
<1>2. /\ Number(Guessing) \in Nat /\ Number(Asked) \in Nat
      /\ Number(Guessing)' = Number(Guessing) + One(p, Guessing) - One(req[r].phase, Guessing)
      /\ Number(Asked)' = Number(Asked) + One(p, Asked) - One(req[r].phase, Asked)
      /\ One(p, Guessing) \in Int /\ One(req[r].phase, Guessing) \in Int
      /\ One(p, Asked) \in Int /\ One(req[r].phase, Asked) \in Int
  BY Moved DEF One
<1>3. /\ Counted \in Nat /\ Counted' \in Nat /\ errors \in Nat /\ guesses \in Nat
      /\ Forgotten(Number(Forgetting)) \in Nat
  BY <1>1, CountedIs, Numbers, Products
<1>4. Unlocked'
  <2>1. SUFFICES ASSUME lock = 0
                 PROVE  guesses' <= errors' + (Counted' + Number(Guessing)' + Forgotten(Number(Forgetting)))
    <3>1. Forgotten(Number(Forgetting))' = Forgotten(Number(Forgetting))
      BY <1>1, Everyone DEF Forgotten
    <3>2. Number(Forgetting)' # All'
      BY <1>1, Everyone
    <3>3. QED
      BY <3>1, <3>2 DEF Unlocked
  <2>2. guesses <= errors + (Counted + Number(Guessing) + Forgotten(Number(Forgetting)))
    BY <1>1, <2>1, Everyone DEF Unlocked
  <2>3. QED
    BY <1>2, <1>3, <2>1, <2>2
<1>5. Locked'
  <2>1. SUFFICES ASSUME lock # 0 PROVE guesses' + Number(Asked)' <= MaxAttempts * All + errors'
    BY Everyone DEF Locked
  <2>2. guesses + Number(Asked) <= MaxAttempts * All + errors
    BY <2>1 DEF Locked
  <2>3. QED
    BY <1>2, <1>3, <2>1, <2>2, Everyone
<1>6. QED
  BY <1>4, <1>5

(* The guesses are counted from here on.                                   *)
LEMMA ResetGuesses ==
  ASSUME guesses' = 0, errors' \in Nat, fails' \in Nat
  PROVE  Unlocked' /\ Locked'
<1>1. ASSUME NEW phases
      PROVE  Number(phases)' \in Nat /\ Number(phases)' <= All
  <2>1. {r \in Requests : req'[r].phase \in phases} \in SUBSET Requests
    OBVIOUS
  <2>2. /\ IsFiniteSet({r \in Requests : req'[r].phase \in phases})
        /\ Cardinality({r \in Requests : req'[r].phase \in phases}) <= All
    BY <2>1, RequestsAreFinite, FS_Subset DEF All
  <2>3. QED
    BY <2>2, FS_CardinalityType DEF Number, In
<1>2. Counted' \in Nat
  BY PolicyAssumption DEF Counted
<1>3. Unlocked'
  <2>1. Number(Forgetting)' \in Nat /\ Number(Forgetting)' <= All /\ Number(Guessing)' \in Nat
    BY <1>1
  <2>2. CASE Number(Forgetting)' = All
    <3>1. Number(Forgetting)' = All'
      BY <2>2, Everyone
    <3>2. QED
      BY <3>1 DEF Unlocked
  <2>3. CASE Number(Forgetting)' < All
    <3>1. Forgotten(Number(Forgetting)') \in Nat
      BY <2>1, <2>3, Products
    <3>2. 0 <= errors' + (Counted' + Number(Guessing)' + Forgotten(Number(Forgetting)'))
      BY <1>2, <2>1, <3>1
    <3>3. Forgotten(Number(Forgetting))' = Forgotten(Number(Forgetting)')
      BY Everyone DEF Forgotten
    <3>4. Number(Forgetting)' # All'
      BY <2>1, <2>3, Everyone
    <3>5. QED
      BY <3>2, <3>3, <3>4 DEF Unlocked
  <2>4. QED
    BY <2>1, <2>2, <2>3, Everyone
<1>4. Locked'
  BY <1>1, Everyone DEF Locked
<1>5. QED
  BY <1>3, <1>4

(* A request that set the lock before now forgets the count, or not.       *)
LEMMA ForgetGuesses ==
  ASSUME Sound, Unlocked, Locked,
         NEW r \in Requests, NEW p \in {"reporting", "idle"}, NEW sec \in 0..maxLockoutSec,
         GoWith(r, p, sec), req[r].phase = "forgetting", lock' = lock, guesses' = guesses,
         errors' \in Nat, errors <= errors', fails' \in Nat
  PROVE  Unlocked' /\ Locked'
<1>1. /\ Number(Forgetting)' = Number(Forgetting) - 1 /\ Number(Forgetting)' \in Nat
      /\ Number(Forgetting) \in Nat /\ Number(Forgetting) <= All
      /\ Number(Guessing)' = Number(Guessing) /\ Number(Guessing) \in Nat
      /\ Number(Asked)' = Number(Asked) /\ Number(Asked) \in Nat
  BY Moved, InFinite DEF Forgetting, Guessing, Asked, LockoutPhases, One
<1>2. /\ Counted \in Nat /\ Counted <= MaxAttempts - 1 /\ Counted' \in Nat
      /\ errors \in Nat /\ guesses \in Nat
  BY CountedIs, Numbers
<1>3. Unlocked'
  <2>1. Forgotten(Number(Forgetting)') \in Nat
    BY <1>1, Everyone, Products
  <2>2. SUFFICES ASSUME lock = 0
                 PROVE  guesses <= errors' + (Counted' + Number(Guessing) + Forgotten(Number(Forgetting)'))
    <3>1. Forgotten(Number(Forgetting))' = Forgotten(Number(Forgetting)')
      BY Everyone DEF Forgotten
    <3>2. Number(Forgetting)' # All'
      BY <1>1, Everyone
    <3>3. QED
      BY <1>1, <3>1, <3>2 DEF Unlocked
  <2>3. CASE Number(Forgetting) = All
    BY <1>1, <1>2, <2>1, <2>2, <2>3 DEF Unlocked
  <2>4. CASE Number(Forgetting) < All
    <3>1. /\ Forgotten(Number(Forgetting)) \in Nat
          /\ Forgotten(Number(Forgetting)') = Forgotten(Number(Forgetting)) + (MaxAttempts - 1)
      BY <1>1, <2>4, Products
    <3>2. guesses <= errors + (Counted + Number(Guessing) + Forgotten(Number(Forgetting)))
      BY <1>1, <2>2, <2>4, Everyone DEF Unlocked
    <3>3. QED
      BY <1>1, <1>2, <3>1, <3>2, Everyone
  <2>5. QED
    BY <1>1, <2>3, <2>4, Everyone
<1>4. Locked'
  BY <1>1, <1>2, Everyone DEF Locked
<1>5. QED
  BY <1>3, <1>4

LEMMA CredentialsGuesses ==
  ASSUME Sound, Unlocked, Locked, NEW r \in Requests,
         isLocked(r) \/ verifyCredentialsOf(r) \/ clearFailures(r) \/ auditFailure(r)
  PROVE  Unlocked' /\ Locked'
<1>1. /\ req[r].sec \in 0..maxLockoutSec /\ 0 \in 0..maxLockoutSec
      /\ guesses \in Nat /\ errors \in Nat /\ fails \in Nat /\ Counted \in Nat
      /\ (Throws => errors' = errors + 1)
      /\ (fails' = fails => Counted' = Counted)
  BY Steps, Numbers, CountedIs
<1>2. /\ \A p \in {"idle", "right", "clearing", "asked"} : One(p, Guessing) = 0
      /\ \A p \in {"wrong", "failed"} : One(p, Guessing) = 1
      /\ \A p \in {"idle", "right", "clearing", "wrong", "failed"} : One(p, Asked) = 0
      /\ One("asked", Asked) = 1
  BY DEF One, Guessing, Asked
<1>3. CASE isLocked(r)
  <2>1. /\ GoWith(r, "asked", req[r].sec) /\ req[r].phase = "idle"
        /\ UNCHANGED <<fails, lock, guesses>>
        /\ (lock = 0 /\ errors' = errors) \/ Throws
    BY <1>3, Steps DEF isLocked, Doing, LockoutPhases, limiter, history
  <2>2. errors' \in Nat /\ errors' - errors >= 0 /\ (lock # 0 => errors' - errors = 1)
        /\ Counted' - Counted = 0 /\ guesses' - guesses = 0
    BY <1>1, <2>1
  <2>3. QED
    BY <1>1, <1>2, <2>1, <2>2, MoveGuesses DEF LockoutPhases
<1>4. CASE verifyCredentialsOf(r)
  <2>1. /\ req[r].phase = "asked" /\ UNCHANGED <<fails, lock, errors>>
        /\ \/ GoWith(r, "wrong", req[r].sec) /\ guesses' = guesses + 1
           \/ GoWith(r, "right", req[r].sec) /\ guesses' = guesses
           \/ GoWith(r, "idle", 0) /\ guesses' = guesses
    BY <1>4, Steps DEF verifyCredentialsOf, Doing, LockoutPhases, limiter
  <2>2. errors' - errors = 0 /\ Counted' - Counted = 0
    BY <1>1, <2>1
  <2>3. CASE GoWith(r, "wrong", req[r].sec) /\ guesses' = guesses + 1
    <3>1. guesses' - guesses = 1 /\ guesses' \in Nat
      BY <1>1, <2>3
    <3>2. QED
      BY <1>1, <1>2, <2>1, <2>2, <2>3, <3>1, MoveGuesses DEF LockoutPhases
  <2>4. ASSUME NEW p \in {"right", "idle"}, NEW sec \in 0..maxLockoutSec, GoWith(r, p, sec),
               guesses' = guesses
        PROVE  Unlocked' /\ Locked'
    BY <1>1, <1>2, <2>1, <2>2, <2>4, MoveGuesses DEF LockoutPhases
  <2>5. QED
    BY <1>1, <2>1, <2>3, <2>4
<1>5. CASE clearFailures(r)
  <2>1. CASE guesses' = 0
    BY <1>1, <1>5, <2>1, ResetGuesses DEF clearFailures
  <2>2. CASE guesses' # 0
    <3>1. /\ req[r].phase \in {"right", "clearing"} /\ GoWith(r, "idle", 0)
          /\ UNCHANGED <<fails, lock, guesses>> /\ (errors' = errors \/ Throws)
      BY <1>5, <2>2, Steps DEF clearFailures, Doing
    <3>2. errors' \in Nat /\ errors' - errors >= 0 /\ Counted' - Counted = 0 /\ guesses' - guesses = 0
      BY <1>1, <3>1
    <3>3. QED
      BY <1>1, <1>2, <3>1, <3>2, MoveGuesses DEF LockoutPhases
  <2>3. QED
    BY <2>1, <2>2
<1>6. CASE auditFailure(r)
  <2>1. /\ req[r].phase = "wrong" /\ UNCHANGED <<fails, lock, guesses>>
        /\ \/ GoWith(r, "failed", req[r].sec) /\ errors' = errors
           \/ GoWith(r, "idle", 0) /\ Throws
    BY <1>6, Steps DEF auditFailure, Doing, LockoutPhases, limiter, history
  <2>2. errors' \in Nat /\ errors' - errors >= 0 /\ Counted' - Counted = 0 /\ guesses' - guesses = 0
        /\ (Throws => errors' - errors = 1)
    BY <1>1, <2>1
  <2>3. CASE GoWith(r, "failed", req[r].sec) /\ errors' = errors
    BY <1>1, <1>2, <2>1, <2>2, <2>3, MoveGuesses DEF LockoutPhases
  <2>4. CASE GoWith(r, "idle", 0) /\ Throws
    BY <1>1, <1>2, <2>1, <2>2, <2>4, MoveGuesses DEF LockoutPhases
  <2>5. QED
    BY <2>1, <2>3, <2>4
<1>7. QED
  BY <1>3, <1>4, <1>5, <1>6

LEMMA FailureGuesses ==
  ASSUME Sound, Unlocked, Locked, NEW r \in Requests,
         recordFailure(r) \/ incrementFails(r) \/ incrementLocks(r) \/ forget(r) \/ report(r) \/ fail(r)
  PROVE  Unlocked' /\ Locked'
<1>1. /\ req[r].sec \in 0..maxLockoutSec /\ 0 \in 0..maxLockoutSec
      /\ computeLockoutSec(locks + 1) \in 0..maxLockoutSec
      /\ guesses \in Nat /\ errors \in Nat /\ fails \in Nat /\ Counted \in Nat
      /\ (Throws => errors' = errors + 1)
      /\ (fails' = fails => Counted' = Counted)
  BY Steps, Numbers, CountedIs, LocksGrow
<1>2. /\ \A p \in {"idle", "reporting"} : One(p, Guessing) = 0
      /\ \A p \in {"failed", "counting", "locking", "blocking"} : One(p, Guessing) = 1
      /\ \A p \in {"idle", "failed", "counting", "locking", "blocking", "reporting"} : One(p, Asked) = 0
  BY DEF One, Guessing, Asked
<1>3. CASE recordFailure(r)
  <2>1. /\ req[r].phase = "failed" /\ UNCHANGED <<fails, lock, guesses, errors>>
        /\ \/ lock = 0 /\ GoWith(r, "counting", req[r].sec)
           \/ lock # 0 /\ GoWith(r, "idle", 0)
    BY <1>3, Steps DEF recordFailure, Doing, LockoutPhases, limiter, history
  <2>2. errors' - errors = 0 /\ Counted' - Counted = 0 /\ guesses' - guesses = 0
    BY <1>1, <2>1
  <2>3. CASE lock = 0 /\ GoWith(r, "counting", req[r].sec)
    BY <1>1, <1>2, <2>1, <2>2, <2>3, MoveGuesses DEF LockoutPhases
  <2>4. CASE lock # 0 /\ GoWith(r, "idle", 0)
    BY <1>1, <1>2, <2>1, <2>2, <2>4, MoveGuesses DEF LockoutPhases
  <2>5. QED
    BY <2>1, <2>3, <2>4
<1>4. CASE incrementFails(r)
  <2>1. /\ req[r].phase = "counting" /\ fails' = fails + 1 /\ UNCHANGED <<lock, guesses, errors>>
        /\ \/ fails + 1 < MaxAttempts /\ GoWith(r, "idle", 0)
           \/ GoWith(r, "locking", req[r].sec)
    BY <1>4, Steps DEF incrementFails, Doing, LockoutPhases, history
  <2>2. errors' - errors = 0 /\ guesses' - guesses = 0 /\ fails' \in Nat
        /\ Counted' - Counted \in Nat
        /\ (fails + 1 < MaxAttempts => Counted' - Counted = 1)
    BY <1>1, <2>1, CountedIs
  <2>3. CASE fails + 1 < MaxAttempts /\ GoWith(r, "idle", 0)
    BY <1>1, <1>2, <2>1, <2>2, <2>3, MoveGuesses DEF LockoutPhases
  <2>4. CASE GoWith(r, "locking", req[r].sec)
    BY <1>1, <1>2, <2>1, <2>2, <2>4, MoveGuesses DEF LockoutPhases
  <2>5. QED
    BY <2>1, <2>3, <2>4
<1>5. CASE incrementLocks(r)
  <2>1. /\ req[r].phase = "locking" /\ UNCHANGED <<fails, lock, guesses, errors>>
        /\ GoWith(r, "blocking", computeLockoutSec(locks + 1))
    BY <1>5 DEF incrementLocks, Doing, history
  <2>2. errors' - errors = 0 /\ Counted' - Counted = 0 /\ guesses' - guesses = 0
    BY <1>1, <2>1
  <2>3. One("blocking", Guessing) = One("locking", Guessing) /\ One("blocking", Asked) = One("locking", Asked)
    BY <1>2
  <2>4. QED
    BY <1>1, <1>2, <2>1, <2>2, <2>3, MoveGuesses DEF LockoutPhases
<1>6. CASE report(r)
  <2>1. /\ req[r].phase = "reporting" /\ UNCHANGED <<fails, lock, guesses, errors>>
        /\ GoWith(r, "idle", 0)
    BY <1>6, Steps DEF report, Doing, limiter
  <2>2. errors' - errors = 0 /\ Counted' - Counted = 0 /\ guesses' - guesses = 0
    BY <1>1, <2>1
  <2>3. QED
    BY <1>1, <1>2, <2>1, <2>2, MoveGuesses DEF LockoutPhases
<1>7. CASE forget(r)
  <2>1. /\ req[r].phase = "forgetting" /\ fails' = 0 /\ UNCHANGED <<lock, guesses, errors>>
        /\ GoWith(r, "reporting", req[r].sec)
    BY <1>7, Steps DEF forget, Doing, LockoutPhases, history
  <2>2. errors' \in Nat /\ errors <= errors' /\ fails' \in Nat
    BY <1>1, <2>1
  <2>3. QED
    BY <1>1, <2>1, <2>2, ForgetGuesses
<1>8. CASE fail(r)
  <2>1. /\ req[r].phase \in {"failed", "counting", "locking", "blocking", "forgetting", "reporting"}
        /\ Throws /\ UNCHANGED <<fails, lock, guesses>> /\ GoWith(r, "idle", 0)
    BY <1>8, Steps DEF fail, Doing, Past, limiter, history
  <2>2. /\ errors' - errors = 1 /\ Counted' - Counted = 0 /\ guesses' - guesses = 0
        /\ errors' \in Nat /\ errors <= errors'
    BY <1>1, <2>1
  <2>3. CASE req[r].phase = "forgetting"
    BY <1>1, <2>1, <2>2, <2>3, ForgetGuesses
  <2>4. CASE req[r].phase \in {"failed", "counting", "locking", "blocking"}
    BY <1>1, <1>2, <2>1, <2>2, <2>4, MoveGuesses DEF LockoutPhases
  <2>5. CASE req[r].phase = "reporting"
    BY <1>1, <1>2, <2>1, <2>2, <2>5, MoveGuesses DEF LockoutPhases
  <2>6. QED
    BY <2>1, <2>3, <2>4, <2>5
<1>9. QED
  BY <1>3, <1>4, <1>5, <1>6, <1>7, <1>8

(* The lock falls: who was asked before may still guess.                   *)
LEMMA BlockGuesses ==
  ASSUME Sound, Unlocked, Locked, NEW r \in Requests, block(r)
  PROVE  Unlocked' /\ Locked'
<1>1. /\ req[r].phase = "blocking" /\ lock' = req[r].sec /\ UNCHANGED <<errors, guesses>>
      /\ GoWith(r, "forgetting", req[r].sec) /\ req[r].sec \in 0..maxLockoutSec
  BY Steps DEF block, Doing, LockoutPhases
<1>2. lock' # 0
  BY <1>1 DEF Sound, Setting
<1>3. Number(Asked)' = Number(Asked) /\ Number(Asked) \in Nat
  BY <1>1, Moved DEF Asked, LockoutPhases, One
<1>4. Number(Forgetting) < All
  BY <1>1, InFinite DEF Forgetting
<1>5. guesses + Number(Asked) <= MaxAttempts * All + errors
  BY <1>4, UnlockedBounds DEF Locked
<1>6. QED
  BY <1>1, <1>2, <1>3, <1>5, Everyone DEF Unlocked, Locked

LEMMA ExpiryGuesses ==
  ASSUME Sound, Unlocked, Locked, lockExpires \/ windowExpires \/ countExpires \/ UNCHANGED lockoutVars
  PROVE  Unlocked' /\ Locked'
<1>1. errors' = errors /\ errors \in Nat /\ fails' \in Nat /\ req' = req
  BY Numbers DEF lockExpires, windowExpires, countExpires, lockoutVars, history
<1>2. CASE lockExpires \/ windowExpires
  BY <1>1, <1>2, ResetGuesses DEF lockExpires, windowExpires
<1>3. CASE countExpires \/ UNCHANGED lockoutVars
  <2>1. UNCHANGED <<fails, lock, guesses>>
    BY <1>3 DEF countExpires, lockoutVars, history
  <2>2. QED
    BY <1>1, <2>1 DEF Unlocked, Locked, Counted, Forgotten, Number, In, All
<1>4. QED
  BY <1>2, <1>3

---------------------------------------------------------------------------
LEMMA LockoutStarts == LockoutInit => LockoutInv
<1> SUFFICES ASSUME LockoutInit PROVE LockoutInv
  OBVIOUS
<1>1. /\ fails = 0 /\ lock = 0 /\ locks = 0 /\ errors = 0 /\ guesses = 0
      /\ reports = 0 /\ reported = 0 /\ overlapped = FALSE
      /\ req = [r \in Requests |-> [phase |-> "idle", sec |-> 0]]
  BY DEF LockoutInit
<1>2. 0 \in 0..maxLockoutSec /\ 0 \in 0..MaxErrors
  BY PolicyAssumption, LimitsAssumption
<1>3. req \in [Requests -> Attempts] /\ \A r \in Requests : req[r].phase \notin Setting
  BY <1>1, <1>2 DEF Attempts, LockoutPhases, Setting
<1>4. Sound
  BY <1>1, <1>2, <1>3 DEF Sound
<1>5. Number(Forgetting) \in Nat /\ Number(Guessing) \in Nat /\ Number(Forgetting) <= All
      /\ All \in Nat /\ Counted \in Nat
  BY <1>4, InFinite, CountedIs
<1>6. Unlocked
  <2>1. CASE Number(Forgetting) = All
    BY <1>1, <2>1 DEF Unlocked
  <2>2. CASE Number(Forgetting) < All
    <3>1. Forgotten(Number(Forgetting)) \in Nat
      BY <1>5, <2>2, Products
    <3>2. 0 <= 0 + (Counted + Number(Guessing) + Forgotten(Number(Forgetting)))
      BY <1>5, <3>1
    <3>3. QED
      BY <1>1, <1>5, <2>2, <3>2 DEF Unlocked
  <2>3. QED
    BY <1>5, <2>1, <2>2
<1>7. QED
  BY <1>1, <1>4, <1>6 DEF LockoutInv, Reported, Locked

LEMMA LockoutKeeps == LockoutInv /\ [LockoutNext]_lockoutVars => LockoutInv'
<1> SUFFICES ASSUME LockoutInv, [LockoutNext]_lockoutVars PROVE LockoutInv'
  OBVIOUS
<1>1. Sound /\ Reported /\ Unlocked /\ Locked
  BY DEF LockoutInv
<1>2. ASSUME NEW r \in Requests, attemptPasswordLogin(r) PROVE LockoutInv'
  <2>1. Sound'
    BY <1>1, <1>2, CredentialsSound, FailureSound DEF attemptPasswordLogin
  <2>2. Reported'
    BY <1>1, <1>2, CredentialsReported, BlockReported, ReportReported DEF attemptPasswordLogin
  <2>3. Unlocked' /\ Locked'
    BY <1>1, <1>2, CredentialsGuesses, FailureGuesses, BlockGuesses DEF attemptPasswordLogin
  <2>4. QED
    BY <2>1, <2>2, <2>3 DEF LockoutInv
<1>3. ASSUME lockExpires \/ windowExpires \/ countExpires \/ UNCHANGED lockoutVars
      PROVE  LockoutInv'
  BY <1>1, <1>3, ExpirySound, ExpiryReported, ExpiryGuesses DEF LockoutInv
<1>4. QED
  BY <1>2, <1>3 DEF LockoutNext

THEOREM LockoutInvariantHolds == LockoutSpec => []LockoutInv
<1>1. QED
  BY LockoutStarts, LockoutKeeps, PTL DEF LockoutSpec

(* The counts are numbers and no lock is longer than the longest allowed.  *)
THEOREM LockoutTypeCorrect == LockoutSpec => []LockoutTypeOK
<1>1. LockoutInv => LockoutTypeOK
  BY DEF LockoutInv, Sound, Attempts, LockoutTypeOK
<1>2. QED
  BY <1>1, LockoutInvariantHolds, PTL

(* However logins interleave, the wrong passwords between two resets are   *)
(* bounded by the attempts times the requests there can be at once, and    *)
(* the errors of limiter and audit.                                        *)
THEOREM PasswordGuessesBound == LockoutSpec => []GuessesBounded
<1>1. LockoutInv => GuessesBounded
  <2> SUFFICES ASSUME LockoutInv PROVE guesses <= MaxAttempts * All + errors
    BY DEF GuessesBounded, All
  <2>1. Number(Asked) \in Nat /\ guesses \in Nat /\ errors \in Nat
    BY InFinite, Numbers DEF LockoutInv
  <2>2. QED
    BY <2>1, UnlockedBounds, Everyone DEF LockoutInv, Locked
<1>2. QED
  BY <1>1, LockoutInvariantHolds, PTL

(* A lock that only one failure could set is reported once, with the       *)
(* duration it was set for.                                                *)
THEOREM LocksAreReported == LockoutSpec => []LockIsReportedOnce
<1>1. LockoutInv => LockIsReportedOnce
  <2> SUFFICES ASSUME LockoutInv, lock # 0, Quiet, errors = 0
               PROVE  reports >= 1 /\ (overlapped \/ (reports = 1 /\ reported = lock))
    BY DEF LockIsReportedOnce
  <2>1. \A r \in Requests : ~Reporting(r)
    BY DEF Quiet, Doing, Reporting
  <2>2. QED
    BY <2>1 DEF LockoutInv, Reported
<1>2. QED
  BY <1>1, LockoutInvariantHolds, PTL
===========================================================================
