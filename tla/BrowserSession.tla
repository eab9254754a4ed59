--------------------------- MODULE BrowserSession ---------------------------
(***************************************************************************)
(* The session of one browser at the account console: who is logged in     *)
(* (host/controllers/account_session_controller.ts), whom an administrator *)
(* is impersonating (host/impersonation_session.ts), whether identity was  *)
(* confirmed a moment ago (host/sudo_mode.ts, host/sudo/), and the idle    *)
(* timeout of the guard (host/register_auth_host.ts).                      *)
(*                                                                         *)
(* The session store is external: a request works on the data it loaded    *)
(* and writes all of it back when it ends, so that of two overlapping      *)
(* requests the last one wins.  regenerate() changes the identifier and    *)
(* keeps the data.                                                         *)
(***************************************************************************)
EXTENDS Integers, FiniteSets

CONSTANTS
  Requests,  \* requests of the browser that can overlap
  Accounts,
  Admins,    \* the accounts the IdP lets impersonate others
  Nobody,    \* no account
  Grace,     \* how long a confirmation is good for: graceMinutes
  LinkTTL,   \* SUDO_LINK_TTL_MS
  Idle,      \* idleTimeoutMinutes
  MaxTime,   \* bound on the clock
  MaxLinks,  \* bound on the confirmation links mailed
  MaxAnswers \* bound on the requests answered

ASSUME AccountsAssumption == Admins \subseteq Accounts /\ Nobody \notin Accounts
ASSUME TimesAssumption == {Grace, LinkTTL, Idle, MaxTime, MaxLinks, MaxAnswers} \subseteq Nat

VARIABLES
  session,   \* the data in the store
  req,       \* the copy of the data of each request under way
  now,
  mailed,    \* the account each confirmation link was mailed to
  proved,    \* history: when each account's owner last proved to be there
  accepted,  \* history: how often each link was accepted, up to twice
  raced,     \* history: a request wrote over what another one had written
  answers    \* requests answered so far

vars == <<session, req, now, mailed, proved, accepted, raced, answers>>

Never == -1
Times == 0..MaxTime
Links == 1..MaxLinks
Someone == Accounts \cup {Nobody}

(* The data.  "human" and "left" are history: who logged in here, and      *)
(* whether that login found an impersonator left behind in the session.    *)
Mark(a, at) == [of |-> a, at |-> at]
NoMark == Mark(Nobody, Never)
Pending(a, n, until) == [of |-> a, no |-> n, until |-> until]
NoLink == Pending(Nobody, 0, Never)

Empty == [account |-> Nobody, impersonator |-> Nobody, sudo |-> NoMark,
          link |-> NoLink, lastSeen |-> Never, human |-> Nobody, left |-> FALSE]

Free == [busy |-> FALSE, stale |-> FALSE, data |-> Empty]

Init ==
  /\ session = Empty
  /\ req = [r \in Requests |-> Free]
  /\ now = 0
  /\ mailed = [n \in Links |-> Nobody]
  /\ proved = [a \in Accounts |-> Never]
  /\ accepted = [n \in Links |-> 0]
  /\ raced = FALSE
  /\ answers = 0

---------------------------------------------------------------------------
(* A request loads the data and its handler runs; the data is stored when  *)
(* the response ends.                                                      *)
Answer(r, data) ==
  /\ req[r] = Free
  /\ answers < MaxAnswers /\ answers' = answers + 1
  /\ req' = [req EXCEPT ![r] = [busy |-> TRUE, stale |-> FALSE, data |-> data]]
  /\ UNCHANGED <<session, now, raced>>

commit(r) ==
  /\ req[r].busy
  /\ session' = req[r].data
  /\ raced' = (raced \/ req[r].stale)
  /\ req' = [q \in Requests |-> IF q = r \/ ~req[q].busy THEN Free
                                ELSE [req[q] EXCEPT !.stale = TRUE]]
  /\ UNCHANGED <<now, mailed, proved, accepted, answers>>

Tick ==
  /\ now < MaxTime
  /\ now' = now + 1
  /\ UNCHANGED <<session, req, mailed, proved, accepted, raced, answers>>

---------------------------------------------------------------------------
(* markSudo; the account is in the session when it is called.              *)
markSudo(d) == [d EXCEPT !.sudo = Mark(d.account, now)]

SudoOfAnyone(d, t) ==   \* mutant: the account of the mark is not compared
  d.sudo.at # Never /\ d.account # Nobody /\ t - d.sudo.at <= Grace

isSudoActive(d, t) ==
  /\ d.sudo.at # Never /\ d.sudo.of # Nobody
  /\ d.sudo.of = d.account
  /\ t - d.sudo.at <= Grace

Proves(a) == proved' = [proved EXCEPT ![a] = now]

(* AccountSessionController.login, with the right password.                *)
login(r, a) ==
  /\ Answer(r, markSudo([session EXCEPT !.account = a, !.human = a,
                                        !.left = (session.impersonator # Nobody)]))
  /\ Proves(a)
  /\ UNCHANGED <<mailed, accepted>>

(* logout, and the end of revokeAllSessions: only the account is dropped.  *)
logout(r) ==
  /\ Answer(r, [session EXCEPT !.account = Nobody])
  /\ UNCHANGED <<mailed, proved, accepted>>

---------------------------------------------------------------------------
(* The token exchange accepts the access token of an administrator, which  *)
(* the host put in the session when one logged in and which nothing here   *)
(* takes out; without it nothing changes.                                  *)
Exchanged == \E a \in Admins : proved[a] # Never

startAgain(r, target) ==   \* mutant: an impersonation starts over another one
  /\ session.account # Nobody /\ Exchanged
  /\ Answer(r, [session EXCEPT !.impersonator = session.account, !.account = target])
  /\ UNCHANGED <<mailed, proved, accepted>>

startImpersonation(r, target) ==
  /\ session.impersonator = Nobody /\ session.account # Nobody /\ Exchanged
  /\ Answer(r, [session EXCEPT !.impersonator = session.account, !.account = target])
  /\ UNCHANGED <<mailed, proved, accepted>>

stopImpersonation(r) ==
  /\ session.impersonator # Nobody
  /\ Answer(r, [session EXCEPT !.account = session.impersonator, !.impersonator = Nobody])
  /\ UNCHANGED <<mailed, proved, accepted>>

---------------------------------------------------------------------------
(* accountGuard, before every page of the console: without an account, or  *)
(* with an idle one, the request goes to the login.                        *)
idleEnded == session.lastSeen # Never /\ now - session.lastSeen > Idle

checkAndRefreshIdle(r) ==
  /\ session.account # Nobody /\ idleEnded
  /\ Answer(r, [session EXCEPT !.account = Nobody, !.lastSeen = Never])
  /\ UNCHANGED <<mailed, proved, accepted>>

Passes == session.account # Nobody /\ ~idleEnded
Seen == [session EXCEPT !.lastSeen = now]

visit(r) == Passes /\ Answer(r, Seen) /\ UNCHANGED <<mailed, proved, accepted>>

(* POST /account/confirm with the right password of the session's account. *)
confirmPassword(r) ==
  /\ Passes
  /\ Answer(r, markSudo(Seen))
  /\ Proves(session.account)
  /\ UNCHANGED <<mailed, accepted>>

(* A confirmation link is mailed to the session's account; if it cannot be *)
(* delivered the pending link is dropped.                                  *)
issueSudoLinkToken(r) ==
  /\ Passes
  /\ \/ \E n \in Links :
          /\ mailed[n] = Nobody /\ \A m \in 1..(n - 1) : mailed[m] # Nobody
          /\ mailed' = [mailed EXCEPT ![n] = session.account]
          /\ Answer(r, [Seen EXCEPT !.link = Pending(session.account, n, now + LinkTTL)])
     \/ Answer(r, [Seen EXCEPT !.link = NoLink]) /\ UNCHANGED mailed
  /\ UNCHANGED <<proved, accepted>>

VerifiesForAnyone(n) ==   \* mutant: the account of the link is not compared
  session.link.of # Nobody /\ now <= session.link.until /\ session.link.no = n

verifySudoLinkToken(n) ==
  /\ session.link.of # Nobody
  /\ session.link.of = session.account
  /\ now <= session.link.until
  /\ session.link.no = n

(* The link that is followed was read in the mailbox it was sent to.       *)
Accepts(n) ==
  /\ accepted' = [accepted EXCEPT ![n] = IF @ = 2 THEN 2 ELSE @ + 1]
  /\ Proves(mailed[n])

followKeepingLink(r, n) ==   \* mutant: the pending link is not forgotten
  /\ Passes /\ mailed[n] # Nobody
  /\ IF verifySudoLinkToken(n)
       THEN Answer(r, markSudo(Seen)) /\ Accepts(n)
       ELSE Answer(r, Seen) /\ UNCHANGED <<accepted, proved>>
  /\ UNCHANGED mailed

followLink(r, n) ==
  /\ Passes /\ mailed[n] # Nobody
  /\ LET d == [Seen EXCEPT !.link = NoLink] IN
       IF verifySudoLinkToken(n)
         THEN Answer(r, markSudo(d)) /\ Accepts(n)
         ELSE Answer(r, d) /\ UNCHANGED <<accepted, proved>>
  /\ UNCHANGED mailed

Handle(r) ==
  \/ \E a \in Accounts : login(r, a) \/ startImpersonation(r, a)
  \/ logout(r) \/ stopImpersonation(r)
  \/ checkAndRefreshIdle(r) \/ visit(r) \/ confirmPassword(r) \/ issueSudoLinkToken(r)
  \/ \E n \in Links : followLink(r, n)

Next == Tick \/ \E r \in Requests : Handle(r) \/ commit(r)

Spec == Init /\ [][Next]_vars
---------------------------------------------------------------------------
Copies == {session} \cup {req[r].data : r \in Requests}

Data == [account : Someone, impersonator : Someone,
         sudo : [of : Someone, at : Times \cup {Never}],
         link : [of : Someone, no : Links \cup {0}, until : Never..(MaxTime + LinkTTL)],
         lastSeen : Times \cup {Never}, human : Someone, left : BOOLEAN]

(* Types of the stored data, of the requests' copies and of the clock.     *)
TypeOK ==
  /\ now \in Times /\ raced \in BOOLEAN /\ answers \in 0..MaxAnswers
  /\ session \in Data
  /\ req \in [Requests -> [busy : BOOLEAN, stale : BOOLEAN, data : Data]]
  /\ mailed \in [Links -> Someone]
  /\ proved \in [Accounts -> Times \cup {Never}]
  /\ accepted \in [Links -> 0..2]

(* Sudo is active only for an account whose owner proved to be there not   *)
(* longer than the grace ago: it is never inherited by the account that an *)
(* impersonation, its end or another login puts in the session, however    *)
(* requests overlap.                                                       *)
SudoIsOwn ==
  \A d \in Copies :
    isSudoActive(d, now) => proved[d.account] # Never /\ now - proved[d.account] <= Grace

(* A confirmation link gives sudo to the account it was mailed to and to   *)
(* no other, though whoever is logged in changed since.                    *)
LinkConfirmsItsReader ==
  [][\A n \in Links :
       accepted'[n] # accepted[n] =>
         \E r \in Requests : req'[r].data.account = mailed[n]
                           /\ req'[r].data.sudo = Mark(mailed[n], now)]_vars

(* A link is accepted twice only if requests overlapped: two followed it   *)
(* at once, or one wrote back the data that still had it.                  *)
Overlapping ==
  \/ raced
  \/ \E r \in Requests : req[r].stale
  \/ \E r, q \in Requests : r # q /\ req[r].busy /\ req[q].busy

LinkAcceptedOnce == \A n \in Links : accepted[n] > 1 => Overlapping

(* realAccountId (console_session.ts): the impersonator, if any, is who is *)
(* really there.                                                           *)
realAccountId(d) == IF d.impersonator # Nobody THEN d.impersonator ELSE d.account

(* It is the account whose owner logged in, through impersonations, idle   *)
(* timeouts and overlapping requests, unless that login found in the       *)
(* session the impersonator that a logout or another login left there.     *)
RealAccountLoggedIn ==
  \A d \in Copies : d.account # Nobody => d.left \/ realAccountId(d) = d.human
===========================================================================
