------------------------- MODULE SessionRevocation -------------------------
(***************************************************************************)
(* The sessions of one account, ended all at once: by revokeAll, or by the *)
(* single-session policy at every login (host/admin_sessions_service.ts,   *)
(* host/controllers/interaction_controller.ts), and how the applications   *)
(* that keep their session in a cookie hear of it: a log of revocations    *)
(* that every request is checked against                                   *)
(* (authkit-client/src/revocation/revocation_store.ts).                    *)
(*                                                                         *)
(* oidc-provider is external: after completeLogin it redirects the browser *)
(* to its resume endpoint, and only there the new session is stored, while *)
(* the login's handler goes on.  A request of its own holds the session it *)
(* loaded and stores it again at its end, and the upsert of the adapters   *)
(* (adapters/database_adapter.ts, adapters/redis_adapter.ts) does not look *)
(* whether it was destroyed meanwhile.  Every consent makes a grant, and   *)
(* tokens whose grant is gone are refused.                                 *)
(***************************************************************************)
EXTENDS Integers, FiniteSets

CONSTANTS
  Logins,       \* logins of the account
  Admins,       \* revokeAll by an administrator or by the account itself
  TicksPerSec,  \* loginTs and iat are in seconds, revoked_at is finer
  MaxTime,      \* bound on the clock
  MaxSessions,  \* bound on the sessions ever stored
  MaxGrants     \* bound on the grants ever made

ASSUME TasksAssumption == Logins \cap Admins = {}
ASSUME NumbersAssumption == TicksPerSec \in Nat \ {0} /\ {MaxTime, MaxSessions, MaxGrants} \subseteq Nat

Tasks == Logins \cup Admins
Sessions == 1..MaxSessions

VARIABLES
  now,        \* the clock, in ticks
  made,       \* how many sessions and grants were ever made
  sessions,   \* the sessions stored
  returned,   \* history: those of them that were destroyed, and stored again
  loginTs,    \* the second each session was made in
  grants,     \* the grants stored
  held,       \* the sessions destroyed that a request under way had loaded
  consented,  \* the grant of the session's consent the provider has not resumed from
  app,        \* the application of each session: its grant, and its cookie, the iat of an id_token
  log,        \* auth_session_revocations for the account's sub
  task,       \* what each login and each revokeAll is doing
  resume,     \* whether the browser of a login was redirected and has followed
  own,        \* the session each login made
  overlapped  \* history: a login began while another was not over

stores == <<sessions, returned, held, loginTs, grants, made>>
vars == <<now, stores, consented, app, log, task, resume, own, overlapped>>

NoTime == -1
Second(t) == t \div TicksPerSec
Start(sec) == sec * TicksPerSec
NoCookie == [grant |-> 0, iat |-> NoTime]

(* "began" is history: the time and what had been made when the task       *)
(* began; so is "misled": when a login looked for its own session, it was  *)
(* not stored, or another had returned since the login began.              *)
Idle == [phase |-> "idle", prev |-> {}, except |-> 0, left |-> {}, kept |-> NoTime,
         began |-> [at |-> NoTime, sessions |-> 0, grants |-> 0], misled |-> FALSE]
Began == [at |-> now, sessions |-> made.sessions, grants |-> made.grants]

Init ==
  /\ now = 0 /\ made = [sessions |-> 0, grants |-> 0]
  /\ sessions = {} /\ returned = {} /\ held = {} /\ grants = {}
  /\ loginTs = [s \in Sessions |-> NoTime]
  /\ consented = [s \in Sessions |-> 0]
  /\ app = [s \in Sessions |-> NoCookie]
  /\ log = {}
  /\ task = [t \in Tasks |-> Idle]
  /\ resume = [l \in Logins |-> "none"]
  /\ own = [l \in Logins |-> 0]
  /\ overlapped = FALSE

Tick ==
  /\ now < MaxTime
  /\ now' = now + 1
  /\ UNCHANGED <<stores, consented, app, log, task, resume, own, overlapped>>

---------------------------------------------------------------------------
(* The browser and the applications.                                       *)
Resume(l) ==   \* the provider stores the new session
  /\ resume[l] = "sent" /\ made.sessions < MaxSessions
  /\ resume' = [resume EXCEPT ![l] = "followed"]
  /\ LET s == made.sessions + 1 IN
       /\ made' = [made EXCEPT !.sessions = s]
       /\ sessions' = sessions \cup {s}
       /\ loginTs' = [loginTs EXCEPT ![s] = Second(now)]
       /\ own' = [own EXCEPT ![l] = s]
  /\ UNCHANGED <<now, returned, held, grants, consented, app, log, task, overlapped>>

(* That a request under way had loaded the session is told only here,      *)
(* where it matters for the first time.                                    *)
Destroy(s) ==
  /\ sessions' = sessions \ {s} /\ returned' = returned \ {s}
  /\ held' \in {held, held \cup (sessions \cap {s})}

sessionSaved(s) ==   \* the end of such a request
  /\ s \in held /\ held' = held \ {s}
  /\ sessions' = sessions \cup {s}
  /\ returned' = returned \cup ({s} \ sessions)
  /\ UNCHANGED <<now, made, loginTs, grants, consented, app, log, task, resume, own, overlapped>>

(* The handler has read the session of the interaction some time before,   *)
(* and makes a grant, whether the session is stored still or not.          *)
consent(s) ==
  /\ s <= made.sessions /\ made.grants < MaxGrants /\ consented[s] = 0
  /\ LET g == made.grants + 1 IN
       /\ made' = [made EXCEPT !.grants = g]
       /\ grants' = grants \cup {g}
       /\ consented' = [consented EXCEPT ![s] = g]
  /\ UNCHANGED <<now, sessions, returned, held, loginTs, app, log, task, resume, own, overlapped>>

(* Only with the session stored the provider resumes, and the application  *)
(* may have tokens for the grant.  A resume that held a session destroyed  *)
(* is sessionSaved and then this.                                          *)
interactionFinished(s) ==
  /\ consented[s] # 0 /\ s \in sessions
  /\ app' = [app EXCEPT ![s].grant = consented[s]]
  /\ consented' = [consented EXCEPT ![s] = 0]
  /\ UNCHANGED <<now, stores, log, task, resume, own, overlapped>>

Refresh(s) ==   \* the code, or the refresh token, brings an id_token
  /\ app[s].grant \in grants
  /\ app' = [app EXCEPT ![s].iat = Second(now)]
  /\ UNCHANGED <<now, stores, consented, log, task, resume, own, overlapped>>

Logout(s) ==   \* of one session; its logout_token reaches the application or not
  /\ s \in sessions
  /\ Destroy(s)
  /\ grants' \in {grants, grants \ {app[s].grant}}
  /\ app' \in {app, [app EXCEPT ![s] = NoCookie]}
  /\ UNCHANGED <<now, made, loginTs, consented, log, task, resume, own, overlapped>>

HasCookie(s) == app[s].iat # NoTime
isRevoked(s) == \E at \in log : at >= Start(app[s].iat)

(* BackchannelRevocationMiddleware at a request of the application.        *)
handle(s) ==
  /\ HasCookie(s) /\ isRevoked(s)
  /\ app' = [app EXCEPT ![s].iat = NoTime]
  /\ UNCHANGED <<now, stores, consented, log, task, resume, own, overlapped>>

---------------------------------------------------------------------------
(* InteractionController.login under the single-session policy: list the   *)
(* sessions, answer the browser, list again and take for its own the first *)
(* that was not there before.                                              *)
Set(t, rec) == task' = [task EXCEPT ![t] = rec]
Ended(t) == task[t].phase \in {"done", "unlogged"}
Over(l) == (task[l].phase = "idle" \/ Ended(l)) /\ resume[l] # "sent"
Overlaps(l) == overlapped' = (overlapped \/ \E k \in Logins \ {l} : ~Over(k))

listPrevious(l) ==
  /\ task[l].phase = "idle" /\ resume[l] = "none"
  /\ Set(l, [Idle EXCEPT !.phase = "listed", !.prev = sessions, !.began = Began])
  /\ Overlaps(l)
  /\ UNCHANGED <<now, stores, consented, app, log, resume, own>>

completeLogin(l) ==
  /\ task[l].phase = "listed"
  /\ resume' = [resume EXCEPT ![l] = "sent"]
  /\ Set(l, IF task[l].prev = {} THEN Idle ELSE [task[l] EXCEPT !.phase = "answered"])
  /\ UNCHANGED <<now, stores, consented, app, log, own, overlapped>>

(* A login by second factor, by a trusted device, by link, code or passkey *)
(* answers the browser and revokes nothing.                                *)
completeLoginOnly(l) ==
  /\ task[l].phase = "idle" /\ resume[l] = "none"
  /\ resume' = [resume EXCEPT ![l] = "sent"]
  /\ Overlaps(l)
  /\ UNCHANGED <<now, stores, consented, app, log, task, own>>

Unseen(l) == sessions \ task[l].prev
Misled(l) == own[l] \notin sessions \/ \E s \in Unseen(l) : s \in returned /\ s # own[l]
Revokes(l, s) ==
  Set(l, [task[l] EXCEPT !.phase = "revoke", !.except = s, !.misled = Misled(l)])

exceptNone(l) ==   \* mutant: the login does not look for its own session
  /\ task[l].phase = "answered"
  /\ Revokes(l, 0)
  /\ UNCHANGED <<now, stores, consented, app, log, resume, own, overlapped>>

exceptAny(l) ==   \* mutant: the login takes for its own any session there is
  /\ task[l].phase = "answered"
  /\ \/ sessions = {} /\ Revokes(l, 0)
     \/ \E s \in sessions : Revokes(l, s)
  /\ UNCHANGED <<now, stores, consented, app, log, resume, own, overlapped>>

findOwn(l) ==
  /\ task[l].phase = "answered"
  /\ \/ Unseen(l) = {} /\ Revokes(l, 0)
     \/ \E s \in Unseen(l) : Revokes(l, s)
  /\ UNCHANGED <<now, stores, consented, app, log, resume, own, overlapped>>

revokeAll(t) ==
  /\ t \in Admins /\ task[t].phase = "idle"
  /\ Set(t, [Idle EXCEPT !.phase = "revoke", !.began = Began])
  /\ UNCHANGED <<now, stores, consented, app, log, resume, own, overlapped>>

---------------------------------------------------------------------------
(* revokeAllExcept; revokeAll is the same with no session to except.       *)
listSessions(t) ==
  /\ task[t].phase = "revoke"
  /\ LET s == task[t].except IN
       Set(t, [task[t] EXCEPT !.phase = "sessions", !.left = sessions \ {s},
                              !.kept = IF s \in sessions THEN loginTs[s] ELSE NoTime])
  /\ UNCHANGED <<now, stores, consented, app, log, resume, own, overlapped>>

destroySession(t) ==
  /\ task[t].phase = "sessions"
  /\ \E s \in task[t].left :
       /\ Destroy(s)
       /\ Set(t, [task[t] EXCEPT !.left = @ \ {s}])
  /\ UNCHANGED <<now, made, loginTs, grants, consented, app, log, resume, own, overlapped>>

listGrantsOfSessions(t) ==   \* mutant: only the grants of the sessions destroyed
  /\ task[t].phase = "sessions" /\ task[t].left = {}
  /\ Set(t, [task[t] EXCEPT !.phase = "grants", !.left = grants \cap {app[s].grant : s \in task[t].prev}])
  /\ UNCHANGED <<now, stores, consented, app, log, resume, own, overlapped>>

listGrants(t) ==
  /\ task[t].phase = "sessions" /\ task[t].left = {}
  /\ Set(t, [task[t] EXCEPT !.phase = "grants", !.left = grants])
  /\ UNCHANGED <<now, stores, consented, app, log, resume, own, overlapped>>

destroyGrant(t) ==
  /\ task[t].phase = "grants"
  /\ \E g \in task[t].left :
       /\ grants' = grants \ {g}
       /\ Set(t, [task[t] EXCEPT !.left = @ \ {g}])
  /\ UNCHANGED <<now, made, sessions, returned, held, loginTs, consented, app, log, resume, own, overlapped>>

CutoffAtLogin(t) ==     \* mutant: not strictly before the login
  IF task[t].kept = NoTime THEN now ELSE Start(task[t].kept)

CutoffTwoBefore(t) ==   \* mutant: a second too early
  IF task[t].kept = NoTime THEN now ELSE Start(task[t].kept - 2)

cutoff(t) == IF task[t].kept = NoTime THEN now ELSE Start(task[t].kept - 1)

(* The insert may fail, which is only logged.                              *)
recordSubRevocation(t) ==
  /\ task[t].phase = "grants" /\ task[t].left = {}
  /\ \/ /\ log' = log \cup {cutoff(t)}
        /\ Set(t, [task[t] EXCEPT !.phase = "done"])
     \/ /\ Set(t, [task[t] EXCEPT !.phase = "unlogged"])
        /\ UNCHANGED log
  /\ UNCHANGED <<now, stores, consented, app, resume, own, overlapped>>

Next ==
  \/ Tick
  \/ \E l \in Logins : \/ listPrevious(l) \/ completeLogin(l) \/ findOwn(l)
                       \/ completeLoginOnly(l) \/ Resume(l)
  \/ \E t \in Tasks : \/ revokeAll(t) \/ listSessions(t) \/ destroySession(t)
                      \/ listGrants(t) \/ destroyGrant(t) \/ recordSubRevocation(t)
  \/ \E s \in Sessions : \/ sessionSaved(s) \/ consent(s) \/ interactionFinished(s)
                         \/ Refresh(s) \/ Logout(s) \/ handle(s)

Spec == Init /\ [][Next]_vars
---------------------------------------------------------------------------
(* Types of the stores, of the applications' cookies and of the tasks.     *)
TypeOK ==
  /\ now \in 0..MaxTime
  /\ made \in [sessions : 0..MaxSessions, grants : 0..MaxGrants]
  /\ sessions \subseteq 1..made.sessions /\ grants \subseteq 1..made.grants
  /\ returned \subseteq sessions /\ held \subseteq 1..made.sessions
  /\ loginTs \in [Sessions -> Nat \cup {NoTime}]
  /\ consented \in [Sessions -> 0..made.grants]
  /\ app \in [Sessions -> [grant : 0..made.grants, iat : Nat \cup {NoTime}]]
  /\ log \subseteq Int
  /\ resume \in [Logins -> {"none", "sent", "followed"}]
  /\ own \in [Logins -> 0..made.sessions]
  /\ overlapped \in BOOLEAN
  /\ task \in [Tasks ->
       [phase : {"idle", "listed", "answered", "revoke", "sessions", "grants", "done", "unlogged"},
        prev : SUBSET Sessions, except : {0} \cup Sessions, left : SUBSET Nat,
        kept : Nat \cup {NoTime},
        began : [at : Nat \cup {NoTime}, sessions : 0..MaxSessions, grants : 0..MaxGrants],
        misled : BOOLEAN]]

(* Once a revocation is over, no session and no grant made before it began *)
(* is left, but the session of the login that revoked, and sessions that a *)
(* request under way stored again after they were destroyed.  Of grants    *)
(* there is no exception: neither a session that came back nor one logged  *)
(* out before, whose refresh tokens live on, keeps an old one.             *)
RevocationIsComplete ==
  \A t \in Tasks : Ended(t) =>
    /\ \A s \in sessions :
         s > task[t].began.sessions \/ s = task[t].except \/ s \in returned
    /\ \A g \in grants : g > task[t].began.grants

(* Once it is recorded, every application whose id_token is from before it *)
(* began (for a login that kept its session: from before that login)       *)
(* is revoked at its next request, though the clocks differ in precision.  *)
RevocationReachesApps ==
  \A t \in Tasks : task[t].phase = "done" =>
    \A s \in Sessions :
      /\ HasCookie(s)
      /\ IF task[t].kept = NoTime THEN app[s].iat <= Second(task[t].began.at)
                                  ELSE app[s].iat < task[t].kept
      => isRevoked(s)

(* The revocation a login records does not revoke the application of the   *)
(* session it kept (revokeAllExcept, the comment on the cutoff), unless    *)
(* that session was destroyed meanwhile and came back.                     *)
OwnAppSurvives ==
  [][\A l \in Logins :
       LET s == task[l].except IN
         /\ task[l].phase = "grants" /\ task'[l].phase = "done"
         /\ s \in sessions \ returned /\ HasCookie(s) /\ ~isRevoked(s)
         => ~isRevoked(s)']_vars

(* A login whose session was stored when it looked for it never destroys   *)
(* it, if no other login was under way and no other session had come back. *)
KeepsOwnSession ==
  [][\A l \in Logins :
       /\ own[l] \in sessions \ sessions'
       /\ task[l].phase = "sessions" /\ task'[l] # task[l]
       => task[l].misled \/ overlapped]_vars

(* Without overlapping logins, one that revokes leaves no session older    *)
(* than its own, but those that came back after they were destroyed.       *)
OlderSessionsEnd ==
  \A l \in Logins :
    Ended(l) /\ resume[l] = "followed" /\ ~overlapped =>
      \A s \in sessions \ returned : s >= own[l]

(* runtime_toggles.ts:626: after a login ALL the other sessions of the     *)
(* account are revoked.                                                    *)
EveryLoginStandsAlone ==
  \A l \in Logins : Over(l) /\ resume[l] = "followed" /\ ~overlapped =>
    \A s \in sessions \ returned : s >= own[l]
===========================================================================
