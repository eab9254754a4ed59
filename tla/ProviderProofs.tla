-------------------------- MODULE ProviderProofs --------------------------
(***************************************************************************)
(* What holds of the OIDC provider's state for every value of the          *)
(* constants.  First SessionRevocation: for every number of logins, of     *)
(* administrators, sessions and grants, and for every precision and bound  *)
(* of the clock.  Then Keystore: for every number of instances, of         *)
(* rotations by hand and of keys, and every bound on crashes and failures. *)
(***************************************************************************)
EXTENDS SessionRevocation, Keystore, TLAPS

(* What a login or a revocation has of what there was when it began.       *)
BeganIs(k) ==
  /\ k.began.at \in 0..now
  /\ k.began.sessions \in 0..made.sessions /\ k.began.grants \in 0..made.grants
  /\ k.except <= made.sessions
  /\ \/ k.except = 0 \/ k.except > k.began.sessions
     \/ k.except \notin sessions \/ k.except \in returned

Listed(k) ==
  k.phase \in {"listed", "answered"} =>
    /\ k.prev \subseteq 1..k.began.sessions
    /\ \A s \in sessions \ returned : s \in k.prev \/ s > k.began.sessions

SessionsEnd(k) ==
  k.phase \in {"sessions", "grants", "done", "unlogged"} =>
    /\ \A s \in sessions \ returned :
         s > k.began.sessions \/ s = k.except \/ (k.phase = "sessions" /\ s \in k.left)
    /\ k.except \in sessions \ returned => k.kept = loginTs[k.except]

GrantsEnd(k) ==
  k.phase \in {"grants", "done", "unlogged"} =>
    \A g \in grants : g > k.began.grants \/ (k.phase = "grants" /\ g \in k.left)

Logged(k) ==
  k.phase = "done" =>
    \E at \in log : IF k.kept = NoTime THEN at >= k.began.at ELSE at >= Start(k.kept - 1)

Sound(k) ==
  k.phase # "idle" => BeganIs(k) /\ Listed(k) /\ SessionsEnd(k) /\ GrantsEnd(k) /\ Logged(k)

(* Times of the sessions, and of the cookies the applications keep.        *)
Timed ==
  \A s \in Sessions :
    /\ loginTs[s] <= Second(now)
    /\ s <= made.sessions => loginTs[s] \in Nat
    /\ app[s].grant # 0 \/ consented[s] # 0 => s <= made.sessions
    /\ HasCookie(s) => s <= made.sessions /\ app[s].iat \in Nat /\ app[s].iat >= loginTs[s]

(* Without overlapping logins one at most is under way.                    *)
Alone == ~overlapped => \A k, l \in Logins : k # l => Over(k) \/ Over(l)

(* A login makes one session, when the browser follows it.                 *)
OwnIs(l) ==
  /\ resume[l] = "followed" <=> own[l] # 0
  /\ task[l].phase \notin {"idle", "listed"} => resume[l] # "none"
  /\ task[l].phase = "listed" => resume[l] = "none"

(* Without overlapping logins that is the first since it began, and while  *)
(* it is under way the last.                                               *)
FirstOwn(l) ==
  ~overlapped =>
    /\ task[l].phase # "idle" =>
         IF own[l] = 0 THEN made.sessions = task[l].began.sessions
                       ELSE own[l] = task[l].began.sessions + 1
    /\ ~Over(l) /\ own[l] # 0 => made.sessions = own[l]

(* Then what it has yet to destroy is not its own session.                 *)
OwnSpared(l) ==
  task[l].phase \in {"revoke", "sessions"} /\ ~task[l].misled /\ ~overlapped =>
    /\ own[l] # 0
    /\ task[l].except = own[l]
    /\ task[l].phase = "sessions" => own[l] \notin task[l].left

IInv ==
  /\ TypeOK
  /\ Timed
  /\ \A t \in Tasks : Sound(task[t])
  /\ Alone
  /\ \A l \in Logins : OwnIs(l) /\ FirstOwn(l) /\ OwnSpared(l)

---------------------------------------------------------------------------
(* Seconds and ticks.                                                      *)
LEMMA Ticks ==
  /\ \A t \in Nat : Second(t) \in Nat /\ Start(Second(t)) <= t
  /\ \A a \in Int : Start(a) \in Int
  /\ \A a, b \in Int : a <= b => Start(a) <= Start(b)
  /\ \A a, b \in Int : a < b => Start(a) < Start(b)
<1> DEFINE T == TicksPerSec
<1>1. T \in Nat /\ T > 0
  BY NumbersAssumption
<1>2. \A t \in Nat : Second(t) \in Nat /\ Start(Second(t)) <= t
  BY <1>1 DEF Second, Start
<1>3. \A a \in Int : Start(a) \in Int
  BY <1>1 DEF Start
<1>4. ASSUME NEW a \in Int, NEW b \in Int, a <= b PROVE Start(a) <= Start(b)
  <2>1. (b - a) * T >= 0
    BY <1>1, <1>4
  <2>2. (b - a) * T = b * T - a * T
    BY <1>1
  <2>3. QED
    BY <1>1, <2>1, <2>2 DEF Start
<1>5. ASSUME NEW a \in Int, NEW b \in Int, a < b PROVE Start(a) < Start(b)
  <2>1. (b - a) * T > 0
    BY <1>1, <1>5
  <2>2. (b - a) * T = b * T - a * T
    BY <1>1
  <2>3. QED
    BY <1>1, <2>1, <2>2 DEF Start
<1>6. QED
  BY <1>2, <1>3, <1>4, <1>5

LEMMA SecondGrows ==
  ASSUME NEW a \in Nat, NEW b \in Nat, a <= b
  PROVE  Second(a) <= Second(b)
<1>1. ASSUME Second(a) > Second(b) PROVE FALSE
  <2> DEFINE T == TicksPerSec
             s == Second(b)
  <2>1. T \in Nat /\ T > 0 /\ s \in Nat /\ Second(a) \in Nat
    BY NumbersAssumption, Ticks
  <2>2. b < Start(s + 1)
    BY <2>1 DEF Second, Start
  <2>3. Start(s + 1) <= Start(Second(a)) /\ Start(Second(a)) <= a
    BY <1>1, <2>1, Ticks
  <2>4. QED
    BY <2>1, <2>2, <2>3, Ticks
<1>2. QED
  BY <1>1, Ticks

---------------------------------------------------------------------------
(* Types, and what any step leaves of the past.                            *)
Phases == {"idle", "listed", "answered", "revoke", "sessions", "grants", "done", "unlogged"}
Task == [phase : Phases, prev : SUBSET Sessions, except : {0} \cup Sessions,
         left : SUBSET Nat, kept : Nat \cup {NoTime},
         began : [at : Nat \cup {NoTime}, sessions : 0..MaxSessions, grants : 0..MaxGrants],
         misled : BOOLEAN]
Cookie(g) == [grant : 0..g, iat : Nat \cup {NoTime}]

LEMMA Types ==
  TypeOK <=>
    /\ now \in 0..MaxTime
    /\ made \in [sessions : 0..MaxSessions, grants : 0..MaxGrants]
    /\ sessions \subseteq 1..made.sessions /\ grants \subseteq 1..made.grants
    /\ returned \subseteq sessions /\ held \subseteq 1..made.sessions
    /\ consented \in [Sessions -> 0..made.grants]
    /\ loginTs \in [Sessions -> Nat \cup {NoTime}]
    /\ app \in [Sessions -> Cookie(made.grants)]
    /\ log \subseteq Int
    /\ resume \in [Logins -> {"none", "sent", "followed"}]
    /\ own \in [Logins -> 0..made.sessions]
    /\ overlapped \in BOOLEAN
    /\ task \in [Tasks -> Task]
  BY DEF TypeOK, Task, Phases, Cookie

LEMMA Numbers ==
  /\ MaxTime \in Nat /\ MaxSessions \in Nat /\ MaxGrants \in Nat
  /\ TypeOK => /\ now \in Nat /\ made.sessions \in Nat /\ made.grants \in Nat
               /\ made.sessions <= MaxSessions /\ made.grants <= MaxGrants
               /\ sessions \subseteq Sessions /\ sessions \subseteq Nat /\ grants \subseteq Nat
               /\ 0 \notin sessions /\ 0 \notin grants
               /\ \A s \in sessions : s <= made.sessions
  /\ TypeOK' => 0 \notin sessions' /\ sessions' \subseteq Sessions
<1>1. MaxTime \in Nat /\ MaxSessions \in Nat /\ MaxGrants \in Nat
  BY NumbersAssumption
<1>2. QED
  BY <1>1 DEF TypeOK, Sessions

(* Time goes on, what is made is new, and the log only grows.              *)
Later ==
  /\ now' \in Nat /\ now <= now'
  /\ made'.sessions \in Nat /\ made.sessions <= made'.sessions
  /\ made'.grants \in Nat /\ made.grants <= made'.grants
  /\ \A s \in sessions' : s \in sessions \/ s > made.sessions \/ s \in returned'
  /\ \A s \in sessions' : s \in returned => s \in returned'
  /\ \A g \in grants' : g \in grants \/ g > made.grants
  /\ \A s \in Sessions : s <= made.sessions => loginTs'[s] = loginTs[s]
  /\ log \subseteq log'

LEMMA SoundStays ==
  ASSUME TypeOK, TypeOK', Later, NEW k \in Task, Sound(k)
  PROVE  Sound(k)'
<1>1. SUFFICES ASSUME k.phase # "idle" PROVE Sound(k)'
  BY DEF Sound
<1>2. BeganIs(k) /\ Listed(k) /\ SessionsEnd(k) /\ GrantsEnd(k) /\ Logged(k)
  BY <1>1 DEF Sound
<1>3. /\ now \in Nat /\ made.sessions \in Nat /\ made.grants \in Nat
      /\ k.began.at \in Int /\ k.began.sessions \in Nat /\ k.began.grants \in Nat
      /\ k.except \in Nat /\ 0 \notin sessions'
  BY Numbers DEF Task, NoTime, Sessions
<1>4. BeganIs(k)'
  BY <1>2, <1>3 DEF BeganIs, Later
<1>5. \A s \in sessions' \ returned' : s \in sessions \ returned \/ s > k.began.sessions
  BY <1>2, <1>3 DEF BeganIs, Later, TypeOK
<1>6. Listed(k)'
  BY <1>2, <1>5 DEF Listed
<1>7. k.except \in sessions' \ returned' =>
        k.except \in sessions \ returned /\ loginTs'[k.except] = loginTs[k.except]
  <2>1. ASSUME k.except \in sessions' \ returned' PROVE k.except \in sessions \ returned
    BY <1>2, <1>3, <2>1 DEF BeganIs, Later
  <2>2. k.except \in sessions => k.except \in Sessions /\ k.except <= made.sessions
    BY Numbers
  <2>3. QED
    BY <2>1, <2>2 DEF Later
<1>8. SessionsEnd(k)'
  BY <1>2, <1>5, <1>7 DEF SessionsEnd
<1>9. GrantsEnd(k)'
  <2>1. \A g \in grants' : g \in grants \/ g > k.began.grants
    BY <1>2, <1>3 DEF BeganIs, Later, TypeOK
  <2>2. QED
    BY <1>2, <2>1 DEF GrantsEnd
<1>10. Logged(k)'
  BY <1>2 DEF Logged, Later
<1>11. QED
  BY <1>4, <1>6, <1>8, <1>9, <1>10 DEF Sound

(* A login that does nothing, while no session is made.                    *)
LEMMA LoginStays ==
  ASSUME NEW l \in Logins, OwnIs(l), FirstOwn(l), OwnSpared(l), TypeOK,
         task'[l] = task[l], resume'[l] = resume[l], own'[l] = own[l],
         made'.sessions = made.sessions, overlapped => overlapped'
  PROVE  OwnIs(l)' /\ FirstOwn(l)' /\ OwnSpared(l)'
<1>1. Over(l)' <=> Over(l)
  BY DEF Over, Ended
<1>2. OwnIs(l)' /\ FirstOwn(l)'
  BY <1>1 DEF OwnIs, FirstOwn
<1>3. OwnSpared(l)'
  BY DEF OwnSpared
<1>4. QED
  BY <1>2, <1>3

(* A step after which no login is under way that was not before.           *)
LEMMA AloneStays ==
  ASSUME Alone, overlapped => overlapped', \A l \in Logins : Over(l) => Over(l)'
  PROVE  Alone'
  BY DEF Alone

---------------------------------------------------------------------------
(* Steps in which no task goes on.                                         *)
LEMMA IdleStep ==
  ASSUME IInv, TypeOK', Timed', Later, UNCHANGED <<task, resume, own, overlapped>>,
         made'.sessions = made.sessions
  PROVE  IInv'
<1>1. TypeOK /\ task \in [Tasks -> Task]
  BY Types DEF IInv
<1>2. \A t \in Tasks : Sound(task[t])'
  <2>1. ASSUME NEW t \in Tasks, NEW k \in Task, k = task[t] PROVE Sound(k)'
    BY <1>1, <2>1, SoundStays DEF IInv
  <2>2. \A t \in Tasks : task'[t] = task[t] /\ task[t] \in Task
    BY <1>1
  <2>3. ASSUME NEW t \in Tasks PROVE Sound(task[t])'
    <3>1. PICK k \in Task : k = task[t]
      BY <2>2
    <3>2. Sound(k)'
      BY <2>1, <3>1
    <3>3. k = task'[t]
      BY <2>2, <3>1
    <3>4. QED
      BY <3>2, <3>3 DEF Sound, BeganIs, Listed, SessionsEnd, GrantsEnd, Logged
  <2>4. QED
    BY <2>3
<1>3. Alone'
  BY AloneStays DEF IInv, Over, Ended
<1>4. \A l \in Logins : OwnIs(l)' /\ FirstOwn(l)' /\ OwnSpared(l)'
  BY <1>1, LoginStays DEF IInv
<1>5. QED
  BY <1>2, <1>3, <1>4 DEF IInv

LEMMA TimedStays ==
  ASSUME Timed, TypeOK, TypeOK', now <= now', UNCHANGED <<loginTs, made, consented>>,
         \A s \in Sessions :
           /\ app'[s].grant \in {app[s].grant, 0}
           /\ app'[s].iat \in {app[s].iat, NoTime}
  PROVE  Timed'
<1>1. Second(now) <= Second(now') /\ Second(now) \in Int /\ Second(now') \in Int
  <2>1. now \in Nat /\ now' \in Nat
    BY Numbers DEF TypeOK
  <2>2. QED
    BY <2>1, Ticks, SecondGrows
<1>2. \A s \in Sessions : loginTs[s] \in Int
  BY DEF TypeOK, NoTime
<1>3. QED
  BY <1>1, <1>2 DEF Timed, HasCookie

LEMMA TickStep ==
  ASSUME IInv, Tick
  PROVE  IInv'
<1>1. TypeOK /\ Timed /\ now \in Nat /\ now' = now + 1 /\ now' \in 0..MaxTime
      /\ made.sessions \in Nat /\ made.grants \in Nat
      /\ UNCHANGED <<stores, consented, app, log, task, resume, own, overlapped>>
  BY Numbers DEF IInv, Tick, TypeOK
<1>2. TypeOK'
  BY <1>1 DEF TypeOK, stores
<1>3. Timed'
  BY <1>1, <1>2, TimedStays DEF stores
<1>4. Later
  BY <1>1 DEF Later, stores
<1>5. QED
  BY <1>1, <1>2, <1>3, <1>4, IdleStep DEF stores

LEMMA HandleStep ==
  ASSUME IInv, NEW s \in Sessions, handle(s)
  PROVE  IInv'
<1>1. TypeOK /\ Timed /\ now \in Nat /\ made.sessions \in Nat /\ made.grants \in Nat
      /\ UNCHANGED <<now, stores, consented, log, task, resume, own, overlapped>>
      /\ app' = [app EXCEPT ![s].iat = NoTime]
  BY Numbers DEF IInv, handle
<1>2. app \in [Sessions -> Cookie(made.grants)]
  BY <1>1, Types
<1>3. /\ app' \in [Sessions -> Cookie(made.grants)]
      /\ \A q \in Sessions : app'[q].grant = app[q].grant /\ app'[q].iat \in {app[q].iat, NoTime}
  BY <1>1, <1>2 DEF Cookie
<1>4. TypeOK'
  BY <1>1, <1>3 DEF TypeOK, stores, Cookie
<1>5. Timed' /\ Later
  BY <1>1, <1>3, <1>4, TimedStays DEF Later, stores
<1>6. QED
  BY <1>1, <1>4, <1>5, IdleStep DEF stores

LEMMA LogoutStep ==
  ASSUME IInv, NEW s \in Sessions, Logout(s)
  PROVE  IInv'
<1>1. /\ TypeOK /\ Timed /\ now \in Nat /\ made.sessions \in Nat /\ made.grants \in Nat
      /\ UNCHANGED <<now, made, loginTs, consented, log, task, resume, own, overlapped>>
      /\ s \in sessions /\ sessions' = sessions \ {s} /\ returned' = returned \ {s}
      /\ held' \subseteq held \cup {s} /\ grants' \subseteq grants
      /\ app' \in {app, [app EXCEPT ![s] = NoCookie]}
  BY Numbers DEF IInv, Logout, Destroy
<1>2. NoCookie \in Cookie(made.grants) /\ app \in [Sessions -> Cookie(made.grants)]
      /\ NoCookie.grant = 0 /\ NoCookie.iat = NoTime
  BY <1>1, Types DEF NoCookie, Cookie, NoTime
<1>3. app' \in [Sessions -> Cookie(made.grants)] /\ \A q \in Sessions : app'[q] \in {app[q], NoCookie}
  BY <1>1, <1>2
<1>4. TypeOK'
  BY <1>1, <1>3 DEF TypeOK, Cookie
<1>5. \A q \in Sessions : app'[q].grant \in {app[q].grant, 0} /\ app'[q].iat \in {app[q].iat, NoTime}
  BY <1>2, <1>3
<1>6. Timed'
  BY <1>1, <1>4, <1>5, TimedStays
<1>7. Later
  BY <1>1 DEF Later
<1>8. QED
  BY <1>1, <1>4, <1>6, <1>7, IdleStep

(* A request under way stores its session again.                           *)
LEMMA SessionSavedStep ==
  ASSUME IInv, NEW s \in Sessions, sessionSaved(s)
  PROVE  IInv'
<1>1. /\ TypeOK /\ Timed /\ now \in Nat /\ made.sessions \in Nat /\ made.grants \in Nat
      /\ UNCHANGED <<now, made, loginTs, grants, consented, app, log, task, resume, own, overlapped>>
      /\ s \in held /\ held' = held \ {s} /\ sessions' = sessions \cup {s}
      /\ returned' = returned \cup ({s} \ sessions)
  BY Numbers DEF IInv, sessionSaved
<1>2. TypeOK'
  BY <1>1 DEF TypeOK
<1>3. Timed'
  BY <1>1, <1>2, TimedStays
<1>4. Later
  BY <1>1 DEF Later
<1>5. QED
  BY <1>1, <1>2, <1>3, <1>4, IdleStep

LEMMA ConsentStep ==
  ASSUME IInv, NEW s \in Sessions, consent(s)
  PROVE  IInv'
<1> DEFINE g == made.grants + 1
<1>1. /\ TypeOK /\ Timed /\ now \in Nat /\ made.sessions \in Nat /\ made.grants \in Nat
      /\ s <= made.sessions /\ made.grants < MaxGrants /\ made' = [made EXCEPT !.grants = g]
      /\ grants' = grants \cup {g} /\ consented' = [consented EXCEPT ![s] = g]
      /\ UNCHANGED <<now, sessions, returned, held, loginTs, app, log, task, resume, own, overlapped>>
  BY Numbers DEF IInv, consent
<1>2. made \in [sessions : 0..MaxSessions, grants : 0..MaxGrants]
      /\ app \in [Sessions -> Cookie(made.grants)] /\ consented \in [Sessions -> 0..made.grants]
  BY <1>1, Types
<1>3. made' \in [sessions : 0..MaxSessions, grants : 0..MaxGrants]
      /\ made'.sessions = made.sessions /\ made'.grants = g
  BY <1>1, <1>2, Numbers
<1>4. app' \in [Sessions -> Cookie(g)] /\ consented' \in [Sessions -> 0..g]
  <2>1. Cookie(made.grants) \subseteq Cookie(g) /\ 0..made.grants \subseteq 0..g /\ g \in 0..g
    BY <1>1 DEF Cookie
  <2>2. QED
    BY <1>1, <1>2, <2>1
<1>5. TypeOK'
  BY <1>1, <1>3, <1>4 DEF TypeOK, Cookie
<1>6. Timed'
  <2>1. \A q \in Sessions : consented'[q] # 0 => consented[q] # 0 \/ q = s
    BY <1>1, <1>2
  <2>2. QED
    BY <1>1, <1>3, <2>1 DEF Timed, HasCookie
<1>7. Later
  BY <1>1, <1>3 DEF Later
<1>8. QED
  BY <1>1, <1>3, <1>5, <1>6, <1>7, IdleStep

LEMMA InteractionFinishedStep ==
  ASSUME IInv, NEW s \in Sessions, interactionFinished(s)
  PROVE  IInv'
<1>1. /\ TypeOK /\ Timed /\ now \in Nat /\ made.sessions \in Nat /\ made.grants \in Nat
      /\ s \in sessions /\ s <= made.sessions
      /\ app' = [app EXCEPT ![s].grant = consented[s]] /\ consented' = [consented EXCEPT ![s] = 0]
      /\ UNCHANGED <<now, stores, log, task, resume, own, overlapped>>
  BY Numbers DEF IInv, interactionFinished
<1>2. app \in [Sessions -> Cookie(made.grants)] /\ consented \in [Sessions -> 0..made.grants]
  BY <1>1, Types
<1>3. app' \in [Sessions -> Cookie(made.grants)] /\ consented' \in [Sessions -> 0..made.grants]
  BY <1>1, <1>2 DEF Cookie
<1>4. /\ \A q \in Sessions : app'[q].iat = app[q].iat
      /\ \A q \in Sessions : q # s => app'[q].grant = app[q].grant /\ consented'[q] = consented[q]
  BY <1>1, <1>2 DEF Cookie
<1>5. TypeOK'
  BY <1>1, <1>3 DEF TypeOK, Cookie, stores
<1>6. Timed'
  BY <1>1, <1>4 DEF Timed, HasCookie, stores
<1>7. Later
  BY <1>1 DEF Later, stores
<1>8. QED
  BY <1>1, <1>5, <1>6, <1>7, IdleStep DEF stores

(* An id_token of now is not from before the session.                      *)
LEMMA RefreshStep ==
  ASSUME IInv, NEW s \in Sessions, Refresh(s)
  PROVE  IInv'
<1>1. /\ TypeOK /\ Timed /\ now \in Nat /\ made.sessions \in Nat /\ made.grants \in Nat
      /\ app[s].grant \in grants /\ app' = [app EXCEPT ![s].iat = Second(now)]
      /\ UNCHANGED <<now, stores, consented, log, task, resume, own, overlapped>>
  BY Numbers DEF IInv, Refresh
<1>2. app \in [Sessions -> Cookie(made.grants)] /\ Second(now) \in Nat
  BY <1>1, Types, Ticks
<1>3. app' \in [Sessions -> Cookie(made.grants)]
  BY <1>1, <1>2 DEF Cookie
<1>4. /\ \A q \in Sessions : app'[q].grant = app[q].grant
      /\ \A q \in Sessions : q # s => app'[q].iat = app[q].iat
      /\ app'[s].iat = Second(now)
  BY <1>1, <1>2 DEF Cookie
<1>5. TypeOK'
  BY <1>1, <1>3 DEF TypeOK, Cookie, stores
<1>6. app[s].grant # 0
  BY <1>1, Numbers
<1>7. s <= made.sessions /\ loginTs[s] <= Second(now)
  BY <1>1, <1>6 DEF Timed
<1>8. Timed'
  <2>1. ASSUME NEW q \in Sessions
        PROVE  /\ loginTs[q] <= Second(now) /\ (q <= made.sessions => loginTs[q] \in Nat)
               /\ app'[q].grant # 0 \/ consented[q] # 0 => q <= made.sessions
               /\ app'[q].iat # NoTime =>
                    q <= made.sessions /\ app'[q].iat \in Nat /\ app'[q].iat >= loginTs[q]
    <3>1. /\ loginTs[q] <= Second(now) /\ (q <= made.sessions => loginTs[q] \in Nat)
          /\ app[q].grant # 0 \/ consented[q] # 0 => q <= made.sessions
          /\ app[q].iat # NoTime =>
               q <= made.sessions /\ app[q].iat \in Nat /\ app[q].iat >= loginTs[q]
      BY <1>1 DEF Timed, HasCookie
    <3>2. CASE q = s
      BY <1>2, <1>4, <1>7, <3>1, <3>2
    <3>3. CASE q # s
      BY <1>4, <3>1, <3>3
    <3>4. QED
      BY <3>2, <3>3
  <2>2. QED
    BY <1>1, <2>1 DEF Timed, HasCookie, stores
<1>9. Later
  BY <1>1 DEF Later, stores
<1>10. QED
  BY <1>1, <1>5, <1>8, <1>9, IdleStep DEF stores

---------------------------------------------------------------------------
(* Steps of one task.                                                      *)
LEMMA TaskStep ==
  ASSUME IInv, NEW t \in Tasks, NEW rec \in Task, task' = [task EXCEPT ![t] = rec],
         TypeOK', Timed', Later, Sound(rec)', Alone',
         made'.sessions = made.sessions, own' = own,
         overlapped => overlapped', \A l \in Logins \ {t} : resume'[l] = resume[l],
         t \in Logins => OwnIs(t)' /\ FirstOwn(t)' /\ OwnSpared(t)'
  PROVE  IInv'
<1>1. TypeOK /\ task \in [Tasks -> Task] /\ Logins \subseteq Tasks
  BY Types DEF IInv, Tasks
<1>2. task'[t] = rec /\ \A q \in Tasks : q # t => task'[q] = task[q]
  BY <1>1
<1>3. ASSUME NEW q \in Tasks PROVE Sound(task[q])'
  <2>1. CASE q = t
    <3>1. task'[q] = rec
      BY <1>2, <2>1
    <3>2. QED
      BY <3>1 DEF Sound, BeganIs, Listed, SessionsEnd, GrantsEnd, Logged
  <2>2. CASE q # t
    <3>1. PICK k \in Task : k = task[q]
      BY <1>1
    <3>2. Sound(k)'
      BY <1>1, <3>1, SoundStays DEF IInv
    <3>3. k = task'[q]
      BY <1>2, <2>2, <3>1
    <3>4. QED
      BY <3>2, <3>3 DEF Sound, BeganIs, Listed, SessionsEnd, GrantsEnd, Logged
  <2>3. QED
    BY <2>1, <2>2
<1>4. ASSUME NEW l \in Logins, l # t PROVE OwnIs(l)' /\ FirstOwn(l)' /\ OwnSpared(l)'
  BY <1>1, <1>2, <1>4, LoginStays DEF IInv
<1>5. QED
  BY <1>3, <1>4 DEF IInv

(* A step that leaves the stores, the clock and the cookies alone.         *)
LEMMA QuietStep ==
  ASSUME IInv, NEW t \in Tasks, NEW rec \in Task, task' = [task EXCEPT ![t] = rec],
         UNCHANGED <<now, stores, consented, app, own>>, log \subseteq log', log' \subseteq Int,
         resume' \in [Logins -> {"none", "sent", "followed"}], overlapped' \in BOOLEAN
  PROVE  TypeOK' /\ Timed' /\ Later /\ task'[t] = rec /\ task[t] \in Task
<1>1. TypeOK /\ Timed /\ task \in [Tasks -> Task]
  BY Types DEF IInv
<1>2. task' \in [Tasks -> Task] /\ task'[t] = rec /\ task[t] \in Task
  BY <1>1
<1>3. TypeOK'
  BY <1>1, <1>2 DEF TypeOK, stores, Task, Phases
<1>4. Timed'
  BY <1>1 DEF Timed, HasCookie, stores
<1>5. Later
  BY <1>1, Numbers DEF Later, stores
<1>6. QED
  BY <1>2, <1>3, <1>4, <1>5

(* A login begins: another one under way is an overlap.                    *)
LEMMA AloneBegins ==
  ASSUME NEW l \in Logins, Overlaps(l), \A k \in Logins \ {l} : Over(k)' <=> Over(k)
  PROVE  Alone' /\ (overlapped => overlapped')
  BY DEF Alone, Overlaps

LEMMA OthersOver ==
  ASSUME TypeOK, NEW t \in Tasks, NEW rec, task' = [task EXCEPT ![t] = rec],
         \A l \in Logins \ {t} : resume'[l] = resume[l]
  PROVE  \A k \in Logins \ {t} : Over(k)' <=> Over(k)
<1>1. \A k \in Logins \ {t} : task'[k] = task[k]
  BY Types DEF Tasks
<1>2. QED
  BY <1>1 DEF Over, Ended

LEMMA IdleIs == Idle \in Task /\ Idle.phase = "idle" /\ Idle.except = 0
  BY Numbers DEF Idle, Task, Phases, NoTime

LEMMA BeganNow ==
  ASSUME TypeOK
  PROVE  /\ Began \in [at : Nat \cup {NoTime}, sessions : 0..MaxSessions, grants : 0..MaxGrants]
         /\ Began.at = now /\ Began.sessions = made.sessions /\ Began.grants = made.grants
         /\ now \in 0..now /\ made.sessions \in 0..made.sessions /\ made.grants \in 0..made.grants
  BY Numbers DEF Began, TypeOK

LEMMA ListPreviousStep ==
  ASSUME IInv, NEW l \in Logins, listPrevious(l)
  PROVE  IInv'
<1>0. PICK rec : rec = [Idle EXCEPT !.phase = "listed", !.prev = sessions, !.began = Began]
  OBVIOUS
<1>1. /\ TypeOK /\ l \in Tasks /\ resume[l] = "none" /\ Overlaps(l) /\ OwnIs(l)
      /\ task' = [task EXCEPT ![l] = rec]
      /\ UNCHANGED <<now, stores, consented, app, log, resume, own>>
  BY <1>0 DEF IInv, listPrevious, Set, Tasks
<1>2. /\ rec \in Task /\ rec.phase = "listed" /\ rec.prev = sessions /\ rec.began = Began
      /\ rec.except = 0
  BY <1>0, <1>1, IdleIs, BeganNow, Numbers DEF Task, Phases
<1>3. overlapped' \in BOOLEAN /\ log \subseteq Int /\ resume \in [Logins -> {"none", "sent", "followed"}]
  BY <1>1 DEF Overlaps, TypeOK
<1>4. TypeOK' /\ Timed' /\ Later /\ task'[l] = rec
  BY <1>1, <1>2, <1>3, QuietStep
<1>5. Sound(rec)'
  <2>1. BeganIs(rec)'
    BY <1>1, <1>2, BeganNow DEF BeganIs, stores
  <2>2. Listed(rec)'
    BY <1>1, <1>2, BeganNow DEF Listed, stores, TypeOK
  <2>3. QED
    BY <1>2, <2>1, <2>2 DEF Sound, SessionsEnd, GrantsEnd, Logged
<1>6. Alone' /\ (overlapped => overlapped')
  BY <1>1, AloneBegins, OthersOver
<1>7. own'[l] = 0 /\ resume'[l] = "none"
  BY <1>1 DEF OwnIs
<1>8. OwnIs(l)' /\ FirstOwn(l)' /\ OwnSpared(l)'
  BY <1>1, <1>2, <1>4, <1>7, BeganNow DEF OwnIs, FirstOwn, OwnSpared, stores
<1>9. QED
  BY <1>1, <1>2, <1>4, <1>5, <1>6, <1>8, TaskStep DEF stores

LEMMA CompleteLoginStep ==
  ASSUME IInv, NEW l \in Logins, completeLogin(l)
  PROVE  IInv'
<1>0. PICK rec : rec = IF task[l].prev = {} THEN Idle ELSE [task[l] EXCEPT !.phase = "answered"]
  OBVIOUS
<1>1. /\ TypeOK /\ l \in Tasks /\ task[l].phase = "listed" /\ OwnIs(l) /\ FirstOwn(l)
      /\ Sound(task[l]) /\ Alone
      /\ task' = [task EXCEPT ![l] = rec] /\ resume' = [resume EXCEPT ![l] = "sent"]
      /\ UNCHANGED <<now, stores, consented, app, log, own, overlapped>>
  BY <1>0 DEF IInv, completeLogin, Set, Tasks
<1>2. task[l] \in Task /\ resume \in [Logins -> {"none", "sent", "followed"}]
  BY <1>1, Types
<1>3. /\ rec \in Task
      /\ rec = Idle \/ (rec.phase = "answered" /\ rec.prev = task[l].prev
                        /\ rec.began = task[l].began /\ rec.except = task[l].except)
  BY <1>0, <1>2, IdleIs DEF Task, Phases
<1>4. /\ overlapped \in BOOLEAN /\ log \subseteq Int /\ resume'[l] = "sent"
      /\ resume' \in [Logins -> {"none", "sent", "followed"}]
      /\ \A k \in Logins \ {l} : resume'[k] = resume[k]
  BY <1>1, <1>2 DEF TypeOK
<1>5. TypeOK' /\ Timed' /\ Later /\ task'[l] = rec
  BY <1>1, <1>3, <1>4, QuietStep
<1>6. Sound(rec)'
  BY <1>1, <1>3, IdleIs
  DEF Sound, BeganIs, Listed, SessionsEnd, GrantsEnd, Logged, stores
<1>7. Alone'
  <2>1. ~Over(l)
    BY <1>1 DEF Over, Ended
  <2>2. QED
    BY <1>1, <1>4, <2>1, OthersOver, AloneStays
<1>8. own'[l] = 0
  BY <1>1 DEF OwnIs
<1>9. OwnIs(l)' /\ FirstOwn(l)' /\ OwnSpared(l)'
  BY <1>1, <1>3, <1>4, <1>5, <1>8, IdleIs DEF OwnIs, FirstOwn, OwnSpared, stores
<1>10. QED
  BY <1>1, <1>3, <1>4, <1>5, <1>6, <1>7, <1>9, TaskStep DEF stores

LEMMA CompleteLoginOnlyStep ==
  ASSUME IInv, NEW l \in Logins, completeLoginOnly(l)
  PROVE  IInv'
<1>1. /\ TypeOK /\ l \in Tasks /\ task[l].phase = "idle" /\ OwnIs(l) /\ resume[l] = "none"
      /\ Sound(task[l]) /\ Overlaps(l) /\ resume' = [resume EXCEPT ![l] = "sent"]
      /\ UNCHANGED <<now, stores, consented, app, log, task, own>>
  BY DEF IInv, completeLoginOnly, Tasks
<1>2. /\ task \in [Tasks -> Task] /\ task[l] \in Task
      /\ resume \in [Logins -> {"none", "sent", "followed"}]
      /\ task' = [task EXCEPT ![l] = task[l]]
  BY <1>1, Types
<1>3. /\ overlapped' \in BOOLEAN /\ log \subseteq Int /\ resume'[l] = "sent"
      /\ resume' \in [Logins -> {"none", "sent", "followed"}]
      /\ \A k \in Logins \ {l} : resume'[k] = resume[k]
  <2>1. overlapped' \in BOOLEAN /\ log \subseteq Int
    BY <1>1 DEF TypeOK, Overlaps
  <2>2. /\ resume'[l] = "sent" /\ resume' \in [Logins -> {"none", "sent", "followed"}]
        /\ \A k \in Logins \ {l} : resume'[k] = resume[k]
    BY <1>1, <1>2
  <2>3. QED
    BY <2>1, <2>2
<1>4. TypeOK' /\ Timed' /\ Later
  <2>1. log \subseteq log' /\ log' \subseteq Int /\ UNCHANGED <<now, stores, consented, app, own>>
    BY <1>1, <1>3
  <2>2. PICK rec \in Task : task' = [task EXCEPT ![l] = rec]
    BY <1>2
  <2>3. QED
    BY <1>1, <1>3, <2>1, <2>2, QuietStep
<1>5. \A q \in Tasks : Sound(task[q])'
  <2>1. ASSUME NEW q \in Tasks PROVE Sound(task[q])'
    <3>1. PICK k \in Task : k = task[q]
      BY <1>2
    <3>2. Sound(k)'
      BY <1>1, <1>4, <3>1, SoundStays DEF IInv
    <3>3. k = task'[q]
      BY <1>1, <3>1
    <3>4. QED
      BY <3>2, <3>3 DEF Sound, BeganIs, Listed, SessionsEnd, GrantsEnd, Logged
  <2>2. QED
    BY <2>1
<1>6. Alone' /\ (overlapped => overlapped')
  BY <1>1, <1>2, <1>3, AloneBegins, OthersOver
<1>7. own'[l] = 0
  BY <1>1 DEF OwnIs
<1>8. OwnIs(l)' /\ FirstOwn(l)' /\ OwnSpared(l)'
  BY <1>1, <1>3, <1>7 DEF OwnIs, FirstOwn, OwnSpared, stores
<1>9. ASSUME NEW k \in Logins, k # l PROVE OwnIs(k)' /\ FirstOwn(k)' /\ OwnSpared(k)'
  BY <1>1, <1>3, <1>6, <1>9, LoginStays DEF IInv, stores
<1>10. QED
  BY <1>4, <1>5, <1>6, <1>8, <1>9 DEF IInv

LEMMA ResumeStep ==
  ASSUME IInv, NEW l \in Logins, Resume(l)
  PROVE  IInv'
<1>0. PICK s : s = made.sessions + 1
  OBVIOUS
<1>1. /\ TypeOK /\ Timed /\ Alone /\ l \in Tasks /\ OwnIs(l) /\ FirstOwn(l)
      /\ resume[l] = "sent" /\ made.sessions < MaxSessions
      /\ resume' = [resume EXCEPT ![l] = "followed"]
      /\ made' = [made EXCEPT !.sessions = s] /\ sessions' = sessions \cup {s}
      /\ loginTs' = [loginTs EXCEPT ![s] = Second(now)] /\ own' = [own EXCEPT ![l] = s]
      /\ UNCHANGED <<now, returned, held, grants, consented, app, log, task, overlapped>>
  BY <1>0 DEF IInv, Resume, Tasks
<1>2. /\ now \in Nat /\ made.sessions \in Nat /\ made.grants \in Nat /\ s \in Sessions /\ s \in Nat
      /\ Second(now) \in Nat
  BY <1>0, <1>1, Numbers, Ticks DEF Sessions
<1>3. /\ made' \in [sessions : 0..MaxSessions, grants : 0..MaxGrants]
      /\ made'.sessions = s /\ made'.grants = made.grants
  <2>1. made \in [sessions : 0..MaxSessions, grants : 0..MaxGrants] /\ s \in 0..MaxSessions
    BY <1>0, <1>1, <1>2, Types, Numbers
  <2>2. QED
    BY <1>1, <2>1
<1>4. /\ loginTs' \in [Sessions -> Nat \cup {NoTime}] /\ loginTs'[s] = Second(now)
      /\ \A q \in Sessions : q # s => loginTs'[q] = loginTs[q]
  BY <1>1, <1>2, Types
<1>5. /\ own' \in [Logins -> 0..s] /\ own'[l] = s
      /\ \A k \in Logins : k # l => own'[k] = own[k]
  <2>1. own \in [Logins -> 0..made.sessions]
    BY <1>1, Types
  <2>2. 0..made.sessions \subseteq 0..s /\ s \in 0..s
    BY <1>0, <1>2
  <2>3. QED
    BY <1>1, <2>1, <2>2
<1>6. /\ resume' \in [Logins -> {"none", "sent", "followed"}] /\ resume'[l] = "followed"
      /\ \A k \in Logins : k # l => resume'[k] = resume[k]
  BY <1>1, Types
<1>7. sessions' \subseteq 1..s /\ returned \subseteq sessions' /\ held \subseteq 1..s
  BY <1>0, <1>1, <1>2 DEF TypeOK
<1>8. TypeOK'
  BY <1>1, <1>3, <1>4, <1>5, <1>6, <1>7 DEF TypeOK
<1>9. ~HasCookie(s) /\ app[s].grant = 0 /\ consented[s] = 0
  BY <1>0, <1>1, <1>2 DEF Timed
<1>10. Timed'
  <2>1. ASSUME NEW q \in Sessions
        PROVE  /\ loginTs'[q] <= Second(now) /\ (q <= s => loginTs'[q] \in Nat)
               /\ app[q].grant # 0 \/ consented[q] # 0 => q <= s
               /\ HasCookie(q) => q <= s /\ app[q].iat \in Nat /\ app[q].iat >= loginTs'[q]
    <3>1. CASE q = s
      BY <1>2, <1>4, <1>9, <3>1
    <3>2. CASE q # s
      <4>1. q \in Nat
        BY DEF Sessions
      <4>2. loginTs'[q] = loginTs[q] /\ (q <= s => q <= made.sessions)
            /\ (q <= made.sessions => q <= s)
        BY <1>0, <1>2, <1>4, <3>2, <4>1
      <4>3. QED
        BY <1>1, <4>2 DEF Timed
    <3>3. QED
      BY <3>1, <3>2
  <2>2. Second(now)' = Second(now)
    BY <1>1
  <2>3. QED
    BY <1>1, <1>3, <2>1, <2>2 DEF Timed, HasCookie
<1>11. Later
  BY <1>0, <1>1, <1>2, <1>3, <1>4 DEF Later
<1>12. \A q \in Tasks : Sound(task[q])'
  <2>1. ASSUME NEW q \in Tasks PROVE Sound(task[q])'
    <3>1. PICK k \in Task : k = task[q]
      BY <1>1, Types
    <3>2. Sound(k)'
      BY <1>1, <1>8, <1>11, <3>1, SoundStays DEF IInv
    <3>3. k = task'[q]
      BY <1>1, <3>1
    <3>4. QED
      BY <3>2, <3>3 DEF Sound, BeganIs, Listed, SessionsEnd, GrantsEnd, Logged
  <2>2. QED
    BY <2>1
<1>13. ~Over(l) /\ own[l] = 0
  BY <1>1 DEF Over, OwnIs
<1>14. \A k \in Logins : k # l => (Over(k)' <=> Over(k))
  BY <1>1, <1>6 DEF Over, Ended
<1>15. Alone'
  BY <1>1, <1>13, <1>14, AloneStays
<1>16. OwnIs(l)' /\ FirstOwn(l)' /\ OwnSpared(l)'
  <2>1. OwnIs(l)'
    BY <1>0, <1>1, <1>2, <1>5, <1>6 DEF OwnIs
  <2>2. FirstOwn(l)'
    BY <1>0, <1>1, <1>2, <1>3, <1>5, <1>13 DEF FirstOwn
  <2>3. OwnSpared(l)'
    BY <1>1, <1>13 DEF IInv, OwnSpared
  <2>4. QED
    BY <2>1, <2>2, <2>3
<1>17. ASSUME NEW k \in Logins, k # l PROVE OwnIs(k)' /\ FirstOwn(k)' /\ OwnSpared(k)'
  <2>1. OwnIs(k) /\ FirstOwn(k) /\ OwnSpared(k) /\ own[k] # s /\ own'[k] = own[k]
    BY <1>0, <1>1, <1>2, <1>5, <1>17 DEF IInv, TypeOK
  <2>2. OwnIs(k)' /\ OwnSpared(k)'
    BY <1>1, <1>6, <1>17, <2>1 DEF OwnIs, OwnSpared
  <2>3. overlapped \/ (Over(k) /\ Over(k)')
    BY <1>1, <1>13, <1>14, <1>17 DEF Alone
  <2>4. Over(k) /\ task[k].phase # "idle" => own[k] # 0
    BY <1>1, <2>1, Types DEF Over, Ended, OwnIs
  <2>5. FirstOwn(k)'
    BY <1>1, <2>1, <2>3, <2>4 DEF FirstOwn
  <2>6. QED
    BY <2>1, <2>2, <2>5
<1>18. QED
  BY <1>8, <1>10, <1>12, <1>15, <1>16, <1>17 DEF IInv

LEMMA FindOwnStep ==
  ASSUME IInv, NEW l \in Logins, findOwn(l)
  PROVE  IInv'
<1>1. PICK s : /\ Revokes(l, s)
               /\ s \in Unseen(l) \/ (s = 0 /\ Unseen(l) = {})
  BY DEF findOwn
<1> DEFINE misled == Misled(l)
<1>1a. misled \in BOOLEAN /\ (misled <=> Misled(l))
  BY DEF Misled
<1>1b. Set(l, [task[l] EXCEPT !.phase = "revoke", !.except = s, !.misled = misled])
  BY <1>1 DEF Revokes
<1> HIDE DEF misled
<1>2. PICK rec : rec = [task[l] EXCEPT !.phase = "revoke", !.except = s, !.misled = misled]
  OBVIOUS
<1>3. /\ TypeOK /\ l \in Tasks /\ task[l].phase = "answered" /\ OwnIs(l) /\ FirstOwn(l)
      /\ Sound(task[l]) /\ Alone
      /\ task' = [task EXCEPT ![l] = rec]
      /\ UNCHANGED <<now, stores, consented, app, log, resume, own, overlapped>>
  BY <1>2, <1>1b DEF IInv, findOwn, Set, Tasks
<1>4. task[l] \in Task /\ s \in {0} \cup Sessions /\ made.sessions \in Nat /\ 0 \notin sessions
      /\ sessions \subseteq Sessions /\ (s \in sessions => s <= made.sessions)
  BY <1>1, <1>3, Types, Numbers DEF Unseen
<1>5. /\ rec \in Task /\ rec.phase = "revoke" /\ rec.began = task[l].began /\ rec.except = s
      /\ rec.misled = misled
  BY <1>2, <1>4, <1>1a DEF Task, Phases
<1>6. TypeOK' /\ Timed' /\ Later /\ task'[l] = rec
  BY <1>3, <1>5, QuietStep DEF TypeOK
<1>7. BeganIs(task[l]) /\ Listed(task[l])
  BY <1>3 DEF Sound
<1>8. s <= made.sessions /\ (s = 0 \/ s > task[l].began.sessions \/ s \in returned)
  BY <1>1, <1>3, <1>4, <1>7 DEF Listed, Unseen
<1>9. Sound(rec)'
  <2>1. BeganIs(rec)'
    BY <1>3, <1>5, <1>7, <1>8 DEF BeganIs, stores
  <2>2. QED
    BY <1>5, <2>1 DEF Sound, Listed, SessionsEnd, GrantsEnd, Logged
<1>10. ~Over(l) /\ ~Over(l)'
  BY <1>3, <1>5, <1>6 DEF Over, Ended
<1>11. Alone'
  BY <1>3, <1>10, OthersOver, AloneStays
<1>12. OwnIs(l)' /\ FirstOwn(l)'
  BY <1>3, <1>5, <1>6, <1>10 DEF OwnIs, FirstOwn, stores
<1>13. OwnSpared(l)'
  <2>1. SUFFICES ASSUME ~Misled(l), ~overlapped PROVE own[l] # 0 /\ s = own[l]
    BY <1>3, <1>5, <1>6, <1>1a DEF OwnSpared, stores
  <2>2. own[l] \in sessions /\ own[l] # 0
    BY <1>4, <2>1 DEF Misled
  <2>3. made.sessions = own[l] /\ own[l] = task[l].began.sessions + 1
    BY <1>3, <1>10, <2>1, <2>2 DEF FirstOwn
  <2>4. task[l].began.sessions \in Nat
    BY <1>4 DEF Task
  <2>5. own[l] \in Unseen(l)
    BY <1>3, <1>7, <2>2, <2>3, <2>4 DEF Unseen, Listed
  <2>6. s \in Unseen(l) /\ (s = own[l] \/ s \notin returned)
    BY <1>1, <2>1, <2>5 DEF Misled
  <2>7. s \in Nat /\ s # 0 /\ s <= made.sessions
    BY <1>4, <2>6 DEF Unseen, Sessions
  <2>8. QED
    BY <1>8, <2>2, <2>3, <2>4, <2>6, <2>7
<1>14. QED
  BY <1>3, <1>5, <1>6, <1>9, <1>11, <1>12, <1>13, TaskStep DEF stores

LEMMA RevokeAllStep ==
  ASSUME IInv, NEW t \in Tasks, revokeAll(t)
  PROVE  IInv'
<1>1. PICK rec : rec = [Idle EXCEPT !.phase = "revoke", !.began = Began]
  OBVIOUS
<1>2. /\ TypeOK /\ t \in Admins /\ t \notin Logins /\ Alone
      /\ task' = [task EXCEPT ![t] = rec]
      /\ UNCHANGED <<now, stores, consented, app, log, resume, own, overlapped>>
  BY <1>1, TasksAssumption DEF IInv, revokeAll, Set
<1>3. rec \in Task /\ rec.phase = "revoke" /\ rec.began = Began /\ rec.except = 0
  BY <1>1, <1>2, IdleIs, BeganNow DEF Task, Phases
<1>4. TypeOK' /\ Timed' /\ Later
  BY <1>2, <1>3, QuietStep DEF TypeOK
<1>5. Sound(rec)'
  <2>1. BeganIs(rec)'
    BY <1>2, <1>3, BeganNow DEF BeganIs, stores
  <2>2. QED
    BY <1>3, <2>1 DEF Sound, Listed, SessionsEnd, GrantsEnd, Logged
<1>6. Alone'
  BY <1>2, OthersOver, AloneStays
<1>7. QED
  BY <1>2, <1>3, <1>4, <1>5, <1>6, TaskStep DEF stores

(* A revocation goes on: what it has yet to destroy it had listed before,  *)
(* or lists now, without the session to except.                            *)
LEMMA RevokingStep ==
  ASSUME IInv, NEW t \in Tasks, NEW rec \in Task, task' = [task EXCEPT ![t] = rec],
         task[t].phase \in {"revoke", "sessions", "grants"},
         rec.phase \in {"sessions", "grants", "done", "unlogged"},
         rec.began = task[t].began, rec.except = task[t].except, rec.misled = task[t].misled,
         UNCHANGED <<now, made, loginTs, consented, app, resume, own, overlapped>>,
         sessions' \subseteq sessions, returned' = returned \cap sessions',
         held' \subseteq 1..made.sessions, grants' \subseteq grants, log \subseteq log', log' \subseteq Int,
         rec.phase = "sessions" =>
           \A q \in rec.left : \/ task[t].phase = "sessions" /\ q \in task[t].left
                               \/ q \in sessions /\ q # rec.except,
         rec.phase = "sessions" => task[t].phase \in {"revoke", "sessions"},
         SessionsEnd(rec)', GrantsEnd(rec)', Logged(rec)'
  PROVE  IInv'
<1>1. TypeOK /\ Timed /\ Alone /\ task \in [Tasks -> Task] /\ Sound(task[t])
  BY Types DEF IInv
<1>2. task' \in [Tasks -> Task] /\ task'[t] = rec /\ made.sessions \in Nat /\ made.grants \in Nat
      /\ now \in Nat
  BY <1>1, Numbers
<1>3. TypeOK'
  BY <1>1, <1>2 DEF TypeOK, Task, Phases
<1>4. Timed'
  BY <1>1 DEF Timed, HasCookie
<1>5. Later
  BY <1>1, <1>2 DEF Later
<1>6. Sound(rec)'
  <2>1. BeganIs(task[t])
    BY <1>1 DEF Sound
  <2>2. BeganIs(rec)'
    BY <2>1 DEF BeganIs
  <2>3. Listed(rec)'
    BY DEF Listed
  <2>4. QED
    BY <2>2, <2>3 DEF Sound
<1>7. ASSUME t \in Logins PROVE ~Over(t)
  BY DEF Over, Ended
<1>8. Alone'
  BY <1>1, <1>7, OthersOver, AloneStays
<1>9. ASSUME t \in Logins PROVE OwnIs(t)' /\ FirstOwn(t)' /\ OwnSpared(t)'
  <2>1. OwnIs(t) /\ FirstOwn(t) /\ OwnSpared(t)
    BY <1>9 DEF IInv
  <2>2. OwnIs(t)'
    BY <1>2, <2>1 DEF OwnIs
  <2>3. FirstOwn(t)'
    BY <1>2, <1>7, <1>9, <2>1 DEF FirstOwn
  <2>4. OwnSpared(t)'
    <3>1. SUFFICES ASSUME rec.phase = "sessions", rec.misled = FALSE, overlapped = FALSE
                   PROVE  /\ own[t] # 0 /\ rec.except = own[t]
                          /\ own[t] \notin rec.left
      <4>1. rec.misled \in BOOLEAN /\ overlapped \in BOOLEAN
        BY <1>1 DEF Task, TypeOK
      <4>2. QED
        BY <1>2, <4>1 DEF OwnSpared
    <3>2. /\ own[t] # 0 /\ rec.except = own[t]
          /\ task[t].phase = "sessions" => own[t] \notin task[t].left
      BY <2>1, <3>1 DEF OwnSpared
    <3>3. QED
      BY <3>1, <3>2
  <2>5. QED
    BY <2>2, <2>3, <2>4
<1>10. QED
  BY <1>3, <1>4, <1>5, <1>6, <1>8, <1>9, TaskStep

LEMMA ListSessionsStep ==
  ASSUME IInv, NEW t \in Tasks, listSessions(t)
  PROVE  IInv'
<1>1. PICK e : e = task[t].except
  OBVIOUS
<1>2. PICK rec : rec = [task[t] EXCEPT !.phase = "sessions", !.left = sessions \ {e},
                                       !.kept = IF e \in sessions THEN loginTs[e] ELSE NoTime]
  OBVIOUS
<1>3. /\ TypeOK /\ task[t].phase = "revoke" /\ task' = [task EXCEPT ![t] = rec]
      /\ UNCHANGED <<now, stores, consented, app, log, resume, own, overlapped>>
  BY <1>1, <1>2 DEF IInv, listSessions, Set
<1>4. task[t] \in Task /\ sessions \subseteq Nat /\ sessions \subseteq Sessions /\ log \subseteq Int
      /\ loginTs \in [Sessions -> Nat \cup {NoTime}]
  BY <1>3, Types, Numbers
<1>5. rec \in Task
  <2>1. PICK kept \in Nat \cup {NoTime} : kept = IF e \in sessions THEN loginTs[e] ELSE NoTime
    BY <1>4
  <2>2. rec = [task[t] EXCEPT !.phase = "sessions", !.left = sessions \ {e}, !.kept = kept]
    BY <1>2, <2>1
  <2>3. QED
    BY <1>4, <2>2 DEF Task, Phases
<1>6. /\ rec.phase = "sessions" /\ rec.left = sessions \ {e} /\ rec.except = e
      /\ rec.began = task[t].began /\ rec.misled = task[t].misled
      /\ e \in sessions => rec.kept = loginTs[e]
  BY <1>1, <1>2, <1>4 DEF Task
<1>7. SessionsEnd(rec)' /\ GrantsEnd(rec)' /\ Logged(rec)'
  BY <1>3, <1>6 DEF SessionsEnd, GrantsEnd, Logged, stores
<1>8. returned' = returned \cap sessions' /\ held' \subseteq 1..made.sessions
  BY <1>3 DEF TypeOK, stores
<1>9. QED
  BY <1>1, <1>3, <1>4, <1>5, <1>6, <1>7, <1>8, RevokingStep DEF stores

LEMMA DestroySessionStep ==
  ASSUME IInv, NEW t \in Tasks, destroySession(t)
  PROVE  IInv'
<1>1. PICK s \in task[t].left :
        /\ sessions' = sessions \ {s} /\ returned' = returned \ {s}
        /\ held' \in {held, held \cup (sessions \cap {s})} /\ Set(t, [task[t] EXCEPT !.left = @ \ {s}])
  BY DEF destroySession, Destroy
<1>2. PICK rec : rec = [task[t] EXCEPT !.left = task[t].left \ {s}]
  OBVIOUS
<1>3. /\ TypeOK /\ Sound(task[t]) /\ task[t].phase = "sessions" /\ task' = [task EXCEPT ![t] = rec]
      /\ UNCHANGED <<now, made, loginTs, grants, consented, app, log, resume, own, overlapped>>
  BY <1>1, <1>2 DEF IInv, destroySession, Set
<1>4. task[t] \in Task /\ log \subseteq Int
  BY <1>3, Types
<1>5. /\ rec \in Task /\ rec.phase = "sessions" /\ rec.left = task[t].left \ {s}
      /\ rec.except = task[t].except /\ rec.began = task[t].began /\ rec.misled = task[t].misled
      /\ rec.kept = task[t].kept
  BY <1>2, <1>3, <1>4 DEF Task
<1>6. SessionsEnd(task[t])
  BY <1>3 DEF Sound
<1>7. SessionsEnd(rec)' /\ GrantsEnd(rec)' /\ Logged(rec)'
  BY <1>1, <1>3, <1>5, <1>6 DEF SessionsEnd, GrantsEnd, Logged
<1>8. returned' = returned \cap sessions' /\ held' \subseteq 1..made.sessions
  BY <1>1, <1>3 DEF TypeOK
<1>9. QED
  BY <1>1, <1>3, <1>4, <1>5, <1>7, <1>8, RevokingStep

LEMMA ListGrantsStep ==
  ASSUME IInv, NEW t \in Tasks, listGrants(t)
  PROVE  IInv'
<1>1. PICK rec : rec = [task[t] EXCEPT !.phase = "grants", !.left = grants]
  OBVIOUS
<1>2. /\ TypeOK /\ Sound(task[t]) /\ task[t].phase = "sessions" /\ task[t].left = {}
      /\ task' = [task EXCEPT ![t] = rec]
      /\ UNCHANGED <<now, stores, consented, app, log, resume, own, overlapped>>
  BY <1>1 DEF IInv, listGrants, Set
<1>3. task[t] \in Task /\ log \subseteq Int /\ grants \subseteq Nat
  BY <1>2, Types, Numbers
<1>4. /\ rec \in Task /\ rec.phase = "grants" /\ rec.left = grants
      /\ rec.except = task[t].except /\ rec.began = task[t].began /\ rec.misled = task[t].misled
      /\ rec.kept = task[t].kept
  BY <1>1, <1>3 DEF Task, Phases
<1>5. SessionsEnd(task[t])
  BY <1>2 DEF Sound
<1>6. SessionsEnd(rec)' /\ GrantsEnd(rec)' /\ Logged(rec)'
  BY <1>2, <1>4, <1>5 DEF SessionsEnd, GrantsEnd, Logged, stores
<1>7. returned' = returned \cap sessions' /\ held' \subseteq 1..made.sessions
  BY <1>2 DEF TypeOK, stores
<1>8. QED
  BY <1>2, <1>3, <1>4, <1>6, <1>7, RevokingStep DEF stores

LEMMA DestroyGrantStep ==
  ASSUME IInv, NEW t \in Tasks, destroyGrant(t)
  PROVE  IInv'
<1>1. PICK g \in task[t].left :
        /\ grants' = grants \ {g} /\ Set(t, [task[t] EXCEPT !.left = @ \ {g}])
  BY DEF destroyGrant
<1>2. PICK rec : rec = [task[t] EXCEPT !.left = task[t].left \ {g}]
  OBVIOUS
<1>3. /\ TypeOK /\ Sound(task[t]) /\ task[t].phase = "grants" /\ task' = [task EXCEPT ![t] = rec]
      /\ UNCHANGED <<now, made, sessions, returned, held, loginTs, consented, app, log, resume, own,
                     overlapped>>
  BY <1>1, <1>2 DEF IInv, destroyGrant, Set
<1>4. task[t] \in Task /\ log \subseteq Int
  BY <1>3, Types
<1>5. /\ rec \in Task /\ rec.phase = "grants" /\ rec.left = task[t].left \ {g}
      /\ rec.except = task[t].except /\ rec.began = task[t].began /\ rec.misled = task[t].misled
      /\ rec.kept = task[t].kept
  BY <1>2, <1>3, <1>4 DEF Task
<1>6. SessionsEnd(task[t]) /\ GrantsEnd(task[t])
  BY <1>3 DEF Sound
<1>7. SessionsEnd(rec)' /\ GrantsEnd(rec)' /\ Logged(rec)'
  BY <1>1, <1>3, <1>5, <1>6 DEF SessionsEnd, GrantsEnd, Logged
<1>8. returned' = returned \cap sessions' /\ held' \subseteq 1..made.sessions
  BY <1>3 DEF TypeOK
<1>9. QED
  BY <1>1, <1>3, <1>4, <1>5, <1>7, <1>8, RevokingStep

(* The cutoff is now, which is not before the revocation began, or from    *)
(* the second before the login that kept its session.                      *)
LEMMA RecordStep ==
  ASSUME IInv, NEW t \in Tasks, recordSubRevocation(t)
  PROVE  IInv'
<1>1. /\ TypeOK /\ Sound(task[t]) /\ task[t].phase = "grants" /\ task[t].left = {}
      /\ UNCHANGED <<now, stores, consented, app, resume, own, overlapped>>
  BY DEF IInv, recordSubRevocation
<1>2. task[t] \in Task /\ log \subseteq Int /\ now \in Nat
  BY <1>1, Types, Numbers
<1>3. BeganIs(task[t]) /\ SessionsEnd(task[t]) /\ GrantsEnd(task[t])
  BY <1>1 DEF Sound
<1>4. cutoff(t) \in Int
  <2>1. task[t].kept \in Nat \cup {NoTime}
    BY <1>2 DEF Task
  <2>2. task[t].kept \in Nat => Start(task[t].kept - 1) \in Int
    BY Ticks
  <2>3. QED
    BY <1>2, <2>1, <2>2 DEF cutoff
<1>5. PICK phase \in {"done", "unlogged"} :
        /\ Set(t, [task[t] EXCEPT !.phase = phase])
        /\ phase = "done" => log' = log \cup {cutoff(t)}
        /\ phase = "unlogged" => log' = log
  BY DEF recordSubRevocation
<1>6. PICK rec : rec = [task[t] EXCEPT !.phase = phase]
  OBVIOUS
<1>7. task' = [task EXCEPT ![t] = rec] /\ log \subseteq log' /\ log' \subseteq Int
  BY <1>2, <1>4, <1>5, <1>6 DEF Set
<1>8. /\ rec \in Task /\ rec.phase = phase
      /\ rec.except = task[t].except /\ rec.began = task[t].began /\ rec.misled = task[t].misled
      /\ rec.kept = task[t].kept
  BY <1>2, <1>6 DEF Task, Phases
<1>9. SessionsEnd(rec)' /\ GrantsEnd(rec)'
  BY <1>1, <1>3, <1>8 DEF SessionsEnd, GrantsEnd, stores
<1>10. Logged(rec)'
  <2>1. SUFFICES ASSUME phase = "done"
                 PROVE  \E at \in log' : IF task[t].kept = NoTime THEN at >= task[t].began.at
                                         ELSE at >= Start(task[t].kept - 1)
    BY <1>8 DEF Logged
  <2>2. cutoff(t) \in log'
    BY <1>5, <2>1
  <2>3. IF task[t].kept = NoTime THEN cutoff(t) >= task[t].began.at
        ELSE cutoff(t) >= Start(task[t].kept - 1)
    BY <1>2, <1>3, <1>4 DEF cutoff, BeganIs
  <2>4. QED
    BY <2>2, <2>3
<1>11. returned' = returned \cap sessions' /\ held' \subseteq 1..made.sessions
  BY <1>1 DEF TypeOK, stores
<1>12. QED
  BY <1>1, <1>7, <1>8, <1>9, <1>10, <1>11, RevokingStep DEF stores

LEMMA InitHolds ==
  ASSUME Init
  PROVE  IInv
<1>1. 0 \in 0..MaxTime /\ 0 \in 0..MaxSessions /\ 0 \in 0..MaxGrants
  BY NumbersAssumption
<1>2. /\ now = 0 /\ made = [sessions |-> 0, grants |-> 0] /\ sessions = {} /\ grants = {}
      /\ returned = {} /\ held = {} /\ consented = [s \in Sessions |-> 0]
      /\ loginTs = [s \in Sessions |-> NoTime] /\ app = [s \in Sessions |-> NoCookie] /\ log = {}
      /\ task = [t \in Tasks |-> Idle] /\ resume = [l \in Logins |-> "none"]
      /\ own = [l \in Logins |-> 0] /\ overlapped = FALSE
  BY DEF Init
<1>3. made \in [sessions : 0..MaxSessions, grants : 0..MaxGrants]
      /\ made.sessions = 0 /\ made.grants = 0
  BY <1>1, <1>2
<1>4. NoCookie \in Cookie(0) /\ NoTime \in Nat \cup {NoTime} /\ 0 \in 0..0
  BY DEF NoCookie, Cookie, NoTime
<1>5. /\ loginTs \in [Sessions -> Nat \cup {NoTime}] /\ app \in [Sessions -> Cookie(0)]
      /\ consented \in [Sessions -> 0..0]
      /\ own \in [Logins -> 0..0] /\ resume \in [Logins -> {"none", "sent", "followed"}]
  BY <1>2, <1>4
<1>6. task \in [Tasks -> Task]
  BY <1>2, IdleIs
<1>7. TypeOK
  BY <1>1, <1>2, <1>3, <1>5, <1>6, Types
<1>8. Timed
  <2>1. Second(now) \in Nat
    BY <1>2, Ticks
  <2>2. \A s \in Sessions : loginTs[s] = -1 /\ app[s] = NoCookie /\ consented[s] = 0
                             /\ s \in Nat /\ s > 0
    BY <1>2 DEF NoTime, Sessions
  <2>3. NoCookie.grant = 0 /\ NoCookie.iat = NoTime
    BY DEF NoCookie
  <2>4. QED
    BY <1>3, <2>1, <2>2, <2>3 DEF Timed, HasCookie
<1>9. \A t \in Tasks : task[t].phase = "idle"
  BY <1>2, IdleIs
<1>10. \A t \in Tasks : Sound(task[t])
  BY <1>9 DEF Sound
<1>11. \A l \in Logins : task[l].phase = "idle" /\ resume[l] = "none" /\ own[l] = 0
  BY <1>2, <1>9 DEF Tasks
<1>12. \A l \in Logins : Over(l) /\ OwnIs(l) /\ FirstOwn(l) /\ OwnSpared(l)
  BY <1>11 DEF Over, OwnIs, FirstOwn, OwnSpared
<1>13. QED
  BY <1>7, <1>8, <1>10, <1>12 DEF IInv, Alone

LEMMA StutterStep ==
  ASSUME IInv, UNCHANGED vars
  PROVE  IInv'
<1>1. /\ TypeOK /\ Timed /\ Alone /\ \A t \in Tasks : Sound(task[t])
      /\ UNCHANGED <<now, made, sessions, returned, held, loginTs, grants, consented, app, log, task,
                     resume, own, overlapped>>
  BY DEF IInv, vars, stores
<1>2. TypeOK'
  BY <1>1 DEF TypeOK
<1>3. Timed'
  BY <1>1 DEF Timed, HasCookie
<1>4. Later
  BY <1>1, Numbers DEF Later
<1>5. QED
  BY <1>1, <1>2, <1>3, <1>4, IdleStep

LEMMA NextHolds ==
  ASSUME IInv, [Next]_vars
  PROVE  IInv'
<1>1. CASE Tick
  BY <1>1, TickStep
<1>2. ASSUME NEW l \in Logins,
             \/ listPrevious(l) \/ completeLogin(l) \/ findOwn(l)
             \/ completeLoginOnly(l) \/ Resume(l)
      PROVE  IInv'
  BY <1>2, ListPreviousStep, CompleteLoginStep, FindOwnStep, CompleteLoginOnlyStep, ResumeStep
<1>3. ASSUME NEW t \in Tasks,
             \/ revokeAll(t) \/ listSessions(t) \/ destroySession(t)
             \/ listGrants(t) \/ destroyGrant(t) \/ recordSubRevocation(t)
      PROVE  IInv'
  BY <1>3, RevokeAllStep, ListSessionsStep, DestroySessionStep, ListGrantsStep, DestroyGrantStep,
     RecordStep
<1>4. ASSUME NEW s \in Sessions,
             \/ sessionSaved(s) \/ consent(s) \/ interactionFinished(s)
             \/ Refresh(s) \/ Logout(s) \/ handle(s)
      PROVE  IInv'
  BY <1>4, SessionSavedStep, ConsentStep, InteractionFinishedStep, RefreshStep, LogoutStep,
     HandleStep
<1>5. CASE UNCHANGED vars
  BY <1>5, StutterStep
<1>6. QED
  BY <1>1, <1>2, <1>3, <1>4, <1>5 DEF Next

---------------------------------------------------------------------------
(* The invariant holds, for every number of logins, administrators,        *)
(* sessions and grants and every precision and bound of the clock.         *)
THEOREM InvariantHolds == Spec => []IInv
<1>1. Init => IInv
  BY InitHolds
<1>2. IInv /\ [Next]_vars => IInv'
  BY NextHolds
<1>3. QED
  BY <1>1, <1>2, PTL DEF Spec

(* Every store, cookie and task keeps its type.                            *)
THEOREM TypeCorrect == Spec => []TypeOK
<1>1. IInv => TypeOK
  BY DEF IInv
<1>2. QED
  BY <1>1, InvariantHolds, PTL

(* A revocation that is over has left no grant made before it began, and   *)
(* no session but the one of the login that revoked, and those that a      *)
(* request under way stored again after they were destroyed                *)
(* (revokeAllExcept, host/admin_sessions_service.ts; upsert of the         *)
(* adapters).                                                              *)
THEOREM RevocationEndsAll == Spec => []RevocationIsComplete
<1>1. ASSUME IInv, NEW t \in Tasks, Ended(t)
      PROVE  /\ \A s \in sessions :
                  s > task[t].began.sessions \/ s = task[t].except \/ s \in returned
             /\ \A g \in grants : g > task[t].began.grants
  <2>1. task[t].phase \in {"done", "unlogged"} /\ Sound(task[t])
    BY <1>1 DEF IInv, Ended
  <2>2. SessionsEnd(task[t]) /\ GrantsEnd(task[t])
    BY <2>1 DEF Sound
  <2>3. QED
    BY <2>1, <2>2 DEF SessionsEnd, GrantsEnd
<1>2. IInv => RevocationIsComplete
  BY <1>1 DEF RevocationIsComplete
<1>3. QED
  BY <1>2, InvariantHolds, PTL

(* A recorded revocation reaches every application whose id_token is from  *)
(* before it began, or from before the login it kept, whatever the         *)
(* precision of the database's clock against the id_token's seconds.       *)
THEOREM RevocationsReachApps == Spec => []RevocationReachesApps
<1>1. ASSUME IInv, NEW t \in Tasks, task[t].phase = "done", NEW s \in Sessions, HasCookie(s),
             IF task[t].kept = NoTime THEN app[s].iat <= Second(task[t].began.at)
                                      ELSE app[s].iat < task[t].kept
      PROVE  isRevoked(s)
  <2>1. TypeOK /\ task[t] \in Task /\ Sound(task[t]) /\ app[s].iat \in Nat /\ log \subseteq Int
    BY <1>1, Types DEF IInv, Timed
  <2>2. BeganIs(task[t]) /\ Logged(task[t])
    BY <1>1, <2>1 DEF Sound
  <2>3. task[t].began.at \in Nat /\ task[t].kept \in Nat \cup {NoTime} /\ Start(app[s].iat) \in Int
    BY <2>1, <2>2, Numbers, Ticks DEF BeganIs, Task
  <2>4. PICK at \in log : IF task[t].kept = NoTime THEN at >= task[t].began.at
                          ELSE at >= Start(task[t].kept - 1)
    BY <1>1, <2>2 DEF Logged
  <2>5. at \in Int
    BY <2>1, <2>4
  <2>6. CASE task[t].kept = NoTime
    <3>1. /\ Second(task[t].began.at) \in Nat
          /\ Start(Second(task[t].began.at)) \in Int
          /\ Start(Second(task[t].began.at)) <= task[t].began.at
      BY <2>3, Ticks
    <3>2. Start(app[s].iat) <= Start(Second(task[t].began.at))
      BY <1>1, <2>1, <2>6, <3>1, Ticks
    <3>3. at >= Start(app[s].iat)
      BY <2>3, <2>4, <2>5, <2>6, <3>1, <3>2
    <3>4. QED
      BY <2>4, <3>3 DEF isRevoked
  <2>7. CASE task[t].kept # NoTime
    <3>1. task[t].kept \in Nat /\ app[s].iat <= task[t].kept - 1
      BY <1>1, <2>1, <2>3, <2>7
    <3>2. Start(app[s].iat) <= Start(task[t].kept - 1) /\ Start(task[t].kept - 1) \in Int
      BY <2>1, <3>1, Ticks
    <3>3. at >= Start(app[s].iat)
      BY <2>3, <2>4, <2>5, <2>7, <3>2
    <3>4. QED
      BY <2>4, <3>3 DEF isRevoked
  <2>8. QED
    BY <2>6, <2>7
<1>2. IInv => RevocationReachesApps
  BY <1>1 DEF RevocationReachesApps
<1>3. QED
  BY <1>2, InvariantHolds, PTL

(* Without overlapping logins, one that revoked has left no session older  *)
(* than its own, but those that came back after they were destroyed.       *)
THEOREM OneSessionIsLeft == Spec => []OlderSessionsEnd
<1>1. ASSUME IInv, NEW l \in Logins, Ended(l), resume[l] = "followed", ~overlapped,
             NEW s \in sessions \ returned
      PROVE  s >= own[l]
  <2>1. /\ TypeOK /\ l \in Tasks /\ task[l] \in Task /\ Sound(task[l]) /\ OwnIs(l) /\ FirstOwn(l)
        /\ task[l].phase \in {"done", "unlogged"}
    BY <1>1, Types DEF IInv, Tasks, Ended
  <2>2. BeganIs(task[l]) /\ SessionsEnd(task[l])
    BY <2>1 DEF Sound
  <2>3. own[l] = task[l].began.sessions + 1
    BY <1>1, <2>1 DEF OwnIs, FirstOwn
  <2>4. s \in Nat /\ s # 0 /\ task[l].began.sessions \in Nat
    BY <2>1, Numbers DEF Task
  <2>5. s > task[l].began.sessions
    BY <2>1, <2>2, <2>4 DEF BeganIs, SessionsEnd
  <2>6. QED
    BY <2>3, <2>4, <2>5
<1>2. IInv => OlderSessionsEnd
  BY <1>1 DEF OlderSessionsEnd
<1>3. QED
  BY <1>2, InvariantHolds, PTL

(* A task moves by a step of its own only.                                 *)
LEMMA OwnSteps ==
  ASSUME TypeOK, [Next]_vars, NEW t \in Tasks, task'[t] # task[t]
  PROVE  \/ listPrevious(t) \/ completeLogin(t) \/ findOwn(t)
         \/ revokeAll(t) \/ listSessions(t) \/ destroySession(t)
         \/ listGrants(t) \/ destroyGrant(t) \/ recordSubRevocation(t)
<1>1. task' # task
  OBVIOUS
<1>2. ASSUME NEW q \in Tasks, NEW rec, Set(q, rec) PROVE q = t
  <2>1. task \in [Tasks -> Task] /\ task' = [task EXCEPT ![q] = rec]
    BY <1>2, Types DEF Set
  <2>2. QED
    BY <2>1
<1>3. ASSUME NEW l \in Logins,
             \/ listPrevious(l) \/ completeLogin(l) \/ findOwn(l)
             \/ completeLoginOnly(l) \/ Resume(l)
      PROVE  l = t /\ (listPrevious(l) \/ completeLogin(l) \/ findOwn(l))
  <2>1. l \in Tasks
    BY DEF Tasks
  <2>2. ~completeLoginOnly(l) /\ ~Resume(l)
    BY <1>1 DEF completeLoginOnly, Resume
  <2>3. ASSUME NEW s, Revokes(l, s) PROVE \E rec : Set(l, rec)
    BY <2>3, Zenon DEF Revokes
  <2>4. findOwn(l) => \E s : Revokes(l, s)
    BY DEF findOwn
  <2>5. \E rec : Set(l, rec)
    BY <1>3, <2>2, <2>3, <2>4 DEF listPrevious, completeLogin
  <2>6. QED
    BY <1>2, <1>3, <2>1, <2>2, <2>5
<1>4. ASSUME NEW q \in Tasks,
             \/ revokeAll(q) \/ listSessions(q) \/ destroySession(q)
             \/ listGrants(q) \/ destroyGrant(q) \/ recordSubRevocation(q)
      PROVE  q = t
  <2>1. \E rec : Set(q, rec)
    BY <1>4 DEF revokeAll, listSessions, destroySession, listGrants, destroyGrant,
                recordSubRevocation
  <2>2. QED
    BY <1>2, <2>1
<1>5. ~(\E s \in Sessions : \/ sessionSaved(s) \/ consent(s) \/ interactionFinished(s)
                            \/ Refresh(s) \/ Logout(s) \/ handle(s))
  BY <1>1 DEF sessionSaved, consent, interactionFinished, Refresh, Logout, handle
<1>6. ~Tick /\ ~(UNCHANGED vars)
  BY <1>1 DEF Tick, vars
<1>7. QED
  BY <1>3, <1>4, <1>5, <1>6 DEF Next

(* What a login records does not revoke the application of the session it  *)
(* kept and that was not destroyed since: the cutoff is before that        *)
(* session's second, and no id_token of the session is from before it.     *)
THEOREM KeptAppSurvives == Spec => OwnAppSurvives
<1>1. ASSUME IInv, [Next]_vars, NEW l \in Logins, task[l].phase = "grants", task'[l].phase = "done",
             NEW s, s = task[l].except, s \in sessions \ returned, HasCookie(s), ~isRevoked(s)
      PROVE  ~(\E at \in log' : at >= Start(app'[task'[l].except].iat))
  <2>1. /\ TypeOK /\ l \in Tasks /\ task[l] \in Task /\ s \in Sessions
        /\ Sound(task[l]) /\ app[s].iat \in Nat /\ log \subseteq Int
        /\ loginTs[s] \in Nat /\ app[s].iat >= loginTs[s]
    BY <1>1, Types, Numbers DEF IInv, Tasks, Timed
  <2>2. recordSubRevocation(l)
    <3>1. task'[l] # task[l]
      BY <1>1
    <3>2. ~destroyGrant(l)
      <4>1. ASSUME NEW left, Set(l, [task[l] EXCEPT !.left = left]) PROVE FALSE
        <5>1. task'[l] = [task[l] EXCEPT !.left = left] /\ task[l] \in Task
          BY <2>1, <4>1, Types DEF Set
        <5>2. task'[l].phase = task[l].phase
          BY <5>1 DEF Task
        <5>3. QED
          BY <1>1, <5>2
      <4>2. QED
        BY <4>1 DEF destroyGrant
    <3>3. /\ ~listPrevious(l) /\ ~completeLogin(l) /\ ~findOwn(l)
          /\ ~revokeAll(l) /\ ~listSessions(l) /\ ~destroySession(l) /\ ~listGrants(l)
      BY <1>1
      DEF listPrevious, completeLogin, findOwn, revokeAll, listSessions, destroySession, listGrants
    <3>4. QED
      BY <1>1, <2>1, <3>1, <3>2, <3>3, OwnSteps
  <2>3. app' = app /\ log' \subseteq log \cup {cutoff(l)} /\ task'[l].except = s
    <3>1. \E phase \in {"done", "unlogged"} : Set(l, [task[l] EXCEPT !.phase = phase])
      BY <2>2 DEF recordSubRevocation
    <3>2. task'[l].except = task[l].except
      BY <2>1, <3>1, Types DEF Set, Task
    <3>3. QED
      BY <1>1, <2>2, <3>2 DEF recordSubRevocation
  <2>4. task[l].kept = loginTs[s]
    BY <1>1, <2>1 DEF Sound, SessionsEnd
  <2>5. cutoff(l) = Start(loginTs[s] - 1)
    BY <2>1, <2>4 DEF cutoff, NoTime
  <2>6. Start(loginTs[s] - 1) < Start(app[s].iat) /\ Start(loginTs[s] - 1) \in Int
        /\ Start(app[s].iat) \in Int
    BY <2>1, Ticks
  <2>7. ~(cutoff(l) >= Start(app[s].iat))
    BY <2>5, <2>6
  <2>8. QED
    BY <1>1, <2>3, <2>7 DEF isRevoked
<1>2. IInv /\ [Next]_vars =>
        \A l \in Logins :
          LET s == task[l].except IN
            /\ task[l].phase = "grants" /\ task'[l].phase = "done"
            /\ s \in sessions \ returned /\ HasCookie(s) /\ ~isRevoked(s)
            => ~isRevoked(s)'
  BY <1>1 DEF isRevoked
<1>3. QED
  BY <1>2, InvariantHolds, PTL DEF Spec, OwnAppSurvives

(* A login whose session was stored when it looked for it does not destroy *)
(* it, if no other login was under way and no other session had come back. *)
THEOREM OwnSessionIsKept == Spec => KeepsOwnSession
<1>1. ASSUME IInv, [Next]_vars, NEW l \in Logins, own[l] \in sessions \ sessions',
             task[l].phase = "sessions", task'[l] # task[l], ~task[l].misled, ~overlapped
      PROVE  FALSE
  <2>1. TypeOK /\ l \in Tasks /\ OwnSpared(l)
    BY <1>1 DEF IInv, Tasks
  <2>2. /\ ~listPrevious(l) /\ ~completeLogin(l) /\ ~findOwn(l) /\ ~revokeAll(l)
        /\ ~listSessions(l) /\ ~listGrants(l) /\ ~destroyGrant(l) /\ ~recordSubRevocation(l)
    BY <1>1
    DEF listPrevious, completeLogin, findOwn, revokeAll, listSessions, listGrants, destroyGrant,
        recordSubRevocation, stores
  <2>3. destroySession(l)
    BY <1>1, <2>1, <2>2, OwnSteps
  <2>4. own[l] \in task[l].left
    BY <1>1, <2>3 DEF destroySession, Destroy
  <2>5. QED
    BY <1>1, <2>1, <2>4 DEF OwnSpared
<1>2. IInv /\ [Next]_vars =>
        \A l \in Logins :
          /\ own[l] \in sessions \ sessions'
          /\ task[l].phase = "sessions" /\ task'[l] # task[l]
          => task[l].misled \/ overlapped
  BY <1>1
<1>3. QED
  BY <1>2, InvariantHolds, PTL DEF Spec, KeepsOwnSession

---------------------------------------------------------------------------
(***************************************************************************)
(* The keystore.  How far the copies of the instances and the reads of the *)
(* jobs may lag behind the vault, and who may write it.                    *)
(***************************************************************************)
AnyReload ==
  [by : {Poller(i) : i \in Instances} \cup Jobs, jwks : Keystores, version : 0..MaxKeys]

(* An instance that is not up has no poller and no reload at work; one     *)
(* reload at most is under way, of keys no older than those it replaces.   *)
Copies ==
  /\ loaded \in [Instances -> Nat] /\ reload \in [Instances -> SUBSET AnyReload]
  /\ \A i \in Instances :
       /\ loaded[i] <= version
       /\ status[i] # "up" => reload[i] = {} /\ poll[i] = "idle"
       /\ \A r \in reload[i] : loaded[i] <= r.version /\ r.version <= version
       /\ \A r, s \in reload[i] : r = s

(* A rotation inside an instance runs while that is up; one from the       *)
(* command line reloads nothing.  Only a scheduled one asks for the age.   *)
Owned ==
  \A p \in Jobs :
    /\ job[p].phase # "idle" =>
         IF p[1] = "cli" THEN job[p].phase # "written" ELSE status[home(p)] = "up"
    /\ job[p].phase \in {"aged", "locked"} => p \in Scheduled

(* Kids are numbered as they are written: the first is the newest.         *)
Numbered ==
  /\ version = nextKey - 1
  /\ vault # <<>> => vault[1] = nextKey - 1
  /\ \A n \in 1..Len(vault) : vault[n] < nextKey
  /\ \A p \in Jobs : \A n \in 1..Len(job[p].read) : job[p].read[n] < nextKey

(* Once a key has aged no instance is still creating the keystore.         *)
Settled ==
  aged \/ (\E p \in Scheduled : job[p].phase # "idle") =>
    vault # <<>> /\ \A i \in Instances : status[i] # "creating"

(* Who is past acquireImmediately holds the lock, so only one is.          *)
Locked ==
  \A p \in Scheduled : job[p].phase \in {"locked", "queued", "read", "written"} => lock = p

(* A scheduled rotation is still due when it writes, unless one by hand    *)
(* came first; and all keys made since its read are made by hand.          *)
Due ==
  \A p \in Scheduled : job[p].phase \in {"queued", "read"} => aged \/ vault[1] \in byHand
MadeSince ==
  \A p \in Scheduled : job[p].phase = "read" =>
    \A k \in Nat : job[p].read[1] < k /\ k < nextKey => k \in byHand

KeystoreInv ==
  KeystoreTypeOK /\ Copies /\ Owned /\ Numbered /\ Settled /\ Locked /\ Due /\ MadeSince
---------------------------------------------------------------------------
JobPhases == {"idle", "aged", "locked", "queued", "read", "written"}
JobRecords == [phase : JobPhases, keep : Keeps, read : Keystores]
Reloads(i) == [by : {Poller(i)} \cup Jobs, jwks : Keystores, version : 0..MaxKeys]

Fits(n) == \E keep \in Keeps : n <= keep

LEMMA KeepsAre == Keeps \subseteq Nat \ {0} /\ Keep \in Keeps /\ HandKeeps \subseteq Keeps /\ Fits(0) /\ Fits(1)
  BY KeepAssumption DEF Keeps, Fits

LEMMA KeystoreIs ==
  ASSUME NEW s
  PROVE  s \in Keystores <=> s \in Seq(Keys) /\ Fits(Len(s))
<1>1. ASSUME s \in Keystores PROVE s \in Seq(Keys) /\ Fits(Len(s))
  <2>1. PICK keep \in Keeps : \E n \in 0..keep : s \in [1..n -> Keys]
    BY <1>1 DEF Keystores
  <2>2. PICK n \in 0..keep : s \in [1..n -> Keys]
    BY <2>1
  <2>3. n \in Nat /\ n <= keep
    BY <2>2, KeepsAre
  <2>4. s \in Seq(Keys) /\ Len(s) = n
    BY <2>2, <2>3
  <2>5. QED
    BY <2>3, <2>4 DEF Fits
<1>2. ASSUME s \in Seq(Keys), Fits(Len(s)) PROVE s \in Keystores
  <2>1. PICK keep \in Keeps : Len(s) <= keep
    BY <1>2 DEF Fits
  <2>2. Len(s) \in 0..keep /\ s \in [1..Len(s) -> Keys]
    BY <1>2, <2>1, KeepsAre
  <2>3. QED
    BY <2>2 DEF Keystores
<1>3. QED
  BY <1>1, <1>2

LEMMA EmptyIs == <<>> \in Keystores
<1>1. <<>> \in Seq(Keys) /\ Len(<<>>) = 0
  OBVIOUS
<1>2. QED
  BY <1>1, KeepsAre, KeystoreIs

LEMMA RotatedIs ==
  ASSUME NEW p \in Jobs, job[p] \in JobRecords, nextKey \in Keys
  PROVE  /\ Rotated(p) \in Keystores /\ Rotated(p) # <<>> /\ Rotated(p)[1] = nextKey
         /\ \A n \in 1..Len(Rotated(p)) :
              Rotated(p)[n] = nextKey
              \/ \E m \in 1..Len(job[p].read) : Rotated(p)[n] = job[p].read[m]
<1>1. PICK read : read = job[p].read
  OBVIOUS
<1>2. PICK keep : keep = job[p].keep
  OBVIOUS
<1>3. read \in Seq(Keys) /\ keep \in Nat \ {0} /\ keep \in Keeps
  BY <1>1, <1>2, KeystoreIs, KeepsAre DEF JobRecords
<1>4. PICK next : next = <<nextKey>> \o read
  OBVIOUS
<1>5. /\ next \in Seq(Keys) /\ Len(next) = Len(read) + 1 /\ next[1] = nextKey
      /\ \A n \in 2..Len(next) : next[n] = read[n - 1]
  BY <1>3, <1>4
<1>6. PICK len : len = Least(keep, Len(next))
  OBVIOUS
<1>7. len \in Nat \ {0} /\ len <= Len(next) /\ len <= keep
  <2>1. Len(read) \in Nat /\ Len(next) \in Nat \ {0}
    BY <1>3, <1>5
  <2>2. QED
    BY <1>3, <1>6, <2>1 DEF Least
<1>8. PICK kept : kept = SubSeq(next, 1, len)
  OBVIOUS
<1>9. /\ kept \in Seq(Keys) /\ Len(kept) = len
      /\ \A n \in 1..len : kept[n] = next[n]
  BY <1>5, <1>7, <1>8
<1>10. kept \in Keystores /\ kept # <<>> /\ kept[1] = nextKey
  <2>1. Fits(Len(kept))
    BY <1>3, <1>7, <1>9 DEF Fits
  <2>2. QED
    BY <1>5, <1>7, <1>9, <2>1, KeystoreIs
<1>11. ASSUME NEW n \in 1..Len(kept)
       PROVE  kept[n] = nextKey \/ \E m \in 1..Len(read) : kept[n] = read[m]
  <2>1. kept[n] = next[n] /\ n \in 1..Len(next)
    BY <1>5, <1>7, <1>9
  <2>2. CASE n = 1
    BY <1>5, <2>1, <2>2
  <2>3. CASE n # 1
    <3>1. n - 1 \in 1..Len(read) /\ n \in 2..Len(next)
      BY <1>3, <1>5, <2>1, <2>3
    <3>2. QED
      BY <1>5, <2>1, <3>1
  <2>4. QED
    BY <2>2, <2>3
<1>12. Rotated(p) = kept
  BY <1>1, <1>2, <1>4, <1>6, <1>8 DEF Rotated
<1>13. QED
  BY <1>1, <1>10, <1>11, <1>12

---------------------------------------------------------------------------
JobSide == Owned /\ Numbered /\ Settled /\ Locked /\ Due /\ MadeSince

LEMMA KeystoreTypes ==
  ASSUME KeystoreInv
  PROVE  /\ vault \in Seq(Keys) /\ version \in Nat /\ nextKey \in Nat \ {0}
         /\ aged \in BOOLEAN
         /\ job \in [Jobs -> JobRecords] /\ status \in [Instances -> {"down", "creating", "up"}]
         /\ poll \in [Instances -> {"idle", "seen", "reload"}]
         /\ \A i \in Instances : reload[i] \subseteq Reloads(i)
<1>1. vault \in Seq(Keys)
  BY KeystoreIs DEF KeystoreInv, KeystoreTypeOK
<1>2. job \in [Jobs -> JobRecords]
  BY DEF KeystoreInv, KeystoreTypeOK, JobRecords, JobPhases, Rotating
<1>3. QED
  BY <1>1, <1>2, KeystoreBounds DEF KeystoreInv, KeystoreTypeOK, Reloads

LEMMA HomesAre ==
  /\ \A p \in Jobs : home(p) \in Instances
  /\ \A p \in Scheduled : p[1] = "sched" /\ p = <<"sched", home(p)>> /\ p \in Jobs /\ p \notin Manual
  /\ \A p, q \in Scheduled : home(p) = home(q) => p = q
  /\ \A p \in Jobs \ Scheduled : p \in Manual
  /\ Free \notin Scheduled
  /\ \A i \in Instances : <<"sched", i>> \in Scheduled /\ Orphan(i) \notin Scheduled /\ Orphan(i) # Free
BY ManualAssumption, FreeAssumption DEF Jobs, Scheduled, home, Orphan

(* One rotation moves, and the lock goes to it or from it.                 *)
LEMMA JobSideStep ==
  ASSUME KeystoreInv, NEW p \in Jobs, NEW j \in JobRecords, job' = [job EXCEPT ![p] = j],
         UNCHANGED <<vaultVars, status>>,
         \A q \in Scheduled \ {p} : lock = q => lock' = q,
         p \in Scheduled /\ j.phase \in {"locked", "queued", "read", "written"} => lock' = p,
         j.phase # "idle" =>
           IF p[1] = "cli" THEN j.phase # "written" ELSE status[home(p)] = "up",
         j.phase \in {"aged", "locked"} => p \in Scheduled,
         \A n \in 1..Len(j.read) : j.read[n] < nextKey,
         p \in Scheduled /\ j.phase # "idle" => aged \/ job[p].phase # "idle",
         p \in Scheduled /\ j.phase \in {"queued", "read"} => aged \/ vault[1] \in byHand,
         p \in Scheduled /\ j.phase = "read" =>
           \A k \in Nat : j.read[1] < k /\ k < nextKey => k \in byHand
  PROVE  JobSide'
<1>1. \A q \in Jobs : job'[q] = IF q = p THEN j ELSE job[q]
  BY KeystoreTypes
<1>2. UNCHANGED <<vault, version, aged, nextKey, byHand, status>>
  BY DEF vaultVars
<1>3. Owned'
  BY <1>1, <1>2 DEF KeystoreInv, Owned
<1>4. Numbered'
  BY <1>1, <1>2 DEF KeystoreInv, Numbered
<1>5. Settled'
  <2>1. ASSUME NEW q \in Scheduled, job'[q].phase # "idle" PROVE aged \/ job[q].phase # "idle"
    BY <1>1, <2>1, HomesAre
  <2>2. QED
    BY <1>2, <2>1 DEF KeystoreInv, Settled
<1>6. Locked'
  <2>1. ASSUME NEW q \in Scheduled, job'[q].phase \in {"locked", "queued", "read", "written"}
        PROVE  lock' = q
    BY <1>1, <2>1, HomesAre DEF KeystoreInv, Locked
  <2>2. QED
    BY <2>1 DEF Locked
<1>7. Due'
  <2>1. ASSUME NEW q \in Scheduled, job'[q].phase \in {"queued", "read"}
        PROVE  aged \/ vault[1] \in byHand
    BY <1>1, <2>1, HomesAre DEF KeystoreInv, Due
  <2>2. QED
    BY <1>2, <2>1 DEF Due
<1>8. MadeSince'
  <2>1. ASSUME NEW q \in Scheduled, job'[q].phase = "read",
               NEW k \in Nat, job'[q].read[1] < k, k < nextKey
        PROVE  k \in byHand
    BY <1>1, <2>1, HomesAre DEF KeystoreInv, MadeSince
  <2>2. QED
    BY <1>2, <2>1 DEF MadeSince
<1>9. QED
  BY <1>3, <1>4, <1>5, <1>6, <1>7, <1>8 DEF JobSide

LEMMA FinishSide ==
  ASSUME KeystoreInv, NEW p \in Jobs, Finish(p), UNCHANGED <<vaultVars, status>>
  PROVE  JobSide' /\ job' \in [Jobs -> JobRecords]
         /\ (lock' = lock \/ lock' = Free)
<1>1. NoJob \in JobRecords /\ NoJob.phase = "idle" /\ NoJob.read = <<>>
  BY EmptyIs, KeepsAre DEF NoJob, JobRecords, JobPhases
<1>2. job' = [job EXCEPT ![p] = NoJob] /\ \A q \in Scheduled \ {p} : lock = q => lock' = q
  BY DEF Finish
<1>3. JobSide'
  <2>1. NoJob.phase \notin {"aged", "locked", "queued", "read", "written"} /\ Len(NoJob.read) = 0
    BY <1>1
  <2>2. \A n \in 1..Len(NoJob.read) : NoJob.read[n] < nextKey
    BY <2>1
  <2>3. QED
    BY <1>1, <1>2, <2>1, <2>2, JobSideStep
<1>4. QED
  BY <1>1, <1>2, <1>3, KeystoreTypes DEF Finish

(* The reloads and the copies stay as they are.                            *)
LEMMA CopiesStay ==
  ASSUME KeystoreInv, UNCHANGED <<status, loaded, reload, poll>>, version' \in {version, version + 1}
  PROVE  Copies'
<1>1. \A i \in Instances : \A r \in reload[i] : r.version \in Nat
  BY KeystoreTypes, KeystoreBounds DEF Reloads
<1>2. QED
  BY <1>1, KeystoreTypes DEF KeystoreInv, Copies

LEMMA JobMoves ==
  ASSUME KeystoreInv, NEW p \in Jobs, NEW j \in JobRecords, job' = [job EXCEPT ![p] = j],
         SameButJobs, JobSide', lock' \in Scheduled \cup {lock, Free}
  PROVE  KeystoreInv'
<1>1. UNCHANGED <<vault, version, aged, nextKey, byHand, status, scheduler, serving, loaded, last,
                  poll, head, reload, stranded>>
  BY DEF SameButJobs, vaultVars, copyVars, pollVars
<1>2. Copies'
  BY <1>1, CopiesStay
<1>3. job' \in [Jobs -> JobRecords]
  BY KeystoreTypes
<1>4. lock' \in Scheduled \cup {Free} \cup {Orphan(i) : i \in Instances}
  BY DEF KeystoreInv, KeystoreTypeOK
<1>5. KeystoreTypeOK'
  BY <1>1, <1>3, <1>4 DEF KeystoreInv, KeystoreTypeOK, JobRecords, JobPhases, Rotating
<1>6. QED
  BY <1>2, <1>5 DEF KeystoreInv, JobSide

(* A step to another phase, with what the rotation knows otherwise kept.   *)
LEMMA PhaseForms ==
  ASSUME KeystoreInv, NEW p \in Jobs, NEW ph \in JobPhases, Phase(p, ph)
  PROVE  \E j \in JobRecords :
           /\ job' = [job EXCEPT ![p] = j]
           /\ j.phase = ph /\ j.keep = job[p].keep /\ j.read = job[p].read
<1>1. job[p] \in JobRecords
  BY KeystoreTypes
<1>2. PICK j : j = [job[p] EXCEPT !.phase = ph]
  OBVIOUS
<1>3. j \in JobRecords /\ j.phase = ph /\ j.keep = job[p].keep /\ j.read = job[p].read
  BY <1>1, <1>2 DEF JobRecords
<1>4. job' = [job EXCEPT ![p] = j]
  BY <1>2, KeystoreTypes DEF Phase
<1>5. QED
  BY <1>3, <1>4

LEMMA KnownIs ==
  ASSUME KeystoreInv, NEW p \in Jobs
  PROVE  /\ \A n \in 1..Len(job[p].read) : job[p].read[n] < nextKey
         /\ job[p].phase # "idle" =>
              IF p[1] = "cli" THEN job[p].phase # "written" ELSE status[home(p)] = "up"
         /\ job[p].phase \in {"aged", "locked"} => p \in Scheduled
         /\ p \in Scheduled /\ job[p].phase \in {"locked", "queued", "read", "written"} => lock = p
         /\ p \in Scheduled /\ job[p].phase \in {"queued", "read"} => aged \/ vault[1] \in byHand
BY DEF KeystoreInv, Numbered, Owned, Locked, Due

LEMMA TickKeeps ==
  ASSUME KeystoreInv, NEW p \in Jobs, tick(p) \/ acquireImmediately(p) \/ ageAgain(p)
  PROVE  KeystoreInv'
<1>1. SameButJobs /\ UNCHANGED <<vaultVars, status>>
  BY DEF tick, acquireImmediately, ageAgain, SameButJobs
<1>2. CASE tick(p)
  <2>1. p \in Scheduled /\ status[home(p)] = "up" /\ aged /\ Phase(p, "aged") /\ lock' = lock
    BY <1>2 DEF tick
  <2>2. PICK j \in JobRecords : /\ job' = [job EXCEPT ![p] = j]
                                /\ j.phase = "aged" /\ j.read = job[p].read
    BY <2>1, PhaseForms DEF JobPhases
  <2>3. JobSide'
    BY <1>1, <2>1, <2>2, KnownIs, HomesAre, JobSideStep
  <2>4. QED
    BY <1>1, <2>1, <2>2, <2>3, JobMoves
<1>3. CASE acquireImmediately(p)
  <2>1. job[p].phase = "aged"
    BY <1>3 DEF acquireImmediately
  <2>2. CASE lock = Free
    <3>1. Phase(p, "locked") /\ lock' = p
      BY <1>3, <2>2 DEF acquireImmediately
    <3>2. PICK j \in JobRecords : /\ job' = [job EXCEPT ![p] = j]
                                  /\ j.phase = "locked" /\ j.read = job[p].read
      BY <3>1, PhaseForms DEF JobPhases
    <3>3. JobSide'
      BY <1>1, <2>1, <2>2, <3>1, <3>2, KnownIs, HomesAre, JobSideStep
    <3>4. QED
      BY <1>1, <2>1, <3>1, <3>2, <3>3, KnownIs, JobMoves
  <2>3. CASE lock # Free
    <3>1. Phase(p, "idle") /\ lock' = lock
      BY <1>3, <2>3 DEF acquireImmediately
    <3>2. PICK j \in JobRecords : /\ job' = [job EXCEPT ![p] = j]
                                  /\ j.phase = "idle" /\ j.read = job[p].read
      BY <3>1, PhaseForms DEF JobPhases
    <3>3. JobSide'
      BY <1>1, <3>1, <3>2, KnownIs, JobSideStep
    <3>4. QED
      BY <1>1, <3>1, <3>2, <3>3, JobMoves
  <2>4. QED
    BY <2>2, <2>3
<1>4. CASE ageAgain(p)
  <2>1. job[p].phase = "locked"
    BY <1>4 DEF ageAgain
  <2>2. CASE aged
    <3>1. Phase(p, "queued") /\ lock' = lock
      BY <1>4, <2>2 DEF ageAgain
    <3>2. PICK j \in JobRecords : /\ job' = [job EXCEPT ![p] = j]
                                  /\ j.phase = "queued" /\ j.read = job[p].read
      BY <3>1, PhaseForms DEF JobPhases
    <3>3. JobSide'
      BY <1>1, <2>1, <2>2, <3>1, <3>2, KnownIs, JobSideStep
    <3>4. QED
      BY <1>1, <2>1, <3>1, <3>2, <3>3, KnownIs, JobMoves
  <2>3. CASE ~aged
    <3>1. Phase(p, "idle") /\ lock' = Free
      BY <1>4, <2>3 DEF ageAgain
    <3>2. PICK j \in JobRecords : /\ job' = [job EXCEPT ![p] = j]
                                  /\ j.phase = "idle" /\ j.read = job[p].read
      BY <3>1, PhaseForms DEF JobPhases
    <3>3. QED
      BY <1>1, <2>1, <3>1, <3>2, KnownIs, JobSideStep, JobMoves
  <2>4. QED
    BY <2>2, <2>3
<1>5. QED
  BY <1>2, <1>3, <1>4

LEMMA ByHandKeeps ==
  ASSUME KeystoreInv, NEW p \in Manual, NEW keep \in HandKeeps, rotateByHand(p, keep)
  PROVE  KeystoreInv'
<1>1. PICK j : j = [NoJob EXCEPT !.phase = "queued", !.keep = keep]
  OBVIOUS
<1>2. j.phase = "queued" /\ j.read = <<>> /\ j \in JobRecords
  <2>1. j = [phase |-> "queued", keep |-> keep, read |-> <<>>]
    BY <1>1 DEF NoJob
  <2>2. QED
    BY <2>1, EmptyIs, KeepsAre DEF JobRecords, JobPhases
<1>3. /\ p \in Jobs /\ p \notin Scheduled /\ SameButJobs /\ UNCHANGED <<vaultVars, status>>
      /\ lock' = lock /\ job' = [job EXCEPT ![p] = j]
  BY <1>1, HomesAre DEF rotateByHand, SameButJobs, Jobs
<1>4. p[1] = "cli" \/ status[home(p)] = "up"
  BY ManualAssumption DEF rotateByHand
<1>5. \A n \in 1..Len(j.read) : j.read[n] < nextKey
  <2>1. Len(j.read) = 0
    BY <1>2
  <2>2. QED
    BY <2>1
<1>6. JobSide'
  BY <1>2, <1>3, <1>4, <1>5, JobSideStep
<1>7. QED
  BY <1>2, <1>3, <1>6, JobMoves

LEMMA ReadKeeps ==
  ASSUME KeystoreInv, NEW p \in Jobs, rotateRead(p)
  PROVE  KeystoreInv'
<1>1. job[p] \in JobRecords /\ job[p].phase = "queued" /\ vault \in Keystores
  BY KeystoreTypes DEF rotateRead, KeystoreInv, KeystoreTypeOK
<1>2. PICK j : j = [job[p] EXCEPT !.phase = "read", !.read = vault]
  OBVIOUS
<1>3. j \in JobRecords /\ j.phase = "read" /\ j.read = vault
  BY <1>1, <1>2 DEF JobRecords, JobPhases
<1>4. /\ job' = [job EXCEPT ![p] = j] /\ lock' = lock /\ SameButJobs
      /\ UNCHANGED <<vaultVars, status>>
  BY <1>2, KeystoreTypes DEF rotateRead, SameButJobs
<1>5. \A n \in 1..Len(j.read) : j.read[n] < nextKey
  BY <1>3 DEF KeystoreInv, Numbered
<1>6. ASSUME p \in Scheduled, NEW k \in Nat, j.read[1] < k, k < nextKey PROVE k \in byHand
  <2>1. vault # <<>>
    BY <1>1, <1>6 DEF KeystoreInv, Settled
  <2>2. j.read[1] = nextKey - 1 /\ nextKey \in Nat
    BY <1>3, <2>1, KeystoreTypes DEF KeystoreInv, Numbered
  <2>3. QED
    BY <1>6, <2>2
<1>7. JobSide'
  BY <1>1, <1>3, <1>4, <1>5, <1>6, KnownIs, JobSideStep
<1>8. QED
  BY <1>3, <1>4, <1>7, JobMoves

---------------------------------------------------------------------------
(* Nothing moves but what the pollers know, or whether there is a scheduler.*)
LEMMA PollKeeps ==
  ASSUME KeystoreInv, NEW i \in Instances,
         readHead(i) \/ compareHead(i) \/ startScheduler(i) \/ schedulerFails(i)
  PROVE  KeystoreInv'
<1>1. /\ UNCHANGED <<vault, version, aged, nextKey, byHand, lock, status, serving, loaded, job, reload>>
      /\ status[i] = "up"
  BY DEF readHead, compareHead, startScheduler, schedulerFails, vaultVars, copyVars, KeystoreInv,
         Copies
<1>2. /\ last' \in [Instances -> Unset..MaxKeys] /\ head' \in [Instances -> Unset..MaxKeys]
      /\ poll' \in [Instances -> {"idle", "seen", "reload"}] /\ stranded' \subseteq Instances
      /\ \A k \in Instances \ {i} : poll'[k] = poll[k]
      /\ scheduler' \in [Instances -> {"none", "on", "never"}]
  <2>1. version \in Unset..MaxKeys
    BY KeystoreBounds DEF KeystoreInv, KeystoreTypeOK, Unset
  <2>2. CASE readHead(i) \/ compareHead(i)
    BY <2>1, <2>2 DEF readHead, compareHead, KeystoreInv, KeystoreTypeOK
  <2>3. CASE startScheduler(i) \/ schedulerFails(i)
    BY <2>3 DEF startScheduler, schedulerFails, KeystoreInv, KeystoreTypeOK
  <2>4. QED
    BY <2>2, <2>3
<1>3. KeystoreTypeOK'
  BY <1>1, <1>2 DEF KeystoreInv, KeystoreTypeOK
<1>4. Copies'
  BY <1>1, <1>2 DEF KeystoreInv, Copies
<1>5. QED
  BY <1>1, <1>3, <1>4
    DEF KeystoreInv, Owned, Numbered, Settled, Locked, Due, MadeSince

---------------------------------------------------------------------------
(* A reload of an instance starts, ends or fails.                          *)
LEMMA ReloadStep ==
  ASSUME KeystoreInv, NEW i \in Instances, NEW by \in {Poller(i)} \cup Jobs,
         poll' \in {poll, [poll EXCEPT ![i] = "idle"]}, UNCHANGED <<version, status>>,
         \/ StartReload(i, by) /\ status[i] = "up" /\ UNCHANGED <<copyVars, stranded>>
         \/ EndReload(i, by)
         \/ FailReload(i, by) /\ UNCHANGED copyVars /\ stranded' \subseteq Instances
  PROVE  /\ Copies'
         /\ \A k \in Instances : reload'[k] \subseteq Reloads(k)
         /\ serving' \in [Instances -> Keystores] /\ stranded' \subseteq Instances
         /\ poll' \in [Instances -> {"idle", "seen", "reload"}]
         /\ \A k \in Instances : status[k] = "up" => loaded'[k] >= loaded[k]
<1>1. /\ reload \in [Instances -> SUBSET AnyReload] /\ loaded \in [Instances -> Nat]
      /\ version \in 0..MaxKeys /\ vault \in Keystores /\ serving \in [Instances -> Keystores]
      /\ poll \in [Instances -> {"idle", "seen", "reload"}] /\ stranded \subseteq Instances
      /\ \A k \in Instances : reload[k] \subseteq Reloads(k)
  BY KeystoreTypes DEF KeystoreInv, KeystoreTypeOK, Copies
<1>2. \A k \in Instances :
        /\ loaded[k] <= version
        /\ status[k] # "up" => reload[k] = {} /\ poll[k] = "idle"
        /\ \A r \in reload[k] : loaded[k] <= r.version /\ r.version <= version
        /\ \A r, s \in reload[k] : r = s
  BY DEF KeystoreInv, Copies
<1>3. \A k \in Instances : \A r \in reload[k] : r.jwks \in Keystores /\ r.version \in Nat
  BY <1>1, KeystoreBounds DEF Reloads
<1>4. /\ poll' \in [Instances -> {"idle", "seen", "reload"}]
      /\ \A k \in Instances : poll[k] = "idle" => poll'[k] = "idle"
  BY <1>1
<1>5. CASE StartReload(i, by) /\ status[i] = "up" /\ UNCHANGED <<copyVars, stranded>>
  <2>1. PICK r : r = Reload(by)
    OBVIOUS
  <2>2. r \in Reloads(i) /\ r \in AnyReload /\ r.version = version
    BY <1>1, <2>1 DEF Reload, Reloads, AnyReload
  <2>3. reload' = [reload EXCEPT ![i] = {r}] /\ UNCHANGED <<serving, loaded, stranded>>
    BY <1>5, <2>1 DEF StartReload, copyVars
  <2>4. /\ reload' \in [Instances -> SUBSET AnyReload]
        /\ \A k \in Instances : reload'[k] = IF k = i THEN {r} ELSE reload[k]
    BY <1>1, <2>2, <2>3
  <2>5. Copies'
    BY <1>1, <1>2, <1>4, <1>5, <2>2, <2>3, <2>4 DEF Copies
  <2>6. QED
    BY <1>1, <1>4, <2>2, <2>3, <2>4, <2>5
<1>6. CASE EndReload(i, by)
  <2>1. PICK r \in reload[i] : /\ Load(i, r.jwks, r.version)
                               /\ reload' = [reload EXCEPT ![i] = @ \ {r}]
    BY <1>6 DEF EndReload
  <2>2. /\ reload' \in [Instances -> SUBSET AnyReload] /\ reload'[i] = {}
        /\ \A k \in Instances \ {i} : reload'[k] = reload[k]
    BY <1>1, <1>2, <2>1
  <2>3. /\ loaded' \in [Instances -> Nat] /\ loaded'[i] = r.version
        /\ \A k \in Instances \ {i} : loaded'[k] = loaded[k]
        /\ serving' \in [Instances -> Keystores] /\ stranded' \subseteq Instances
    BY <1>1, <1>3, <2>1 DEF Load
  <2>4. Copies'
    BY <1>1, <1>2, <1>4, <2>1, <2>2, <2>3 DEF Copies
  <2>5. QED
    BY <1>1, <1>2, <1>3, <1>4, <2>1, <2>2, <2>3, <2>4
<1>7. CASE FailReload(i, by) /\ UNCHANGED copyVars /\ stranded' \subseteq Instances
  <2>1. PICK r \in reload[i] : reload' = [reload EXCEPT ![i] = @ \ {r}]
    BY <1>7 DEF FailReload
  <2>2. /\ reload' \in [Instances -> SUBSET AnyReload] /\ reload'[i] = {}
        /\ \A k \in Instances \ {i} : reload'[k] = reload[k]
    BY <1>1, <1>2, <2>1
  <2>3. UNCHANGED <<serving, loaded>>
    BY <1>7 DEF copyVars
  <2>4. Copies'
    BY <1>1, <1>2, <1>4, <2>2, <2>3 DEF Copies
  <2>5. QED
    BY <1>1, <1>4, <1>7, <2>2, <2>3, <2>4
<1>8. QED
  BY <1>5, <1>6, <1>7

(* Only the reloads, the copies, the jobs and the lock have changed.       *)
LEMMA ReloadKeeps ==
  ASSUME KeystoreInv, Copies', JobSide', \A k \in Instances : reload'[k] \subseteq Reloads(k),
         serving' \in [Instances -> Keystores], stranded' \subseteq Instances,
         poll' \in [Instances -> {"idle", "seen", "reload"}], job' \in [Jobs -> JobRecords],
         lock' \in {lock, Free}, UNCHANGED <<vaultVars, status, scheduler, last, head>>
  PROVE  KeystoreInv'
<1>1. KeystoreTypeOK'
  BY DEF KeystoreInv, KeystoreTypeOK, JobRecords, JobPhases, Rotating, Reloads, vaultVars
<1>2. QED
  BY <1>1 DEF KeystoreInv, JobSide

LEMMA PollReloadKeeps ==
  ASSUME KeystoreInv, NEW i \in Instances, pollReload(i) \/ pollReloadFails(i)
  PROVE  KeystoreInv'
<1>1. /\ UNCHANGED <<vaultVars, lock, status, scheduler, last, head, job>>
      /\ poll' \in {poll, [poll EXCEPT ![i] = "idle"]}
  BY DEF pollReload, pollReloadFails
<1>2. \/ StartReload(i, Poller(i)) /\ status[i] = "up" /\ UNCHANGED <<copyVars, stranded>>
      \/ EndReload(i, Poller(i))
      \/ FailReload(i, Poller(i)) /\ UNCHANGED copyVars /\ stranded' \subseteq Instances
  BY DEF pollReload, pollReloadFails, KeystoreInv, Copies, KeystoreTypeOK
<1>3. UNCHANGED <<version, status>>
  BY <1>1 DEF vaultVars
<1>4. JobSide' /\ job' \in [Jobs -> JobRecords]
  BY <1>1, KeystoreTypes
    DEF JobSide, KeystoreInv, Owned, Numbered, Settled, Locked, Due, MadeSince, vaultVars
<1>5. QED
  BY <1>1, <1>2, <1>3, <1>4, ReloadStep, ReloadKeeps

LEMMA RotateReloadKeeps ==
  ASSUME KeystoreInv, NEW p \in Jobs, rotateReload(p) \/ rotateFails(p)
  PROVE  KeystoreInv'
<1>1. /\ UNCHANGED <<vaultVars, status, scheduler, last, head>> /\ poll' = poll
      /\ UNCHANGED <<version, status>>
      /\ home(p) \in Instances
  BY HomesAre DEF rotateReload, rotateFails, vaultVars, pollVars
<1>2. CASE rotateReload(p) /\ StartReload(home(p), p) /\ UNCHANGED <<copyVars, lock, job, stranded>>
  <2>1. status[home(p)] = "up"
    BY <1>2 DEF rotateReload, KeystoreInv, Owned
  <2>2. JobSide' /\ job' \in [Jobs -> JobRecords]
    BY <1>1, <1>2, KeystoreTypes
      DEF JobSide, KeystoreInv, Owned, Numbered, Settled, Locked, Due, MadeSince, vaultVars
  <2>3. QED
    BY <1>1, <1>2, <2>1, <2>2, ReloadStep, ReloadKeeps
<1>3. CASE rotateReload(p) /\ EndReload(home(p), p) /\ Finish(p)
  BY <1>1, <1>3, FinishSide, ReloadStep, ReloadKeeps
<1>4. CASE rotateFails(p) /\ FailReload(home(p), p)
  <2>1. Finish(p) /\ UNCHANGED copyVars /\ stranded' \subseteq Instances
    BY <1>4 DEF rotateFails, KeystoreInv, KeystoreTypeOK
  <2>2. QED
    BY <1>1, <1>4, <2>1, FinishSide, ReloadStep, ReloadKeeps
<1>5. CASE rotateFails(p) /\ UNCHANGED reload
  <2>1. Finish(p) /\ UNCHANGED <<serving, loaded, stranded>>
    BY <1>5 DEF rotateFails, copyVars
  <2>2. Copies'
    BY <1>1, <1>5, <2>1, CopiesStay
  <2>3. QED
    BY <1>1, <1>5, <2>1, <2>2, FinishSide, KeystoreTypes, ReloadKeeps DEF KeystoreInv, KeystoreTypeOK
<1>6. QED
  BY <1>2, <1>3, <1>4, <1>5 DEF rotateReload, rotateFails

---------------------------------------------------------------------------
(* An instance boots, and its keys are those of the vault.                 *)
LEMMA EnsureReadKeeps ==
  ASSUME KeystoreInv, NEW i \in Instances, ensureRead(i)
  PROVE  KeystoreInv'
<1>1. /\ UNCHANGED <<vault, version, aged, nextKey, byHand, lock, last, poll, head, scheduler, job,
                     reload>>
      /\ status[i] = "down" /\ reload[i] = {} /\ poll[i] = "idle"
  BY DEF ensureRead, vaultVars, pollVars, KeystoreInv, Copies
<1>2. /\ status \in [Instances -> {"down", "creating", "up"}] /\ vault \in Keystores /\ version \in Nat
      /\ serving \in [Instances -> Keystores] /\ loaded \in [Instances -> Nat]
      /\ stranded \subseteq Instances
  BY KeystoreTypes DEF KeystoreInv, KeystoreTypeOK, Copies
<1>3. /\ serving' \in [Instances -> Keystores] /\ loaded' \in [Instances -> Nat]
      /\ loaded'[i] <= version /\ stranded' \subseteq Instances
      /\ \A k \in Instances \ {i} : loaded'[k] = loaded[k]
  BY <1>1, <1>2 DEF ensureRead, Load, copyVars, KeystoreInv, Copies
<1>4. /\ status' \in [Instances -> {"down", "creating", "up"}]
      /\ \A k \in Instances \ {i} : status'[k] = status[k]
      /\ status'[i] = "creating" => vault = <<>>
  BY <1>2 DEF ensureRead
<1>5. KeystoreTypeOK'
  BY <1>1, <1>3, <1>4 DEF KeystoreInv, KeystoreTypeOK
<1>6. Copies'
  BY <1>1, <1>3, <1>4 DEF KeystoreInv, Copies
<1>7. Owned'
  <2>1. \A p \in Jobs : job[p].phase # "idle" /\ p[1] # "cli" => status'[home(p)] = "up"
    BY <1>1, <1>4, HomesAre DEF KeystoreInv, Owned
  <2>2. QED
    BY <1>1, <2>1 DEF KeystoreInv, Owned
<1>8. Settled'
  BY <1>1, <1>4 DEF KeystoreInv, Settled
<1>9. QED
  BY <1>1, <1>5, <1>6, <1>7, <1>8 DEF KeystoreInv, Numbered, Locked, Due, MadeSince

LEMMA KidsAre ==
  ASSUME NEW s \in Keystores
  PROVE  \A n \in 1..Len(s) : s[n] \in Nat
<1>1. s \in Seq(Keys)
  BY KeystoreIs
<1>2. \A n \in 1..Len(s) : s[n] \in Keys
  BY <1>1
<1>3. QED
  BY <1>2, KeystoreBounds DEF Keys

LEMMA WriteTypes ==
  ASSUME KeystoreInv, NEW keys \in Keystores, Write(keys), keys # <<>>, keys[1] = nextKey,
         \A n \in 1..Len(keys) : keys[n] <= nextKey
  PROVE  /\ nextKey \in Keys /\ version' = version + 1 /\ nextKey' = nextKey + 1 /\ vault' = keys
         /\ aged' = FALSE /\ version' \in 0..MaxKeys /\ nextKey' \in 1..(MaxKeys + 1)
         /\ version' = nextKey' - 1 /\ vault'[1] = nextKey' - 1
         /\ \A n \in 1..Len(vault') : vault'[n] < nextKey'
         /\ \A p \in Jobs : \A n \in 1..Len(job[p].read) : job[p].read[n] < nextKey'
<1>1. version = nextKey - 1 /\ nextKey \in Nat \ {0} /\ nextKey <= MaxKeys /\ MaxKeys \in Nat
  BY KeystoreTypes, KeystoreBounds DEF KeystoreInv, Numbered, Write
<1>2. /\ nextKey \in Keys /\ version' = version + 1 /\ nextKey' = nextKey + 1
      /\ vault' = keys /\ aged' = FALSE
      /\ version' \in 0..MaxKeys /\ nextKey' \in 1..(MaxKeys + 1)
      /\ version' = nextKey' - 1 /\ vault'[1] = nextKey' - 1
  BY <1>1 DEF Write, Keys
<1>3. \A n \in 1..Len(keys) : keys[n] \in Nat
  BY KidsAre
<1>4. \A p \in Jobs : \A n \in 1..Len(job[p].read) : job[p].read[n] \in Nat
  BY KeystoreTypes, KidsAre DEF JobRecords
<1>5. \A n \in 1..Len(vault') : vault'[n] < nextKey'
  BY <1>1, <1>2, <1>3
<1>6. \A p \in Jobs : \A n \in 1..Len(job[p].read) : job[p].read[n] < nextKey
  BY DEF KeystoreInv, Numbered
<1>7. \A p \in Jobs : \A n \in 1..Len(job[p].read) : job[p].read[n] < nextKey'
  BY <1>1, <1>2, <1>4, <1>6
<1>8. QED
  BY <1>2, <1>5, <1>7

LEMMA EnsureWriteKeeps ==
  ASSUME KeystoreInv, NEW i \in Instances, ensureWrite(i)
  PROVE  KeystoreInv'
<1>1. /\ UNCHANGED <<byHand, lock, last, poll, head, scheduler, job, reload>>
      /\ status[i] = "creating" /\ reload[i] = {} /\ poll[i] = "idle"
      /\ Write(<<nextKey>>) /\ Load(i, <<nextKey>>, version + 1)
      /\ status' = [status EXCEPT ![i] = "up"]
  BY DEF ensureWrite, pollVars, KeystoreInv, Copies
<1>2. PICK keys : keys = <<nextKey>>
  OBVIOUS
<1>3. /\ keys \in Keystores /\ keys # <<>> /\ keys[1] = nextKey
      /\ \A n \in 1..Len(keys) : keys[n] <= nextKey
  <2>1. nextKey \in Keys /\ nextKey \in Nat
    BY <1>1, KeystoreTypes, KeystoreBounds DEF Write, Keys
  <2>2. keys \in Seq(Keys) /\ Len(keys) = 1 /\ keys[1] = nextKey
    BY <1>2, <2>1
  <2>3. \A n \in 1..Len(keys) : keys[n] <= nextKey
    BY <2>1, <2>2
  <2>4. Fits(Len(keys)) /\ keys # <<>>
    BY <2>2, KeepsAre
  <2>5. keys \in Keystores
    BY <2>2, <2>4, KeystoreIs
  <2>6. QED
    BY <2>2, <2>3, <2>4, <2>5
<1>4. Write(keys)
  BY <1>1, <1>2
<1>5. /\ version' = version + 1 /\ aged' = FALSE /\ vault' = keys /\ version' \in 0..MaxKeys
      /\ nextKey' \in 1..(MaxKeys + 1) /\ version' = nextKey' - 1 /\ vault'[1] = nextKey' - 1
      /\ \A n \in 1..Len(vault') : vault'[n] < nextKey'
      /\ \A p \in Jobs : \A n \in 1..Len(job[p].read) : job[p].read[n] < nextKey'
  BY <1>3, <1>4, WriteTypes
<1>6. ~aged /\ \A p \in Scheduled : job[p].phase = "idle"
  BY <1>1 DEF KeystoreInv, Settled
<1>7. /\ version \in Nat /\ serving' \in [Instances -> Keystores] /\ stranded' \subseteq Instances
      /\ loaded' \in [Instances -> Nat] /\ loaded'[i] = version'
      /\ \A k \in Instances \ {i} : loaded'[k] = loaded[k]
  BY <1>1, <1>2, <1>3, <1>5, KeystoreTypes DEF Load, KeystoreInv, KeystoreTypeOK, Copies
<1>8. /\ status' \in [Instances -> {"down", "creating", "up"}] /\ status'[i] = "up"
      /\ \A k \in Instances \ {i} : status'[k] = status[k]
  BY <1>1, KeystoreTypes
<1>9. KeystoreTypeOK'
  BY <1>1, <1>3, <1>5, <1>7, <1>8 DEF KeystoreInv, KeystoreTypeOK
<1>10. Copies'
  <2>1. \A k \in Instances : \A r \in reload[k] : r.version \in Nat
    BY KeystoreTypes, KeystoreBounds DEF Reloads
  <2>2. ASSUME NEW k \in Instances
        PROVE  /\ loaded'[k] <= version'
               /\ status'[k] # "up" => reload[k] = {} /\ poll[k] = "idle"
               /\ \A r \in reload[k] : loaded'[k] <= r.version /\ r.version <= version'
               /\ \A r, s \in reload[k] : r = s
    BY <1>1, <1>5, <1>7, <1>8, <2>1 DEF KeystoreInv, Copies
  <2>3. QED
    BY <1>1, <1>7, <2>2 DEF KeystoreInv, Copies
<1>11. Owned'
  BY <1>1, <1>8, HomesAre DEF KeystoreInv, Owned
<1>12. Numbered'
  BY <1>1, <1>5 DEF Numbered
<1>13. Settled' /\ Locked' /\ Due' /\ MadeSince'
  BY <1>1, <1>5, <1>6 DEF Settled, Locked, Due, MadeSince
<1>14. QED
  BY <1>9, <1>10, <1>11, <1>12, <1>13 DEF KeystoreInv

(* What a rotation writes, and that no other scheduled one may.            *)
LEMMA RotateWriteIs ==
  ASSUME KeystoreInv, NEW p \in Jobs, rotateWrite(p)
  PROVE  \E j \in JobRecords :
           /\ job' = [job EXCEPT ![p] = j] /\ j.read = <<>> /\ j.keep = Keep
           /\ j.phase = IF p[1] = "cli" THEN "idle" ELSE "written"
<1>1. PICK j : j = IF p[1] = "cli" THEN NoJob ELSE [NoJob EXCEPT !.phase = "written"]
  OBVIOUS
<1>2. <<>> \in Keystores
  BY EmptyIs
<1>3. j = [phase |-> IF p[1] = "cli" THEN "idle" ELSE "written", keep |-> Keep, read |-> <<>>]
  BY <1>1 DEF NoJob
<1>4. j \in JobRecords
  BY <1>2, <1>3, KeepsAre DEF JobRecords, JobPhases
<1>5. job' = [job EXCEPT ![p] = j]
  BY <1>1 DEF rotateWrite
<1>6. j.read = <<>> /\ j.keep = Keep /\ j.phase = IF p[1] = "cli" THEN "idle" ELSE "written"
  BY <1>3
<1>7. QED
  BY <1>4, <1>5, <1>6

LEMMA RotateWriteKeeps ==
  ASSUME KeystoreInv, NEW p \in Jobs, rotateWrite(p)
  PROVE  KeystoreInv'
<1>1. /\ UNCHANGED <<lock, status, scheduler, serving, loaded, last, poll, head, reload, stranded>>
      /\ job[p].phase = "read" /\ Write(Rotated(p))
      /\ byHand' = IF p \in Manual THEN byHand \cup {nextKey} ELSE byHand
  BY DEF rotateWrite, copyVars, pollVars
<1>2. PICK j \in JobRecords :
        /\ job' = [job EXCEPT ![p] = j] /\ j.read = <<>>
        /\ j.phase = IF p[1] = "cli" THEN "idle" ELSE "written"
  BY RotateWriteIs
<1>3. /\ job' \in [Jobs -> JobRecords]
      /\ \A q \in Jobs : job'[q] = IF q = p THEN j ELSE job[q]
  BY <1>2, KeystoreTypes
<1>4. PICK keys : keys = Rotated(p)
  OBVIOUS
<1>5. nextKey \in Keys /\ nextKey \in Nat /\ job[p] \in JobRecords
  BY <1>1, KeystoreTypes, KeystoreBounds DEF Write, Keys
<1>6. /\ keys \in Keystores /\ keys # <<>> /\ keys[1] = nextKey
      /\ \A n \in 1..Len(keys) :
           keys[n] = nextKey \/ \E m \in 1..Len(job[p].read) : keys[n] = job[p].read[m]
  BY <1>4, <1>5, RotatedIs
<1>7. \A n \in 1..Len(keys) : keys[n] <= nextKey
  <2>1. job[p].read \in Keystores
    BY <1>5 DEF JobRecords
  <2>2. \A m \in 1..Len(job[p].read) : job[p].read[m] \in Nat
    BY <2>1, KidsAre
  <2>3. \A m \in 1..Len(job[p].read) : job[p].read[m] < nextKey
    BY KnownIs
  <2>4. ASSUME NEW n \in 1..Len(keys) PROVE keys[n] <= nextKey
    <3>1. CASE keys[n] = nextKey
      BY <1>5, <3>1
    <3>2. ASSUME NEW m \in 1..Len(job[p].read), keys[n] = job[p].read[m] PROVE keys[n] <= nextKey
      BY <1>5, <2>2, <2>3, <3>2
    <3>3. QED
      BY <1>6, <3>1, <3>2
  <2>5. QED
    BY <2>4
<1>8. /\ version' = version + 1 /\ nextKey' = nextKey + 1 /\ vault' = keys /\ aged' = FALSE
      /\ version' \in 0..MaxKeys /\ nextKey' \in 1..(MaxKeys + 1)
      /\ version' = nextKey' - 1 /\ vault'[1] = nextKey' - 1
      /\ \A n \in 1..Len(vault') : vault'[n] < nextKey'
      /\ \A q \in Jobs : \A n \in 1..Len(job[q].read) : job[q].read[n] < nextKey'
  BY <1>1, <1>4, <1>6, <1>7, WriteTypes
<1>9. KeystoreTypeOK'
  BY <1>1, <1>3, <1>6, <1>8 DEF KeystoreInv, KeystoreTypeOK, JobRecords, JobPhases, Rotating
<1>10. Copies'
  BY <1>1, <1>8, CopiesStay
<1>11. Owned'
  <2>1. ASSUME NEW q \in Jobs
        PROVE  /\ job'[q].phase # "idle" =>
                    IF q[1] = "cli" THEN job'[q].phase # "written" ELSE status[home(q)] = "up"
               /\ job'[q].phase \in {"aged", "locked"} => q \in Scheduled
    BY <1>1, <1>2, <1>3, KnownIs
  <2>2. QED
    BY <1>1, <2>1 DEF Owned
<1>12. Numbered'
  <2>1. Len(j.read) = 0
    BY <1>2
  <2>2. ASSUME NEW q \in Jobs, NEW n \in 1..Len(job'[q].read)
        PROVE  job'[q].read[n] < nextKey'
    <3>1. q # p
      BY <1>3, <2>1
    <3>2. job'[q] = job[q]
      BY <1>3, <3>1
    <3>3. QED
      BY <1>8, <3>2
  <2>3. QED
    BY <1>8, <2>2 DEF Numbered
<1>13. Settled'
  <2>1. ASSUME NEW q \in Scheduled, job'[q].phase # "idle"
        PROVE  \A i \in Instances : status[i] # "creating"
    BY <1>1, <1>3, <2>1, HomesAre DEF KeystoreInv, Settled
  <2>2. vault' # <<>>
    BY <1>6, <1>8
  <2>3. QED
    BY <1>1, <1>8, <2>1, <2>2 DEF Settled
<1>14. ASSUME NEW q \in Scheduled, job'[q].phase \in {"locked", "queued", "read", "written"}
       PROVE  lock' = q
  BY <1>1, <1>2, <1>3, <1>14, HomesAre, KnownIs
<1>15. ASSUME NEW q \in Scheduled, job'[q].phase \in {"queued", "read"}
       PROVE  job'[q] = job[q] /\ p \in Manual
  <2>1. q # p /\ job'[q] = job[q]
    BY <1>2, <1>3, <1>15, HomesAre
  <2>2. lock = q
    BY <1>15, <2>1, HomesAre, KnownIs
  <2>3. p \notin Scheduled
    BY <1>1, <2>1, <2>2, KnownIs
  <2>4. QED
    BY <2>1, <2>3, HomesAre
<1>16. Due'
  <2>1. ASSUME NEW q \in Scheduled, job'[q].phase \in {"queued", "read"} PROVE vault'[1] \in byHand'
    BY <1>1, <1>6, <1>8, <1>15, <2>1
  <2>2. QED
    BY <2>1 DEF Due
<1>17. MadeSince'
  <2>1. ASSUME NEW q \in Scheduled, job'[q].phase = "read",
               NEW k \in Nat, job'[q].read[1] < k, k < nextKey'
        PROVE  k \in byHand'
    <3>1. job'[q] = job[q] /\ p \in Manual
      BY <1>15, <2>1
    <3>2. k < nextKey \/ k = nextKey
      BY <1>5, <1>8, <2>1
    <3>3. k < nextKey => k \in byHand
      BY <2>1, <3>1 DEF KeystoreInv, MadeSince
    <3>4. QED
      BY <1>1, <3>1, <3>2, <3>3
  <2>2. QED
    BY <2>1 DEF MadeSince
<1>18. Locked'
  BY <1>14 DEF Locked
<1>19. QED
  BY <1>9, <1>10, <1>11, <1>12, <1>13, <1>16, <1>17, <1>18 DEF KeystoreInv

---------------------------------------------------------------------------
LEMMA CrashKeeps ==
  ASSUME KeystoreInv, NEW i \in Instances, Crash(i)
  PROVE  KeystoreInv'
<1>1. /\ UNCHANGED <<vault, version, aged, nextKey, byHand, head, loaded>>
      /\ status' = [status EXCEPT ![i] = "down"] /\ serving' = [serving EXCEPT ![i] = <<>>]
      /\ last' = [last EXCEPT ![i] = Unset] /\ poll' = [poll EXCEPT ![i] = "idle"]
      /\ scheduler' = [scheduler EXCEPT ![i] = "none"]
      /\ job' = [p \in Jobs |-> IF home(p) = i /\ p[1] # "cli" THEN NoJob ELSE job[p]]
      /\ reload' = [reload EXCEPT ![i] = {}]
      /\ lock' = IF lock = <<"sched", i>> THEN Orphan(i) ELSE lock
      /\ stranded' = stranded \ {i}
  BY DEF Crash, vaultVars
<1>2. <<>> \in Keystores
  BY EmptyIs
<1>3. NoJob \in JobRecords /\ NoJob.phase = "idle" /\ Len(NoJob.read) = 0
  BY <1>2, KeepsAre DEF NoJob, JobRecords, JobPhases
<1>4. /\ job' \in [Jobs -> JobRecords]
      /\ \A p \in Jobs : job'[p] = IF home(p) = i /\ p[1] # "cli" THEN NoJob ELSE job[p]
  BY <1>1, <1>3, KeystoreTypes
<1>5. /\ status' \in [Instances -> {"down", "creating", "up"}] /\ status'[i] = "down"
      /\ \A k \in Instances \ {i} : status'[k] = status[k]
  BY <1>1, KeystoreTypes
<1>6. KeystoreTypeOK'
  <2>1. serving' \in [Instances -> Keystores] /\ stranded' \subseteq Instances
    BY <1>1, <1>2 DEF KeystoreInv, KeystoreTypeOK
  <2>2. last' \in [Instances -> Unset..MaxKeys]
    BY <1>1, KeystoreBounds DEF KeystoreInv, KeystoreTypeOK, Unset
  <2>3. poll' \in [Instances -> {"idle", "seen", "reload"}]
    BY <1>1, KeystoreTypes
  <2>4. \A k \in Instances : reload'[k] \subseteq Reloads(k)
    BY <1>1, KeystoreTypes DEF KeystoreInv, Copies
  <2>5. lock' \in Scheduled \cup {Free} \cup {Orphan(k) : k \in Instances}
    BY <1>1 DEF KeystoreInv, KeystoreTypeOK
  <2>6. job' \in [Jobs -> [phase : {"idle", "aged", "locked", "queued"} \cup Rotating,
                           keep : Keeps, read : Keystores]]
    BY <1>4 DEF JobRecords, JobPhases, Rotating
  <2>7. /\ UNCHANGED <<vault, version, aged, head, nextKey>>
        /\ vault \in Keystores /\ version \in 0..MaxKeys /\ aged \in BOOLEAN
        /\ head \in [Instances -> Unset..MaxKeys] /\ nextKey \in 1..(MaxKeys + 1)
    BY <1>1 DEF KeystoreInv, KeystoreTypeOK
  <2>8. scheduler' \in [Instances -> {"none", "on", "never"}]
    BY <1>1 DEF KeystoreInv, KeystoreTypeOK
  <2>9. QED
    BY <1>5, <2>1, <2>2, <2>3, <2>4, <2>5, <2>6, <2>7, <2>8 DEF KeystoreTypeOK, Reloads
<1>7. Copies'
  BY <1>1, <1>5, KeystoreTypes DEF KeystoreInv, Copies
<1>8. Owned'
  BY <1>3, <1>4, <1>5, HomesAre DEF KeystoreInv, Owned
<1>9. Numbered'
  <2>1. \A p \in Jobs : \A n \in 1..Len(job'[p].read) : job'[p].read[n] < nextKey
    BY <1>3, <1>4 DEF KeystoreInv, Numbered
  <2>2. QED
    BY <1>1, <2>1 DEF KeystoreInv, Numbered
<1>10. Settled'
  <2>1. \A p \in Scheduled : job'[p].phase # "idle" => job[p].phase # "idle"
    BY <1>3, <1>4, HomesAre
  <2>2. QED
    BY <1>1, <1>5, <2>1 DEF KeystoreInv, Settled
<1>11. \A p \in Scheduled : job'[p].phase # "idle" => job'[p] = job[p] /\ home(p) # i
  BY <1>3, <1>4, HomesAre
<1>12. Locked'
  <2>1. ASSUME NEW p \in Scheduled, job'[p].phase \in {"locked", "queued", "read", "written"}
        PROVE  lock' = p
    <3>1. lock = p /\ home(p) # i
      BY <1>11, <2>1 DEF KeystoreInv, Locked
    <3>2. p # <<"sched", i>>
      BY <3>1 DEF home
    <3>3. QED
      BY <1>1, <3>1, <3>2
  <2>2. QED
    BY <2>1 DEF Locked
<1>13. Due' /\ MadeSince'
  BY <1>1, <1>11 DEF KeystoreInv, Due, MadeSince
<1>14. QED
  BY <1>6, <1>7, <1>8, <1>9, <1>10, <1>12, <1>13 DEF KeystoreInv

LEMMA TimeKeeps ==
  ASSUME KeystoreInv, lockExpires \/ Age \/ UNCHANGED keystoreVars
  PROVE  KeystoreInv'
<1>1. /\ UNCHANGED <<vault, version, nextKey, byHand, status, scheduler, serving, loaded, last, poll,
                     head, job, reload, stranded>>
  BY DEF lockExpires, Age, keystoreVars, vaultVars, copyVars, pollVars
<1>2. CASE lockExpires
  <2>1. aged' = aged /\ lock' = Free /\ \A p \in Scheduled : lock # p
    BY <1>2, HomesAre DEF lockExpires, vaultVars
  <2>2. KeystoreTypeOK'
    BY <1>1, <2>1 DEF KeystoreInv, KeystoreTypeOK
  <2>3. QED
    BY <1>1, <2>1, <2>2
      DEF KeystoreInv, Copies, Owned, Numbered, Settled, Locked, Due, MadeSince
<1>3. CASE Age
  <2>1. /\ aged' = TRUE /\ lock' = lock /\ vault # <<>>
        /\ \A i \in Instances : status[i] # "creating"
    BY <1>3 DEF Age
  <2>2. KeystoreTypeOK'
    BY <1>1, <2>1 DEF KeystoreInv, KeystoreTypeOK
  <2>3. QED
    BY <1>1, <2>1, <2>2
      DEF KeystoreInv, Copies, Owned, Numbered, Settled, Locked, Due, MadeSince
<1>4. CASE UNCHANGED keystoreVars
  <2>1. aged' = aged /\ lock' = lock
    BY <1>4 DEF keystoreVars
  <2>2. KeystoreTypeOK'
    BY <1>1, <2>1 DEF KeystoreInv, KeystoreTypeOK
  <2>3. QED
    BY <1>1, <2>1, <2>2
      DEF KeystoreInv, Copies, Owned, Numbered, Settled, Locked, Due, MadeSince
<1>5. QED
  BY <1>2, <1>3, <1>4

LEMMA KeystoreStarts == KeystoreInit => KeystoreInv
<1> SUFFICES ASSUME KeystoreInit PROVE KeystoreInv
  OBVIOUS
<1>1. /\ vault \in {<<1>>, <<>>} /\ version = Len(vault) /\ nextKey = Len(vault) + 1 /\ aged = FALSE
      /\ lock = Free /\ status = [i \in Instances |-> "down"]
      /\ scheduler = [i \in Instances |-> "none"]
      /\ serving = [i \in Instances |-> <<>>] /\ last = [i \in Instances |-> Unset]
      /\ poll = [i \in Instances |-> "idle"] /\ head = [i \in Instances |-> Unset]
      /\ job = [p \in Jobs |-> NoJob] /\ reload = [i \in Instances |-> {}]
      /\ loaded = [i \in Instances |-> 0] /\ byHand = {} /\ stranded = {}
  BY DEF KeystoreInit
<1>2. /\ vault \in Seq(Keys) /\ Len(vault) \in {0, 1}
      /\ vault # <<>> => Len(vault) = 1 /\ vault[1] = 1
      /\ <<>> \in Seq(Keys) /\ Len(<<>>) = 0
  <2>1. 1 \in Keys
    BY KeystoreBounds DEF Keys
  <2>2. <<1>> \in Seq(Keys) /\ Len(<<1>>) = 1 /\ <<1>>[1] = 1
    BY <2>1
  <2>3. <<>> \in Seq(Keys) /\ Len(<<>>) = 0
    OBVIOUS
  <2>4. QED
    BY <1>1, <2>2, <2>3
<1>3. vault \in Keystores /\ <<>> \in Keystores
  <2>1. Fits(Len(vault)) /\ Fits(Len(<<>>))
    BY <1>2, KeepsAre
  <2>2. QED
    BY <1>2, <2>1, KeystoreIs
<1>4. NoJob \in JobRecords /\ NoJob.phase = "idle" /\ Len(NoJob.read) = 0
  BY <1>2, <1>3, KeepsAre DEF NoJob, JobRecords, JobPhases
<1>5. /\ version \in 0..MaxKeys /\ nextKey \in 1..(MaxKeys + 1) /\ version = nextKey - 1
      /\ version \in Nat /\ Unset \in Unset..MaxKeys
  <2>1. /\ Len(vault) \in {0, 1} /\ version = Len(vault) /\ nextKey = Len(vault) + 1
        /\ MaxKeys \in Nat /\ MaxKeys >= 1
    BY <1>1, <1>2, KeystoreBounds
  <2>2. Unset \in Unset..MaxKeys
    BY <2>1 DEF Unset
  <2>3. QED
    BY <2>1, <2>2
<1>6. \A p \in Jobs : job[p] = NoJob
  BY <1>1
<1>7. KeystoreTypeOK
  <2>1. job \in [Jobs -> JobRecords]
    BY <1>1, <1>4
  <2>2. QED
    BY <1>1, <1>3, <1>5, <2>1 DEF KeystoreTypeOK, JobRecords, JobPhases, Rotating
<1>8. Copies
  BY <1>1, <1>5 DEF Copies
<1>9. Owned /\ Locked /\ Due /\ MadeSince
  BY <1>4, <1>6, HomesAre DEF Owned, Locked, Due, MadeSince
<1>10. Numbered
  <2>1. vault # <<>> => vault[1] = nextKey - 1
    BY <1>1, <1>2
  <2>2. \A n \in 1..Len(vault) : vault[n] < nextKey
    <3>1. ASSUME NEW n \in 1..Len(vault) PROVE n = 1 /\ Len(vault) = 1 /\ vault # <<>>
      BY <1>2
    <3>2. QED
      BY <1>1, <1>2, <3>1
  <2>3. \A p \in Jobs : \A n \in 1..Len(job[p].read) : job[p].read[n] < nextKey
    BY <1>4, <1>6
  <2>4. QED
    BY <1>5, <2>1, <2>2, <2>3 DEF Numbered
<1>11. Settled
  BY <1>1, <1>4, <1>6, HomesAre DEF Settled
<1>12. QED
  BY <1>7, <1>8, <1>9, <1>10, <1>11 DEF KeystoreInv

LEMMA KeystoreKeeps == KeystoreInv /\ [KeystoreNext]_keystoreVars => KeystoreInv'
<1> SUFFICES ASSUME KeystoreInv, [KeystoreNext]_keystoreVars PROVE KeystoreInv'
  OBVIOUS
<1>1. ASSUME NEW i \in Instances,
             Boot(i) \/ schedulerFails(i) \/ Poll(i) \/ pollReloadFails(i) \/ Crash(i)
      PROVE  KeystoreInv'
  BY <1>1, EnsureReadKeeps, EnsureWriteKeeps, PollKeeps, PollReloadKeeps, CrashKeeps DEF Boot, Poll
<1>2. ASSUME NEW p \in Jobs, Rotate(p) \/ rotateFails(p) PROVE KeystoreInv'
  BY <1>2, TickKeeps, ReadKeeps, RotateWriteKeeps, RotateReloadKeeps DEF Rotate
<1>3. QED
  BY <1>1, <1>2, ByHandKeeps, TimeKeeps DEF KeystoreNext

(* However instances boot, poll, crash and rotate: reloads of an instance  *)
(* run one at a time, the lock has one holder, and a scheduled rotation    *)
(* that read the vault is the only one of its kind until it is done.       *)
THEOREM KeystoreInvariantHolds == KeystoreSpec => []KeystoreInv
<1>1. KeystoreInit => KeystoreInv
  BY KeystoreStarts
<1>2. KeystoreInv /\ [KeystoreNext]_keystoreVars => KeystoreInv'
  BY KeystoreKeeps
<1>3. QED
  BY <1>1, <1>2, PTL DEF KeystoreSpec

(* Types: no keystore that is stored, published or read by a rotation is   *)
(* longer than the policy, or some rotation by hand, asks to keep.         *)
THEOREM KeystoreTypeCorrect == KeystoreSpec => []KeystoreTypeOK
<1>1. KeystoreInv => KeystoreTypeOK
  BY DEF KeystoreInv
<1>2. QED
  BY <1>1, KeystoreInvariantHolds, PTL

(* No rotation by the schedule overwrites another by the schedule.         *)
THEOREM ScheduledRotationsStay == KeystoreSpec => ScheduledRotationsAreKept
<1>1. ASSUME KeystoreInv, NEW p \in Scheduled, rotateWrite(p) PROVE Lost(p) \subseteq byHand
  <2>1. /\ p \in Jobs /\ job[p].phase = "read"
        /\ \A k \in Nat : job[p].read[1] < k /\ k < nextKey => k \in byHand
    BY <1>1, HomesAre DEF rotateWrite, KeystoreInv, MadeSince
  <2>2. vault \in Seq(Keys) /\ \A n \in 1..Len(vault) : vault[n] \in Nat /\ vault[n] < nextKey
    <3>1. vault \in Keystores
      BY <1>1 DEF KeystoreInv, KeystoreTypeOK
    <3>2. vault \in Seq(Keys) /\ \A n \in 1..Len(vault) : vault[n] \in Nat
      BY <3>1, KidsAre, KeystoreIs
    <3>3. \A n \in 1..Len(vault) : vault[n] < nextKey
      BY <1>1 DEF KeystoreInv, Numbered
    <3>4. QED
      BY <3>2, <3>3
  <2>3. PICK len : len = Least(job[p].keep - 1, Len(vault))
    OBVIOUS
  <2>4. len \in Nat /\ len <= Len(vault)
    <3>1. job[p].keep \in Nat \ {0} /\ Len(vault) \in Nat
      <4>1. job[p] \in JobRecords
        BY <1>1, <2>1, KeystoreTypes
      <4>2. job[p].keep \in Keeps
        BY <4>1 DEF JobRecords
      <4>3. job[p].keep \in Nat \ {0}
        BY <4>2, KeepsAre
      <4>4. Len(vault) \in Nat
        BY <2>2
      <4>5. QED
        BY <4>3, <4>4
    <3>2. QED
      BY <2>3, <3>1 DEF Least
  <2>5. PICK kept : kept = SubSeq(vault, 1, len)
    OBVIOUS
  <2>6. Len(kept) = len /\ \A n \in 1..len : kept[n] = vault[n]
    BY <2>2, <2>4, <2>5
  <2>7. ASSUME NEW k \in Range(kept), k > job[p].read[1] PROVE k \in byHand
    <3>1. PICK n \in 1..Len(kept) : k = kept[n]
      BY <2>7 DEF Range
    <3>2. k \in Nat /\ k < nextKey
      BY <2>2, <2>4, <2>6, <3>1
    <3>3. job[p].read[1] < k
      BY <2>7
    <3>4. QED
      BY <2>1, <3>2, <3>3
  <2>8. QED
    BY <2>3, <2>5, <2>7 DEF Lost
<1>2. KeystoreInv /\ [KeystoreNext]_keystoreVars =>
        [\A p \in Scheduled : rotateWrite(p) => Lost(p) \subseteq byHand]_keystoreVars
  BY <1>1
<1>3. QED
  BY <1>2, KeystoreInvariantHolds, PTL DEF KeystoreSpec, ScheduledRotationsAreKept

(* The age that was read under the lock is still that of the newest key    *)
(* when the rotation writes, unless a rotation by hand came in between.    *)
THEOREM YoungKeysStay == KeystoreSpec => OnlyAgedKeysRotate
<1>1. ASSUME KeystoreInv, NEW p \in Scheduled, rotateWrite(p) PROVE aged \/ vault[1] \in byHand
  BY <1>1, HomesAre DEF rotateWrite, KeystoreInv, Due
<1>2. KeystoreInv /\ [KeystoreNext]_keystoreVars =>
        [\A p \in Scheduled : rotateWrite(p) => aged \/ vault[1] \in byHand]_keystoreVars
  BY <1>1
<1>3. QED
  BY <1>2, KeystoreInvariantHolds, PTL DEF KeystoreSpec, OnlyAgedKeysRotate

(* An instance that is up loads keys only in the order they were written.  *)
THEOREM KeysOnlyAdvance == KeystoreSpec => NeverBackToOldKeys
<1>1. ASSUME KeystoreInv, KeystoreNext, NEW i \in Instances, status[i] = "up", status'[i] = "up"
      PROVE  loaded'[i] >= loaded[i]
  <2>1. \A k \in Instances : loaded[k] \in Nat
    BY <1>1 DEF KeystoreInv, Copies
  <2>2. CASE loaded' = loaded
    BY <2>1, <2>2
  <2>3. CASE \E k \in Instances : ensureRead(k) \/ ensureWrite(k)
    <3>1. PICK k \in Instances : ensureRead(k) \/ ensureWrite(k)
      BY <2>3
    <3>2. k # i
      BY <1>1, <3>1 DEF ensureRead, ensureWrite
    <3>3. loaded'[i] = loaded[i]
      BY <1>1, <3>1, <3>2 DEF ensureRead, ensureWrite, Load, copyVars, KeystoreInv, Copies
    <3>4. QED
      BY <2>1, <3>3
  <2>4. CASE \E k \in Instances : pollReload(k)
    <3>1. PICK k \in Instances : pollReload(k)
      BY <2>4
    <3>2. /\ poll' \in {poll, [poll EXCEPT ![k] = "idle"]} /\ UNCHANGED <<version, status>>
          /\ \/ StartReload(k, Poller(k)) /\ loaded' = loaded
             \/ EndReload(k, Poller(k))
      BY <3>1 DEF pollReload, vaultVars, copyVars
    <3>3. QED
      BY <1>1, <2>2, <3>2, ReloadStep
  <2>5. CASE \E p \in Jobs : rotateReload(p)
    <3>1. PICK p \in Jobs : rotateReload(p)
      BY <2>5
    <3>2. /\ poll' \in {poll, [poll EXCEPT ![home(p)] = "idle"]} /\ UNCHANGED <<version, status>>
          /\ \/ StartReload(home(p), p) /\ loaded' = loaded
             \/ EndReload(home(p), p)
          /\ home(p) \in Instances
      BY <3>1, HomesAre DEF rotateReload, vaultVars, copyVars, pollVars
    <3>3. QED
      BY <1>1, <2>2, <3>2, ReloadStep
  <2>6. CASE \E k \in Instances : \/ startScheduler(k) \/ schedulerFails(k) \/ readHead(k)
                                 \/ compareHead(k) \/ pollReloadFails(k) \/ Crash(k)
    BY <2>2, <2>6 DEF startScheduler, schedulerFails, readHead, compareHead, pollReloadFails, Crash,
                      copyVars
  <2>7. CASE \E p \in Jobs : tick(p) \/ acquireImmediately(p) \/ ageAgain(p) \/ rotateRead(p)
    BY <2>2, <2>7 DEF tick, acquireImmediately, ageAgain, rotateRead, SameButJobs, copyVars
  <2>8. CASE \E p \in Jobs : rotateWrite(p) \/ rotateFails(p)
    BY <2>2, <2>8 DEF rotateWrite, rotateFails, copyVars
  <2>9. CASE \E p \in Manual, keep \in HandKeeps : rotateByHand(p, keep)
    BY <2>2, <2>9 DEF rotateByHand, SameButJobs, copyVars
  <2>10. CASE lockExpires \/ Age
    BY <2>2, <2>10 DEF lockExpires, Age, copyVars
  <2>11. QED
    BY <1>1, <2>3, <2>4, <2>5, <2>6, <2>7, <2>8, <2>9, <2>10 DEF KeystoreNext, Boot, Poll, Rotate
<1>2. KeystoreInv /\ [KeystoreNext]_keystoreVars =>
        [\A i \in Instances :
           status[i] = "up" /\ status'[i] = "up" => loaded'[i] >= loaded[i]]_keystoreVars
  BY <1>1
<1>3. QED
  BY <1>2, KeystoreInvariantHolds, PTL DEF KeystoreSpec, NeverBackToOldKeys
===========================================================================
