------------------------ MODULE BrowserSessionProofs ------------------------
(***************************************************************************)
(* What holds of BrowserSession for every number of requests, accounts and *)
(* links, and for every grace, idle and link time.                         *)
(***************************************************************************)
EXTENDS BrowserSession, TLAPS

(* At time t, with proofs p: a mark of sudo is not from the future, and    *)
(* its account's owner proved to be there then or later.                   *)
MarkIsProved(d, t, p) ==
  d.sudo.at # Never => d.sudo.of \in Accounts /\ d.sudo.at <= t /\ p[d.sudo.of] >= d.sudo.at

(* With links mailed as in m: a pending link went to the account it is     *)
(* pending for.                                                            *)
LinkIsMailed(d, m) ==
  d.link.of # Nobody => d.link.no \in Links /\ m[d.link.no] = d.link.of

(* Without an impersonator left behind, the impersonator is who logged in, *)
(* and without any impersonator the account is.                            *)
HumanIsThere(d) ==
  ~d.left => /\ d.impersonator # Nobody => d.impersonator = d.human
             /\ d.impersonator = Nobody /\ d.account # Nobody => d.account = d.human

Sound(d, t, p, m) ==
  d \in Data /\ MarkIsProved(d, t, p) /\ LinkIsMailed(d, m) /\ HumanIsThere(d)

SoundNow(d) == Sound(d, now, proved, mailed)

IInv ==
  /\ TypeOK
  /\ SoundNow(session)
  /\ \A r \in Requests : SoundNow(req[r].data)

---------------------------------------------------------------------------
(* What a handler may record of its request: proofs only of the present,   *)
(* links only in unused numbers.                                           *)
Records ==
  /\ now' = now
  /\ mailed' \in [Links -> Someone]
  /\ proved' \in [Accounts -> Times \cup {Never}]
  /\ accepted' \in [Links -> 0..2]
  /\ \A a \in Accounts : proved'[a] \in {proved[a], now}
  /\ \A n \in Links : mailed[n] # Nobody => mailed'[n] = mailed[n]

(* Data once sound stays so.                                               *)
LEMMA SoundStays ==
  ASSUME TypeOK, Records, NEW d, SoundNow(d)
  PROVE  Sound(d, now', proved', mailed')
<1>1. d \in Data /\ now \in Int /\ d.sudo.at \in Int
  BY DEF SoundNow, Sound, TypeOK, Times, Data, Never
<1>2. MarkIsProved(d, now', proved')
  <2>1. SUFFICES ASSUME d.sudo.at # Never
                 PROVE  /\ d.sudo.of \in Accounts /\ d.sudo.at <= now
                        /\ proved'[d.sudo.of] >= d.sudo.at
    BY DEF MarkIsProved, Records
  <2>2. d.sudo.of \in Accounts /\ d.sudo.at <= now /\ proved[d.sudo.of] >= d.sudo.at
    BY <2>1 DEF SoundNow, Sound, MarkIsProved
  <2>3. proved'[d.sudo.of] = proved[d.sudo.of] \/ proved'[d.sudo.of] = now
    BY <2>2 DEF Records
  <2>4. QED
    BY <1>1, <2>2, <2>3
<1>3. LinkIsMailed(d, mailed')
  BY DEF SoundNow, Sound, LinkIsMailed, Records
<1>4. QED
  BY <1>1, <1>2, <1>3 DEF SoundNow, Sound

(* The step of a handler whose answer is sound.                            *)
LEMMA AnswerStep ==
  ASSUME IInv, Records, NEW r \in Requests, NEW data, Answer(r, data),
         Sound(data, now', proved', mailed')
  PROVE  IInv'
<1>1. TypeOK /\ data \in Data
  BY DEF IInv, Sound
<1>2. TypeOK'
  BY <1>1, TimesAssumption DEF TypeOK, Answer, Records
<1>3. SoundNow(session)'
  <2>1. session' = session
    BY DEF Answer
  <2>2. Sound(session, now', proved', mailed')
    BY <1>1, SoundStays DEF IInv
  <2>3. QED
    BY <2>1, <2>2 DEF SoundNow
<1>4. ASSUME NEW q \in Requests PROVE SoundNow(req[q].data)'
  <2>1. CASE q = r
    <3>1. req'[q].data = data
      BY <1>1, <2>1 DEF Answer, TypeOK
    <3>2. QED
      BY <3>1 DEF SoundNow
  <2>2. CASE q # r
    <3>1. req'[q].data = req[q].data
      BY <1>1, <2>2 DEF Answer, TypeOK
    <3>2. Sound(req[q].data, now', proved', mailed')
      BY <1>1, SoundStays DEF IInv
    <3>3. QED
      BY <3>1, <3>2 DEF SoundNow
  <2>3. QED
    BY <2>1, <2>2
<1>5. QED
  BY <1>2, <1>3, <1>4 DEF IInv

---------------------------------------------------------------------------
(* The data the handlers answer with.                                      *)
LEMMA PlainAnswers ==
  ASSUME IInv, UNCHANGED <<now, mailed, proved, accepted>>
  PROVE  /\ Records
         /\ \A d : SoundNow(d) => Sound(d, now', proved', mailed')
<1>1. Records
  BY DEF IInv, TypeOK, Records
<1>2. QED
  BY <1>1, SoundStays DEF IInv

LEMMA LoginSound ==
  ASSUME IInv, NEW a \in Accounts, NEW r \in Requests, login(r, a)
  PROVE  IInv'
<1> DEFINE d == markSudo([session EXCEPT !.account = a, !.human = a,
                                        !.left = (session.impersonator # Nobody)])
<1>1. Answer(r, d) /\ Proves(a) /\ UNCHANGED <<mailed, accepted>>
  BY DEF login
<1>2. now' = now /\ now \in Times /\ session \in Data /\ Nobody \notin Accounts /\ now # Never
  BY <1>1, AccountsAssumption DEF Answer, IInv, TypeOK, Times, Never
<1>3. proved' = [proved EXCEPT ![a] = now] /\ proved \in [Accounts -> Times \cup {Never}]
  BY <1>1 DEF Proves, IInv, TypeOK
<1>4. Records
  BY <1>1, <1>2, <1>3 DEF Records, IInv, TypeOK
<1>5. d \in Data
  BY <1>2 DEF Data, markSudo, Mark, Someone
<1>6. MarkIsProved(d, now', proved')
  BY <1>2, <1>3 DEF MarkIsProved, markSudo, Mark, Times, Data
<1>7. LinkIsMailed(d, mailed') /\ HumanIsThere(d)
  BY <1>1, <1>2 DEF IInv, SoundNow, Sound, LinkIsMailed, HumanIsThere, markSudo, Mark, Data
<1>8. QED
  BY <1>1, <1>4, <1>5, <1>6, <1>7, AnswerStep DEF Sound

(* Handlers that record nothing and leave sudo and the link of the data as *)
(* they were.                                                              *)
LEMMA PlainSound ==
  ASSUME IInv, NEW r \in Requests, NEW data \in Data, Answer(r, data),
         data.sudo = session.sudo, data.link \in {session.link, NoLink}, HumanIsThere(data),
         UNCHANGED <<mailed, proved, accepted>>
  PROVE  IInv'
<1>1. Records
  BY DEF Records, IInv, TypeOK, Answer
<1>2. Sound(data, now', proved', mailed')
  BY <1>1 DEF Answer, IInv, SoundNow, Sound, MarkIsProved, LinkIsMailed, NoLink, Pending
<1>3. QED
  BY <1>1, <1>2, AnswerStep

LEMMA PlainHandlers ==
  ASSUME IInv, NEW r \in Requests,
         \/ logout(r) \/ stopImpersonation(r) \/ checkAndRefreshIdle(r) \/ visit(r)
         \/ \E a \in Accounts : startImpersonation(r, a)
  PROVE  IInv'
<1>1. session \in Data /\ now \in Times /\ Nobody \notin Accounts /\ HumanIsThere(session)
  BY AccountsAssumption DEF IInv, TypeOK, SoundNow, Sound
<1>2. CASE logout(r)
  <2> DEFINE d == [session EXCEPT !.account = Nobody]
  <2>1. d \in Data /\ HumanIsThere(d) /\ d.sudo = session.sudo /\ d.link = session.link
    BY <1>1 DEF Data, HumanIsThere, Someone
  <2>2. Answer(r, d) /\ UNCHANGED <<mailed, proved, accepted>>
    BY <1>2 DEF logout
  <2> HIDE DEF d
  <2>3. QED
    BY <2>1, <2>2, PlainSound
<1>3. CASE stopImpersonation(r)
  <2> DEFINE d == [session EXCEPT !.account = session.impersonator, !.impersonator = Nobody]
  <2>1. d \in Data /\ HumanIsThere(d) /\ d.sudo = session.sudo /\ d.link = session.link
    BY <1>1, <1>3 DEF Data, HumanIsThere, Someone, stopImpersonation
  <2>2. Answer(r, d) /\ UNCHANGED <<mailed, proved, accepted>>
    BY <1>3 DEF stopImpersonation
  <2> HIDE DEF d
  <2>3. QED
    BY <2>1, <2>2, PlainSound
<1>4. CASE checkAndRefreshIdle(r)
  <2> DEFINE d == [session EXCEPT !.account = Nobody, !.lastSeen = Never]
  <2>1. d \in Data /\ HumanIsThere(d) /\ d.sudo = session.sudo /\ d.link = session.link
    BY <1>1 DEF Data, HumanIsThere, Someone
  <2>2. Answer(r, d) /\ UNCHANGED <<mailed, proved, accepted>>
    BY <1>4 DEF checkAndRefreshIdle
  <2> HIDE DEF d
  <2>3. QED
    BY <2>1, <2>2, PlainSound
<1>5. CASE visit(r)
  <2>1. Seen \in Data /\ HumanIsThere(Seen) /\ Seen.sudo = session.sudo /\ Seen.link = session.link
    BY <1>1 DEF Data, HumanIsThere, Seen
  <2>2. QED
    BY <1>5, <2>1, PlainSound DEF visit
<1>6. ASSUME NEW a \in Accounts, startImpersonation(r, a) PROVE IInv'
  <2> DEFINE d == [session EXCEPT !.impersonator = session.account, !.account = a]
  <2>1. d \in Data /\ HumanIsThere(d) /\ d.sudo = session.sudo /\ d.link = session.link
    BY <1>1, <1>6 DEF Data, HumanIsThere, Someone, startImpersonation
  <2>2. Answer(r, d) /\ UNCHANGED <<mailed, proved, accepted>>
    BY <1>6 DEF startImpersonation
  <2> HIDE DEF d
  <2>3. QED
    BY <2>1, <2>2, PlainSound
<1>7. QED
  BY <1>2, <1>3, <1>4, <1>5, <1>6

(* Handlers that mark sudo for the account in the session, which its owner *)
(* has just proved to be there.                                            *)
LEMMA MarkSound ==
  ASSUME IInv, NEW r \in Requests, NEW base \in Data, Answer(r, markSudo(base)), Proves(base.account),
         base.account \in Accounts, base.link \in {session.link, NoLink}, HumanIsThere(base),
         mailed' = mailed, accepted' \in [Links -> 0..2]
  PROVE  IInv'
<1>1. now' = now /\ now \in Times /\ proved \in [Accounts -> Times \cup {Never}]
  BY DEF Answer, IInv, TypeOK
<1>2. proved' = [proved EXCEPT ![base.account] = now]
  BY DEF Proves
<1>3. Records
  BY <1>1, <1>2 DEF Records, IInv, TypeOK
<1>4. /\ markSudo(base) \in Data
      /\ markSudo(base).sudo = Mark(base.account, now)
      /\ markSudo(base).link = base.link
      /\ HumanIsThere(markSudo(base))
  BY <1>1 DEF Data, markSudo, Mark, Someone, HumanIsThere
<1>5. MarkIsProved(markSudo(base), now', proved')
  BY <1>1, <1>2, <1>4 DEF MarkIsProved, Mark, Times
<1>6. LinkIsMailed(markSudo(base), mailed')
  BY <1>4 DEF LinkIsMailed, NoLink, Pending, IInv, SoundNow, Sound
<1>7. QED
  BY <1>3, <1>4, <1>5, <1>6, AnswerStep DEF Sound

LEMMA SeenType ==
  ASSUME IInv
  PROVE  /\ Seen \in Data /\ HumanIsThere(Seen)
         /\ Seen.sudo = session.sudo /\ Seen.link = session.link /\ Seen.account = session.account
         /\ Passes => session.account \in Accounts
<1>1. session \in Data /\ now \in Times /\ HumanIsThere(session)
  BY DEF IInv, TypeOK, SoundNow, Sound
<1>2. Seen \in Data /\ Seen.sudo = session.sudo /\ Seen.link = session.link /\ Seen.account = session.account
  BY <1>1 DEF Seen, Data
<1>3. HumanIsThere(Seen)
  BY <1>1 DEF Seen, Data, HumanIsThere
<1>4. Passes => session.account \in Accounts
  BY <1>1 DEF Passes, Data, Someone
<1>5. QED
  BY <1>2, <1>3, <1>4

LEMMA ConfirmSound ==
  ASSUME IInv, NEW r \in Requests, confirmPassword(r)
  PROVE  IInv'
<1>1. accepted' \in [Links -> 0..2]
  BY DEF confirmPassword, IInv, TypeOK
<1>2. QED
  BY <1>1, SeenType, MarkSound DEF confirmPassword

LEMMA IssueSound ==
  ASSUME IInv, NEW r \in Requests, issueSudoLinkToken(r)
  PROVE  IInv'
<1>1. session.account \in Accounts /\ Nobody \notin Accounts
  BY SeenType, AccountsAssumption DEF issueSudoLinkToken
<1>2. ASSUME NEW n \in Links, mailed[n] = Nobody, mailed' = [mailed EXCEPT ![n] = session.account],
             Answer(r, [Seen EXCEPT !.link = Pending(session.account, n, now + LinkTTL)]),
             UNCHANGED <<proved, accepted>>
      PROVE  IInv'
  <2> DEFINE d == [Seen EXCEPT !.link = Pending(session.account, n, now + LinkTTL)]
  <2>1. mailed \in [Links -> Someone] /\ now \in Times /\ MaxTime \in Nat /\ LinkTTL \in Nat
    BY TimesAssumption DEF IInv, TypeOK
  <2>2. now + LinkTTL \in Never..(MaxTime + LinkTTL)
    BY <2>1 DEF Times, Never
  <2>3. Records
    BY <1>1, <1>2, <2>1 DEF Records, IInv, TypeOK, Answer, Someone
  <2>4. d \in Data /\ HumanIsThere(d) /\ d.sudo = session.sudo
    BY <1>1, <2>2, SeenType DEF Data, HumanIsThere, Pending, Someone
  <2>5. d.link = Pending(session.account, n, now + LinkTTL)
    BY SeenType DEF Data
  <2>6. LinkIsMailed(d, mailed')
    BY <1>2, <2>1, <2>5 DEF LinkIsMailed, Pending
  <2>7. MarkIsProved(d, now', proved')
    BY <1>2, <2>4 DEF MarkIsProved, Answer, IInv, SoundNow, Sound
  <2>8. Answer(r, d)
    BY <1>2
  <2> HIDE DEF d
  <2>9. QED
    BY <2>3, <2>4, <2>6, <2>7, <2>8, AnswerStep DEF Sound
<1>3. ASSUME Answer(r, [Seen EXCEPT !.link = NoLink]), UNCHANGED <<mailed, proved, accepted>>
      PROVE  IInv'
  <2> DEFINE d == [Seen EXCEPT !.link = NoLink]
  <2>1. d \in Data /\ HumanIsThere(d) /\ d.sudo = session.sudo /\ d.link = NoLink
    BY SeenType, TimesAssumption DEF Data, HumanIsThere, NoLink, Pending, Someone, Never
  <2>2. Answer(r, d)
    BY <1>3
  <2> HIDE DEF d
  <2>3. QED
    BY <1>3, <2>1, <2>2, PlainSound
<1>4. QED
  BY <1>2, <1>3 DEF issueSudoLinkToken

(* A link that is accepted was mailed to the account in the session.       *)
LEMMA VerifiedLink ==
  ASSUME IInv, NEW n \in Links, verifySudoLinkToken(n)
  PROVE  mailed[n] = session.account
BY DEF verifySudoLinkToken, IInv, SoundNow, Sound, LinkIsMailed

LEMMA FollowSound ==
  ASSUME IInv, NEW r \in Requests, NEW n \in Links, followLink(r, n)
  PROVE  IInv'
<1> DEFINE d == [Seen EXCEPT !.link = NoLink]
<1>1. /\ d \in Data /\ HumanIsThere(d) /\ d.sudo = session.sudo /\ d.link = NoLink
      /\ d.account = session.account /\ session.account \in Accounts
  BY SeenType, TimesAssumption DEF followLink, Data, HumanIsThere, NoLink, Pending, Someone, Never
<1>2. mailed' = mailed
  BY DEF followLink
<1>3. CASE verifySudoLinkToken(n)
  <2>1. Answer(r, markSudo(d)) /\ Accepts(n)
    BY <1>3 DEF followLink
  <2>2. mailed[n] = d.account
    BY <1>1, <1>3, VerifiedLink
  <2>3. accepted' \in [Links -> 0..2]
    BY <2>1 DEF Accepts, IInv, TypeOK
  <2>4. Proves(d.account)
    BY <2>1, <2>2 DEF Accepts
  <2> HIDE DEF d
  <2>5. QED
    BY <1>1, <1>2, <2>1, <2>3, <2>4, MarkSound
<1>4. CASE ~verifySudoLinkToken(n)
  <2>1. Answer(r, d) /\ UNCHANGED <<mailed, proved, accepted>>
    BY <1>2, <1>4 DEF followLink
  <2> HIDE DEF d
  <2>2. QED
    BY <1>1, <2>1, PlainSound
<1>5. QED
  BY <1>3, <1>4

---------------------------------------------------------------------------
LEMMA CommitSound ==
  ASSUME IInv, NEW r \in Requests, commit(r)
  PROVE  IInv'
<1>1. UNCHANGED <<now, mailed, proved, accepted>> /\ session' = req[r].data /\ Empty \in Data
  BY TimesAssumption
  DEF commit, Empty, NoMark, Mark, NoLink, Pending, Data, Someone, Never
<1>2. \A d : SoundNow(d) <=> SoundNow(d)'
  BY <1>1 DEF SoundNow
<1>3. SoundNow(Empty)
  BY <1>1 DEF SoundNow, Sound, Empty, NoMark, Mark, NoLink, Pending, MarkIsProved, LinkIsMailed, HumanIsThere
<1>4. SoundNow(session)'
  BY <1>1, <1>2 DEF IInv
<1>5. ASSUME NEW q \in Requests
      PROVE  /\ req'[q] \in [busy : BOOLEAN, stale : BOOLEAN, data : Data]
             /\ req'[q].data = Empty \/ req'[q].data = req[q].data
  <2>1. req'[q] = Free \/ req'[q] = [req[q] EXCEPT !.stale = TRUE]
    BY DEF commit
  <2>2. req[q] \in [busy : BOOLEAN, stale : BOOLEAN, data : Data]
    BY DEF IInv, TypeOK
  <2>3. CASE req'[q] = Free
    BY <1>1, <2>3 DEF Free
  <2>4. CASE req'[q] = [req[q] EXCEPT !.stale = TRUE]
    BY <2>2, <2>4
  <2>5. QED
    BY <2>1, <2>3, <2>4
<1>6. \A q \in Requests : SoundNow(req[q].data)'
  BY <1>1, <1>3, <1>5 DEF IInv, SoundNow
<1>7. TypeOK'
  <2>1. req' \in [Requests -> [busy : BOOLEAN, stale : BOOLEAN, data : Data]]
    BY <1>5 DEF commit
  <2>2. raced' \in BOOLEAN /\ answers' = answers
    BY DEF commit, IInv, TypeOK
  <2>3. session' \in Data
    BY <1>1 DEF IInv, TypeOK
  <2>4. QED
    BY <1>1, <2>1, <2>2, <2>3 DEF IInv, TypeOK
<1>8. QED
  BY <1>4, <1>6, <1>7 DEF IInv

LEMMA TickSound ==
  ASSUME IInv, Tick
  PROVE  IInv'
<1>1. /\ now' = now + 1 /\ now \in Int /\ MaxTime \in Nat /\ now' \in Times
      /\ UNCHANGED <<session, req, mailed, proved, accepted, raced, answers>>
  BY TimesAssumption DEF Tick, IInv, TypeOK, Times
<1>2. ASSUME NEW d, SoundNow(d) PROVE Sound(d, now', proved', mailed')
  <2>1. d.sudo.at \in Int
    BY <1>2 DEF SoundNow, Sound, Data, Times, Never
  <2>2. QED
    BY <1>1, <1>2, <2>1 DEF SoundNow, Sound, MarkIsProved
<1>3. SoundNow(session)' /\ \A q \in Requests : SoundNow(req[q].data)'
  BY <1>1, <1>2 DEF IInv, SoundNow
<1>4. TypeOK'
  BY <1>1 DEF IInv, TypeOK
<1>5. QED
  BY <1>3, <1>4 DEF IInv

LEMMA InitSound == Init => IInv
<1> SUFFICES ASSUME Init PROVE IInv
  OBVIOUS
<1>1. Empty \in Data
  BY TimesAssumption DEF Empty, NoMark, Mark, NoLink, Pending, Data, Someone, Never
<1>2. SoundNow(Empty)
  BY <1>1 DEF SoundNow, Sound, Empty, NoMark, Mark, NoLink, Pending, MarkIsProved, LinkIsMailed, HumanIsThere
<1>3. TypeOK
  <2>1. Free \in [busy : BOOLEAN, stale : BOOLEAN, data : Data]
    BY <1>1 DEF Free
  <2>2. req \in [Requests -> [busy : BOOLEAN, stale : BOOLEAN, data : Data]]
    BY <2>1 DEF Init
  <2>3. MaxTime \in Nat /\ MaxAnswers \in Nat
    BY TimesAssumption
  <2>4. now = 0 /\ answers = 0
    BY DEF Init
  <2>5. now \in Times /\ answers \in 0..MaxAnswers
    BY <2>3, <2>4 DEF Times
  <2>6. raced \in BOOLEAN /\ session \in Data
    BY <1>1, Zenon DEF Init
  <2>7. mailed \in [Links -> Someone] /\ proved \in [Accounts -> Times \cup {Never}]
    BY DEF Init, Someone
  <2>8. accepted \in [Links -> 0..2]
    BY DEF Init
  <2>9. QED
    BY <2>2, <2>5, <2>6, <2>7, <2>8 DEF TypeOK
<1>4. session = Empty /\ \A r \in Requests : req[r].data = Empty
  BY DEF Init, Free
<1>5. QED
  BY <1>2, <1>3, <1>4 DEF IInv

LEMMA HandleSound ==
  ASSUME IInv, NEW r \in Requests, Handle(r)
  PROVE  IInv'
<1>1. CASE \E a \in Accounts : login(r, a)
  BY <1>1, LoginSound
<1>2. CASE \/ logout(r) \/ stopImpersonation(r) \/ checkAndRefreshIdle(r) \/ visit(r)
           \/ \E a \in Accounts : startImpersonation(r, a)
  BY <1>2, PlainHandlers
<1>3. CASE confirmPassword(r)
  BY <1>3, ConfirmSound
<1>4. CASE issueSudoLinkToken(r)
  BY <1>4, IssueSound
<1>5. CASE \E n \in Links : followLink(r, n)
  BY <1>5, FollowSound
<1>6. QED
  BY <1>1, <1>2, <1>3, <1>4, <1>5 DEF Handle

LEMMA StutterSound ==
  ASSUME IInv, UNCHANGED vars
  PROVE  IInv'
BY DEF IInv, vars, TypeOK, SoundNow

(* The data of the session and of every request is sound: marks are        *)
(* proved, links are mailed, and who is there is who logged in.            *)
THEOREM InvariantHolds == Spec => []IInv
<1>1. Init => IInv
  BY InitSound
<1>2. IInv /\ [Next]_vars => IInv'
  BY TickSound, HandleSound, CommitSound, StutterSound DEF Next
<1>3. QED
  BY <1>1, <1>2, PTL DEF Spec

---------------------------------------------------------------------------
(* Every reachable session, request and history is of its type.            *)
THEOREM TypeCorrect == Spec => []TypeOK
<1>1. IInv => TypeOK
  BY DEF IInv
<1>2. QED
  BY <1>1, InvariantHolds, PTL

(* Sudo is active only for an account whose owner proved to be there       *)
(* within the grace, for any number of overlapping requests.               *)
THEOREM SudoNeverInherited == Spec => []SudoIsOwn
<1>1. ASSUME IInv, NEW d \in Copies, isSudoActive(d, now)
      PROVE  proved[d.account] # Never /\ now - proved[d.account] <= Grace
  <2>1. SoundNow(d)
    BY <1>1 DEF Copies, IInv
  <2>2. d.sudo.at \in Times /\ d.sudo.of = d.account /\ now - d.sudo.at <= Grace
    BY <1>1, <2>1 DEF isSudoActive, SoundNow, Sound, Data
  <2>3. d.account \in Accounts /\ proved[d.account] >= d.sudo.at
    BY <1>1, <2>1, <2>2 DEF SoundNow, Sound, MarkIsProved, isSudoActive
  <2>4. proved[d.account] \in Int /\ now \in Int /\ d.sudo.at \in Nat /\ Grace \in Nat
    BY <1>1, <2>2, <2>3, TimesAssumption DEF IInv, TypeOK, Times, Never
  <2>5. QED
    BY <2>2, <2>3, <2>4 DEF Never
<1>2. IInv => SudoIsOwn
  BY <1>1 DEF SudoIsOwn
<1>3. QED
  BY <1>2, InvariantHolds, PTL

(* Who is really there is who logged in, through any sequence of logins,   *)
(* impersonations and timeouts that finds no impersonator left behind.     *)
THEOREM RealAccountIsHuman == Spec => []RealAccountLoggedIn
<1>1. IInv => RealAccountLoggedIn
  BY DEF IInv, SoundNow, Sound, HumanIsThere, RealAccountLoggedIn, Copies, realAccountId
<1>2. QED
  BY <1>1, InvariantHolds, PTL

(* A confirmation link gives sudo to the account it was mailed to only.    *)
THEOREM LinkServesItsReader == Spec => LinkConfirmsItsReader
<1>1. ASSUME IInv, [Next]_vars, NEW n \in Links, accepted'[n] # accepted[n]
      PROVE  \E r \in Requests : /\ req'[r].data.account = mailed[n]
                                 /\ req'[r].data.sudo = Mark(mailed[n], now)
  <2>1. PICK r \in Requests, k \in Links : followLink(r, k) /\ accepted' # accepted
    BY <1>1 DEF Next, vars, Tick, commit, Handle, login, logout, startImpersonation, stopImpersonation,
                checkAndRefreshIdle, visit, confirmPassword, issueSudoLinkToken
  <2> DEFINE d == [Seen EXCEPT !.link = NoLink]
  <2>2. verifySudoLinkToken(k) /\ Answer(r, markSudo(d)) /\ Accepts(k)
    BY <2>1 DEF followLink
  <2>3. k = n
    BY <1>1, <2>2 DEF Accepts, IInv, TypeOK
  <2>4. mailed[n] = session.account
    BY <1>1, <2>2, <2>3, VerifiedLink
  <2>5. d \in [account : Someone, impersonator : Someone,
               sudo : [of : Someone, at : Times \cup {Never}],
               link : {NoLink}, lastSeen : Times \cup {Never}, human : Someone, left : BOOLEAN]
        /\ d.account = session.account
    BY <1>1, SeenType DEF Data
  <2>6. /\ markSudo(d).account = session.account
        /\ markSudo(d).sudo = Mark(session.account, now)
    BY <2>5 DEF markSudo
  <2>7. req'[r].data = markSudo(d)
    BY <1>1, <2>2 DEF Answer, IInv, TypeOK
  <2>8. QED
    BY <2>4, <2>6, <2>7
<1>2. IInv /\ [Next]_vars => [\A n \in Links :
       accepted'[n] # accepted[n] =>
         \E r \in Requests : req'[r].data.account = mailed[n]
                           /\ req'[r].data.sudo = Mark(mailed[n], now)]_vars
  BY <1>1
<1>3. QED
  BY <1>2, InvariantHolds, PTL DEF Spec, LinkConfirmsItsReader

---------------------------------------------------------------------------
(* A link that was accepted is not in the data of whoever comes next: that *)
(* of the request under way or, without one, that of the store.            *)
Holds(d, n) == d.link.of # Nobody /\ d.link.no = n

Forgotten(n) ==
  /\ \A r \in Requests : req[r].busy => ~Holds(req[r].data, n)
  /\ (\A r \in Requests : ~req[r].busy) => ~Holds(session, n)

LinkInv ==
  /\ \A r \in Requests : req[r].stale => req[r].busy
  /\ \A n \in Links : accepted[n] > 0 => mailed[n] # Nobody
  /\ ~Overlapping => \A n \in Links : accepted[n] <= 1 /\ (accepted[n] = 1 => Forgotten(n))

(* Requests that overlapped, or that wrote over another one, stay known.   *)
LEMMA OverlapStays ==
  ASSUME TypeOK, LinkInv, [Next]_vars, Overlapping
  PROVE  Overlapping'
<1>1. req \in [Requests -> [busy : BOOLEAN, stale : BOOLEAN, data : Data]]
  BY DEF TypeOK
<1>2. ASSUME NEW r \in Requests, commit(r) PROVE Overlapping'
  <2>1. /\ req[r].busy /\ raced' = (raced \/ req[r].stale)
        /\ \A q \in Requests : q # r /\ req[q].busy => req'[q] = [req[q] EXCEPT !.stale = TRUE]
    BY <1>2 DEF commit
  <2>2. \A q \in Requests : q # r /\ req[q].busy => req'[q].stale
    BY <1>1, <2>1
  <2>3. CASE raced
    BY <2>1, <2>3 DEF Overlapping
  <2>4. CASE \E q \in Requests : req[q].stale
    BY <2>1, <2>2, <2>4 DEF Overlapping, LinkInv
  <2>5. CASE \E p, q \in Requests : p # q /\ req[p].busy /\ req[q].busy
    BY <2>2, <2>5 DEF Overlapping
  <2>6. QED
    BY <2>3, <2>4, <2>5 DEF Overlapping
<1>3. ASSUME NEW r \in Requests, NEW data, Answer(r, data) PROVE Overlapping'
  <2>1. /\ ~req[r].busy /\ ~req[r].stale /\ raced' = raced
        /\ \A q \in Requests : q # r => req'[q] = req[q]
    BY <1>1, <1>3 DEF Answer, Free
  <2>2. QED
    BY <2>1 DEF Overlapping
<1>4. ASSUME NEW r \in Requests, Handle(r) PROVE \E data : Answer(r, data)
  BY <1>4, Zenon
  DEF Handle, login, logout, startImpersonation, stopImpersonation, checkAndRefreshIdle, visit,
      confirmPassword, issueSudoLinkToken, followLink
<1>5. CASE Tick \/ UNCHANGED vars
  BY <1>5 DEF Tick, vars, Overlapping
<1>6. QED
  BY <1>2, <1>3, <1>4, <1>5 DEF Next

(* The step of a handler: alone, it answers with a link that was in the    *)
(* store and was not accepted, or with a new one, or with none.            *)
LEMMA LinkAnswer ==
  ASSUME TypeOK, LinkInv, [Next]_vars, NEW r \in Requests, NEW data, Answer(r, data),
         \A n \in Links : mailed[n] # Nobody => mailed'[n] # Nobody,
         \A n \in Links : \/ accepted'[n] = accepted[n]
                          \/ /\ Holds(session, n) /\ accepted'[n] = accepted[n] + 1
                             /\ mailed'[n] # Nobody /\ ~Holds(data, n),
         \A n \in Links : Holds(data, n) => Holds(session, n) \/ mailed[n] = Nobody
  PROVE  LinkInv'
<1>1. /\ req \in [Requests -> [busy : BOOLEAN, stale : BOOLEAN, data : Data]]
      /\ \A n \in Links : accepted[n] \in Nat
  BY DEF TypeOK
<1>2. /\ req'[r].busy /\ ~req'[r].stale /\ req'[r].data = data
      /\ \A q \in Requests : q # r => req'[q] = req[q]
  BY <1>1 DEF Answer
<1>3. \A q \in Requests : req'[q].stale => req'[q].busy
  BY <1>2 DEF LinkInv
<1>4. \A n \in Links : accepted'[n] > 0 => mailed'[n] # Nobody
  BY <1>1 DEF LinkInv
<1>5. ASSUME ~(Overlapping'), NEW n \in Links
      PROVE  accepted'[n] <= 1 /\ (accepted'[n] = 1 => Forgotten(n)')
  <2>1. ~Overlapping
    BY <1>5, OverlapStays
  <2>2. \A q \in Requests : ~req[q].busy
    BY <1>1, <1>2, <1>5 DEF Overlapping, Answer, Free
  <2>3. \A q \in Requests : q # r => ~req'[q].busy
    BY <1>2, <2>2
  <2>4. accepted[n] <= 1 /\ (accepted[n] = 1 => ~Holds(session, n))
    BY <2>1, <2>2 DEF LinkInv, Forgotten
  <2>5. accepted[n] > 0 => mailed[n] # Nobody
    BY DEF LinkInv
  <2>6. accepted'[n] <= 1 /\ (accepted'[n] = 1 => ~Holds(data, n))
    BY <1>1, <2>4, <2>5
  <2>7. Forgotten(n)' <=> ~Holds(data, n)
    BY <1>2, <2>3 DEF Forgotten, Holds
  <2>8. QED
    BY <2>6, <2>7
<1>6. QED
  BY <1>3, <1>4, <1>5 DEF LinkInv

(* Handlers that issue and follow no link.                                 *)
LEMMA PlainLinks ==
  ASSUME TypeOK, LinkInv, [Next]_vars, NEW r \in Requests, NEW data, Answer(r, data),
         data.link \in {session.link, NoLink}, UNCHANGED <<mailed, accepted>>
  PROVE  LinkInv'
<1>1. \A n : Holds(data, n) => Holds(session, n)
  BY DEF Holds, NoLink, Pending
<1>2. QED
  BY <1>1, LinkAnswer

LEMMA SameLinks ==
  ASSUME IInv, LinkInv, [Next]_vars, NEW r \in Requests,
         \/ \E a \in Accounts : login(r, a) \/ startImpersonation(r, a)
         \/ logout(r) \/ stopImpersonation(r)
         \/ checkAndRefreshIdle(r) \/ visit(r) \/ confirmPassword(r)
  PROVE  LinkInv'
<1>1. TypeOK /\ session \in Data
  BY DEF IInv, TypeOK
<1>2. UNCHANGED <<mailed, accepted>>
  BY DEF login, startImpersonation, logout, stopImpersonation, checkAndRefreshIdle, visit,
         confirmPassword
<1>3. Seen \in Data /\ Seen.link = session.link
  BY SeenType
<1>4. \A d \in Data : markSudo(d).link = d.link
  BY DEF Data, markSudo
<1>5. ASSUME NEW a \in Accounts, login(r, a) PROVE \E d : Answer(r, d) /\ d.link = session.link
  <2>1. PICK d : d = [session EXCEPT !.account = a, !.human = a,
                                     !.left = (session.impersonator # Nobody)]
    OBVIOUS
  <2>2. d.link = session.link /\ markSudo(d).link = d.link
    BY <1>1, <2>1 DEF Data, markSudo
  <2>3. Answer(r, markSudo(d))
    BY <1>5, <2>1 DEF login
  <2>4. QED
    BY <2>2, <2>3
<1>6. ASSUME \/ \E a \in Accounts : startImpersonation(r, a)
             \/ logout(r) \/ stopImpersonation(r) \/ checkAndRefreshIdle(r)
      PROVE  \E d : Answer(r, d) /\ d.link = session.link
  <2>1. ASSUME NEW a \in Accounts, startImpersonation(r, a)
        PROVE  \E d : Answer(r, d) /\ d.link = session.link
    <3>1. PICK d : d = [session EXCEPT !.impersonator = session.account, !.account = a]
      OBVIOUS
    <3>2. d.link = session.link
      BY <1>1, <3>1 DEF Data
    <3>3. Answer(r, d)
      BY <2>1, <3>1 DEF startImpersonation
    <3>4. QED
      BY <3>2, <3>3
  <2>2. CASE logout(r)
    <3>1. PICK d : d = [session EXCEPT !.account = Nobody]
      OBVIOUS
    <3>2. d.link = session.link
      BY <1>1, <3>1 DEF Data
    <3>3. Answer(r, d)
      BY <2>2, <3>1 DEF logout
    <3>4. QED
      BY <3>2, <3>3
  <2>3. CASE stopImpersonation(r)
    <3>1. PICK d : d = [session EXCEPT !.account = session.impersonator, !.impersonator = Nobody]
      OBVIOUS
    <3>2. d.link = session.link
      BY <1>1, <3>1 DEF Data
    <3>3. Answer(r, d)
      BY <2>3, <3>1 DEF stopImpersonation
    <3>4. QED
      BY <3>2, <3>3
  <2>4. CASE checkAndRefreshIdle(r)
    <3>1. PICK d : d = [session EXCEPT !.account = Nobody, !.lastSeen = Never]
      OBVIOUS
    <3>2. d.link = session.link
      BY <1>1, <3>1 DEF Data
    <3>3. Answer(r, d)
      BY <2>4, <3>1 DEF checkAndRefreshIdle
    <3>4. QED
      BY <3>2, <3>3
  <2>5. QED
    BY <1>6, <2>1, <2>2, <2>3, <2>4
<1>7. ASSUME visit(r) \/ confirmPassword(r) PROVE \E d : Answer(r, d) /\ d.link = session.link
  <2>1. Answer(r, Seen) \/ Answer(r, markSudo(Seen))
    BY <1>7 DEF visit, confirmPassword
  <2>2. QED
    BY <1>3, <1>4, <2>1
<1>8. PICK d : Answer(r, d) /\ d.link = session.link
  BY <1>5, <1>6, <1>7
<1>9. QED
  BY <1>1, <1>2, <1>8, PlainLinks

LEMMA IssueLinks ==
  ASSUME IInv, LinkInv, [Next]_vars, NEW r \in Requests, issueSudoLinkToken(r)
  PROVE  LinkInv'
<1>1. TypeOK /\ Seen \in Data /\ session.account \in Accounts /\ Nobody \notin Accounts
  BY SeenType, AccountsAssumption DEF IInv, issueSudoLinkToken
<1>2. accepted' = accepted
  BY DEF issueSudoLinkToken
<1>3. ASSUME NEW n \in Links, mailed[n] = Nobody, mailed' = [mailed EXCEPT ![n] = session.account],
             NEW d, d = [Seen EXCEPT !.link = Pending(session.account, n, now + LinkTTL)],
             Answer(r, d)
      PROVE  LinkInv'
  <2>1. d.link.no = n
    BY <1>1, <1>3 DEF Data, Pending
  <2>2. \A m \in Links : Holds(d, m) => mailed[m] = Nobody
    BY <1>3, <2>1 DEF Holds
  <2>3. \A m \in Links : mailed[m] # Nobody => mailed'[m] # Nobody
    BY <1>1, <1>3 DEF TypeOK
  <2>4. QED
    BY <1>1, <1>2, <1>3, <2>2, <2>3, LinkAnswer
<1>4. ASSUME NEW d, d = [Seen EXCEPT !.link = NoLink], Answer(r, d), mailed' = mailed
      PROVE  LinkInv'
  <2>1. d.link = NoLink
    BY <1>1, <1>4 DEF Data
  <2>2. QED
    BY <1>1, <1>2, <1>4, <2>1, PlainLinks
<1>5. QED
  BY <1>3, <1>4 DEF issueSudoLinkToken

(* Who follows a link forgets it.                                          *)
LEMMA FollowLinks ==
  ASSUME IInv, LinkInv, [Next]_vars, NEW r \in Requests, NEW n \in Links, followLink(r, n)
  PROVE  LinkInv'
<1>1. PICK d : d = [Seen EXCEPT !.link = NoLink]
  OBVIOUS
<1>2. /\ TypeOK /\ Seen \in Data /\ mailed[n] # Nobody /\ mailed' = mailed
      /\ accepted \in [Links -> 0..2]
  BY SeenType DEF IInv, followLink, TypeOK
<1>3. d.link = NoLink /\ markSudo(d).link = NoLink
  BY <1>1, <1>2 DEF Data, markSudo
<1>4. \A e : e.link = NoLink => \A m : ~Holds(e, m)
  BY DEF Holds, NoLink, Pending
<1>5. CASE verifySudoLinkToken(n)
  <2>1. Answer(r, markSudo(d)) /\ Accepts(n) /\ Holds(session, n)
    BY <1>1, <1>5 DEF followLink, verifySudoLinkToken, Holds
  <2>2. /\ \A m \in Links : m # n => accepted'[m] = accepted[m]
        /\ accepted'[n] = IF accepted[n] = 2 THEN 2 ELSE accepted[n] + 1
    BY <1>2, <2>1 DEF Accepts
  <2>3. accepted'[n] = accepted[n] \/ accepted'[n] = accepted[n] + 1
    BY <2>2
  <2>4. QED
    BY <1>2, <1>3, <1>4, <2>1, <2>2, <2>3, LinkAnswer
<1>6. CASE ~verifySudoLinkToken(n)
  <2>1. Answer(r, d) /\ accepted' = accepted
    BY <1>1, <1>6 DEF followLink
  <2>2. QED
    BY <1>2, <1>3, <2>1, PlainLinks
<1>7. QED
  BY <1>5, <1>6

LEMMA CommitLinks ==
  ASSUME IInv, LinkInv, [Next]_vars, NEW r \in Requests, commit(r)
  PROVE  LinkInv'
<1>1. /\ TypeOK /\ req \in [Requests -> [busy : BOOLEAN, stale : BOOLEAN, data : Data]]
  BY DEF IInv, TypeOK
<1>2. /\ req[r].busy /\ session' = req[r].data /\ UNCHANGED <<mailed, accepted>>
      /\ \A q \in Requests : req'[q] = IF q = r \/ ~req[q].busy THEN Free
                                       ELSE [req[q] EXCEPT !.stale = TRUE]
  BY DEF commit
<1>3. \A q \in Requests : IF q = r \/ ~req[q].busy THEN ~req'[q].busy /\ ~req'[q].stale
                          ELSE req'[q].busy /\ req'[q].stale
  <2>1. ASSUME NEW q \in Requests, q = r \/ ~req[q].busy PROVE ~req'[q].busy /\ ~req'[q].stale
    <3>1. req'[q] = Free
      BY <1>2, <2>1
    <3>2. QED
      BY <3>1 DEF Free
  <2>2. ASSUME NEW q \in Requests, ~(q = r \/ ~req[q].busy) PROVE req'[q].busy /\ req'[q].stale
    <3>1. req'[q] = [req[q] EXCEPT !.stale = TRUE]
      BY <1>2, <2>2
    <3>2. req[q] \in [busy : BOOLEAN, stale : BOOLEAN, data : Data]
      BY <1>1
    <3>3. QED
      BY <2>2, <3>1, <3>2
  <2>3. QED
    BY <2>1, <2>2
<1>4. \A q \in Requests : req'[q].stale => req'[q].busy
  BY <1>3
<1>5. ASSUME ~(Overlapping'), NEW n \in Links
      PROVE  accepted[n] <= 1 /\ (accepted[n] = 1 => Forgotten(n)')
  <2>1. ~Overlapping
    BY <1>1, <1>5, OverlapStays
  <2>2. \A q \in Requests : ~req'[q].busy
    BY <1>3, <1>5 DEF Overlapping
  <2>3. accepted[n] <= 1 /\ (accepted[n] = 1 => ~Holds(session', n))
    BY <1>2, <2>1 DEF LinkInv, Forgotten
  <2>4. QED
    BY <2>2, <2>3 DEF Forgotten, Holds
<1>6. QED
  BY <1>2, <1>4, <1>5 DEF LinkInv

LEMMA LinkInvHolds ==
  ASSUME IInv, LinkInv, [Next]_vars
  PROVE  LinkInv'
<1>1. ASSUME NEW r \in Requests, Handle(r) PROVE LinkInv'
  BY <1>1, SameLinks, IssueLinks, FollowLinks DEF Handle
<1>2. CASE Tick \/ UNCHANGED vars
  BY <1>2 DEF Tick, vars, LinkInv, Overlapping, Forgotten, Holds
<1>3. QED
  BY <1>1, <1>2, CommitLinks DEF Next

(* A confirmation link is accepted once, unless requests overlapped.       *)
THEOREM LinkServesOnce == Spec => []LinkAcceptedOnce
<1>1. Init => LinkInv
  <2> SUFFICES ASSUME Init PROVE LinkInv
    OBVIOUS
  <2>2. req = [r \in Requests |-> Free]
    BY DEF Init
  <2>3. accepted = [n \in Links |-> 0]
    BY DEF Init
  <2>4. \A r \in Requests : ~req[r].stale
    BY <2>2 DEF Free
  <2>5. \A n \in Links : accepted[n] = 0
    BY <2>3
  <2>6. QED
    BY <2>4, <2>5 DEF LinkInv
<1>2. IInv /\ LinkInv /\ [Next]_vars => LinkInv'
  BY LinkInvHolds
<1>3. IInv /\ LinkInv => LinkAcceptedOnce
  BY DEF IInv, TypeOK, LinkInv, LinkAcceptedOnce
<1>4. QED
  BY <1>1, <1>2, <1>3, InvariantHolds, PTL DEF Spec
===========================================================================
