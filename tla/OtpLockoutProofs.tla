------------------------- MODULE OtpLockoutProofs -------------------------
(***************************************************************************)
(* What holds of OtpLockout for every number of requests, attempts, links  *)
(* and errors: what lifts the lock, how many guesses there can be, and, if *)
(* the store gives its rows out and finds them again, that a locked        *)
(* account has been mailed a link whose click finds its row.               *)
(***************************************************************************)
EXTENDS OtpLockout, Integers, FiniteSetTheorems, TLAPS

Steps == [phase : Phases, link : Nat]

Typed ==
  /\ fails \in Nat /\ errors \in Nat /\ links \in Nat
  /\ locked \in BOOLEAN /\ live \in BOOLEAN
  /\ slot \in Nat /\ mailed \subseteq Nat \ {0}
  /\ req \in [Requests -> Steps]
  /\ fate \in {"open", "used", "taken"}

Kept == "__getRawRow" \in StoreExposes

(* The row holds the link last issued, or none.                            *)
RowHoldsLast ==
  /\ slot # 0 => slot = links /\ fate = "open"
  /\ ~Kept => slot = 0
  /\ Kept /\ fate = "open" /\ links > 0 => slot = links

PostedLinks ==
  \A r \in Requests : req[r].link <= links /\ (At(r, "posting") => req[r].link > 0)

(* A request that set the lock, or found it, and has not issued its link.  *)
Owes(r) == req[r].phase \in {"forgetting", "mailing"}
NobodyOwes == \A r \in Requests : ~Owes(r)

(* With no errors the link last issued is mailed, or about to be.          *)
LastIsMailed ==
  errors = 0 /\ links > 0 =>
    links \in mailed \/ \E r \in Requests : At(r, "posting") /\ req[r].link = links

(* With no errors the lock has a link, which nobody has used up or is      *)
(* about to: who follows it lifts the lock before taking it from the row.  *)
LockHasLink ==
  errors = 0 /\ locked /\ NobodyOwes =>
    /\ links > 0 /\ fate # "used"
    /\ \A r \in Requests : At(r, "discarding") => req[r].link # links

IInv == Typed /\ RowHoldsLast /\ PostedLinks /\ LastIsMailed /\ LockHasLink

---------------------------------------------------------------------------
LEMMA ReqForms ==
  ASSUME IInv, NEW r \in Requests
  PROVE  /\ req \in [Requests -> Steps] /\ req[r] \in Steps
         /\ \A p \in Phases : Go(r, p) => GoWith(r, p, req[r].link)
         /\ \A p \in Phases, k \in Nat : GoWith(r, p, k) =>
              /\ req' \in [Requests -> Steps]
              /\ req'[r].phase = p /\ req'[r].link = k
              /\ \A q \in Requests \ {r} : req'[q] = req[q]
<1>1. req \in [Requests -> Steps] /\ req[r] \in Steps
  BY DEF IInv, Typed
<1>2. ASSUME NEW p \in Phases, Go(r, p) PROVE GoWith(r, p, req[r].link)
  <2>1. [req[r] EXCEPT !.phase = p] = [phase |-> p, link |-> req[r].link]
    BY <1>1 DEF Steps
  <2>2. QED
    BY <1>1, <1>2, <2>1 DEF Go, GoWith
<1>3. ASSUME NEW p \in Phases, NEW k \in Nat, GoWith(r, p, k)
      PROVE  /\ req' \in [Requests -> Steps]
             /\ req'[r].phase = p /\ req'[r].link = k
             /\ \A q \in Requests \ {r} : req'[q] = req[q]
  <2>1. [phase |-> p, link |-> k] \in Steps
    BY DEF Steps
  <2>2. QED
    BY <1>1, <1>3, <2>1 DEF GoWith
<1>4. QED
  BY <1>1, <1>2, <1>3

(* A step of a request that leaves row and mail alone.                     *)
LEMMA MoveKeeps ==
  ASSUME IInv, NEW r \in Requests, NEW p \in Phases, NEW k \in Nat, k <= links, GoWith(r, p, k),
         UNCHANGED <<row, mail>>,
         fails' \in Nat, errors' \in Nat, locked' \in BOOLEAN,
         errors' = 0 => errors = 0,
         p # "posting", At(r, "posting") => errors' # 0,
         errors' = 0 /\ Owes(r) => p \in {"forgetting", "mailing"},
         locked' /\ ~locked => p = "forgetting",
         p = "discarding" => ~locked' \/ errors' # 0
  PROVE  IInv'
<1>1. UNCHANGED <<slot, live, fate, links, mailed>>
  BY DEF row, mail
<1>2. /\ req' \in [Requests -> Steps] /\ req'[r].phase = p /\ req'[r].link = k
      /\ \A q \in Requests \ {r} : req'[q] = req[q]
  BY ReqForms
<1>3. Typed'
  BY <1>1, <1>2 DEF IInv, Typed
<1>4. PostedLinks'
  BY <1>1, <1>2 DEF IInv, PostedLinks, At
<1>5. LastIsMailed'
  <2> SUFFICES ASSUME errors' = 0, links > 0
      PROVE  links \in mailed \/ \E q \in Requests : req'[q].phase = "posting" /\ req'[q].link = links
    BY <1>1 DEF LastIsMailed, At
  <2>1. links \in mailed \/ \E q \in Requests : At(q, "posting") /\ req[q].link = links
    BY DEF IInv, LastIsMailed
  <2>2. ~At(r, "posting")
    OBVIOUS
  <2>3. QED
    BY <1>2, <2>1, <2>2 DEF At
<1>6. LockHasLink'
  <2> SUFFICES ASSUME errors' = 0, locked', \A q \in Requests : req'[q].phase \notin {"forgetting", "mailing"}
      PROVE  /\ links > 0 /\ fate # "used"
             /\ \A q \in Requests : req'[q].phase = "discarding" => req'[q].link # links
    BY <1>1 DEF LockHasLink, NobodyOwes, Owes, At
  <2>1. p \notin {"forgetting", "mailing"}
    BY <1>2
  <2>2. NobodyOwes
    BY <1>2, <2>1 DEF NobodyOwes, Owes
  <2>3. locked /\ errors = 0
    BY <2>1 DEF IInv, Typed
  <2>4. /\ links > 0 /\ fate # "used"
        /\ \A q \in Requests : At(q, "discarding") => req[q].link # links
    BY <2>2, <2>3 DEF IInv, LockHasLink
  <2>5. QED
    BY <1>2, <2>4 DEF At
<1>7. RowHoldsLast'
  BY <1>1 DEF IInv, RowHoldsLast
<1>8. QED
  BY <1>3, <1>4, <1>5, <1>6, <1>7 DEF IInv

(* A step of no request that leaves row and mail alone and does not lock.  *)
LEMMA RestKeeps ==
  ASSUME IInv, UNCHANGED <<slot, fate, links, mailed, req, errors>>, live' \in BOOLEAN,
         fails' \in Nat, locked' \in {FALSE, locked}
  PROVE  IInv'
<1>1. Typed'
  BY DEF IInv, Typed
<1>2. RowHoldsLast' /\ PostedLinks' /\ LastIsMailed'
  BY DEF IInv, RowHoldsLast, PostedLinks, LastIsMailed, At
<1>3. LockHasLink'
  BY DEF IInv, LockHasLink, NobodyOwes, Owes, At
<1>4. QED
  BY <1>1, <1>2, <1>3 DEF IInv

LEMMA ThrowsCounts ==
  ASSUME IInv, Throws
  PROVE  errors' \in Nat /\ errors' # 0
BY DEF IInv, Typed, Throws

LEMMA SameErrors ==
  ASSUME IInv
  PROVE  /\ errors \in Nat /\ fails \in Nat /\ locked \in BOOLEAN /\ fails + 1 \in Nat
         /\ \A r \in Requests : req[r].link \in Nat /\ req[r].link <= links
BY DEF IInv, Typed, Steps, PostedLinks

---------------------------------------------------------------------------
LEMMA ChallengeKeeps ==
  ASSUME IInv, NEW r \in Requests, isLocked(r) \/ answer(r) \/ clearFailures(r)
  PROVE  IInv'
<1>1. UNCHANGED <<row, mail>> /\ locked' = locked /\ ~Owes(r) /\ ~At(r, "posting")
  BY DEF isLocked, answer, clearFailures, limiter, At, Owes
<1>2. fails' \in Nat /\ errors' \in Nat /\ (errors' = 0 => errors = 0)
  BY SameErrors, ThrowsCounts DEF isLocked, answer, clearFailures, limiter
<1>3. \E p \in {"challenged", "right", "wrong", "idle"} : Go(r, p)
  BY DEF isLocked, answer, clearFailures
<1>4. PICK p \in {"challenged", "right", "wrong", "idle"} : GoWith(r, p, req[r].link)
  BY <1>3, ReqForms DEF Phases
<1>5. p \in Phases /\ req[r].link \in Nat
  BY ReqForms DEF Phases, Steps
<1>6. QED
  BY <1>1, <1>2, <1>4, <1>5, SameErrors, MoveKeeps

LEMMA CountKeeps ==
  ASSUME IInv, NEW r \in Requests, recordFailure(r) \/ increment(r) \/ block(r) \/ forget(r)
  PROVE  IInv'
<1>1. UNCHANGED <<row, mail>> /\ ~At(r, "posting")
  BY DEF recordFailure, increment, block, forget, At
<1>2. fails' \in Nat /\ errors' \in Nat /\ (errors' = 0 => errors = 0)
  BY SameErrors, ThrowsCounts DEF recordFailure, increment, block, forget, limiter
<1>7. locked' \in BOOLEAN
  <2>1. locked' = TRUE \/ locked' = locked
    BY Zenon DEF recordFailure, increment, block, forget, limiter
  <2>2. QED
    BY <2>1, SameErrors, Zenon
<1>3. \E p \in {"mailing", "counting", "idle", "locking", "forgetting"} :
        /\ Go(r, p)
        /\ errors' = 0 /\ Owes(r) => p \in {"forgetting", "mailing"}
        /\ locked' /\ ~locked => p = "forgetting"
  <2>1. CASE recordFailure(r)
    BY <2>1 DEF recordFailure, limiter, Owes, At
  <2>2. CASE increment(r)
    BY <2>2 DEF increment, Owes, At
  <2>3. CASE block(r)
    BY <2>3 DEF block, Owes, At
  <2>4. CASE forget(r)
    BY <2>4, ThrowsCounts DEF forget
  <2>5. QED
    BY <2>1, <2>2, <2>3, <2>4
<1>4. PICK p \in {"mailing", "counting", "idle", "locking", "forgetting"} :
        /\ GoWith(r, p, req[r].link)
        /\ errors' = 0 /\ Owes(r) => p \in {"forgetting", "mailing"}
        /\ locked' /\ ~locked => p = "forgetting"
  BY <1>3, ReqForms DEF Phases
<1>5. p \in Phases /\ req[r].link \in Nat
  BY ReqForms DEF Phases, Steps
<1>6. QED
  BY <1>1, <1>2, <1>4, <1>5, <1>7, SameErrors, MoveKeeps

LEMMA FailKeeps ==
  ASSUME IInv, NEW r \in Requests, failUncounted(r) \/ tokenUnsaved(r)
  PROVE  IInv'
<1>1. UNCHANGED <<row, mail>> /\ ~At(r, "posting") /\ fails' = fails /\ locked' = locked
  BY DEF failUncounted, tokenUnsaved, limiter, At
<1>2. Go(r, "idle") /\ errors' \in Nat /\ errors' # 0
  BY ThrowsCounts DEF failUncounted, tokenUnsaved
<1>3. GoWith(r, "idle", req[r].link) /\ req[r].link \in Nat
  BY <1>2, ReqForms DEF Phases, Steps
<1>4. QED
  BY <1>1, <1>2, <1>3, SameErrors, MoveKeeps DEF Phases

LEMMA DiscardFailKeeps ==
  ASSUME IInv, NEW r \in Requests, discardFails(r)
  PROVE  IInv'
<1>1. /\ UNCHANGED <<row, mail>> /\ ~At(r, "posting") /\ fails' = fails /\ locked' = locked
      /\ GoWith(r, "idle", 0) /\ errors' \in Nat /\ errors' # 0
  BY ThrowsCounts DEF discardFails, limiter, At
<1>2. 0 <= links
  BY DEF IInv, Typed
<1>3. QED
  BY <1>1, <1>2, SameErrors, MoveKeeps DEF Phases

LEMMA UnlockKeeps ==
  ASSUME IInv, NEW r \in Requests, unlock(r)
  PROVE  IInv'
<1>1. UNCHANGED <<row, mail>> /\ ~At(r, "posting") /\ ~Owes(r)
  BY DEF unlock, At, Owes
<1>2. fails' \in Nat /\ errors' \in Nat /\ (errors' = 0 => errors = 0)
  BY SameErrors, ThrowsCounts DEF unlock
<1>6. locked' \in BOOLEAN /\ (locked' => locked)
  <2>1. locked' = FALSE \/ locked' = locked
    BY Zenon DEF unlock
  <2>2. CASE locked' = FALSE
    BY <2>2
  <2>3. CASE locked' = locked
    BY <2>3, SameErrors
  <2>4. QED
    BY <2>1, <2>2, <2>3
<1>3. \E p \in {"unlocking", "discarding"} :
        Go(r, p) /\ (p = "discarding" => ~locked' \/ errors' # 0)
  BY ThrowsCounts DEF unlock
<1>4. PICK p \in {"unlocking", "discarding"} :
        GoWith(r, p, req[r].link) /\ (p = "discarding" => ~locked' \/ errors' # 0)
  BY <1>3, ReqForms DEF Phases
<1>5. p \in Phases /\ req[r].link \in Nat
  BY ReqForms DEF Phases, Steps
<1>7. QED
  BY <1>1, <1>2, <1>4, <1>5, <1>6, SameErrors, MoveKeeps

(* Who finds a link by its hash follows the one last issued.               *)
LEMMA Followed ==
  ASSUME IInv, NEW r \in Requests, NEW link \in Links, otpUnlock(r, link), req' # req
  PROVE  GoWith(r, "following", link) /\ link \in Nat /\ link <= links /\ link = links /\ fate = "open"
<1>1. GoWith(r, "following", link) /\ slot = link /\ link \in mailed
  BY DEF otpUnlock, Finds
<1>2. QED
  BY <1>1 DEF IInv, Typed, RowHoldsLast

LEMMA FollowKeeps ==
  ASSUME IInv, NEW r \in Requests, NEW link \in Links, otpUnlock(r, link)
  PROVE  IInv'
<1>1. UNCHANGED <<row, mail, errors>> /\ ~At(r, "posting") /\ ~Owes(r)
      /\ fails' = fails /\ locked' = locked
  BY DEF otpUnlock, limiter, At, Owes
<1>2. CASE req' = req
  <2>1. UNCHANGED <<slot, fate, links, mailed, req, errors, live>> /\ live \in BOOLEAN
    BY <1>1, <1>2 DEF row, mail, IInv, Typed
  <2>2. QED
    BY <1>1, <2>1, SameErrors, RestKeeps
<1>3. CASE req' # req
  BY <1>1, <1>3, Followed, SameErrors, MoveKeeps DEF Phases
<1>4. QED
  BY <1>2, <1>3

---------------------------------------------------------------------------
LEMMA SaveKeeps ==
  ASSUME IInv, NEW r \in Requests, saveToken(r)
  PROVE  IInv'
<1>1. /\ links' = links + 1 /\ fate' = "open" /\ links \in Nat /\ slot \in Nat
      /\ IF Kept THEN slot' = links + 1 /\ live' = TRUE ELSE UNCHANGED <<slot, live>>
      /\ UNCHANGED <<fails, locked, mailed, errors>>
  BY DEF saveToken, limiter, Kept, IInv, Typed
<1>2. GoWith(r, "posting", links + 1) /\ links + 1 \in Nat
  BY <1>1 DEF saveToken
<1>3. /\ req' \in [Requests -> Steps] /\ req'[r].phase = "posting" /\ req'[r].link = links'
      /\ \A q \in Requests \ {r} : req'[q] = req[q]
  BY <1>1, <1>2, ReqForms DEF Phases
<1>4. Typed'
  <2>1. CASE Kept
    BY <1>1, <1>3, <2>1 DEF IInv, Typed
  <2>2. CASE ~Kept
    BY <1>1, <1>3, <2>2 DEF IInv, Typed
  <2>3. QED
    BY <2>1, <2>2
<1>5. RowHoldsLast'
  BY <1>1 DEF IInv, RowHoldsLast, Kept
<1>6. PostedLinks' /\ LastIsMailed'
  <2>1. \A q \in Requests : req'[q].link <= links'
    BY <1>1, <1>3, SameErrors
  <2>2. QED
    BY <1>1, <1>3, <2>1 DEF IInv, PostedLinks, LastIsMailed, At
<1>7. LockHasLink'
  <2>1. links' > 0 /\ fate' # "used"
    BY <1>1
  <2>2. ASSUME NEW q \in Requests, req'[q].phase = "discarding"
        PROVE  req'[q].link # links'
    BY <1>1, <1>3, <2>2, SameErrors
  <2>3. QED
    BY <2>1, <2>2 DEF LockHasLink, At
<1>8. QED
  BY <1>4, <1>5, <1>6, <1>7 DEF IInv

LEMMA PostKeeps ==
  ASSUME IInv, NEW r \in Requests, onOtpUnlock(r)
  PROVE  IInv'
<1>1. /\ UNCHANGED <<limiter, row, links>> /\ GoWith(r, "idle", 0) /\ At(r, "posting")
  BY DEF onOtpUnlock
<1>2. UNCHANGED <<fails, locked, slot, live, fate, links>>
  BY <1>1 DEF limiter, row
<1>3. /\ req' \in [Requests -> Steps] /\ req'[r].phase = "idle" /\ req'[r].link = 0
      /\ \A q \in Requests \ {r} : req'[q] = req[q]
  BY <1>1, ReqForms DEF Phases
<1>4. CASE Throws /\ UNCHANGED mailed
  <2>1. errors' \in Nat /\ errors' # 0
    BY <1>4, ThrowsCounts
  <2>2. UNCHANGED <<row, mail>>
    BY <1>1, <1>4 DEF mail
  <2>3. ~Owes(r) /\ 0 <= links
    BY <1>1 DEF At, Owes, IInv, Typed
  <2>4. QED
    BY <1>1, <1>2, <2>1, <2>2, <2>3, SameErrors, MoveKeeps DEF Phases
<1>5. CASE mailed' = mailed \cup {req[r].link} /\ UNCHANGED errors
  <2>1. req[r].link \in Nat \ {0}
    BY <1>1, SameErrors DEF IInv, PostedLinks
  <2>2. Typed'
    BY <1>2, <1>3, <1>5, <2>1 DEF IInv, Typed
  <2>3. RowHoldsLast'
    BY <1>2 DEF IInv, RowHoldsLast
  <2>4. PostedLinks'
    BY <1>2, <1>3 DEF IInv, PostedLinks, At, Typed
  <2>5. LastIsMailed'
    BY <1>2, <1>3, <1>5 DEF IInv, LastIsMailed, At
  <2>6. LockHasLink'
    BY <1>1, <1>2, <1>3, <1>5 DEF IInv, LockHasLink, NobodyOwes, Owes, At
  <2>7. QED
    BY <2>2, <2>3, <2>4, <2>5, <2>6 DEF IInv
<1>6. QED
  BY <1>4, <1>5 DEF onOtpUnlock

(* Whoever saves the row without a token had lifted the lock: the row that *)
(* held its link is now used, a later one is taken.                        *)
LEMMA DiscardKeeps ==
  ASSUME IInv, NEW r \in Requests, discard(r)
  PROVE  IInv'
<1>1. /\ UNCHANGED <<fails, locked, links, mailed, errors>> /\ GoWith(r, "idle", 0)
      /\ req[r].phase = "discarding"
      /\ slot' = 0 /\ live' = FALSE
      /\ fate' = CASE slot = 0 -> fate [] slot # 0 /\ slot = req[r].link -> "used" [] OTHER -> "taken"
  BY Zenon DEF discard, limiter, mail, At
<1>2. /\ req' \in [Requests -> Steps] /\ req'[r].phase = "idle" /\ req'[r].link = 0
      /\ \A q \in Requests \ {r} : req'[q] = req[q]
  BY <1>1, ReqForms DEF Phases
<1>3. /\ slot = 0 => fate' = fate
      /\ slot # 0 /\ slot = req[r].link => fate' = "used"
      /\ slot # 0 /\ slot # req[r].link => fate' = "taken"
  <2>1. fate' = CASE slot = 0 -> fate [] slot # 0 /\ slot = req[r].link -> "used" [] OTHER -> "taken"
    BY <1>1
  <2>2. CASE slot = 0
    BY <2>1, <2>2
  <2>3. CASE slot # 0 /\ slot = req[r].link
    BY <2>1, <2>3
  <2>4. CASE slot # 0 /\ slot # req[r].link
    BY <2>1, <2>4
  <2>5. QED
    BY <2>2, <2>3, <2>4
<1>4. Typed'
  BY <1>1, <1>2, <1>3 DEF IInv, Typed
<1>5. RowHoldsLast'
  BY <1>1, <1>3 DEF IInv, RowHoldsLast, Kept
<1>6. PostedLinks' /\ LastIsMailed'
  BY <1>1, <1>2 DEF IInv, PostedLinks, LastIsMailed, At, Typed
<1>7. LockHasLink'
  <2> SUFFICES ASSUME errors = 0, locked, \A q \in Requests : req'[q].phase \notin {"forgetting", "mailing"}
      PROVE  /\ links > 0 /\ fate' # "used"
             /\ \A q \in Requests : req'[q].phase = "discarding" => req'[q].link # links
    BY <1>1 DEF LockHasLink, NobodyOwes, Owes, At
  <2>1. NobodyOwes
    BY <1>1, <1>2 DEF NobodyOwes, Owes
  <2>2. links > 0 /\ fate # "used" /\ \A q \in Requests : req[q].phase = "discarding" => req[q].link # links
    BY <2>1 DEF IInv, LockHasLink, At
  <2>3. slot # 0 => slot # req[r].link
    BY <1>1, <2>2 DEF IInv, RowHoldsLast
  <2>4. QED
    BY <1>2, <1>3, <2>2, <2>3
<1>8. QED
  BY <1>4, <1>5, <1>6, <1>7 DEF IInv

LEMMA OtherKeeps ==
  ASSUME IInv, otherToken
  PROVE  IInv'
<1>1. slot' = 0 /\ live' = FALSE /\ fate' = "taken" /\ UNCHANGED <<fails, locked, req, links, mailed, errors>>
  BY DEF otherToken, limiter, mail
<1>2. Typed'
  BY <1>1 DEF IInv, Typed
<1>3. RowHoldsLast' /\ PostedLinks' /\ LastIsMailed'
  BY <1>1 DEF IInv, RowHoldsLast, PostedLinks, LastIsMailed, At
<1>4. LockHasLink'
  BY <1>1 DEF IInv, LockHasLink, NobodyOwes, Owes, At
<1>5. QED
  BY <1>2, <1>3, <1>4 DEF IInv

LEMMA ExpireKeeps ==
  ASSUME IInv, lockExpires \/ countExpires \/ linkExpires
  PROVE  IInv'
<1>1. UNCHANGED <<slot, fate, links, mailed, req, errors>>
  BY DEF lockExpires, countExpires, linkExpires, row, mail
<1>2. fails' \in Nat
  BY DEF lockExpires, countExpires, linkExpires, limiter, row, IInv, Typed
<1>4. locked' \in {FALSE, locked} /\ live' \in BOOLEAN
  <2>1. (locked' = FALSE \/ locked' = locked) /\ (live' = FALSE \/ live' = live)
    BY Zenon DEF lockExpires, countExpires, linkExpires, limiter, row
  <2>2. QED
    BY <2>1, Zenon DEF IInv, Typed
<1>3. QED
  BY <1>1, <1>2, <1>4, RestKeeps

LEMMA StutterKeeps ==
  ASSUME IInv, UNCHANGED vars
  PROVE  IInv'
<1>1. UNCHANGED <<slot, fate, links, mailed, req, errors>> /\ live' \in BOOLEAN
      /\ fails' \in Nat /\ locked' \in {FALSE, locked}
  BY DEF vars, IInv, Typed
<1>2. QED
  BY <1>1, RestKeeps

LEMMA InitKeeps == Init => IInv
<1> SUFFICES ASSUME Init PROVE IInv
  OBVIOUS
<1>1. \A r \in Requests : req[r].phase = "idle" /\ req[r].link = 0
  BY DEF Init
<1>2. req \in [Requests -> Steps]
  BY DEF Init, Steps, Phases
<1>3. Typed
  BY <1>2 DEF Init, Typed
<1>4. RowHoldsLast /\ PostedLinks /\ LastIsMailed /\ LockHasLink
  BY <1>1 DEF Init, RowHoldsLast, PostedLinks, LastIsMailed, LockHasLink, At
<1>5. QED
  BY <1>3, <1>4 DEF IInv

LEMMA NextKeeps == IInv /\ [Next]_vars => IInv'
<1> SUFFICES ASSUME IInv, [Next]_vars PROVE IInv'
  OBVIOUS
<1>1. ASSUME NEW r \in Requests, mfaVerify(r) PROVE IInv'
  BY <1>1, ChallengeKeeps, CountKeeps, FailKeeps, SaveKeeps, PostKeeps DEF mfaVerify
<1>2. ASSUME NEW r \in Requests, followLink(r) PROVE IInv'
  BY <1>2, UnlockKeeps, DiscardKeeps, DiscardFailKeeps, FollowKeeps DEF followLink
<1>3. QED
  BY <1>1, <1>2, OtherKeeps, ExpireKeeps, StutterKeeps DEF Next

---------------------------------------------------------------------------
(* The row holds the link last issued or none, and with no errors a lock   *)
(* has a link that is mailed, or about to be, and is not used up.          *)
THEOREM InvariantHolds == Spec => []IInv
<1>1. QED
  BY InitKeeps, NextKeeps, PTL DEF Spec

(* Where the store gives its rows out and finds them again, and nothing    *)
(* fails, a locked account was mailed the link last issued, whose click    *)
(* finds its row until the deadline, unless another flow, or a late click  *)
(* on an older link, took it from the row.                                 *)
THEOREM LockedAreMailed ==
  ASSUME "__getRawRow" \in StoreExposes, CanFind
  PROVE  Spec => []LockIsAnnounced
<1>1. IInv => LockIsAnnounced
  <2> SUFFICES ASSUME IInv, locked, Quiet, errors = 0
      PROVE  links \in mailed /\ (fate = "taken" \/ (slot = links /\ (live => Finds(links))))
    BY DEF LockIsAnnounced
  <2>1. \A r \in Requests : req[r].phase = "idle"
    BY DEF Quiet, At
  <2>2. links > 0 /\ fate # "used"
    BY <2>1 DEF IInv, LockHasLink, NobodyOwes, Owes
  <2>3. links \in mailed
    BY <2>1, <2>2 DEF IInv, LastIsMailed, At
  <2>4. fate = "open" => slot = links
    BY <2>2 DEF IInv, RowHoldsLast, Kept
  <2>5. QED
    BY <2>2, <2>3, <2>4 DEF IInv, Typed, Finds
<1>2. QED
  BY <1>1, InvariantHolds, PTL

---------------------------------------------------------------------------
(* A link that lifted a lock is held by no click that may lift another,    *)
(* and while the row still holds it a click is about to take it from there.*)
ClicksAreFresh ==
  \A r \in Requests : req[r].phase \in {"following", "unlocking"} => req[r].link \notin lifted
LiftedIsLeaving ==
  slot \in lifted => \E r \in Requests : At(r, "discarding") /\ req[r].link = slot
LiftedAreIssued ==
  /\ lifted \subseteq 1..links
  /\ \A r \in Requests : req[r].phase \in Clicking => req[r].link \in 1..links
Once == ClicksAreFresh /\ LiftedIsLeaving /\ LiftedAreIssued

(* No click moves.                                                         *)
LEMMA OthersOnce ==
  ASSUME IInv, Once, NEW r \in Requests, NEW p \in Phases \ Clicking, NEW k \in Nat, GoWith(r, p, k),
         req[r].phase \notin Clicking, lifted' = lifted,
         links' \in {links, links + 1}, slot' \in {slot, links + 1}
  PROVE  Once'
<1>1. req'[r].phase = p /\ \A q \in Requests \ {r} : req'[q] = req[q]
  BY ReqForms
<1>2. links \in Nat /\ slot \in Nat /\ 1..links \subseteq 1..links' /\ links + 1 \notin lifted
  BY DEF IInv, Typed, Once, LiftedAreIssued
<1>3. ClicksAreFresh'
  BY <1>1 DEF Once, ClicksAreFresh, Clicking
<1>4. LiftedIsLeaving'
  BY <1>1, <1>2 DEF Once, LiftedIsLeaving, At, Clicking
<1>5. LiftedAreIssued'
  BY <1>1, <1>2 DEF Once, LiftedAreIssued
<1>6. QED
  BY <1>3, <1>4, <1>5 DEF Once

LEMMA ChallengeOnce ==
  ASSUME IInv, Once, NEW r \in Requests, mfaVerify(r)
  PROVE  Once'
<1>1. req[r].phase \notin Clicking /\ lifted' = lifted
  <2>1. lifted' = lifted
    BY DEF mfaVerify, isLocked, answer, clearFailures, recordFailure, increment, block, forget,
           failUncounted, saveToken, tokenUnsaved, onOtpUnlock
  <2>2. req[r].phase \notin Clicking
    BY DEF mfaVerify, isLocked, answer, clearFailures, recordFailure, increment, block, forget,
           failUncounted, saveToken, tokenUnsaved, onOtpUnlock, At, Clicking
  <2>3. QED
    BY <2>1, <2>2
<1>2. CASE saveToken(r)
  <2>1. /\ links' = links + 1 /\ slot' \in {slot, links + 1} /\ GoWith(r, "posting", links + 1)
        /\ links + 1 \in Nat
    BY <1>2 DEF saveToken, IInv, Typed
  <2>2. "posting" \in Phases \ Clicking
    BY DEF Phases, Clicking
  <2>3. QED
    BY <1>1, <2>1, <2>2, OthersOnce
<1>3. CASE ~saveToken(r)
  <2>1. links' = links /\ slot' = slot
    BY <1>3 DEF mfaVerify, isLocked, answer, clearFailures, recordFailure, increment, block, forget,
                failUncounted, tokenUnsaved, onOtpUnlock, row, mail
  <2>2. \E p \in Phases \ Clicking : Go(r, p) \/ GoWith(r, p, 0)
    BY <1>3 DEF mfaVerify, isLocked, answer, clearFailures, recordFailure, increment, block, forget,
                failUncounted, tokenUnsaved, onOtpUnlock, Phases, Clicking
  <2>3. \E p \in Phases \ Clicking, k \in Nat : GoWith(r, p, k)
    BY <2>2, ReqForms, SameErrors
  <2>4. QED
    BY <1>1, <2>1, <2>3, OthersOnce
<1>4. QED
  BY <1>2, <1>3

(* A click that lifts the lock while no other holds its link marks it; a   *)
(* click on a marked link finds its row only beside one that is about to   *)
(* take it from there, and unmarks it.                                     *)
LEMMA ClickOnce ==
  ASSUME IInv, Once, NEW r \in Requests, followLink(r)
  PROVE  Once'
<1>1. CASE unlock(r)
  <2>1. PICK p \in {"unlocking", "discarding"} : Go(r, p) /\ (p = "unlocking" => lifted' = lifted)
    BY <1>1 DEF unlock
  <2>2. req'[r].phase = p /\ req'[r].link = req[r].link /\ \A q \in Requests \ {r} : req'[q] = req[q]
    BY <2>1, ReqForms, SameErrors DEF Phases
  <2>3. /\ UNCHANGED <<slot, links>> /\ req[r].phase \in {"following", "unlocking"}
        /\ \/ lifted' = lifted
           \/ /\ lifted' = lifted \cup {req[r].link} /\ p = "discarding"
              /\ \A q \in Requests \ {r} : ~Held(q, req[r].link)
    BY <1>1, <2>1 DEF unlock, row, mail, At
  <2>4. req[r].link \in 1..links /\ req[r].link \notin lifted
    BY <2>3 DEF Once, LiftedAreIssued, ClicksAreFresh, Clicking
  <2>5. ClicksAreFresh'
    BY <2>2, <2>3, <2>4 DEF Once, ClicksAreFresh, Held, Clicking
  <2>6. LiftedIsLeaving'
    BY <2>2, <2>3, <2>4 DEF Once, LiftedIsLeaving, At
  <2>7. LiftedAreIssued'
    BY <2>2, <2>3, <2>4 DEF Once, LiftedAreIssued, Clicking
  <2>8. QED
    BY <2>5, <2>6, <2>7 DEF Once
<1>2. CASE discard(r) \/ discardFails(r)
  <2>1. /\ GoWith(r, "idle", 0) /\ links' = links
        /\ \/ slot' = 0 /\ lifted' = lifted
           \/ slot' = slot /\ lifted' = lifted \ {req[r].link}
    BY <1>2 DEF discard, discardFails, row, mail
  <2>2. req'[r].phase = "idle" /\ \A q \in Requests \ {r} : req'[q] = req[q]
    BY <2>1, ReqForms DEF Phases
  <2>3. 0 \notin lifted
    BY DEF Once, LiftedAreIssued
  <2>4. ClicksAreFresh' /\ LiftedAreIssued'
    BY <2>1, <2>2 DEF Once, ClicksAreFresh, LiftedAreIssued, Clicking
  <2>5. LiftedIsLeaving'
    BY <2>1, <2>2, <2>3 DEF Once, LiftedIsLeaving, At
  <2>6. QED
    BY <2>4, <2>5 DEF Once
<1>3. ASSUME NEW link \in Links, otpUnlock(r, link) PROVE Once'
  <2>1. UNCHANGED <<slot, links>> /\ req[r].phase = "idle"
    BY <1>3 DEF otpUnlock, row, mail, At
  <2>2. CASE ~Finds(link)
    <3>1. req' = req /\ lifted' = lifted
      BY <1>3, <2>2 DEF otpUnlock
    <3>2. QED
      BY <2>1, <3>1 DEF Once, ClicksAreFresh, LiftedIsLeaving, LiftedAreIssued, At
  <2>3. CASE Finds(link)
    <3>1. /\ GoWith(r, "following", link) /\ slot = link /\ link \in 1..links /\ link \in Nat
          /\ lifted' = IF \E q \in Requests : Held(q, link) THEN lifted \ {link} ELSE lifted
      BY <1>3, <2>3 DEF otpUnlock, Finds, IInv, Typed, RowHoldsLast, Links
    <3>2. req'[r].phase = "following" /\ req'[r].link = link /\ \A q \in Requests \ {r} : req'[q] = req[q]
      BY <3>1, ReqForms DEF Phases
    <3>3. lifted' \subseteq lifted /\ link \notin lifted'
      BY <3>1 DEF Once, LiftedIsLeaving, Held, Clicking, At
    <3>4. ClicksAreFresh' /\ LiftedAreIssued'
      BY <2>1, <3>1, <3>2, <3>3 DEF Once, ClicksAreFresh, LiftedAreIssued, Clicking
    <3>5. LiftedIsLeaving'
      BY <2>1, <3>1, <3>3 DEF LiftedIsLeaving
    <3>6. QED
      BY <3>4, <3>5 DEF Once
  <2>4. QED
    BY <2>2, <2>3
<1>4. QED
  BY <1>1, <1>2, <1>3 DEF followLink

LEMMA NextOnce == IInv /\ Once /\ [Next]_vars => Once'
<1> SUFFICES ASSUME IInv, Once, [Next]_vars PROVE Once'
  OBVIOUS
<1>1. CASE otherToken \/ lockExpires \/ countExpires \/ linkExpires \/ UNCHANGED vars
  <2>1. UNCHANGED <<req, links, lifted>> /\ slot' \in {0, slot}
    BY <1>1 DEF otherToken, lockExpires, countExpires, linkExpires, vars, row, mail
  <2>2. 0 \notin lifted
    BY DEF Once, LiftedAreIssued
  <2>3. QED
    BY <2>1, <2>2 DEF Once, ClicksAreFresh, LiftedIsLeaving, LiftedAreIssued, At
<1>2. QED
  BY <1>1, ChallengeOnce, ClickOnce DEF Next

THEOREM EachLinkOnce == Spec => []Once
<1>1. Init => Once
  BY DEF Init, Once, ClicksAreFresh, LiftedIsLeaving, LiftedAreIssued, Clicking
<1>2. QED
  BY <1>1, NextOnce, InvariantHolds, PTL DEF Spec

(* Only its TTL and a followed link lift the lock.  A link that lifted one *)
(* lifts no other, unless two clicks on it overlapped or an error left it  *)
(* in the row; and the link that a click finds is the one last issued,     *)
(* which no other click has taken from the row.                            *)
THEOREM LinksAloneUnlock == Spec => OnlyLinksUnlock
<1>1. ASSUME IInv, Once, [Next]_vars, locked, ~locked'
      PROVE  Quiet \/ \E r \in Requests : Lifts(r)
  <2>1. CASE lockExpires \/ countExpires \/ linkExpires
    BY <2>1 DEF lockExpires, countExpires, linkExpires
  <2>2. CASE otherToken \/ UNCHANGED vars
    BY <1>1, <2>2 DEF otherToken, limiter, vars
  <2>3. ASSUME NEW r \in Requests, mfaVerify(r) PROVE locked'
    BY <1>1, <2>3 DEF mfaVerify, isLocked, answer, clearFailures, recordFailure, increment, block,
                      forget, failUncounted, saveToken, tokenUnsaved, onOtpUnlock, limiter
  <2>4. ASSUME NEW r \in Requests, followLink(r) PROVE Lifts(r)
    <3>1. At(r, "unlocking") /\ unlock(r)
      BY <1>1, <2>4 DEF followLink, unlock, discard, discardFails, otpUnlock, limiter
    <3>2. req[r].link \notin lifted
      BY <1>1, <3>1 DEF Once, ClicksAreFresh, At
    <3>3. QED
      BY <3>1, <3>2 DEF Lifts
  <2>5. QED
    BY <1>1, <2>1, <2>2, <2>3, <2>4 DEF Next
<1>2. ASSUME IInv, [Next]_vars, NEW r \in Requests, At(r, "idle"), req'[r].phase = "following"
      PROVE  req'[r].link = links /\ fate = "open"
  <2>1. \E q \in Requests, link \in Links : otpUnlock(q, link) /\ req' # req
    <3>1. req' # req
      BY <1>2 DEF At
    <3>2. ASSUME NEW q \in Requests, NEW p \in Phases \ {"following"}, NEW k \in Nat, GoWith(q, p, k)
          PROVE  FALSE
      BY <1>2, <3>2, ReqForms DEF At
    <3>3. ASSUME NEW q \in Requests, NEW p \in Phases \ {"following"}, Go(q, p)
          PROVE  FALSE
      BY <1>2, <3>2, <3>3, ReqForms, SameErrors
    <3>4. links + 1 \in Nat /\ 0 \in Nat
      BY <1>2 DEF IInv, Typed
    <3>5. ASSUME NEW q \in Requests PROVE ~mfaVerify(q)
      BY <3>2, <3>3, <3>4 DEF mfaVerify, isLocked, answer, clearFailures, recordFailure, increment, block,
                        forget, failUncounted, saveToken, tokenUnsaved, onOtpUnlock, Phases
    <3>6. ASSUME NEW q \in Requests PROVE ~unlock(q) /\ ~discard(q) /\ ~discardFails(q)
      BY <3>2, <3>3, <3>4 DEF unlock, discard, discardFails, Phases
    <3>7. ~otherToken /\ ~lockExpires /\ ~countExpires /\ ~linkExpires /\ ~UNCHANGED vars
      BY <3>1 DEF otherToken, lockExpires, countExpires, linkExpires, vars
    <3>8. QED
      BY <1>2, <3>1, <3>5, <3>6, <3>7 DEF Next, followLink
  <2>2. PICK q \in Requests, link \in Links :
          GoWith(q, "following", link) /\ link \in Nat /\ link = links /\ fate = "open"
    BY <1>2, <2>1, Followed
  <2>3. q = r
    BY <1>2, <2>2, ReqForms DEF At, Phases
  <2>4. QED
    BY <1>2, <2>2, <2>3, ReqForms DEF Phases
<1>3. IInv /\ Once /\ [Next]_vars =>
        [/\ locked /\ ~locked' => Quiet \/ \E r \in Requests : Lifts(r)
         /\ \A r \in Requests :
              At(r, "idle") /\ req'[r].phase = "following" => req'[r].link = links /\ fate = "open"]_vars
  BY <1>1, <1>2
<1>4. QED
  BY <1>3, InvariantHolds, EachLinkOnce, PTL DEF Spec, OnlyLinksUnlock

---------------------------------------------------------------------------
(* How many guesses there can be.  Requests are counted by their phase:    *)
(* who was challenged, who holds a wrong answer not counted yet or is to   *)
(* set the lock, and who is to forget a count.                             *)
In(phases) == {r \in Requests : req[r].phase \in phases}
Number(phases) == Cardinality(In(phases))
All == Cardinality(Requests)

Challenged == {"challenged"}
Guessing == {"wrong", "counting", "locking"}
Forgetting == {"forgetting"}
Over == {"locking", "forgetting"}
ToMail == {"challenged", "right", "wrong", "counting", "locking", "forgetting", "mailing"}

(* The count, as far as it bounds the guesses: from the threshold on who   *)
(* counted one is to set the lock.                                         *)
Counted == IF fails < MaxAttempts THEN fails ELSE MaxAttempts - 1

(* What the requests that no longer are to forget a count may have         *)
(* forgotten, but for one of them.                                         *)
Forgotten(n) == (MaxAttempts - 1) * (All - 1 - n)

(* Without the lock a wrong answer is counted, or about to be, or an error *)
(* or the end of an old lock lost it.                                      *)
Unlocked ==
  ~locked =>
    /\ Number(Forgetting) < All
    /\ guesses <= errors + Counted + Number(Guessing) + Forgotten(Number(Forgetting))

(* With the lock only those challenged may guess, and errors let others in.*)
Locked == locked => guesses + Number(Challenged) <= MaxAttempts * All + errors

Counts ==
  /\ guesses \in Nat /\ errors <= MaxErrors
  /\ IF Requests = {} THEN guesses = 0 ELSE Unlocked /\ Locked

(* Each request past the threshold, and each error, let the counter pass   *)
(* it by one; each challenge may issue one link.                           *)
Bounds ==
  /\ fails <= MaxAttempts - 1 + Number(Over) + errors
  /\ links + Number(ToMail) <= MaxLinks + All
  /\ mailed \subseteq 1..links

LEMMA InFinite ==
  ASSUME NEW phases
  PROVE  /\ IsFiniteSet(In(phases)) /\ Number(phases) \in Nat
         /\ All \in Nat /\ Number(phases) <= All
         /\ (\E r \in Requests : req[r].phase \notin phases) => Number(phases) < All
<1>1. IsFiniteSet(Requests) /\ In(phases) \in SUBSET Requests
  BY RequestsAssumption DEF In
<1>2. IsFiniteSet(In(phases)) /\ Number(phases) <= All /\ (Number(phases) = All => In(phases) = Requests)
  BY <1>1, FS_Subset DEF Number, All
<1>3. Number(phases) \in Nat /\ All \in Nat
  BY <1>1, <1>2, FS_CardinalityType DEF Number, All
<1>4. ASSUME NEW r \in Requests, req[r].phase \notin phases PROVE In(phases) # Requests
  BY <1>4 DEF In
<1>5. QED
  BY <1>2, <1>3, <1>4

LEMMA Unions ==
  ASSUME NEW S, IsFiniteSet(S), NEW T, IsFiniteSet(T), S \cap T = {}
  PROVE  IsFiniteSet(S \cup T) /\ Cardinality(S \cup T) = Cardinality(S) + Cardinality(T)
<1>1. Cardinality(S \cup T) = Cardinality(S) + Cardinality(T) - Cardinality({})
  BY FS_Union
<1>2. Cardinality(S) \in Nat /\ Cardinality(T) \in Nat /\ Cardinality({}) = 0
  BY FS_CardinalityType, FS_EmptySet
<1>3. QED
  BY <1>1, <1>2, FS_Union

(* Nobody is counted twice.                                                *)
LEMMA Disjoint == Number(Challenged) + Number(Guessing) + Number(Forgetting) <= All
<1>1. /\ IsFiniteSet(In(Challenged)) /\ IsFiniteSet(In(Guessing)) /\ IsFiniteSet(In(Forgetting))
      /\ Number(Challenged) \in Nat /\ Number(Guessing) \in Nat /\ Number(Forgetting) \in Nat
  BY InFinite
<1>2. /\ In(Challenged) \cap In(Guessing) = {}
      /\ (In(Challenged) \cup In(Guessing)) \cap In(Forgetting) = {}
  BY DEF In, Challenged, Guessing, Forgetting
<1> DEFINE some == In(Challenged) \cup In(Guessing)
<1>3. IsFiniteSet(some) /\ Cardinality(some) = Number(Challenged) + Number(Guessing)
  BY <1>1, <1>2, Unions DEF Number
<1>4. Cardinality(some \cup In(Forgetting)) = Cardinality(some) + Number(Forgetting)
  BY <1>1, <1>2, <1>3, Unions DEF Number
<1>5. some \cup In(Forgetting) \in SUBSET Requests
  BY DEF In
<1>6. Cardinality(some \cup In(Forgetting)) <= All
  BY <1>5, RequestsAssumption, FS_Subset DEF All
<1>7. QED
  BY <1>3, <1>4, <1>6

(* A request that moves is counted in its new phase and not in its old one.*)
LEMMA Moved ==
  ASSUME IInv, NEW r \in Requests, NEW p \in Phases, NEW k \in Nat, GoWith(r, p, k), NEW phases
  PROVE  /\ Number(phases) \in Nat /\ Number(phases)' \in Nat
         /\ Number(phases)' = Number(phases) - (IF req[r].phase \in phases THEN 1 ELSE 0)
                                             + (IF p \in phases THEN 1 ELSE 0)
<1>1. req'[r].phase = p /\ \A q \in Requests \ {r} : req'[q] = req[q]
  BY ReqForms
<1>2. IsFiniteSet(In(phases)) /\ Number(phases) \in Nat
  BY InFinite
<1> DEFINE rest == In(phases) \ {r}
<1>3. /\ IsFiniteSet(rest)
      /\ Cardinality(rest) = Number(phases) - (IF req[r].phase \in phases THEN 1 ELSE 0)
  BY <1>2, FS_RemoveElement DEF In, Number
<1>4. Cardinality(rest) \in Nat
  BY <1>3, FS_CardinalityType
<1>5. CASE p \in phases
  <2>1. In(phases)' = rest \cup {r}
    BY <1>1, <1>5 DEF In
  <2>2. Cardinality(rest \cup {r}) = Cardinality(rest) + 1
    BY <1>3, FS_AddElement
  <2>3. Number(phases)' = Cardinality(rest) + 1
    BY <2>1, <2>2 DEF Number
  <2>4. QED
    BY <1>2, <1>3, <1>4, <1>5, <2>3
<1>6. CASE p \notin phases
  <2>1. In(phases)' = rest
    BY <1>1, <1>6 DEF In
  <2>2. Number(phases)' = Cardinality(rest)
    BY <2>1 DEF Number
  <2>3. QED
    BY <1>2, <1>3, <1>4, <1>6, <2>2
<1>7. QED
  BY <1>5, <1>6

LEMMA SameNumber ==
  ASSUME req' = req, NEW phases
  PROVE  Number(phases)' = Number(phases)
  BY DEF Number, In

(* Counts and products.                                                    *)
LEMMA Products ==
  ASSUME Requests # {}, NEW n \in Nat, n < All
  PROVE  /\ Forgotten(n) \in Nat
         /\ n > 0 => Forgotten(n - 1) = Forgotten(n) + (MaxAttempts - 1)
         /\ (MaxAttempts - 1) + Forgotten(n) + (All - n) <= MaxAttempts * All
         /\ All <= MaxAttempts * All /\ MaxAttempts * All \in Nat
<1>1. MaxAttempts \in Nat /\ MaxAttempts >= 1 /\ All \in Nat
  BY MaxAttemptsAssumption, InFinite
<1> DEFINE m == MaxAttempts - 1
<1>2. m \in Nat /\ MaxAttempts = m + 1 /\ All - 1 - n \in Nat
  BY <1>1
<1>3. Forgotten(n) \in Nat
  BY <1>2 DEF Forgotten
<1>4. n > 0 => Forgotten(n - 1) = Forgotten(n) + m
  <2>1. m * (All - 1 - (n - 1)) = m * (All - 1 - n) + m
    BY <1>1, <1>2
  <2>2. QED
    BY <2>1 DEF Forgotten
<1>5. MaxAttempts * All = m * All + All
  BY <1>1, <1>2
<1>6. m * All \in Nat /\ m * n \in Nat
  BY <1>1, <1>2
<1>7. m + Forgotten(n) = m * All - m * n
  BY <1>1, <1>2 DEF Forgotten
<1>8. QED
  BY <1>1, <1>3, <1>4, <1>5, <1>6, <1>7

LEMMA CountedIs ==
  ASSUME IInv
  PROVE  /\ Counted \in Nat /\ Counted <= MaxAttempts - 1 /\ Counted <= fails
         /\ fails' = fails => Counted' = Counted
         /\ fails' = 0 => Counted' = 0
         /\ fails' = fails + 1 /\ fails + 1 < MaxAttempts => Counted' = Counted + 1
         /\ fails' = fails + 1 => Counted' >= Counted /\ Counted' \in Nat
  BY MaxAttemptsAssumption DEF Counted, IInv, Typed

---------------------------------------------------------------------------
One(p, phases) == IF p \in phases THEN 1 ELSE 0

(* A request moves, and neither sets the lock nor is to forget a count: a  *)
(* guess more has to be counted, or held by a request, or paid by an error.*)
LEMMA MoveCounts ==
  ASSUME IInv, Counts, NEW r \in Requests, NEW p \in Phases, NEW k \in Nat, GoWith(r, p, k),
         req[r].phase # "forgetting", p # "forgetting", locked' = locked,
         guesses' \in Nat, errors' \in Nat, errors' <= MaxErrors, fails' \in Nat,
         ~locked => guesses' - guesses <= (errors' - errors) + (Counted' - Counted)
                                          + One(p, Guessing) - One(req[r].phase, Guessing),
         locked => guesses' - guesses <= (errors' - errors)
                                         + One(req[r].phase, Challenged) - One(p, Challenged)
  PROVE  Counts'
<1>1. Number(Forgetting)' = Number(Forgetting)
  BY Moved, InFinite DEF Forgetting
<1>2. /\ Number(Guessing) \in Nat /\ Number(Challenged) \in Nat
      /\ Number(Guessing)' = Number(Guessing) + One(p, Guessing) - One(req[r].phase, Guessing)
      /\ Number(Challenged)' = Number(Challenged) + One(p, Challenged) - One(req[r].phase, Challenged)
      /\ One(p, Guessing) \in Int /\ One(req[r].phase, Guessing) \in Int
      /\ One(p, Challenged) \in Int /\ One(req[r].phase, Challenged) \in Int
  BY Moved DEF One
<1>3. /\ Counted \in Nat /\ Counted' \in Nat /\ errors \in Nat /\ guesses \in Nat
  BY CountedIs, MaxAttemptsAssumption DEF Counted, Counts, IInv, Typed
<1>4. All \in Nat /\ Number(Forgetting) \in Nat /\ MaxAttempts * All \in Nat /\ All' = All
  BY InFinite, MaxAttemptsAssumption DEF All
<1>5. Unlocked'
  <2>1. SUFFICES ASSUME ~locked
                 PROVE  /\ Number(Forgetting) < All
                        /\ guesses' <= errors' + Counted' + Number(Guessing)' + Forgotten(Number(Forgetting))
    BY <1>1, <1>4 DEF Unlocked, Forgotten
  <2>2. /\ Number(Forgetting) < All
        /\ guesses <= errors + Counted + Number(Guessing) + Forgotten(Number(Forgetting))
    BY <2>1 DEF Counts, Unlocked
  <2>3. Forgotten(Number(Forgetting)) \in Nat
    BY <1>4, <2>2, Products
  <2>4. QED
    BY <1>2, <1>3, <2>1, <2>2, <2>3
<1>6. Locked'
  <2>1. SUFFICES ASSUME locked PROVE guesses' + Number(Challenged)' <= MaxAttempts * All + errors'
    BY <1>4 DEF Locked
  <2>2. guesses + Number(Challenged) <= MaxAttempts * All + errors
    BY <2>1 DEF Counts, Locked
  <2>3. QED
    BY <1>2, <1>3, <1>4, <2>1, <2>2
<1>7. QED
  BY <1>5, <1>6 DEF Counts

(* The guesses are counted from here on.                                   *)
LEMMA ResetCounts ==
  ASSUME IInv, Requests # {}, guesses' = 0, errors' \in Nat, errors' <= MaxErrors, fails' \in Nat,
         \E r \in Requests : req'[r].phase # "forgetting"
  PROVE  Counts'
<1>1. Number(Forgetting)' < All' /\ Number(Forgetting)' \in Nat /\ Number(Guessing)' \in Nat
      /\ Number(Challenged)' \in Nat /\ Number(Challenged)' <= All' /\ All' = All
  <2>1. \A phases : LET n == Cardinality({r \in Requests : req'[r].phase \in phases}) IN
          n \in Nat /\ n <= All /\ ((\E r \in Requests : req'[r].phase \notin phases) => n < All)
    <3>1. ASSUME NEW phases, NEW S, S = {r \in Requests : req'[r].phase \in phases}
          PROVE  /\ Cardinality(S) \in Nat /\ Cardinality(S) <= All
                 /\ (\E r \in Requests : req'[r].phase \notin phases) => Cardinality(S) < All
      <4>1. IsFiniteSet(Requests) /\ S \in SUBSET Requests
        BY <3>1, RequestsAssumption
      <4>2. IsFiniteSet(S) /\ Cardinality(S) <= All /\ (Cardinality(S) = All => S = Requests)
        BY <4>1, FS_Subset DEF All
      <4>3. Cardinality(S) \in Nat /\ All \in Nat
        BY <4>1, <4>2, FS_CardinalityType DEF All
      <4>4. QED
        BY <3>1, <4>2, <4>3
    <3>2. QED
      BY <3>1
  <2>2. QED
    BY <2>1 DEF Number, In, All, Forgetting
<1>2. Counted' \in Nat
  BY MaxAttemptsAssumption DEF Counted
<1>3. Forgotten(Number(Forgetting)') \in Nat /\ All <= MaxAttempts * All /\ MaxAttempts * All \in Nat
      /\ All \in Nat
  BY <1>1, Products, InFinite
<1>4. Unlocked'
  BY <1>1, <1>2, <1>3 DEF Unlocked, Forgotten
<1>5. Locked'
  BY <1>1, <1>3 DEF Locked
<1>6. QED
  BY <1>4, <1>5 DEF Counts

(* A request that set the lock before now forgets the count, or not.       *)
LEMMA ForgetCounts ==
  ASSUME IInv, Counts, NEW r \in Requests, NEW p \in {"mailing", "idle"}, NEW k \in Nat,
         GoWith(r, p, k), At(r, "forgetting"), locked' = locked, guesses' = guesses,
         errors' \in Nat, errors <= errors', errors' <= MaxErrors, fails' \in Nat
  PROVE  Counts'
<1>1. p \in Phases /\ All' = All
  BY DEF Phases, All
<1>2. /\ Number(Forgetting)' = Number(Forgetting) - 1 /\ Number(Forgetting) \in Nat
      /\ Number(Forgetting)' \in Nat
      /\ Number(Guessing)' = Number(Guessing) /\ Number(Guessing) \in Nat
      /\ Number(Challenged)' = Number(Challenged) /\ Number(Challenged) \in Nat
  BY <1>1, Moved DEF At, Forgetting, Guessing, Challenged
<1>3. /\ Counted \in Nat /\ Counted <= MaxAttempts - 1 /\ errors \in Nat /\ guesses \in Nat
      /\ All \in Nat /\ MaxAttempts \in Nat /\ MaxAttempts >= 1
  BY CountedIs, InFinite, MaxAttemptsAssumption DEF Counts, IInv, Typed
<1>4. Counted' \in Nat
  BY MaxAttemptsAssumption DEF Counted
<1>5. Unlocked'
  <2>1. SUFFICES ASSUME ~locked
                 PROVE  /\ Number(Forgetting)' < All
                        /\ guesses <= errors' + Counted' + Number(Guessing) + Forgotten(Number(Forgetting)')
    BY <1>1, <1>2 DEF Unlocked, Forgotten
  <2>2. /\ Number(Forgetting) < All
        /\ guesses <= errors + Counted + Number(Guessing) + Forgotten(Number(Forgetting))
    BY <2>1 DEF Counts, Unlocked
  <2>3. /\ Forgotten(Number(Forgetting)) \in Nat
        /\ Forgotten(Number(Forgetting)') = Forgotten(Number(Forgetting)) + (MaxAttempts - 1)
    BY <1>2, <2>2, Products
  <2>4. QED
    BY <1>2, <1>3, <1>4, <2>2, <2>3
<1>6. Locked'
  <2>1. SUFFICES ASSUME locked PROVE guesses + Number(Challenged) <= MaxAttempts * All + errors'
    BY <1>1, <1>2 DEF Locked
  <2>2. guesses + Number(Challenged) <= MaxAttempts * All + errors
    BY <2>1 DEF Counts, Locked
  <2>3. MaxAttempts * All \in Nat
    BY <1>3
  <2>4. QED
    BY <1>2, <1>3, <2>2, <2>3
<1>7. QED
  BY <1>5, <1>6 DEF Counts

(* The lock falls: who was challenged may still guess.                     *)
LEMMA BlockCounts ==
  ASSUME IInv, Counts, NEW r \in Requests, block(r)
  PROVE  Counts'
<1>1. /\ At(r, "locking") /\ locked' = TRUE /\ UNCHANGED <<fails, errors, guesses>>
      /\ Go(r, "forgetting")
  BY DEF block
<1>2. GoWith(r, "forgetting", req[r].link) /\ req[r].link \in Nat
  BY <1>1, ReqForms, SameErrors DEF Phases
<1>3. Number(Challenged)' = Number(Challenged) /\ Number(Challenged) \in Nat
  BY <1>1, <1>2, Moved DEF At, Challenged, Phases
<1>4. /\ Counted \in Nat /\ Counted <= MaxAttempts - 1 /\ errors \in Nat /\ guesses \in Nat
      /\ All \in Nat /\ MaxAttempts \in Nat /\ All' = All /\ MaxAttempts * All \in Nat
      /\ Number(Forgetting) \in Nat /\ Number(Guessing) \in Nat /\ locked \in BOOLEAN
  BY CountedIs, InFinite, MaxAttemptsAssumption DEF Counts, IInv, Typed, All
<1>5. guesses + Number(Challenged) <= MaxAttempts * All + errors
  <2>1. CASE locked
    BY <2>1 DEF Counts, Locked
  <2>2. CASE ~locked
    <3>1. /\ Number(Forgetting) < All
          /\ guesses <= errors + Counted + Number(Guessing) + Forgotten(Number(Forgetting))
      BY <2>2 DEF Counts, Unlocked
    <3>2. /\ Forgotten(Number(Forgetting)) \in Nat
          /\ (MaxAttempts - 1) + Forgotten(Number(Forgetting)) + (All - Number(Forgetting))
               <= MaxAttempts * All
      BY <1>4, <3>1, Products
    <3>3. QED
      BY <1>3, <1>4, <3>1, <3>2, Disjoint
  <2>3. QED
    BY <2>1, <2>2
<1>6. QED
  BY <1>1, <1>3, <1>4, <1>5 DEF Counts, Unlocked, Locked

LEMMA MoreErrors ==
  ASSUME IInv, Counts
  PROVE  /\ Throws => errors' = errors + 1 /\ errors' \in Nat /\ errors' <= MaxErrors
         /\ errors' = errors => errors' \in Nat /\ errors' <= MaxErrors
         /\ errors \in Nat /\ errors <= MaxErrors /\ guesses \in Nat /\ guesses + 1 \in Nat
         /\ fails \in Nat /\ fails + 1 \in Nat /\ Counted \in Nat
  BY BoundsAssumption, CountedIs DEF Throws, IInv, Typed, Counts

LEMMA ChallengeCounts ==
  ASSUME IInv, Counts, NEW r \in Requests, isLocked(r) \/ answer(r) \/ clearFailures(r)
  PROVE  Counts'
<1>1. req[r].link \in Nat
  BY SameErrors
<1>2. CASE isLocked(r)
  <2>1. /\ req[r].phase = "idle" /\ fails' = fails /\ locked' = locked /\ guesses' = guesses
        /\ (~locked /\ errors' = errors) \/ Throws
        /\ GoWith(r, "challenged", req[r].link)
    BY <1>2, ReqForms DEF isLocked, At, limiter, Phases
  <2>2. /\ One("challenged", Guessing) = 0 /\ One("idle", Guessing) = 0
        /\ One("challenged", Challenged) = 1 /\ One("idle", Challenged) = 0
    BY DEF One, Guessing, Challenged
  <2>3. errors' \in Nat /\ errors' <= MaxErrors /\ errors' - errors >= 0 /\ (locked => errors' - errors = 1)
        /\ Counted' - Counted = 0
    BY <2>1, MoreErrors, CountedIs
  <2>4. QED
    BY <1>1, <2>1, <2>2, <2>3, MoreErrors, MoveCounts DEF Phases
<1>3. CASE answer(r)
  <2>1. /\ req[r].phase = "challenged" /\ fails' = fails /\ locked' = locked /\ errors' = errors
        /\ \/ GoWith(r, "right", req[r].link) /\ guesses' = guesses
           \/ GoWith(r, "wrong", req[r].link) /\ guesses' = guesses + 1
    BY <1>3, ReqForms DEF answer, At, limiter, Phases
  <2>2. /\ One("challenged", Guessing) = 0 /\ One("right", Guessing) = 0 /\ One("wrong", Guessing) = 1
        /\ One("challenged", Challenged) = 1 /\ One("right", Challenged) = 0
        /\ One("wrong", Challenged) = 0
    BY DEF One, Guessing, Challenged
  <2>3. errors' \in Nat /\ errors' <= MaxErrors /\ errors' - errors = 0 /\ Counted' - Counted = 0
    BY <2>1, MoreErrors, CountedIs
  <2>4. CASE GoWith(r, "right", req[r].link) /\ guesses' = guesses
    BY <1>1, <2>1, <2>2, <2>3, <2>4, MoreErrors, MoveCounts DEF Phases
  <2>5. CASE GoWith(r, "wrong", req[r].link) /\ guesses' = guesses + 1
    BY <1>1, <2>1, <2>2, <2>3, <2>5, MoreErrors, MoveCounts DEF Phases
  <2>6. QED
    BY <2>1, <2>4, <2>5
<1>4. CASE clearFailures(r)
  <2>1. /\ req[r].phase = "right" /\ locked' = locked /\ GoWith(r, "idle", req[r].link)
        /\ \/ fails' = 0 /\ guesses' = 0 /\ errors' = errors
           \/ Throws /\ fails' = fails /\ guesses' = guesses
    BY <1>4, ReqForms DEF clearFailures, At, Phases
  <2>2. /\ One("right", Guessing) = 0 /\ One("idle", Guessing) = 0
        /\ One("right", Challenged) = 0 /\ One("idle", Challenged) = 0
    BY DEF One, Guessing, Challenged
  <2>3. CASE fails' = 0 /\ guesses' = 0 /\ errors' = errors
    <3>1. req'[r].phase = "idle"
      BY <1>1, <2>1, ReqForms DEF Phases
    <3>2. QED
      BY <2>3, <3>1, MoreErrors, ResetCounts
  <2>4. CASE Throws /\ fails' = fails /\ guesses' = guesses
    BY <1>1, <2>1, <2>2, <2>4, MoreErrors, CountedIs, MoveCounts DEF Phases
  <2>5. QED
    BY <2>1, <2>3, <2>4
<1>5. QED
  BY <1>2, <1>3, <1>4

LEMMA CountCounts ==
  ASSUME IInv, Counts, NEW r \in Requests,
         recordFailure(r) \/ increment(r) \/ forget(r) \/ failUncounted(r)
  PROVE  Counts'
<1>1. req[r].link \in Nat
  BY SameErrors
<1>2. /\ One("wrong", Guessing) = 1 /\ One("counting", Guessing) = 1 /\ One("locking", Guessing) = 1
      /\ One("idle", Guessing) = 0 /\ One("mailing", Guessing) = 0
      /\ \A p \in {"idle", "wrong", "counting", "locking", "mailing"} : One(p, Challenged) = 0
  BY DEF One, Guessing, Challenged
<1>3. CASE recordFailure(r)
  <2>1. /\ req[r].phase = "wrong" /\ UNCHANGED <<fails, locked, guesses, errors>>
        /\ GoWith(r, IF locked THEN "mailing" ELSE "counting", req[r].link)
    BY <1>3, ReqForms DEF recordFailure, At, limiter, Phases
  <2>2. errors' - errors = 0 /\ Counted' - Counted = 0 /\ guesses' - guesses = 0
    BY <2>1, MoreErrors, CountedIs
  <2>3. CASE locked
    BY <1>1, <1>2, <2>1, <2>2, <2>3, MoreErrors, MoveCounts DEF Phases
  <2>4. CASE ~locked
    BY <1>1, <1>2, <2>1, <2>2, <2>4, MoreErrors, MoveCounts DEF Phases
  <2>5. QED
    BY <2>3, <2>4
<1>4. CASE increment(r)
  <2>1. /\ req[r].phase = "counting" /\ fails' = fails + 1 /\ UNCHANGED <<locked, guesses, errors>>
        /\ GoWith(r, IF fails + 1 < MaxAttempts THEN "idle" ELSE "locking", req[r].link)
    BY <1>4, ReqForms DEF increment, At, Phases
  <2>2. errors' - errors = 0 /\ guesses' - guesses = 0
    BY <2>1, MoreErrors
  <2>3. CASE fails + 1 < MaxAttempts
    <3>1. Counted' - Counted = 1 /\ GoWith(r, "idle", req[r].link)
      BY <2>1, <2>3, MoreErrors, CountedIs
    <3>2. QED
      BY <1>1, <1>2, <2>1, <2>2, <3>1, MoreErrors, MoveCounts DEF Phases
  <2>4. CASE ~(fails + 1 < MaxAttempts)
    <3>1. Counted' - Counted >= 0 /\ Counted' - Counted \in Int /\ GoWith(r, "locking", req[r].link)
      BY <2>1, <2>4, MoreErrors, CountedIs
    <3>2. QED
      BY <1>1, <1>2, <2>1, <2>2, <3>1, MoreErrors, MoveCounts DEF Phases
  <2>5. QED
    BY <2>3, <2>4
<1>5. CASE forget(r)
  <2>1. /\ At(r, "forgetting") /\ fails' = 0 /\ UNCHANGED <<locked, guesses>>
        /\ \/ GoWith(r, "mailing", req[r].link) /\ errors' = errors
           \/ GoWith(r, "idle", req[r].link) /\ Throws
    BY <1>5, ReqForms DEF forget, Phases
  <2>2. errors' \in Nat /\ errors <= errors' /\ errors' <= MaxErrors /\ fails' \in Nat
    BY <2>1, MoreErrors
  <2>3. QED
    BY <1>1, <2>1, <2>2, ForgetCounts
<1>6. CASE failUncounted(r)
  <2>1. /\ req[r].phase \in {"wrong", "counting", "locking", "forgetting"} /\ Throws
        /\ UNCHANGED <<fails, locked, guesses>> /\ GoWith(r, "idle", req[r].link)
    BY <1>6, ReqForms DEF failUncounted, limiter, Phases
  <2>2. errors' - errors = 1 /\ Counted' - Counted = 0 /\ guesses' - guesses = 0
        /\ errors' \in Nat /\ errors <= errors' /\ errors' <= MaxErrors
    BY <2>1, MoreErrors, CountedIs
  <2>3. CASE req[r].phase = "forgetting"
    BY <1>1, <2>1, <2>2, <2>3, MoreErrors, ForgetCounts DEF At
  <2>4. CASE req[r].phase \in {"wrong", "counting", "locking"}
    BY <1>1, <1>2, <2>1, <2>2, <2>4, MoreErrors, MoveCounts DEF Phases
  <2>5. QED
    BY <2>1, <2>3, <2>4
<1>7. QED
  BY <1>3, <1>4, <1>5, <1>6

(* What is mailed or followed is no guess.                                 *)
LEMMA LinkCounts ==
  ASSUME IInv, Counts, NEW r \in Requests,
         \/ saveToken(r) \/ tokenUnsaved(r) \/ onOtpUnlock(r) \/ discard(r) \/ discardFails(r)
         \/ \E link \in Links : otpUnlock(r, link)
  PROVE  Counts'
<1>1. /\ req[r].phase \in {"idle", "mailing", "posting", "discarding"}
      /\ UNCHANGED <<fails, locked, guesses>> /\ (errors' = errors \/ Throws)
  BY DEF saveToken, tokenUnsaved, onOtpUnlock, discard, discardFails, otpUnlock, At, limiter
<1>2. req' = req \/ \E p \in {"idle", "posting", "following"}, k \in Nat : GoWith(r, p, k)
  <2>1. CASE saveToken(r)
    BY <2>1 DEF saveToken, IInv, Typed
  <2>2. CASE tokenUnsaved(r)
    BY <2>2, ReqForms, SameErrors DEF tokenUnsaved, Phases
  <2>3. CASE onOtpUnlock(r) \/ discard(r) \/ discardFails(r)
    BY <2>3 DEF onOtpUnlock, discard, discardFails
  <2>4. ASSUME NEW link \in Links, otpUnlock(r, link), req' # req
        PROVE  \E k \in Nat : GoWith(r, "following", k)
    BY <2>4, Followed
  <2>5. QED
    BY <2>1, <2>2, <2>3, <2>4
<1>3. /\ errors' \in Nat /\ errors' <= MaxErrors /\ errors' - errors >= 0 /\ errors' - errors \in Int
      /\ Counted' - Counted = 0 /\ guesses' - guesses = 0 /\ fails' \in Nat /\ guesses' \in Nat
  BY <1>1, MoreErrors, CountedIs
<1>4. \A p \in {"idle", "mailing", "posting", "discarding", "following"} :
        One(p, Guessing) = 0 /\ One(p, Challenged) = 0
  BY DEF One, Guessing, Challenged
<1>5. CASE req' = req
  <2>1. GoWith(r, req[r].phase, req[r].link) /\ req[r].phase \in Phases /\ req[r].link \in Nat
    <3>1. req[r] = [phase |-> req[r].phase, link |-> req[r].link]
      BY ReqForms DEF Steps
    <3>2. req = [req EXCEPT ![r] = req[r]]
      BY ReqForms
    <3>3. QED
      BY <1>5, <3>1, <3>2, ReqForms DEF GoWith, Steps
  <2>2. QED
    BY <1>1, <1>3, <1>4, <2>1, MoveCounts
<1>6. ASSUME NEW p \in {"idle", "posting", "following"}, NEW k \in Nat, GoWith(r, p, k)
      PROVE  Counts'
  BY <1>1, <1>3, <1>4, <1>6, MoveCounts DEF Phases
<1>7. QED
  BY <1>2, <1>5, <1>6

LEMMA UnlockCounts ==
  ASSUME IInv, Counts, NEW r \in Requests, unlock(r)
  PROVE  Counts'
<1>1. PICK p \in {"unlocking", "discarding"} : Go(r, p)
  BY DEF unlock
<1>2. GoWith(r, p, req[r].link) /\ req[r].link \in Nat /\ req'[r].phase = p
  BY <1>1, ReqForms, SameErrors DEF Phases
<1>3. /\ req[r].phase \in {"following", "unlocking"}
      /\ \/ fails' = 0 /\ guesses' = 0 /\ errors' = errors
         \/ fails' = fails /\ errors' = errors /\ guesses' = 0
         \/ fails' = fails /\ errors' = errors /\ locked' = locked /\ guesses' = guesses
         \/ fails' = fails /\ Throws /\ locked' = locked /\ guesses' = guesses
  <2>1. locked \in BOOLEAN
    BY SameErrors
  <2>2. CASE At(r, "following") /\ fails' = 0 /\ guesses' = 0 /\ UNCHANGED <<locked, errors>>
    BY <2>2 DEF At
  <2>3. CASE At(r, "unlocking") /\ locked' = FALSE /\ guesses' = (IF locked THEN 0 ELSE guesses)
             /\ UNCHANGED <<fails, errors>>
    BY <2>1, <2>3 DEF At
  <2>4. CASE req[r].phase \in {"following", "unlocking"} /\ Throws /\ UNCHANGED <<fails, locked, guesses>>
    BY <2>4
  <2>5. \/ At(r, "following") /\ fails' = 0 /\ guesses' = 0 /\ UNCHANGED <<locked, errors>>
        \/ At(r, "unlocking") /\ locked' = FALSE /\ guesses' = (IF locked THEN 0 ELSE guesses)
             /\ UNCHANGED <<fails, errors>>
        \/ req[r].phase \in {"following", "unlocking"} /\ Throws /\ UNCHANGED <<fails, locked, guesses>>
    BY Zenon DEF unlock
  <2>6. QED
    BY <2>2, <2>3, <2>4, <2>5
<1>4. \A q \in {"following", "unlocking", "discarding"} : One(q, Guessing) = 0 /\ One(q, Challenged) = 0
  BY DEF One, Guessing, Challenged
<1>5. errors' \in Nat /\ errors' <= MaxErrors /\ fails' \in Nat /\ errors' - errors \in Nat
  BY <1>3, MoreErrors
<1>6. CASE guesses' = 0
  BY <1>2, <1>5, <1>6, ResetCounts
<1>7. CASE fails' = fails /\ locked' = locked /\ guesses' = guesses
  <2>1. Counted' - Counted = 0 /\ guesses' - guesses = 0 /\ guesses' \in Nat
    BY <1>7, MoreErrors, CountedIs
  <2>2. QED
    BY <1>2, <1>3, <1>4, <1>5, <1>7, <2>1, MoveCounts DEF Phases
<1>8. QED
  BY <1>3, <1>6, <1>7

LEMMA RestCounts ==
  ASSUME IInv, Counts,
         otherToken \/ lockExpires \/ countExpires \/ linkExpires \/ UNCHANGED vars
  PROVE  Counts'
<1>1. req' = req /\ errors' = errors
  BY DEF otherToken, lockExpires, countExpires, linkExpires, vars
<1>2. CASE lockExpires \/ countExpires
  <2>1. guesses' = 0 /\ fails' \in Nat /\ Quiet
    BY <1>2, MoreErrors DEF lockExpires, countExpires
  <2>2. \A r \in Requests : req'[r].phase # "forgetting"
    BY <1>1, <2>1 DEF Quiet, At
  <2>3. Requests = {} => Counts'
    BY <1>1, <2>1, MoreErrors DEF Counts
  <2>4. QED
    BY <1>1, <2>1, <2>2, <2>3, MoreErrors, ResetCounts
<1>3. CASE otherToken \/ linkExpires \/ UNCHANGED vars
  <2>1. UNCHANGED <<fails, locked, guesses, errors, req>>
    BY <1>3 DEF otherToken, linkExpires, vars, limiter
  <2>2. QED
    BY <2>1, SameNumber DEF Counts, Unlocked, Locked, Counted, Forgotten, All
<1>4. QED
  BY <1>2, <1>3

LEMMA CountsHold ==
  ASSUME IInv, Counts, [Next]_vars
  PROVE  Counts'
<1>1. ASSUME NEW r \in Requests, mfaVerify(r) PROVE Counts'
  BY <1>1, ChallengeCounts, CountCounts, BlockCounts, LinkCounts DEF mfaVerify
<1>2. ASSUME NEW r \in Requests, followLink(r) PROVE Counts'
  BY <1>2, UnlockCounts, LinkCounts DEF followLink
<1>3. QED
  BY <1>1, <1>2, RestCounts DEF Next

LEMMA InitCounts == Init => Counts
<1> SUFFICES ASSUME Init PROVE Counts
  OBVIOUS
<1>1. guesses = 0 /\ errors = 0 /\ fails = 0 /\ ~locked /\ \A r \in Requests : req[r].phase = "idle"
  BY DEF Init
<1>2. MaxErrors \in Nat /\ Counted \in Nat
  BY <1>1, BoundsAssumption, MaxAttemptsAssumption DEF Counted
<1>3. ASSUME Requests # {} PROVE Unlocked /\ Locked
  <2>1. Number(Forgetting) < All /\ Number(Forgetting) \in Nat /\ Number(Guessing) \in Nat
    BY <1>1, <1>3, InFinite DEF Forgetting
  <2>2. QED
    BY <1>1, <1>2, <1>3, <2>1, Products DEF Unlocked, Locked
<1>4. QED
  BY <1>1, <1>2, <1>3 DEF Counts

(* However requests interleave, the wrong answers between two resets are   *)
(* bounded by the attempts times the requests there can be at once, and    *)
(* the errors.                                                             *)
THEOREM OtpGuessesBound == Spec => []GuessesBounded
<1>1. Init => Counts
  BY InitCounts
<1>2. ASSUME IInv, Counts PROVE GuessesBounded
  <2>1. /\ guesses \in Nat /\ errors \in Nat /\ All \in Nat /\ MaxAttempts \in Nat
        /\ Number(Guessing) \in Nat /\ Number(Forgetting) \in Nat /\ Number(Challenged) \in Nat
        /\ Counted \in Nat /\ Counted <= MaxAttempts - 1 /\ locked \in BOOLEAN
    BY <1>2, InFinite, CountedIs, MaxAttemptsAssumption DEF Counts, IInv, Typed
  <2>2. MaxAttempts * All \in Nat
    BY <2>1
  <2>3. CASE Requests = {}
    BY <1>2, <2>1, <2>2, <2>3 DEF Counts, GuessesBounded, All
  <2>4. CASE Requests # {} /\ locked
    BY <1>2, <2>1, <2>2, <2>4 DEF Counts, Locked, GuessesBounded, All
  <2>5. CASE Requests # {} /\ ~locked
    <3>1. /\ Number(Forgetting) < All
          /\ guesses <= errors + Counted + Number(Guessing) + Forgotten(Number(Forgetting))
      BY <1>2, <2>5 DEF Counts, Unlocked
    <3>2. /\ Forgotten(Number(Forgetting)) \in Nat
          /\ (MaxAttempts - 1) + Forgotten(Number(Forgetting)) + (All - Number(Forgetting))
               <= MaxAttempts * All
      BY <2>1, <2>5, <3>1, Products
    <3>3. guesses <= MaxAttempts * All + errors
      BY <2>1, <2>2, <3>1, <3>2, Disjoint
    <3>4. QED
      BY <3>3 DEF GuessesBounded, All
  <2>6. QED
    BY <2>1, <2>3, <2>4, <2>5
<1>3. IInv /\ Counts /\ [Next]_vars => Counts'
  BY CountsHold
<1>4. QED
  BY <1>1, <1>2, <1>3, InvariantHolds, PTL DEF Spec

---------------------------------------------------------------------------
(* A request moves: the counter or the links grow only with it.            *)
LEMMA MoveBounds ==
  ASSUME IInv, Bounds, NEW r \in Requests, NEW p \in Phases, NEW k \in Nat, GoWith(r, p, k),
         fails' \in Nat, errors' \in Nat, links' \in Nat, mailed' \subseteq 1..links',
         \/ fails' <= MaxAttempts - 1
         \/ fails' - fails <= One(p, Over) - One(req[r].phase, Over) + (errors' - errors),
         \/ links' <= MaxLinks /\ req[r].phase \notin ToMail
         \/ links' - links <= One(req[r].phase, ToMail) - One(p, ToMail)
  PROVE  Bounds'
<1>1. /\ Number(Over) \in Nat /\ Number(ToMail) \in Nat
      /\ Number(Over)' \in Nat /\ Number(ToMail)' \in Nat
      /\ Number(Over)' = Number(Over) + One(p, Over) - One(req[r].phase, Over)
      /\ Number(ToMail)' = Number(ToMail) + One(p, ToMail) - One(req[r].phase, ToMail)
      /\ \A phases : One(p, phases) \in {0, 1} /\ One(req[r].phase, phases) \in {0, 1}
  BY Moved DEF One
<1>2. /\ fails \in Nat /\ errors \in Nat /\ links \in Nat /\ MaxAttempts \in Nat \ {0} /\ MaxLinks \in Nat
      /\ All \in Nat /\ All' = All
  BY MaxAttemptsAssumption, BoundsAssumption, InFinite DEF IInv, Typed, All
<1>3. fails' <= MaxAttempts - 1 + Number(Over)' + errors'
  BY <1>1, <1>2 DEF Bounds
<1>4. links' + Number(ToMail)' <= MaxLinks + All
  <2>1. CASE links' <= MaxLinks /\ req[r].phase \notin ToMail
    <3>1. Number(ToMail) < All /\ One(req[r].phase, ToMail) = 0
      BY <2>1, InFinite DEF One
    <3>2. QED
      BY <1>1, <1>2, <2>1, <3>1
  <2>2. CASE links' - links <= One(req[r].phase, ToMail) - One(p, ToMail)
    BY <1>1, <1>2, <2>2 DEF Bounds
  <2>3. QED
    BY <2>1, <2>2
<1>5. QED
  BY <1>2, <1>3, <1>4 DEF Bounds

LEMMA Ones ==
  /\ \A p \in {"locking", "forgetting"} : One(p, Over) = 1
  /\ \A p \in Phases \ {"locking", "forgetting"} : One(p, Over) = 0
  /\ \A p \in {"challenged", "right", "wrong", "counting", "locking", "forgetting", "mailing"} :
       One(p, ToMail) = 1
  /\ \A p \in {"idle", "posting", "following", "unlocking", "discarding"} :
       One(p, ToMail) = 0 /\ p \notin ToMail
  BY DEF One, Over, ToMail, Phases

LEMMA BoundsHold ==
  ASSUME IInv, Counts, Bounds, [Next]_vars
  PROVE  Bounds'
<1>1. /\ mailed \subseteq 1..links /\ links \in Nat /\ fails \in Nat /\ errors \in Nat
      /\ MaxAttempts \in Nat \ {0} /\ MaxLinks \in Nat
  BY MaxAttemptsAssumption, BoundsAssumption DEF Bounds, IInv, Typed
<1>2. ASSUME NEW r \in Requests, NEW p \in Phases, Go(r, p), UNCHANGED mail, fails' \in {0, fails},
             \/ errors' = errors /\ (fails' = 0 \/ One(p, Over) >= One(req[r].phase, Over))
             \/ Throws,
             One(req[r].phase, ToMail) >= One(p, ToMail)
      PROVE  Bounds'
  <2>1. GoWith(r, p, req[r].link) /\ req[r].link \in Nat /\ mailed' = mailed /\ links' = links
        /\ \A phases : One(p, phases) \in {0, 1} /\ One(req[r].phase, phases) \in {0, 1}
    BY <1>2, ReqForms, SameErrors DEF mail, One
  <2>2. errors' \in Nat /\ fails' \in Nat
    BY <1>1, <1>2, MoreErrors
  <2>3. fails' <= MaxAttempts - 1
        \/ fails' - fails <= One(p, Over) - One(req[r].phase, Over) + (errors' - errors)
    BY <1>1, <1>2, <2>1, MoreErrors
  <2>4. QED
    BY <1>1, <1>2, <2>1, <2>2, <2>3, MoveBounds
<1>3. ASSUME NEW r \in Requests, isLocked(r) PROVE Bounds'
  <2>1. /\ req[r].phase = "idle" /\ fails' = fails /\ mailed' = mailed /\ links' = links /\ links <= MaxLinks
        /\ errors' = errors \/ Throws
        /\ GoWith(r, "challenged", req[r].link) /\ req[r].link \in Nat
    BY <1>1, <1>3, ReqForms, SameErrors DEF isLocked, MayStart, At, limiter, mail, Phases
  <2>2. errors' \in Nat /\ errors' >= errors
    BY <2>1, MoreErrors
  <2>3. fails' - fails <= One("challenged", Over) - One(req[r].phase, Over) + (errors' - errors)
    BY <1>1, <2>1, <2>2, Ones DEF Phases
  <2>4. QED
    BY <1>1, <2>1, <2>2, <2>3, Ones, MoveBounds DEF Phases
<1>4. ASSUME NEW r \in Requests, answer(r) \/ clearFailures(r) PROVE Bounds'
  BY <1>2, <1>4, Ones DEF answer, clearFailures, At, limiter, Phases
<1>5. ASSUME NEW r \in Requests, recordFailure(r) \/ block(r) \/ forget(r) \/ failUncounted(r) PROVE Bounds'
  BY <1>2, <1>5, Ones DEF recordFailure, block, forget, failUncounted, At, limiter, Phases
<1>6. ASSUME NEW r \in Requests, increment(r) PROVE Bounds'
  <2>1. /\ req[r].phase = "counting" /\ fails' = fails + 1 /\ mailed' = mailed /\ links' = links
        /\ errors' = errors /\ req[r].link \in Nat
        /\ GoWith(r, IF fails + 1 < MaxAttempts THEN "idle" ELSE "locking", req[r].link)
    BY <1>6, ReqForms, SameErrors DEF increment, At, mail, Phases
  <2>2. /\ One("counting", Over) = 0 /\ One("locking", Over) = 1
        /\ One("counting", ToMail) = 1 /\ One("locking", ToMail) = 1 /\ One("idle", ToMail) = 0
    BY Ones DEF Phases
  <2>3. links' - links = 0 /\ fails' - fails = 1 /\ errors' - errors = 0
        /\ fails' \in Nat /\ errors' \in Nat /\ links' \in Nat /\ mailed' \subseteq 1..links'
    BY <1>1, <2>1
  <2>4. CASE fails + 1 < MaxAttempts
    <3>1. GoWith(r, "idle", req[r].link) /\ fails' <= MaxAttempts - 1
      BY <1>1, <2>1, <2>4
    <3>2. links' - links <= One(req[r].phase, ToMail) - One("idle", ToMail)
      BY <2>1, <2>2, <2>3
    <3>3. "idle" \in Phases /\ req[r].link \in Nat
      BY <2>1 DEF Phases
    <3>4. QED
      BY <2>3, <3>1, <3>2, <3>3, MoveBounds
  <2>5. CASE ~(fails + 1 < MaxAttempts)
    <3>1. GoWith(r, "locking", req[r].link)
      BY <2>1, <2>5
    <3>2. /\ fails' - fails <= One("locking", Over) - One(req[r].phase, Over) + (errors' - errors)
          /\ links' - links <= One(req[r].phase, ToMail) - One("locking", ToMail)
      BY <2>1, <2>2, <2>3
    <3>3. "locking" \in Phases /\ req[r].link \in Nat
      BY <2>1 DEF Phases
    <3>4. QED
      BY <2>3, <3>1, <3>2, <3>3, MoveBounds
  <2>6. QED
    BY <2>4, <2>5
<1>7. ASSUME NEW r \in Requests, tokenUnsaved(r) \/ unlock(r) PROVE Bounds'
  BY <1>2, <1>7, Ones DEF tokenUnsaved, unlock, At, limiter, Phases
<1>8. ASSUME NEW r \in Requests, saveToken(r) PROVE Bounds'
  <2>1. /\ req[r].phase = "mailing" /\ fails' = fails /\ mailed' = mailed /\ links' = links + 1
        /\ errors' = errors /\ GoWith(r, "posting", links + 1)
    BY <1>8 DEF saveToken, At, limiter
  <2>2. /\ links' \in Nat /\ mailed' \subseteq 1..links' /\ links' - links = 1 /\ fails' - fails = 0
        /\ errors' - errors = 0 /\ fails' \in Nat /\ errors' \in Nat /\ links + 1 \in Nat
    BY <1>1, <2>1
  <2>3. /\ One("mailing", Over) = 0 /\ One("posting", Over) = 0
        /\ One("mailing", ToMail) = 1 /\ One("posting", ToMail) = 0
    BY Ones DEF Phases
  <2>4. /\ fails' - fails <= One("posting", Over) - One(req[r].phase, Over) + (errors' - errors)
        /\ links' - links <= One(req[r].phase, ToMail) - One("posting", ToMail)
    BY <2>1, <2>2, <2>3
  <2>5. "posting" \in Phases /\ GoWith(r, "posting", links + 1)
    BY <2>1 DEF Phases
  <2>6. QED
    BY <2>2, <2>4, <2>5, MoveBounds
<1>9. ASSUME NEW r \in Requests, onOtpUnlock(r) PROVE Bounds'
  <2>1. /\ req[r].phase = "posting" /\ fails' = fails /\ links' = links
        /\ errors' = errors \/ Throws
        /\ GoWith(r, "idle", 0) /\ mailed' \in {mailed, mailed \cup {req[r].link}}
    BY <1>9 DEF onOtpUnlock, At, limiter
  <2>2. req[r].link \in 1..links
    BY <1>1, <2>1, SameErrors DEF IInv, PostedLinks, At
  <2>3. errors' \in Nat /\ errors' >= errors /\ mailed' \subseteq 1..links'
    BY <1>1, <2>1, <2>2, MoreErrors
  <2>4. QED
    BY <1>1, <2>1, <2>3, Ones, MoveBounds DEF Phases
<1>10. ASSUME UNCHANGED <<req, errors, links, mailed>>, fails' \in {0, fails} PROVE Bounds'
  <2>1. Number(Over)' = Number(Over) /\ Number(ToMail)' = Number(ToMail) /\ Number(Over) \in Nat
    BY <1>10, SameNumber, InFinite
  <2>2. QED
    BY <1>1, <1>10, <2>1 DEF Bounds, All
<1>11. ASSUME NEW r \in Requests, NEW link \in Links, otpUnlock(r, link) PROVE Bounds'
  <2>1. req[r].phase = "idle" /\ UNCHANGED <<errors, fails, links, mailed>>
    BY <1>11 DEF otpUnlock, At, limiter, mail
  <2>2. CASE req' = req
    BY <1>10, <2>1, <2>2
  <2>3. CASE req' # req
    <3>1. GoWith(r, "following", link) /\ link \in Nat
      BY <1>11, <2>3, Followed
    <3>2. /\ One("idle", Over) = 0 /\ One("following", Over) = 0
          /\ One("idle", ToMail) = 0 /\ One("following", ToMail) = 0
      BY Ones DEF Phases
    <3>3. /\ links' \in Nat /\ mailed' \subseteq 1..links' /\ links' - links = 0 /\ fails' - fails = 0
          /\ errors' - errors = 0 /\ fails' \in Nat /\ errors' \in Nat
      BY <1>1, <2>1
    <3>4. /\ fails' - fails <= One("following", Over) - One(req[r].phase, Over) + (errors' - errors)
          /\ links' - links <= One(req[r].phase, ToMail) - One("following", ToMail)
      BY <2>1, <3>2, <3>3
    <3>5. "following" \in Phases
      BY DEF Phases
    <3>6. QED
      BY <3>1, <3>3, <3>4, <3>5, MoveBounds
  <2>4. QED
    BY <2>2, <2>3
<1>12. ASSUME NEW r \in Requests, discard(r) PROVE Bounds'
  <2>1. req[r].phase = "discarding" /\ UNCHANGED <<errors, fails, links, mailed>> /\ GoWith(r, "idle", 0)
    BY <1>12 DEF discard, At, limiter, mail
  <2>2. /\ One("discarding", Over) = 0 /\ One("idle", Over) = 0
        /\ One("discarding", ToMail) = 0 /\ One("idle", ToMail) = 0
    BY Ones DEF Phases
  <2>3. /\ links' \in Nat /\ mailed' \subseteq 1..links' /\ links' - links = 0 /\ fails' - fails = 0
        /\ errors' - errors = 0 /\ fails' \in Nat /\ errors' \in Nat
    BY <1>1, <2>1
  <2>4. /\ fails' - fails <= One("idle", Over) - One(req[r].phase, Over) + (errors' - errors)
        /\ links' - links <= One(req[r].phase, ToMail) - One("idle", ToMail)
    BY <2>1, <2>2, <2>3
  <2>5. "idle" \in Phases /\ GoWith(r, "idle", 0)
    BY <2>1 DEF Phases
  <2>6. QED
    BY <2>3, <2>4, <2>5, MoveBounds
<1>13. ASSUME NEW r \in Requests, discardFails(r) PROVE Bounds'
  <2>1. /\ req[r].phase = "discarding" /\ UNCHANGED <<fails, links, mailed>> /\ Throws
        /\ GoWith(r, "idle", 0)
    BY <1>13 DEF discardFails, At, limiter, row, mail
  <2>2. /\ One("discarding", Over) = 0 /\ One("idle", Over) = 0
        /\ One("discarding", ToMail) = 0 /\ One("idle", ToMail) = 0
    BY Ones DEF Phases
  <2>3. /\ links' \in Nat /\ mailed' \subseteq 1..links' /\ links' - links = 0 /\ fails' - fails = 0
        /\ errors' - errors = 1 /\ fails' \in Nat /\ errors' \in Nat
    BY <1>1, <2>1, MoreErrors
  <2>4. /\ fails' - fails <= One("idle", Over) - One(req[r].phase, Over) + (errors' - errors)
        /\ links' - links <= One(req[r].phase, ToMail) - One("idle", ToMail)
    BY <2>1, <2>2, <2>3
  <2>5. "idle" \in Phases /\ GoWith(r, "idle", 0)
    BY <2>1 DEF Phases
  <2>6. QED
    BY <2>3, <2>4, <2>5, MoveBounds
<1>14. ASSUME otherToken \/ lockExpires \/ countExpires \/ linkExpires \/ UNCHANGED vars PROVE Bounds'
  BY <1>10, <1>14 DEF otherToken, lockExpires, countExpires, linkExpires, vars, limiter, mail
<1>15. QED
  BY <1>3, <1>4, <1>5, <1>6, <1>7, <1>8, <1>9, <1>11, <1>12, <1>13, <1>14 DEF Next, mfaVerify, followLink

(* Types; the counter passes the threshold only by the requests and errors *)
(* that were under way when it was reached.                                *)
THEOREM TypeCorrect == Spec => []TypeOK
<1>1. Init => Counts /\ Bounds
  <2> SUFFICES ASSUME Init PROVE Counts /\ Bounds
    OBVIOUS
  <2>1. fails = 0 /\ errors = 0 /\ links = 0 /\ mailed = {} /\ Counts
    BY InitCounts DEF Init
  <2>2. /\ Number(Over) \in Nat /\ Number(ToMail) \in Nat /\ All \in Nat /\ Number(ToMail) <= All
        /\ MaxAttempts \in Nat \ {0} /\ MaxLinks \in Nat
    BY InFinite, MaxAttemptsAssumption, BoundsAssumption
  <2>3. QED
    BY <2>1, <2>2 DEF Bounds
<1>2. IInv /\ Counts /\ Bounds /\ [Next]_vars => Counts' /\ Bounds'
  BY CountsHold, BoundsHold
<1>3. ASSUME IInv, Once, Counts, Bounds PROVE TypeOK
  <2>1. /\ fails \in Nat /\ errors \in 0..MaxErrors /\ links \in Nat /\ guesses \in Nat
        /\ MaxAttempts \in Nat \ {0} /\ MaxLinks \in Nat /\ MaxErrors \in Nat
        /\ All \in Nat /\ Number(Over) \in Nat /\ Number(Over) <= All /\ Number(ToMail) \in Nat
    BY <1>3, InFinite, MaxAttemptsAssumption, BoundsAssumption DEF IInv, Typed, Counts
  <2>2. fails \in 0..(MaxAttempts + All + MaxErrors - 1)
    BY <1>3, <2>1 DEF Bounds
  <2>3. Links = 1..(MaxLinks + All) /\ links <= MaxLinks + All
    BY <1>3, <2>1 DEF Bounds, Links, All
  <2>4. /\ links \in Links \cup {0} /\ slot \in Links \cup {0}
        /\ mailed \subseteq Links /\ lifted \subseteq Links
    BY <1>3, <2>1, <2>3 DEF IInv, Typed, RowHoldsLast, Bounds, Once, LiftedAreIssued
  <2>5. req \in [Requests -> [phase : Phases, link : Links \cup {0}]]
    <3>1. req \in [Requests -> Steps]
      BY <1>3 DEF IInv, Typed
    <3>2. ASSUME NEW r \in Requests PROVE req[r] \in [phase : Phases, link : Links \cup {0}]
      <4>1. req[r] \in Steps /\ req[r].link \in Nat /\ req[r].link <= links
        BY <1>3, <3>1, SameErrors
      <4>2. req[r].link \in Links \cup {0}
        BY <2>1, <2>3, <4>1
      <4>3. QED
        BY <4>1, <4>2 DEF Steps
    <3>3. QED
      BY <3>1, <3>2
  <2>6. QED
    BY <1>3, <2>1, <2>2, <2>4, <2>5 DEF TypeOK, IInv, Typed, All
<1>4. QED
  BY <1>1, <1>2, <1>3, InvariantHolds, EachLinkOnce, PTL DEF Spec
===========================================================================
