------------------------- MODULE LoginSlotProofs -------------------------
(***************************************************************************)
(* What holds of LoginSlot for every number of requests, interactions,     *)
(* codes, attempts and lifetimes.                                          *)
(***************************************************************************)
EXTENDS LoginSlot, TLAPS

(* A verification holds the row lock, and what it read is still what the   *)
(* row holds: this is what the transaction of verifyLoginCode buys.        *)
LockedReadIsCurrent ==
  \A r \in Requests : req[r].op = "code" => rowLock = r /\ req[r].seen = token

(* A request that will clear the slot read an issue that exists.           *)
ConsumersHoldIssues ==
  \A r \in Requests : req[r].op \in {"link", "reset"} => req[r].seen.id \in 1..issued

(* The slot holds an issue exactly when it is not empty.                   *)
SlotHoldsIssue ==
  IF token.kind = "none" THEN token.id = 0 ELSE token.id \in 1..issued

(* Nothing was counted for a token not issued yet.                         *)
UnissuedUntouched ==
  \A i \in Issues : i > issued => compared[i] = 0 /\ redeemed[i] = 0 /\ codeOk[i] = 0

IInv ==
  /\ TypeOK
  /\ LockedReadIsCurrent
  /\ ConsumersHoldIssues
  /\ SlotHoldsIssue
  /\ UnissuedUntouched
  /\ CounterIsExact
  /\ ComparisonsBounded
  /\ SpentStaysSpent

---------------------------------------------------------------------------
(* The values the code stores in the slot and in a request are of the      *)
(* types the model gives them.                                             *)
LEMMA StoredType ==
  ASSUME NEW kind \in TokenKinds \cup {"none"}, NEW id \in 0..MaxIssues,
         NEW hash \in CodeHashes, NEW exp \in Int
  PROVE  Stored(kind, id, hash, exp) \in Tokens
BY MaxAttemptsAssumption DEF Stored, Tokens

LEMMA HoldingType ==
  ASSUME NEW op \in {"idle", "link", "reset", "code"}, NEW t \in Tokens,
         NEW hash \in CodeHashes
  PROVE  Holding(op, t, hash) \in Holdings
BY DEF Holding, Holdings

LEMMA HashType ==
  /\ Voided \in CodeHashes
  /\ \A uid \in Uids, code \in Codes : hashLoginOtp(uid, code) \in CodeHashes
BY DEF CodeHashes, hashLoginOtp

LEMMA NeutralType == NoToken \in Tokens /\ Idle \in Holdings
<1>1. NoToken \in Tokens
  BY StoredType, HashType, BoundsAssumption DEF NoToken, Null
<1>2. QED
  BY <1>1, HoldingType, HashType DEF Idle

(* A failed comparison keeps the issue in the slot and advances its        *)
(* counter by one, never past MaxAttempts.                                 *)
LEMMA MissedToken ==
  ASSUME NEW t \in Tokens, Comparable(t)
  PROVE  /\ Missed(t) \in Tokens
         /\ Missed(t).kind = t.kind
         /\ Missed(t).id = t.id
         /\ Missed(t).attempts = t.attempts + 1
<1>1. t.attempts \in 0..MaxAttempts /\ t.attempts < MaxAttempts
  BY MaxAttemptsAssumption DEF Comparable, CodeLocked, Tokens
<1>2. t.attempts + 1 \in 0..MaxAttempts
  BY <1>1, MaxAttemptsAssumption
<1>3. QED
  BY <1>2, HashType DEF Missed, Tokens

---------------------------------------------------------------------------
LEMMA InitInvariant == Init => IInv
<1> SUFFICES ASSUME Init PROVE IInv
  OBVIOUS
<1>1. TypeOK
  BY NeutralType, BoundsAssumption DEF Init, TypeOK, Null, Issues
<1>2. token.kind = "none" /\ token.id = 0
  BY DEF Init, NoToken, Stored
<1>3. \A r \in Requests : req[r].op = "idle"
  BY DEF Init, Idle, Holding
<1>4. QED
  BY <1>1, <1>2, <1>3, MaxAttemptsAssumption
  DEF IInv, Init, LockedReadIsCurrent, ConsumersHoldIssues, SlotHoldsIssue,
      UnissuedUntouched, CounterIsExact, ComparisonsBounded, SpentStaysSpent, Issues

---------------------------------------------------------------------------
(* One lemma for each way the row or a request can change.                 *)

LEMMA OverwriteStep ==
  ASSUME IInv, NEW kind \in TokenKinds, NEW ttl \in Nat, NEW hash \in CodeHashes,
         NEW exp \in Int, Overwrite(kind, ttl, hash, exp)
  PROVE  IInv'
<1>1. issued + 1 \in Issues /\ issued' = issued + 1 /\ issued \in 0..MaxIssues
  BY BoundsAssumption DEF IInv, TypeOK, Overwrite, Issues
<1>2. /\ token' \in Tokens
      /\ token'.kind = kind /\ token'.id = issued + 1 /\ token'.attempts = 0
  BY <1>1, StoredType DEF Overwrite, Stored, Issues
<1>3. kind # "none"
  BY DEF TokenKinds, LinkKinds
<1>4. \A r \in Requests : req[r].op # "code"
  BY NobodyAssumption DEF IInv, LockedReadIsCurrent, Overwrite
<1>5. TypeOK'
  <2>1. issued' \in 0..MaxIssues
    BY <1>1, BoundsAssumption DEF Issues
  <2>2. UNCHANGED <<rowLock, req, now, compared, redeemed, codeOk>> /\ expiresAt' = now + ttl
    BY DEF Overwrite, history
  <2>3. QED
    BY <1>2, <2>1, <2>2 DEF IInv, TypeOK
<1>6. LockedReadIsCurrent' /\ ConsumersHoldIssues'
  BY <1>1, <1>4 DEF IInv, LockedReadIsCurrent, ConsumersHoldIssues, Overwrite
<1>7. compared[issued + 1] = 0 /\ redeemed[issued + 1] = 0 /\ codeOk[issued + 1] = 0
  BY <1>1 DEF IInv, UnissuedUntouched
<1>8. SlotHoldsIssue' /\ CounterIsExact' /\ SpentStaysSpent'
  BY <1>1, <1>2, <1>3, <1>7
  DEF SlotHoldsIssue, CounterIsExact, SpentStaysSpent, Overwrite, history
<1>9. UnissuedUntouched' /\ ComparisonsBounded'
  BY <1>1 DEF IInv, UnissuedUntouched, ComparisonsBounded, Overwrite, history, Issues
<1>10. QED
  BY <1>5, <1>6, <1>8, <1>9 DEF IInv

LEMMA FindStep ==
  ASSUME IInv, NEW r \in Requests, NEW kinds, NEW op \in {"link", "reset"},
         kinds \subseteq TokenKinds, FindLive(r, kinds, op)
  PROVE  IInv'
<1>1. token.kind # "none" /\ token.id \in 1..issued
  BY DEF IInv, SlotHoldsIssue, FindLive, TokenKinds, LinkKinds
<1>2. Holding(op, token, Voided) \in Holdings
  BY HoldingType, HashType DEF IInv, TypeOK
<1>3. req' = [req EXCEPT ![r] = Holding(op, token, Voided)] /\ req \in [Requests -> Holdings]
  BY DEF FindLive, IInv, TypeOK
<1>4. /\ Holding(op, token, Voided).op = op
      /\ Holding(op, token, Voided).seen = token
  BY DEF Holding
<1>5. TypeOK'
  BY <1>2, <1>3 DEF IInv, TypeOK, FindLive, row, history
<1>6. LockedReadIsCurrent' /\ ConsumersHoldIssues'
  BY <1>1, <1>3, <1>4 DEF IInv, LockedReadIsCurrent, ConsumersHoldIssues, FindLive, row
<1>7. QED
  BY <1>5, <1>6
  DEF IInv, FindLive, row, history, SlotHoldsIssue, UnissuedUntouched, CounterIsExact,
      ComparisonsBounded, SpentStaysSpent

LEMMA ClearStep ==
  ASSUME IInv, NEW r \in Requests, clearSlot(r)
  PROVE  IInv'
<1>1. req[r].seen.id \in 1..issued /\ req[r].seen.id \in Issues
  BY BoundsAssumption DEF IInv, TypeOK, ConsumersHoldIssues, clearSlot, Issues
<1>2. token' = NoToken /\ token'.kind = "none" /\ token'.id = 0
  BY DEF clearSlot, NoToken, Stored
<1>3. /\ req' = [req EXCEPT ![r] = Idle] /\ req \in [Requests -> Holdings]
      /\ Idle.op = "idle"
  BY DEF clearSlot, IInv, TypeOK, Idle, Holding
<1>4. \A q \in Requests : req[q].op # "code"
  BY NobodyAssumption DEF IInv, LockedReadIsCurrent, clearSlot
<1>5. redeemed' \in [Issues -> Nat] /\ \A i \in Issues : i > issued => redeemed'[i] = 0
  BY <1>1 DEF clearSlot, IInv, TypeOK, UnissuedUntouched
<1>6. TypeOK'
  BY <1>2, <1>3, <1>5, NeutralType DEF IInv, TypeOK, clearSlot, Null
<1>7. LockedReadIsCurrent' /\ ConsumersHoldIssues'
  BY <1>3, <1>4 DEF IInv, LockedReadIsCurrent, ConsumersHoldIssues, clearSlot
<1>8. SlotHoldsIssue' /\ CounterIsExact' /\ SpentStaysSpent'
  BY <1>2 DEF SlotHoldsIssue, CounterIsExact, SpentStaysSpent, Issues
<1>9. UnissuedUntouched' /\ ComparisonsBounded'
  BY <1>5 DEF IInv, UnissuedUntouched, ComparisonsBounded, clearSlot
<1>10. QED
  BY <1>6, <1>7, <1>8, <1>9 DEF IInv

LEMMA AbandonStep ==
  ASSUME IInv, NEW r \in Requests, abandon(r)
  PROVE  IInv'
<1>1. /\ req' = [req EXCEPT ![r] = Idle] /\ req \in [Requests -> Holdings]
      /\ Idle.op = "idle" /\ Idle \in Holdings
  BY NeutralType DEF abandon, IInv, TypeOK, Idle, Holding
<1>2. QED
  BY <1>1
  DEF IInv, abandon, row, history, TypeOK, LockedReadIsCurrent, ConsumersHoldIssues,
      SlotHoldsIssue, UnissuedUntouched, CounterIsExact, ComparisonsBounded, SpentStaysSpent

LEMMA LockStep ==
  ASSUME IInv, NEW r \in Requests, NEW uid \in Uids, NEW code \in Codes,
         lockForUpdate(r, uid, code)
  PROVE  IInv'
<1>. DEFINE h == Holding("code", token, hashLoginOtp(uid, code))
<1>1. h \in Holdings /\ h.op = "code" /\ h.seen = token
  BY HoldingType, HashType DEF IInv, TypeOK, Holding
<1>2. req' = [req EXCEPT ![r] = h] /\ req \in [Requests -> Holdings]
  BY DEF lockForUpdate, IInv, TypeOK
<1>3. \A q \in Requests : req[q].op # "code"
  BY NobodyAssumption DEF IInv, LockedReadIsCurrent, lockForUpdate
<1>. HIDE DEF h
<1>4. QED
  BY <1>1, <1>2, <1>3
  DEF IInv, lockForUpdate, row, history, TypeOK, LockedReadIsCurrent, ConsumersHoldIssues,
      SlotHoldsIssue, UnissuedUntouched, CounterIsExact, ComparisonsBounded, SpentStaysSpent

(* What the end of every verification does to the requests.                *)
LEMMA EndStep ==
  ASSUME IInv, NEW r \in Requests, EndTransaction(r)
  PROVE  /\ req' \in [Requests -> Holdings]
         /\ rowLock' \in Requests \cup {Nobody}
         /\ req[r].seen = token
         /\ LockedReadIsCurrent'
         /\ ConsumersHoldIssues'
<1>1. /\ req' = [req EXCEPT ![r] = Idle] /\ req \in [Requests -> Holdings]
      /\ Idle.op = "idle" /\ Idle \in Holdings
  BY NeutralType DEF EndTransaction, IInv, TypeOK, Idle, Holding
<1>2. rowLock = r /\ req[r].seen = token
  BY DEF IInv, LockedReadIsCurrent, EndTransaction
<1>3. \A q \in Requests : req[q].op = "code" => q = r
  BY <1>2 DEF IInv, LockedReadIsCurrent
<1>4. QED
  BY <1>1, <1>2, <1>3
  DEF IInv, EndTransaction, LockedReadIsCurrent, ConsumersHoldIssues

LEMMA UnansweredStep ==
  ASSUME IInv, NEW r \in Requests, refuseCode(r) \/ rollback(r)
  PROVE  IInv'
<1>1. EndTransaction(r) /\ UNCHANGED <<row, compared, codeOk>>
  BY DEF refuseCode, rollback
<1>2. QED
  BY <1>1, EndStep
  DEF IInv, TypeOK, EndTransaction, row, SlotHoldsIssue, UnissuedUntouched,
      CounterIsExact, ComparisonsBounded, SpentStaysSpent

(* The heart of the bound: a comparison is made only while the exact       *)
(* counter is below MaxAttempts, and on an issue never accepted before.    *)
LEMMA CompareStep ==
  ASSUME IInv, NEW r \in Requests, Compare(r)
  PROVE  /\ token.kind = "ml2" /\ token.id \in 1..issued /\ token.id \in Issues
         /\ token.attempts = compared[token.id]
         /\ compared[token.id] + 1 <= MaxAttempts
         /\ redeemed[token.id] = 0 /\ codeOk[token.id] = 0
         /\ compared' = [compared EXCEPT ![token.id] = @ + 1]
         /\ compared' \in [Issues -> Nat]
         /\ ComparisonsBounded'
         /\ \A i \in Issues : i > issued => i # token.id /\ compared'[i] = 0
<1>1. req[r].seen = token
  BY EndStep DEF Compare
<1>2. token.kind = "ml2" /\ token.id \in 1..issued /\ token.id \in Issues
  BY <1>1, BoundsAssumption DEF Compare, Comparable, IInv, TypeOK, SlotHoldsIssue, Issues
<1>3. /\ token.attempts \in 0..MaxAttempts /\ token.attempts < MaxAttempts
      /\ token.attempts = compared[token.id]
  BY <1>1, <1>2, MaxAttemptsAssumption
  DEF Compare, Comparable, CodeLocked, IInv, TypeOK, Tokens, CounterIsExact
<1>4. redeemed[token.id] = 0 /\ codeOk[token.id] = 0
  BY <1>2 DEF IInv, TypeOK, SpentStaysSpent
<1>5. compared' = [compared EXCEPT ![token.id] = @ + 1] /\ compared' \in [Issues -> Nat]
  BY <1>1, <1>2 DEF Compare, IInv, TypeOK
<1>6. ComparisonsBounded'
  BY <1>2, <1>3, <1>5, MaxAttemptsAssumption DEF ComparisonsBounded, IInv, TypeOK
<1>7. \A i \in Issues : i > issued => i # token.id
  BY <1>2, BoundsAssumption DEF IInv, TypeOK, Issues
<1>8. \A i \in Issues : i > issued => compared'[i] = 0
  BY <1>5, <1>7 DEF IInv, TypeOK, UnissuedUntouched
<1>9. QED
  BY <1>2, <1>3, <1>4, <1>5, <1>6, <1>7, <1>8, MaxAttemptsAssumption

LEMMA AcceptStep ==
  ASSUME IInv, NEW r \in Requests, acceptCode(r)
  PROVE  IInv'
<1>1. Compare(r) /\ EndTransaction(r)
  BY DEF acceptCode, Compare
<1>2. req[r].seen = token
  BY <1>1, EndStep
<1>3. token' = NoToken /\ token'.kind = "none" /\ token'.id = 0
  BY DEF acceptCode, NoToken, Stored
<1>4. codeOk' = [codeOk EXCEPT ![token.id] = @ + 1] /\ codeOk' \in [Issues -> Nat]
  BY <1>1, <1>2, CompareStep DEF acceptCode, IInv, TypeOK
<1>5. TypeOK'
  BY <1>1, <1>3, <1>4, EndStep, CompareStep, NeutralType
  DEF acceptCode, EndTransaction, IInv, TypeOK, Null
<1>6. UnissuedUntouched'
  BY <1>1, <1>4, CompareStep DEF EndTransaction, IInv, TypeOK, UnissuedUntouched
<1>7. SlotHoldsIssue' /\ CounterIsExact' /\ SpentStaysSpent'
  BY <1>3 DEF SlotHoldsIssue, CounterIsExact, SpentStaysSpent, Issues
<1>8. QED
  BY <1>1, <1>5, <1>6, <1>7, EndStep, CompareStep DEF IInv

LEMMA MissStep ==
  ASSUME IInv, NEW r \in Requests, missCode(r)
  PROVE  IInv'
<1>1. Compare(r) /\ EndTransaction(r)
  BY DEF missCode, Compare
<1>2. req[r].seen = token /\ token \in Tokens /\ Comparable(token)
  BY <1>1, EndStep DEF Compare, IInv, TypeOK
<1>3. /\ token' \in Tokens
      /\ token'.kind = token.kind /\ token'.id = token.id
      /\ token'.attempts = token.attempts + 1
  BY <1>2, MissedToken DEF missCode
<1>4. TypeOK'
  BY <1>1, <1>3, EndStep, CompareStep DEF missCode, EndTransaction, IInv, TypeOK
<1>5. UnissuedUntouched'
  BY <1>1, CompareStep DEF missCode, EndTransaction, IInv, UnissuedUntouched
<1>6. CounterIsExact'
  BY <1>1, <1>3, CompareStep DEF CounterIsExact, IInv, TypeOK
<1>7. SlotHoldsIssue' /\ SpentStaysSpent'
  BY <1>1, <1>3 DEF missCode, EndTransaction, IInv, SlotHoldsIssue, SpentStaysSpent
<1>8. QED
  BY <1>1, <1>4, <1>5, <1>6, <1>7, EndStep, CompareStep DEF IInv

LEMMA TickStep == IInv /\ Tick => IInv'
BY DEF IInv, Tick, row, history, TypeOK, LockedReadIsCurrent, ConsumersHoldIssues,
   SlotHoldsIssue, UnissuedUntouched, CounterIsExact, ComparisonsBounded, SpentStaysSpent

LEMMA IssueStep == IInv /\ Issue => IInv'
<1> SUFFICES ASSUME IInv, Issue PROVE IInv'
  OBVIOUS
<1>1. {"reset", "unlock", "ml", "ml2"} \subseteq TokenKinds
  BY DEF TokenKinds, LinkKinds
<1>2. {ResetTtl, UnlockTtl, LinkTtl, CodeTtl} \subseteq Nat /\ now \in Nat /\ Null \in Int
  BY TtlAssumption DEF IInv, TypeOK, Null
<1>3. CASE issuePasswordResetToken \/ issueOtpUnlockToken
  BY <1>1, <1>2, <1>3, OverwriteStep, HashType DEF issuePasswordResetToken, issueOtpUnlockToken
<1>4. CASE issueMagicLinkToken
  BY <1>1, <1>2, <1>4, OverwriteStep, HashType DEF issueMagicLinkToken
<1>5. ASSUME NEW uid \in Uids, NEW code \in Codes, issueMagicLinkWithCode(uid, code)
      PROVE  IInv'
  <2>1. now + CodeTtl \in Int /\ hashLoginOtp(uid, code) \in CodeHashes
    BY <1>2, HashType
  <2>2. Overwrite("ml2", LinkTtl, hashLoginOtp(uid, code), now + CodeTtl)
    BY <1>5 DEF issueMagicLinkWithCode
  <2>3. QED
    BY <1>1, <1>2, <2>1, <2>2, OverwriteStep
<1>6. QED
  BY <1>3, <1>4, <1>5 DEF Issue

---------------------------------------------------------------------------
LEMMA StepInvariant == IInv /\ [Next]_vars => IInv'
<1> SUFFICES ASSUME IInv, [Next]_vars PROVE IInv'
  OBVIOUS
<1>1. CASE Issue
  BY <1>1, IssueStep
<1>2. CASE Tick
  BY <1>2, TickStep
<1>3. ASSUME NEW r \in Requests, findMagicLink(r) \/ findPasswordReset(r) PROVE IInv'
  BY <1>3, FindStep DEF findMagicLink, findPasswordReset, TokenKinds
<1>4. ASSUME NEW r \in Requests, clearSlot(r) \/ abandon(r) PROVE IInv'
  BY <1>4, ClearStep, AbandonStep
<1>5. ASSUME NEW r \in Requests, NEW uid \in Uids, NEW code \in Codes,
             lockForUpdate(r, uid, code)
      PROVE  IInv'
  BY <1>5, LockStep
<1>6. ASSUME NEW r \in Requests,
             refuseCode(r) \/ acceptCode(r) \/ missCode(r) \/ rollback(r)
      PROVE  IInv'
  BY <1>6, UnansweredStep, AcceptStep, MissStep
<1>7. CASE UNCHANGED vars
  BY <1>7
  DEF IInv, vars, TypeOK, LockedReadIsCurrent, ConsumersHoldIssues, SlotHoldsIssue,
      UnissuedUntouched, CounterIsExact, ComparisonsBounded, SpentStaysSpent
<1>8. QED
  BY <1>1, <1>2, <1>3, <1>4, <1>5, <1>6, <1>7 DEF Next

(* The inductive invariant holds of every state the requests can reach.    *)
THEOREM InvariantHolds == Spec => []IInv
BY InitInvariant, StepInvariant, PTL DEF Spec

(* Every reachable state is of the types the row and the requests have.    *)
THEOREM TypeCorrect == Spec => []TypeOK
<1>1. IInv => TypeOK
  BY DEF IInv
<1>2. QED
  BY <1>1, InvariantHolds, PTL

(* verifyLoginCode never answers more than maxAttempts comparisons against *)
(* one code, with any number of requests and issues.                       *)
THEOREM BruteForceBound == Spec => []ComparisonsBounded
<1>1. IInv => ComparisonsBounded
  BY DEF IInv
<1>2. QED
  BY <1>1, InvariantHolds, PTL

(* The persisted counter never loses an increment.                         *)
THEOREM ExactCounter == Spec => []CounterIsExact
<1>1. IInv => CounterIsExact
  BY DEF IInv
<1>2. QED
  BY <1>1, InvariantHolds, PTL

(* No late write brings an accepted issue back to the slot.                *)
THEOREM NoRevival == Spec => []SpentStaysSpent
<1>1. IInv => SpentStaysSpent
  BY DEF IInv
<1>2. QED
  BY <1>1, InvariantHolds, PTL

---------------------------------------------------------------------------
(* A code that is accepted had not been accepted before, nor its link.     *)
LEMMA AcceptanceIsFirst ==
  ASSUME IInv, [Next]_vars, NEW i \in Issues, codeOk'[i] # codeOk[i]
  PROVE  codeOk[i] + redeemed[i] = 0
<1>1. codeOk' # codeOk
  OBVIOUS
<1>2. PICK r \in Requests : acceptCode(r)
  BY <1>1
  DEF Next, vars, Issue, issuePasswordResetToken, issueOtpUnlockToken, issueMagicLinkToken,
      issueMagicLinkWithCode, Overwrite, Tick, findMagicLink, findPasswordReset, FindLive,
      clearSlot, abandon, lockForUpdate, refuseCode, missCode, rollback, history, row
<1>3. req[r].seen = token /\ Compare(r)
  BY <1>2, EndStep DEF acceptCode, Compare
<1>4. codeOk' = [codeOk EXCEPT ![token.id] = @ + 1] /\ codeOk \in [Issues -> Nat]
  BY <1>2, <1>3 DEF acceptCode, IInv, TypeOK
<1>5. i = token.id
  BY <1>4
<1>6. QED
  BY <1>3, <1>5, CompareStep

(* Half of the joint single use, for every instance: no code is accepted   *)
(* after its link, and none twice.                                         *)
THEOREM CodeIsNeverSecond == Spec => CodeNeverAfterLink
<1>1. IInv /\ [Next]_vars =>
        [\A i \in Issues : codeOk'[i] # codeOk[i] => codeOk[i] + redeemed[i] = 0]_vars
  BY AcceptanceIsFirst
<1>2. QED
  BY <1>1, InvariantHolds, PTL DEF Spec, CodeNeverAfterLink

---------------------------------------------------------------------------
(* What each kind of step does to the slot and to the history: the four    *)
(* ways a step can change them, and nothing otherwise.                     *)
slotAndHistory == <<token, expiresAt, issued, compared, redeemed, codeOk>>

LEMMA StepKinds ==
  ASSUME [Next]_vars
  PROVE  \/ Issue
         \/ \E r \in Requests : clearSlot(r) \/ acceptCode(r) \/ missCode(r)
         \/ UNCHANGED slotAndHistory
<1>1. CASE Tick \/ UNCHANGED vars
  BY <1>1 DEF Tick, vars, slotAndHistory, row, history
<1>2. ASSUME NEW r \in Requests, findMagicLink(r) \/ findPasswordReset(r) \/ abandon(r)
      PROVE  UNCHANGED slotAndHistory
  BY <1>2 DEF slotAndHistory, row, history, findMagicLink, findPasswordReset, FindLive, abandon
<1>3. ASSUME NEW r \in Requests, NEW uid \in Uids, NEW code \in Codes,
             lockForUpdate(r, uid, code)
      PROVE  UNCHANGED slotAndHistory
  BY <1>3 DEF slotAndHistory, row, history, lockForUpdate
<1>4. ASSUME NEW r \in Requests, refuseCode(r) \/ rollback(r)
      PROVE  UNCHANGED slotAndHistory
  BY <1>4 DEF slotAndHistory, row, refuseCode, rollback, EndTransaction
<1>5. QED
  BY <1>1, <1>2, <1>3, <1>4 DEF Next

LEMMA IssueEffect ==
  ASSUME IInv, Issue
  PROVE  /\ issued' = issued + 1 /\ issued' \in Issues /\ token'.id = issued + 1
         /\ UNCHANGED <<compared, redeemed, codeOk>>
<1>1. PICK kind, ttl, hash, exp : Overwrite(kind, ttl, hash, exp)
  BY DEF Issue, issuePasswordResetToken, issueOtpUnlockToken, issueMagicLinkToken,
     issueMagicLinkWithCode
<1>2. QED
  BY <1>1, BoundsAssumption DEF Overwrite, Stored, history, IInv, TypeOK, Issues

LEMMA ClearEffect ==
  ASSUME IInv, NEW r \in Requests, clearSlot(r)
  PROVE  /\ token'.id = 0 /\ token'.kind = "none"
         /\ redeemed' # redeemed
         /\ UNCHANGED <<issued, compared, codeOk>>
<1>1. req[r].seen.id \in Issues /\ redeemed \in [Issues -> Nat]
  BY BoundsAssumption DEF IInv, TypeOK, ConsumersHoldIssues, clearSlot, Issues
<1>2. redeemed'[req[r].seen.id] = redeemed[req[r].seen.id] + 1
  BY <1>1 DEF clearSlot
<1>3. redeemed' # redeemed
  BY <1>1, <1>2
<1>4. QED
  BY <1>3 DEF clearSlot, NoToken, Stored

LEMMA AcceptEffect ==
  ASSUME IInv, NEW r \in Requests, acceptCode(r)
  PROVE  /\ token'.id = 0 /\ token'.kind = "none"
         /\ codeOk' = [codeOk EXCEPT ![token.id] = @ + 1]
         /\ Compare(r)
         /\ UNCHANGED <<issued, redeemed>>
BY EndStep DEF acceptCode, Compare, EndTransaction, NoToken, Stored

LEMMA MissEffect ==
  ASSUME IInv, NEW r \in Requests, missCode(r)
  PROVE  /\ token'.id = token.id /\ token'.kind = token.kind
         /\ Compare(r)
         /\ UNCHANGED <<expiresAt, issued, redeemed, codeOk>>
<1>1. Compare(r) /\ EndTransaction(r) /\ req[r].seen = token /\ Comparable(token)
  BY EndStep DEF missCode, Compare
<1>2. token'.id = token.id /\ token'.kind = token.kind
  BY <1>1, MissedToken DEF missCode, IInv, TypeOK
<1>3. QED
  BY <1>1, <1>2 DEF missCode, EndTransaction

(* Wrong codes leave the link alone, for every instance.                   *)
THEOREM LinkSurvivesCodes == Spec => FailedCodeKeepsLink
<1>. DEFINE Kept ==
       token.id # 0 =>
         IF token'.id = token.id
           THEN expiresAt' = expiresAt /\ token'.kind = token.kind
           ELSE issued' > issued \/ codeOk' # codeOk \/ redeemed' # redeemed
<1>1. ASSUME IInv, [Next]_vars PROVE [Kept]_vars
  <2>1. CASE Issue
    <3>1. token.id \in 0..issued /\ issued \in Nat
      BY <1>1 DEF IInv, SlotHoldsIssue, TypeOK
    <3>2. QED
      BY <1>1, <2>1, <3>1, IssueEffect
  <2>2. ASSUME NEW r \in Requests, clearSlot(r) PROVE Kept
    BY <1>1, <2>2, ClearEffect
  <2>3. ASSUME NEW r \in Requests, acceptCode(r) PROVE Kept
    <3>1. token.id \in Issues /\ codeOk' # codeOk
      BY <1>1, <2>3, AcceptEffect, CompareStep DEF IInv, TypeOK
    <3>2. QED
      BY <1>1, <2>3, <3>1, AcceptEffect
  <2>4. ASSUME NEW r \in Requests, missCode(r) PROVE Kept
    BY <1>1, <2>4, MissEffect
  <2>5. CASE UNCHANGED slotAndHistory
    BY <2>5 DEF slotAndHistory
  <2>6. QED
    BY <1>1, <2>1, <2>2, <2>3, <2>4, <2>5, StepKinds
<1>2. QED
  BY <1>1, InvariantHolds, PTL DEF Spec, FailedCodeKeepsLink

---------------------------------------------------------------------------
(* The slot implements CodePromise: its steps are those of the promise,    *)
(* seen through the mapping of Promise.                                    *)
tries == [i \in Issues |-> compared[i] - codeOk[i]]
accepted == {i \in Issues : codeOk[i] > 0}
closed == {i \in 1..issued : ~(token.kind = "ml2" /\ token.id = i)}

LEMMA IssueIsClose ==
  ASSUME IInv, Issue
  PROVE  Promise!Close
<1>1. closed \subseteq closed' /\ closed' \subseteq Issues
  <2>1. issued \in Nat /\ issued' = issued + 1 /\ issued' <= MaxIssues
    BY IssueEffect, BoundsAssumption DEF IInv, TypeOK, Issues
  <2>2. \A i \in 1..issued : i \in 1..issued' /\ i # token'.id
    BY <2>1, IssueEffect
  <2>3. \A i \in 1..issued' : i \in Issues
    BY <2>1, BoundsAssumption DEF Issues
  <2>4. QED
    BY <2>2, <2>3 DEF closed
<1>2. tries' = tries /\ accepted' = accepted
  BY IssueEffect DEF tries, accepted
<1>3. QED
  BY <1>1, <1>2 DEF Promise!Close, tries, accepted, closed

LEMMA ClearIsClose ==
  ASSUME IInv, NEW r \in Requests, clearSlot(r)
  PROVE  Promise!Close
<1>1. closed \subseteq closed' /\ closed' \subseteq Issues
  <2>1. \A i \in 1..issued : i \in Issues /\ i # token'.id
    BY ClearEffect, BoundsAssumption DEF IInv, TypeOK, Issues
  <2>2. QED
    BY <2>1, ClearEffect DEF closed
<1>2. tries' = tries /\ accepted' = accepted
  BY ClearEffect DEF tries, accepted
<1>3. QED
  BY <1>1, <1>2 DEF Promise!Close, tries, accepted, closed

(* A comparison is made on a code the promise still has open.              *)
LEMMA ComparedIsOpen ==
  ASSUME IInv, NEW r \in Requests, Compare(r), NEW i \in Issues, i = token.id
  PROVE  Promise!Open(i)
<1>1. token.id \in Issues /\ token.id \notin closed
  BY CompareStep DEF closed
<1>2. tries[token.id] < MaxAttempts
  BY <1>1, CompareStep, MaxAttemptsAssumption DEF tries, IInv, TypeOK
<1>3. QED
  BY <1>1, <1>2 DEF Promise!Open, tries, closed

LEMMA AcceptIsAccept ==
  ASSUME IInv, NEW r \in Requests, acceptCode(r), NEW i \in Issues, i = token.id
  PROVE  Promise!Accept(i)
<1>1. Compare(r) /\ token.id \in Issues /\ token.id \in 1..issued /\ token.kind = "ml2"
  BY AcceptEffect, CompareStep
<1>2. /\ compared' = [compared EXCEPT ![token.id] = @ + 1]
      /\ codeOk' = [codeOk EXCEPT ![token.id] = @ + 1]
      /\ compared \in [Issues -> Nat] /\ codeOk \in [Issues -> Nat]
  BY <1>1, AcceptEffect, CompareStep DEF IInv, TypeOK
<1>3. tries' = tries
  BY <1>1, <1>2 DEF tries
<1>4. accepted' = accepted \cup {token.id}
  BY <1>1, <1>2 DEF accepted
<1>5. closed' = closed \cup {token.id}
  BY <1>1, AcceptEffect DEF closed
<1>6. QED
  BY <1>1, <1>3, <1>4, <1>5, ComparedIsOpen DEF Promise!Accept, tries, accepted, closed

LEMMA MissIsMiss ==
  ASSUME IInv, NEW r \in Requests, missCode(r), NEW i \in Issues, i = token.id
  PROVE  Promise!Miss(i)
<1>1. Compare(r) /\ token.id \in Issues
  BY MissEffect, CompareStep
<1>2. /\ compared' = [compared EXCEPT ![token.id] = @ + 1]
      /\ codeOk' = codeOk
      /\ compared \in [Issues -> Nat] /\ codeOk \in [Issues -> Nat]
  BY <1>1, MissEffect, CompareStep DEF IInv, TypeOK
<1>3. tries' = [tries EXCEPT ![token.id] = @ + 1]
  BY <1>1, <1>2 DEF tries
<1>4. accepted' = accepted /\ closed' = closed
  BY <1>2, MissEffect DEF accepted, closed
<1>5. QED
  BY <1>1, <1>3, <1>4, ComparedIsOpen DEF Promise!Miss, tries, accepted, closed

(* Every behaviour of the slot is one the promise allows: for any number   *)
(* of requests, wrong guesses are bounded and an accepted code is over.    *)
THEOREM SlotKeepsPromise == Spec => KeepsPromise
<1>1. Init => Promise!Init
  BY DEF Init, Promise!Init, Issues
<1>2. ASSUME IInv, [Next]_vars PROVE [Promise!Next]_<<tries, accepted, closed>>
  <2>1. CASE Issue
    BY <1>2, <2>1, IssueIsClose DEF Promise!Next
  <2>2. ASSUME NEW r \in Requests, clearSlot(r) PROVE Promise!Next
    BY <1>2, <2>2, ClearIsClose DEF Promise!Next
  <2>3. ASSUME NEW r \in Requests, acceptCode(r) PROVE Promise!Next
    <3>1. PICK i \in Issues : i = token.id
      BY <1>2, <2>3, AcceptEffect, CompareStep
    <3>2. Promise!Accept(i)
      BY <3>1, <1>2, <2>3, AcceptIsAccept
    <3>3. QED
      BY <3>2 DEF Promise!Next
  <2>4. ASSUME NEW r \in Requests, missCode(r) PROVE Promise!Next
    <3>1. PICK i \in Issues : i = token.id
      BY <1>2, <2>4, MissEffect, CompareStep
    <3>2. Promise!Miss(i)
      BY <3>1, <1>2, <2>4, MissIsMiss
    <3>3. QED
      BY <3>2 DEF Promise!Next
  <2>5. CASE UNCHANGED slotAndHistory
    BY <2>5 DEF slotAndHistory, tries, accepted, closed
  <2>6. QED
    BY <1>2, <2>1, <2>2, <2>3, <2>4, <2>5, StepKinds
<1>3. QED
  BY <1>1, <1>2, InvariantHolds, PTL
  DEF Spec, KeepsPromise, Promise!Spec, tries, accepted, closed
==========================================================================
