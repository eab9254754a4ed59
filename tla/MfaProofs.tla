------------------------------ MODULE MfaProofs ------------------------------
(***************************************************************************)
(* What holds of Mfa for every number of requests, codes, passkeys, steps  *)
(* and races: how often a code is accepted, and what the row of an enabled *)
(* account has in it.                                                      *)
(***************************************************************************)
EXTENDS Mfa, TLAPS

(* The kinds of write a request may have before it, each with the answer   *)
(* it gives.                                                               *)
Enrolls(q, k) == q.answer = <<"enrolled">> /\ q.patch = [Blank EXCEPT !.secret = k]
Confirms(q, b, s) ==
  q.answer = <<"confirmed", b, s>> /\ q.patch = [on |-> TRUE, codes |-> Batch(b)]
AcceptsTotp(q, s, t) == q.answer = <<"totp", <<s, t>>>> /\ q.patch = [last |-> t]
AcceptsRecovery(q, c, left) ==
  q.answer = <<"recovery", c>> /\ q.patch = [codes |-> left] /\ c \notin left
Registers(q) == q.answer = <<"registered">> /\ q.patch = [on |-> TRUE]

Secrets == 1..secrets
Batches == 1..batches

Planned(q) ==
  \/ \E k \in Secrets : Enrolls(q, k)
  \/ \E b \in Batches, s \in Secrets : Confirms(q, b, s)
  \/ \E s \in Secrets, t \in 1..MaxStep : AcceptsTotp(q, s, t)
  \/ \E c \in Recovery, left \in SUBSET Recovery : AcceptsRecovery(q, c, left)
  \/ Registers(q)

Writing(q) == q.phase \in {"updating", "inserting"}

Typed ==
  /\ row \in Rows /\ there \in BOOLEAN
  /\ passkeys \subseteq Passkeys /\ now \in 1..MaxStep
  /\ secrets \in 0..MaxSecrets /\ batches \in 0..MaxBatches
  /\ watched \in Codes /\ accepted \in Nat /\ races \in Nat
  /\ handed \in 0..MaxBatches
  /\ orphaned \in BOOLEAN
  /\ ~there => row = Blank
  /\ DOMAIN req = Requests
  /\ \A r \in Requests :
       /\ req[r] = [phase |-> req[r].phase, patch |-> req[r].patch,
                    answer |-> req[r].answer, stale |-> req[r].stale]
       /\ req[r].phase \in {"idle", "registering", "updating", "inserting"}
       /\ req[r].stale \in BOOLEAN
       /\ IF Writing(req[r]) THEN Planned(req[r]) ELSE req[r].patch = NoPatch

(* A secret or batch is born when the request that generated it is over:   *)
(* only then can it be in the row or in an answer of others.               *)
SecretOf(r, k) == Writing(req[r]) /\ Enrolls(req[r], k)
BatchOf(r, b) == Writing(req[r]) /\ \E s : Confirms(req[r], b, s)
SecretBorn(k) == k \in Secrets /\ \A r \in Requests : ~SecretOf(r, k)
BatchBorn(b) == b \in Batches /\ \A r \in Requests : ~BatchOf(r, b)

OneEach ==
  \A r, q \in Requests :
    /\ \A k \in Secrets : SecretOf(r, k) /\ SecretOf(q, k) => r = q
    /\ \A b \in Batches : BatchOf(r, b) /\ BatchOf(q, b) => r = q

RowIsBorn == 
  /\ row.secret # 0 => SecretBorn(row.secret) 
  /\ \A c \in row.codes : BatchBorn(c[1])

AnswerIsBorn(q) ==
  Writing(q) =>
    /\ \A b, s : Confirms(q, b, s) => SecretBorn(s)
    /\ \A s, t : AcceptsTotp(q, s, t) => SecretBorn(s)
    /\ \A c, left : AcceptsRecovery(q, c, left) => \A d \in left \cup {c} : BatchBorn(d[1])

WatchedIsBorn ==
  accepted > 0 => IF watched[1] = "totp" THEN SecretBorn(watched[2][1])
                                         ELSE BatchBorn(watched[2][1])

(* What a request that has not become stale read is still so.              *)
Current(q) ==
  Writing(q) /\ ~q.stale =>
    /\ \A b, s : Confirms(q, b, s) => row.secret = s
    /\ \A s, t : AcceptsTotp(q, s, t) => row.secret = s /\ row.last < t
    /\ \A c, left : AcceptsRecovery(q, c, left) => c \in row.codes /\ left = row.codes \ {c}

(* The row would not accept the watched code now.                          *)
Spent ==
  IF watched[1] = "totp" THEN row.secret # watched[2][1] \/ row.last >= watched[2][2]
                         ELSE watched[2] \notin row.codes

Counted == accepted <= races \/ (accepted <= races + 1 /\ Spent)

(* Without races a row that is off has no codes.                           *)
OffIsEmpty == ~row.on /\ races = 0 => row.codes = {} /\ handed = 0

(* A request that registers a passkey has it, unless it was removed since. *)
PasskeyIsThere ==
  \A r \in Requests :
    req[r].phase = "registering" \/ (Writing(req[r]) /\ Registers(req[r])) =>
      passkeys # {} \/ orphaned

IInv ==
  /\ Typed
  /\ OneEach /\ RowIsBorn /\ WatchedIsBorn
  /\ \A r \in Requests : AnswerIsBorn(req[r]) /\ Current(req[r])
  /\ Counted
  /\ OffIsEmpty /\ RecoveryCodesAreExact
  /\ ActiveSecretIsProven
  /\ PasskeyIsThere /\ FactorUnlessOrphaned

---------------------------------------------------------------------------
(* What is written and answered tells one kind of write from another.      *)
LEMMA Kinds ==
  ASSUME NEW q
  PROVE  /\ \A k : Enrolls(q, k) => q.answer[1] = "enrolled" /\ k = q.patch.secret
         /\ \A b, s : Confirms(q, b, s) =>
              q.answer[1] = "confirmed" /\ b = q.answer[2] /\ s = q.answer[3]
         /\ \A s, t : AcceptsTotp(q, s, t) =>
              q.answer[1] = "totp" /\ s = q.answer[2][1] /\ t = q.answer[2][2]
         /\ \A c, left : AcceptsRecovery(q, c, left) =>
              q.answer[1] = "recovery" /\ c = q.answer[2] /\ left = q.patch.codes
         /\ Registers(q) => q.answer[1] = "registered"
<1>1. \A k : Enrolls(q, k) => q.answer[1] = "enrolled" /\ k = q.patch.secret
  BY DEF Enrolls, Blank
<1>2. \A b, s : Confirms(q, b, s) =>
        q.answer[1] = "confirmed" /\ b = q.answer[2] /\ s = q.answer[3]
  BY DEF Confirms
<1>3. \A s, t : AcceptsTotp(q, s, t) =>
        q.answer[1] = "totp" /\ s = q.answer[2][1] /\ t = q.answer[2][2]
  BY DEF AcceptsTotp
<1>4. \A c, left : AcceptsRecovery(q, c, left) =>
        q.answer[1] = "recovery" /\ c = q.answer[2] /\ left = q.patch.codes
  BY DEF AcceptsRecovery
<1>5. Registers(q) => q.answer[1] = "registered"
  BY DEF Registers
<1>6. QED
  BY <1>1, <1>2, <1>3, <1>4, <1>5

(* The watched code is of one of the two kinds.                            *)
LEMMA WatchedIs ==
  ASSUME watched \in Codes
  PROVE  \/ /\ watched[1] = "totp" /\ watched = <<"totp", <<watched[2][1], watched[2][2]>>>>
            /\ watched[2][1] \in 1..MaxSecrets /\ watched[2][2] \in 1..MaxStep
         \/ /\ watched[1] = "recovery" /\ watched = <<"recovery", watched[2]>>
            /\ watched[2] \in Recovery
<1>1. CASE watched \in {"totp"} \X Totp
  BY <1>1 DEF Totp
<1>2. CASE watched \in {"recovery"} \X Recovery
  BY <1>2
<1>3. QED
  BY <1>1, <1>2 DEF Codes

---------------------------------------------------------------------------
(* A request that has a write before it after the step had the same one    *)
(* before, and knows no less of what others changed.                       *)
Kept(q) ==
  Writing(req[q])' =>
    /\ Writing(req[q])
    /\ req'[q].patch = req[q].patch /\ req'[q].answer = req[q].answer
    /\ ~req'[q].stale => ~req[q].stale /\ row' = row

Grows == 
  /\ secrets' \in Nat /\ secrets <= secrets' 
  /\ batches' \in Nat /\ batches <= batches'

LEMMA KeptPlan ==
  ASSUME NEW q, Kept(q), Writing(req[q])'
  PROVE  /\ \A k : Enrolls(req[q], k)' <=> Enrolls(req[q], k)
         /\ \A b, s : Confirms(req[q], b, s)' <=> Confirms(req[q], b, s)
         /\ \A s, t : AcceptsTotp(req[q], s, t)' <=> AcceptsTotp(req[q], s, t)
         /\ \A c, left : AcceptsRecovery(req[q], c, left)' <=> AcceptsRecovery(req[q], c, left)
         /\ Registers(req[q])' <=> Registers(req[q])
<1>1. req'[q].patch = req[q].patch /\ req'[q].answer = req[q].answer
  BY DEF Kept
<1>2. QED
  BY <1>1 DEF Enrolls, Confirms, AcceptsTotp, AcceptsRecovery, Registers

LEMMA KeptIsPlanned ==
  ASSUME Typed, Grows, NEW q \in Requests, Kept(q), Writing(req[q])'
  PROVE  Planned(req[q])'
<1>1. Planned(req[q])
  BY DEF Typed, Kept
<1>2. Secrets \subseteq Secrets' /\ Batches \subseteq Batches'
  BY DEF Grows, Secrets, Batches, Typed
<1>3. QED
  BY <1>1, <1>2, KeptPlan DEF Planned

LEMMA KeptIsPending ==
  ASSUME NEW q, Kept(q)
  PROVE  /\ \A k : SecretOf(q, k)' => SecretOf(q, k)
         /\ \A b : BatchOf(q, b)' => BatchOf(q, b)
  BY KeptPlan DEF SecretOf, BatchOf, Kept

(* What was born stays so.                                                 *)
Lasting ==
  /\ \A k : SecretBorn(k) => SecretBorn(k)'
  /\ \A b : BatchBorn(b) => BatchBorn(b)'

LEMMA PendingIsPlanned ==
  ASSUME Typed, NEW q \in Requests
  PROVE  /\ \A k : SecretOf(q, k) => k \in Secrets
         /\ \A b : BatchOf(q, b) => b \in Batches
<1>1. Writing(req[q]) => Planned(req[q])
  BY DEF Typed
<1>2. QED
  BY <1>1, Kinds DEF Planned, SecretOf, BatchOf

LEMMA BornLasts ==
  ASSUME Typed, Grows,
         \A q \in Requests : /\ \A k \in Secrets : SecretOf(q, k)' => SecretOf(q, k)
                             /\ \A b \in Batches : BatchOf(q, b)' => BatchOf(q, b)
  PROVE  Lasting
<1>1. Secrets \subseteq Secrets' /\ Batches \subseteq Batches'
  BY DEF Grows, Secrets, Batches, Typed
<1>2. QED
  BY <1>1 DEF Lasting, SecretBorn, BatchBorn

LEMMA KeptIsFit ==
  ASSUME IInv, Lasting, NEW q \in Requests, Kept(q)
  PROVE  AnswerIsBorn(req[q])' /\ Current(req[q])'
<1>1. SUFFICES ASSUME Writing(req[q])' PROVE AnswerIsBorn(req[q])' /\ Current(req[q])'
  BY DEF AnswerIsBorn, Current
<1>2. AnswerIsBorn(req[q]) /\ Current(req[q]) /\ Writing(req[q])
  BY <1>1 DEF IInv, Kept
<1>3. AnswerIsBorn(req[q])'
  <2>1. ASSUME NEW b, NEW s, Confirms(req[q], b, s)' PROVE SecretBorn(s)'
    BY <1>1, <1>2, <2>1, KeptPlan DEF AnswerIsBorn, Lasting
  <2>2. ASSUME NEW s, NEW t, AcceptsTotp(req[q], s, t)' PROVE SecretBorn(s)'
    BY <1>1, <1>2, <2>2, KeptPlan DEF AnswerIsBorn, Lasting
  <2>3. ASSUME NEW c, NEW left, AcceptsRecovery(req[q], c, left)', NEW d \in left \cup {c}
        PROVE  BatchBorn(d[1])'
    BY <1>1, <1>2, <2>3, KeptPlan DEF AnswerIsBorn, Lasting
  <2>4. QED
    BY <2>1, <2>2, <2>3 DEF AnswerIsBorn
<1>4. Current(req[q])'
  <2>1. SUFFICES ASSUME ~req'[q].stale
                 PROVE  Current(req[q])'
    BY DEF Current
  <2>2. row' = row /\ ~req[q].stale
    BY <1>1, <2>1 DEF Kept
  <2>3. /\ \A b, s : Confirms(req[q], b, s) => row.secret = s
        /\ \A s, t : AcceptsTotp(req[q], s, t) => row.secret = s /\ row.last < t
        /\ \A c, left : AcceptsRecovery(req[q], c, left) =>
             c \in row.codes /\ left = row.codes \ {c}
    BY <1>2, <2>2 DEF Current
  <2>4. /\ \A b, s : Confirms(req[q], b, s)' => row'.secret = s
        /\ \A s, t : AcceptsTotp(req[q], s, t)' => row'.secret = s /\ row'.last < t
        /\ \A c, left : AcceptsRecovery(req[q], c, left)' =>
             c \in row'.codes /\ left = row'.codes \ {c}
    BY <1>1, <2>2, <2>3, KeptPlan
  <2>5. QED
    BY <2>4 DEF Current
<1>5. QED
  BY <1>3, <1>4

(* A step after which every request has the write it had, or none.         *)
LEMMA AllKept ==
  ASSUME IInv, UNCHANGED <<secrets, batches>>, \A q \in Requests : Kept(q)
  PROVE  /\ OneEach' /\ Lasting
         /\ \A q \in Requests : AnswerIsBorn(req[q])' /\ Current(req[q])'
         /\ \A q \in Requests : Writing(req[q])' => Planned(req[q])'
<1>1. Typed /\ OneEach /\ Grows /\ Secrets' = Secrets /\ Batches' = Batches
  BY DEF IInv, Typed, Grows, Secrets, Batches
<1>2. \A q \in Requests : /\ \A k : SecretOf(q, k)' => SecretOf(q, k)
                          /\ \A b : BatchOf(q, b)' => BatchOf(q, b)
  BY KeptIsPending
<1>3. Lasting
  BY <1>1, <1>2, BornLasts
<1>4. OneEach'
  BY <1>1, <1>2 DEF OneEach
<1>5. QED
  BY <1>1, <1>3, <1>4, KeptIsFit, KeptIsPlanned

(* A step that leaves the row, and what is told of it, alone.              *)
LEMMA RowIsLeft ==
  ASSUME IInv, Lasting, Typed', OneEach',
         UNCHANGED <<row, watched, accepted, handed, vouched, races>>,
         \A q \in Requests : AnswerIsBorn(req[q])' /\ Current(req[q])',
         PasskeyIsThere', FactorUnlessOrphaned'
  PROVE  IInv'
<1>1. RowIsBorn'
  BY DEF IInv, RowIsBorn, Lasting
<1>2. WatchedIsBorn'
  BY DEF IInv, WatchedIsBorn, Lasting
<1>3. Counted' /\ OffIsEmpty' /\ RecoveryCodesAreExact' /\ ActiveSecretIsProven'
  BY DEF IInv, Counted, Spent, OffIsEmpty, RecoveryCodesAreExact, ActiveSecretIsProven
<1>4. QED
  BY <1>1, <1>2, <1>3 DEF IInv

---------------------------------------------------------------------------
(* Steps of one request that write nothing.                                *)
LEMMA RestStep ==
  ASSUME IInv, NEW r \in Requests, req' = [req EXCEPT ![r] = Resting],
         UNCHANGED <<row, there, passkeys, now, secrets, batches, ghosts>>
  PROVE  IInv'
<1>1. Typed /\ PasskeyIsThere /\ FactorUnlessOrphaned
  BY DEF IInv
<1>2. req'[r] = Resting /\ ~Writing(Resting) /\ Resting.phase = "idle"
  BY <1>1 DEF Typed, Resting, Writing
<1>3. \A q \in Requests : q # r => req'[q] = req[q]
  BY <1>1 DEF Typed
<1>4. \A q \in Requests : Kept(q)
  BY <1>2, <1>3 DEF Kept, Writing
<1>5. Typed'
  <2>1. ASSUME NEW q \in Requests, Writing(req[q])' PROVE Planned(req[q])'
    BY <1>4, <2>1, AllKept
  <2>2. QED
    BY <1>1, <1>2, <1>3, <2>1 DEF Typed, ghosts, Resting, Writing
<1>6. PasskeyIsThere'
  <2>1. ASSUME NEW q \in Requests,
               req'[q].phase = "registering" \/ (Writing(req[q])' /\ Registers(req[q])')
        PROVE  passkeys' # {} \/ orphaned'
    <3>1. q # r
      BY <1>2, <2>1 DEF Writing
    <3>2. req'[q] = req[q]
      BY <1>3, <3>1
    <3>3. QED
      BY <1>1, <2>1, <3>2 DEF PasskeyIsThere, Writing, Registers, ghosts
  <2>2. QED
    BY <2>1 DEF PasskeyIsThere
<1>7. FactorUnlessOrphaned'
  BY <1>1 DEF FactorUnlessOrphaned, ghosts
<1>8. QED
  BY <1>4, <1>5, <1>6, <1>7, AllKept, RowIsLeft DEF ghosts

(* The request goes on to the INSERT.                                      *)
LEMMA InsertNextStep ==
  ASSUME IInv, NEW r \in Requests, req[r].phase = "updating",
         req' = [req EXCEPT ![r].phase = "inserting"],
         UNCHANGED <<row, there, passkeys, now, secrets, batches, ghosts>>
  PROVE  IInv'
<1>1. Typed /\ PasskeyIsThere /\ FactorUnlessOrphaned
  BY DEF IInv
<1>2. /\ req'[r].phase = "inserting"
      /\ req'[r] = [phase |-> "inserting", patch |-> req[r].patch,
                    answer |-> req[r].answer, stale |-> req[r].stale]
  BY <1>1 DEF Typed
<1>3. \A q \in Requests : q # r => req'[q] = req[q]
  BY <1>1 DEF Typed
<1>4. \A q \in Requests : Kept(q)
  BY <1>2, <1>3 DEF Kept, Writing
<1>5. Typed'
  <2>1. ASSUME NEW q \in Requests, Writing(req[q])' PROVE Planned(req[q])'
    BY <1>4, <2>1, AllKept
  <2>2. QED
    BY <1>1, <1>2, <1>3, <2>1 DEF Typed, ghosts, Writing
<1>6. PasskeyIsThere'
  <2>1. ASSUME NEW q \in Requests,
               req'[q].phase = "registering" \/ (Writing(req[q])' /\ Registers(req[q])')
        PROVE  passkeys' # {} \/ orphaned'
    <3>1. CASE q # r
      BY <1>1, <1>3, <2>1, <3>1 DEF PasskeyIsThere, Writing, Registers, ghosts
    <3>2. CASE q = r
      BY <1>1, <1>2, <2>1, <3>2 DEF PasskeyIsThere, Writing, Registers, ghosts
    <3>3. QED
      BY <3>1, <3>2
  <2>2. QED
    BY <2>1 DEF PasskeyIsThere
<1>7. FactorUnlessOrphaned'
  BY <1>1 DEF FactorUnlessOrphaned, ghosts
<1>8. QED
  BY <1>4, <1>5, <1>6, <1>7, AllKept, RowIsLeft DEF ghosts

(* A request that read the row has a write before it.  What it generated   *)
(* is new, and what it read holds.                                         *)
LEMMA SaveStep ==
  ASSUME IInv, NEW r \in Requests, NEW patch, NEW answer, Save(r, patch, answer),
         UNCHANGED <<row, there, passkeys, now, ghosts>>, Grows,
         secrets' \in 0..MaxSecrets, batches' \in 0..MaxBatches,
         Planned(req[r])',
         \A k : Enrolls(req[r], k)' => k \notin Secrets,
         \A b, s : Confirms(req[r], b, s)' => b \notin Batches,
         Lasting => AnswerIsBorn(req[r])', Current(req[r])',
         Registers(req[r])' => passkeys # {} \/ orphaned
  PROVE  IInv'
<1>1. Typed /\ OneEach /\ PasskeyIsThere /\ FactorUnlessOrphaned
  BY DEF IInv
<1>2. req'[r] = [phase |-> "updating", patch |-> patch, answer |-> answer, stale |-> FALSE]
  BY <1>1 DEF Typed, Save
<1>3. \A q \in Requests : q # r => req'[q] = req[q]
  BY <1>1 DEF Typed, Save
<1>4. \A q \in Requests : q # r => Kept(q)
  BY <1>3 DEF Kept, Writing
<1>5. \A q \in Requests : /\ \A k : SecretOf(q, k)' => SecretOf(q, k) \/ (q = r /\ k \notin Secrets)
                          /\ \A b : BatchOf(q, b)' => BatchOf(q, b) \/ (q = r /\ b \notin Batches)
  BY <1>4, KeptIsPending DEF SecretOf, BatchOf
<1>6. Lasting
  BY <1>1, <1>5, BornLasts
<1>7. OneEach'
  BY <1>1, <1>5, PendingIsPlanned DEF OneEach
<1>8. Typed'
  <2>1. ASSUME NEW q \in Requests, Writing(req[q])' PROVE Planned(req[q])'
    BY <1>1, <1>4, <2>1, KeptIsPlanned
  <2>2. /\ DOMAIN req' = Requests
        /\ req'[r].phase = "updating" /\ req'[r].stale \in BOOLEAN
        /\ req'[r] = [phase |-> req'[r].phase, patch |-> req'[r].patch,
                      answer |-> req'[r].answer, stale |-> req'[r].stale]
    BY <1>1, <1>2 DEF Typed, Save
  <2>3. \A q \in Requests :
          /\ req'[q] = [phase |-> req'[q].phase, patch |-> req'[q].patch,
                        answer |-> req'[q].answer, stale |-> req'[q].stale]
          /\ req'[q].phase \in {"idle", "registering", "updating", "inserting"}
          /\ req'[q].stale \in BOOLEAN
          /\ ~Writing(req[q])' => req'[q].patch = NoPatch
    BY <1>1, <1>3, <2>2 DEF Typed, Writing
  <2>4. QED
    BY <1>1, <2>1, <2>2, <2>3 DEF Typed, ghosts
<1>9. \A q \in Requests : AnswerIsBorn(req[q])' /\ Current(req[q])'
  BY <1>4, <1>6, KeptIsFit
<1>10. PasskeyIsThere'
  <2>1. ASSUME NEW q \in Requests,
               req'[q].phase = "registering" \/ (Writing(req[q])' /\ Registers(req[q])')
        PROVE  passkeys' # {} \/ orphaned'
    <3>1. CASE q # r
      BY <1>1, <1>3, <2>1, <3>1 DEF PasskeyIsThere, Writing, Registers, ghosts
    <3>2. CASE q = r
      BY <1>2, <2>1, <3>2 DEF ghosts
    <3>3. QED
      BY <3>1, <3>2
  <2>2. QED
    BY <2>1 DEF PasskeyIsThere
<1>11. FactorUnlessOrphaned'
  BY <1>1 DEF FactorUnlessOrphaned, ghosts
<1>12. QED
  BY <1>6, <1>7, <1>8, <1>9, <1>10, <1>11, RowIsLeft DEF ghosts

---------------------------------------------------------------------------
(* The operations that read the row.                                       *)
LEMMA StartStep ==
  ASSUME IInv, NEW r \in Requests, startTotpEnrollment(r)
  PROVE  IInv'
<1> DEFINE k == secrets + 1
           patch == [Blank EXCEPT !.secret = k]
<1>1. /\ Save(r, patch, <<"enrolled">>) /\ secrets < MaxSecrets /\ secrets' = k
      /\ UNCHANGED <<row, there, passkeys, now, batches, ghosts>>
  BY DEF startTotpEnrollment
<1>2. Typed /\ secrets \in Nat /\ batches \in Nat
  BY DEF IInv, Typed
<1>3. secrets' \in 0..MaxSecrets /\ batches' \in 0..MaxBatches /\ Grows /\ k \in Secrets'
  BY <1>1, <1>2, BoundsAssumption DEF Typed, Grows, Secrets
<1>4. req'[r].patch = patch /\ req'[r].answer = <<"enrolled">>
  BY <1>1, <1>2 DEF Typed, Save
<1>5. \A j : j = secrets + 1 => Enrolls(req[r], j)'
  BY <1>1, <1>4 DEF Enrolls, Blank
<1>6. Planned(req[r])'
  BY <1>3, <1>5 DEF Planned
<1>7. req'[r].answer[1] = "enrolled"
  BY <1>4
<1>8. \A j : Enrolls(req[r], j)' => j \notin Secrets
  <2>1. \A j : Enrolls(req[r], j)' => j = req'[r].patch.secret
    BY DEF Enrolls, Blank
  <2>2. req'[r].patch.secret = secrets + 1
    BY <1>4 DEF Blank
  <2>3. QED
    BY <1>2, <2>1, <2>2 DEF Secrets
<1>9. /\ \A b, s : ~Confirms(req[r], b, s)'
      /\ \A s, t : ~AcceptsTotp(req[r], s, t)'
      /\ \A c, left : ~AcceptsRecovery(req[r], c, left)'
      /\ ~Registers(req[r])'
  BY <1>7 DEF Confirms, AcceptsTotp, AcceptsRecovery, Registers
<1>10. AnswerIsBorn(req[r])' /\ Current(req[r])'
  BY <1>9 DEF AnswerIsBorn, Current
<1>11. QED
  BY <1>1, <1>3, <1>6, <1>8, <1>9, <1>10, SaveStep

LEMMA ConfirmStep ==
  ASSUME IInv, NEW r \in Requests, confirmTotpEnrollment(r)
  PROVE  IInv'
<1> DEFINE b == batches + 1
           patch == [on |-> TRUE, codes |-> Batch(b)]
           answer == <<"confirmed", b, row.secret>>
<1>1. /\ Save(r, patch, answer) /\ batches < MaxBatches /\ batches' = b
      /\ row.secret # 0
      /\ UNCHANGED <<row, there, passkeys, now, secrets, ghosts>>
  BY DEF confirmTotpEnrollment
<1>2. Typed /\ RowIsBorn /\ secrets \in Nat /\ batches \in Nat
  BY DEF IInv, Typed
<1>3. secrets' \in 0..MaxSecrets /\ batches' \in 0..MaxBatches /\ Grows /\ b \in Batches'
  BY <1>1, <1>2, BoundsAssumption DEF Typed, Grows, Batches
<1>4. req'[r].patch = patch /\ req'[r].answer = answer
  BY <1>1, <1>2 DEF Typed, Save
<1>5. SecretBorn(row.secret) /\ row.secret \in Secrets'
  BY <1>1, <1>2 DEF RowIsBorn, SecretBorn, Secrets
<1>6. Planned(req[r])'
  BY <1>3, <1>4, <1>5 DEF Planned, Confirms, Batch
<1>7. answer[1] = "confirmed" /\ answer[2] = b /\ answer[3] = row.secret
  OBVIOUS
<1>8. \A c, s : Confirms(req[r], c, s)' => c = b /\ s = row.secret
  BY <1>4, <1>7 DEF Confirms
<1>9. /\ \A j : ~Enrolls(req[r], j)'
      /\ \A s, t : ~AcceptsTotp(req[r], s, t)'
      /\ \A c, left : ~AcceptsRecovery(req[r], c, left)'
      /\ ~Registers(req[r])'
  BY <1>4, <1>7 DEF Enrolls, AcceptsTotp, AcceptsRecovery, Registers
<1>10. Lasting => AnswerIsBorn(req[r])'
  BY <1>5, <1>8, <1>9 DEF AnswerIsBorn, Lasting
<1>11. Current(req[r])'
  BY <1>1, <1>8, <1>9 DEF Current
<1>12. b \notin Batches
  BY <1>2 DEF Batches
<1>13. QED
  BY <1>1, <1>3, <1>6, <1>8, <1>9, <1>10, <1>11, <1>12, SaveStep

LEMMA VerifyStep ==
  ASSUME IInv, NEW r \in Requests, verifyTotp(r)
  PROVE  IInv'
<1> DEFINE answer == <<"totp", <<row.secret, now>>>>
<1>1. /\ Save(r, [last |-> now], answer) /\ row.secret # 0 /\ now > row.last
      /\ UNCHANGED <<row, there, passkeys, now, secrets, batches, ghosts>>
  BY DEF verifyTotp
<1>2. Typed /\ RowIsBorn
  BY DEF IInv
<1>3. /\ secrets' \in 0..MaxSecrets /\ batches' \in 0..MaxBatches /\ Grows
      /\ now \in 1..MaxStep /\ now \in Nat /\ row.last \in Nat
  BY <1>1, <1>2, BoundsAssumption DEF Typed, Grows, Rows
<1>4. req'[r].patch = [last |-> now] /\ req'[r].answer = answer
  BY <1>1, <1>2 DEF Typed, Save
<1>5. SecretBorn(row.secret) /\ row.secret \in Secrets'
  BY <1>1, <1>2 DEF RowIsBorn, SecretBorn, Secrets
<1>6. AcceptsTotp(req[r], row.secret, now)'
  BY <1>1, <1>4 DEF AcceptsTotp
<1>7. Planned(req[r])'
  BY <1>1, <1>3, <1>5, <1>6 DEF Planned
<1>8. answer[1] = "totp" /\ answer[2][1] = row.secret /\ answer[2][2] = now
  OBVIOUS
<1>9. \A s, t : AcceptsTotp(req[r], s, t)' => s = row.secret /\ t = now
  BY <1>4, <1>8 DEF AcceptsTotp
<1>10. /\ \A j : ~Enrolls(req[r], j)'
       /\ \A c, s : ~Confirms(req[r], c, s)'
       /\ \A c, left : ~AcceptsRecovery(req[r], c, left)'
       /\ ~Registers(req[r])'
  BY <1>4, <1>8 DEF Enrolls, Confirms, AcceptsRecovery, Registers
<1>11. Lasting => AnswerIsBorn(req[r])'
  BY <1>5, <1>9, <1>10 DEF AnswerIsBorn, Lasting
<1>12. Current(req[r])'
  BY <1>1, <1>3, <1>9, <1>10 DEF Current
<1>13. QED
  BY <1>1, <1>3, <1>7, <1>10, <1>11, <1>12, SaveStep

LEMMA ConsumeStep ==
  ASSUME IInv, NEW r \in Requests, consumeRecoveryCode(r)
  PROVE  IInv'
<1>1. PICK code \in row.codes : Save(r, [codes |-> row.codes \ {code}], <<"recovery", code>>)
  BY DEF consumeRecoveryCode
<1> DEFINE kept == row.codes \ {code}
           answer == <<"recovery", code>>
<1>2. UNCHANGED <<row, there, passkeys, now, secrets, batches, ghosts>>
  BY DEF consumeRecoveryCode
<1>3. Typed /\ RowIsBorn /\ row.codes \subseteq Recovery
  BY DEF IInv, Typed, Rows
<1>4. secrets' \in 0..MaxSecrets /\ batches' \in 0..MaxBatches /\ Grows
  BY <1>2, <1>3, BoundsAssumption DEF Typed, Grows
<1>5. req'[r].patch = [codes |-> kept] /\ req'[r].answer = answer
  BY <1>1, <1>3 DEF Typed, Save
<1>6. \A d \in row.codes : BatchBorn(d[1])
  BY <1>3 DEF RowIsBorn
<1>7. AcceptsRecovery(req[r], code, kept)'
  BY <1>2, <1>5 DEF AcceptsRecovery
<1>8. Planned(req[r])'
  <2>1. kept \in SUBSET Recovery /\ code \in Recovery
    BY <1>3
  <2>2. QED
    BY <1>2, <1>7, <2>1 DEF Planned
<1>9. answer[1] = "recovery" /\ answer[2] = code
  OBVIOUS
<1>10. \A c, left : AcceptsRecovery(req[r], c, left)' => c = code /\ left = kept
  <2>1. req'[r].patch.codes = kept
    BY <1>5
  <2>2. \A c, left : AcceptsRecovery(req[r], c, left)' =>
          c = req'[r].answer[2] /\ left = req'[r].patch.codes
    BY DEF AcceptsRecovery
  <2>3. QED
    BY <1>5, <1>9, <2>1, <2>2
<1>11. /\ \A j : ~Enrolls(req[r], j)'
       /\ \A c, s : ~Confirms(req[r], c, s)'
       /\ \A s, t : ~AcceptsTotp(req[r], s, t)'
       /\ ~Registers(req[r])'
  BY <1>5, <1>9 DEF Enrolls, Confirms, AcceptsTotp, Registers
<1>12. Lasting => AnswerIsBorn(req[r])'
  BY <1>6, <1>10, <1>11 DEF AnswerIsBorn, Lasting
<1>13. Current(req[r])'
  BY <1>2, <1>10, <1>11 DEF Current
<1>14. QED
  BY <1>1, <1>2, <1>4, <1>8, <1>11, <1>12, <1>13, SaveStep

LEMMA EnableStep ==
  ASSUME IInv, NEW r \in Requests, enableMfa(r)
  PROVE  IInv'
<1>1. CASE row.on
  BY <1>1, RestStep DEF enableMfa
<1>2. CASE ~row.on
  <2>1. /\ Save(r, [on |-> TRUE], <<"registered">>) /\ req[r].phase = "registering"
        /\ UNCHANGED <<row, there, passkeys, now, secrets, batches, ghosts>>
    BY <1>2 DEF enableMfa
  <2>2. Typed /\ (passkeys # {} \/ orphaned)
    BY <2>1 DEF IInv, PasskeyIsThere
  <2>3. secrets' \in 0..MaxSecrets /\ batches' \in 0..MaxBatches /\ Grows
    BY <2>1, <2>2, BoundsAssumption DEF Typed, Grows
  <2>4. req'[r].patch = [on |-> TRUE] /\ req'[r].answer = <<"registered">>
    BY <2>1, <2>2 DEF Typed, Save
  <2>5. Planned(req[r])'
    BY <2>4 DEF Planned, Registers
  <2>6. req'[r].answer[1] = "registered"
    BY <2>4
  <2>7. /\ \A j : ~Enrolls(req[r], j)'
        /\ \A c, s : ~Confirms(req[r], c, s)'
        /\ \A s, t : ~AcceptsTotp(req[r], s, t)'
        /\ \A c, left : ~AcceptsRecovery(req[r], c, left)'
    BY <2>6 DEF Enrolls, Confirms, AcceptsTotp, AcceptsRecovery
  <2>8. AnswerIsBorn(req[r])' /\ Current(req[r])'
    BY <2>7 DEF AnswerIsBorn, Current
  <2>9. QED
    BY <2>1, <2>2, <2>3, <2>5, <2>7, <2>8, SaveStep
<1>3. QED
  BY <1>1, <1>2

(* The passkeys come and go; the clock goes on.                            *)
LEMMA PasskeyStep ==
  ASSUME IInv, Typed', UNCHANGED <<row, secrets, batches, watched, accepted, handed, vouched, races>>,
         \A q \in Requests : Kept(q), PasskeyIsThere', FactorUnlessOrphaned'
  PROVE  IInv'
  BY AllKept, RowIsLeft

LEMMA CreateStep ==
  ASSUME IInv, NEW r \in Requests, createPasskey(r)
  PROVE  IInv'
<1>1. Typed /\ Requests = DOMAIN req
  BY DEF IInv, Typed
<1>2. /\ req'[r] = [phase |-> "registering", patch |-> req[r].patch,
                    answer |-> req[r].answer, stale |-> req[r].stale]
      /\ req'[r].patch = NoPatch /\ req'[r].stale \in BOOLEAN /\ req'[r].phase = "registering"
  BY <1>1 DEF Typed, createPasskey, Free, Writing
<1>3. \A q \in Requests : q # r => req'[q] = req[q]
  BY <1>1 DEF createPasskey
<1>4. \A q \in Requests : Kept(q)
  <2>1. Kept(r)
    BY <1>2 DEF Kept, Writing
  <2>2. \A q \in Requests : q # r => Kept(q)
    BY <1>3 DEF Kept, Writing, createPasskey
  <2>3. QED
    BY <2>1, <2>2
<1>5. passkeys' \subseteq Passkeys /\ passkeys' # {}
  BY <1>1 DEF createPasskey, Typed
<1>6. Typed'
  <2>1. ASSUME NEW q \in Requests, Writing(req[q])' PROVE Planned(req[q])'
    BY <1>4, <2>1, AllKept DEF createPasskey
  <2>2. QED
    BY <1>1, <1>2, <1>3, <1>5, <2>1 DEF Typed, createPasskey, Writing
<1>7. PasskeyIsThere' /\ FactorUnlessOrphaned'
  BY <1>5 DEF PasskeyIsThere, FactorUnlessOrphaned
<1>8. QED
  BY <1>4, <1>6, <1>7, PasskeyStep DEF createPasskey

LEMMA RemoveStep ==
  ASSUME IInv, removePasskey
  PROVE  IInv'
<1>1. Typed
  BY DEF IInv
<1>2. \A q \in Requests : Kept(q)
  BY DEF Kept, Writing, removePasskey
<1>3. Typed'
  <2>1. ASSUME NEW q \in Requests, Writing(req[q])' PROVE Planned(req[q])'
    BY <1>2, <2>1, AllKept DEF removePasskey
  <2>2. QED
    BY <1>1, <2>1 DEF Typed, removePasskey, Writing
<1>4. passkeys' # {} \/ orphaned'
  BY DEF removePasskey
<1>5. PasskeyIsThere' /\ FactorUnlessOrphaned'
  BY <1>4 DEF PasskeyIsThere, FactorUnlessOrphaned
<1>6. QED
  BY <1>2, <1>3, <1>5, PasskeyStep DEF removePasskey

LEMMA TickStep ==
  ASSUME IInv, Tick
  PROVE  IInv'
<1>1. Typed /\ PasskeyIsThere /\ FactorUnlessOrphaned
  BY DEF IInv
<1>2. \A q \in Requests : Kept(q)
  BY DEF Kept, Writing, Tick
<1>3. Typed'
  <2>1. ASSUME NEW q \in Requests, Writing(req[q])' PROVE Planned(req[q])'
    BY <1>2, <2>1, AllKept DEF Tick
  <2>2. now' \in 1..MaxStep
    BY <1>1, BoundsAssumption DEF Typed, Tick
  <2>3. QED
    BY <1>1, <2>1, <2>2 DEF Typed, Tick, ghosts, Writing
<1>4. PasskeyIsThere' /\ FactorUnlessOrphaned'
  BY <1>1 DEF PasskeyIsThere, FactorUnlessOrphaned, Tick, ghosts, Writing, Registers
<1>5. QED
  BY <1>2, <1>3, <1>4, PasskeyStep DEF Tick, ghosts

---------------------------------------------------------------------------
(* A write.  Its request is over: what it generated is born.               *)
LEMMA WriteKeeps ==
  ASSUME IInv, NEW r \in Requests, Writing(req[r]), Write(r),
         UNCHANGED <<passkeys, now, secrets, batches>>
  PROVE  /\ \A q \in Requests : Kept(q)
         /\ Lasting /\ OneEach'
         /\ \A k : Enrolls(req[r], k) => SecretBorn(k)'
         /\ \A b, s : Confirms(req[r], b, s) => BatchBorn(b)'
         /\ \A q \in Requests : AnswerIsBorn(req[q])' /\ Current(req[q])'
         /\ PasskeyIsThere'
         /\ Typed' \/ ~ /\ row' \in Rows /\ accepted' \in Nat /\ races' \in Nat
                        /\ handed' \in 0..MaxBatches
<1>1. Typed /\ OneEach /\ PasskeyIsThere
  BY DEF IInv
<1>2. req' = [Outdated EXCEPT ![r] = Resting] /\ there' = TRUE /\ UNCHANGED <<watched, orphaned>>
  BY DEF Write, Answer
<1>3. req'[r] = Resting /\ ~Writing(req[r])' /\ req'[r].phase = "idle"
  BY <1>2 DEF Outdated, Resting, Writing
<1>4. ASSUME NEW q \in Requests, q # r
      PROVE  /\ req'[q].phase = req[q].phase /\ req'[q].patch = req[q].patch
             /\ req'[q].answer = req[q].answer
             /\ ~req'[q].stale => ~req[q].stale /\ row' = row
             /\ req'[q] = [phase |-> req'[q].phase, patch |-> req'[q].patch,
                           answer |-> req'[q].answer, stale |-> req'[q].stale]
             /\ req'[q].stale \in BOOLEAN
  <2>1. req'[q] = [req[q] EXCEPT !.stale = @ \/ row' # row]
    BY <1>1, <1>2, <1>4 DEF Typed, Outdated
  <2>2. req[q] = [phase |-> req[q].phase, patch |-> req[q].patch,
                  answer |-> req[q].answer, stale |-> req[q].stale]
    BY <1>1 DEF Typed
  <2>3. \A u : [req[q] EXCEPT !.stale = u] =
               [phase |-> req[q].phase, patch |-> req[q].patch, answer |-> req[q].answer,
                stale |-> u]
    BY <2>2
  <2>4. req'[q].stale = (req[q].stale \/ row' # row)
    BY <2>1, <2>2
  <2>5. /\ req'[q].phase = req[q].phase /\ req'[q].patch = req[q].patch
        /\ req'[q].answer = req[q].answer
        /\ req'[q] = [phase |-> req'[q].phase, patch |-> req'[q].patch,
                      answer |-> req'[q].answer, stale |-> req'[q].stale]
    BY <2>1, <2>3
  <2>6. QED
    BY <2>4, <2>5
<1>5. \A q \in Requests : Kept(q)
  BY <1>3, <1>4 DEF Kept, Writing
<1>6. /\ OneEach' /\ Lasting
      /\ \A q \in Requests : AnswerIsBorn(req[q])' /\ Current(req[q])'
      /\ \A q \in Requests : Writing(req[q])' => Planned(req[q])'
  BY <1>5, AllKept
<1>7. \A q \in Requests : /\ \A k : SecretOf(q, k)' => SecretOf(q, k) /\ q # r
                          /\ \A b : BatchOf(q, b)' => BatchOf(q, b) /\ q # r
  BY <1>3, <1>5, KeptIsPending DEF SecretOf, BatchOf
<1>8. Secrets' = Secrets /\ Batches' = Batches
  BY DEF Secrets, Batches
<1>9. ASSUME NEW k, Enrolls(req[r], k) PROVE SecretBorn(k)'
  <2>1. SecretOf(r, k)
    BY <1>9 DEF SecretOf
  <2>2. k \in Secrets
    BY <1>1, <2>1, PendingIsPlanned
  <2>3. QED
    BY <1>1, <1>7, <1>8, <2>1, <2>2 DEF SecretBorn, OneEach
<1>10. ASSUME NEW b, NEW s, Confirms(req[r], b, s) PROVE BatchBorn(b)'
  <2>1. BatchOf(r, b)
    BY <1>10 DEF BatchOf
  <2>2. b \in Batches
    BY <1>1, <2>1, PendingIsPlanned
  <2>3. QED
    BY <1>1, <1>7, <1>8, <2>1, <2>2 DEF BatchBorn, OneEach
<1>11. PasskeyIsThere'
  <2>1. ASSUME NEW q \in Requests,
               req'[q].phase = "registering" \/ (Writing(req[q])' /\ Registers(req[q])')
        PROVE  passkeys' # {} \/ orphaned'
    <3>1. q # r
      BY <1>3, <2>1
    <3>2. req'[q].phase = req[q].phase /\ req'[q].patch = req[q].patch /\ req'[q].answer = req[q].answer
      BY <1>4, <3>1
    <3>3. req[q].phase = "registering" \/ (Writing(req[q]) /\ Registers(req[q]))
      BY <2>1, <3>2 DEF Writing, Registers
    <3>4. QED
      BY <1>1, <1>2, <3>3 DEF PasskeyIsThere
  <2>2. QED
    BY <2>1 DEF PasskeyIsThere
<1>12. ASSUME row' \in Rows, accepted' \in Nat, races' \in Nat, handed' \in 0..MaxBatches
       PROVE  Typed'
  <2>1. DOMAIN req' = Requests
    BY <1>2 DEF Outdated
  <2>2. ASSUME NEW q \in Requests
        PROVE  /\ req'[q] = [phase |-> req'[q].phase, patch |-> req'[q].patch,
                             answer |-> req'[q].answer, stale |-> req'[q].stale]
               /\ req'[q].phase \in {"idle", "registering", "updating", "inserting"}
               /\ req'[q].stale \in BOOLEAN
               /\ ~Writing(req[q])' => req'[q].patch = NoPatch
    <3>1. CASE q = r
      <4>1. req'[q] = Resting
        BY <1>3, <3>1
      <4>2. QED
        BY <4>1 DEF Resting
    <3>2. CASE q # r
      BY <1>1, <1>4, <3>2 DEF Typed, Writing
    <3>3. QED
      BY <3>1, <3>2
  <2>3. QED
    BY <1>1, <1>2, <1>6, <1>12, <2>1, <2>2 DEF Typed
<1>13. QED
  BY <1>5, <1>6, <1>9, <1>10, <1>11, <1>12

(* What a write has to establish of the row and what is told of it.        *)
RowHolds ==
  /\ row \in Rows /\ accepted \in Nat /\ races \in Nat /\ handed \in 0..MaxBatches
  /\ RowIsBorn /\ WatchedIsBorn
  /\ Counted /\ OffIsEmpty /\ RecoveryCodesAreExact
  /\ ActiveSecretIsProven /\ FactorUnlessOrphaned

LEMMA EnrollWrite ==
  ASSUME IInv, NEW r \in Requests, Writing(req[r]), Write(r), NEW k, Enrolls(req[r], k),
         UNCHANGED <<passkeys, now, secrets, batches>>
  PROVE  RowHolds'
<1>1. Typed /\ WatchedIsBorn /\ Counted
  BY DEF IInv
<1>2. req[r].answer = <<"enrolled">> /\ req[r].answer[1] = "enrolled"
  BY DEF Enrolls
<1>3. SecretOf(r, k) /\ k \in Secrets /\ SecretBorn(k)' /\ Lasting
  BY <1>1, WriteKeeps, PendingIsPlanned DEF SecretOf
<1>4. row' \in Rows /\ row'.secret = k /\ ~row'.on /\ row'.codes = {} /\ row'.last = 0
  <2>1. req[r].patch = [secret |-> k, on |-> FALSE, codes |-> {}, last |-> 0]
    BY DEF Enrolls, Blank
  <2>2. row' = Patched(row, req[r].patch)
    BY DEF Write
  <2>3. row' = [secret |-> k, on |-> FALSE, codes |-> {}, last |-> 0]
    BY <1>1, <2>1, <2>2 DEF Patched, Typed, Rows
  <2>4. k \in 0..MaxSecrets /\ 0 \in 0..MaxStep
    BY <1>1, <1>3, BoundsAssumption DEF Typed, Secrets
  <2>5. QED
    BY <2>3, <2>4 DEF Rows
<1>5. watched \in Codes /\ watched[1] \in {"totp", "recovery"}
  BY <1>1, WatchedIs DEF Typed
<1>6. req[r].answer # watched
  BY <1>2, <1>5
<1>7. /\ accepted' = accepted /\ handed' = 0 /\ races' = races /\ watched' = watched
      /\ accepted \in Nat /\ races \in Nat /\ 0 \in 0..MaxBatches
  BY <1>1, <1>2, <1>6, BoundsAssumption DEF Write, Answer, Typed
<1>8. RowIsBorn'
  BY <1>3, <1>4 DEF RowIsBorn
<1>9. WatchedIsBorn'
  BY <1>1, <1>3, <1>7 DEF WatchedIsBorn, Lasting
<1>10. Counted'
  <2>1. accepted > 0 => Spent'
    <3>1. ~SecretBorn(k)
      BY <1>3 DEF SecretBorn
    <3>2. QED
      BY <1>1, <1>4, <1>5, <1>7, <3>1 DEF Spent, WatchedIsBorn
  <2>2. QED
    BY <1>1, <1>7, <2>1 DEF Counted
<1>11. QED
  BY <1>4, <1>7, <1>8, <1>9, <1>10
  DEF RowHolds, OffIsEmpty, RecoveryCodesAreExact, ActiveSecretIsProven, FactorUnlessOrphaned

(* The other writes count when what they read has changed since.  Then     *)
(* only the count is left to say of them.                                  *)
LEMMA CountsRaces ==
  ASSUME Typed, NEW r \in Requests, Write(r), req[r].answer[1] # "enrolled"
  PROVE  /\ races' = IF req[r].stale THEN races + 1 ELSE races
         /\ accepted' = IF req[r].answer = watched THEN accepted + 1 ELSE accepted
         /\ watched' = watched /\ orphaned' = orphaned
         /\ races \in Nat /\ races' \in Nat /\ accepted \in Nat /\ accepted' \in Nat
         /\ req[r].stale => races' # 0
         /\ races' = 0 => races = 0 /\ ~req[r].stale
<1>1. /\ races' = IF req[r].stale THEN races + 1 ELSE races
      /\ accepted' = IF req[r].answer = watched THEN accepted + 1 ELSE accepted
      /\ watched' = watched /\ orphaned' = orphaned
  BY DEF Write, Answer
<1>2. races \in Nat /\ accepted \in Nat
  BY DEF Typed
<1>3. QED
  BY <1>1, <1>2

(* The row after a patch, column by column.                                *)
LEMMA PatchedRow ==
  ASSUME NEW old \in Rows, NEW patch, NEW on
  PROVE  /\ patch = [on |-> on] =>
              Patched(old, patch) = [secret |-> old.secret, on |-> on, codes |-> old.codes,
                                     last |-> old.last]
         /\ \A codes : patch = [on |-> on, codes |-> codes] =>
              Patched(old, patch) = [secret |-> old.secret, on |-> on, codes |-> codes,
                                     last |-> old.last]
<1>1. DOMAIN old = {"secret", "on", "codes", "last"}
  BY DEF Rows
<1>2. ASSUME patch = [on |-> on]
      PROVE  Patched(old, patch) = [secret |-> old.secret, on |-> on, codes |-> old.codes,
                                    last |-> old.last]
  <2>1. DOMAIN patch = {"on"} /\ patch["on"] = on
    BY <1>2
  <2>2. QED
    BY <1>1, <2>1 DEF Patched
<1>3. ASSUME NEW codes, patch = [on |-> on, codes |-> codes]
      PROVE  Patched(old, patch) = [secret |-> old.secret, on |-> on, codes |-> codes,
                                    last |-> old.last]
  <2>1. DOMAIN patch = {"on", "codes"} /\ patch["on"] = on /\ patch["codes"] = codes
    BY <1>3
  <2>2. QED
    BY <1>1, <2>1 DEF Patched
<1>4. QED
  BY <1>2, <1>3

LEMMA ConfirmWrite ==
  ASSUME IInv, NEW r \in Requests, Writing(req[r]), Write(r),
         NEW b, NEW s, Confirms(req[r], b, s),
         UNCHANGED <<passkeys, now, secrets, batches>>
  PROVE  RowHolds'
<1>1. /\ Typed /\ RowIsBorn /\ WatchedIsBorn /\ Counted /\ Planned(req[r])
      /\ AnswerIsBorn(req[r]) /\ Current(req[r])
  BY DEF IInv, Typed
<1>2. /\ req[r].answer[1] = "confirmed" /\ req[r].answer[2] = b /\ req[r].answer[3] = s
      /\ b \in Batches /\ s \in Secrets
  BY <1>1, Kinds DEF Planned
<1>3. /\ BatchOf(r, b) /\ ~BatchBorn(b) /\ BatchBorn(b)' /\ Lasting
  BY <1>2, WriteKeeps DEF BatchOf, BatchBorn
<1>4. row' \in Rows /\ row'.secret = row.secret /\ row'.on /\ row'.codes = Batch(b) /\ row'.last = row.last
  <2>0. PICK on : on = TRUE /\ req[r].patch = [on |-> on, codes |-> Batch(b)]
    BY DEF Confirms
  <2>1. req[r].patch = [on |-> on, codes |-> Batch(b)]
    BY <2>0
  <2>2. row' = Patched(row, req[r].patch)
    BY DEF Write
  <2>3. row' = [secret |-> row.secret, on |-> on, codes |-> Batch(b), last |-> row.last]
    BY <1>1, <2>1, <2>2, PatchedRow DEF Typed
  <2>4. Batch(b) \subseteq Recovery
    <3>1. b \in 1..MaxBatches
      BY <1>1, <1>2, BoundsAssumption DEF Typed, Batches
    <3>2. QED
      BY <3>1 DEF Batch, Recovery
  <2>5. QED
    BY <1>1, <2>0, <2>3, <2>4 DEF Rows, Typed
<1>5. /\ watched \in Codes /\ watched[1] \in {"totp", "recovery"}
      /\ req[r].answer # watched
  BY <1>1, <1>2, WatchedIs DEF Typed
<1>6. /\ accepted' = accepted /\ watched' = watched /\ orphaned' = orphaned
      /\ races' = IF req[r].stale THEN races + 1 ELSE races
      /\ races \in Nat /\ races' \in Nat /\ accepted \in Nat
      /\ races' = 0 => races = 0 /\ ~req[r].stale
  BY <1>1, <1>2, <1>5, CountsRaces
<1>7. handed' = b /\ handed' \in 0..MaxBatches /\ vouched' = vouched \cup {s}
  <2>1. b \in 0..MaxBatches
    BY <1>1, <1>2, BoundsAssumption DEF Typed, Batches
  <2>2. QED
    BY <1>2, <2>1 DEF Write, Answer
<1>8. RowIsBorn'
  <2>1. \A c \in Batch(b) : c[1] = b
    BY DEF Batch
  <2>2. QED
    BY <1>1, <1>3, <1>4, <2>1 DEF RowIsBorn, Lasting
<1>9. WatchedIsBorn'
  BY <1>1, <1>3, <1>6 DEF WatchedIsBorn, Lasting
<1>10. accepted > 0 => watched[1] = "totp" \/ watched[2] \notin Batch(b)
  <2>1. ASSUME accepted > 0, watched[1] # "totp" PROVE watched[2][1] # b
    BY <1>1, <1>3, <2>1 DEF WatchedIsBorn
  <2>2. QED
    BY <2>1 DEF Batch
<1>11. Counted'
  <2>1. accepted > 0 /\ Spent => Spent'
    BY <1>4, <1>6, <1>10 DEF Spent
  <2>2. QED
    BY <1>1, <1>6, <2>1 DEF Counted
<1>12. RecoveryCodesAreExact'
  <2>1. \A c \in Batch(b) : watched = <<"recovery", c>> => accepted = 0
    <3>1. ASSUME NEW c \in Batch(b), watched = <<"recovery", c>> PROVE accepted = 0
      <4>1. watched[1] = "recovery" /\ watched[2] = c
        BY <3>1
      <4>2. QED
        BY <1>6, <1>10, <4>1
    <3>2. QED
      BY <3>1
  <2>2. QED
    BY <1>4, <1>6, <1>7, <2>1 DEF RecoveryCodesAreExact
<1>13. ActiveSecretIsProven' /\ FactorUnlessOrphaned'
  <2>1. races' = 0 => row.secret = s
    BY <1>1, <1>6 DEF Current
  <2>2. s # 0
    BY <1>1, <1>2 DEF Secrets, Typed
  <2>3. QED
    BY <1>4, <1>7, <2>1, <2>2 DEF ActiveSecretIsProven, FactorUnlessOrphaned
<1>14. OffIsEmpty'
  BY <1>4 DEF OffIsEmpty
<1>15. QED
  BY <1>4, <1>6, <1>7, <1>8, <1>9, <1>11, <1>12, <1>13, <1>14 DEF RowHolds

LEMMA TotpWrite ==
  ASSUME IInv, NEW r \in Requests, Writing(req[r]), Write(r),
         NEW s, NEW t, AcceptsTotp(req[r], s, t),
         UNCHANGED <<passkeys, now, secrets, batches>>
  PROVE  RowHolds'
<1>1. /\ Typed /\ RowIsBorn /\ WatchedIsBorn /\ Counted /\ Planned(req[r])
      /\ AnswerIsBorn(req[r]) /\ Current(req[r])
      /\ OffIsEmpty /\ RecoveryCodesAreExact /\ ActiveSecretIsProven /\ FactorUnlessOrphaned
  BY DEF IInv, Typed
<1>2. /\ req[r].answer = <<"totp", <<s, t>>>>
      /\ req[r].answer[1] = "totp" /\ req[r].answer[2][1] = s /\ req[r].answer[2][2] = t
      /\ s \in Secrets /\ t \in 1..MaxStep
  <2>1. req[r].answer = <<"totp", <<s, t>>>>
    BY DEF AcceptsTotp
  <2>2. req[r].answer[1] = "totp" /\ req[r].answer[2][1] = s /\ req[r].answer[2][2] = t
    BY <2>1
  <2>3. s \in Secrets /\ t \in 1..MaxStep
    BY <1>1, <2>2, Kinds DEF Planned
  <2>4. QED
    BY <2>1, <2>2, <2>3
<1>3. Lasting /\ SecretBorn(s)'
  BY <1>1, WriteKeeps DEF AnswerIsBorn, Lasting
<1>4. row' \in Rows /\ row'.secret = row.secret /\ row'.on = row.on /\ row'.codes = row.codes /\ row'.last = t
  <2>1. req[r].patch = [last |-> t]
    BY DEF AcceptsTotp
  <2>2. row' = Patched(row, req[r].patch)
    BY DEF Write
  <2>3. row' = [secret |-> row.secret, on |-> row.on, codes |-> row.codes, last |-> t]
    BY <1>1, <2>1, <2>2 DEF Patched, Typed, Rows
  <2>4. t \in 0..MaxStep
    BY <1>2, BoundsAssumption
  <2>5. QED
    BY <1>1, <2>3, <2>4 DEF Rows, Typed
<1>5. /\ watched' = watched /\ orphaned' = orphaned
      /\ races' = IF req[r].stale THEN races + 1 ELSE races
      /\ accepted' = IF req[r].answer = watched THEN accepted + 1 ELSE accepted
      /\ races \in Nat /\ races' \in Nat /\ accepted \in Nat /\ accepted' \in Nat
      /\ races' = 0 => races = 0 /\ ~req[r].stale
  BY <1>1, <1>2, CountsRaces
<1>6. handed' = handed /\ handed' \in 0..MaxBatches /\ vouched' = vouched
  BY <1>1, <1>2 DEF Write, Answer, Typed
<1>7. RowIsBorn'
  BY <1>1, <1>3, <1>4 DEF RowIsBorn, Lasting
<1>8. WatchedIsBorn'
  BY <1>1, <1>2, <1>3, <1>5 DEF WatchedIsBorn, Lasting
<1>9. ~req[r].stale => row.secret = s /\ row.last < t
  BY <1>1 DEF Current
<1>10. t \in Nat /\ row.last \in Nat /\ row'.last \in Nat
  BY <1>1, <1>2, <1>4, BoundsAssumption DEF Typed, Rows
<1>11. Counted'
  <2>1. CASE req[r].answer = watched
    <3>1. watched[1] = "totp" /\ watched[2][1] = s /\ watched[2][2] = t
      BY <1>2, <2>1
    <3>2. Spent'
      BY <1>4, <1>5, <1>10, <3>1 DEF Spent
    <3>3. ~req[r].stale => ~Spent
      BY <1>9, <1>10, <3>1 DEF Spent
    <3>4. QED
      BY <1>1, <1>5, <2>1, <3>2, <3>3 DEF Counted
  <2>2. CASE req[r].answer # watched
    <3>1. watched[1] = "totp" => watched[2][2] \in Nat
      BY <1>1, WatchedIs, BoundsAssumption DEF Typed
    <3>2. Spent /\ ~req[r].stale => Spent'
      BY <1>4, <1>5, <1>9, <1>10, <3>1 DEF Spent
    <3>3. QED
      BY <1>1, <1>5, <2>2, <3>2 DEF Counted
  <2>3. QED
    BY <2>1, <2>2
<1>12. RecoveryCodesAreExact'
  <2>1. watched[1] = "recovery" => accepted' = accepted
    BY <1>2, <1>5
  <2>2. \A c : watched = <<"recovery", c>> => watched[1] = "recovery"
    OBVIOUS
  <2>3. QED
    BY <1>1, <1>4, <1>5, <1>6, <2>1, <2>2 DEF RecoveryCodesAreExact
<1>13. ActiveSecretIsProven' /\ FactorUnlessOrphaned' /\ OffIsEmpty'
  BY <1>1, <1>4, <1>5, <1>6 DEF ActiveSecretIsProven, FactorUnlessOrphaned, OffIsEmpty
<1>14. QED
  BY <1>4, <1>5, <1>6, <1>7, <1>8, <1>11, <1>12, <1>13 DEF RowHolds

LEMMA RecoveryWrite ==
  ASSUME IInv, NEW r \in Requests, Writing(req[r]), Write(r),
         NEW c, NEW left, AcceptsRecovery(req[r], c, left),
         UNCHANGED <<passkeys, now, secrets, batches>>
  PROVE  RowHolds'
<1>1. /\ Typed /\ RowIsBorn /\ WatchedIsBorn /\ Counted /\ Planned(req[r])
      /\ AnswerIsBorn(req[r]) /\ Current(req[r])
      /\ OffIsEmpty /\ RecoveryCodesAreExact /\ ActiveSecretIsProven /\ FactorUnlessOrphaned
  BY DEF IInv, Typed
<1>2. /\ req[r].answer = <<"recovery", c>>
      /\ req[r].answer[1] = "recovery" /\ req[r].answer[2] = c
      /\ c \in Recovery /\ left \in SUBSET Recovery /\ c \notin left
  <2>1. req[r].answer = <<"recovery", c>> /\ c \notin left
    BY DEF AcceptsRecovery
  <2>2. req[r].answer[1] = "recovery" /\ req[r].answer[2] = c
    BY <2>1
  <2>3. c \in Recovery /\ left \in SUBSET Recovery
    BY <1>1, <2>2, Kinds DEF Planned
  <2>4. QED
    BY <2>1, <2>2, <2>3
<1>3. Lasting /\ \A d \in left \cup {c} : BatchBorn(d[1])'
  BY <1>1, WriteKeeps DEF AnswerIsBorn, Lasting
<1>4. row' \in Rows /\ row'.secret = row.secret /\ row'.on = row.on /\ row'.codes = left /\ row'.last = row.last
  <2>1. req[r].patch = [codes |-> left]
    BY DEF AcceptsRecovery
  <2>2. row' = Patched(row, req[r].patch)
    BY DEF Write
  <2>3. row' = [secret |-> row.secret, on |-> row.on, codes |-> left, last |-> row.last]
    BY <1>1, <2>1, <2>2 DEF Patched, Typed, Rows
  <2>4. QED
    BY <1>1, <1>2, <2>3 DEF Rows, Typed
<1>5. /\ watched' = watched /\ orphaned' = orphaned
      /\ races' = IF req[r].stale THEN races + 1 ELSE races
      /\ accepted' = IF req[r].answer = watched THEN accepted + 1 ELSE accepted
      /\ races \in Nat /\ races' \in Nat /\ accepted \in Nat /\ accepted' \in Nat
      /\ races' = 0 => races = 0 /\ ~req[r].stale
  BY <1>1, <1>2, CountsRaces
<1>6. handed' = handed /\ handed' \in 0..MaxBatches /\ vouched' = vouched
  BY <1>1, <1>2 DEF Write, Answer, Typed
<1>7. RowIsBorn'
  BY <1>1, <1>3, <1>4 DEF RowIsBorn, Lasting
<1>8. WatchedIsBorn'
  BY <1>1, <1>2, <1>3, <1>5 DEF WatchedIsBorn, Lasting
<1>9. ~req[r].stale => c \in row.codes /\ left = row.codes \ {c}
  BY <1>1 DEF Current
<1>10. Counted'
  <2>1. CASE req[r].answer = watched
    <3>1. watched[1] = "recovery" /\ watched[2] = c
      BY <1>2, <2>1
    <3>2. Spent'
      BY <1>2, <1>4, <1>5, <3>1 DEF Spent
    <3>3. ~req[r].stale => ~Spent
      BY <1>9, <3>1 DEF Spent
    <3>4. QED
      BY <1>1, <1>5, <2>1, <3>2, <3>3 DEF Counted
  <2>2. CASE req[r].answer # watched
    <3>1. Spent /\ ~req[r].stale => Spent'
      BY <1>4, <1>5, <1>9 DEF Spent
    <3>2. QED
      BY <1>1, <1>5, <2>2, <3>1 DEF Counted
  <2>3. QED
    BY <2>1, <2>2
<1>11. RecoveryCodesAreExact'
  <2>1. SUFFICES ASSUME row'.on, races' = 0
                 PROVE  /\ left \subseteq Batch(handed)
                        /\ \A d \in Batch(handed) : watched = <<"recovery", d>> =>
                             (d \in left <=> accepted' = 0)
    BY <1>4, <1>5, <1>6 DEF RecoveryCodesAreExact, Batch
  <2>2. /\ row.on /\ left = row.codes \ {c} /\ row.codes \subseteq Batch(handed)
        /\ \A d \in Batch(handed) : watched = <<"recovery", d>> =>
             (d \in row.codes <=> accepted = 0)
    BY <1>1, <1>4, <1>5, <1>9, <2>1 DEF RecoveryCodesAreExact
  <2>3. ASSUME NEW d \in Batch(handed), watched = <<"recovery", d>>
        PROVE  d \in left <=> accepted' = 0
    <3>1. CASE d = c
      BY <1>2, <1>5, <2>2, <2>3, <3>1
    <3>2. CASE d # c
      <4>1. req[r].answer # watched
        <5>1. watched[2] = d
          BY <2>3
        <5>2. QED
          BY <1>2, <3>2, <5>1
      <4>2. QED
        BY <1>5, <2>2, <2>3, <3>2, <4>1
    <3>3. QED
      BY <3>1, <3>2
  <2>4. QED
    BY <2>2, <2>3
<1>12. ActiveSecretIsProven' /\ FactorUnlessOrphaned' /\ OffIsEmpty'
  BY <1>1, <1>4, <1>5, <1>6, <1>9 DEF ActiveSecretIsProven, FactorUnlessOrphaned, OffIsEmpty
<1>13. QED
  BY <1>4, <1>5, <1>6, <1>7, <1>8, <1>10, <1>11, <1>12 DEF RowHolds

LEMMA RegisterWrite ==
  ASSUME IInv, NEW r \in Requests, Writing(req[r]), Write(r), Registers(req[r]),
         UNCHANGED <<passkeys, now, secrets, batches>>
  PROVE  RowHolds'
<1>1. /\ Typed /\ RowIsBorn /\ WatchedIsBorn /\ Counted
      /\ OffIsEmpty /\ RecoveryCodesAreExact /\ PasskeyIsThere
  BY DEF IInv, Typed
<1>2. req[r].answer = <<"registered">> /\ req[r].answer[1] = "registered"
  BY DEF Registers
<1>3. Lasting /\ (passkeys # {} \/ orphaned)
  BY <1>1, WriteKeeps DEF PasskeyIsThere
<1>4. row' \in Rows /\ row'.secret = row.secret /\ row'.on /\ row'.codes = row.codes /\ row'.last = row.last
  <2>0. PICK on : on = TRUE /\ req[r].patch = [on |-> on]
    BY DEF Registers
  <2>1. req[r].patch = [on |-> on]
    BY <2>0
  <2>2. row' = Patched(row, req[r].patch)
    BY DEF Write
  <2>3. row' = [secret |-> row.secret, on |-> on, codes |-> row.codes, last |-> row.last]
    BY <1>1, <2>1, <2>2, PatchedRow DEF Typed
  <2>4. QED
    BY <1>1, <2>0, <2>3 DEF Rows, Typed
<1>5. /\ watched \in Codes /\ watched[1] \in {"totp", "recovery"}
      /\ req[r].answer # watched
  BY <1>1, <1>2, WatchedIs DEF Typed
<1>6. /\ watched' = watched /\ orphaned' = orphaned /\ accepted' = accepted
      /\ races' = IF req[r].stale THEN races + 1 ELSE races
      /\ races \in Nat /\ races' \in Nat /\ accepted \in Nat
      /\ races' = 0 => races = 0 /\ ~req[r].stale
  BY <1>1, <1>2, <1>5, CountsRaces
<1>7. handed' = handed /\ handed' \in 0..MaxBatches /\ vouched' = vouched \cup {row.secret}
  BY <1>1, <1>2 DEF Write, Answer, Typed
<1>8. RowIsBorn' /\ WatchedIsBorn'
  BY <1>1, <1>3, <1>4, <1>6 DEF RowIsBorn, WatchedIsBorn, Lasting
<1>9. Counted'
  <2>1. Spent => Spent'
    BY <1>4, <1>6 DEF Spent
  <2>2. QED
    BY <1>1, <1>6, <2>1 DEF Counted
<1>10. RecoveryCodesAreExact'
  <2>1. CASE row.on
    BY <1>1, <1>4, <1>6, <1>7, <2>1 DEF RecoveryCodesAreExact
  <2>2. CASE ~row.on
    <3>1. SUFFICES ASSUME races' = 0 PROVE RecoveryCodesAreExact'
      BY DEF RecoveryCodesAreExact
    <3>2. row'.codes = {} /\ handed' = 0
      BY <1>1, <1>4, <1>6, <1>7, <2>2, <3>1 DEF OffIsEmpty
    <3>3. ASSUME NEW c \in Batch(0) PROVE watched # <<"recovery", c>>
      <4>1. c[1] = 0
        BY DEF Batch
      <4>2. ASSUME watched = <<"recovery", c>> PROVE FALSE
        <5>1. watched[1] = "recovery" /\ watched[2] = c
          BY <4>2
        <5>2. c \in Recovery
          BY <1>5, <5>1, WatchedIs
        <5>3. c[1] \in 1..MaxBatches
          BY <5>2 DEF Recovery
        <5>4. QED
          BY <4>1, <5>3, BoundsAssumption
      <4>3. QED
        BY <4>2
    <3>4. QED
      BY <1>6, <3>2, <3>3 DEF RecoveryCodesAreExact
  <2>3. QED
    BY <2>1, <2>2
<1>11. ActiveSecretIsProven' /\ FactorUnlessOrphaned' /\ OffIsEmpty'
  BY <1>3, <1>4, <1>6, <1>7 DEF ActiveSecretIsProven, FactorUnlessOrphaned, OffIsEmpty
<1>12. QED
  BY <1>4, <1>6, <1>7, <1>8, <1>9, <1>10, <1>11 DEF RowHolds

LEMMA WriteStep ==
  ASSUME IInv, NEW r \in Requests, Writing(req[r]), Write(r),
         UNCHANGED <<passkeys, now, secrets, batches>>
  PROVE  IInv'
<1>1. Planned(req[r])
  BY DEF IInv, Typed
<1>2. RowHolds'
  BY <1>1, EnrollWrite, ConfirmWrite, TotpWrite, RecoveryWrite, RegisterWrite DEF Planned
<1>3. QED
  BY <1>2, WriteKeeps DEF RowHolds, IInv

LEMMA DisableStep ==
  ASSUME IInv, disableMfa
  PROVE  IInv'
<1>1. Typed /\ OneEach /\ WatchedIsBorn /\ Counted /\ PasskeyIsThere
  BY DEF IInv
<1>2. /\ row' = Blank /\ there' = FALSE /\ handed' = 0 /\ req' = Outdated
      /\ UNCHANGED <<passkeys, now, secrets, batches, watched, accepted, orphaned, races>>
  BY DEF disableMfa
<1>3. ASSUME NEW q \in Requests
      PROVE  /\ req'[q].phase = req[q].phase /\ req'[q].patch = req[q].patch
             /\ req'[q].answer = req[q].answer
             /\ ~req'[q].stale => ~req[q].stale /\ row' = row
             /\ req'[q] = [phase |-> req'[q].phase, patch |-> req'[q].patch,
                           answer |-> req'[q].answer, stale |-> req'[q].stale]
             /\ req'[q].stale \in BOOLEAN
  <2>1. req'[q] = [req[q] EXCEPT !.stale = @ \/ row' # row]
    BY <1>1, <1>2 DEF Typed, Outdated
  <2>2. req[q] = [phase |-> req[q].phase, patch |-> req[q].patch,
                  answer |-> req[q].answer, stale |-> req[q].stale]
    BY <1>1 DEF Typed
  <2>3. \A u : [req[q] EXCEPT !.stale = u] =
               [phase |-> req[q].phase, patch |-> req[q].patch, answer |-> req[q].answer,
                stale |-> u]
    BY <2>2
  <2>4. req'[q].stale = (req[q].stale \/ row' # row)
    BY <2>1, <2>2
  <2>5. /\ req'[q].phase = req[q].phase /\ req'[q].patch = req[q].patch
        /\ req'[q].answer = req[q].answer
        /\ req'[q] = [phase |-> req'[q].phase, patch |-> req'[q].patch,
                      answer |-> req'[q].answer, stale |-> req'[q].stale]
    BY <2>1, <2>3
  <2>6. QED
    BY <2>4, <2>5
<1>4. \A q \in Requests : Kept(q)
  BY <1>3 DEF Kept, Writing
<1>5. /\ OneEach' /\ Lasting
      /\ \A q \in Requests : AnswerIsBorn(req[q])' /\ Current(req[q])'
      /\ \A q \in Requests : Writing(req[q])' => Planned(req[q])'
  BY <1>2, <1>4, AllKept
<1>6. Typed'
  <2>1. DOMAIN req' = Requests
    BY <1>2 DEF Outdated
  <2>2. \A q \in Requests : ~Writing(req[q])' => req'[q].patch = NoPatch
    BY <1>1, <1>3 DEF Typed, Writing
  <2>3. Blank \in Rows /\ 0 \in 0..MaxBatches
    BY BoundsAssumption DEF Blank, Rows
  <2>4. QED
    BY <1>1, <1>2, <1>3, <1>5, <2>1, <2>2, <2>3 DEF Typed
<1>7. PasskeyIsThere'
  BY <1>1, <1>2, <1>3 DEF PasskeyIsThere, Writing, Registers
<1>8. row'.secret = 0 /\ ~row'.on /\ row'.codes = {}
  BY <1>2 DEF Blank
<1>9. RowIsBorn' /\ WatchedIsBorn'
  BY <1>1, <1>2, <1>5, <1>8 DEF RowIsBorn, WatchedIsBorn, Lasting
<1>10. Counted'
  <2>1. Spent'
    BY <1>1, <1>2, <1>8, WatchedIs, BoundsAssumption DEF Spent, Typed
  <2>2. QED
    BY <1>1, <1>2, <2>1 DEF Counted, Typed
<1>11. QED
  BY <1>2, <1>5, <1>6, <1>7, <1>8, <1>9, <1>10
  DEF IInv, OffIsEmpty, RecoveryCodesAreExact, ActiveSecretIsProven, FactorUnlessOrphaned

LEMMA UpdateStep ==
  ASSUME IInv, NEW r \in Requests, update(r)
  PROVE  IInv'
<1>1. CASE there
  BY <1>1, WriteStep DEF update, Writing
<1>2. CASE ~there
  BY <1>2, InsertNextStep DEF update
<1>3. QED
  BY <1>1, <1>2

LEMMA InsertStep ==
  ASSUME IInv, NEW r \in Requests, insert(r)
  PROVE  IInv'
<1>1. CASE there
  BY <1>1, RestStep DEF insert
<1>2. CASE ~there
  BY <1>2, WriteStep DEF insert, Writing
<1>3. QED
  BY <1>1, <1>2

LEMMA StutterStep ==
  ASSUME IInv, UNCHANGED vars
  PROVE  IInv'
<1>1. \A q \in Requests : Kept(q)
  BY DEF vars, Kept, Writing
<1>2. UNCHANGED <<row, secrets, batches, watched, accepted, handed, vouched, races>>
  BY DEF vars
<1>3. Typed'
  <2>1. \A q \in Requests : Writing(req[q])' => Planned(req[q])'
    BY <1>1, <1>2, AllKept
  <2>2. QED
    BY <2>1 DEF IInv, Typed, vars, Writing
<1>4. PasskeyIsThere' /\ FactorUnlessOrphaned'
  BY DEF IInv, PasskeyIsThere, FactorUnlessOrphaned, vars, Writing, Registers
<1>5. QED
  BY <1>1, <1>2, <1>3, <1>4, PasskeyStep

LEMMA InitHolds == Init => IInv
<1> SUFFICES ASSUME Init PROVE IInv
  OBVIOUS
<1>1. /\ row = Blank /\ Blank.codes = {} /\ Blank.secret = 0 /\ ~Blank.on /\ Blank \in Rows
      /\ accepted = 0 /\ handed = 0 /\ races = 0 /\ passkeys = {} /\ watched \in Codes
  BY BoundsAssumption DEF Init, Blank, Rows
<1>2. \A r \in Requests : /\ req[r] = Resting /\ req[r].phase = "idle" /\ ~Writing(req[r])
  BY DEF Init, Resting, Writing
<1>3. Typed
  <2>1. 1 \in 1..MaxStep
    BY BoundsAssumption
  <2>2. \A r \in Requests :
          /\ req[r] = [phase |-> req[r].phase, patch |-> req[r].patch,
                       answer |-> req[r].answer, stale |-> req[r].stale]
          /\ req[r].stale \in BOOLEAN /\ req[r].patch = NoPatch
    <3>1. /\ Resting = [phase |-> Resting.phase, patch |-> Resting.patch,
                        answer |-> Resting.answer, stale |-> Resting.stale]
          /\ Resting.stale \in BOOLEAN /\ Resting.patch = NoPatch
      BY DEF Resting
    <3>2. QED
      BY <1>2, <3>1
  <2>3. DOMAIN req = Requests /\ there \in BOOLEAN /\ orphaned \in BOOLEAN
    BY DEF Init
  <2>4. QED
    BY <1>1, <1>2, <2>1, <2>2, <2>3, BoundsAssumption DEF Init, Typed
<1>4. OneEach /\ RowIsBorn /\ WatchedIsBorn /\ PasskeyIsThere
  BY <1>1, <1>2 DEF OneEach, SecretOf, BatchOf, RowIsBorn, WatchedIsBorn, PasskeyIsThere
<1>5. \A r \in Requests : AnswerIsBorn(req[r]) /\ Current(req[r])
  BY <1>2 DEF AnswerIsBorn, Current
<1>6. QED
  BY <1>1, <1>3, <1>4, <1>5
  DEF IInv, Counted, OffIsEmpty, RecoveryCodesAreExact, ActiveSecretIsProven,
      FactorUnlessOrphaned

LEMMA NextHolds == IInv /\ [Next]_vars => IInv'
<1> SUFFICES ASSUME IInv, [Next]_vars PROVE IInv'
  OBVIOUS
<1>1. ASSUME NEW r \in Requests, startTotpEnrollment(r) PROVE IInv'
  BY <1>1, StartStep
<1>2. ASSUME NEW r \in Requests, confirmTotpEnrollment(r) PROVE IInv'
  BY <1>2, ConfirmStep
<1>3. ASSUME NEW r \in Requests, verifyTotp(r) PROVE IInv'
  BY <1>3, VerifyStep
<1>4. ASSUME NEW r \in Requests, consumeRecoveryCode(r) PROVE IInv'
  BY <1>4, ConsumeStep
<1>5. ASSUME NEW r \in Requests, refuse(r) PROVE IInv'
  BY <1>5, StutterStep DEF refuse
<1>6. ASSUME NEW r \in Requests, createPasskey(r) PROVE IInv'
  BY <1>6, CreateStep
<1>7. ASSUME NEW r \in Requests, enableMfa(r) PROVE IInv'
  BY <1>7, EnableStep
<1>8. ASSUME NEW r \in Requests, update(r) PROVE IInv'
  BY <1>8, UpdateStep
<1>9. ASSUME NEW r \in Requests, insert(r) PROVE IInv'
  BY <1>9, InsertStep
<1>10. ASSUME NEW r \in Requests, fail(r) PROVE IInv'
  BY <1>10, RestStep DEF fail
<1>11. CASE disableMfa
  BY <1>11, DisableStep
<1>12. CASE removePasskey
  BY <1>12, RemoveStep
<1>13. CASE Tick
  BY <1>13, TickStep
<1>14. CASE UNCHANGED vars
  BY <1>14, StutterStep
<1>15. QED
  BY <1>1, <1>2, <1>3, <1>4, <1>5, <1>6, <1>7, <1>8, <1>9, <1>10, <1>11, <1>12, <1>13, <1>14
  DEF Next

---------------------------------------------------------------------------
(* What holds in every state of every run: a code is accepted again only   *)
(* where a write went over a changed row, for the reason that every other  *)
(* acceptance leaves the row spent of it (mfa.ts verifyTotp and            *)
(* consumeRecoveryCode).                                                   *)
THEOREM InvariantHolds == Spec => []IInv
<1>1. QED
  BY InitHolds, NextHolds, PTL DEF Spec

(* No code of a second factor is accepted more often than one time more    *)
(* than there were writes over a changed row.                              *)
THEOREM CodesAreReusedOnlyByRaces == Spec => []ReusesAreRaces
<1>1. IInv => ReusesAreRaces
  BY DEF IInv, Counted, Typed, ReusesAreRaces
<1>2. QED
  BY <1>1, InvariantHolds, PTL

(* Without such writes the recovery codes of an enabled row are the batch  *)
(* the user was given, less those used.                                    *)
THEOREM RecoveryCodesStayExact == Spec => []RecoveryCodesAreExact
<1>1. IInv => RecoveryCodesAreExact
  BY DEF IInv
<1>2. QED
  BY <1>1, InvariantHolds, PTL

(* Without such writes no secret is active that nobody proved to hold, or  *)
(* that was not pending when a passkey enabled the row.                    *)
THEOREM SecretsAreProven == Spec => []ActiveSecretIsProven
<1>1. IInv => ActiveSecretIsProven
  BY DEF IInv
<1>2. QED
  BY <1>1, InvariantHolds, PTL

(* Without such writes an enabled row has a factor to be challenged for,   *)
(* unless the last passkey was removed under it.                           *)
THEOREM FactorIsThere == Spec => []FactorUnlessOrphaned
<1>1. IInv => FactorUnlessOrphaned
  BY DEF IInv
<1>2. QED
  BY <1>1, InvariantHolds, PTL

(* Every patch a request is about to write gives a row of the table's      *)
(* type.                                                                   *)
LEMMA PatchesFit ==
  ASSUME Typed, NEW r \in Requests
  PROVE  Patched(Blank, req[r].patch) \in Rows
<1> DEFINE q == req[r]
           p == Patched(Blank, q.patch)
<1>1. /\ Blank \in Rows /\ DOMAIN Blank = {"secret", "on", "codes", "last"}
      /\ Secrets \subseteq 0..MaxSecrets /\ Batches \subseteq 1..MaxBatches
      /\ 1..MaxStep \subseteq 0..MaxStep
  BY BoundsAssumption DEF Blank, Rows, Typed, Secrets, Batches
<1>2. CASE q.patch = NoPatch
  <2>1. DOMAIN q.patch = {}
    BY <1>2 DEF NoPatch
  <2>2. p = Blank
    BY <1>1, <2>1 DEF Patched, Blank
  <2>3. QED
    BY <1>1, <2>2
<1>3. ASSUME NEW k \in Secrets, Enrolls(q, k) PROVE p \in Rows
  <2>1. q.patch = [secret |-> k, on |-> FALSE, codes |-> {}, last |-> 0]
    BY <1>3 DEF Enrolls, Blank
  <2>2. p = [secret |-> k, on |-> FALSE, codes |-> {}, last |-> 0]
    BY <1>1, <2>1 DEF Patched
  <2>3. QED
    BY <1>1, <2>2, BoundsAssumption DEF Rows
<1>4. ASSUME NEW b \in Batches, NEW s \in Secrets, Confirms(q, b, s) PROVE p \in Rows
  <2>0. PICK on : on = TRUE /\ q.patch = [on |-> on, codes |-> Batch(b)]
    BY <1>4 DEF Confirms
  <2>1. q.patch = [on |-> on, codes |-> Batch(b)]
    BY <2>0
  <2>2. p = [secret |-> Blank.secret, on |-> on, codes |-> Batch(b), last |-> Blank.last]
    BY <1>1, <2>1, PatchedRow
  <2>3. Batch(b) \subseteq Recovery
    BY <1>1 DEF Batch, Recovery
  <2>4. QED
    <3>1. on \in BOOLEAN
      BY <2>0
    <3>2. QED
      BY <1>1, <2>2, <2>3, <3>1 DEF Rows
<1>5. ASSUME NEW s, NEW t \in 1..MaxStep, AcceptsTotp(q, s, t) PROVE p \in Rows
  <2>1. q.patch = [last |-> t]
    BY <1>5 DEF AcceptsTotp
  <2>2. p = [secret |-> Blank.secret, on |-> Blank.on, codes |-> Blank.codes, last |-> t]
    BY <1>1, <2>1 DEF Patched
  <2>3. QED
    BY <1>1, <2>2 DEF Rows
<1>6. ASSUME NEW c, NEW left \in SUBSET Recovery, AcceptsRecovery(q, c, left) PROVE p \in Rows
  <2>1. q.patch = [codes |-> left]
    BY <1>6 DEF AcceptsRecovery
  <2>2. p = [secret |-> Blank.secret, on |-> Blank.on, codes |-> left, last |-> Blank.last]
    BY <1>1, <2>1 DEF Patched
  <2>3. QED
    BY <1>1, <2>2 DEF Rows
<1>7. CASE Registers(q)
  <2>0. PICK on : on = TRUE /\ q.patch = [on |-> on]
    BY <1>7 DEF Registers
  <2>1. q.patch = [on |-> on]
    BY <2>0
  <2>2. p = [secret |-> Blank.secret, on |-> on, codes |-> Blank.codes, last |-> Blank.last]
    BY <1>1, <2>1, PatchedRow
  <2>3. QED
    <3>1. on \in BOOLEAN
      BY <2>0
    <3>2. QED
      BY <1>1, <2>2, <3>1 DEF Rows
<1>8. q.patch = NoPatch \/ Planned(q)
  BY DEF Typed
<1>9. QED
  BY <1>2, <1>3, <1>4, <1>5, <1>6, <1>7, <1>8 DEF Planned

(* The row, the requests and the generators have their types in every      *)
(* state.                                                                  *)
THEOREM TypeCorrect == Spec => []TypeOK
<1>1. IInv => TypeOK
  BY PatchesFit DEF IInv, Typed, TypeOK
<1>2. QED
  BY <1>1, InvariantHolds, PTL
==============================================================================
