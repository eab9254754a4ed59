------------------------ MODULE AccountDeletionProofs ------------------------
(***************************************************************************)
(* What holds of AccountDeletion whatever belongs to the account, and for  *)
(* every number of requests, uses and crashes.                             *)
(***************************************************************************)
EXTENDS AccountDeletion, SequenceTheorems, TLAPS

(* Step i of the cascade of x took effect or, in a request, failed.        *)
Past(x, i) ==
  /\ run[x].state \in {"running", "failed", "done"}
  /\ i < run[x].at \/ (i = run[x].at /\ (run[x].ran \/ run[x].state = "done"))

Residue(x) ==
  \A i \in DOMAIN Belongings :
    Past(x, i + 2) /\ Belongings[i] \in has => Belongings[i] \in again \cup run[x].failed

Sound(x) ==
  /\ Residue(x)
  /\ Past(x, Len(Cascade) - 1) /\ ~spared => <<"account.deleted", x>> \notin trail
  /\ Past(x, Len(Cascade)) => ~row
  /\ run[x].state = "done" => run[x].at = Len(Cascade)

IInv == TypeOK /\ \A x \in Runs : Sound(x)

---------------------------------------------------------------------------
(* The cascade, place by place.                                            *)
Last == Len(Belongings) + 4

LEMMA CascadeIs ==
  /\ Belongings \in Seq(Kinds) /\ Len(Belongings) \in Nat
  /\ DOMAIN Belongings = 1..Len(Belongings)
  /\ Len(Cascade) = Last /\ DOMAIN Cascade = 1..Last
  /\ Cascade[1] = "snapshot" /\ Cascade[2] = "audit"
  /\ \A i \in DOMAIN Belongings : Cascade[i + 2] = Belongings[i]
  /\ Cascade[Last - 1] = "anonymize" /\ Cascade[Last] = "row"
<1>1. Belongings \in Seq(Kinds) /\ Len(Belongings) \in Nat /\ DOMAIN Belongings = 1..Len(Belongings)
  BY BelongingsAssumption DEF Kinds
<1> DEFINE front == <<"snapshot", "audit">> \o Belongings
           Names == Kinds \cup {"snapshot", "audit", "anonymize", "row"}
<1>2. front \in Seq(Names) /\ Len(front) = Len(Belongings) + 2
  <2>1. <<"snapshot", "audit">> \in Seq(Names) /\ Len(<<"snapshot", "audit">>) = 2
    OBVIOUS
  <2>2. Belongings \in Seq(Names)
    BY <1>1
  <2>3. QED
    BY <2>1, <2>2, ConcatProperties
<1>3. front[1] = "snapshot" /\ front[2] = "audit"
  BY <1>1
<1>4. \A i \in DOMAIN Belongings : front[i + 2] = Belongings[i]
  BY <1>1
<1> HIDE DEF front, Names
<1>5. Cascade = front \o <<"anonymize", "row">>
  BY DEF Cascade, front
<1>6. Len(Cascade) = Last /\ Cascade \in Seq(Names)
  <2>1. <<"anonymize", "row">> \in Seq(Names) /\ Len(<<"anonymize", "row">>) = 2
    BY DEF Names
  <2>2. Cascade \in Seq(Names) /\ Len(Cascade) = Len(front) + 2
    BY <1>2, <1>5, <2>1, ConcatProperties
  <2>3. QED
    BY <1>1, <1>2, <2>2 DEF Last
<1>7. Cascade[1] = "snapshot" /\ Cascade[2] = "audit"
  BY <1>1, <1>2, <1>3, <1>5
<1>8. \A i \in DOMAIN Belongings : Cascade[i + 2] = Belongings[i]
  BY <1>1, <1>2, <1>4, <1>5
<1>9. Cascade[Last - 1] = "anonymize" /\ Cascade[Last] = "row"
  BY <1>1, <1>2, <1>5 DEF Last
<1>10. QED
  BY <1>1, <1>6, <1>7, <1>8, <1>9

(* Each kind of step has its place.                                        *)
LEMMA Places ==
  ASSUME NEW i \in 1..Last
  PROVE  /\ Cascade[i] = "snapshot" <=> i = 1
         /\ Cascade[i] = "audit" <=> i = 2
         /\ Cascade[i] = "anonymize" <=> i = Last - 1
         /\ Cascade[i] = "row" <=> i = Last
         /\ Cascade[i] \in Kinds <=> i - 2 \in DOMAIN Belongings
         /\ i - 2 \in DOMAIN Belongings => Cascade[i] = Belongings[i - 2]
         /\ Last \in Nat /\ Last > 3
<1>1. \A k \in Kinds : k \notin {"snapshot", "audit", "anonymize", "row"}
  BY BelongingsAssumption DEF Kinds
<1>2. i = 1 \/ i = 2 \/ i - 2 \in DOMAIN Belongings \/ i = Last - 1 \/ i = Last
  BY CascadeIs DEF Last
<1>3. ASSUME i - 2 \in DOMAIN Belongings PROVE Cascade[i] = Belongings[i - 2] /\ Cascade[i] \in Kinds
  <2>1. Cascade[(i - 2) + 2] = Belongings[i - 2] /\ (i - 2) + 2 = i
    BY <1>3, CascadeIs
  <2>2. QED
    BY <1>3, <2>1 DEF Kinds
<1>4. Last \in Nat /\ Last > 3 /\ (i - 2 \in DOMAIN Belongings => i > 2 /\ i < Last - 1)
  BY CascadeIs DEF Last
<1>5. QED
  BY <1>1, <1>2, <1>3, <1>4, CascadeIs

(* A step that brings back nothing that was taken away, but makes it again.*)
Tidy ==
  /\ \A k \in Kinds : k \in has' => k \in again' \/ (k \in has /\ k \notin again)
  /\ row' => row
  /\ spared => spared'

Unnamed(x) == <<"account.deleted", x>> \in trail' => <<"account.deleted", x>> \in trail

LEMMA OtherRun ==
  ASSUME NEW x, Sound(x), Tidy, Unnamed(x), run'[x] = run[x]
  PROVE  Sound(x)'
<1>1. \A i : Past(x, i)' <=> Past(x, i)
  BY DEF Past
<1>2. \A i \in DOMAIN Belongings : Belongings[i] \in Kinds
  BY DEF Kinds
<1>3. Residue(x)'
  BY <1>1, <1>2 DEF Sound, Residue, Tidy
<1>4. QED
  BY <1>1, <1>3 DEF Sound, Tidy, Unnamed

(* A request that is in no cascade, or at the start of one.                *)
LEMMA NothingPast ==
  ASSUME NEW x, run'[x].state \notin {"running", "failed", "done"} \/ (run'[x].state = "running" /\ run'[x].at = 1 /\ ~run'[x].ran)
  PROVE  Sound(x)'
<1>1. \A i \in Nat \ {0} : ~Past(x, i)'
  BY DEF Past
<1>2. \A i \in DOMAIN Belongings : i + 2 \in Nat \ {0}
  BY CascadeIs
<1>3. Last \in Nat \ {0} /\ Last - 1 \in Nat \ {0} /\ Len(Cascade) = Last
  BY CascadeIs DEF Last
<1>4. QED
  BY <1>1, <1>2, <1>3 DEF Sound, Residue

States == {"off", "asked", "revoked", "enqueued", "running", "void", "done", "failed", "crashed"}
Run == [state : States, at : DOMAIN Cascade, ran : BOOLEAN, failed : SUBSET Kinds]

LEMMA RunsTyped ==
  TypeOK <=> /\ {durable, row, spared} \subseteq BOOLEAN
             /\ has \subseteq Kinds /\ again \subseteq Kinds
             /\ uses \in 0..MaxUses /\ crashes \in 0..MaxCrashes
             /\ run \in [Runs -> Run]
  BY DEF TypeOK, Run, States

(* A step of one run leaves the others sound, if it leaves no trace of     *)
(* theirs.                                                                 *)
LEMMA OneRun ==
  ASSUME IInv, NEW x \in Runs, NEW rec \in Run, run' = [run EXCEPT ![x] = rec],
         UNCHANGED <<durable, uses>>, crashes' \in 0..MaxCrashes,
         {row', spared'} \subseteq BOOLEAN, has' \subseteq Kinds, again' \subseteq Kinds,
         Tidy, \A y \in Runs \ {x} : Unnamed(y), Sound(x)'
  PROVE  IInv'
<1>1. run \in [Runs -> Run] /\ durable \in BOOLEAN /\ uses \in 0..MaxUses
  BY RunsTyped DEF IInv
<1>2. TypeOK'
  <2>1. run' \in [Runs -> Run]
    BY <1>1
  <2>2. QED
    BY <1>1, <2>1 DEF TypeOK, Run, States
<1>3. ASSUME NEW y \in Runs PROVE Sound(y)'
  <2>1. CASE y = x
    BY <2>1
  <2>2. CASE y # x
    <3>1. run'[y] = run[y] /\ Sound(y) /\ Unnamed(y)
      BY <1>1, <2>2 DEF IInv
    <3>2. QED
      BY <3>1, OtherRun
  <2>3. QED
    BY <2>1, <2>2
<1>4. QED
  BY <1>2, <1>3 DEF IInv

---------------------------------------------------------------------------
(* A cascade goes on.                                                      *)
LEMMA Advances ==
  ASSUME TypeOK, NEW x \in Runs, Running(x)
  PROVE  /\ Advance(x) \in Run /\ run[x].at \in 1..Last
         /\ Advance(x).failed = run[x].failed
         /\ \/ Advance(x).state = "void"
            \/ /\ Advance(x).state = "done" /\ ~Advance(x).ran
               /\ Advance(x).at = run[x].at /\ run[x].at = Last
            \/ /\ Advance(x).state = "running" /\ ~Advance(x).ran
               /\ Advance(x).at = run[x].at + 1 /\ run[x].at # Last
<1>1. run[x] \in Run /\ run[x].at \in 1..Last /\ Len(Cascade) = Last /\ Last \in Nat
      /\ DOMAIN Cascade = 1..Last
  BY RunsTyped, CascadeIs DEF Run, Last
<1>2. CASE Step(x) = "snapshot" /\ ~row
  <2>1. Advance(x) = [run[x] EXCEPT !.state = "void"]
    BY <1>2 DEF Advance
  <2>2. QED
    BY <1>1, <2>1 DEF Run, States
<1>3. CASE ~(Step(x) = "snapshot" /\ ~row) /\ run[x].at = Last
  <2>1. Advance(x) = [run[x] EXCEPT !.state = "done", !.ran = FALSE]
    BY <1>1, <1>3 DEF Advance
  <2>2. QED
    BY <1>1, <1>3, <2>1 DEF Run, States
<1>4. CASE ~(Step(x) = "snapshot" /\ ~row) /\ run[x].at # Last
  <2>1. Advance(x) = [run[x] EXCEPT !.at = @ + 1, !.ran = FALSE]
    BY <1>1, <1>4 DEF Advance
  <2>2. run[x].at + 1 \in 1..Last
    BY <1>1, <1>4
  <2>3. Advance(x) \in Run /\ Advance(x).at = run[x].at + 1 /\ ~Advance(x).ran
        /\ Advance(x).state = run[x].state /\ Advance(x).failed = run[x].failed
    BY <1>1, <2>1, <2>2 DEF Run, States
  <2>4. QED
    BY <1>1, <1>4, <2>3 DEF Running
<1>5. QED
  BY <1>2, <1>3, <1>4

(* Of the step it is at, i, a run has to know what it did; of those before *)
(* it is enough that it knew.                                              *)
LEMMA Progress ==
  ASSUME IInv, Tidy, NEW x \in Runs, NEW i \in 1..Last,
         \A j \in Nat : Past(x, j)' => Past(x, j) \/ j = i,
         run[x].failed \subseteq run'[x].failed,
         run'[x].state = "done" => run'[x].at = Last,
         Past(x, i)' /\ i - 2 \in DOMAIN Belongings =>
           Belongings[i - 2] \notin has' \/ Belongings[i - 2] \in run'[x].failed,
         Past(x, i)' /\ i = Last - 1 /\ ~spared' => <<"account.deleted", x>> \notin trail',
         Past(x, i)' /\ i = Last => ~row',
         Past(x, Last - 1) => Unnamed(x)
  PROVE  Sound(x)'
<1>1. Sound(x) /\ Len(Cascade) = Last /\ Last \in Nat /\ Last - 1 \in Nat
  BY CascadeIs DEF IInv, Last
<1>2. Residue(x)'
  <2>1. SUFFICES ASSUME NEW j \in DOMAIN Belongings, Past(x, j + 2)', Belongings[j] \in has'
                 PROVE  Belongings[j] \in again' \cup run'[x].failed
    BY DEF Residue
  <2>2. Belongings[j] \in Kinds /\ j + 2 \in Nat /\ (j + 2) - 2 = j
    BY CascadeIs DEF Kinds
  <2>3. CASE Past(x, j + 2)
    BY <1>1, <2>1, <2>2, <2>3 DEF Sound, Residue, Tidy
  <2>4. CASE ~Past(x, j + 2)
    <3>1. j + 2 = i /\ i - 2 = j
      BY <2>1, <2>2, <2>4
    <3>2. QED
      BY <2>1, <3>1
  <2>5. QED
    BY <2>3, <2>4
<1>3. Past(x, Last - 1)' /\ ~spared' => <<"account.deleted", x>> \notin trail'
  BY <1>1 DEF Sound, Tidy, Unnamed
<1>4. Past(x, Last)' => ~row'
  BY <1>1 DEF Sound, Tidy
<1>5. QED
  BY <1>1, <1>2, <1>3, <1>4 DEF Sound

(* What the steps do.                                                      *)
LEMMA Effects ==
  ASSUME IInv, NEW x \in Runs, NEW i \in 1..Last, Effect(x, Cascade[i])
  PROVE  /\ {row', spared'} \subseteq BOOLEAN /\ has' \subseteq Kinds /\ again' \subseteq Kinds
         /\ Tidy
         /\ \A y \in Runs \ {x} : Unnamed(y)
         /\ i # 2 => Unnamed(x)
         /\ i - 2 \in DOMAIN Belongings => Belongings[i - 2] \notin has'
         /\ i = Last - 1 /\ ~spared' => <<"account.deleted", x>> \notin trail'
         /\ i = Last => ~row'
<1>1. /\ row \in BOOLEAN /\ spared \in BOOLEAN /\ has \subseteq Kinds /\ again \subseteq Kinds
      /\ "snapshot" \notin Kinds /\ "audit" \notin Kinds /\ "anonymize" \notin Kinds /\ "row" \notin Kinds
  BY BelongingsAssumption DEF IInv, TypeOK, Kinds
<1>2. CASE Cascade[i] \in Kinds
  <2>1. Remove(Cascade[i])
    BY <1>1, <1>2 DEF Effect
  <2>2. i - 2 \in DOMAIN Belongings /\ Cascade[i] = Belongings[i - 2] /\ i # 2 /\ i # Last - 1 /\ i # Last
    BY <1>1, <1>2, Places
  <2>3. QED
    BY <1>1, <2>1, <2>2 DEF Remove, Tidy, Unnamed
<1>3. CASE Cascade[i] = "audit"
  <2>1. auditDeleted(x)
    BY <1>1, <1>3 DEF Effect
  <2>2. i = 2 /\ i - 2 \notin DOMAIN Belongings /\ i # Last - 1 /\ i # Last
    BY <1>1, <1>3, Places
  <2>3. \A y : y # x => <<"account.deleted", y>> # <<"account.deleted", x>>
    OBVIOUS
  <2>4. QED
    BY <1>1, <2>1, <2>2, <2>3 DEF auditDeleted, Tidy, Unnamed
<1>4. CASE Cascade[i] = "anonymize"
  <2>1. anonymizeAudit
    BY <1>1, <1>4 DEF Effect
  <2>2. i # 2 /\ i - 2 \notin DOMAIN Belongings /\ i # Last
    BY <1>1, <1>4, Places
  <2>3. QED
    BY <1>1, <2>1, <2>2 DEF anonymizeAudit, Tidy, Unnamed
<1>5. CASE Cascade[i] = "row"
  <2>1. deleteAccountRow
    BY <1>1, <1>5 DEF Effect
  <2>2. i # 2 /\ i - 2 \notin DOMAIN Belongings /\ i # Last - 1
    BY <1>1, <1>5, Places
  <2>3. QED
    BY <1>1, <2>1, <2>2 DEF deleteAccountRow, Tidy, Unnamed
<1>6. CASE Cascade[i] = "snapshot"
  <2>1. UNCHANGED <<row, has, trail, again, spared>>
    BY <1>1, <1>6 DEF Effect
  <2>2. i # 2 /\ i - 2 \notin DOMAIN Belongings /\ i # Last - 1 /\ i # Last
    BY <1>1, <1>6, Places
  <2>3. QED
    BY <1>1, <2>1, <2>2 DEF Tidy, Unnamed
<1>7. QED
  BY <1>2, <1>3, <1>4, <1>5, <1>6 DEF Effect

---------------------------------------------------------------------------
(* The steps, one by one.                                                  *)
LEMMA AdvancePast ==
  ASSUME IInv, NEW x \in Runs, Running(x),
         run'[x].state = Advance(x).state, run'[x].at = Advance(x).at, run'[x].ran = Advance(x).ran
  PROVE  /\ \A j \in Nat : Past(x, j)' => Past(x, j) \/ j = run[x].at
         /\ run'[x].state = "done" => run'[x].at = Last
<1>1. run[x].at \in Nat
  BY Advances DEF IInv
<1>2. QED
  BY <1>1, Advances DEF IInv, Past, Running

LEMMA UseStep ==
  ASSUME IInv, NEW k \in Kinds, Use(k)
  PROVE  IInv'
<1>1. Tidy
  BY DEF Use, Tidy
<1>2. ASSUME NEW x \in Runs PROVE Unnamed(x)
  <2>1. k # "account.deleted"
    BY BelongingsAssumption DEF Kinds
  <2>2. <<k, uses>> # <<"account.deleted", x>>
    BY <2>1
  <2>3. QED
    BY <2>2 DEF Use, Unnamed
<1>3. \A x \in Runs : Sound(x)'
  BY <1>1, <1>2, OtherRun DEF IInv, Use
<1>4. TypeOK'
  <2>1. uses' \in 0..MaxUses
    BY BoundsAssumption DEF IInv, TypeOK, Use
  <2>2. QED
    BY <2>1 DEF IInv, TypeOK, Use
<1>5. QED
  BY <1>3, <1>4 DEF IInv

LEMMA InlineStepHolds ==
  ASSUME IInv, NEW d \in Deleters, InlineStep(d)
  PROVE  IInv'
<1> DEFINE i == run[d].at
<1>1. d \in Runs /\ TypeOK /\ Running(d) /\ i \in 1..Last /\ Effect(d, Cascade[i])
  BY Advances DEF InlineStep, Step, IInv, Runs
<1>2. run' = [run EXCEPT ![d] = Advance(d)] /\ UNCHANGED <<durable, uses, crashes>>
  BY DEF InlineStep, Put
<1>3. Advance(d) \in Run /\ Advance(d).failed = run[d].failed /\ run'[d] = Advance(d)
  BY <1>1, <1>2, Advances DEF TypeOK
<1>4. /\ \A j \in Nat : Past(d, j)' => Past(d, j) \/ j = i
      /\ run'[d].state = "done" => run'[d].at = Last
  BY <1>1, <1>3, AdvancePast
<1>5. Past(d, Last - 1) => i # 2
  BY <1>1, Places DEF Past
<1>6. Sound(d)'
  BY <1>1, <1>3, <1>4, <1>5, Effects, Progress
<1>7. QED
  BY <1>1, <1>2, <1>3, <1>6, Effects, OneRun DEF IInv, TypeOK

LEMMA InlineFailureStep ==
  ASSUME IInv, NEW d \in Deleters, InlineFailure(d)
  PROVE  IInv'
<1> DEFINE i == run[d].at
<1>1. d \in Runs /\ TypeOK /\ Running(d) /\ i \in 1..Last
      /\ UNCHANGED <<durable, row, has, trail, again, spared, uses, crashes>>
  BY Advances DEF InlineFailure, IInv, Runs
<1>2. Tidy /\ \A y : Unnamed(y)
  BY <1>1 DEF Tidy, Unnamed
<1>3. CASE Step(d) = "row"
  <2>1. run' = [run EXCEPT ![d] = [run[d] EXCEPT !.state = "crashed"]]
    BY <1>3 DEF InlineFailure, Put
  <2>2. run[d] \in Run /\ run \in [Runs -> Run]
    BY <1>1, RunsTyped
  <2>3. [run[d] EXCEPT !.state = "crashed"] \in Run /\ run'[d].state = "crashed"
    BY <1>1, <2>1, <2>2 DEF Run, States
  <2>4. Sound(d)'
    BY <2>3, NothingPast
  <2>5. QED
    BY <1>1, <1>2, <2>1, <2>3, <2>4, OneRun DEF TypeOK
<1>4. CASE Step(d) # "row"
  <2> DEFINE rec == [Advance(d) EXCEPT !.failed = @ \cup {Step(d)}]
  <2>1. run' = [run EXCEPT ![d] = rec] /\ Step(d) \in Kinds
    BY <1>4 DEF InlineFailure, Put
  <2>2. Advance(d) \in Run /\ Advance(d).failed = run[d].failed /\ run \in [Runs -> Run]
    BY <1>1, Advances, RunsTyped
  <2>3. /\ rec \in Run /\ rec.failed = run[d].failed \cup {Step(d)}
        /\ rec.state = Advance(d).state /\ rec.at = Advance(d).at /\ rec.ran = Advance(d).ran
    BY <2>1, <2>2 DEF Run
  <2>4. run'[d] = rec
    BY <1>1, <2>1, <2>2
  <2>5. /\ \A j \in Nat : Past(d, j)' => Past(d, j) \/ j = i
        /\ run'[d].state = "done" => run'[d].at = Last
    BY <1>1, <2>3, <2>4, AdvancePast
  <2>6. /\ i - 2 \in DOMAIN Belongings /\ Step(d) = Belongings[i - 2]
        /\ i # Last - 1 /\ i # Last
    BY <1>1, <2>1, Places, CascadeIs DEF Step, Last
  <2>7. Sound(d)'
    BY <1>1, <1>2, <2>3, <2>4, <2>5, <2>6, Progress
  <2>8. QED
    BY <1>1, <1>2, <2>1, <2>3, <2>7, OneRun DEF TypeOK
<1>5. QED
  BY <1>3, <1>4

LEMMA LocalStep ==
  ASSUME IInv, localStep
  PROVE  IInv'
<1> DEFINE x == Engine
           i == run[x].at
           rec == IF Step(x) = "snapshot" THEN Advance(x) ELSE [run[x] EXCEPT !.ran = TRUE]
<1>1. x \in Runs /\ TypeOK /\ Running(x) /\ i \in 1..Last /\ Effect(x, Cascade[i])
  BY Advances DEF localStep, Step, IInv, Runs
<1>2. run' = [run EXCEPT ![x] = rec] /\ UNCHANGED <<durable, uses, crashes>>
  BY DEF localStep, Put
<1>3. run[x] \in Run /\ run \in [Runs -> Run]
  BY <1>1, RunsTyped
<1>4. /\ rec \in Run /\ rec.failed = run[x].failed /\ run'[x] = rec
      /\ \A j \in Nat : Past(x, j)' => Past(x, j) \/ j = i
      /\ run'[x].state = "done" => run'[x].at = Last
  <2>1. CASE Step(x) = "snapshot"
    <3>1. rec = Advance(x) /\ run'[x] = Advance(x)
      BY <1>1, <1>2, <1>3, <2>1
    <3>2. QED
      BY <1>1, <3>1, Advances, AdvancePast
  <2>2. CASE Step(x) # "snapshot"
    <3>1. /\ rec \in Run /\ rec.failed = run[x].failed /\ rec.state = run[x].state
          /\ rec.at = i /\ run'[x] = rec
      BY <1>1, <1>2, <1>3, <2>2 DEF Run
    <3>2. QED
      BY <1>1, <3>1 DEF Past, Running
  <2>3. QED
    BY <2>1, <2>2
<1>5. Past(x, Last - 1) => i # 2
  BY <1>1, Places DEF Past
<1>6. Sound(x)'
  BY <1>1, <1>4, <1>5, Effects, Progress
<1>7. QED
  BY <1>1, <1>2, <1>4, <1>6, Effects, OneRun DEF TypeOK

(* What only sets the place of one run.                                    *)
LEMMA RunStep ==
  ASSUME IInv, NEW x \in Runs, NEW rec \in Run, run' = [run EXCEPT ![x] = rec],
         UNCHANGED <<durable, row, has, trail, again, spared, uses>>, crashes' \in 0..MaxCrashes,
         Sound(x)'
  PROVE  IInv'
<1>1. Tidy /\ \A y : Unnamed(y)
  BY DEF Tidy, Unnamed
<1>2. QED
  BY <1>1, OneRun DEF IInv, TypeOK

LEMMA CheckpointStep ==
  ASSUME IInv, Checkpoint
  PROVE  IInv'
<1> DEFINE x == Engine
           i == run[x].at
<1>1. x \in Runs /\ TypeOK /\ Running(x) /\ run[x].ran /\ i \in 1..Last
      /\ UNCHANGED <<durable, row, has, trail, again, spared, uses, crashes>>
  BY Advances DEF Checkpoint, IInv, Runs
<1>2. run' = [run EXCEPT ![x] = Advance(x)]
  BY DEF Checkpoint, Put
<1>3. Advance(x) \in Run /\ Advance(x).failed = run[x].failed /\ run'[x] = Advance(x)
  BY <1>1, <1>2, Advances DEF TypeOK
<1>4. /\ \A j \in Nat : Past(x, j)' => Past(x, j) \/ j = i
      /\ run'[x].state = "done" => run'[x].at = Last
  BY <1>1, <1>3, AdvancePast
<1>5. Past(x, i)
  BY <1>1 DEF Past, Running
<1>6. Tidy /\ Unnamed(x)
  BY <1>1 DEF Tidy, Unnamed
<1>7. Sound(x) /\ i \in Nat /\ (i - 2 \in DOMAIN Belongings => (i - 2) + 2 = i)
  BY <1>1 DEF IInv
<1>8. Sound(x)'
  <2>1. \A j \in Nat : Past(x, j)' => Past(x, j)
    BY <1>4, <1>5
  <2>2. \A j \in DOMAIN Belongings : j + 2 \in Nat
    BY CascadeIs
  <2>3. Len(Cascade) = Last /\ Last - 1 \in Nat /\ Last \in Nat
    BY CascadeIs DEF Last
  <2>4. QED
    BY <1>1, <1>3, <1>4, <1>7, <2>1, <2>2, <2>3 DEF Sound, Residue
<1>9. QED
  BY <1>1, <1>2, <1>3, <1>8, RunStep DEF TypeOK

(* The run of the workflow stops at a step, or goes on with one.           *)
LEMMA EngineStays ==
  ASSUME IInv, NEW rec \in Run, run' = [run EXCEPT ![Engine] = rec],
         run[Engine].state \in {"running", "failed"}, rec.state \in {"running", "failed"},
         rec.at = run[Engine].at, rec.failed = run[Engine].failed, rec.ran => run[Engine].ran,
         crashes' \in 0..MaxCrashes, UNCHANGED <<durable, row, has, trail, again, spared, uses>>
  PROVE  IInv'
<1> DEFINE x == Engine
<1>1. x \in Runs /\ run \in [Runs -> Run] /\ Sound(x) /\ run'[x] = rec
  BY RunsTyped DEF IInv, Runs
<1>2. \A j : Past(x, j)' => Past(x, j)
  BY <1>1 DEF Past
<1>3. Sound(x)'
  BY <1>1, <1>2 DEF Sound, Residue
<1>4. QED
  BY <1>1, <1>3, RunStep

LEMMA EngineMoves ==
  ASSUME IInv, NEW s \in {"running", "failed"}, NEW ran \in BOOLEAN,
         run[Engine].state \in {"running", "failed"}, ran => run[Engine].ran,
         run' = [run EXCEPT ![Engine] = [run[Engine] EXCEPT !.state = s, !.ran = ran]],
         crashes' \in 0..MaxCrashes, UNCHANGED <<durable, row, has, trail, again, spared, uses>>
  PROVE  IInv'
<1> DEFINE rec == [run[Engine] EXCEPT !.state = s, !.ran = ran]
<1>1. run[Engine] \in Run
  BY RunsTyped DEF IInv, Runs
<1>2. /\ rec \in Run /\ rec.at = run[Engine].at /\ rec.state = s
      /\ rec.failed = run[Engine].failed /\ rec.ran = ran
  BY <1>1 DEF Run, States
<1>3. rec.ran => run[Engine].ran
  BY <1>2
<1>4. QED
  BY <1>2, <1>3, EngineStays

LEMMA EngineCrashStep ==
  ASSUME IInv, EngineCrash
  PROVE  IInv'
<1>1. run[Engine] \in Run /\ run[Engine].state = "running"
  BY RunsTyped DEF EngineCrash, Crashes, Running, IInv, Runs
<1>2. [run[Engine] EXCEPT !.ran = FALSE] = [run[Engine] EXCEPT !.state = "running", !.ran = FALSE]
  BY <1>1 DEF Run
<1>3. crashes' \in 0..MaxCrashes
  BY BoundsAssumption DEF EngineCrash, Crashes, IInv, TypeOK
<1>4. QED
  BY <1>1, <1>2, <1>3, EngineMoves DEF EngineCrash, Crashes, Put

LEMMA ThrowStep ==
  ASSUME IInv, stepThrows
  PROVE  IInv'
<1>1. run[Engine] \in Run /\ run[Engine].state = "running" /\ run[Engine].ran \in BOOLEAN
  BY RunsTyped DEF stepThrows, Crashes, Running, IInv, Runs, Run
<1>2. [run[Engine] EXCEPT !.state = "failed"]
        = [run[Engine] EXCEPT !.state = "failed", !.ran = run[Engine].ran]
  BY <1>1 DEF Run
<1>3. crashes' \in 0..MaxCrashes
  BY BoundsAssumption DEF stepThrows, Crashes, IInv, TypeOK
<1>4. QED
  BY <1>1, <1>2, <1>3, EngineMoves DEF stepThrows, Crashes, Put

LEMMA ResumeStep ==
  ASSUME IInv, resumeByHand
  PROVE  IInv'
<1>1. crashes' \in 0..MaxCrashes
  BY DEF resumeByHand, IInv, TypeOK
<1>2. QED
  BY <1>1, EngineMoves DEF resumeByHand, Put

LEMMA InlineCrashStep ==
  ASSUME IInv, NEW d \in Deleters, InlineCrash(d)
  PROVE  IInv'
<1> DEFINE rec == [run[d] EXCEPT !.state = "crashed"]
<1>1. d \in Runs /\ run \in [Runs -> Run]
  BY RunsTyped DEF IInv, Runs
<1>2. /\ run' = [run EXCEPT ![d] = rec] /\ crashes' \in 0..MaxCrashes
      /\ UNCHANGED <<durable, row, has, trail, again, spared, uses>>
  BY BoundsAssumption DEF InlineCrash, Put, IInv, TypeOK
<1>3. rec \in Run /\ run'[d].state = "crashed"
  BY <1>1, <1>2 DEF Run, States
<1>4. QED
  BY <1>1, <1>2, <1>3, NothingPast, RunStep

LEMMA OffIs ==
  /\ Off \in Run /\ Off.at = 1 /\ ~Off.ran
  /\ \A s \in States : [Off EXCEPT !.state = s] \in Run /\ [Off EXCEPT !.state = s].state = s
  /\ Started \in Run /\ Started.state = "running" /\ Started.at = 1 /\ ~Started.ran
<1>1. 1 \in DOMAIN Cascade
  BY CascadeIs DEF Last
<1>2. Off \in Run
  BY <1>1 DEF Off, Run, States
<1>3. Off.at = 1 /\ ~Off.ran
  BY DEF Off
<1>4. \A s \in States : [Off EXCEPT !.state = s] \in Run /\ [Off EXCEPT !.state = s].state = s
  BY <1>2 DEF Run
<1>5. Started \in Run /\ Started.state = "running" /\ Started.at = Off.at /\ Started.ran = Off.ran
  BY <1>2 DEF Started, Run, States
<1>6. QED
  BY <1>2, <1>3, <1>4, <1>5

LEMMA AskStep ==
  ASSUME IInv, NEW d \in Deleters, ask(d)
  PROVE  IInv'
<1> DEFINE rec == [Off EXCEPT !.state = "asked"]
<1>1. d \in Runs /\ run \in [Runs -> Run] /\ rec \in Run /\ rec.state = "asked"
  BY RunsTyped, OffIs DEF IInv, Runs, States
<1>2. /\ run' = [run EXCEPT ![d] = rec] /\ crashes' \in 0..MaxCrashes
      /\ UNCHANGED <<durable, row, has, trail, again, spared, uses>>
  BY DEF ask, Put, IInv, TypeOK
<1>3. run'[d].state = "asked"
  BY <1>1, <1>2
<1>4. QED
  BY <1>1, <1>2, <1>3, NothingPast, RunStep

LEMMA DeleteStep ==
  ASSUME IInv, NEW d \in Deleters, delete(d)
  PROVE  IInv'
<1>1. d \in Runs /\ run \in [Runs -> Run] /\ Started \in Run
  BY RunsTyped, OffIs DEF IInv, Runs
<1>2. /\ run' = [run EXCEPT ![d] = Started] /\ crashes' \in 0..MaxCrashes
      /\ UNCHANGED <<durable, row, has, trail, again, spared, uses>>
  BY DEF delete, Put, IInv, TypeOK
<1>3. run'[d].state = "running" /\ run'[d].at = 1 /\ ~run'[d].ran
  BY <1>1, <1>2, OffIs
<1>4. QED
  BY <1>1, <1>2, <1>3, NothingPast, RunStep

(* The step before the cascade leaves a record of its own, or logs out.    *)
LEMMA RevokedStep ==
  ASSUME IInv, NEW d \in Deleters, run' = [run EXCEPT ![d] = [run[d] EXCEPT !.state = "revoked"]],
         UNCHANGED <<durable, uses, crashes>>,
         {row', spared'} \subseteq BOOLEAN, has' \subseteq Kinds, again' \subseteq Kinds,
         Tidy, \A y \in Runs : Unnamed(y)
  PROVE  IInv'
<1>1. d \in Runs /\ run \in [Runs -> Run] /\ crashes' \in 0..MaxCrashes
  BY RunsTyped DEF IInv, Runs, TypeOK
<1>2. [run[d] EXCEPT !.state = "revoked"] \in Run /\ run'[d].state = "revoked"
  BY <1>1 DEF Run, States
<1>3. QED
  BY <1>1, <1>2, NothingPast, OneRun

LEMMA RecordStep ==
  ASSUME IInv, NEW d \in Deleters, recordUserDeleted(d)
  PROVE  IInv'
<1>1. \A y : <<"user.deleted", d>> # <<"account.deleted", y>>
  OBVIOUS
<1>2. Tidy /\ \A y : Unnamed(y)
  BY <1>1 DEF recordUserDeleted, Tidy, Unnamed
<1>3. QED
  BY <1>2, RevokedStep DEF recordUserDeleted, Put, IInv, TypeOK

LEMMA RevokeFirstStep ==
  ASSUME IInv, NEW d \in Deleters, revokeFirst(d)
  PROVE  IInv'
<1>1. Tidy /\ \A y : Unnamed(y)
  BY DEF revokeFirst, Remove, Tidy, Unnamed
<1>2. has' \subseteq Kinds /\ again' \subseteq Kinds
  BY DEF revokeFirst, Remove, IInv, TypeOK
<1>3. {row', spared'} \subseteq BOOLEAN
  BY DEF revokeFirst, Remove, IInv, TypeOK
<1>4. QED
  BY <1>1, <1>2, <1>3, RevokedStep DEF revokeFirst, Put

LEMMA EnqueueStep ==
  ASSUME IInv, NEW d \in Deleters, enqueueAccountDeletion(d)
  PROVE  IInv'
<1>1. d \in Runs /\ Engine \in Runs /\ d # Engine /\ TypeOK /\ run \in [Runs -> Run]
  BY RunsTyped, RunsAssumption DEF IInv, Runs, Deleters
<1>2. UNCHANGED <<durable, row, has, trail, again, spared, uses, crashes>>
  BY DEF enqueueAccountDeletion
<1> DEFINE asked == [run[d] EXCEPT !.state = "enqueued"]
           begun == IF run[Engine] = Off THEN Started ELSE run[Engine]
<1>3. run' = [run EXCEPT ![d] = asked, ![Engine] = begun]
  BY <1>1 DEF enqueueAccountDeletion
<1>4. asked \in Run /\ begun \in Run /\ asked.state = "enqueued"
  BY <1>1, OffIs DEF Run, States
<1>5. /\ run' \in [Runs -> Run] /\ run'[d] = asked /\ run'[Engine] = begun
      /\ \A x \in Runs \ {d, Engine} : run'[x] = run[x]
  BY <1>1, <1>3, <1>4
<1>6. TypeOK'
  BY <1>1, <1>2, <1>5 DEF TypeOK, Run, States
<1>7. Tidy /\ \A y : Unnamed(y)
  BY <1>2 DEF Tidy, Unnamed
<1>8. ASSUME NEW x \in Runs PROVE Sound(x)'
  <2>1. CASE x = d
    <3>1. run'[x].state = "enqueued"
      BY <1>4, <1>5, <2>1
    <3>2. QED
      BY <3>1, NothingPast
  <2>2. CASE x = Engine /\ run[x] = Off
    <3>1. run'[x].state = "running" /\ run'[x].at = 1 /\ ~run'[x].ran
      BY <1>5, <2>2, OffIs
    <3>2. QED
      BY <3>1, NothingPast
  <2>3. CASE x # d /\ ~(x = Engine /\ run[x] = Off)
    <3>1. run'[x] = run[x] /\ Sound(x)
      BY <1>5, <2>3 DEF IInv
    <3>2. QED
      BY <1>7, <3>1, OtherRun
  <2>4. QED
    BY <1>1, <2>1, <2>2, <2>3
<1>9. QED
  BY <1>6, <1>8 DEF IInv

LEMMA InitHolds == Init => IInv
<1> SUFFICES ASSUME Init PROVE IInv
  OBVIOUS
<1>1. \A x \in Runs : run[x] = Off /\ run[x].state = "off"
  BY DEF Init, Off
<1>2. TypeOK
  <2>1. run \in [Runs -> Run]
    BY OffIs DEF Init
  <2>2. {durable, row, spared} \subseteq BOOLEAN
    BY DEF Init
  <2>3. QED
    BY <2>1, <2>2, BoundsAssumption DEF Init, TypeOK, Run, States
<1>3. \A x \in Runs : Sound(x)
  BY <1>1 DEF Sound, Residue, Past
<1>4. QED
  BY <1>2, <1>3 DEF IInv

LEMMA NextHolds == IInv /\ [Next]_vars => IInv'
<1> SUFFICES ASSUME IInv, [Next]_vars PROVE IInv'
  OBVIOUS
<1>1. ASSUME NEW k \in Kinds, Use(k) PROVE IInv'
  BY <1>1, UseStep
<1>2. ASSUME NEW d \in Deleters, ask(d) PROVE IInv'
  BY <1>2, AskStep
<1>3. ASSUME NEW d \in Deleters, recordUserDeleted(d) PROVE IInv'
  BY <1>3, RecordStep
<1>4. ASSUME NEW d \in Deleters, revokeFirst(d) PROVE IInv'
  BY <1>4, RevokeFirstStep
<1>5. ASSUME NEW d \in Deleters, enqueueAccountDeletion(d) PROVE IInv'
  BY <1>5, EnqueueStep
<1>6. ASSUME NEW d \in Deleters, delete(d) PROVE IInv'
  BY <1>6, DeleteStep
<1>7. ASSUME NEW d \in Deleters, InlineStep(d) PROVE IInv'
  BY <1>7, InlineStepHolds
<1>8. ASSUME NEW d \in Deleters, InlineFailure(d) PROVE IInv'
  BY <1>8, InlineFailureStep
<1>9. ASSUME NEW d \in Deleters, InlineCrash(d) PROVE IInv'
  BY <1>9, InlineCrashStep
<1>10. CASE localStep
  BY <1>10, LocalStep
<1>11. CASE Checkpoint
  BY <1>11, CheckpointStep
<1>12. CASE EngineCrash
  BY <1>12, EngineCrashStep
<1>14. CASE stepThrows
  BY <1>14, ThrowStep
<1>15. CASE resumeByHand
  BY <1>15, ResumeStep
<1>13. CASE UNCHANGED vars
  <2>1. TypeOK'
    BY <1>13 DEF IInv, TypeOK, vars
  <2>2. Tidy /\ \A x : Unnamed(x) /\ run'[x] = run[x]
    BY <1>13 DEF Tidy, Unnamed, vars
  <2>3. QED
    BY <2>1, <2>2, OtherRun DEF IInv
<1>16. QED
  BY <1>1, <1>2, <1>3, <1>4, <1>5, <1>6, <1>7, <1>8, <1>9, <1>10, <1>11, <1>12, <1>13, <1>14, <1>15
     DEF Next

---------------------------------------------------------------------------
(* In every state of every run each cascade, of a request or of the        *)
(* workflow, has left of its steps what they were for, but for what failed *)
(* or was made again (account_deletion_ops.ts).                            *)
THEOREM InvariantHolds == Spec => []IInv
<1>1. QED
  BY InitHolds, NextHolds, PTL DEF Spec

(* What belongs to the account, the trail and the places of the cascades   *)
(* have their types: no cascade runs over its end.                         *)
THEOREM TypeCorrect == Spec => []TypeOK
<1>1. IInv => TypeOK
  BY DEF IInv
<1>2. QED
  BY <1>1, InvariantHolds, PTL

(* A cascade that is done leaves nothing of the account but what it was    *)
(* used to make since, or what a step failed to remove: whatever crashed,  *)
(* and whoever else deletes it.                                            *)
THEOREM DeletedIsGone == Spec => []NoResidue
<1>1. ASSUME IInv, NEW x \in Runs, run[x].state = "done"
      PROVE  ~row /\ has \subseteq again \cup run[x].failed
  <2>1. Sound(x) /\ has \subseteq Kinds /\ run[x].at = Last /\ Len(Cascade) = Last
    BY <1>1, CascadeIs DEF IInv, TypeOK, Sound
  <2>2. Past(x, Last)
    BY <1>1, <2>1 DEF Past
  <2>3. ASSUME NEW k \in has PROVE k \in again \cup run[x].failed
    <3>1. PICK i \in DOMAIN Belongings : k = Belongings[i]
      BY <2>1 DEF Kinds
    <3>2. i + 2 < Last
      BY CascadeIs DEF Last
    <3>3. Past(x, i + 2)
      BY <1>1, <2>1, <3>2 DEF Past
    <3>4. QED
      BY <2>1, <3>1, <3>3 DEF Sound, Residue
  <2>4. QED
    BY <2>1, <2>2, <2>3 DEF Sound
<1>2. IInv => NoResidue
  BY <1>1 DEF NoResidue
<1>3. QED
  BY <1>2, InvariantHolds, PTL

(* The audit record of a cascade that is done names nobody, unless an      *)
(* anonymisation failed.                                                   *)
THEOREM RecordNamesNobody == Spec => []AccountDeletedNamesNobody
<1>1. ASSUME IInv, NEW x \in Runs, run[x].state = "done", ~spared
      PROVE  <<"account.deleted", x>> \notin trail
  <2>1. Sound(x) /\ run[x].at = Last /\ Len(Cascade) = Last /\ Last \in Nat
    BY <1>1, CascadeIs DEF IInv, Sound, Last
  <2>2. Past(x, Last - 1)
    BY <1>1, <2>1 DEF Past
  <2>3. QED
    BY <1>1, <2>1, <2>2 DEF Sound
<1>2. IInv => AccountDeletedNamesNobody
  BY <1>1 DEF AccountDeletedNamesNobody
<1>3. QED
  BY <1>2, InvariantHolds, PTL
==============================================================================
