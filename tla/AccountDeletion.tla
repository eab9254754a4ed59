--------------------------- MODULE AccountDeletion --------------------------
(***************************************************************************)
(* The deletion of one account: the cascade of host/account_deletion_ops.ts*)
(* run in the request (host/account_deletion_service.ts) or, with          *)
(* accountLifecycle.durable, as a workflow whose steps are checkpointed    *)
(* (host/durable/), asked for by the account's owner                       *)
(* (account_security_controller.ts) and by administrators                  *)
(* (admin_users_service.ts), while the account is still in use and         *)
(* processes crash.                                                        *)
(*                                                                         *)
(* The workflow engine is external: it runs a body again from its first    *)
(* step after a crash, but gives the results of the steps it has recorded  *)
(* instead of running those; a step that throws fails the run, which stays *)
(* there until somebody drives it on from the engine's own tooling; and it *)
(* starts nothing under the identifier of a run it already has, a failed   *)
(* one included.                                                           *)
(***************************************************************************)
EXTENDS Naturals, Sequences

CONSTANTS
  Belongings, \* what belongs to the account, in the order the cascade takes it away
  Owners,     \* requests to delete by the account's owner
  Admins,     \* and by administrators
  Engine,     \* the run of the workflow
  MaxUses,    \* bound on the times the account is used
  MaxCrashes  \* bound on the crashes, and the workflow's steps that throw

ASSUME RunsAssumption == Owners \cap Admins = {} /\ Engine \notin Owners \cup Admins
ASSUME BelongingsAssumption ==
  /\ Belongings \in Seq({"sessions", "pats", "passkeys", "mfa", "providers", "orgs", "avatar"})
  /\ Belongings[1] = "sessions"
ASSUME BoundsAssumption == {MaxUses, MaxCrashes} \subseteq Nat

Deleters == Owners \cup Admins
Runs == Deleters \cup {Engine}

Kinds == {Belongings[i] : i \in DOMAIN Belongings}

AuditLast ==   \* mutant: account.deleted is recorded when all is done
  <<"snapshot">> \o Belongings \o <<"anonymize", "row", "audit">>

Cascade == <<"snapshot", "audit">> \o Belongings \o <<"anonymize", "row">>

VARIABLES
  durable,  \* accountLifecycle.durable
  row,      \* the account's row exists
  has,      \* what belongs to the account
  trail,    \* the audit records that still name the account
  run,      \* each request and the workflow: its state and its place in the cascade
  again,    \* history: what was made again since it was last taken away
  spared,   \* history: an anonymisation failed
  uses, crashes

vars == <<durable, row, has, trail, run, again, spared, uses, crashes>>

(* "ran": the workflow's step took effect and is not yet recorded;         *)
(* "failed" is history: the steps of a request that failed.                *)
Off == [state |-> "off", at |-> 1, ran |-> FALSE, failed |-> {}]
Started == [Off EXCEPT !.state = "running"]

Init ==
  /\ durable \in BOOLEAN
  /\ row = TRUE /\ has = Kinds /\ trail = {}
  /\ run = [x \in Runs |-> Off]
  /\ again = {} /\ spared = FALSE
  /\ uses = 0 /\ crashes = 0

(* While the row is there the owner logs in, enrols a factor, accepts an   *)
(* invitation...; each leaves a record of its own.                         *)
Use(k) ==
  /\ row /\ uses < MaxUses
  /\ uses' = uses + 1
  /\ has' = has \cup {k} /\ again' = again \cup {k}
  /\ trail' = trail \cup {<<k, uses>>}
  /\ UNCHANGED <<durable, row, run, spared, crashes>>

---------------------------------------------------------------------------
(* What the steps do.                                                      *)
Remove(k) ==
  /\ has' = has \ {k} /\ again' = again \ {k}
  /\ UNCHANGED <<row, trail, spared>>

auditDeleted(x) ==
  /\ trail' = trail \cup {<<"account.deleted", x>>}
  /\ UNCHANGED <<row, has, again, spared>>

anonymizeAudit ==   \* the sink logs an error and returns
  /\ \/ trail' = {} /\ UNCHANGED spared
     \/ spared' = TRUE /\ UNCHANGED trail
  /\ UNCHANGED <<row, has, again>>

deleteAccountRow ==
  /\ row' = FALSE
  /\ UNCHANGED <<has, trail, again, spared>>

Effect(x, step) ==
  \/ step \in Kinds /\ Remove(step)
  \/ step = "audit" /\ auditDeleted(x)
  \/ step = "anonymize" /\ anonymizeAudit
  \/ step = "row" /\ deleteAccountRow
  \/ step = "snapshot" /\ UNCHANGED <<row, has, trail, again, spared>>

Step(x) == Cascade[run[x].at]
Running(x) == run[x].state = "running"
Put(x, rec) == run' = [run EXCEPT ![x] = rec]

(* The next step, or the end; without the account the cascade is over.     *)
Advance(x) ==
  IF Step(x) = "snapshot" /\ ~row THEN [run[x] EXCEPT !.state = "void"]
  ELSE IF run[x].at = Len(Cascade) THEN [run[x] EXCEPT !.state = "done", !.ran = FALSE]
  ELSE [run[x] EXCEPT !.at = @ + 1, !.ran = FALSE]
---------------------------------------------------------------------------
(* AccountDeletionService.delete: a step that throws is left out, but for  *)
(* the last.                                                               *)
InlineStep(d) ==
  /\ Running(d)
  /\ Effect(d, Step(d))
  /\ Put(d, Advance(d))
  /\ UNCHANGED <<durable, uses, crashes>>

InlineFailure(d) ==
  /\ Running(d) /\ Step(d) \in Kinds \cup {"row"}
  /\ Put(d, IF Step(d) = "row" THEN [run[d] EXCEPT !.state = "crashed"]
            ELSE [Advance(d) EXCEPT !.failed = @ \cup {Step(d)}])
  /\ UNCHANGED <<durable, row, has, trail, again, spared, uses, crashes>>

InlineCrash(d) ==
  /\ run[d].state \in {"asked", "revoked", "running"} /\ crashes < MaxCrashes
  /\ crashes' = crashes + 1
  /\ Put(d, [run[d] EXCEPT !.state = "crashed"])
  /\ UNCHANGED <<durable, row, has, trail, again, spared, uses>>

---------------------------------------------------------------------------
(* The body of the workflow (durable/account_deletion_workflow.ts).        *)
localStep ==
  /\ Running(Engine) /\ ~run[Engine].ran
  /\ Effect(Engine, Step(Engine))
  /\ Put(Engine, IF Step(Engine) = "snapshot" THEN Advance(Engine)
                 ELSE [run[Engine] EXCEPT !.ran = TRUE])
  /\ UNCHANGED <<durable, uses, crashes>>

Checkpoint ==
  /\ Running(Engine) /\ run[Engine].ran
  /\ Put(Engine, Advance(Engine))
  /\ UNCHANGED <<durable, row, has, trail, again, spared, uses, crashes>>

Crashes(rec) ==
  /\ Running(Engine) /\ crashes < MaxCrashes
  /\ crashes' = crashes + 1
  /\ Put(Engine, rec)
  /\ UNCHANGED <<durable, row, has, trail, again, spared, uses>>

EngineLosesStep ==   \* mutant: a step is recorded before it takes effect
  Running(Engine) /\ Step(Engine) # "row" /\ Crashes([Advance(Engine) EXCEPT !.ran = FALSE])

EngineForgets ==   \* mutant: a crash ends the run
  Crashes([run[Engine] EXCEPT !.state = "crashed"])

EngineCrash == Crashes([run[Engine] EXCEPT !.ran = FALSE])

(* A step throws, before or after it took effect: the body asks for no     *)
(* retries, so the run fails.                                              *)
stepThrows == Crashes([run[Engine] EXCEPT !.state = "failed"])

(* Somebody drives the failed run on, from the first step not recorded.    *)
resumeByHand ==
  /\ run[Engine].state = "failed"
  /\ Put(Engine, [run[Engine] EXCEPT !.state = "running", !.ran = FALSE])
  /\ UNCHANGED <<durable, row, has, trail, again, spared, uses, crashes>>

---------------------------------------------------------------------------
(* The requests.  An administrator's leaves a record of its own first.     *)
ask(d) ==
  /\ run[d] = Off /\ row
  /\ Put(d, [Off EXCEPT !.state = "asked"])
  /\ UNCHANGED <<durable, row, has, trail, again, spared, uses, crashes>>

recordUserDeleted(d) ==
  /\ d \in Admins /\ run[d].state = "asked"
  /\ trail' = trail \cup {<<"user.deleted", d>>}
  /\ Put(d, [run[d] EXCEPT !.state = "revoked"])
  /\ UNCHANGED <<durable, row, has, again, spared, uses, crashes>>

(* The owner is logged out at once; if that fails the workflow does it.    *)
revokeFirst(d) ==
  /\ d \in Owners /\ run[d].state = "asked"
  /\ Put(d, [run[d] EXCEPT !.state = "revoked"])
  /\ \/ durable /\ Remove("sessions")
     \/ UNCHANGED <<row, has, trail, again, spared>>
  /\ UNCHANGED <<durable, uses, crashes>>

enqueueAccountDeletion(d) ==
  /\ durable /\ run[d].state = "revoked"
  /\ run' = [run EXCEPT ![d].state = "enqueued",
                        ![Engine] = IF @ = Off THEN Started ELSE @]
  /\ UNCHANGED <<durable, row, has, trail, again, spared, uses, crashes>>

delete(d) ==
  /\ ~durable /\ run[d].state = "revoked"
  /\ Put(d, Started)
  /\ UNCHANGED <<durable, row, has, trail, again, spared, uses, crashes>>

Next ==
  \/ \E k \in Kinds : Use(k)
  \/ \E d \in Deleters : \/ ask(d) \/ recordUserDeleted(d) \/ revokeFirst(d)
                         \/ enqueueAccountDeletion(d) \/ delete(d)
                         \/ InlineStep(d) \/ InlineFailure(d) \/ InlineCrash(d)
  \/ localStep \/ Checkpoint \/ EngineCrash \/ stepThrows \/ resumeByHand

(* The engine goes on with a run that has not failed; a request goes on    *)
(* only if nothing goes wrong, and nobody has to drive a failed run on.    *)
Spec == Init /\ [][Next]_vars /\ WF_vars(localStep) /\ WF_vars(Checkpoint)
---------------------------------------------------------------------------
(* Types of what belongs to the account and of the runs.                   *)
TypeOK ==
  /\ {durable, row, spared} \subseteq BOOLEAN
  /\ has \subseteq Kinds /\ again \subseteq Kinds
  /\ uses \in 0..MaxUses /\ crashes \in 0..MaxCrashes
  /\ run \in [Runs -> [state : {"off", "asked", "revoked", "enqueued", "running", "void", "done",
                                "failed", "crashed"},
                       at : DOMAIN Cascade, ran : BOOLEAN, failed : SUBSET Kinds]]

(* When a cascade is done nothing of the account is left but what it was   *)
(* used to make since, and, in the request, what a step failed to remove:  *)
(* whatever crashed before, and however many cascades ran at once.         *)
NoResidue ==
  \A x \in Runs : run[x].state = "done" => ~row /\ has \subseteq again \cup run[x].failed

(* The record account.deleted of a cascade that is done names nobody, if   *)
(* no anonymisation failed.                                                *)
AccountDeletedNamesNobody ==
  \A x \in Runs : run[x].state = "done" /\ ~spared => <<"account.deleted", x>> \notin trail

(* Once it is enqueued the account is deleted, through any crashes and     *)
(* failures, unless the run fails at a step and nobody drives it on: then, *)
(* and only then, the request was answered and the account stays.          *)
EnqueuedIsDeleted ==
  \A d \in Deleters :
    run[d].state = "enqueued" ~> (~row \/ [](run[Engine].state = "failed"))
===========================================================================
