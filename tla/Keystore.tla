----------------------------- MODULE Keystore -----------------------------
(***************************************************************************)
(* The managed signing keystore shared by the instances of the IdP: one    *)
(* blob in a vault, read and written whole (keys/keystore_manager.ts), the *)
(* copy each instance signs and publishes with (provider/oidc_service.ts), *)
(* the poller that reloads the copy when the vault's head changes          *)
(* (provider/keystore_reload.ts), and the age-based rotation under a       *)
(* single-flight lock (provider/key_rotation_scheduler.ts,                 *)
(* provider/single_flight_lock.ts), beside rotations asked by hand.  A     *)
(* process installs its scheduler once, when it starts, or never.          *)
(*                                                                         *)
(* Every await is a point where another process may run, so a rotation is  *)
(* a read of the vault and a later write, and a reload a read of the vault *)
(* and a later swap of the instance's keys.                                *)
(***************************************************************************)
EXTENDS Integers, Sequences, FiniteSets

CONSTANTS
  Instances,   \* processes serving the IdP
  Manual,      \* rotations asked by hand: <<"admin", i>> runs inside instance
               \* i, <<"cli", i>> in a process of its own
  Keep,        \* keys a scheduled rotation keeps: the policy's "keep"
  HandKeeps,   \* keys a rotation by hand may be asked to keep, 1 by "retire"
  Fresh,       \* TRUE: the vault may be empty at first
  MaxKeys,     \* bound on the keys ever generated
  MaxCrashes,  \* bound on the instances' crashes
  MaxFailures, \* bound on errors of the vault, and of the database at start
  MaxByHand,   \* bound on the rotations asked by hand that are under way at once
  Free         \* the lock, or a reload slot, is free

ASSUME KeepAssumption == Keep \in Nat \ {0} /\ HandKeeps \subseteq Nat \ {0}
ASSUME ManualAssumption == Manual \subseteq ({"admin", "cli"} \X Instances)
ASSUME KeystoreBounds ==
  {MaxCrashes, MaxFailures, MaxByHand} \subseteq Nat /\ MaxKeys \in Nat \ {0}
ASSUME FreeAssumption == Free \notin {"sched", "dead"} \X Instances

Scheduled == {"sched"} \X Instances
Jobs == Scheduled \cup Manual
home(p) == p[2]

VARIABLES
  vault,     \* the kids stored, newest first; <<>> when nothing is stored
  version,   \* number of writes so far: what head() distinguishes
  aged,      \* the first key of the vault is maxAgeDays old
  lock,      \* holder of the lock 'authkit:keys:rotate'
  status,    \* "down", "creating" (the vault was empty at boot) or "up"
  scheduler, \* "on" once installed; "none" while the instance starts, and
             \* "never" if that failed
  serving,   \* the kids an instance publishes; it signs with the first
  last,      \* the poller's #last
  poll,      \* the poller's tick: "idle", "seen" (head read) or "reload"
  head,      \* the head that tick read
  job,       \* what each rotation is doing
  reload,    \* the reloads under way in each instance
  nextKey,   \* the next kid to generate
  crashes, failures,
  loaded,    \* history: the version an instance's copy was read at
  byHand,    \* history: the kids that hand-made rotations generated
  stranded   \* history: instances whose poller took a newer head for its
             \* baseline, or noted one whose reload failed, and does nothing
             \* until the head changes again

vaultVars == <<vault, version, aged, nextKey, byHand>>
pollVars == <<last, poll, head, scheduler>>
copyVars == <<serving, loaded>>
keystoreVars == <<vault, version, aged, lock, status, scheduler, serving, last, poll, head, job,
                  reload, nextKey, crashes, failures, loaded, byHand, stranded>>

Unset == -1   \* #last before the first tick
Range(s) == {s[i] : i \in 1..Len(s)}
Least(a, b) == IF a < b THEN a ELSE b

NoJob == [phase |-> "idle", keep |-> Keep, read |-> <<>>]

KeystoreInit ==
  /\ vault \in {<<1>>} \cup (IF Fresh THEN {<<>>} ELSE {})
  /\ version = Len(vault)
  /\ nextKey = Len(vault) + 1
  /\ aged = FALSE
  /\ lock = Free
  /\ status = [i \in Instances |-> "down"]
  /\ scheduler = [i \in Instances |-> "none"]
  /\ serving = [i \in Instances |-> <<>>]
  /\ last = [i \in Instances |-> Unset]
  /\ poll = [i \in Instances |-> "idle"]
  /\ head = [i \in Instances |-> Unset]
  /\ job = [p \in Jobs |-> NoJob]
  /\ reload = [i \in Instances |-> {}]
  /\ crashes = 0
  /\ failures = 0
  /\ loaded = [i \in Instances |-> 0]
  /\ byHand = {}
  /\ stranded = {}

Load(i, keys, ver) ==
  /\ serving' = [serving EXCEPT ![i] = keys]
  /\ loaded' = [loaded EXCEPT ![i] = ver]
  /\ stranded' = stranded \ {i}

Write(keys) ==
  /\ nextKey <= MaxKeys
  /\ nextKey' = nextKey + 1
  /\ vault' = keys
  /\ version' = version + 1
  /\ aged' = FALSE

---------------------------------------------------------------------------
(* Boot: ensure() reads the vault, and creates the keystore if there is    *)
(* none, in a second step.                                                 *)
ensureRead(i) ==
  /\ status[i] = "down"
  /\ IF vault = <<>>
       THEN /\ status' = [status EXCEPT ![i] = "creating"]
            /\ UNCHANGED <<copyVars, stranded>>
       ELSE /\ status' = [status EXCEPT ![i] = "up"]
            /\ Load(i, vault, version)
  /\ UNCHANGED <<vaultVars, lock, pollVars, job, reload, crashes, failures>>

ensureWrite(i) ==
  /\ status[i] = "creating"
  /\ Write(<<nextKey>>)
  /\ status' = [status EXCEPT ![i] = "up"]
  /\ Load(i, <<nextKey>>, version + 1)
  /\ UNCHANGED <<byHand, lock, pollVars, job, reload, crashes, failures>>

(* #startKeyRotationScheduler: the age of the key is read, the database    *)
(* looked up.  An error of either is taken for "nothing to schedule", and  *)
(* nothing tries again while the process lives.                            *)
startScheduler(i) ==
  /\ status[i] = "up" /\ scheduler[i] = "none"
  /\ scheduler' = [scheduler EXCEPT ![i] = "on"]
  /\ UNCHANGED <<vaultVars, lock, status, copyVars, last, poll, head, job, reload, crashes,
                 failures, stranded>>

schedulerFails(i) ==
  /\ status[i] = "up" /\ scheduler[i] = "none"
  /\ failures < MaxFailures /\ failures' = failures + 1
  /\ scheduler' = [scheduler EXCEPT ![i] = "never"]
  /\ UNCHANGED <<vaultVars, lock, status, copyVars, last, poll, head, job, reload, crashes,
                 stranded>>

(* A crash loses the copy, the timers and the rotations of the instance.   *)
(* A lock it holds stays until its TTL.                                    *)
Orphan(i) == <<"dead", i>>

Crash(i) ==
  /\ crashes < MaxCrashes
  /\ crashes' = crashes + 1
  /\ status[i] # "down"
  /\ status' = [status EXCEPT ![i] = "down"]
  /\ scheduler' = [scheduler EXCEPT ![i] = "none"]
  /\ serving' = [serving EXCEPT ![i] = <<>>]
  /\ last' = [last EXCEPT ![i] = Unset]
  /\ poll' = [poll EXCEPT ![i] = "idle"]
  /\ job' = [p \in Jobs |-> IF home(p) = i /\ p[1] # "cli" THEN NoJob ELSE job[p]]
  /\ reload' = [reload EXCEPT ![i] = {}]
  /\ lock' = IF lock = <<"sched", i>> THEN Orphan(i) ELSE lock
  /\ stranded' = stranded \ {i}
  /\ UNCHANGED <<vaultVars, head, failures, loaded>>

lockForever ==   \* mutant: the lock has no TTL
  /\ FALSE
  /\ UNCHANGED keystoreVars

lockExpires ==
  /\ lock \in {Orphan(i) : i \in Instances}
  /\ lock' = Free
  /\ UNCHANGED <<vaultVars, status, copyVars, pollVars, job, reload, crashes, failures,
                 stranded>>

(* maxAgeDays pass since the current key was generated: far longer than a  *)
(* start, a first poll or a rotation takes.                                *)
Age ==
  /\ vault # <<>> /\ ~aged
  /\ nextKey <= MaxKeys
  /\ \A i \in Instances : \/ status[i] = "down"
                          \/ status[i] = "up" /\ last[i] # Unset /\ scheduler[i] # "none"
  /\ \A p \in Jobs : job[p].phase = "idle"
  /\ aged' = TRUE
  /\ UNCHANGED <<vault, version, nextKey, byHand, lock, status, copyVars, pollVars, job, reload,
                 crashes, failures, stranded>>

---------------------------------------------------------------------------
(* reloadKeys: the vault is read, later the provider is rebuilt from what  *)
(* was read.  #reloadChain runs one reload of an instance at a time.       *)
Reload(by) == [by |-> by, jwks |-> vault, version |-> version]

UnchainedStart(i, by) ==   \* mutant: reloads of an instance overlap
  /\ \A r \in reload[i] : r.by # by
  /\ reload' = [reload EXCEPT ![i] = @ \cup {Reload(by)}]

StartReload(i, by) ==
  /\ reload[i] = {}
  /\ reload' = [reload EXCEPT ![i] = {Reload(by)}]

EndReload(i, by) ==
  \E r \in reload[i] :
    /\ r.by = by
    /\ Load(i, r.jwks, r.version)
    /\ reload' = [reload EXCEPT ![i] = @ \ {r}]

FailReload(i, by) ==   \* the read of the vault throws
  \E r \in reload[i] :
    /\ r.by = by
    /\ failures < MaxFailures
    /\ failures' = failures + 1
    /\ reload' = [reload EXCEPT ![i] = @ \ {r}]

---------------------------------------------------------------------------
(* KeystoreReloadPoller.tick: read the head; the first head is only noted; *)
(* a head that differs from #last is noted first and then loaded.          *)
Poller(i) == <<"poll", i>>

readHead(i) ==
  /\ status[i] = "up" /\ poll[i] = "idle"
  /\ poll' = [poll EXCEPT ![i] = "seen"]
  /\ head' = [head EXCEPT ![i] = version]
  /\ UNCHANGED <<vaultVars, lock, status, scheduler, copyVars, last, job, reload, crashes,
                 failures, stranded>>

compareHeadReadAgain(i) ==   \* mutant: notes a head it did not compare
  /\ poll[i] = "seen"
  /\ last' = [last EXCEPT ![i] = version]
  /\ LET changed == last[i] # Unset /\ head[i] # last[i] IN
       /\ poll' = [poll EXCEPT ![i] = IF changed THEN "reload" ELSE "idle"]
       /\ stranded' = IF last[i] = Unset /\ loaded[i] < head[i] THEN stranded \cup {i} ELSE stranded
  /\ UNCHANGED <<vaultVars, lock, status, scheduler, copyVars, head, job, reload, crashes,
                 failures>>

compareHead(i) ==
  /\ poll[i] = "seen"
  /\ last' = [last EXCEPT ![i] = head[i]]
  /\ LET changed == last[i] # Unset /\ head[i] # last[i] IN
       /\ poll' = [poll EXCEPT ![i] = IF changed THEN "reload" ELSE "idle"]
       /\ stranded' = IF last[i] = Unset /\ loaded[i] < head[i] THEN stranded \cup {i} ELSE stranded
  /\ UNCHANGED <<vaultVars, lock, status, scheduler, copyVars, head, job, reload, crashes,
                 failures>>

pollReload(i) ==
  /\ poll[i] = "reload"
  /\ \/ /\ StartReload(i, Poller(i))
        /\ UNCHANGED <<copyVars, poll, failures, stranded>>
     \/ /\ EndReload(i, Poller(i))
        /\ poll' = [poll EXCEPT ![i] = "idle"]
        /\ UNCHANGED failures
  /\ UNCHANGED <<vaultVars, lock, status, scheduler, last, head, job, crashes>>

pollReloadFails(i) ==
  /\ FailReload(i, Poller(i))
  /\ poll' = [poll EXCEPT ![i] = "idle"]
  /\ stranded' = stranded \cup {i}
  /\ UNCHANGED <<vaultVars, lock, status, scheduler, copyVars, last, head, job, crashes>>

---------------------------------------------------------------------------
(* Rotations.  A job enters rotateKeys with "queued"; #rotateChain lets    *)
(* one rotation of an instance run at a time.                              *)
Rotating == {"read", "written"}
Phase(p, ph) == job' = [job EXCEPT ![p].phase = ph]
SameButJobs == UNCHANGED <<vaultVars, status, copyVars, pollVars, reload, crashes,
                           failures, stranded>>

(* KeyRotationScheduler.tick: the age, the lock, the age again.            *)
tick(p) ==
  /\ p \in Scheduled /\ status[home(p)] = "up" /\ scheduler[home(p)] = "on"
  /\ job[p].phase = "idle" /\ aged
  /\ Phase(p, "aged")
  /\ UNCHANGED lock /\ SameButJobs

acquireAnyway(p) ==   \* mutant: a held lock is taken over
  /\ job[p].phase = "aged"
  /\ Phase(p, "locked") /\ lock' = p
  /\ SameButJobs

acquireImmediately(p) ==
  /\ job[p].phase = "aged"
  /\ IF lock = Free THEN Phase(p, "locked") /\ lock' = p
                    ELSE Phase(p, "idle") /\ UNCHANGED lock
  /\ SameButJobs

queueAnyway(p) ==   \* mutant: the age is not checked again under the lock
  /\ job[p].phase = "locked"
  /\ Phase(p, "queued")
  /\ UNCHANGED lock /\ SameButJobs

ageAgain(p) ==
  /\ job[p].phase = "locked"
  /\ IF aged THEN Phase(p, "queued") /\ UNCHANGED lock
             ELSE Phase(p, "idle") /\ lock' = Free
  /\ SameButJobs

(* rotateNow (admin) and authkit:keys:rotate: no age, no lock; keep is the *)
(* caller's, of any size, and 1 with "retire".                             *)
rotateByHand(p, keep) ==
  /\ p \in Manual /\ job[p].phase = "idle"
  /\ nextKey <= MaxKeys
  /\ Cardinality({q \in Manual : job[q].phase # "idle"}) < MaxByHand
  /\ p[1] = "admin" => status[home(p)] = "up"
  /\ job' = [job EXCEPT ![p] = [NoJob EXCEPT !.phase = "queued", !.keep = keep]]
  /\ UNCHANGED lock /\ SameButJobs

SameChain(p, q) == home(p) = home(q) /\ "cli" \notin {p[1], q[1]}

rotateRead(p) ==
  /\ job[p].phase = "queued"
  /\ \A q \in Jobs \ {p} : SameChain(p, q) => job[q].phase \notin Rotating
  /\ job' = [job EXCEPT ![p].phase = "read", ![p].read = vault]
  /\ UNCHANGED lock /\ SameButJobs

Rotated(p) ==
  LET next == <<nextKey>> \o job[p].read IN SubSeq(next, 1, Least(job[p].keep, Len(next)))

(* A command-line rotation ends with its write.                            *)
rotateWrite(p) ==
  /\ job[p].phase = "read"
  /\ Write(Rotated(p))
  /\ byHand' = IF p \in Manual THEN byHand \cup {nextKey} ELSE byHand
  /\ job' = [job EXCEPT ![p] = IF p[1] = "cli" THEN NoJob ELSE [NoJob EXCEPT !.phase = "written"]]
  /\ UNCHANGED <<lock, status, copyVars, pollVars, reload, crashes, failures, stranded>>

Finish(p) ==
  /\ job' = [job EXCEPT ![p] = NoJob]
  /\ lock' = IF lock = p THEN Free ELSE lock

rotateReload(p) ==
  /\ job[p].phase = "written"
  /\ \/ /\ StartReload(home(p), p)
        /\ UNCHANGED <<copyVars, lock, job, stranded>>
     \/ /\ EndReload(home(p), p)
        /\ Finish(p)
  /\ UNCHANGED <<vaultVars, status, pollVars, crashes, failures>>

(* The vault throws, in the reload or before the write: the rotation       *)
(* rejects, and the lock is released by the finally.                       *)
rotateFails(p) ==
  /\ \/ FailReload(home(p), p)
     \/ /\ job[p].phase = "read"
        /\ failures < MaxFailures
        /\ failures' = failures + 1
        /\ UNCHANGED reload
  /\ Finish(p)
  /\ UNCHANGED <<vaultVars, status, copyVars, pollVars, crashes, stranded>>

---------------------------------------------------------------------------
Boot(i) == ensureRead(i) \/ ensureWrite(i) \/ startScheduler(i)

Poll(i) == readHead(i) \/ compareHead(i) \/ pollReload(i)

Rotate(p) ==
  tick(p) \/ acquireImmediately(p) \/ ageAgain(p) \/ rotateRead(p) \/ rotateWrite(p)
          \/ rotateReload(p)

KeystoreNext ==
  \/ \E i \in Instances :
       Boot(i) \/ schedulerFails(i) \/ Poll(i) \/ pollReloadFails(i) \/ Crash(i)
  \/ \E p \in Jobs : Rotate(p) \/ rotateFails(p)
  \/ \E p \in Manual, keep \in HandKeeps : rotateByHand(p, keep)
  \/ lockExpires
  \/ Age

(* Timers keep firing, awaits resume, a dead process is restarted and a    *)
(* lock nobody releases expires.                                           *)
Fairness ==
  /\ \A i \in Instances : WF_keystoreVars(Boot(i)) /\ WF_keystoreVars(Poll(i))
  /\ \A p \in Jobs : WF_keystoreVars(Rotate(p))
  /\ WF_keystoreVars(lockExpires)

KeystoreSpec == KeystoreInit /\ [][KeystoreNext]_keystoreVars /\ Fairness

---------------------------------------------------------------------------
Keys == 1..MaxKeys
Keeps == {Keep} \cup HandKeeps
Keystores == UNION {[1..n -> Keys] : n \in UNION {0..keep : keep \in Keeps}}

(* Types of the shared vault and of each instance's state; no keystore is  *)
(* longer than what the policy, or some rotation by hand, asks to keep.    *)
KeystoreTypeOK ==
  /\ vault \in Keystores /\ version \in 0..MaxKeys /\ aged \in BOOLEAN
  /\ lock \in Scheduled \cup {Free} \cup {Orphan(i) : i \in Instances}
  /\ status \in [Instances -> {"down", "creating", "up"}]
  /\ scheduler \in [Instances -> {"none", "on", "never"}]
  /\ serving \in [Instances -> Keystores]
  /\ last \in [Instances -> Unset..MaxKeys] /\ head \in [Instances -> Unset..MaxKeys]
  /\ poll \in [Instances -> {"idle", "seen", "reload"}]
  /\ job \in [Jobs -> [phase : {"idle", "aged", "locked", "queued"} \cup Rotating,
                       keep : Keeps, read : Keystores]]
  /\ \A i \in Instances : reload[i] \subseteq
       [by : {Poller(i)} \cup Jobs, jwks : Keystores, version : 0..MaxKeys]
  /\ nextKey \in 1..(MaxKeys + 1)
  /\ stranded \subseteq Instances

(* The keys of the vault that a rotation should have kept and drops: it    *)
(* writes over a rotation that ended after it read the vault.  Kids grow,  *)
(* so those keys are greater than the newest it read; an older key that is *)
(* missing there was dropped by another rotation, and brought back by one  *)
(* asked by hand.                                                          *)
Lost(p) ==
  LET kept == Range(SubSeq(vault, 1, Least(job[p].keep - 1, Len(vault))))
  IN  {k \in kept : k > job[p].read[1]} \ Range(vault')

(* No scheduled rotation of one instance is lost to that of another: what  *)
(* the single-flight lock buys.                                            *)
ScheduledRotationsAreKept ==
  [][\A p \in Scheduled : rotateWrite(p) => Lost(p) \subseteq byHand]_keystoreVars

(* A scheduled rotation never displaces a key younger than maxAgeDays,     *)
(* though the age is read long before the write, unless that key was made  *)
(* by hand in between.                                                     *)
OnlyAgedKeysRotate ==
  [][\A p \in Scheduled : rotateWrite(p) => aged \/ vault[1] \in byHand]_keystoreVars

(* Reloads of an instance never take effect in the wrong order: while it   *)
(* runs, an instance never goes back to keys older than those it had.      *)
NeverBackToOldKeys ==
  [][\A i \in Instances :
       status[i] = "up" /\ status'[i] = "up" => loaded'[i] >= loaded[i]]_keystoreVars

(* An aged key is eventually replaced, whichever instance crashes, unless  *)
(* an error at its start has left every instance without a scheduler.      *)
AgedKeyIsReplaced == aged ~> (~aged \/ \A i \in Instances : scheduler[i] = "never")

(* Once rotations stop every instance ends up with the vault's keystore,   *)
(* but for those whose poller took for its baseline a head newer than the  *)
(* keys they booted with, and those whose reload failed.                   *)
PollCatchesUp ==
  \A i \in Instances : <>[](i \in stranded \/ serving[i] = vault)
===========================================================================
