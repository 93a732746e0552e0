------------------------------ MODULE MultiHost ------------------------------
(***************************************************************************)
(* The multi-host rolling deploy of fraisier-core (multi_host.rs) with the *)
(* nginx load balancer (fraisier-adapter-nginx): one run of a saga whose   *)
(* steps are preflight, fetch, migrate, one rollout step per batch of      *)
(* hosts, and verify.  The hosts of a batch advance concurrently through   *)
(* drain, activate, restart, health and reattach; a batch with a failed    *)
(* host restores its own hosts, concurrently, before its step fails.       *)
(*                                                                         *)
(* The load balancer is two things: the configuration file, where a host   *)
(* is marked down or not, and what the running nginx loaded last.  drain   *)
(* and reattach rewrite the file and then reload; the reload of one host   *)
(* applies every edit made so far, and a failed reload leaves the edit in  *)
(* the file.  A call to a host that fails may have done its work all the   *)
(* same, when only its answer was lost: the link may have moved, the       *)
(* service may have restarted, nginx may have reloaded.                    *)
(*                                                                         *)
(* How several runs exclude each other, and what a stale ledger does to a  *)
(* rollback, is in Saga and SingleHost; here there is one run.             *)
(***************************************************************************)
EXTENDS Saga, Sequences

CONSTANTS Inventory,      \* the hosts, in rollout order
          Size,           \* hosts per batch: rolling(n); all-at-once is the length
          New, Old,       \* the release this run deploys and the one before it
          None,           \* no release, no running service
          Starts          \* the fleets to start from: prior, pool, ownsDatabase

Hosts == {Inventory[k] : k \in DOMAIN Inventory}

(* plan_batches(): consecutive chunks of the inventory, of at least one.   *)
ChunkSize == IF Size = 0 THEN 1 ELSE Size
NumBatches == (Len(Inventory) + ChunkSize - 1) \div ChunkSize
Batch(k) == {Inventory[j] : j \in {j \in DOMAIN Inventory :
                                     (k - 1) * ChunkSize < j /\ j <= k * ChunkSize}}

(* validate_hosts() refuses a name that occurs twice, build() an empty     *)
(* inventory.                                                              *)
ASSUME InventoryAssumption ==
    /\ Inventory \in Seq(Hosts) /\ Inventory # <<>>
    /\ \A j, k \in DOMAIN Inventory : Inventory[j] = Inventory[k] => j = k
ASSUME OneRun == \E p \in Procs : Procs = {p}
ASSUME BatchesAssumption == Size \in Nat /\ N = 4 + NumBatches
ASSUME DistinctReleases == New # Old /\ None \notin {New, Old}
ASSUME StartsAssumption ==
    Starts \subseteq [prior : [Hosts -> {Old, None}], pool : [Hosts -> {"in", "down"}],
                     ownsDatabase : BOOLEAN]

VARIABLES ownsDatabase, \* the migration axis has a database behind it
          hpc,          \* where each host is within its batch
          captured,     \* the membership read by a drain not yet returned
          drained,      \* HostProgress.drained: the prior membership, or "no"
          activated,    \* HostProgress.activated
          reattached,   \* HostProgress.reattached
          unrecoverable,\* a failed batch could not restore a host
          prior,        \* the ledger read before the run: each host's release
          active,       \* the release active on each host
          running,      \* the release each host's service runs
          conf,         \* the file: "in" the pool or "down", per host
          live,         \* the same for what nginx loaded last
          db,           \* the database: 0 nothing applied, 1 before, 2 after
          prevRev,      \* the revision captured before migrating
          ledger,       \* the snapshot slot: each host's recorded release
          recorded,     \* "no", or whether the ledger write of a commit worked
          pool0,        \* history: conf when the run started
          db0,          \* history: db when the run started
          reloadFailed  \* history: a call failed after it edited the file

progressVars == <<captured, drained, activated, reattached>>
fleetVars    == <<active, running, conf, live>>
dbVars       == <<db, prevRev>>
outerVars    == <<ownsDatabase, prior, ledger, recorded, pool0, db0>>
mhVars == <<vars, hpc, progressVars, unrecoverable, fleetVars, dbVars, outerVars, reloadFailed>>

(* Any fleet an earlier deploy, or a change of inventory, can have left: a *)
(* host may be new (no prior release), a host may be marked down.          *)
MHInit ==
    /\ Init
    /\ hpc = [h \in Hosts |-> "idle"]
    /\ captured = [h \in Hosts |-> "no"]
    /\ drained = [h \in Hosts |-> "no"]
    /\ activated = [h \in Hosts |-> FALSE]
    /\ reattached = [h \in Hosts |-> FALSE]
    /\ unrecoverable = FALSE /\ reloadFailed = FALSE
    /\ \E s \in Starts :
          /\ ownsDatabase = s.ownsDatabase
          /\ prior = s.prior
          /\ conf = s.pool
    /\ active = prior
    /\ running = prior
    /\ live = conf
    /\ pool0 = conf
    /\ ledger = prior
    /\ recorded = "no"
    /\ db = IF ownsDatabase /\ \E h \in Hosts : prior[h] # None THEN 1 ELSE 0
    /\ db0 = db
    /\ prevRev = 0

-----------------------------------------------------------------------------
Self == CHOOSE p \in Procs : TRUE
Fetch == 2
Migrate == 3
Verify == N
IsRollout(i) == 4 <= i /\ i < N
Current == Batch(to[Self].step - 3)

At(i) == pc[Self] = "forward" /\ to[Self].step = i
Advancing == pc[Self] = "forward" /\ IsRollout(to[Self].step)
Undoing(i) == pc[Self] = "compensate" /\ to[Self].step = i

(* The engine's own steps.                                                 *)
Engine ==
    /\ \/ AcquireLock(Self) \/ RecordEvent(Self) \/ RecordState(Self) \/ ReleaseLock(Self)
       \/ AcquireFails(Self) \/ StoreFails(Self) \/ ReleaseFails(Self)
    /\ UNCHANGED <<hpc, progressVars, unrecoverable, fleetVars, dbVars, outerVars, reloadFailed>>

(* preflight, fetch and verify: probes of every host, gates, staging.      *)
(* Nothing a rollback has to undo.                                         *)
Inert(i) ==
    /\ At(i)
    /\ \/ Forward(Self)
       \/ ForwardFails(Self) /\ UNCHANGED effects
    /\ UNCHANGED <<hpc, progressVars, unrecoverable, fleetVars, dbVars, outerVars, reloadFailed>>

RunPreflight == Inert(1)
RunFetch == Inert(Fetch)
RunVerify == Inert(Verify)

InertUndo ==
    /\ \E i \in {1, Fetch, Verify} : Undoing(i)
    /\ Compensate(Self)
    /\ UNCHANGED <<hpc, progressVars, unrecoverable, fleetVars, dbVars, outerVars, reloadFailed>>

(* Where a migration from x to y that fails leaves the database.           *)
HalfWay(x, y) == (x .. y) \cup (y .. x)

MigrateTarget == IF ownsDatabase THEN 2 ELSE db

(* run_migrate(): once, against the shared database.                       *)
RunMigrate ==
    /\ At(Migrate)
    /\ prevRev' = db
    /\ \/ Forward(Self) /\ db' = MigrateTarget
       \/ /\ ForwardFails(Self)
          /\ db' \in HalfWay(db, MigrateTarget)
          /\ (Migrate \in effects'[Self]) = (db' # db)
    /\ UNCHANGED <<hpc, progressVars, unrecoverable, fleetVars, outerVars, reloadFailed>>

(* Without a prior revision there is nothing to return to: an error.       *)
UndoMigrate ==
    /\ Undoing(Migrate)
    /\ \/ /\ ownsDatabase => prevRev # 0
          /\ Compensate(Self)
          /\ db' = IF ownsDatabase THEN prevRev ELSE db
       \/ /\ ownsDatabase
          /\ CompensateFails(Self) /\ UNCHANGED effects
          /\ db' \in IF prevRev = 0 THEN {db} ELSE HalfWay(db, prevRev)
    /\ UNCHANGED <<hpc, progressVars, unrecoverable, fleetVars, prevRev, outerVars, reloadFailed>>

(* The process dies.  A call to a host that took effect and did not return *)
(* is the step of that host followed by this one; a migration may stop.    *)
Die ==
    /\ Crash(Self)
    /\ \/ UNCHANGED <<effects, db>>
       \/ /\ At(Migrate)
          /\ db' \in HalfWay(db, MigrateTarget) \cup {MigrateTarget}
          /\ effects'[Self] = effects[Self] \cup {Migrate}
       \/ /\ Undoing(Migrate) /\ ownsDatabase /\ prevRev # 0
          /\ db' \in HalfWay(db, prevRev) \cup {prevRev}
          /\ effects'[Self] = effects[Self] \ {Migrate}
    /\ UNCHANGED <<hpc, progressVars, unrecoverable, fleetVars, prevRev, outerVars, reloadFailed>>

-----------------------------------------------------------------------------
(* The load balancer's apply(): read and rewrite the file, then reload.    *)

Go(h, where) == hpc' = [hpc EXCEPT ![h] = where]

EditFile(h, membership) == conf' = [conf EXCEPT ![h] = membership]

Reload == live' = conf

(* The reload of a step that goes from here to next, or to fail; a failed  *)
(* one may have reached nginx.                                             *)
ReloadOr(h, here, next, fail) ==
    /\ hpc[h] = here
    /\ \/ Reload /\ Go(h, next) /\ UNCHANGED reloadFailed
       \/ live' \in {live, conf} /\ Go(h, fail) /\ reloadFailed' = TRUE

-----------------------------------------------------------------------------
(* advance_host().                                                         *)

Drain(h) ==
    /\ hpc[h] = "idle"
    /\ \/ /\ captured' = [captured EXCEPT ![h] = conf[h]]
          /\ EditFile(h, "down")
          /\ Go(h, "drain reload")
       \/ Go(h, "failed") /\ UNCHANGED <<captured, conf>>
    /\ UNCHANGED <<drained, activated, reattached, active, running, live, reloadFailed>>

(* Mutant: the file is edited and nginx not reloaded.                      *)
DrainReloadForgotten(h) ==
    /\ hpc[h] = "drain reload" /\ Go(h, "activate")
    /\ drained' = [drained EXCEPT ![h] = captured[h]]
    /\ UNCHANGED <<captured, activated, reattached, fleetVars, reloadFailed>>

DrainReload(h) ==
    /\ ReloadOr(h, "drain reload", "activate", "failed")
    /\ drained' = [drained EXCEPT ![h] = IF hpc'[h] = "activate" THEN captured[h] ELSE @]
    /\ UNCHANGED <<captured, activated, reattached, active, running, conf>>

ActivateHost(h) ==
    /\ hpc[h] = "activate"
    /\ \/ /\ active' = [active EXCEPT ![h] = New]
          /\ activated' = [activated EXCEPT ![h] = TRUE]
          /\ Go(h, "restart")
       \/ /\ \E r \in {active[h], New} : active' = [active EXCEPT ![h] = r]
          /\ Go(h, "failed") /\ UNCHANGED activated
    /\ UNCHANGED <<captured, drained, reattached, running, conf, live, reloadFailed>>

RestartHost(h) ==
    /\ hpc[h] = "restart"
    /\ \/ running' = [running EXCEPT ![h] = active[h]] /\ Go(h, "health")
       \/ \E r \in {running[h], None, active[h]} :
             running' = [running EXCEPT ![h] = r] /\ Go(h, "failed")
    /\ UNCHANGED <<progressVars, active, conf, live, reloadFailed>>

CheckHealth(h) ==
    /\ hpc[h] = "health"
    /\ Go(h, "reattach") \/ Go(h, "failed")
    /\ UNCHANGED <<progressVars, fleetVars, reloadFailed>>

(* Mutant: puts every host into the pool.                                  *)
ReattachAlways(h) ==
    /\ hpc[h] = "reattach"
    /\ EditFile(h, "in") /\ Go(h, "reattach reload")
    /\ UNCHANGED <<progressVars, active, running, live, reloadFailed>>

Reattach(h) ==
    /\ hpc[h] = "reattach"
    /\ \/ EditFile(h, drained[h]) /\ Go(h, "reattach reload")
       \/ Go(h, "failed") /\ UNCHANGED conf
    /\ UNCHANGED <<progressVars, active, running, live, reloadFailed>>

ReattachReload(h) ==
    /\ ReloadOr(h, "reattach reload", "advanced", "failed")
    /\ reattached' = [reattached EXCEPT ![h] = hpc'[h] = "advanced"]
    /\ UNCHANGED <<captured, drained, activated, active, running, conf>>

-----------------------------------------------------------------------------
(* restore_host(): undoes exactly the steps that happened.                 *)

(* Mutant: a host that was drained only is left out of the pool.           *)
FirstUndoActivatedOnly(h) ==
    IF ~activated[h] THEN "restored"
    ELSE IF reattached[h] THEN "undo drain"
    ELSE "undo activate"

(* Mutant: a reattached host is restored while it is in the pool.          *)
FirstUndoInPool(h) ==
    IF drained[h] = "no" THEN "restored"
    ELSE IF activated[h] THEN "undo activate"
    ELSE "undo reattach"

FirstUndo(h) ==
    IF drained[h] = "no" THEN "restored"
    ELSE IF reattached[h] THEN "undo drain"
    ELSE IF activated[h] THEN "undo activate"
    ELSE "undo reattach"

UndoDrain(h) ==
    /\ hpc[h] = "undo drain"
    /\ \/ EditFile(h, "down") /\ Go(h, "undo drain reload")
       \/ Go(h, "unrestored") /\ UNCHANGED conf
    /\ UNCHANGED <<progressVars, active, running, live, reloadFailed>>

UndoDrainReload(h) ==
    /\ ReloadOr(h, "undo drain reload",
                IF activated[h] THEN "undo activate" ELSE "undo reattach", "unrestored")
    /\ UNCHANGED <<progressVars, active, running, conf>>

UndoActivate(h) ==
    /\ hpc[h] = "undo activate"
    /\ \/ /\ prior[h] # None
          /\ active' = [active EXCEPT ![h] = prior[h]]
          /\ Go(h, "undo restart")
       \/ /\ \E r \in {active[h]} \cup ({prior[h]} \ {None}) : active' = [active EXCEPT ![h] = r]
          /\ Go(h, "unrestored")
    /\ UNCHANGED <<progressVars, running, conf, live, reloadFailed>>

(* Mutant: skips the restart after re-activating.                          *)
UndoRestartSkipped(h) ==
    /\ hpc[h] = "undo restart"
    /\ Go(h, "undo reattach")
    /\ UNCHANGED <<progressVars, fleetVars, reloadFailed>>

UndoRestart(h) ==
    /\ hpc[h] = "undo restart"
    /\ \/ running' = [running EXCEPT ![h] = active[h]] /\ Go(h, "undo reattach")
       \/ /\ \E r \in {running[h], None, active[h]} : running' = [running EXCEPT ![h] = r]
          /\ Go(h, "unrestored")
    /\ UNCHANGED <<progressVars, active, conf, live, reloadFailed>>

UndoReattach(h) ==
    /\ hpc[h] = "undo reattach"
    /\ \/ EditFile(h, drained[h]) /\ Go(h, "undo reattach reload")
       \/ Go(h, "unrestored") /\ UNCHANGED conf
    /\ UNCHANGED <<progressVars, active, running, live, reloadFailed>>

UndoReattachReload(h) ==
    /\ ReloadOr(h, "undo reattach reload", "restored", "unrestored")
    /\ UNCHANGED <<progressVars, active, running, conf>>

(* One await-to-await step of one host of the current batch.               *)
HostStep(h) ==
    /\ \/ Advancing /\ h \in Current
       \/ pc[Self] = "compensate" /\ IsRollout(to[Self].step) /\ h \in Current
    /\ \/ Drain(h) \/ DrainReload(h) \/ ActivateHost(h) \/ RestartHost(h) \/ CheckHealth(h)
       \/ Reattach(h) \/ ReattachReload(h)
       \/ UndoDrain(h) \/ UndoDrainReload(h) \/ UndoActivate(h) \/ UndoRestart(h)
       \/ UndoReattach(h) \/ UndoReattachReload(h)
    /\ UNCHANGED <<vars, unrecoverable, dbVars, outerVars>>

-----------------------------------------------------------------------------
(* run_rollout(), restore_batch(): the joins.                              *)

(* The host is as the run found it.                                        *)
IsBack(h) == active[h] = prior[h] /\ running[h] = prior[h]

AllAt(places) == \A h \in Current : hpc[h] \in places
BeginRestore == hpc' = [h \in Hosts |-> IF h \in Current THEN FirstUndo(h) ELSE hpc[h]]

BatchAdvanced ==
    /\ Advancing
    /\ AllAt({"advanced"})
    /\ Forward(Self)
    /\ UNCHANGED <<hpc, progressVars, unrecoverable, fleetVars, dbVars, outerVars, reloadFailed>>

BatchFailed ==
    /\ Advancing
    /\ AllAt({"advanced", "failed"}) /\ ~AllAt({"advanced"})
    /\ BeginRestore
    /\ UNCHANGED <<vars, progressVars, unrecoverable, fleetVars, dbVars, outerVars, reloadFailed>>

(* Mutant: forgets that the failed batch could not be restored.            *)
FailedBatchRestoredForgets ==
    /\ Advancing
    /\ AllAt({"restored", "unrestored"})
    /\ ForwardFails(Self) /\ UNCHANGED effects
    /\ UNCHANGED <<hpc, progressVars, unrecoverable, fleetVars, dbVars, outerVars, reloadFailed>>

(* The failed batch is restored as far as possible; its step fails.  That  *)
(* it could not be restored is remembered, and the rollback goes on.       *)
FailedBatchRestored ==
    /\ Advancing
    /\ AllAt({"restored", "unrestored"})
    /\ unrecoverable' = ~AllAt({"restored"})
    /\ ForwardFails(Self)
    /\ (to[Self].step \in effects'[Self]) = (\E h \in Current : ~IsBack(h))
    /\ UNCHANGED <<hpc, progressVars, fleetVars, dbVars, outerVars, reloadFailed>>

BeginUndoBatch ==
    /\ \E i \in 4 .. N - 1 : Undoing(i)
    /\ AllAt({"advanced"})
    /\ BeginRestore
    /\ UNCHANGED <<vars, progressVars, unrecoverable, fleetVars, dbVars, outerVars, reloadFailed>>

EndUndoBatch ==
    /\ \E i \in 4 .. N - 1 : Undoing(i)
    /\ AllAt({"restored", "unrestored"})
    /\ \/ AllAt({"restored"}) /\ Compensate(Self)
       \/ ~AllAt({"restored"}) /\ CompensateFails(Self) /\ UNCHANGED effects
    /\ UNCHANGED <<hpc, progressVars, unrecoverable, fleetVars, dbVars, outerVars, reloadFailed>>

-----------------------------------------------------------------------------
(* run(), after the saga: finalize() and the ledger.                       *)

Outcome ==
    IF result[Self] = "RolledBack" /\ unrecoverable THEN "PartialRollback" ELSE result[Self]

RecordLedger ==
    /\ pc[Self] = "returned" /\ Outcome = "Committed" /\ recorded = "no"
    /\ \/ ledger' = [h \in Hosts |-> New] /\ recorded' = "yes"
       \/ recorded' = "failed" /\ UNCHANGED ledger
    /\ UNCHANGED <<vars, hpc, progressVars, unrecoverable, fleetVars, dbVars,
                   ownsDatabase, prior, pool0, db0, reloadFailed>>

Returned == pc[Self] = "returned" /\ (Outcome = "Committed" => recorded # "no")

-----------------------------------------------------------------------------
Work ==
    \/ Engine \/ RunPreflight \/ RunFetch \/ RunVerify \/ InertUndo \/ RunMigrate \/ UndoMigrate
    \/ \E h \in Hosts : HostStep(h)
    \/ BatchAdvanced \/ BatchFailed \/ FailedBatchRestored \/ BeginUndoBatch \/ EndUndoBatch
    \/ RecordLedger

Ended == (Returned \/ pc[Self] = "dead") /\ UNCHANGED mhVars

MHNext == Work \/ Die \/ Ended

MHSpec == MHInit /\ [][MHNext]_mhVars

(* Assuming that every adapter call returns, the run goes on.              *)
MHFairSpec == MHSpec /\ WF_mhVars(Work)

-----------------------------------------------------------------------------
(* Properties.                                                             *)

HostPlaces ==
    {"idle", "drain reload", "activate", "restart", "health", "reattach", "reattach reload",
     "advanced", "failed", "undo drain", "undo drain reload", "undo activate", "undo restart",
     "undo reattach", "undo reattach reload", "restored", "unrestored"}

(* Every variable has its type. *)
MHTypeOK ==
    /\ TypeOK
    /\ hpc \in [Hosts -> HostPlaces]
    /\ {captured, drained} \subseteq [Hosts -> {"no", "in", "down"}]
    /\ {activated, reattached} \subseteq [Hosts -> BOOLEAN]
    /\ {ownsDatabase, unrecoverable, reloadFailed} \subseteq BOOLEAN
    /\ {prior, ledger, active, running} \subseteq [Hosts -> {New, Old, None}]
    /\ {conf, live, pool0} \subseteq [Hosts -> {"in", "down"}]
    /\ {db, db0, prevRev} \subseteq 0 .. 2
    /\ recorded \in {"no", "yes", "failed"}

(* The host was drained and its activate() did not return Ok: the link may *)
(* have moved, and restore_host() does not put it back.                    *)
ActivationFailed(h) == drained[h] # "no" /\ ~activated[h]

(* Every host runs what it ran, and its link is back, unless its own       *)
(* activation failed.                                                      *)
HostsAreBack ==
    /\ running = prior
    /\ \A h \in Hosts : active[h] = prior[h] \/ ActivationFailed(h)

PoolIsBack == conf = pool0 /\ live = pool0

(* A host takes no traffic from the moment its new release is activated    *)
(* until it passed its health check, however the reloads of the other      *)
(* hosts of its batch interleave (advance_host).                           *)
DrainedWhileUpdated ==
    \A h \in Hosts : hpc[h] \in {"activate", "restart", "health"} => live[h] = "down"

TouchedInPool ==
    \E h \in Hosts : live[h] = "in" /\ (active'[h] # active[h] \/ running'[h] # running[h])

(* No host is touched while it takes traffic, on the way back either:      *)
(* "take it back out of the pool if it had been reattached" (restore_host),*)
(* in every rollout in which no reload failed.                             *)
TouchedOnlyOutOfPoolOrReloadFailed == [][TouchedInPool => reloadFailed]_mhVars

(* A committed rollout left no host behind: each runs the new release, the *)
(* database is migrated, and the pool is what it was before the run.       *)
CommittedFleet ==
    Outcome = "Committed" =>
        /\ \A h \in Hosts : active[h] = New /\ running[h] = New
        /\ db = MigrateTarget
        /\ PoolIsBack

(* "every host is back on its prior artifact and the database is back on   *)
(* its prior revision", "LB membership restored": what a clean RolledBack  *)
(* promises.  A migration that failed half way is not compensated, nor is  *)
(* the link of a host whose activation failed, which goes back into the    *)
(* pool on its prior service; and a call that failed after it edited the   *)
(* pool leaves the edit.                                                   *)
CleanRollbackRestores ==
    Outcome = "RolledBack" =>
        /\ HostsAreBack
        /\ failed[Self] # Migrate => db = db0
        /\ ~reloadFailed => PoolIsBack

(* What the state store says after the run is what the run reported: a     *)
(* persisted RolledBack means that every host was restored.                *)
PersistedRollbackRestores == curState.tag = "RolledBack" => HostsAreBack

(* "The migration is rolled back only after every host is restored": no    *)
(* host runs the new release on the old schema, unless the run is going to *)
(* report a host that it could not restore.                                *)
MigrationUndoneLastOrReported == Undoing(Migrate) => HostsAreBack \/ unrecoverable

(* "batches run in order so the rest of the fleet stays live": outside the *)
(* batch at work, every host that was in the pool serves, and serves the   *)
(* release its link names unless its activation failed, going forward and  *)
(* going back, until a host turns out to be unrestorable or a call fails   *)
(* after it edited the pool.                                               *)
RestStaysLive ==
    to[Self].tag \in {"Running", "Compensating"} /\ ~unrecoverable /\ ~reloadFailed =>
        \A h \in Hosts \ (IF IsRollout(to[Self].step) THEN Current ELSE {}) :
            /\ pool0[h] = "in" => live[h] = "in"
            /\ running[h] = active[h] \/ (ActivationFailed(h) /\ running[h] = prior[h])

(* Every rollout ends, with an outcome, unless the process dies.           *)
RolloutEnds == <>(Returned \/ pc[Self] = "dead")

(* The fleet serves throughout: a host is out of the pool while it is      *)
(* worked on, and the others stay in it.                                   *)
FleetServes == [](MHTypeOK /\ DrainedWhileUpdated /\ RestStaysLive) /\ TouchedOnlyOutOfPoolOrReloadFailed

(* Going back is complete, in the order that keeps the old release on the  *)
(* old schema, or is reported.                                             *)
RollbackAccounted == CleanRollbackRestores /\ MigrationUndoneLastOrReported
=============================================================================
