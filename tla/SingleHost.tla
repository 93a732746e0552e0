----------------------------- MODULE SingleHost -----------------------------
(***************************************************************************)
(* The single-host deploy of fraisier-core (single_host.rs): a saga of     *)
(* seven steps over one host, one database and the release ledger, which   *)
(* is the state store's snapshot slot.                                     *)
(*                                                                         *)
(* A run reads the ledger before it takes the lock (the prior record is    *)
(* its rollback target) and, if it commits, writes the ledger after it     *)
(* released the lock.  The engine is Saga's; this module says what each    *)
(* step does to the host.                                                  *)
(*                                                                         *)
(* The adapters are external.  A release is named by the run that stages   *)
(* it, a revision is a number (0: none applied).  A call that fails may    *)
(* have done its work all the same, when only its answer was lost: the     *)
(* link may have moved, the service may have restarted, or be down, and a  *)
(* migration may have stopped half way.  The call is over when it returns; *)
(* a remote command that outlives its caller is in Releases.               *)
(***************************************************************************)
EXTENDS Saga

CONSTANTS Base,        \* the release deployed before these runs
          BaseRev,     \* its revision
          NoRelease,   \* "none": no release, no running service
          Rev,         \* Rev[p]: the revision run p migrates up to
          Setups       \* the choices of ownsDatabase and rollbackTo

ASSUME StepsAssumption == N = 7
ASSUME RevAssumption == /\ BaseRev \in Nat \ {0}
                        /\ Rev \in [Procs -> Nat \ {0}]
                        /\ Setups \subseteq BOOLEAN \X [Procs -> Nat]
ASSUME ReleaseAssumption ==
    Base \notin Procs /\ NoRelease \notin Procs \cup {Base}

VARIABLES ownsDatabase, \* the migration axis has a database behind it
          rollbackTo, \* rollbackTo[p]: target of a deliberate rollback, or 0
          stage,      \* where run_reporting is, around the saga
          prior,      \* the ledger record each run read before the lock
          staged,     \* the artifact each run fetched
          prevRev,    \* the revision each run found before migrating
          newRev,     \* the revision each run migrated to
          repointed,  \* undo_activate has re-activated, not yet restarted
          active,     \* the release the active link points at
          running,    \* the release the service runs, or NoRelease
          db,         \* the revision of the database
          ledger,     \* the snapshot slot: the last recorded commit
          base,       \* history: what each run found when it took the lock
          alone       \* history: no other run was under way during this one

hostVars  == <<active, running, db>>
localVars == <<prior, staged, prevRev, newRev>>
setupVars == <<ownsDatabase, rollbackTo>>
ownVars   == <<setupVars, stage, localVars, repointed, ledger, base, alone>>
shVars    == <<vars, ownVars, hostVars>>

Preflight == 1
Fetch == 2
Migrate == 3
Activate == 4
Restart == 5
Health == 6
Verify == 7

Record(release, revision) == [active |-> release, revision |-> revision]
Releases == Procs \cup {Base, NoRelease}
Records == [active : Releases, revision : Nat]
Found(release, service, revision) ==
    [active |-> release, running |-> service, db |-> revision]

(* A host before its first deploy, or one that Base was deployed to.       *)
SHInit ==
    /\ Init
    /\ \E s \in Setups : ownsDatabase = s[1] /\ rollbackTo = s[2]
    /\ stage = [p \in Procs |-> "start"]
    /\ staged = [p \in Procs |-> NoRelease]
    /\ prevRev = [p \in Procs |-> 0]
    /\ newRev = [p \in Procs |-> 0]
    /\ repointed = [p \in Procs |-> FALSE]
    /\ \E r \in {NoRelease, Base} :
          /\ active = r
          /\ running = r
          /\ db = IF r = Base /\ ownsDatabase THEN BaseRev ELSE 0
          /\ ledger = Record(r, db)
    /\ prior = [p \in Procs |-> Record(NoRelease, 0)]
    /\ base = [p \in Procs |-> Found(NoRelease, NoRelease, 0)]
    /\ alone = [p \in Procs |-> TRUE]

-----------------------------------------------------------------------------
(* run_reporting(): around the saga.                                       *)

(* run_reporting has returned, or its process died.                        *)
Over(p) ==
    \/ stage[p] \in {"recorded", "unrecorded"}
    \/ pc[p] = "dead"
    \/ pc[p] = "returned" /\ result[p] # "Committed"

Started(p) == stage[p] # "start"

ReadPrior(p) ==
    /\ stage[p] = "start"
    /\ LET underway == {q \in Procs : Started(q) /\ ~Over(q)} IN
       alone' = [q \in Procs |-> alone[q] /\ (underway = {} \/ q \notin underway \cup {p})]
    /\ prior' = [prior EXCEPT ![p] = ledger]
    /\ stage' = [stage EXCEPT ![p] = "saga"]
    /\ UNCHANGED <<vars, hostVars, setupVars, staged, prevRev, newRev, repointed, ledger, base>>

(* Mutant: records the old revision.                                       *)
WriteLedgerOldRevision(p) ==
    /\ stage[p] = "saga"
    /\ pc[p] = "returned" /\ result[p] = "Committed"
    /\ ledger' = Record(staged[p], prevRev[p])
    /\ stage' = [stage EXCEPT ![p] = "recorded"]
    /\ UNCHANGED <<vars, hostVars, setupVars, localVars, repointed, base, alone>>

(* committed_record() and record_snapshot, only after Ok(Committed).       *)
WriteLedger(p) ==
    /\ stage[p] = "saga"
    /\ pc[p] = "returned" /\ result[p] = "Committed"
    /\ ledger' = Record(staged[p], newRev[p])
    /\ stage' = [stage EXCEPT ![p] = "recorded"]
    /\ UNCHANGED <<vars, hostVars, setupVars, localVars, repointed, base, alone>>

(* record_snapshot fails, or the process dies first: the deploy stays live *)
(* and unrecorded.                                                         *)
LedgerLost(p) ==
    /\ stage[p] = "saga"
    /\ pc[p] = "returned" /\ result[p] = "Committed"
    /\ stage' = [stage EXCEPT ![p] = "unrecorded"]
    /\ UNCHANGED <<vars, hostVars, setupVars, localVars, repointed, ledger, base, alone>>

(* The engine's own steps, which touch nothing of the host.                *)
TakeLock(p) ==
    /\ stage[p] = "saga"
    /\ AcquireLock(p)
    /\ base' = [base EXCEPT ![p] = Found(active, running, db)]
    /\ UNCHANGED <<setupVars, stage, localVars, repointed, ledger, alone, hostVars>>

Engine(p) ==
    /\ stage[p] = "saga"
    /\ \/ Locked(p) \/ RecordEvent(p) \/ RecordState(p) \/ ReleaseLock(p)
       \/ AcquireFails(p) \/ StoreFails(p) \/ ReleaseFails(p)
    /\ UNCHANGED <<ownVars, hostVars>>

-----------------------------------------------------------------------------
(* forward(): what each phase does.  At(p, i): run p is in step i, forward. *)

At(p, i) == pc[p] = "forward" /\ to[p].step = i

(* preflight, health and verify change nothing; each may fail.             *)
Inert(p, i) ==
    /\ At(p, i)
    /\ \/ Forward(p)
       \/ ForwardFails(p) /\ UNCHANGED effects
    /\ UNCHANGED <<ownVars, hostVars>>

RunPreflight(p) == Inert(p, Preflight)
RunHealth(p) == Inert(p, Health)
RunVerify(p) == Inert(p, Verify)

RunFetch(p) ==
    /\ At(p, Fetch)
    /\ \/ Forward(p) /\ staged' = [staged EXCEPT ![p] = p]
       \/ ForwardFails(p) /\ UNCHANGED <<effects, staged>>
    /\ UNCHANGED <<setupVars, stage, prior, prevRev, newRev, repointed, ledger, base, alone, hostVars>>

(* Where the database ends when it goes from x to y and the migration      *)
(* fails: where it was, or any revision on the way.                        *)
HalfWay(x, y) == (x .. y) \cup (y .. x)

(* Where run_migrate takes the database: up to the release's revision, or  *)
(* down to the target of a deliberate rollback.                            *)
MigrateTarget(p) ==
    IF ~ownsDatabase THEN db
    ELSE IF rollbackTo[p] # 0 THEN rollbackTo[p]
    ELSE IF Rev[p] > db THEN Rev[p] ELSE db

(* down_to a revision above the current one is refused by the tool.        *)
TargetReachable(p) == rollbackTo[p] # 0 /\ ownsDatabase => rollbackTo[p] <= db

(* The revision a migrated run reports: a deliberate rollback reports its   *)
(* target, also when there is no database to take there.                   *)
MigratedTo(p) == IF rollbackTo[p] # 0 THEN rollbackTo[p] ELSE MigrateTarget(p)

RunMigrate(p) ==
    /\ At(p, Migrate)
    /\ prevRev' = [prevRev EXCEPT ![p] = db]
    /\ \/ /\ Forward(p)
          /\ TargetReachable(p)
          /\ db' = MigrateTarget(p)
          /\ newRev' = [newRev EXCEPT ![p] = MigratedTo(p)]
       \/ /\ ForwardFails(p)
          /\ db' \in IF TargetReachable(p) THEN HalfWay(db, MigrateTarget(p)) ELSE {db}
          /\ (Migrate \in effects'[p]) = (db' # db)
          /\ UNCHANGED newRev
    /\ UNCHANGED <<setupVars, stage, prior, staged, repointed, ledger, base, alone, active, running>>

RunActivate(p) ==
    /\ At(p, Activate)
    /\ \/ Forward(p) /\ active' = staged[p]
       \/ /\ ForwardFails(p)
          /\ active' \in {active, staged[p]}
          /\ (Activate \in effects'[p]) = (active' # active)
    /\ UNCHANGED <<ownVars, running, db>>

(* Mutant: restarts what was running.                                      *)
RunRestartStale(p) ==
    /\ At(p, Restart)
    /\ Forward(p)
    /\ UNCHANGED <<ownVars, hostVars>>

RunRestart(p) ==
    /\ At(p, Restart)
    /\ \/ Forward(p) /\ running' = active
       \/ /\ ForwardFails(p)
          /\ running' \in {running, NoRelease, active}
          /\ (Restart \in effects'[p]) = (running' # running)
    /\ UNCHANGED <<ownVars, active, db>>

-----------------------------------------------------------------------------
(* compensate(): what each phase undoes.                                   *)

Undoing(p, i) == pc[p] = "compensate" /\ to[p].step = i

InertUndo(p) ==
    /\ \E i \in {Preflight, Fetch, Restart, Health, Verify} : Undoing(p, i)
    /\ Compensate(p)
    /\ UNCHANGED <<ownVars, hostVars>>

(* Without a prior revision there is nothing to return to: an error.       *)
UndoMigrate(p) ==
    /\ Undoing(p, Migrate)
    /\ \/ /\ Compensate(p)
          /\ ownsDatabase => prevRev[p] # 0
          /\ db' = IF ownsDatabase THEN prevRev[p] ELSE db
       \/ /\ ownsDatabase
          /\ CompensateFails(p) /\ UNCHANGED effects
          /\ db' \in IF prevRev[p] = 0 THEN {db} ELSE HalfWay(db, prevRev[p])
    /\ UNCHANGED <<ownVars, active, running>>

(* Mutant: restarts without re-activating the prior release.               *)
ReactivateNothing(p) ==
    /\ Undoing(p, Activate) /\ ~repointed[p]
    /\ prior[p].active # NoRelease
    /\ repointed' = [repointed EXCEPT ![p] = TRUE]
    /\ UNCHANGED <<vars, setupVars, stage, localVars, ledger, base, alone, hostVars>>

(* undo_activate(): first the link, then the service.  With no prior       *)
(* release, an error.                                                      *)
Reactivate(p) ==
    /\ Undoing(p, Activate) /\ ~repointed[p]
    /\ prior[p].active # NoRelease
    /\ active' = prior[p].active
    /\ repointed' = [repointed EXCEPT ![p] = TRUE]
    /\ UNCHANGED <<vars, setupVars, stage, localVars, ledger, base, alone, running, db>>

ReactivateFails(p) ==
    /\ Undoing(p, Activate) /\ ~repointed[p]
    /\ CompensateFails(p) /\ UNCHANGED effects
    /\ active' \in {active} \cup ({prior[p].active} \ {NoRelease})
    /\ UNCHANGED <<ownVars, running, db>>

RestartPrior(p) ==
    /\ Undoing(p, Activate) /\ repointed[p]
    /\ \/ Compensate(p) /\ running' = active
       \/ /\ CompensateFails(p) /\ UNCHANGED effects
          /\ running' \in {running, NoRelease, active}
    /\ UNCHANGED <<ownVars, active, db>>

-----------------------------------------------------------------------------
(* The process dies: in the middle of an adapter call, the call may have   *)
(* taken effect.                                                           *)
Die(p) ==
    /\ stage[p] = "saga"
    /\ Crash(p)
    /\ \/ UNCHANGED <<effects, hostVars>>
       \/ /\ At(p, Migrate) /\ TargetReachable(p)
          /\ db' \in HalfWay(db, MigrateTarget(p)) \cup {MigrateTarget(p)}
          /\ effects'[p] = effects[p] \cup {Migrate}
          /\ UNCHANGED <<active, running>>
       \/ /\ At(p, Activate) /\ active' = staged[p]
          /\ effects'[p] = effects[p] \cup {Activate}
          /\ UNCHANGED <<running, db>>
       \/ /\ At(p, Restart) /\ running' \in {active, NoRelease}
          /\ effects'[p] = effects[p] \cup {Restart}
          /\ UNCHANGED <<active, db>>
       \/ /\ Undoing(p, Migrate) /\ ownsDatabase /\ prevRev[p] # 0
          /\ db' \in HalfWay(db, prevRev[p]) \cup {prevRev[p]}
          /\ effects'[p] = effects[p] \ {Migrate}
          /\ UNCHANGED <<active, running>>
       \/ /\ Undoing(p, Activate) /\ repointed[p]
          /\ running' \in {active, NoRelease}
          /\ effects'[p] = effects[p] \ {Activate}
          /\ UNCHANGED <<active, db>>
    /\ UNCHANGED ownVars

Step(p) ==
    \/ ReadPrior(p) \/ TakeLock(p) \/ Engine(p) \/ WriteLedger(p) \/ LedgerLost(p)
    \/ RunPreflight(p) \/ RunHealth(p) \/ RunVerify(p)
    \/ RunFetch(p) \/ RunMigrate(p) \/ RunActivate(p) \/ RunRestart(p)
    \/ InertUndo(p) \/ UndoMigrate(p) \/ Reactivate(p) \/ ReactivateFails(p)
    \/ RestartPrior(p)

AllOver == (\A p \in Procs : Over(p)) /\ UNCHANGED shVars

SHNext == (\E p \in Procs : Step(p) \/ Die(p)) \/ AllOver

SHSpec == SHInit /\ [][SHNext]_shVars

-----------------------------------------------------------------------------
(* Properties.                                                             *)

(* Every variable has its type. *)
SHTypeOK ==
    /\ TypeOK
    /\ ownsDatabase \in BOOLEAN /\ rollbackTo \in [Procs -> Nat]
    /\ alone \in [Procs -> BOOLEAN]
    /\ stage \in [Procs -> {"start", "saga", "recorded", "unrecorded"}]
    /\ prior \in [Procs -> Records]
    /\ staged \in [Procs -> Procs \cup {NoRelease}]
    /\ prevRev \in [Procs -> Nat] /\ newRev \in [Procs -> Nat]
    /\ repointed \in [Procs -> BOOLEAN]
    /\ active \in Releases /\ running \in Releases /\ db \in Nat
    /\ ledger \in Records
    /\ base \in [Procs -> [active : Releases, running : Releases, db : Nat]]

(* A journal that says Committed is the truth about the host, until the    *)
(* next run's first step: the committed release is the active one, the     *)
(* service runs it, and the database, where there is one, is on the        *)
(* revision it migrated to, whatever runs died or failed before.           *)
CommittedIsLive ==
    curState.tag = "Committed" =>
        /\ active = author /\ running = author
        /\ ownsDatabase => db = newRev[author]

(* The deploy of p is under way, or an operator was told that it did not   *)
(* end in order.                                                           *)
Accounted(p) ==
    InFlight(p) \/ pc[p] = "dead" \/ result[p] \in {"Error", "PartialRollback"}

(* A release that did not commit is served only while its deploy is in     *)
(* flight, or after that deploy died, failed or reported a partial         *)
(* rollback: a clean RolledBack or a refusal never leaves it running.  It  *)
(* does not leave the link on it either, unless what failed is activate()  *)
(* itself, which may have moved the link and is not compensated.           *)
UncommittedLiveIsReported ==
    \A p \in Procs : to[p].tag # "Committed" =>
        /\ running = p => Accounted(p)
        /\ active = p => Accounted(p) \/ failed[p] = Activate

(* Every run so far ended in an orderly way: recorded, refused or cleanly  *)
(* rolled back.                                                            *)
Orderly(p) ==
    \/ stage[p] \in {"start", "recorded"}
    \/ pc[p] = "returned" /\ result[p] \in {"Locked", "RolledBack"}

(* "On any step failure the saga compensates the completed steps in        *)
(* reverse, restoring the prior state": after a clean rollback that        *)
(* followed only orderly runs, and in which the link was moved by a        *)
(* completed step if at all, the active release is the one that the run    *)
(* found under the lock.                                                   *)
RollbackRestoresRelease ==
    curState.tag = "RolledBack"
    /\ (\A q \in Procs \ {author} : Orderly(q)) /\ (\A q \in Procs : failed[q] # Activate)
        => active = base[author].active

(* "back at the pre-run baseline" (RolledBack), after any history.  The    *)
(* release is back when the ledger read before the lock named the one that *)
(* the run found under it, and the service runs the active release, unless *)
(* the run found it otherwise.  When the step that failed is the           *)
(* activation, which is not compensated, the link may be on the new        *)
(* release; the service was not touched.  The database is back, unless the *)
(* step that failed is the migration (undo_activate, undo_migrate).        *)
RollbackRestores ==
    curState.tag = "RolledBack" =>
        LET was == base[author] IN
        /\ IF failed[author] = Activate
           THEN active \in {was.active, author} /\ running = was.running
           ELSE /\ prior[author].active = was.active => active = was.active
                /\ was.running = was.active => running = active
        /\ failed[author] # Migrate => db = was.db

(* "The durable record of what a committed deploy made live": when all     *)
(* runs so far were alone and orderly, the ledger names the active release *)
(* and, where there is one, the database's revision, so that the next      *)
(* deploy's rollback target is right.  A migration that failed half way    *)
(* and an activation that failed after the rename are not in it.           *)
LedgerNamesLive ==
    (\A p \in Procs : Orderly(p) /\ alone[p] /\ failed[p] \notin {Migrate, Activate}) =>
        /\ ledger.active = active
        /\ ownsDatabase => ledger.revision = db

(* The baseline is known and is what a rollback comes back to.             *)
BaselineHolds == SHTypeOK /\ RollbackRestores /\ LedgerNamesLive
=============================================================================
