------------------------------ MODULE Refresh -------------------------------
(***************************************************************************)
(* `fraisier db refresh`, `db refresh --clear-flag` and `db                *)
(* mark-refresh-target` (refresh.rs, refresh/{run,units,flag}.rs over      *)
(* fraisier-db's refresh.rs): the database of one environment is replaced  *)
(* by the newest archive of another one while the units that use it are    *)
(* stopped, and the units start again with the outbound flag set.          *)
(*                                                                         *)
(* Every systemctl, psql, pg_restore and file call may fail; a refresh may *)
(* die between any two of them; a deploy, a timer and the other commands   *)
(* run in between.  The deploy lock is a flock: it dies with its holder.   *)
(***************************************************************************)
EXTENDS Naturals, Sequences, FiniteSets

CONSTANTS Refreshes,   \* the invocations of `db refresh`
          Deployer,    \* a deploy of the same fraise and environment
          NoOne,       \* holds no lock
          Listings     \* the tables of contents of the archives

Service == "app.service"      \* the [service] unit
Timer   == "poll.timer"       \* a unit of [refresh].units ...
Job     == "poll.service"     \* ... and the unit it triggers
Units   == {Service, Timer, Job}

ASSUME LockAssumption == Deployer # NoOne /\ {Deployer, NoOne} \cap Refreshes = {}
ASSUME ListingsAssumption ==
    /\ Listings \subseteq SUBSET ({"EXTENSION", "SCHEMA", "TABLE", "TABLE DATA"}
                                \X STRING \X STRING)   \* kind, schema, name
    /\ \A e \in UNION Listings : e[1] = "EXTENSION" => e[2] = "-"

VARIABLES stage,          \* where each refresh is
          running,     \* the units it found running, in the order it stopped them
          queue,        \* the units it has still to stop or to start
          listing,     \* the table of contents of its archive
          failure,     \* why it stopped, and whether the units run again
          before,      \* history: the data when it took the lock
          refreshLock,        \* the holder of the deploy lock
          extra,       \* [refresh].units
          loads,       \* the units whose EnvironmentFile= names the flag
          units,       \* each unit: stopped, or running with or without the flag
          flag,        \* the flag file is there
          database,          \* the target database
          marking,     \* the config whose mark-refresh-target found no marker
          outside,     \* history: units a deploy started on unflagged data
          cleared,     \* history: the flag was cleared since it was written
          overmarked   \* history: a marker was set over another one

runVars  == <<stage, running, queue, listing, failure, before>>
hostVars == <<extra, loads, units, flag>>
histVars == <<outside, cleared, overmarked>>
rfVars == <<runVars, refreshLock, hostVars, database, marking, histVars>>

NoFailure == [step |-> "none", restarted |-> FALSE]
NoArchive == [toc |-> {}, owner |-> FALSE]
FailureAt(step) == [step |-> step, restarted |-> FALSE]

(* The database: data "own" is the environment's, "none" nothing, "raw"    *)
(* what the archive holds or part of it, "migrated" with the migrations    *)
(* run, "ready" counted and sanitized.                                     *)
Database == [there : BOOLEAN, marker : {"none", "mine", "other"}, grant : BOOLEAN,
             data : {"own", "none", "raw", "migrated", "ready"},
             objects : SUBSET UNION Listings]

IsTimer(u) == u = Timer

(* The units in the order they are stopped: timers, services, each kind as *)
(* listed, then [service].                                                 *)
Precedes(names, i, j) ==
    IF IsTimer(names[i]) = IsTimer(names[j]) THEN i < j ELSE IsTimer(names[i])

UnitsToStop(names) ==
    LET order == CHOOSE p \in [DOMAIN names -> DOMAIN names] :
                     \A i, j \in DOMAIN names : i < j => Precedes(names, p[i], p[j])
    IN  Append([i \in DOMAIN names |-> names[order[i]]], Service)

Stopped == UnitsToStop(extra)

(* They start again last stopped first.                                    *)
StartOrder(found) == [i \in 1..Len(found) |-> found[Len(found) - i + 1]]

(* is-active prints exactly "active".                                      *)
Active(u) == units[u] # "stopped"

(* A unit that starts loads the flag file if it names it and it is there;  *)
(* starting a running unit does nothing.                                   *)
StartedAs(u) == IF Active(u) THEN units[u]
                ELSE IF u \in loads /\ flag /\ ~IsTimer(u) THEN "flagged" ELSE "clear"

Goto(r, where) == /\ stage' = [stage EXCEPT ![r] = where]
                  /\ UNCHANGED <<running, queue, listing, failure, before>>

(* Nothing of an invocation outlives it.                                   *)
Finish(r) ==
    /\ stage' = [stage EXCEPT ![r] = "done"]
    /\ running' = [running EXCEPT ![r] = <<>>]
    /\ queue' = [queue EXCEPT ![r] = <<>>]
    /\ listing' = [listing EXCEPT ![r] = NoArchive]
    /\ failure' = [failure EXCEPT ![r] = NoFailure]
    /\ before' = [before EXCEPT ![r] = "own"]

-----------------------------------------------------------------------------
(* Before the lock, refusing with nothing changed.                         *)

(* The config declares production = false, has [refresh] and is valid.     *)
RefuseAsTarget(c) == c.production # "false" \/ ~c.refresh \/ ~c.valid

SystemdService(c) == ~c.hosts /\ c.adapter = "systemd"

Configs == [production : {"undeclared", "true", "false"}, refresh : BOOLEAN,
            valid : BOOLEAN, hosts : BOOLEAN, adapter : {"systemd", "compose"}]

(* An archive that reads back, or could not be checked, of an age within   *)
(* [refresh].max_age_hours and not stamped in the future.                  *)
PickArchive(a) == a.verdict # "invalid" /\ a.age = "fresh"

Archives == [verdict : {"valid", "invalid", "unverifiable"},
             age : {"future", "fresh", "old"}]

(* Every service of the environment loads the flag; a timer is checked     *)
(* through what it triggers.                                               *)
LoadedByEveryUnit ==
    \A i \in 1..Len(Stopped) :
        (IF IsTimer(Stopped[i]) THEN Job ELSE Stopped[i]) \in loads

(* The checks of prepare, then the plan or, with --yes, the lock.  "ok":   *)
(* the sanitize step, the identity, the room, the flag's directory and the *)
(* service's group.                                                        *)
CheckConfig(r) ==
    /\ stage[r] = "start"
    /\ \E c \in Configs, ok \in BOOLEAN :
           IF ~RefuseAsTarget(c) /\ SystemdService(c) /\ LoadedByEveryUnit /\ ok
           THEN Goto(r, "archive") ELSE Finish(r)
    /\ UNCHANGED <<refreshLock, hostVars, database, marking, histVars>>

CheckArchive(r) ==
    /\ stage[r] = "archive"
    /\ \E a \in Archives, execute \in BOOLEAN :
           IF PickArchive(a) /\ execute THEN Goto(r, "lock") ELSE Finish(r)
    /\ UNCHANGED <<refreshLock, hostVars, database, marking, histVars>>

(* A held lock is a refusal, or with --skip-if-locked a quiet skip.        *)
TakeLock(r) ==
    /\ stage[r] = "lock"
    /\ \/ /\ refreshLock = NoOne
          /\ refreshLock' = r
          /\ stage' = [stage EXCEPT ![r] = "isActive"]
          /\ queue' = [queue EXCEPT ![r] = Stopped]
          /\ before' = [before EXCEPT ![r] = database.data]
          /\ UNCHANGED <<running, listing, failure>>
       \/ Finish(r) /\ UNCHANGED refreshLock
    /\ UNCHANGED <<hostVars, database, marking, histVars>>

-----------------------------------------------------------------------------
(* Where the outcomes lead.                                                *)

(* Nothing was changed: start what was running, last stopped first.        *)
Restart(r, step, found) ==
    /\ stage' = [stage EXCEPT ![r] = "restart"]
    /\ failure' = [failure EXCEPT ![r] = [step |-> step, restarted |-> TRUE]]
    /\ queue' = [queue EXCEPT ![r] = StartOrder(found)]
    /\ UNCHANGED <<listing, before>>

FailAtRestarting(r, step) == Restart(r, step, running[r]) /\ UNCHANGED running

(* From the drop on a failure leaves the units stopped.                    *)
FailAt(r, step) ==
    /\ stage' = [stage EXCEPT ![r] = "release"]
    /\ failure' = [failure EXCEPT ![r] = FailureAt(step)]
    /\ UNCHANGED <<running, queue, listing, before>>

StopAgain(r, step) ==
    /\ stage' = [stage EXCEPT ![r] = "stopAgain"]
    /\ failure' = [failure EXCEPT ![r] = FailureAt(step)]
    /\ queue' = [queue EXCEPT ![r] = Stopped]
    /\ UNCHANGED <<running, listing, before>>

refreshUnchanged == UNCHANGED <<extra, loads, marking, outside, overmarked>>

-----------------------------------------------------------------------------
(* stop_all: note whether the next unit runs, then stop it.  An error of   *)
(* either starts the noted ones again.                                     *)
IsActive(r) ==
    /\ stage[r] = "isActive"
    /\ LET u == Head(queue[r]) IN
       \/ /\ running' = [running EXCEPT ![r] =
                            IF Active(u) THEN Append(@, u) ELSE @]
          /\ stage' = [stage EXCEPT ![r] = "stop"]
          /\ UNCHANGED <<queue, listing, failure, before>>
       \/ Restart(r, "stop", running[r]) /\ UNCHANGED running
    /\ UNCHANGED <<refreshLock, units, flag, database, cleared>> /\ refreshUnchanged

Stop(r) ==
    /\ stage[r] = "stop"
    /\ LET u == Head(queue[r]) IN
       \/ /\ units' = [units EXCEPT ![u] = "stopped"]
          /\ queue' = [queue EXCEPT ![r] = Tail(@)]
          /\ stage' = [stage EXCEPT ![r] = IF Len(queue[r]) = 1 THEN "precheck" ELSE "isActive"]
          /\ UNCHANGED <<running, listing, failure, before>>
       \/ /\ units' \in {units, [units EXCEPT ![u] = "stopped"]}
          /\ Restart(r, "stop", running[r])
          /\ UNCHANGED running
    /\ UNCHANGED <<refreshLock, flag, database, cleared>> /\ refreshUnchanged

(* restart: one start that fails and the units do not "run again".         *)
RestartUnitHopeful(r) ==
    /\ stage[r] = "restart"
    /\ IF queue[r] = <<>>
       THEN stage' = [stage EXCEPT ![r] = "release"] /\ UNCHANGED <<queue, failure, units>>
       ELSE /\ queue' = [queue EXCEPT ![r] = Tail(@)]
            /\ \/ /\ units' = [units EXCEPT ![Head(queue[r])] = StartedAs(Head(queue[r]))]
                  /\ UNCHANGED failure
               \/ UNCHANGED <<failure, units>>
            /\ UNCHANGED stage
    /\ UNCHANGED <<running, listing, before, refreshLock, flag, database, cleared>> /\ refreshUnchanged

RestartUnit(r) ==
    /\ stage[r] = "restart"
    /\ IF queue[r] = <<>>
       THEN stage' = [stage EXCEPT ![r] = "release"] /\ UNCHANGED <<queue, failure, units>>
       ELSE /\ queue' = [queue EXCEPT ![r] = Tail(@)]
            /\ \/ /\ units' = [units EXCEPT ![Head(queue[r])] = StartedAs(Head(queue[r]))]
                  /\ UNCHANGED failure
               \/ failure' = [failure EXCEPT ![r].restarted = FALSE] /\ UNCHANGED units
            /\ UNCHANGED stage
    /\ UNCHANGED <<running, listing, before, refreshLock, flag, database, cleared>> /\ refreshUnchanged

-----------------------------------------------------------------------------
(* refresh_in_place.  What CREATE EXTENSION makes: the extension and, here *)
(* for each one, a schema of its name (external).                          *)
ArchiveExtensions(l) == {e[3] : e \in {e \in l : e[1] = "EXTENSION"}}
Made(extensions) == {<<"EXTENSION", "-", x>> : x \in extensions}
                    \cup {<<"SCHEMA", "-", x>> : x \in extensions}

(* Rows with no table entry of their own are rows of an extension's table. *)
SplitListing(l, existing) ==
    LET rows == {e \in l : e[1] = "TABLE DATA" /\ <<"TABLE", e[2], e[3]>> \notin l}
        kept == {e \in l : e[1] # "EXTENSION"}
    IN  [app |-> kept \ (existing \cup rows),
         extensionData |-> rows,
         madeSchemas |-> {e[3] : e \in {e \in kept \cap existing : e[1] = "SCHEMA"}}]

Lists(r) == SplitListing(listing[r].toc, database.objects)

(* The extensions exist on the server and the restorer may create them.    *)
ExtensionsProblem(l, superuser, server) ==
    ~(ArchiveExtensions(l) \subseteq server) \/ (ArchiveExtensions(l) # {} /\ ~superuser)

(* PostgreSQL 15 asks for the privilege to set the marker again.           *)
MarkerPrivilegeProblem(since15, granted) == since15 /\ ~granted

(* What can refuse before the drop, up to the marker; "admin" is the       *)
(* restoring identity's superuser DSN, "ok" that the queries answer.       *)
Precheck(r) ==
    /\ stage[r] = "precheck"
    /\ \E l \in Listings, admin, ok, since15, granted \in BOOLEAN,
          server \in SUBSET ArchiveExtensions(UNION Listings) :
       IF \/ ~ok \/ ExtensionsProblem(l, admin, server)
          \/ SplitListing(l, {}).extensionData # {} /\ ~admin
          \/ MarkerPrivilegeProblem(since15, granted)
       THEN Restart(r, "refresh", running[r]) /\ UNCHANGED running
       ELSE /\ stage' = [stage EXCEPT ![r] = "marker"]
            /\ listing' = [listing EXCEPT ![r] = [toc |-> l, owner |-> admin]]
            /\ UNCHANGED <<running, queue, failure, before>>
    /\ UNCHANGED <<refreshLock, units, flag, database, cleared>> /\ refreshUnchanged

(* marked_and_idle, two queries: the marker, then the sessions.  A running *)
(* unit may hold one; anyone else may.                                     *)
ReadMarkerOrNone(r) ==
    /\ stage[r] = "marker"
    /\ \/ database.there /\ database.marker # "other" /\ Goto(r, "sessions")
       \/ Restart(r, "refresh", running[r]) /\ UNCHANGED running
    /\ UNCHANGED <<refreshLock, units, flag, database, cleared>> /\ refreshUnchanged

ReadMarker(r) ==
    /\ stage[r] = "marker"
    /\ \/ database.there /\ database.marker = "mine" /\ Goto(r, "sessions")
       \/ Restart(r, "refresh", running[r]) /\ UNCHANGED running
    /\ UNCHANGED <<refreshLock, units, flag, database, cleared>> /\ refreshUnchanged

ReadSessions(r) ==
    /\ stage[r] = "sessions"
    /\ \/ Goto(r, "drop")
       \/ Restart(r, "refresh", running[r]) /\ UNCHANGED running
    /\ UNCHANGED <<refreshLock, units, flag, database, cleared>> /\ refreshUnchanged

(* A step of the refresh that makes the database next, or fails leaving it *)
(* in one of partly.                                                       *)
DbStep(r, at, next, made, step, partly) ==
    /\ stage[r] = at
    /\ \/ database' = made /\ Goto(r, next)
       \/ database' \in partly /\ FailAt(r, step)
    /\ UNCHANGED <<refreshLock, units, flag, cleared>> /\ refreshUnchanged

Gone == [there |-> FALSE, marker |-> "none", grant |-> FALSE, data |-> "none",
         objects |-> {}]

Drop(r) == DbStep(r, "drop", "create", Gone, "restore", {database})

Create(r) == DbStep(r, "create", "mark", [Gone EXCEPT !.there = TRUE], "restore", {database})

SetMarker(r) == DbStep(r, "mark", "extensions", [database EXCEPT !.marker = "mine"],
                       "restore", {database})

CreateExtensions(r) ==
    DbStep(r, "extensions", "objects",
           [database EXCEPT !.objects = Made(ArchiveExtensions(listing[r].toc))],
           "restore", {database})

(* The app role, when the admin restores for it, reaches the schemas an    *)
(* extension made and the archive puts objects in.                         *)
Reached(r) == IF ~listing[r].owner THEN {}
              ELSE {s \in Lists(r).madeSchemas : \E e \in Lists(r).app : e[2] = s}

(* GRANT, pg_restore of the objects, then REVOKE whatever it did.          *)
RestoreObjects(r) ==
    LET granted == [database EXCEPT !.data = "raw", !.grant = Reached(r) # {}]
        restored == [granted EXCEPT !.objects = @ \cup Lists(r).app]
    IN  /\ stage[r] = "objects"
        /\ \/ database' = restored /\ Goto(r, "revoke")
           \/ database' = granted /\ Goto(r, "revokeFailed")
        /\ UNCHANGED <<refreshLock, units, flag, cleared>> /\ refreshUnchanged

Revoke(r) ==
    /\ stage[r] \in {"revoke", "revokeFailed"}
    /\ \/ database' = [database EXCEPT !.grant = FALSE] /\ stage[r] = "revoke" /\ Goto(r, "rows")
       \/ database' = [database EXCEPT !.grant = FALSE] /\ stage[r] = "revokeFailed" /\ FailAt(r, "restore")
       \/ UNCHANGED database /\ database.grant /\ FailAt(r, "restore")
    /\ UNCHANGED <<refreshLock, units, flag, cleared>> /\ refreshUnchanged

(* The extensions' rows, as the admin, then the TVIEW rebuild.             *)
RestoreRows(r) ==
    DbStep(r, "rows", "migrate", [database EXCEPT !.objects = @ \cup Lists(r).extensionData],
           "restore", {database, [database EXCEPT !.objects = @ \cup Lists(r).extensionData]})

-----------------------------------------------------------------------------
(* Up, then the ledger: the second may fail alone.                         *)
Migrate(r) == DbStep(r, "migrate", "tables", [database EXCEPT !.data = "migrated"],
                     "migrate", {database, [database EXCEPT !.data = "migrated"]})

(* Fewer tables than [refresh].min_tables (0 when it is not set).          *)
CountTables(r) ==
    /\ stage[r] = "tables"
    /\ \E tables, minTables \in 0..2, ok \in BOOLEAN :
           IF ok /\ tables >= minTables THEN Goto(r, "sanitize") ELSE FailAt(r, "tables")
    /\ UNCHANGED <<refreshLock, units, flag, database, cleared>> /\ refreshUnchanged

(* The script of [refresh].sanitize, or its declared absence.              *)
Sanitize(r) == DbStep(r, "sanitize", "flag", [database EXCEPT !.data = "ready"],
                      "sanitize", {database})

(* start_flagged: write the flag, start what was running, prove it.        *)
WriteFlag(r) ==
    /\ stage[r] = "flag"
    /\ \/ /\ flag' = TRUE /\ cleared' = FALSE
          /\ stage' = [stage EXCEPT ![r] = "startUnits"]
          /\ queue' = [queue EXCEPT ![r] = StartOrder(running[r])]
          /\ UNCHANGED <<running, listing, failure, before>>
       \/ UNCHANGED <<flag, cleared>> /\ FailAt(r, "outbound flag")
    /\ UNCHANGED <<refreshLock, units, database>> /\ refreshUnchanged

StartUnit(r) ==
    /\ stage[r] = "startUnits"
    /\ IF queue[r] = <<>> THEN Goto(r, "prove") /\ UNCHANGED units
       ELSE \/ /\ units' = [units EXCEPT ![Head(queue[r])] = StartedAs(Head(queue[r]))]
               /\ queue' = [queue EXCEPT ![r] = Tail(@)]
               /\ UNCHANGED <<stage, running, listing, failure, before>>
            \/ UNCHANGED units /\ StopAgain(r, "start")
    /\ UNCHANGED <<refreshLock, flag, database, cleared>> /\ refreshUnchanged

(* Each started service's own environment has the flag; one that has no    *)
(* main process, or cannot be read, is no proof.                           *)
Proved(r) == \A i \in 1..Len(running[r]) :
                 ~IsTimer(running[r][i]) => units[running[r][i]] = "flagged"

Prove(r) ==
    /\ stage[r] = "prove"
    /\ \/ Proved(r) /\ Goto(r, "release")
       \/ StopAgain(r, "outbound flag")
    /\ UNCHANGED <<refreshLock, units, flag, database, cleared>> /\ refreshUnchanged

StopUnitAgain(r) ==
    /\ stage[r] = "stopAgain"
    /\ IF queue[r] = <<>> THEN Goto(r, "release") /\ UNCHANGED units
       ELSE /\ units' \in {units, [units EXCEPT ![Head(queue[r])] = "stopped"]}
            /\ queue' = [queue EXCEPT ![r] = Tail(@)]
            /\ UNCHANGED <<stage, running, listing, failure, before>>
    /\ UNCHANGED <<refreshLock, flag, database, cleared>> /\ refreshUnchanged

(* What the output and the receipt say became of the units.                *)
UnitsReport(r) == IF failure[r] = NoFailure THEN "started"
                  ELSE IF failure[r].restarted THEN "restarted" ELSE "left stopped"

(* The lock goes back, then the report is written.                         *)
Release(r) ==
    /\ stage[r] = "release" /\ refreshLock = r
    /\ refreshLock' = NoOne /\ Finish(r)
    /\ UNCHANGED <<units, flag, database, cleared>> /\ refreshUnchanged

(* The process dies; the kernel releases its lock.                         *)
Crash(r) ==
    /\ stage[r] \notin {"start", "done"}
    /\ Finish(r)
    /\ refreshLock' = IF refreshLock = r THEN NoOne ELSE refreshLock
    /\ UNCHANGED <<units, flag, database, cleared>> /\ refreshUnchanged

-----------------------------------------------------------------------------
(* Around the refreshes.                                                   *)

(* A deploy under the same lock restarts the service, whatever the data.   *)
DeployTakesLock ==
    /\ refreshLock = NoOne /\ refreshLock' = Deployer
    /\ UNCHANGED <<runVars, hostVars, database, marking, histVars>>

DeployRestarts ==
    /\ refreshLock = Deployer
    /\ units' = [units EXCEPT ![Service] =
                     IF Service \in loads /\ flag THEN "flagged" ELSE "clear"]
    /\ outside' = IF database.data = "own" \/ (database.data = "ready" /\ flag) THEN outside
                  ELSE outside \cup {Service}
    /\ UNCHANGED <<runVars, refreshLock, extra, loads, flag, database, marking, cleared, overmarked>>

RestartingDeployEnds ==
    /\ refreshLock = Deployer /\ refreshLock' = NoOne
    /\ UNCHANGED <<runVars, hostVars, database, marking, histVars>>

(* systemd: a running timer starts its unit; a job ends.                   *)
ListedTimerFires ==
    /\ units[Timer] # "stopped" /\ units[Job] = "stopped"
    /\ units' = [units EXCEPT ![Job] = StartedAs(Job)]
    /\ UNCHANGED <<runVars, refreshLock, extra, loads, flag, database, marking, histVars>>

JobEnds ==
    /\ units[Job] # "stopped"
    /\ units' = [units EXCEPT ![Job] = "stopped"]
    /\ UNCHANGED <<runVars, refreshLock, extra, loads, flag, database, marking, histVars>>

(* `db refresh --clear-flag` takes no lock.                                *)
ClearFlag ==
    /\ flag
    /\ flag' = FALSE /\ cleared' = TRUE
    /\ UNCHANGED <<runVars, refreshLock, extra, loads, units, database, marking, outside, overmarked>>

(* `db mark-refresh-target` takes none either, and reads before it writes; *)
(* one invocation.                                                         *)
MarkReads(c) ==
    /\ marking = "idle" /\ database.there /\ database.marker = "none"
    /\ marking' = c
    /\ UNCHANGED <<runVars, refreshLock, hostVars, database, histVars>>

MarkSets ==
    /\ marking \in {"mine", "other"} /\ marking' = "over"
    /\ \/ /\ database.there
          /\ database' = [database EXCEPT !.marker = marking]
          /\ overmarked' = (overmarked \/ database.marker \notin {"none", marking})
       \/ UNCHANGED <<database, overmarked>>
    /\ UNCHANGED <<runVars, refreshLock, hostVars, outside, cleared>>

-----------------------------------------------------------------------------
RFInit ==
    /\ stage = [r \in Refreshes |-> "start"]
    /\ running = [r \in Refreshes |-> <<>>]
    /\ queue = [r \in Refreshes |-> <<>>]
    /\ listing = [r \in Refreshes |-> NoArchive]
    /\ failure = [r \in Refreshes |-> NoFailure]
    /\ before = [r \in Refreshes |-> "own"]
    /\ refreshLock = NoOne
    /\ extra \in {<<Timer>>, <<Job, Timer>>}
    /\ loads \in {{Service}, {Service, Job}}
    /\ units = [u \in Units |-> IF u = Job THEN "stopped" ELSE "clear"]
    /\ flag = FALSE
    /\ database \in {d \in Database : d.there /\ d.marker # "other" /\ ~d.grant
                                     /\ d.data = "own" /\ d.objects = {}}
    /\ marking = "idle"
    /\ outside = {} /\ cleared = FALSE /\ overmarked = FALSE

RefreshStep(r) ==
    \/ CheckConfig(r) \/ CheckArchive(r) \/ TakeLock(r) \/ IsActive(r) \/ Stop(r) \/ RestartUnit(r)
    \/ Precheck(r) \/ ReadMarker(r) \/ ReadSessions(r) \/ Drop(r) \/ Create(r)
    \/ SetMarker(r) \/ CreateExtensions(r) \/ RestoreObjects(r) \/ Revoke(r)
    \/ RestoreRows(r) \/ Migrate(r) \/ CountTables(r) \/ Sanitize(r) \/ WriteFlag(r)
    \/ StartUnit(r) \/ Prove(r) \/ StopUnitAgain(r) \/ Release(r) \/ Crash(r)

RFNext ==
    \/ \E r \in Refreshes : RefreshStep(r)
    \/ DeployTakesLock \/ DeployRestarts \/ RestartingDeployEnds
    \/ ListedTimerFires \/ JobEnds \/ ClearFlag
    \/ \E c \in {"mine", "other"} : MarkReads(c)
    \/ MarkSets

RFSpec == RFInit /\ [][RFNext]_rfVars

-----------------------------------------------------------------------------
ListedUnits == {Stopped[i] : i \in 1..Len(Stopped)}

(* While the database holds anything but the environment's own or          *)
(* sanitized data, no unit of the environment runs, unless a deploy        *)
(* started it: a failure from the drop on, or a crash, leaves the units    *)
(* stopped, and a later refusal starts none (run_locked, restart).         *)
RawDataUnreached ==
    database.data \notin {"own", "ready"} =>
        \A u \in ListedUnits \ outside : units[u] = "stopped"

(* On refreshed data every service of the environment runs with the        *)
(* outbound flag until the flag is cleared, and only a restored, revoked   *)
(* and whole copy of an archive gets that far (start_flagged).             *)
FlaggedOnRefreshedData ==
    database.data = "ready" =>
        /\ \E l \in Listings : l \subseteq database.objects
        /\ ~database.grant
        /\ cleared \/ \A u \in ListedUnits \ (outside \cup {Timer}) : units[u] # "clear"

(* A refresh that reports its units restarted changed no data, and every   *)
(* unit it stopped runs again but a job that ended by itself (restart,     *)
(* RestoreError::Refused).                                                 *)
RefusalRestores ==
    \A r \in Refreshes :
        stage[r] = "release" /\ UnitsReport(r) = "restarted" =>
            /\ database.data = before[r]
            /\ \A i \in 1..Len(running[r]) :
                   running[r][i] = Job \/ units[running[r][i]] # "stopped"

(* A refresh drops a database only while it carries this environment's     *)
(* marker, unless a mark-refresh-target that had read no marker set        *)
(* another one over it (marked_and_idle).                                  *)
DropsOnlyMarked ==
    [][database.there /\ ~database'.there => database.marker = "mine" \/ overmarked]_rfVars

(* No unit meets data it must not see: raw, without the flag, or half way  *)
(* through a refresh that claims to have changed nothing.                  *)
UnitsSeeSafeData == RawDataUnreached /\ FlaggedOnRefreshedData /\ RefusalRestores
=============================================================================
