------------------------------ MODULE Archives ------------------------------
(***************************************************************************)
(* The archives of [backup].dir: backups that write them, the retention    *)
(* prune that removes them, the drill that restores the newest one into a  *)
(* throwaway, and a deploy whose rehearsal restores one.  A backup and a   *)
(* drill take no lock; a prune and a deploy share the deploy lock.         *)
(***************************************************************************)
EXTENDS Integers, SequencesExt

CONSTANTS Dumpers,       \* backup processes
          MaxTime,       \* bound on the clock, which stamps the archives
          DrillTime,     \* the same beside a drill
          Policies,      \* the [[backup.retain]] entries a prune may be given
          MaxAge,        \* [drill].max_age_hours
          Skew,          \* DRILL_CLOCK_SKEW
          MinTables,     \* [drill].min_tables
          RewindClock    \* whether the host's clock may be set back

ASSUME ArchivesAssumption ==
    /\ MaxTime \in Nat \ {0} /\ DrillTime \in 1..MaxTime /\ MinTables \in Nat
    /\ MaxAge \in Nat /\ Skew \in Nat

VARIABLES cast,          \* who runs beside the prune: two backups and a deploy, or one and a drill
          now,
          dir,           \* the archive under each stamp's final name
          partials,      \* stamps whose .partial file exists
          reader,        \* pg_restore runs on this host and is not too old
          backup,        \* each backup's progress
          prune,
          drill,
          copy,          \* the drill's throwaway database
          receipt,       \* <state_dir>/drills/<fraise>-<environment>.json
          deploy,
          hostLock

archVars == <<cast, now, dir, partials, reader, backup, prune, drill, copy, receipt, deploy, hostLock>>

Stamps == 1..MaxTime
Sizes  == {1, 3}

NoFile    == [size |-> 0, whole |-> FALSE, fit |-> FALSE, bad |-> FALSE]
NoBackup  == [at |-> "idle", stamp |-> 0, prev |-> 0, file |-> NoFile]
NoPrune   == [at |-> "idle", todo |-> {}, floor |-> 0]
NoDrill   == [at |-> "idle", pick |-> 0, began |-> 0, failed |-> FALSE, warn |-> FALSE]
NoCopy    == [made |-> FALSE, from |-> 0, tables |-> 0, migrated |-> FALSE]
NoReceipt == [ok |-> FALSE, pick |-> 0, began |-> 0, warn |-> FALSE, of |-> NoCopy]
NoDeploy  == [at |-> "idle", pick |-> 0]

ArchInit ==
    /\ cast \in {"deploy", "drill"}
    /\ now = 1 /\ dir = [s \in Stamps |-> NoFile] /\ partials = {}
    /\ reader \in BOOLEAN
    /\ backup = [b \in Dumpers |-> NoBackup]
    /\ prune = NoPrune /\ drill = NoDrill /\ copy = NoCopy
    /\ receipt = NoReceipt /\ deploy = NoDeploy /\ hostLock = "free"

-----------------------------------------------------------------------------
(* list_archives and latest_archive: only final names, newest stamp last.  *)
Listed == {s \in Stamps : dir[s].size > 0}
Latest == IF Listed = {} THEN 0 ELSE Max(Listed)

(* verify_archive: a missing or too old pg_restore, or a missing file,     *)
(* says nothing about the archive.                                         *)
Verdict(file) ==
    IF ~reader \/ file.size = 0 THEN "unverifiable"
    ELSE IF file.fit THEN "valid" ELSE "invalid"

-----------------------------------------------------------------------------
(* write_archive: the claim of the partial file, and the two refusals that *)
(* depend on it.                                                           *)
Claim(b) ==
    /\ backup[b].at = "idle"
    /\ cast = "drill" => \A c \in Dumpers : backup[c].at = "idle"
    /\ now \notin partials /\ dir[now].size = 0
    /\ partials' = partials \cup {now}
    /\ backup' = [backup EXCEPT ![b] = [NoBackup EXCEPT !.at = "dump", !.stamp = now, !.prev = Latest]]
    /\ UNCHANGED <<cast, now, dir, reader, prune, drill, copy, receipt, deploy, hostLock>>

(* Every error return drops the partial file it claimed.                   *)
GiveUp(b) ==
    /\ partials' = partials \ {backup[b].stamp}
    /\ backup' = [backup EXCEPT ![b] = NoBackup]

DumpUnchecked(b, file) ==
    /\ backup[b].at = "dump"
    /\ backup' = [backup EXCEPT ![b].at = "verify", ![b].file = file]
    /\ UNCHANGED <<cast, partials, now, dir, reader, prune, drill, copy, receipt, deploy, hostLock>>

(* pg_dump writes into the partial file; a dump that exits 0 is whole.     *)
Dump(b, file) ==
    /\ backup[b].at = "dump"
    /\ IF file.whole
       THEN /\ backup' = [backup EXCEPT ![b].at = "verify", ![b].file = file]
            /\ UNCHANGED partials
       ELSE GiveUp(b)
    /\ UNCHANGED <<cast, now, dir, reader, prune, drill, copy, receipt, deploy, hostLock>>

VerifyDump(b) ==
    /\ backup[b].at = "verify"
    /\ IF Verdict(backup[b].file) = "invalid"
       THEN GiveUp(b)
       ELSE /\ backup' = [backup EXCEPT ![b].at = "persist", ![b].file.bad = reader /\ ~backup[b].file.fit]
            /\ UNCHANGED partials
    /\ UNCHANGED <<cast, now, dir, reader, prune, drill, copy, receipt, deploy, hostLock>>

(* The size check against the archive that was newest at the claim - gone  *)
(* by now is an error too - then flush and rename.                         *)
Persist(b) ==
    LET me == backup[b]
    IN /\ me.at = "persist"
       /\ IF me.prev # 0 /\ (dir[me.prev].size = 0 \/ me.file.size * 2 < dir[me.prev].size)
          THEN UNCHANGED dir
          ELSE dir' = [dir EXCEPT ![me.stamp] = me.file]
       /\ GiveUp(b)
       /\ UNCHANGED <<cast, now, reader, prune, drill, copy, receipt, deploy, hostLock>>

Stale == partials \ {backup[b].stamp : b \in Dumpers}

(* A killed backup runs no destructor: its partial file stays.             *)
BackupDies(b) ==
    /\ backup[b].at # "idle" /\ Stale = {}
    /\ backup' = [backup EXCEPT ![b] = NoBackup]
    /\ UNCHANGED <<cast, now, dir, partials, reader, prune, drill, copy, receipt, deploy, hostLock>>

-----------------------------------------------------------------------------
PlanFloorShort(acc, s, pol, cutoff, verdict) ==
    LET over   == pol.last # 0 /\ acc.slots >= pol.last
        within == s >= cutoff
        floor  == ~over /\ ~within /\ acc.slots + 1 < pol.minimum /\ verdict[s] # "invalid"
    IN IF (within /\ ~over) \/ floor
       THEN [acc EXCEPT !.slots = @ + 1]
       ELSE [acc EXCEPT !.remove = @ \cup {s}]

PlanDropsUnreadable(acc, s, pol, cutoff, verdict) ==
    LET over   == pol.last # 0 /\ acc.slots >= pol.last
        within == s >= cutoff
    IN IF ~over /\ (within \/ acc.slots < pol.minimum) /\ verdict[s] # "invalid"
       THEN [acc EXCEPT !.slots = @ + 1]
       ELSE [acc EXCEPT !.remove = @ \cup {s}]

(* retention::plan over the candidates, newest first.  Slots are spent by  *)
(* what is kept; an archive that does not read back gives its slot up.     *)
PlanOne(acc, s, pol, cutoff, verdict) ==
    LET over   == pol.last # 0 /\ acc.slots >= pol.last
        within == s >= cutoff
        floor  == ~over /\ ~within /\ acc.slots < pol.minimum /\ verdict[s] # "invalid"
    IN IF (within /\ ~over) \/ floor
       THEN [acc EXCEPT !.slots = @ + 1]
       ELSE [acc EXCEPT !.remove = @ \cup {s}]

Plan(corpus, pol, cutoff, verdict) ==
    FoldLeft(LAMBDA acc, s : PlanOne(acc, s, pol, cutoff, verdict),
             [slots |-> 0, remove |-> {}],
             SetToSortSeq(corpus, LAMBDA a, c : a > c))

Verdicts == [s \in Stamps |-> Verdict(dir[s])]
Cutoff(pol) == now - pol.retention

PruneLocksAnyway ==
    /\ prune.at = "idle"
    /\ hostLock' = hostLock /\ prune' = [NoPrune EXCEPT !.at = "plan"]
    /\ UNCHANGED <<cast, now, dir, partials, reader, backup, drill, copy, receipt, deploy>>

(* backup_prune under the deploy lock; without --apply nothing is removed. *)
PruneLocks ==
    /\ prune.at = "idle" /\ hostLock = "free"
    /\ hostLock' = "prune" /\ prune' = [NoPrune EXCEPT !.at = "plan"]
    /\ UNCHANGED <<cast, now, dir, partials, reader, backup, drill, copy, receipt, deploy>>

(* prune_entry: Policy::new, the corpus and the plan.                      *)
PlanEntry(pol) ==
    /\ prune.at = "plan"
    /\ pol.last = 0 \/ pol.last >= pol.minimum
    /\ prune' = [at |-> "remove", floor |-> pol.minimum,
                 todo |-> Plan(Listed, pol, Cutoff(pol), Verdicts).remove]
    /\ UNCHANGED <<cast, now, dir, partials, reader, backup, drill, copy, receipt, deploy, hostLock>>

(* retention::remove, one file at a time; a file may stay in place.        *)
RemoveOne(s, gone) ==
    /\ prune.at = "remove" /\ s \in prune.todo
    /\ prune' = [prune EXCEPT !.todo = @ \ {s}]
    /\ dir' = IF gone THEN [dir EXCEPT ![s] = NoFile] ELSE dir
    /\ UNCHANGED <<cast, now, partials, reader, backup, drill, copy, receipt, deploy, hostLock>>

(* The next entry, or the end; a killed prune gives the lock up as well.   *)
PruneEnds ==
    /\ prune.at # "idle"
    /\ prune' = NoPrune
    /\ hostLock' = IF hostLock = "prune" THEN "free" ELSE hostLock
    /\ UNCHANGED <<cast, now, dir, partials, reader, backup, drill, copy, receipt, deploy>>

-----------------------------------------------------------------------------
(* A deploy holds the lock while its rehearsal restores its archive.       *)
DeployLocks(s) ==
    /\ cast = "deploy" /\ deploy.at = "idle" /\ hostLock = "free" /\ s \in Listed
    /\ hostLock' = "deploy" /\ deploy' = [at |-> "rehearse", pick |-> s]
    /\ UNCHANGED <<cast, now, dir, partials, reader, backup, prune, drill, copy, receipt>>

DeployEnds ==
    /\ deploy.at = "rehearse"
    /\ hostLock' = "free" /\ deploy' = NoDeploy
    /\ UNCHANGED <<cast, now, dir, partials, reader, backup, prune, drill, copy, receipt>>

-----------------------------------------------------------------------------
(* drill_steps: the newest archive, verified, then its age.  A stamp ahead *)
(* of the clock by more than the skew has no age.                          *)
Pick ==
    /\ cast = "drill" /\ drill.at = "idle"
    /\ drill' = [NoDrill EXCEPT !.at = IF Listed = {} THEN "report" ELSE "verify",
                                !.pick = Latest, !.began = now, !.failed = Listed = {}]
    /\ UNCHANGED <<cast, now, dir, partials, reader, backup, prune, copy, receipt, deploy, hostLock>>

TooOld(s, t)  == t - s > MaxAge
InFuture(s, t) == s - t > Skew

DrillRefuses(d) == Verdict(dir[d.pick]) = "invalid" \/ InFuture(d.pick, d.began) \/ TooOld(d.pick, d.began)

CheckPick ==
    /\ drill.at = "verify"
    /\ drill' = IF DrillRefuses(drill)
                THEN [drill EXCEPT !.at = "report", !.failed = TRUE]
                ELSE [drill EXCEPT !.at = "room"]
    /\ UNCHANGED <<cast, now, dir, partials, reader, backup, prune, copy, receipt, deploy, hostLock>>

(* drill_room, then restore_copy: precheck, CREATE DATABASE, pg_restore    *)
(* and the TVIEW rebuild.  A copy that fails to fill is dropped again, at  *)
(* best effort.                                                            *)
RoomAndCreate(ok) ==
    /\ drill.at = "room"
    /\ IF ok /\ Verdict(dir[drill.pick]) = "valid"
       THEN /\ drill' = [drill EXCEPT !.at = "fill"]
            /\ copy' = [NoCopy EXCEPT !.made = TRUE]
       ELSE /\ drill' = [drill EXCEPT !.at = "report", !.failed = TRUE]
            /\ UNCHANGED copy
    /\ UNCHANGED <<cast, now, dir, partials, reader, backup, prune, receipt, deploy, hostLock>>

Fill(ok, tables) ==
    /\ drill.at = "fill"
    /\ IF ok /\ Verdict(dir[drill.pick]) = "valid"
       THEN /\ drill' = [drill EXCEPT !.at = "migrate"]
            /\ copy' = [copy EXCEPT !.from = drill.pick, !.tables = tables]
       ELSE /\ drill' = [drill EXCEPT !.at = "teardown", !.failed = TRUE]
            /\ UNCHANGED copy
    /\ UNCHANGED <<cast, now, dir, partials, reader, backup, prune, receipt, deploy, hostLock>>

MigrateCopyUncounted(ok) ==
    /\ drill.at = "migrate"
    /\ copy' = [copy EXCEPT !.migrated = ok]
    /\ drill' = [drill EXCEPT !.at = "teardown", !.failed = ~ok]
    /\ UNCHANGED <<cast, now, dir, partials, reader, backup, prune, receipt, deploy, hostLock>>

(* run_restore_drill: migrations, then the table count.                    *)
MigrateCopy(ok) ==
    /\ drill.at = "migrate"
    /\ copy' = [copy EXCEPT !.migrated = ok]
    /\ drill' = [drill EXCEPT !.at = "teardown", !.failed = ~ok \/ copy.tables < MinTables]
    /\ UNCHANGED <<cast, now, dir, partials, reader, backup, prune, receipt, deploy, hostLock>>

(* The throwaway is dropped whatever was found; a failed drop is a warning *)
(* of a passing drill only.                                                *)
Teardown(dropped) ==
    /\ drill.at = "teardown"
    /\ copy' = [copy EXCEPT !.made = ~dropped]
    /\ drill' = [drill EXCEPT !.at = "report", !.warn = ~dropped /\ ~drill.failed]
    /\ UNCHANGED <<cast, now, dir, partials, reader, backup, prune, receipt, deploy, hostLock>>

(* write_drill_receipt replaces the receipt at once, pass or fail; failing *)
(* to write it is only a warning on the console.                           *)
Report(written) ==
    /\ drill.at = "report"
    /\ drill' = [NoDrill EXCEPT !.at = "done"]
    /\ receipt' = IF written
                  THEN [ok |-> ~drill.failed, pick |-> drill.pick, began |-> drill.began,
                        warn |-> drill.warn, of |-> copy]
                  ELSE receipt
    /\ copy' = NoCopy
    /\ UNCHANGED <<cast, now, dir, partials, reader, backup, prune, deploy, hostLock>>

(* A killed drill leaves its throwaway and the previous receipt.           *)
DrillDies ==
    /\ drill.at \notin {"idle", "done"}
    /\ drill' = [NoDrill EXCEPT !.at = "done"] /\ copy' = NoCopy
    /\ UNCHANGED <<cast, now, dir, partials, reader, backup, prune, receipt, deploy, hostLock>>

-----------------------------------------------------------------------------
(* The world: time, a clock set back, a pg_restore installed, an archive   *)
(* that no longer reads back.                                              *)
Tick ==
    /\ now < (IF cast = "drill" THEN DrillTime ELSE MaxTime) /\ now' = now + 1
    /\ UNCHANGED <<cast, dir, partials, reader, backup, prune, drill, copy, receipt, deploy, hostLock>>

ClockSetBack ==
    /\ RewindClock /\ cast = "drill" /\ now = DrillTime /\ now' = 1
    /\ UNCHANGED <<cast, dir, partials, reader, backup, prune, drill, copy, receipt, deploy, hostLock>>

ReaderInstalled ==
    /\ ~reader /\ reader' = TRUE
    /\ UNCHANGED <<cast, now, dir, partials, backup, prune, drill, copy, receipt, deploy, hostLock>>

Rots(s) ==
    /\ s \in Listed /\ dir[s].fit /\ prune.at = "idle"
    /\ dir' = [dir EXCEPT ![s].fit = FALSE]
    /\ UNCHANGED <<cast, now, partials, reader, backup, prune, drill, copy, receipt, deploy, hostLock>>

Files == {f \in [size : IF cast = "drill" THEN {1} ELSE Sizes, whole : BOOLEAN, fit : BOOLEAN, bad : {FALSE}] : f.fit => f.whole}

ArchNext ==
    \/ \E b \in Dumpers : \/ Claim(b) \/ VerifyDump(b) \/ Persist(b) \/ BackupDies(b)
                          \/ \E f \in Files : Dump(b, f)
    \/ PruneLocks \/ PruneEnds
    \/ \E pol \in Policies : PlanEntry(pol)
    \/ \E s \in Stamps, gone \in BOOLEAN : RemoveOne(s, gone)
    \/ \E s \in Stamps : DeployLocks(s) \/ Rots(s)
    \/ DeployEnds \/ Pick \/ CheckPick \/ DrillDies
    \/ \E ok \in BOOLEAN : RoomAndCreate(ok) \/ MigrateCopy(ok) \/ Teardown(ok) \/ Report(ok)
    \/ \E ok \in BOOLEAN, n \in 0..MinTables : Fill(ok, n)
    \/ Tick \/ ClockSetBack \/ ReaderInstalled

ArchSpec == ArchInit /\ [][ArchNext]_archVars

-----------------------------------------------------------------------------
(* What appears under a final name is a dump pg_dump finished, and one     *)
(* pg_restore read back unless it could not be run; it was not written     *)
(* over by another backup, whatever crashed in between.                    *)
ArchivesAreWhole ==
    /\ \A s \in Listed : dir[s].whole /\ ~dir[s].bad
    /\ \A b, c \in Dumpers : b # c /\ backup[b].at # "idle" /\ backup[c].at # "idle"
                             => backup[b].stamp # backup[c].stamp

(* While a prune removes, the readable archives it is about to remove are  *)
(* backed by keep_minimum newer readable ones that stay - unless a fresh   *)
(* unreadable archive holds a slot, or nothing could be verified.          *)
FloorHolds ==
    prune.at = "remove" /\ reader
    => \A s \in prune.todo :
         LET newer == {r \in Listed \ prune.todo : r > s}
         IN \/ ~dir[s].fit
            \/ Cardinality({r \in newer : dir[r].fit}) >= prune.floor
            \/ \E r \in newer : ~dir[r].fit

(* Against a floor that counts files: for every policy, whatever is        *)
(* removed beyond what that floor would have removed is unreadable and     *)
(* past the cutoff.                                                        *)
NoWorseThanBlind ==
    prune.at = "plan" => \A pol \in Policies :
        LET c     == Cutoff(pol)
            blind == Plan(Listed, pol, c, [s \in Stamps |-> "valid"]).remove
        IN \A s \in Plan(Listed, pol, c, Verdicts).remove \ blind : ~dir[s].fit /\ s < c

(* The archive a deploy found under the lock is there when it restores it. *)
DeployFindsItsArchive == deploy.at = "rehearse" => deploy.pick \in Listed

(* A receipt that says ok stands for a copy really restored from the       *)
(* archive it names, migrated, with enough tables, whose archive was       *)
(* recent on a sane clock, and whose throwaway is gone or named.           *)
DrillVouches ==
    receipt.ok =>
        /\ receipt.of.from = receipt.pick /\ receipt.of.migrated
        /\ receipt.of.tables >= MinTables
        /\ receipt.began - receipt.pick <= MaxAge /\ receipt.pick - receipt.began <= Skew
        /\ receipt.of.made => receipt.warn

(* A prune spares what a restore may need: the floor of readable archives, *)
(* what a count of files would have spared, and the archive a deploy under *)
(* the lock has picked.                                                    *)
RetentionKeeps == FloorHolds /\ NoWorseThanBlind /\ DeployFindsItsArchive
=============================================================================
