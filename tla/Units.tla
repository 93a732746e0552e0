------------------------------- MODULE Units -------------------------------
(***************************************************************************)
(* The systemd units fraisier generates: `scaffold-install`, `scheduled    *)
(* install` and `scheduled uninstall` on a unit directory several          *)
(* deployables and the operator share, and the failure alerts the          *)
(* scheduled units raise when they run.                                    *)
(*                                                                         *)
(* A unit file is one of: absent, hand (no marker), edited (a generated    *)
(* file changed by hand, marker kept), plain (generated, naming no alert)  *)
(* or alerting (generated, with OnFailure= and --failure-record); a write  *)
(* cut short leaves it empty, or torn after the marker.  A service and its *)
(* timer are one unit.  The two halves share no state but the directory,   *)
(* so a behaviour is about one of them.                                    *)
(***************************************************************************)
EXTENDS Integers, Sequences, SequencesExt, FiniteSets

CONSTANTS
    Apps,       \* the deployables whose units share the directory
    MaxEdits,   \* bound on edits of configs and unit files, and on cut writes
    MaxRuns     \* bound on activations of scheduled units

VARIABLES
    half,       \* "install" or "alert"
    declared,   \* declared[a]: what the config schedules
    dir,        \* dir[a][p]: the unit file of part p
    inst,       \* the running install or uninstall command
    edits,
    parted,     \* history: apps whose units an uninstall left, a prune took or a cut install owes
    raced,      \* history: units edited since the running command planned
    runs,       \* runs[i]: the i-th activation
    records,    \* the failure records on disk, keyed by activation
    sent        \* history: what the alerts sent

unitsVars == <<half, declared, dir, inst, edits, parted, raced, runs, records, sent>>

Jobs == {"scheduled", "refresh"}
Parts == {"app", "alert"} \cup Jobs
Marked == {"edited", "plain", "alerting", "torn"}

NoInstall == [op |-> "none", app |-> "none", force |-> FALSE, prune |-> FALSE,
              todo |-> <<>>, stale |-> {}]

(* What a config schedules: a backup or a deploy, and a refresh.           *)
Schedules == {[job |-> j, refresh |-> r] : j \in {"none", "backup", "deploy"}, r \in BOOLEAN}

(* `generate_scheduled`: the units in the order they are written, the      *)
(* alert template last, with any unit that names it.  Only a deploy, which *)
(* notifies in its own process, names none.                                *)
GeneratedForTheSchedule(a) ==
    LET c == declared[a] IN
    (IF c.job = "none" THEN <<>>
     ELSE <<[part |-> "scheduled", body |-> IF c.job = "backup" THEN "alerting" ELSE "plain"]>>)
    \o (IF c.refresh THEN <<[part |-> "refresh", body |-> "alerting"]>> ELSE <<>>)
    \o (IF c.job = "backup" THEN <<[part |-> "alert", body |-> "plain"]>> ELSE <<>>)

GenerateScheduled(a) ==
    LET c == declared[a] IN
    (IF c.job = "none" THEN <<>>
     ELSE <<[part |-> "scheduled", body |-> IF c.job = "backup" THEN "alerting" ELSE "plain"]>>)
    \o (IF c.refresh THEN <<[part |-> "refresh", body |-> "alerting"]>> ELSE <<>>)
    \o (IF c.job = "backup" \/ c.refresh THEN <<[part |-> "alert", body |-> "plain"]>> ELSE <<>>)

Generate(a) == <<[part |-> "app", body |-> "plain"]>>

(* Configs that schedule a backup and a refresh, their units installed or  *)
(* not; the alert half starts with or without the alert unit the runs      *)
(* name.                                                                   *)
UnitsInit ==
    /\ half \in {"install", "alert"}
    /\ declared \in [Apps -> {[job |-> "backup", refresh |-> TRUE]}]
    /\ dir \in [Apps -> {[p \in Parts |-> IF p \in Jobs THEN "alerting" ELSE "plain"],
                         [p \in Parts |-> IF p \in Jobs THEN "alerting" ELSE "absent"],
                         [p \in Parts |-> "absent"]}]
    /\ \A a \in Apps : half = "install" => (dir[a]["alert"] = "absent" => dir[a]["scheduled"] = "absent")
    /\ inst = NoInstall
    /\ edits = 0 /\ parted = {} /\ raced = {}
    /\ runs = <<>> /\ records = {} /\ sent = {}

----------------------------------------------------------------------------
(* Installing.                                                             *)

Drift(a, f) == CASE dir[a][f.part] = "absent" -> "absent"
                 [] dir[a][f.part] = f.body -> "identical"
                 [] OTHER -> "drifted"

(* `prune_plan`: files with the marker, in the directories of the files    *)
(* being installed, that are not among them.                               *)
PrunePlanUnmarked(a, files) ==
    {<<b, p>> \in Apps \X Parts : dir[b][p] # "absent" /\ ~ (b = a /\ p \in {f.part : f \in Range(files)})}

PrunePlan(a, files) ==
    {<<b, p>> \in Apps \X Parts : dir[b][p] \in Marked /\ ~ (b = a /\ p \in {f.part : f \in Range(files)})}

Begins(op, a, force, prune, todo, stale) ==
    /\ inst' = [op |-> op, app |-> a, force |-> force, prune |-> prune, todo |-> todo, stale |-> stale]
    /\ raced' = {}
    /\ UNCHANGED <<half, declared, dir, edits, runs, records, sent>>

(* `scheduled install`: refused when the config is invalid or schedules    *)
(* nothing, or when a unit drifted and --force is not given; identical     *)
(* units are left alone.                                                   *)
ScheduledInstall(a, force, prune) ==
    LET files == GenerateScheduled(a)
        drifted == {f \in Range(files) : Drift(a, f) = "drifted"}
        write(f) == Drift(a, f) = "absent" \/ (Drift(a, f) = "drifted" /\ force) IN
    /\ half = "install" /\ inst.op = "none" /\ files # <<>>
    /\ drifted = {} \/ force
    /\ Begins("install", a, force, prune, SelectSeq(files, write),
              IF prune THEN PrunePlan(a, files) ELSE {})
    /\ UNCHANGED parted

(* `scaffold-install` writes its files whatever is there.                  *)
ScaffoldInstall(a, prune) ==
    /\ half = "install" /\ inst.op = "none"
    /\ Begins("scaffold", a, TRUE, prune, Generate(a), IF prune THEN PrunePlan(a, Generate(a)) ELSE {})
    /\ UNCHANGED parted

(* `scheduled uninstall` goes by what the config schedules now.            *)
ScheduledUninstall(a) ==
    LET files == GenerateScheduled(a)
        left == \E j \in Jobs : dir[a][j] = "alerting" /\ j \notin {f.part : f \in Range(files)} IN
    /\ half = "install" /\ inst.op = "none" /\ files # <<>>
    /\ Begins("uninstall", a, FALSE, FALSE, files, {})
    /\ parted' = IF left THEN parted \cup {a} ELSE parted

Finished(i) == IF i.todo = <<>> /\ i.stale = {} THEN NoInstall ELSE i

WriteUnit ==
    LET f == Head(inst.todo) IN
    /\ inst.op \in {"install", "scaffold"} /\ inst.todo # <<>>
    /\ dir' = [dir EXCEPT ![inst.app][f.part] = f.body]
    /\ inst' = Finished([inst EXCEPT !.todo = Tail(@)])
    /\ parted' = IF inst.op = "install" /\ Len(inst.todo) = 1
                       /\ \A j \in Jobs : dir'[inst.app][j] = "alerting" => dir'[inst.app]["alert"] = "plain"
                 THEN parted \ {inst.app} ELSE parted
    /\ UNCHANGED <<half, declared, edits, raced, runs, records, sent>>

(* Pruning follows the writes, with the plan made before them.             *)
PruneUnit(b, p) ==
    /\ inst.op \in {"install", "scaffold"} /\ inst.todo = <<>> /\ <<b, p>> \in inst.stale
    /\ dir' = [dir EXCEPT ![b][p] = "absent"]
    /\ inst' = Finished([inst EXCEPT !.stale = @ \ {<<b, p>>}])
    /\ parted' = parted \cup {b}
    /\ UNCHANGED <<half, declared, edits, raced, runs, records, sent>>

(* A file is removed only if it carries the marker.                        *)
RemoveUnit ==
    LET p == Head(inst.todo).part IN
    /\ inst.op = "uninstall" /\ inst.todo # <<>>
    /\ dir' = [dir EXCEPT ![inst.app][p] = IF @ \in Marked THEN "absent" ELSE @]
    /\ inst' = Finished([inst EXCEPT !.todo = Tail(@)])
    /\ UNCHANGED <<half, declared, edits, parted, raced, runs, records, sent>>

(* A file is written in place: it is truncated first.                      *)
CutWrite ==
    /\ inst.op \in {"install", "scaffold"} /\ inst.todo # <<>>
    /\ edits < MaxEdits /\ edits' = edits + 1
    /\ \E body \in {"empty", "torn"} : dir' = [dir EXCEPT ![inst.app][Head(inst.todo).part] = body]

(* Nothing to write, or a write or a removal fails, or the process dies.   *)
InstallEnds ==
    /\ inst.op # "none"
    /\ inst' = NoInstall
    /\ UNCHANGED <<dir, edits>> \/ CutWrite
    /\ parted' = IF inst.op = "scaffold" \/ inst.todo = <<>> THEN parted ELSE parted \cup {inst.app}
    /\ UNCHANGED <<half, declared, raced, runs, records, sent>>

(* The operator changes a config, edits a unit or puts one of their own.   *)
ConfigChanges(a, c) ==
    /\ half = "install" /\ edits < MaxEdits
    /\ declared' = [declared EXCEPT ![a] = c]
    /\ edits' = edits + 1
    /\ UNCHANGED <<half, dir, inst, parted, raced, runs, records, sent>>

OperatorWrites(a, p, body) ==
    /\ half = "install" /\ edits < MaxEdits
    /\ body \in {"edited", "hand"} /\ (body = "edited" => dir[a][p] \in Marked)
    /\ dir' = [dir EXCEPT ![a][p] = body]
    /\ raced' = IF inst.op = "none" THEN raced ELSE raced \cup {<<a, p>>}
    /\ edits' = edits + 1
    /\ UNCHANGED <<half, declared, inst, parted, runs, records, sent>>

----------------------------------------------------------------------------
(* Running.  Activation i of a unit is running, then ok or failed; its     *)
(* alert is none, waiting (systemd has queued it), reading, sending or     *)
(* over; missed when systemd had no alert unit to start, or an alert of    *)
(* the same unit was still at work.                                        *)

RunsOf(a, j) == {i \in DOMAIN runs : runs[i].app = a /\ runs[i].job = j}

TimerFires(a, j) ==
    /\ half = "alert" /\ Len(runs) < MaxRuns
    /\ dir[a][j] = "alerting"
    /\ \A i \in RunsOf(a, j) : runs[i].state # "running"
    /\ runs' = Append(runs, [app |-> a, job |-> j, state |-> "running", alert |-> "none", found |-> 0])
    /\ UNCHANGED <<half, declared, dir, inst, edits, parted, raced, records, sent>>

(* systemd starts the alert instance of the failed unit, if there is such  *)
(* a unit file and the instance is not already active.                     *)
OnFailure(i) ==
    IF dir[runs[i].app]["alert"] = "absent"
       \/ \E k \in RunsOf(runs[i].app, runs[i].job) : runs[k].alert \in {"waiting", "sending"}
    THEN "missed" ELSE "waiting"

RunSucceeds(i) ==
    /\ runs[i].state = "running"
    /\ runs' = [runs EXCEPT ![i].state = "ok"]
    /\ UNCHANGED <<half, declared, dir, inst, edits, parted, raced, records, sent>>

(* The run fails and leaves its record, whole or not at all; a run killed  *)
(* or unable to write leaves none.                                         *)
RecordFailure(i, written) ==
    /\ runs[i].state = "running"
    /\ runs' = [runs EXCEPT ![i].state = "failed", ![i].alert = OnFailure(i)]
    /\ records' = IF written THEN records \cup {[id |-> i, app |-> runs[i].app, job |-> runs[i].job]}
                  ELSE records
    /\ UNCHANGED <<half, declared, dir, inst, edits, parted, raced, sent>>

(* The record an alert finds: that of the activation systemd names, if the *)
(* record says the same activation and unit.                               *)
ReadRecordOfUnit(i) ==
    {r \in records : r.app = runs[i].app /\ r.job = runs[i].job}

ReadRecord(i) ==
    {r \in records : r.id = i /\ r.app = runs[i].app /\ r.job = runs[i].job}

(* `notify`: an unreadable config ends it before anything is sent.         *)
NotifyBegins(i) ==
    LET found == ReadRecord(i) IN
    /\ runs[i].alert = "waiting"
    /\ \/ runs' = [runs EXCEPT ![i].alert = "failed"]
       \/ runs' = [runs EXCEPT ![i].alert = "sending",
                               ![i].found = IF found = {} THEN 0 ELSE (CHOOSE r \in found : TRUE).id]
    /\ UNCHANGED <<half, declared, dir, inst, edits, parted, raced, records, sent>>

(* One attempt through the hook, delivered or not, then the record goes.   *)
Deliver(i, delivered) ==
    /\ runs[i].alert = "sending"
    /\ runs' = [runs EXCEPT ![i].alert = IF delivered THEN "sent" ELSE "failed", ![i].found = 0]
    /\ sent' = IF delivered THEN sent \cup {[run |-> i, reason |-> runs[i].found]} ELSE sent
    /\ records' = {r \in records : r.id # runs[i].found}
    /\ UNCHANGED <<half, declared, dir, inst, edits, parted, raced>>

UnitsNext ==
    \/ \E a \in Apps, force, prune \in BOOLEAN : ScheduledInstall(a, force, prune)
    \/ \E a \in Apps, prune \in BOOLEAN : ScaffoldInstall(a, prune)
    \/ \E a \in Apps : ScheduledUninstall(a)
    \/ WriteUnit \/ RemoveUnit \/ InstallEnds
    \/ \E b \in Apps, p \in Parts : PruneUnit(b, p)
    \/ \E a \in Apps, c \in Schedules : ConfigChanges(a, c)
    \/ \E a \in Apps, p \in Parts, body \in {"edited", "hand"} : OperatorWrites(a, p, body)
    \/ \E a \in Apps, j \in Jobs : TimerFires(a, j)
    \/ \E i \in DOMAIN runs :
          \/ RunSucceeds(i) \/ NotifyBegins(i)
          \/ \E flag \in BOOLEAN : RecordFailure(i, flag) \/ Deliver(i, flag)

----------------------------------------------------------------------------

(* Between commands, a generated unit that names an alert has one to name: *)
(* systemd drops an OnFailure= naming a missing unit without a word.       *)
(* Excepted are apps an uninstall under a changed config, another app's    *)
(* --prune or a cut command left parted, until an install completes.       *)
AlertInstalled ==
    (half = "install" /\ inst.op = "none") =>
        \A a \in Apps : (\E j \in Jobs : dir[a][j] = "alerting") =>
            dir[a]["alert"] # "absent" \/ a \in parted

(* What the operator wrote is overwritten only under --force, in a         *)
(* scaffold install, which asks nobody, or when the operator wrote it      *)
(* after the install had compared.  A file without the marker is removed   *)
(* only by a prune that had planned it when it still carried the marker:   *)
(* prune does not look again, uninstall does, and --force excuses no       *)
(* removal (classify, prune_plan, uninstall).                              *)
OperatorsFilesKept ==
    [][\A a \in Apps, p \in Parts :
          (dir[a][p] \in {"hand", "edited"} /\ dir'[a][p] # dir[a][p] /\ inst' # inst) =>
              IF dir'[a][p] = "absent"
              THEN dir[a][p] = "edited" \/ (inst.prune /\ <<a, p>> \in raced)
              ELSE inst.force \/ (inst.op = "install" /\ <<a, p>> \in raced)]_unitsVars

(* An alert tells the reason of the very activation that failed, or none;  *)
(* it tells it whenever that activation left a record, whatever other      *)
(* alerts, of other units or of earlier activations that no alert          *)
(* answered, have left behind.                                             *)
AlertsTellTheirOwn ==
    /\ \A s \in sent : s.reason \in {0, s.run}
    /\ \A s, t \in sent : s.run = t.run => s = t
    /\ \A i \in DOMAIN runs : runs[i].alert = "sending" =>
          ((\E r \in records : r.id = i) <=> runs[i].found = i)

(* A failure is heard: the alert is installed, and tells its own reason.   *)
FailureIsHeard == AlertInstalled /\ AlertsTellTheirOwn
=============================================================================
