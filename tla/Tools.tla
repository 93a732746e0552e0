------------------------------- MODULE Tools -------------------------------
(***************************************************************************)
(* The adapters that judge: confiture and command migrations, http and     *)
(* command health, systemd, rc and docker-compose services.  Each runs a   *)
(* tool (or a probe) and reads a verdict out of its exit code and its      *)
(* output.  The tool's side, and what it may print in a given state of the *)
(* database, the service and the site, is external.                        *)
(***************************************************************************)
EXTENDS Naturals, Sequences, SequencesExt

CONSTANTS Attempts,    \* [health].attempts
          MaxRev       \* the newest migration of the release

ASSUME ToolsAssumption == Attempts \in Nat \ {0} /\ MaxRev \in Nat

VARIABLES tools,       \* the adapters configured
          installed,   \* the confiture on disk: the floors it is at or above
          version,     \* ConfitureMigration::version, set once
          db,          \* the database: its ledger, its revision, whether it verifies
          unit,        \* the service: running, and held by the start limit
          site,        \* what the health endpoint serves
          token,       \* HttpHealth::token, resolved once
          probes,      \* attempts left of the health check in progress
          ret          \* the last answer, beside the state it was read in

toolVars == <<tools, installed, version, db, unit, site, token, probes, ret>>

(* One adapter is driven at a time.                                        *)
Setups ==
    [migration : {"confiture", "command", "command_unverified"}, health : {"none"}, service : {"none"}]
    \cup [migration : {"none"}, health : {"http", "http_token", "command"}, service : {"none"}]
    \cup [migration : {"none"}, health : {"none"}, service : {"systemd", "rc", "compose", "compose_legacy"}]
Unknown == {"unknown"}
Floors == {{}, {"window_safe"}, {"window_safe", "pending_scope"}}
Sites == {"ready", "wrong_status", "capability_missing", "unreachable"}
NoRet == [op |-> "none", value |-> "none", truth |-> "none"]
Answer(op, value, truth) == ret' = [op |-> op, value |-> value, truth |-> truth]
Fail(kind) == ret' = [op |-> "error", value |-> kind, truth |-> "none"]

ToolInit ==
    /\ tools \in Setups
    /\ installed \in Floors /\ version = Unknown
    /\ db = [ledger |-> FALSE, rev |-> 0, sound |-> TRUE]
    /\ unit = [up |-> TRUE, limited |-> FALSE]
    /\ site = "ready" /\ token = "unset" /\ probes = 0 /\ ret = NoRet

-----------------------------------------------------------------------------
(* Reading a confiture run: its exit code (or none, for a signal) and the  *)
(* JSON it left, an error envelope being neither a report nor nothing.     *)

Killed == 9            \* no exit code: a signal
Codes == 0..Killed

(* classify, to_adapter_kind: an exit code is never laundered by the       *)
(* envelope's error code.                                                  *)
Classify(code, errorCode) ==
    CASE code = 0 -> "execution"
      [] code = 2 \/ (code = Killed /\ errorCode = "PRECON_1001") -> "precondition_failed"
      [] code = 3 -> "db_unreachable"
      [] code = 4 -> "schema_error"
      [] code = 5 -> "invalid_config"
      [] code = 6 -> "lock_contention"
      [] code = 7 -> "git_error"
      [] code = 8 -> "irreversible_rollback"
      [] OTHER -> "internal_error"

(* The signals of a verify report: each may be absent, or of a wrong type. *)
Signal == {"absent", "yes", "no", "ill_typed"}
VerifyReports == [ok : Signal, failed : Signal, skipped : Signal, ledger : Signal,
            results : {"absent", "all_ok", "one_failed", "ill_typed"}]

IllTyped(r) == \E f \in DOMAIN r : r[f] = "ill_typed"
NoVerdict(r) == r.ok = "absent" /\ r.failed = "absent"

ParseVerdictOnly(r, code) ==
    IF IllTyped(r) \/ NoVerdict(r) THEN "not_a_report"
    ELSE IF r.ok = "yes" \/ (r.ok = "absent" /\ r.failed = "no") THEN "green" ELSE "red"

ParseVerifyReport(r, code) ==
    IF IllTyped(r) \/ NoVerdict(r) THEN "not_a_report"
    ELSE IF /\ r.ok # "no" /\ r.failed # "yes" /\ r.results # "one_failed"
            /\ r.skipped # "yes" /\ r.ledger # "no"
            /\ code = 0
         THEN "green" ELSE "red"

(* A payload is a report, the error envelope confiture leaves in the same  *)
(* file on a failure, or nothing that can be read.                         *)
Payloads == {"none", "envelope", "report"}

(* verify: only a report with a verdict is a result.                       *)
Verified(code, json, r) ==
    IF json = "report" THEN ParseVerifyReport(r, code) ELSE "not_a_report"

(* A report that says the database is not verified, in one signal at least *)
Denies(code, r) ==
    \/ code # 0 \/ r.ok = "no" \/ r.failed = "yes"
    \/ r.skipped = "yes" \/ r.ledger = "no" \/ r.results = "one_failed"
    \/ IllTyped(r)

Sound == db.ledger /\ db.sound

ConfitureVerify ==
    /\ ret = NoRet /\ tools.migration = "confiture"
    /\ \E code \in {0, 1, Killed}, json \in Payloads, r \in VerifyReports :
          LET verdict == Verified(code, json, r) IN
          /\ ~Sound /\ json = "report" => Denies(code, r)
          /\ json # "report" => r = [f \in DOMAIN r |-> "absent"]
          /\ IF verdict = "not_a_report" THEN Fail(Classify(code, "none"))
             ELSE Answer("verify", verdict, Sound)
    /\ UNCHANGED <<tools, installed, version, db, unit, site, token, probes>>

(* The command of each method is a setting, and only verify has a default. *)
CommandRuns(method) ==
    \/ tools.migration = "command"
    \/ tools.migration = "command_unverified" /\ method # "verify"

(* The command's exit code is the verdict; with no command nothing is      *)
(* checked and the report is ok, sound or not.                             *)
CommandVerify ==
    /\ ret = NoRet /\ tools.migration \in {"command", "command_unverified"}
    /\ Answer("verify", IF CommandRuns("verify") /\ ~Sound THEN "red" ELSE "green", Sound)
    /\ UNCHANGED <<tools, installed, version, db, unit, site, token, probes>>

(* current_revision: PRECON_1001 is no revision; a clean exit whose report *)
(* cannot be read is no revision either.                                   *)
ConfitureCurrent ==
    /\ ret = NoRet /\ tools.migration = "confiture"
    /\ \/ Answer("current", IF db.ledger THEN {db.rev} ELSE {}, db)
       \/ db.ledger /\ Answer("unread", {}, db)
       \/ \E code \in Codes \ {0, 2} : Fail(Classify(code, "none"))
    /\ UNCHANGED <<tools, installed, version, db, unit, site, token, probes>>

(* What the command prints is the revision, nothing being none.            *)
CommandCurrent ==
    /\ ret = NoRet /\ CommandRuns("current_revision")
    /\ \/ Answer("current", IF db.ledger THEN {db.rev} ELSE {}, db)
       \/ Fail("execution")
    /\ UNCHANGED <<tools, installed, version, db, unit, site, token, probes>>

(* Each migration commits by itself, so a failing run leaves a prefix.     *)
Migrates(op, target, way, kinds) ==
    \E reached \in way :
        /\ db' = [db EXCEPT !.ledger = TRUE, !.rev = reached]
        /\ \/ reached = target /\ Answer(op, target, db')
           \/ \E kind \in kinds : Fail(kind)

Refusals(codes) == {Classify(code, "none") : code \in codes}

ConfitureUp ==
    /\ ret = NoRet /\ tools.migration = "confiture"
    /\ Migrates("up", MaxRev, db.rev..MaxRev, Refusals({1, 4, 6, Killed}))
    /\ UNCHANGED <<tools, installed, version, unit, site, token, probes>>

CommandUp ==
    /\ ret = NoRet /\ CommandRuns("up")
    /\ Migrates("up", MaxRev, db.rev..MaxRev, {"execution"})
    /\ UNCHANGED <<tools, installed, version, unit, site, token, probes>>

ConfitureDownTo(target) ==
    /\ ret = NoRet /\ tools.migration = "confiture" /\ db.ledger /\ target <= db.rev
    /\ Migrates("down_to", target, target..db.rev, Refusals({1, 6, 8}))
    /\ UNCHANGED <<tools, installed, version, unit, site, token, probes>>

CommandDownTo(target) ==
    /\ ret = NoRet /\ CommandRuns("down_to")
    /\ db.ledger /\ target <= db.rev
    /\ Migrates("down_to", target, target..db.rev, {"execution"})
    /\ UNCHANGED <<tools, installed, version, unit, site, token, probes>>

-----------------------------------------------------------------------------
(* describe and preflight.                                                 *)

DescribeTool ==
    /\ ret = NoRet /\ tools.migration = "confiture"
    /\ version' = IF version = Unknown THEN installed ELSE version
    /\ Answer("describe", installed, installed)
    /\ UNCHANGED <<tools, installed, db, unit, site, token, probes>>

(* doctor's check_confiture: the highest of the floors, or a warning that  *)
(* names what is withheld; a version it cannot read is a warning too.      *)
CheckConfitureAtWindowSafe ==
    /\ ret = NoRet /\ tools.migration = "confiture"
    /\ \/ Answer("doctor", IF "window_safe" \in installed THEN "pass" ELSE "warn", installed)
       \/ Answer("doctor", "warn", installed)
    /\ UNCHANGED <<tools, installed, version, db, unit, site, token, probes>>

CheckConfiture ==
    /\ ret = NoRet /\ tools.migration = "confiture"
    /\ \/ Answer("doctor", IF "pending_scope" \in installed THEN "pass" ELSE "warn", installed)
       \/ Answer("doctor", "warn", installed)
    /\ UNCHANGED <<tools, installed, version, db, unit, site, token, probes>>

(* A classified change, one of another tier, or one this build cannot read *)
Entries == {"tiered", "unclassified", "unreadable"}
NoChangeSet == [some |-> FALSE, changes |-> <<>>]

ParseDroppingUnreadable(envelope, contract, entries) ==
    IF envelope # "object" \/ contract # 1 THEN NoChangeSet
    ELSE [some |-> TRUE, changes |-> SelectSeq(entries, LAMBDA e : e # "unreadable")]

(* parse_change_set: a broken envelope voids the set, a broken entry holds *)
(* its place as an unclassified change.                                    *)
ParseChangeSet(envelope, contract, entries) ==
    IF envelope # "object" \/ contract # 1 THEN NoChangeSet
    ELSE [some |-> TRUE,
          changes |-> [i \in DOMAIN entries |->
                         IF entries[i] = "tiered" THEN "tiered" ELSE "unclassified"]]

(* --scope pending is passed to a version at or above its floor.           *)
Scoped(floors) == "pending_scope" \in floors

(* preflight: scoped by the version first seen; an older binary refuses    *)
(* the flag.                                                               *)
Preflight ==
    LET known == IF version = Unknown THEN installed ELSE version IN
    /\ ret = NoRet /\ tools.migration = "confiture"
    /\ version' = known
    /\ IF Scoped(known) /\ ~Scoped(installed)
       THEN Fail("precondition_failed")
       ELSE \/ \E code \in {1, 3, Killed} : Fail(Classify(code, "none"))
            \/ \E envelope \in {"object", "missing", "not_object"}, contract \in {0, 1},
                  entries \in SeqOf(Entries, 2) :
                  Answer("preflight", ParseChangeSet(envelope, contract, entries), entries)
    /\ UNCHANGED <<tools, installed, db, unit, site, token, probes>>

-----------------------------------------------------------------------------
(* Health: probes until one is healthy or the attempts are used; the last  *)
(* failure decides between unhealthy and an error.                         *)

(* The token of a token provider: a program's output, or the reply to a    *)
(* POST that must hold one.                                                *)
ResolveToken == token' = "fresh" \/ token' = "unset"

BeginCheck ==
    /\ ret = NoRet /\ tools.health \in {"http", "http_token"} /\ probes = 0
    /\ IF tools.health = "http_token" /\ token = "unset" THEN ResolveToken ELSE UNCHANGED token
    /\ IF tools.health = "http_token" /\ token' = "unset"
       THEN Fail("no_token") /\ UNCHANGED probes
       ELSE probes' = Attempts /\ UNCHANGED ret
    /\ UNCHANGED <<tools, installed, version, db, unit, site>>

(* One run of the health command, under its timeout.                       *)
CommandCheck ==
    /\ ret = NoRet /\ tools.health = "command"
    /\ \/ Answer("check", IF site = "ready" THEN "healthy" ELSE "unhealthy", site)
       \/ Fail("timeout")
    /\ UNCHANGED <<tools, installed, version, db, unit, site, token, probes>>

(* What one probe sees: a token the service no longer takes is a status.   *)
Seen == IF token = "expired" /\ site \in {"ready", "capability_missing"}
        THEN "wrong_status" ELSE site

ProbeOnce ==
    /\ probes > 0
    /\ \/ /\ Seen = "ready" \/ probes = 1
          /\ Answer("check", CASE Seen = "ready" -> "healthy"
                               [] Seen = "unreachable" -> "error" [] OTHER -> "unhealthy", site)
          /\ probes' = 0
       \/ /\ Seen # "ready" /\ probes > 1
          /\ probes' = probes - 1 /\ UNCHANGED ret
    /\ UNCHANGED <<tools, installed, version, db, unit, site, token>>

-----------------------------------------------------------------------------
(* Services over the transport.                                            *)

(* A restart that starts the unit, which a hit start limit refuses.        *)
Restarts(limited, counts) ==
    \E starts \in BOOLEAN :
        LET up == starts /\ ~limited IN
        /\ unit' = [up |-> up, limited |-> limited \/ (~up /\ counts)]
        /\ Answer("restart", up, up)

(* systemd: reset-failed first, best effort, clears the limit.             *)
SystemdRestart ==
    /\ ret = NoRet /\ tools.service = "systemd"
    /\ \E reset \in BOOLEAN : Restarts(unit.limited /\ ~reset, TRUE)
    /\ UNCHANGED <<tools, installed, version, db, site, token, probes>>

RcRestart ==
    /\ ret = NoRet /\ tools.service = "rc"
    /\ Restarts(FALSE, FALSE)
    /\ UNCHANGED <<tools, installed, version, db, site, token, probes>>

ComposeRestart ==
    /\ ret = NoRet /\ tools.service \in {"compose", "compose_legacy"}
    /\ Restarts(FALSE, FALSE)
    /\ UNCHANGED <<tools, installed, version, db, site, token, probes>>

(* What the status command prints of the unit, or nothing off a connection *)
(* that is lost.                                                           *)
Printed ==
    {"nothing"} \cup
    CASE tools.service = "systemd" -> {IF unit.up THEN "active" ELSE "inactive"}
      [] tools.service = "rc" -> {"other", IF unit.up THEN "is running" ELSE "is not running"}
      [] tools.service = "compose" -> {IF unit.up THEN "State: running" ELSE "State: exited"}
      [] OTHER -> {IF unit.up THEN "Up" ELSE "Exit 0"}

SystemdStatus ==
    /\ ret = NoRet /\ tools.service = "systemd"
    /\ \E text \in Printed : Answer("status", text = "active", unit.up)
    /\ UNCHANGED <<tools, installed, version, db, unit, site, token, probes>>

(* A script that prints neither phrase is judged by its exit code.         *)
RcStatus ==
    /\ ret = NoRet /\ tools.service = "rc"
    /\ \E text \in Printed :
          LET succeeded == text # "nothing" /\ unit.up IN
          Answer("status", CASE text = "is not running" -> FALSE
                             [] text = "is running" -> TRUE
                             [] OTHER -> succeeded, unit.up)
    /\ UNCHANGED <<tools, installed, version, db, unit, site, token, probes>>

(* The JSON of compose, or the table an old docker-compose prints.         *)
ComposeStatus ==
    /\ ret = NoRet /\ tools.service \in {"compose", "compose_legacy"}
    /\ \E text \in Printed : Answer("status", text \in {"State: running", "Up"}, unit.up)
    /\ UNCHANGED <<tools, installed, version, db, unit, site, token, probes>>

-----------------------------------------------------------------------------
(* Between the calls, and between two probes, the world moves, or does not *)
WorldMoves ==
    /\ \/ UNCHANGED <<installed, db, unit, site, token>>
       \/ tools.health # "none" /\ site' \in Sites /\ UNCHANGED <<installed, db, unit, token>>
       \/ token = "fresh" /\ token' = "expired" /\ UNCHANGED <<installed, db, unit, site>>
       \/ tools.migration = "confiture" /\ installed' \in Floors /\ UNCHANGED <<db, unit, site, token>>
       \/ tools.migration # "none" /\ db' = [db EXCEPT !.sound = ~@] /\ UNCHANGED <<installed, unit, site, token>>
       \/ tools.service # "none"
          /\ unit' = [unit EXCEPT !.up = FALSE, !.limited = (tools.service = "systemd")]
          /\ UNCHANGED <<installed, db, site, token>>
    /\ ret' = NoRet
    /\ UNCHANGED <<tools, version, probes>>

ToolNext ==
    \/ DescribeTool \/ CheckConfiture \/ Preflight
    \/ ConfitureCurrent \/ ConfitureUp \/ ConfitureVerify
    \/ CommandCurrent \/ CommandUp \/ CommandVerify
    \/ \E target \in 0..MaxRev : ConfitureDownTo(target) \/ CommandDownTo(target)
    \/ BeginCheck \/ ProbeOnce \/ CommandCheck
    \/ SystemdRestart \/ RcRestart \/ ComposeRestart
    \/ SystemdStatus \/ RcStatus \/ ComposeStatus
    \/ WorldMoves

-----------------------------------------------------------------------------
(* An affirmative answer is earned: verify is green only of a database     *)
(* with a ledger and no failed check, whatever subset of the signals the   *)
(* installed confiture prints and whichever of them disagree (a command    *)
(* migration with no verify command checks nothing, and its green vouches  *)
(* for nothing); a check is healthy only of a site that serves the status  *)
(* and the capabilities; a service said to run does, and a restart said to *)
(* have worked did.                                                        *)
GreenIsEarned ==
    /\ ret.op = "verify" /\ ret.value = "green" =>
          ret.truth \/ tools.migration = "command_unverified"
    /\ ret.op = "check" /\ ret.value = "healthy" => ret.truth = "ready"
    /\ ret.op \in {"status", "restart"} /\ ret.value => ret.truth
    /\ ret.op \in {"up", "down_to"} => ret.truth.rev = ret.value

(* What the report lacks is not read as absent: a database said to have no *)
(* revision has none (but for a clean exit that left no readable report),  *)
(* a change-set holds as many changes as the tool listed, with every one   *)
(* it could not read unclassified, and a confiture `doctor` passes has     *)
(* nothing withheld from it.                                               *)
AbsenceIsReal ==
    /\ ret.op = "current" /\ ret.value = {} => ~ret.truth.ledger
    /\ ret.op = "preflight" /\ ret.value.some =>
          /\ Len(ret.value.changes) = Len(ret.truth)
          /\ \A i \in DOMAIN ret.truth :
                ret.value.changes[i] = "tiered" => ret.truth[i] = "tiered"
    /\ ret.op = "doctor" /\ ret.value = "pass" => \A floors \in Floors : floors \subseteq ret.truth

(* An answer rests on what the tool observed, the affirmative as well as   *)
(* the empty one.                                                          *)
AnswersEarned == GreenIsEarned /\ AbsenceIsReal
=============================================================================
