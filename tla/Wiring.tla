------------------------------- MODULE Wiring -------------------------------
(***************************************************************************)
(* The commands of fraisier-cli that turn a configuration into a deploy:   *)
(* `deploy`, its dry run, `rollback`, and `scheduled install` with the     *)
(* commands its timers run, and the `doctor` and `env-check` an operator   *)
(* asks beforehand.  Every command loads the file anew, validates  *)
(* the sections it needs, and lets factory.rs build the adapters; what a   *)
(* deploy does once it is built is the other modules' matter, except that  *)
(* its policy gate decides over an inspection of the pending migrations.   *)
(* The file, the environment and the schema move between two commands and  *)
(* between the steps of one.                                               *)
(***************************************************************************)
EXTENDS Config

CONSTANTS
    ConfigFiles,   \* the configurations the file starts from
    Edits,         \* the configurations an edit may put there
    Schemas        \* what an inspection may find, on the live schema and on a copy

VARIABLES
    file,      \* the configuration file
    dsnSet,    \* the environment variable the DSN is read from is set
    schema,    \* what an inspection finds now
    command,   \* the running deploy
    plan,      \* history: the last dry run, while nothing moved
    timers,    \* the timers installed, and whether the file moved since
    told,      \* history: the last all-clear, "env" of env-check or "doctor", while it is fresh
    last       \* how the last command ended

wiringVars == <<file, dsnSet, schema, command, plan, timers, told, last>>

NoDeploy == [flow |-> "none", host |-> FALSE, skip |-> FALSE]
NoPlan == [made |-> FALSE, flow |-> "none", host |-> FALSE, skip |-> FALSE, blocks |-> FALSE,
           understates |-> FALSE]
NoUnits == [names |-> {}, stale |-> FALSE]
Ended(op, result) == [op |-> op, result |-> result, gate |-> "none", from |-> NoDeploy]

WiringInit ==
    /\ file \in ConfigFiles
    /\ dsnSet \in BOOLEAN
    /\ schema \in Schemas
    /\ command = NoDeploy /\ plan = NoPlan /\ timers = NoUnits /\ told = "nothing"
    /\ last = Ended("none", "none")

config == Load(file)

(* The adapters of factory.rs.  What runs in a process of its own is given *)
(* the DSN when it is built, so the variable must be set by then.          *)
BuildArtifactShort(c) == c.artifact.source \in {"release", "pull", "release-ipc", "local"}
BuildArtifact(c) == c.artifact.source \in {"release", "pull", "release-ipc", "local", "git"}
BuildService(c) == c.service.adapter \in {"systemd", "rc", "docker-compose"}
BuildHealth(c) == c.health.adapter \in {"http", "command"}
BuildLb(c) == c.lb.present /\ c.lb.adapter = "nginx"
BuildMigration(c) ==
    /\ c.migration.adapter # "unset"
    /\ c.migration.adapter = "ipc" /\ c.migration.dsn # "unset" => dsnSet
Named(c) == c.deploy.name /\ c.deploy.environment
ResolveHost(c, host) == host \/ ~c.hosts.present

Build(c, host) ==
    /\ Named(c) /\ ResolveHost(c, host)
    /\ BuildArtifact(c) /\ BuildService(c) /\ BuildHealth(c) /\ BuildMigration(c)

BuildMultiHost(c) ==
    /\ Named(c) /\ c.hosts.present
    /\ BuildArtifact(c) /\ BuildService(c) /\ BuildHealth(c) /\ BuildLb(c) /\ BuildMigration(c)

(* Blue-green builds for the local host and names the blue fleet's unit.   *)
BuildBlueGreen(c) ==
    /\ Named(c) /\ c.blue_green.present /\ ResolveHost(c, FALSE)
    /\ BuildArtifact(c) /\ BuildService(c) /\ BuildHealth(c) /\ BuildMigration(c)
    /\ "unit" \in c.service.fields
    /\ c.blue_green.green_unit /\ c.blue_green.green_health_url

(* run_deploy(): which of the three flows a configuration selects.         *)
Flow(c, host) ==
    IF c.deploy.strategy = "blue-green" THEN "blue-green"
    ELSE IF c.hosts.present /\ ~host THEN "multi" ELSE "single"

Builds(c, flow, host) ==
    CASE flow = "single" -> Build(c, host)
      [] flow = "multi" -> BuildMultiHost(c)
      [] flow = "blue-green" -> BuildBlueGreen(c)

(* settings_map(): the keys every adapter reads its own from.              *)
SettingsMap(c) ==
    LET put(key, there) == IF there THEN {key} ELSE {} IN
    UNION {put("from", c.artifact.from), put("checksum", c.artifact.checksum),
           put("active_path", c.artifact.active_path), c.service.fields,
           put("url", c.health.url), put("command", c.health.command),
           put("config_path", c.lb.present /\ c.lb.config_path),
           put("include_dir", c.lb.present /\ c.lb.include_dir),
           put("upstream", c.lb.present /\ c.lb.upstream),
           put("targets", c.blue_green.present /\ c.blue_green.green_servers)}

(* What the adapters ask of it when their turn comes, at the latest.       *)
ArtifactDemands(c) == {"from", "active_path"}
ServiceDemands(c) ==
    CASE c.service.adapter = "systemd" -> {"unit"}
      [] c.service.adapter = "rc" -> {"name"}
      [] OTHER -> {"compose_service"}
HealthDemands(c) == IF c.health.adapter = "http" THEN {"url"} ELSE {"command"}
LbDemands(flow) ==
    CASE flow = "single" -> {}
      [] flow = "multi" -> {"config_path", "upstream"}
      [] flow = "blue-green" -> {"include_dir", "upstream", "targets"}
Missing(c, flow) ==
    (ArtifactDemands(c) \cup ServiceDemands(c) \cup HealthDemands(c) \cup LbDemands(flow))
    \ SettingsMap(c)

(* build_policy_gate().                                                    *)
BuildPolicyGate(c) ==
    IF ~c.policy.present THEN NoPolicy
    ELSE [configured |-> TRUE, actions |-> Resolve(c.policy),
          unclassified |-> IF c.policy.unclassified = "require_approval" THEN "RequireApproval"
                           ELSE "Deny",
          hook |-> c.policy.approval_command]

BaselineOf(flow) == IF flow = "blue-green" THEN "WindowSafety" ELSE "None"
Uninspected == [caps |-> [preflight |-> FALSE, risk_tier |-> FALSE, window_safe |-> FALSE],
                report |-> NoReport]
Decide(c, flow, inspection) ==
    Evaluate(BuildPolicyGate(c), BaselineOf(flow), inspection.caps, inspection.report)

Lints(c) == PreflightMode(c) # "off"
(* A copy is classified only when a fresh one is taken and the adapter can. *)
OnACopy(c, flow) == flow = "single" /\ PreflightMode(c) = "fresh" /\ schema.deep

(* Mutant: the dry run forgets that a rollout of one host may rehearse.    *)
PreviewOfTheLiveSchema(c, flow, skip, depth) ==
    IF (flow # "blue-green" /\ skip) \/ ~BuildMigration(c) \/ ~Lints(c) THEN Uninspected
    ELSE schema.live

(* gather_rehearsed(): a copy only at depth, and nothing when it cannot be *)
(* made.                                                                   *)
GatherRehearsed(depth) ==
    CASE depth = "static" -> schema.live
      [] depth = "deep" -> schema.copy
      [] depth = "no_copy" -> Uninspected

(* preview_schema(): what the dry run inspects.                            *)
Preview(c, flow, skip, depth) ==
    IF (flow # "blue-green" /\ skip) \/ ~BuildMigration(c) \/ ~Lints(c) THEN Uninspected
    ELSE IF OnACopy(c, flow) THEN GatherRehearsed(depth)
    ELSE schema.live

WouldBlock(decision) == decision # "Allow"

(* `deploy --dry-run`.  Only blue-green builds every adapter for its plan. *)
DryRun(host, skip, depth) ==
    LET flow == Flow(config, host) IN
    /\ command = NoDeploy
    /\ UNCHANGED <<file, dsnSet, schema, command, timers, told>>
    /\ IF Validate(config) # {}
       THEN last' = Ended("dry_run", "refused") /\ UNCHANGED plan
       ELSE IF flow = "blue-green" /\ ~BuildBlueGreen(config)
       THEN last' = Ended("dry_run", "unbuildable") /\ UNCHANGED plan
       ELSE /\ last' = Ended("dry_run", "planned")
            /\ plan' = [made |-> TRUE, flow |-> flow, host |-> host, skip |-> skip,
                        blocks |-> WouldBlock(Decide(config, flow, Preview(config, flow, skip, depth))),
                        understates |-> OnACopy(config, flow) /\ depth # "deep"]

(* `deploy`: the configuration is validated and the adapters are built.    *)
StartDeploy(host, skip) ==
    LET flow == Flow(config, host) IN
    /\ command = NoDeploy
    /\ UNCHANGED <<file, dsnSet, schema, plan, timers, told>>
    /\ IF Validate(config) # {}
       THEN last' = Ended("deploy", "refused") /\ UNCHANGED command
       ELSE IF ~Builds(config, flow, host)
       THEN last' = Ended("deploy", "unbuildable") /\ UNCHANGED command
       ELSE /\ command' = [flow |-> flow, host |-> host, skip |-> skip]
            /\ last' = Ended("deploy", "running")

(* Its gate decides over what the flow inspected, and the saga ends as the *)
(* decision, the approver and the rest of the deploy have it; or the saga  *)
(* failed before it, or never had the lock.                                *)
OutcomeResult(inspection) ==
    /\ UNCHANGED <<file, dsnSet, schema, plan, timers, told>>
    /\ command' = NoDeploy
    /\ LET gate == Decide(config, command.flow, inspection) IN
       \/ /\ gate # "Deny" /\ Missing(config, command.flow) = {}
          /\ last' \in [op : {"deploy"}, result : {"committed", "rolled_back", "partial_rollback"},
                        gate : {gate}, from : {command}]
       \/ last' = [op |-> "deploy", result |-> "rolled_back", gate |-> gate, from |-> command]
       \/ last' \in {Ended("deploy", "rolled_back"), Ended("deploy", "error")}

(* Only the single-host flow honours `--skip-preflight` or takes a copy,   *)
(* and blue-green inspects whatever the mode says.                         *)
RunSingleHost ==
    /\ command.flow = "single"
    /\ OutcomeResult(IF command.skip \/ ~Lints(config) THEN Uninspected
                     ELSE IF OnACopy(config, "single") THEN schema.copy ELSE schema.live)

RunMultiHost ==
    /\ command.flow = "multi"
    /\ OutcomeResult(IF Lints(config) THEN schema.live ELSE Uninspected)

RunBlueGreen ==
    /\ command.flow = "blue-green"
    /\ OutcomeResult(schema.live)

(* `rollback` is a single-host deploy that no gate judges.                 *)
Rollback(host) ==
    /\ command = NoDeploy
    /\ last' = Ended("rollback", IF Validate(config) # {} THEN "refused"
                                 ELSE IF ~Build(config, host) THEN "unbuildable" ELSE "ran")
    /\ UNCHANGED <<file, dsnSet, schema, command, plan, timers, told>>

-----------------------------------------------------------------------------
(* referenced_secrets(): the DSN's variable, as far as a deploy's building *)
(* can miss one, and whether it is set.                                    *)
ReferencedSecrets(c) == IF c.migration.dsn # "unset" THEN {"dsn"} ELSE {}
EnvSet(secrets) == "dsn" \in secrets => dsnSet

(* `doctor`: a check that fails fails it, and a warning does not; `rest`   *)
(* stands for the other secrets and what it asks of the database.          *)
DoctorUnvalidated(rest) ==
    LET clear == EnvSet(ReferencedSecrets(config)) /\ rest IN
    /\ command = NoDeploy
    /\ last' = Ended("none", "none")
    /\ told' = IF clear THEN "doctor" ELSE "nothing"
    /\ UNCHANGED <<file, dsnSet, schema, command, plan, timers>>

Doctor(rest) ==
    LET clear == Validate(config) = {} /\ EnvSet(ReferencedSecrets(config)) /\ rest IN
    /\ command = NoDeploy
    /\ last' = Ended("none", "none")
    /\ told' = IF clear THEN "doctor" ELSE "nothing"
    /\ UNCHANGED <<file, dsnSet, schema, command, plan, timers>>

(* `env-check deploy`: only the variables.                                 *)
EnvCheck ==
    LET clear == EnvSet(ReferencedSecrets(config)) IN
    /\ command = NoDeploy
    /\ last' = Ended("none", "none")
    /\ told' = IF clear THEN "env" ELSE "nothing"
    /\ UNCHANGED <<file, dsnSet, schema, command, plan, timers>>

-----------------------------------------------------------------------------
Drills(c) == c.drill.present /\ c.drill.schedule # NoCalendar
Prunes(c) == c.backup.present /\ c.backup.retain # "none"
RefreshesOnTimer(c) == c.refresh.present /\ c.refresh.schedule # NoCalendar
UnitsOf(c) ==
    (IF c.schedule.present /\ c.schedule.command \in {"deploy", "backup"}
     THEN {c.schedule.command} ELSE {})
    \cup (IF Prunes(c) THEN {"prune"} ELSE {})
    \cup (IF Drills(c) THEN {"drill"} ELSE {})
    \cup (IF RefreshesOnTimer(c) THEN {"refresh"} ELSE {})

(* The validation the command of each timer runs.                          *)
CommandRefuses(c, unit) ==
    CASE unit = "deploy" -> Validate(c) # {}
      [] unit = "backup" -> ValidateDbOps(c) # {}
      [] unit = "prune" -> ValidateBackupOps(c) # {}
      [] unit = "drill" -> ValidateDbOps(c) # {} \/ ValidateBackupOps(c) # {}
      [] unit = "refresh" -> ~c.refresh.present \/ ValidateDbOps(c) # {}

(* Mutant: the deploy axes are not looked at.                              *)
ScheduledUnitReportsOfFiles(c) ==
    IF Prunes(c) \/ Drills(c) THEN ValidateBackupOps(c) ELSE {}

(* scheduled_unit_reports(): a refresh is not among them.                  *)
ScheduledUnitReports(c) ==
    (CASE c.schedule.present /\ c.schedule.command = "deploy" -> Validate(c)
       [] c.schedule.present /\ c.schedule.command = "backup" -> ValidateDbOps(c)
       [] OTHER -> {})
    \cup (IF Prunes(c) \/ Drills(c) THEN ValidateBackupOps(c) ELSE {})
    \cup (IF Drills(c) THEN ValidateDbOps(c) ELSE {})

(* `scheduled install`: the errors of four sections, and those reports;    *)
(* then the generator must be able to name and time every unit.            *)
ScheduledInstalls ==
    LET c == config IN
    /\ command = NoDeploy
    /\ UNCHANGED <<file, dsnSet, schema, command, plan, told>>
    /\ IF \/ Validate(c) \cap {"schedule", "notify", "backup", "drill"} # {}
          \/ ScheduledUnitReports(c) # {}
       THEN last' = Ended("install", "refused") /\ UNCHANGED timers
       ELSE IF UnitsOf(c) = {} \/ ~Named(c) \/ (RefreshesOnTimer(c) /\ ~ToOnCalendar(c.refresh.schedule))
       THEN last' = Ended("install", "unbuildable") /\ UNCHANGED timers
       ELSE last' = Ended("install", "installed") /\ timers' = [names |-> UnitsOf(c), stale |-> FALSE]

(* A timer of systemd runs its command on the file as it is then.          *)
UnitRuns(unit) ==
    /\ command = NoDeploy /\ unit \in timers.names
    /\ last' = Ended(unit, IF CommandRefuses(config, unit) THEN "refused" ELSE "ran")
    /\ UNCHANGED <<file, dsnSet, schema, command, plan, timers, told>>

-----------------------------------------------------------------------------
Outdated == plan' = NoPlan

(* The operator edits the file, the environment changes, a migration is    *)
(* added or another deploy applies one.                                    *)
EditFile ==
    /\ file' \in Edits \ {file}
    /\ Outdated /\ told' = "nothing" /\ timers' = [timers EXCEPT !.stale = TRUE]
    /\ command = NoDeploy /\ last' = Ended("none", "none")
    /\ UNCHANGED <<dsnSet, schema, command>>

EnvironmentMoves ==
    /\ dsnSet' = ~dsnSet
    /\ Outdated /\ told' = "nothing" /\ last' = Ended("none", "none")
    /\ UNCHANGED <<file, schema, command, timers>>

SchemaMoves ==
    /\ schema' \in Schemas \ {schema}
    /\ Outdated
    /\ UNCHANGED <<file, dsnSet, command, timers, told, last>>

(* Whether a copy is asked for, and had, only matters where one is taken.  *)
Depths(host) ==
    IF OnACopy(config, Flow(config, host)) THEN {"static", "deep", "no_copy"} ELSE {"static"}

WiringNext ==
    \/ \E host, skip \in BOOLEAN :
          \/ StartDeploy(host, skip)
          \/ \E depth \in Depths(host) : DryRun(host, skip, depth)
    \/ RunSingleHost \/ RunMultiHost \/ RunBlueGreen
    \/ \E host \in BOOLEAN : Rollback(host)
    \/ \E rest \in BOOLEAN : Doctor(rest)
    \/ EnvCheck
    \/ ScheduledInstalls
    \/ \E unit \in timers.names : UnitRuns(unit)
    \/ EditFile \/ EnvironmentMoves \/ SchemaMoves

WiringSpec == WiringInit /\ [][WiringNext]_wiringVars

-----------------------------------------------------------------------------
(* What the dry run is for: when nothing moved since, it says the deploy   *)
(* would be held exactly when the deploy's gate holds it - except in a     *)
(* rollout of several hosts with `--skip-preflight`, which only the dry    *)
(* run honours; in a blue-green deploy whose preflight is off, which only  *)
(* the dry run believes; and when it says that it did not take the copy    *)
(* the deploy will classify on.                                            *)
PreviewAgrees ==
    (/\ plan.made /\ ~plan.understates
     /\ last.op = "deploy" /\ last.gate # "none"
     /\ last.from = [flow |-> plan.flow, host |-> plan.host, skip |-> plan.skip]
     /\ ~(plan.flow = "multi" /\ plan.skip)
     /\ ~(plan.flow = "blue-green" /\ ~Lints(config)))
    => (plan.blocks <=> last.gate # "Allow")

(* A configuration that validates can be built, whatever flow it selects,  *)
(* but for what validate.rs leaves to the factory: an adapter of another   *)
(* build, a rollout without a load balancer, blue-green with an inventory  *)
(* or without a systemd unit, a rollback that names no host, and a         *)
(* variable that is not set, where neither `doctor` nor `env-check` said   *)
(* it was.  And the deploy that starts does not stop half way for a        *)
(* setting nobody gave - but for the active_path validation warns about,   *)
(* and the file a rolling rollout edits, where validation takes a          *)
(* directory for one.                                                      *)
ValidatedBuilds ==
    /\ command # NoDeploy
       => Missing(config, command.flow) \subseteq
              {"active_path"} \cup (IF command.flow = "multi" THEN {"config_path"} ELSE {})
    /\ (last.result = "unbuildable" /\ last.op # "install")
       => LET c == config IN
          \/ "other" \in {c.service.adapter, c.health.adapter}
          \/ c.deploy.strategy # "blue-green" /\ c.hosts.present /\ ~BuildLb(c)
          \/ c.deploy.strategy = "blue-green" /\ (c.hosts.present \/ "unit" \notin c.service.fields)
          \/ c.migration.adapter = "ipc" /\ ~dsnSet /\ told = "nothing"
          \/ last.op = "rollback" /\ c.hosts.present

(* A timer is installed only when the command it runs accepts the          *)
(* configuration, so while the file stays as it was no run is refused -    *)
(* except that nobody looks at [refresh] for the refresh timer.            *)
InstalledUnitsAccepted ==
    (last.op \in timers.names /\ last.result = "refused" /\ ~timers.stale) => last.op = "refresh"

(* While nothing moves, a deploy the doctor cleared is not refused.        *)
DoctorVouches ==
    (told = "doctor" /\ last.op \in {"deploy", "rollback", "dry_run"}) => last.result # "refused"

(* What fraisier accepts today it does not refuse tomorrow: a validated    *)
(* configuration deploys, an installed timer's command runs, and so does   *)
(* what `doctor` cleared.                                                  *)
AcceptedIsNotRefused == ValidatedBuilds /\ InstalledUnitsAccepted /\ DoctorVouches
=============================================================================
