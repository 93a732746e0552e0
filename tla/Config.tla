------------------------------- MODULE Config -------------------------------
(***************************************************************************)
(* fraisier-config: the sections of a fraisier.toml and the validation     *)
(* pass over them.  A field is what validation tells apart: whether it is  *)
(* set, which of the known values it has, or which rule it breaks.  A      *)
(* section that is absent and one without its first field are refused      *)
(* alike, so only optional sections carry `present`.                       *)
(*                                                                         *)
(* A validator returns the sections its errors are located in, which are   *)
(* not always the one it looks at; a warning refuses nothing.              *)
(***************************************************************************)
EXTENDS PolicyGate, TLC

Off == [present |-> FALSE]
At(section, broken) == IF broken THEN {section} ELSE {}

(* to_on_calendar(): the shapes of the native vocabulary, each word by what *)
(* it parses as; a time is in range, a day of the week or of the month too. *)
ToOnCalendar(spec) ==
    spec \in {<<"hourly">>, <<"daily", "time">>, <<"weekly", "dow", "time">>,
              <<"monthly", "dom", "time">>}
NoCalendar == <<"unset">>
Calendars == {NoCalendar, <<"hourly">>, <<"weekly", "dow", "time">>, <<"monthly", "dow", "time">>}

(* The sections.                                                           *)
DeploySections == [name : BOOLEAN, environment : BOOLEAN, production : {"unset", "true", "false"},
                   strategy : {"unset", "blue-green", "other"}]
HostsSections == {Off} \cup
    [present : {TRUE}, inventory : {"ok", "empty", "unnamed", "no_address", "twice"},
     strategy : {"unset", "rolling", "all-at-once", "other"}, batch : {"unset", "zero", "some"}]
PolicySections == {Off} \cup
    [present : {TRUE}, auto_apply : SUBSET Tiers, require_approval : SUBSET Tiers,
     misnamed : BOOLEAN, unclassified : {"deny", "require_approval", "other"},
     timeout : {"unset", "zero"}, approval_command : BOOLEAN]
ArtifactSections ==
    [source : {"unset", "release", "pull", "release-ipc", "git", "local", "other"},
     from : BOOLEAN, checksum : BOOLEAN, active_path : BOOLEAN]
MigrationSections ==
    [adapter : {"unset", "none", "confiture", "command", "ipc"}, dsn : {"unset", "APP_DSN"},
     settings : BOOLEAN, preflight : {"unset", "live", "fresh", "archive", "off"},
     lint : {"unset", "true", "false"}]
ServiceSections ==
    [adapter : {"unset", "systemd", "rc", "docker-compose", "other"},
     fields : SUBSET {"unit", "name", "compose_service"}]
HealthSections ==
    [adapter : {"unset", "http", "command", "other"}, url : BOOLEAN, command : BOOLEAN,
     status : {"unset", "valid", "out_of_range"}, capabilities : {"unset", "listed", "flawed"},
     token_provider : {"unset", "valid", "flawed"}]
LbSections == {Off} \cup
    [present : {TRUE}, adapter : {"unset", "nginx", "other"}, config_path : BOOLEAN,
     include_dir : BOOLEAN, upstream : BOOLEAN]
BlueGreenSections == {Off} \cup
    [present : {TRUE}, green_unit : BOOLEAN, green_health_url : BOOLEAN, green_servers : BOOLEAN]
ScheduleSections == {Off} \cup
    [present : {TRUE}, calendar : Calendars, raw : BOOLEAN,
     command : {"unset", "deploy", "backup", "other"}, unattended : BOOLEAN, notify : BOOLEAN]
DatabaseSections == {Off} \cup
    [present : {TRUE}, requires : BOOLEAN, major : {"unset", "old", "valid"}, pg_tviews : BOOLEAN,
     on_empty : {"no_section", "unset", "fail", "other"},
     admin : {"unset", "blank", "APP_DSN", "ADMIN_DSN"}]
BackupSections == {Off} \cup
    [present : {TRUE}, dir : {"unset", "plain", "relative", "odd"},
     retain : {"none", "valid", "flawed", "outside_dir", "twice"}]
DrillSections == {Off} \cup
    [present : {TRUE}, schedule : Calendars, limits : BOOLEAN]
RefreshSections == {Off} \cup
    [present : {TRUE}, source : {"other_environment", "own", "flawed"},
     sanitize : {"unset", "none", "path", "odd_path"}, reason : BOOLEAN, units : BOOLEAN,
     flag : BOOLEAN, schedule : Calendars, limits : BOOLEAN]

(* A section whose one required field may be missing.                      *)
Small == {"absent", "set", "blank"}

(* The [specql] preset: a name, an environment and some hosts.             *)
SpecqlSections == {Off} \cup
    [present : {TRUE}, name : BOOLEAN, environment : BOOLEAN, multi_host : BOOLEAN]

(* SpecqlPreset::expand(): the conventional axes; several hosts make a     *)
(* rolling rollout behind nginx.                                           *)
Expand(s) ==
    [deploy |-> [name |-> s.name, environment |-> s.environment, production |-> "unset",
                 strategy |-> "unset"],
     hosts |-> IF s.multi_host
               THEN [present |-> TRUE, inventory |-> "ok", strategy |-> "rolling", batch |-> "some"]
               ELSE Off,
     artifact |-> [source |-> "local", from |-> TRUE, checksum |-> FALSE, active_path |-> FALSE],
     migration |-> [adapter |-> "confiture", dsn |-> "APP_DSN", settings |-> FALSE,
                    preflight |-> "unset", lint |-> "true"],
     service |-> [adapter |-> "systemd", fields |-> IF s.name THEN {"unit"} ELSE {}],
     health |-> [adapter |-> "http", url |-> TRUE, command |-> FALSE, status |-> "valid",
                 capabilities |-> "unset", token_provider |-> "unset"],
     lb |-> IF s.multi_host THEN [present |-> TRUE, adapter |-> "nginx", config_path |-> TRUE,
                                  include_dir |-> FALSE, upstream |-> TRUE]
            ELSE Off]

Prefer(base, over) == IF over = "unset" THEN base ELSE over

OverlayHosts(b, o) ==
    IF ~b.present THEN o ELSE IF ~o.present THEN b
    ELSE [present |-> TRUE, inventory |-> IF o.inventory = "empty" THEN b.inventory ELSE o.inventory,
          strategy |-> Prefer(b.strategy, o.strategy), batch |-> Prefer(b.batch, o.batch)]

(* Another source than the preset's replaces the section.                  *)
OverlayArtifact(b, o) ==
    IF o.source \notin {"unset", b.source} THEN o
    ELSE [source |-> b.source, from |-> b.from \/ o.from, checksum |-> b.checksum \/ o.checksum,
          active_path |-> b.active_path \/ o.active_path]

OverlayMigration(b, o) ==
    [adapter |-> Prefer(b.adapter, o.adapter), dsn |-> Prefer(b.dsn, o.dsn),
     settings |-> b.settings \/ o.settings, preflight |-> Prefer(b.preflight, o.preflight),
     lint |-> Prefer(b.lint, o.lint)]

OverlayHealth(b, o) ==
    [adapter |-> Prefer(b.adapter, o.adapter), url |-> b.url \/ o.url,
     command |-> b.command \/ o.command, status |-> Prefer(b.status, o.status),
     capabilities |-> Prefer(b.capabilities, o.capabilities),
     token_provider |-> Prefer(b.token_provider, o.token_provider)]

OverlayLb(b, o) ==
    IF ~b.present THEN o ELSE IF ~o.present THEN b
    ELSE [present |-> TRUE, adapter |-> Prefer(b.adapter, o.adapter),
          config_path |-> b.config_path \/ o.config_path,
          include_dir |-> b.include_dir \/ o.include_dir, upstream |-> b.upstream \/ o.upstream]

(* DeployConfig::from_toml_str(): what the file says over what the preset  *)
(* expands to; every other section is the file's.                          *)
Load(file) ==
    IF ~file.specql.present THEN file
    ELSE LET b == Expand(file.specql) IN
         [file EXCEPT
            !.deploy = [@ EXCEPT !.name = @ \/ b.deploy.name,
                                 !.environment = @ \/ b.deploy.environment],
            !.hosts = OverlayHosts(b.hosts, @),
            !.artifact = OverlayArtifact(b.artifact, @),
            !.migration = OverlayMigration(b.migration, @),
            !.service = [adapter |-> Prefer(b.service.adapter, @.adapter),
                         fields |-> b.service.fields \cup @.fields],
            !.health = OverlayHealth(b.health, @),
            !.lb = OverlayLb(b.lb, @)]

(* MigrationSection::effective_preflight_mode(): the mode wins over the    *)
(* older flag, and lint is the default.                                    *)
PreflightMode(c) ==
    IF c.migration.preflight # "unset" THEN c.migration.preflight
    ELSE IF c.migration.lint = "false" THEN "off" ELSE "live"

Rehearsal(c) == PreflightMode(c) \in {"fresh", "archive"}

(* PolicySection::resolve(): a tier no list names keeps no action.         *)
Resolve(p) ==
    [t \in Tiers |-> IF t \in p.require_approval THEN "RequireApproval"
                         ELSE IF t \in p.auto_apply THEN "AutoApply" ELSE "absent"]

ValidateDeploy(c) == At("deploy", ~c.deploy.name \/ ~c.deploy.environment)

(* A missing active_path is only warned of.                                *)
ValidateArtifact(c) ==
    LET a == c.artifact IN
    At("artifact",
       \/ a.source \in {"unset", "other"}
       \/ ~a.from
       \/ a.source \in {"release", "pull", "release-ipc"} /\ ~a.checksum)

ValidateMigration(c) ==
    LET m == c.migration IN
    At("migration",
       \/ m.adapter = "unset"
       \/ m.adapter = "confiture" /\ m.dsn = "unset"
       \/ m.adapter = "none" /\ (m.dsn # "unset" \/ m.settings)
       \/ Rehearsal(c) /\ m.adapter # "confiture")

(* An adapter this build does not know is not an error here.               *)
ValidateService(c) ==
    LET needs == [systemd |-> "unit", rc |-> "name"] @@ ("docker-compose" :> "compose_service") IN
    At("service",
       \/ c.service.adapter = "unset"
       \/ c.service.adapter \in DOMAIN needs /\ needs[c.service.adapter] \notin c.service.fields)

ValidateHealth(c) ==
    LET h == c.health IN
    At("health",
       \/ h.adapter = "unset"
       \/ h.adapter = "http" /\ ~h.url
       \/ h.adapter = "command" /\ (~h.command \/ h.url \/ h.status # "unset")
       \/ h.status = "out_of_range"
       \/ h.capabilities = "flawed" \/ h.token_provider = "flawed"
       \/ h.adapter # "http" /\ (h.capabilities # "unset" \/ h.token_provider # "unset"))

ValidateHosts(c) ==
    At("hosts",
       /\ c.hosts.present
       /\ \/ c.hosts.inventory # "ok"
          \/ c.hosts.strategy = "other"
          \/ c.hosts.strategy \in {"unset", "rolling"} /\ c.hosts.batch = "zero")

(* nginx edits one file (a rolling deploy) or swaps in a directory.        *)
ValidateLb(c) ==
    At("lb",
       /\ c.lb.present
       /\ \/ c.lb.adapter = "unset"
          \/ c.lb.adapter = "nginx" /\ (~(c.lb.config_path \/ c.lb.include_dir) \/ ~c.lb.upstream))

ValidateBlueGreen(c) ==
    LET b == c.blue_green IN
    CASE c.deploy.strategy = "unset" -> {}
      [] c.deploy.strategy = "other" -> {"deploy"}
      [] OTHER ->
            IF ~b.present THEN {"blue_green"}
            ELSE At("blue_green", ~b.green_unit \/ ~b.green_health_url \/ ~b.green_servers)
                 \cup (IF c.lb.present
                       THEN At("lb", \/ c.lb.adapter # "nginx"
                                     \/ ~c.lb.upstream \/ ~c.lb.include_dir)
                       ELSE {"lb"})
                 \cup At("migration", c.migration.adapter = "unset")

(* One of the two calendars is set.  A deploy nobody watches needs consent *)
(* and someone to tell.                                                    *)
ValidateSchedule(c) ==
    LET s == c.schedule
        deploys == s.command = "deploy" IN
    IF ~s.present THEN {}
    ELSE At("schedule", \/ s.raw <=> s.calendar # NoCalendar
                        \/ ~s.raw /\ ~ToOnCalendar(s.calendar)
                        \/ s.command \in {"unset", "other"}
                        \/ deploys /\ ~s.unattended
                        \/ s.notify)
         \cup At("notify", deploys /\ c.notify # "set")

ValidateNotify(c) == At("notify", c.notify = "blank")
ValidateWebhook(c) == At("webhook", c.webhook = "blank")
ValidateSync(c) == At("sync", c.sync = "blank")
ValidateMetrics(c) == At("metrics", c.metrics = "blank")
ValidateChecks(c) == At("checks", c.checks = "blank")

(* The restore identity is never the application's.                        *)
ValidateAdminIdentity(c) ==
    At("database", \/ c.database.admin = "blank"
                   \/ c.database.admin # "unset" /\ c.database.admin = c.migration.dsn)

ValidateTviewsGate(c) ==
    LET d == c.database IN
    At("database", \/ d.on_empty # "no_section" /\ ~(d.requires /\ d.pg_tviews)
                   \/ d.on_empty = "other")

ValidateDatabase(c) ==
    LET d == c.database IN
    IF ~d.present THEN {}
    ELSE ValidateAdminIdentity(c) \cup ValidateTviewsGate(c)
         \cup At("database", d.requires /\ (\/ d.major = "unset" /\ ~d.pg_tviews
                                            \/ d.major = "old"))
         \cup At("migration", d.requires /\ c.migration.dsn = "unset")

ValidateRetainEntry(c) == At("backup", c.backup.retain \in {"flawed", "outside_dir"})

(* A scheduled backup names a new file at every run, in the directory.     *)
ValidateBackup(c) ==
    IF ~c.backup.present
    THEN At("backup", c.schedule.present /\ c.schedule.command = "backup")
    ELSE At("backup", c.backup.dir # "plain") \cup ValidateRetainEntry(c)
         \cup At("backup", c.backup.retain = "twice")

ValidateDrill(c) ==
    IF ~c.drill.present THEN {}
    ELSE At("drill", \/ ~c.backup.present \/ c.backup.dir = "unset"
                     \/ c.drill.schedule # NoCalendar /\ ~ToOnCalendar(c.drill.schedule)
                     \/ ~c.drill.limits)

ValidateSanitize(r) ==
    At("refresh", \/ r.sanitize \in {"unset", "odd_path"}
                  \/ r.sanitize = "none" /\ ~r.reason
                  \/ r.sanitize = "path" /\ r.reason)

(* A refresh drops the database, so the environment says it is not         *)
(* production.                                                             *)
ValidateRefresh(c) ==
    LET r == c.refresh IN
    IF ~r.present THEN {}
    ELSE At("deploy", c.deploy.production # "false")
         \cup At("refresh", \/ r.source # "other_environment"
                            \/ ~r.units \/ ~r.flag \/ ~r.limits
                            \/ r.schedule # NoCalendar /\ ~ToOnCalendar(r.schedule))
         \cup ValidateSanitize(r)

ValidatePolicy(c) ==
    LET p == c.policy IN
    IF ~p.present THEN {}
    ELSE At("policy", \/ p.misnamed
                      \/ p.auto_apply \cap p.require_approval # {}
                      \/ p.unclassified = "other"
                      \/ p.timeout = "zero")

(* DeployConfig::validate(), and the parts of it some commands ask for.    *)
Validate(c) ==
    UNION {ValidateDeploy(c), ValidateArtifact(c), ValidateMigration(c), ValidateService(c),
           ValidateHealth(c), ValidateHosts(c), ValidateLb(c), ValidateWebhook(c),
           ValidateSchedule(c), ValidateNotify(c), ValidateDatabase(c), ValidateBackup(c),
           ValidateDrill(c), ValidateRefresh(c), ValidateMetrics(c), ValidateSync(c),
           ValidateBlueGreen(c), ValidateChecks(c), ValidatePolicy(c)}

ValidateDbOps(c) ==
    UNION {ValidateDeploy(c), ValidateMigration(c), ValidateMetrics(c), ValidateDatabase(c),
           ValidateBackup(c), ValidateRefresh(c)}

ValidateBackupOps(c) ==
    UNION {ValidateDeploy(c), ValidateBackup(c), ValidateDrill(c), ValidateMetrics(c)}
=============================================================================
