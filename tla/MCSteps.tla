------------------------------ MODULE MCSteps -------------------------------
(* Two releases, two probes per health check and two migrations.  The      *)
(* configurations vary a plain one, a rolling one, a blue-green one and    *)
(* the preset's, a section or two at a time.                               *)
EXTENDS Steps

Plain ==
    [deploy |-> [name |-> TRUE, environment |-> TRUE, production |-> "unset", strategy |-> "unset"],
     hosts |-> Off, artifact |-> [source |-> "release", from |-> TRUE, checksum |-> TRUE,
                                   active_path |-> TRUE],
     migration |-> [adapter |-> "confiture", dsn |-> "APP_DSN", settings |-> FALSE,
                    preflight |-> "unset", lint |-> "unset"],
     service |-> [adapter |-> "systemd", fields |-> {"unit"}],
     health |-> [adapter |-> "http", url |-> TRUE, command |-> FALSE, status |-> "unset",
                 capabilities |-> "unset", token_provider |-> "unset"],
     lb |-> Off, blue_green |-> Off, schedule |-> Off, database |-> Off, backup |-> Off,
     drill |-> Off, refresh |-> Off, policy |-> Off, notify |-> "absent", webhook |-> "absent",
     sync |-> "absent", metrics |-> "absent", checks |-> "absent", specql |-> Off]
Nginx == [present |-> TRUE, adapter |-> "nginx", config_path |-> TRUE, include_dir |-> TRUE,
          upstream |-> TRUE]
Fleet == [present |-> TRUE, inventory |-> "ok", strategy |-> "rolling", batch |-> "some"]
Green == [present |-> TRUE, green_unit |-> TRUE, green_health_url |-> TRUE, green_servers |-> TRUE]
BackupsOn == [present |-> TRUE, dir |-> "plain", retain |-> "valid"]
Weekly == [present |-> TRUE, schedule |-> <<"weekly", "dow", "time">>, limits |-> TRUE]
Nightly == [present |-> TRUE, source |-> "other_environment", sanitize |-> "path", reason |-> FALSE,
            units |-> TRUE, flag |-> TRUE, schedule |-> <<"hourly">>, limits |-> TRUE]
Pg16 == [present |-> TRUE, requires |-> TRUE, major |-> "valid", pg_tviews |-> TRUE,
         on_empty |-> "unset", admin |-> "ADMIN_DSN"]
Strict == [present |-> TRUE, auto_apply |-> {"additive"}, require_approval |-> {"destructive"},
           misnamed |-> FALSE, unclassified |-> "require_approval", timeout |-> "unset",
           approval_command |-> TRUE]
Lax == [Strict EXCEPT !.require_approval = {}, !.unclassified = "deny", !.approval_command = FALSE]

Staging == [Plain EXCEPT !.deploy.production = "false", !.refresh = Nightly]
Rolling == [Plain EXCEPT !.hosts = Fleet, !.lb = Nginx]
BlueGreen == [Plain EXCEPT !.deploy.strategy = "blue-green", !.lb = Nginx, !.blue_green = Green]

(* A value of the set that differs from the good one in at most n fields.  *)
Near(good, sections, n) ==
    {s \in sections : s.present => Cardinality({k \in DOMAIN s : s[k] # good[k]}) <= n}
Around(good, sections, n) ==
    {s \in sections : Cardinality({k \in DOMAIN s : s[k] # good[k]}) <= n}

GatedFiles ==
    {[c EXCEPT !.policy = p, !.migration.preflight = m] :
        c \in {Plain, Rolling, BlueGreen}, p \in {Off, Strict, Lax}, m \in {"off", "fresh"}}
    \cup {[Plain EXCEPT !.policy = p, !.migration.preflight = m] :
            p \in {Off, Strict, Lax}, m \in {"live", "archive"}}

AxisFiles ==
    {[Plain EXCEPT !.deploy = s] : s \in Around(Plain.deploy, DeploySections, 1)}
    \cup {[Plain EXCEPT !.artifact = s] :
            s \in {s \in ArtifactSections :
                       Cardinality({k \in {"from", "checksum", "active_path"} : ~s[k]}) <= 1}}
    \cup {[Plain EXCEPT !.migration = s] : s \in Around(Plain.migration, MigrationSections, 1)
            \cup Around([Plain.migration EXCEPT !.adapter = "ipc"], MigrationSections, 1)}
    \cup {[Plain EXCEPT !.service = s] : s \in ServiceSections}
    \cup {[BlueGreen EXCEPT !.service = s] : s \in Around(Plain.service, ServiceSections, 1)}
    \cup {[Plain EXCEPT !.health = s] : s \in Around(Plain.health, HealthSections, 1)}
    \cup {[Plain EXCEPT !.health = s] :
            s \in Around([Plain.health EXCEPT !.adapter = "command", !.url = FALSE, !.command = TRUE],
                         HealthSections, 1)}
    \cup {[Rolling EXCEPT !.hosts = s] : s \in Near(Fleet, HostsSections, 1)}
    \cup {[c EXCEPT !.lb = s] : c \in {Rolling, BlueGreen}, s \in Near(Nginx, LbSections, 1)}
    \cup {[BlueGreen EXCEPT !.blue_green = s] : s \in BlueGreenSections}
    \cup {[BlueGreen EXCEPT !.hosts = Fleet]}
    \cup {[Plain EXCEPT !.policy = s] : s \in Near(Strict, PolicySections, 1)}

DataFiles ==
    {[b EXCEPT !.schedule = s] :
        s \in {s \in ScheduleSections : s.present /\ s.command # "unset" /\ ~s.raw /\ ~s.notify
                    /\ s.calendar \in {<<"hourly">>, <<"monthly", "dow", "time">>}},
        b \in {Plain, [Plain EXCEPT !.notify = "blank", !.backup = BackupsOn]}}
    \cup {[Plain EXCEPT !.database = s, !.backup = BackupsOn, !.drill = Weekly] :
            s \in Near(Pg16, DatabaseSections, 1)}
    \cup {[Plain EXCEPT !.backup = s, !.drill = Weekly] : s \in Near(BackupsOn, BackupSections, 1)}
    \cup {[Plain EXCEPT !.backup = BackupsOn, !.drill = d] : d \in Near(Weekly, DrillSections, 1)}
    \cup {[Staging EXCEPT !.refresh = s] : s \in Near(Nightly, RefreshSections, 1)}
    \cup {[Plain EXCEPT !.backup = BackupsOn, !.drill = Weekly, !.migration.dsn = "unset"]}
    \cup {[Plain EXCEPT ![k] = s] : k \in {"webhook", "sync", "metrics", "checks"}, s \in Small}

PresetFiles ==
    {[Plain EXCEPT !.specql = p, !.deploy.name = FALSE, !.deploy.environment = FALSE,
                   !.artifact = a, !.migration.adapter = "unset", !.migration.dsn = "unset",
                   !.service = [adapter |-> "unset", fields |-> {}],
                   !.health = [Plain.health EXCEPT !.adapter = "unset", !.url = FALSE],
                   !.hosts = h] :
        p \in SpecqlSections,
        a \in {[source |-> "unset", from |-> FALSE, checksum |-> FALSE, active_path |-> TRUE],
               Plain.artifact},
        h \in {Off, [Fleet EXCEPT !.inventory = "empty"]}}

MCConfigFiles == GatedFiles \cup AxisFiles \cup DataFiles \cup PresetFiles
MCEdits == {Plain, BlueGreen}

(* The copy rehearsed on classifies what the live schema leaves open, or   *)
(* the pending migrations are destructive, or break the old release.       *)
Inspection(safe, changes) ==
    [caps |-> [preflight |-> TRUE, risk_tier |-> TRUE, window_safe |-> TRUE],
     report |-> [present |-> TRUE, window_safe |-> safe, set |-> "usable", changes |-> changes,
                 blocking |-> FALSE]]
MCSchemas ==
    {[deep |-> TRUE, live |-> Inspection("true", {"unclassified"}),
      copy |-> Inspection("true", {"additive"})],
     [deep |-> FALSE, live |-> Inspection("false", {"destructive"}),
      copy |-> Inspection("true", {})]}
=============================================================================
