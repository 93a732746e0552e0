---------------------------- MODULE MCStateFiles ----------------------------
(* Model-checking instances of StateFiles: three commands of one host, of  *)
(* which at most two are deploys, and a fleet deploy next to a migration.  *)
EXTENDS StateFiles

Three(a, b, c) == [p \in Procs |-> CASE p = 1 -> a [] p = 2 -> b [] p = 3 -> c]

ThreeCommands ==
    {<<"single", Three("deploy", "migrate", "pull")>>,
     <<"single", Three("deploy", "deploy", "migrate")>>}

FleetAndMigration == {<<"fleet", [p \in Procs |-> IF p = 1 THEN "deploy" ELSE "migrate"]>>}

=============================================================================
