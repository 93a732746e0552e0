----------------------------- MODULE Databases ------------------------------
(***************************************************************************)
(* The `db` commands on the live database: migrate, reset, restore and     *)
(* tviews rebuild, one at a time, beside a deploy that migrates and        *)
(* commits.  None of them takes the deploy lock.                           *)
(***************************************************************************)
EXTENDS Integers

CONSTANTS Newest,      \* the revision `up(None)` migrates to
          DbSetups     \* the configurations and servers tried

VARIABLES setup,       \* the configuration, the roles, and the server behind them
          db,          \* the live database: data, revision, pg_tviews, TVIEWs empty over rows
          ledger,      \* DeployRecord: the active artifact and the revision
          cmd,         \* the command running
          said,        \* what the last command answered
          rollout,     \* the deploy beside it
          committed,   \* history: the artifact the last commit recorded
          overlap,     \* history: someone else moved the database while this command ran
          window,      \* history: a commit fell between a command's read and write of the record
          moved,       \* history: the database moved since the deploy's readiness probe began
          broke        \* history: pg_restore failed half way, or the schemas were dropped

roleVars == <<setup, rollout, committed>>
seenVars == <<overlap, window, moved, broke>>
dbVars == <<roleVars, seenVars, db, ledger, cmd, said>>

NoRevision == 0
Unread     == -1
NoCmd  == [op |-> "none", at |-> "none", rev |-> 0, snap |-> 0, before |-> "app"]
Silent == [op |-> "none", res |-> "none", told |-> FALSE, probed |-> FALSE, rev |-> 0, before |-> "app"]

(* The registry holds an UNLOGGED TVIEW, which a restore or a crash brings *)
(* back empty, and a LOGGED one.                                           *)
Tviews == {"unlogged", "logged"}
TviewsContract == 2

(* The server, ready or short of one thing; contract 0 cannot be read.     *)
Ready == [major |-> TRUE, preload |-> "yes", contract |-> TviewsContract]
Servers ==
    {Ready, [Ready EXCEPT !.major = FALSE]}
    \cup {[Ready EXCEPT !.preload = p] : p \in {"no", "hidden"}}
    \cup {[Ready EXCEPT !.contract = c] : c \in {0, 1, 3}}

(* [database].admin_url_env: none, named but unset, or a role that is a    *)
(* superuser, is not one, or is one of another cluster.  `requires` is     *)
(* [database.requires].pg_tviews with [database.tviews].on_empty, and      *)
(* `grants` the TVIEWs the app role may read.                              *)
Setups ==
    {s \in [admin : {"none", "unset", "super", "plain", "elsewhere"}, appSuper : BOOLEAN,
            tviews : BOOLEAN, requires : {"none", "fail", "warn"}, server : Servers,
            grants : {{"unlogged"}, Tviews}] :
        ~s.tviews => s.grants = Tviews}

ASSUME DbSetupsAssumption == DbSetups \subseteq Setups

DbInit ==
    /\ setup \in DbSetups
    /\ db = [data |-> "app", rev |-> 1, installed |-> setup.tviews, empty |-> {}]
    /\ ledger = [active |-> 1, rev |-> 1]
    /\ cmd = NoCmd /\ said = Silent
    /\ rollout = "idle" /\ committed = 1
    /\ overlap = FALSE /\ window = FALSE /\ moved = FALSE /\ broke = FALSE

(* The command answers, and its working state is gone.                     *)
AnswerProbed(res, told, probed) ==
    /\ said' = [op |-> cmd.op, res |-> res, told |-> told, probed |-> probed,
                rev |-> cmd.rev, before |-> cmd.before]
    /\ cmd' = NoCmd
Answer(res) == AnswerProbed(res, FALSE, FALSE)

(* A command moved the database under a deploy that is being checked.      *)
Moves == moved' = (moved \/ rollout \in {"ready", "cleared"})

Run(op, at) ==
    /\ cmd = NoCmd /\ said = Silent
    /\ cmd' = [NoCmd EXCEPT !.op = op, !.at = at, !.before = db.data]
    /\ overlap' = (rollout = "migrated")
    /\ UNCHANGED <<roleVars, db, ledger, said, window, moved, broke>>

(* RestoreIdentity: the admin role when one is configured, and never the   *)
(* app role in its place when its variable is unset.                       *)
Resolved == setup.admin # "unset"
Here == setup.admin # "elsewhere"
Superuser == setup.admin \in {"super", "elsewhere"} \/ (setup.admin = "none" /\ setup.appSuper)

(* doctor's database_admin check: none without an admin, and a pass only   *)
(* for a superuser on the cluster the app role reaches.                    *)
JudgeAdminSuperuser(appAsked) ==
    CASE setup.admin = "none" -> "absent"
      [] setup.admin \in {"super", "elsewhere"} /\ appAsked -> "pass"
      [] OTHER -> "fail"

JudgeAdmin(appAsked) ==
    CASE setup.admin = "none" -> "absent"
      [] setup.admin = "super" /\ appAsked -> "pass"
      [] OTHER -> "fail"

-----------------------------------------------------------------------------
(* What psql is asked of the server: its facts, pg_tviews' contract when   *)
(* it is installed, and then the registry.                                 *)
Assess ==
    LET s == setup.server
        reasons ==
          [server_too_old     |-> ~s.major,
           preload_unreadable |-> s.preload = "hidden",
           preload_missing    |-> s.preload = "no",
           extension_absent   |-> ~db.installed,
           contract_unreadable |-> db.installed /\ s.contract = 0,
           contract_outdated  |-> db.installed /\ s.contract \in 1..(TviewsContract - 1),
           contract_newer     |-> db.installed /\ s.contract > TviewsContract]
    IN {r \in DOMAIN reasons : reasons[r]}

(* Which of it a deploy minds, and what it makes of an empty TVIEW.        *)
Requirements == setup.requires # "none"
FailsOnEmpty == setup.requires = "fail"

(* observe and assess: a probe that cannot run is no answer.               *)
Observe(answered) == answered /\ Assess = {}

UsableSchema == db.installed /\ setup.server.contract = TviewsContract

Readable(super) == IF super THEN Tviews ELSE setup.grants

(* find_empty: the TVIEWs without rows over a view with rows, among those  *)
(* the role may read; the others are named and not checked.                *)
FindEmpty(super) ==
    [empty |-> db.empty \cap Readable(super), unreadable |-> Tviews \ Readable(super)]

-----------------------------------------------------------------------------
(* db_migrate: the preflight gate the deploy uses, then up(None).          *)
Preflight(clear) ==
    /\ cmd.op = "migrate" /\ cmd.at = "preflight"
    /\ IF clear THEN cmd' = [cmd EXCEPT !.at = "up"] /\ UNCHANGED said
       ELSE Answer("refused")
    /\ UNCHANGED <<roleVars, seenVars, db, ledger>>

(* db_reset: the schemas are dropped first, then the adapter is built and  *)
(* the migrations applied from scratch.                                    *)
DropSchemas(ok) ==
    /\ cmd.op = "reset" /\ cmd.at = "drop"
    /\ IF ok
       THEN /\ db' = [data |-> "empty", rev |-> NoRevision, installed |-> FALSE, empty |-> {}]
            /\ cmd' = [cmd EXCEPT !.at = "up"]
            /\ broke' = TRUE /\ Moves /\ UNCHANGED said
       ELSE Answer("failed") /\ UNCHANGED <<db, moved, broke>>
    /\ UNCHANGED <<roleVars, ledger, overlap, window>>

(* A failing `up` ends the command with an error before the ledger is      *)
(* touched, wherever its migrations stopped.                               *)
Up(reached) ==
    /\ cmd.op \in {"migrate", "reset"} /\ cmd.at = "up" /\ reached \in db.rev..Newest
    /\ db' = [db EXCEPT !.rev = reached]
    /\ IF reached = Newest THEN cmd' = [cmd EXCEPT !.at = "read"] /\ UNCHANGED said
       ELSE Answer("failed")
    /\ UNCHANGED <<roleVars, seenVars, ledger>>

(* current_revision(..).ok().flatten(): a revision that cannot be read is  *)
(* recorded as none.                                                       *)
ReadRevision(readable) ==
    /\ cmd.at = "read"
    /\ cmd' = [cmd EXCEPT !.at = "snapshot", !.rev = IF readable THEN db.rev ELSE Unread]
    /\ UNCHANGED <<roleVars, seenVars, db, ledger, said>>

(* record_ledger_revision: read the record, set the revision, write it.    *)
ReadSnapshot ==
    /\ cmd.at = "snapshot"
    /\ cmd' = [cmd EXCEPT !.at = "record", !.snap = ledger.active]
    /\ UNCHANGED <<roleVars, seenVars, db, ledger, said>>

RecordAlone(stored) ==
    /\ cmd.at = "record"
    /\ ledger' = IF stored THEN [active |-> 0, rev |-> cmd.rev] ELSE ledger
    /\ Answer(IF stored THEN "ok" ELSE "failed")
    /\ UNCHANGED <<roleVars, seenVars, db>>

RecordRevision(stored) ==
    /\ cmd.at = "record"
    /\ ledger' = IF stored THEN [active |-> cmd.snap, rev |-> cmd.rev] ELSE ledger
    /\ Answer(IF stored THEN "ok" ELSE "failed")
    /\ UNCHANGED <<roleVars, seenVars, db>>

-----------------------------------------------------------------------------
(* An archive of a database with pg_tviews creates it, which takes a       *)
(* superuser; without it the TVIEWs come in as nothing.                    *)
CreatesPgTviews == setup.tviews
MayRestore == CreatesPgTviews => Superuser

(* Mutant: the listing is read and not looked at.                          *)
RestorePrecheckListing(lists) ==
    /\ cmd.op = "restore" /\ cmd.at = "precheck"
    /\ IF Resolved /\ lists
       THEN cmd' = [cmd EXCEPT !.at = "restore"] /\ UNCHANGED said
       ELSE Answer("refused")
    /\ UNCHANGED <<roleVars, seenVars, db, ledger>>

(* db_restore: a configured identity that is unset refuses; the precheck   *)
(* reads the listing and refuses an archive that creates pg_tviews to a    *)
(* role that is no superuser.                                              *)
RestorePrecheck(lists) ==
    /\ cmd.op = "restore" /\ cmd.at = "precheck"
    /\ IF Resolved /\ lists /\ MayRestore
       THEN cmd' = [cmd EXCEPT !.at = "restore"] /\ UNCHANGED said
       ELSE Answer("refused")
    /\ UNCHANGED <<roleVars, seenVars, db, ledger>>

(* pg_restore --clean, over the connection of the restorer: a failure      *)
(* leaves the database half replaced, with or without its extension; a     *)
(* role that may not create pg_tviews loads the tables without it.  What   *)
(* is UNLOGGED comes back empty.                                           *)
PgRestore(ok, kept) ==
    /\ cmd.op = "restore" /\ cmd.at = "restore"
    /\ LET whole == ok /\ MayRestore
       IN /\ db' = IF ~Here THEN db
                   ELSE [data |-> IF whole THEN "archive" ELSE "mixed", rev |-> 1,
                         installed |-> CreatesPgTviews /\ MayRestore /\ (ok \/ kept),
                         empty |-> IF CreatesPgTviews THEN {"unlogged"} ELSE {}]
          /\ broke' = (broke \/ ~ok)
          /\ CASE ~whole -> Answer("failed")
               [] whole /\ CreatesPgTviews -> cmd' = [cmd EXCEPT !.at = "rebuild"] /\ UNCHANGED said
               [] OTHER -> Answer("ok")
    /\ Moves
    /\ UNCHANGED <<roleVars, ledger, overlap, window>>

Refilled(all) == IF all THEN Tviews ELSE {"unlogged"}

(* RestoreServer::rebuild: refused without a schema on the contract this   *)
(* program reads, on a standby or without the privilege (`ran` is FALSE).  *)
(* Only the empty UNLOGGED TVIEWs are refilled, or all with --all.         *)
Rebuild(ran, all) ==
    /\ cmd.op \in {"restore", "tviews"} /\ cmd.at = "rebuild"
    /\ all => cmd.op = "tviews"
    /\ IF Resolved /\ UsableSchema /\ ran
       THEN /\ db' = IF Here THEN [db EXCEPT !.empty = @ \ Refilled(all)] ELSE db
            /\ cmd' = [cmd EXCEPT !.at = "probe"]
            /\ UNCHANGED said
       ELSE Answer("failed") /\ UNCHANGED db
    /\ Moves
    /\ UNCHANGED <<roleVars, ledger, overlap, window, broke>>

(* The TVIEWs still empty: `db restore` exits 0 and names them, and fails  *)
(* when it cannot ask.                                                     *)
RestoreProbes(probed) ==
    /\ cmd.op = "restore" /\ cmd.at = "probe"
    /\ IF probed THEN AnswerProbed("ok", Here /\ FindEmpty(Superuser).empty # {}, TRUE)
       ELSE Answer("failed")
    /\ UNCHANGED <<roleVars, seenVars, db, ledger>>

(* `db tviews rebuild` exits 1 and names them, and takes a probe that      *)
(* failed for one that found nothing.                                      *)
TviewsProbes(probed) ==
    /\ cmd.op = "tviews" /\ cmd.at = "probe"
    /\ LET left == probed /\ UsableSchema /\ Here /\ FindEmpty(Superuser).empty # {}
       IN AnswerProbed(IF left THEN "failed" ELSE "ok", left, probed /\ UsableSchema)
    /\ UNCHANGED <<roleVars, seenVars, db, ledger>>

(* The command is killed wherever it is.                                   *)
CmdDies ==
    /\ cmd # NoCmd
    /\ said' = [Silent EXCEPT !.op = cmd.op, !.res = "died"]
    /\ cmd' = NoCmd
    /\ UNCHANGED <<roleVars, seenVars, db, ledger>>

(* The operator reads the answer and runs the next command.                *)
NextDbCommand ==
    /\ said # Silent /\ said' = Silent
    /\ UNCHANGED <<roleVars, seenVars, db, ledger, cmd>>

(* A crash recovery or a failover resets what is UNLOGGED, a hand empties  *)
(* a LOGGED TVIEW.                                                         *)
TviewEmptied(t) ==
    /\ db.installed /\ t \notin db.empty
    /\ db' = [db EXCEPT !.empty = @ \cup {t}]
    /\ overlap' = TRUE /\ Moves
    /\ UNCHANGED <<roleVars, ledger, cmd, said, window, broke>>

-----------------------------------------------------------------------------
(* A deploy asks the server first, when anything is required of it.  A     *)
(* probe that cannot run refuses.                                          *)
RolloutObserves(answered) ==
    /\ rollout = "idle" /\ db.rev < Newest /\ db.data \in {"app", "archive"}
    /\ rollout' = IF ~Requirements THEN "cleared"
                  ELSE IF Observe(answered) THEN "ready" ELSE "refused"
    /\ moved' = FALSE
    /\ UNCHANGED <<setup, committed, db, ledger, cmd, said, overlap, window, broke>>

(* The empty-TVIEW gate, on a ready server: what could not be checked      *)
(* costs what emptiness costs.                                             *)
Judge(answered) ==
    LET found == FindEmpty(setup.appSuper)
    IN ~answered \/ found.empty # {} \/ found.unreadable # {}

RolloutProbes(answered) ==
    /\ rollout = "ready"
    /\ rollout' = IF FailsOnEmpty /\ Judge(answered) THEN "refused" ELSE "cleared"
    /\ UNCHANGED <<setup, committed, seenVars, db, ledger, cmd, said>>

RolloutAgain ==
    /\ rollout = "refused" /\ rollout' = "idle"
    /\ UNCHANGED <<setup, committed, seenVars, db, ledger, cmd, said>>

(* It migrates, and records its commit.                                    *)
RolloutMigrates ==
    /\ rollout = "cleared" /\ db.rev < Newest
    /\ rollout' = "migrated" /\ db' = [db EXCEPT !.rev = @ + 1]
    /\ overlap' = TRUE
    /\ UNCHANGED <<setup, committed, ledger, cmd, said, window, moved, broke>>

RolloutCommits ==
    /\ rollout = "migrated"
    /\ rollout' = "done" /\ committed' = 2
    /\ ledger' = [active |-> 2, rev |-> db.rev]
    /\ overlap' = TRUE
    /\ window' = (window \/ cmd.at = "record")
    /\ UNCHANGED <<setup, db, cmd, said, moved, broke>>

DbNext ==
    \/ Run("migrate", "preflight") \/ Run("reset", "drop")
    \/ Run("restore", "precheck") \/ Run("tviews", "rebuild")
    \/ \E ok \in BOOLEAN :
          \/ Preflight(ok) \/ DropSchemas(ok) \/ ReadRevision(ok) \/ RecordRevision(ok)
          \/ RestorePrecheck(ok) \/ RestoreProbes(ok) \/ TviewsProbes(ok)
          \/ RolloutObserves(ok) \/ RolloutProbes(ok)
          \/ \E also \in BOOLEAN : PgRestore(ok, also) \/ Rebuild(ok, also)
    \/ \E r \in 0..Newest : Up(r)
    \/ \E t \in Tviews : TviewEmptied(t)
    \/ ReadSnapshot \/ CmdDies \/ NextDbCommand
    \/ RolloutAgain \/ RolloutMigrates \/ RolloutCommits

-----------------------------------------------------------------------------
(* The ledger names the artifact the last deploy committed, whatever ran   *)
(* beside it, unless the commit fell between a db command's read and its   *)
(* write of the record; and after `db migrate` or `db reset` answered ok   *)
(* with no deploy beside it, it names the database's revision, or none     *)
(* when that could not be read.                                            *)
LedgerFollowsDatabase ==
    /\ ~window => ledger.active = committed
    /\ said.op \in {"migrate", "reset"} /\ said.res = "ok" /\ ~overlap
       => ledger.rev = IF said.rev = Unread THEN Unread ELSE db.rev

(* Where no admin identity is configured, or doctor's check of it passed:  *)
(* only a failing pg_restore or a reset strips a database of pg_tviews; a  *)
(* refused restore left the data as it was; ok means the archive's data is *)
(* in, and every TVIEW still empty was named.                              *)
RestoreAccounted ==
    JudgeAdmin(TRUE) # "fail" =>
        /\ setup.tviews /\ ~broke => db.installed
        /\ said.op = "restore" /\ ~overlap
           => /\ said.res = "refused" => db.data = said.before
              /\ said.res = "ok" => /\ db.data = "archive" /\ db.installed = setup.tviews
                                    /\ db.empty # {} => said.told

(* `db tviews rebuild` that exits 0, and could ask, left no TVIEW empty    *)
(* that its role may read.                                                 *)
RebuildAccounted ==
    JudgeAdmin(TRUE) # "fail" /\ said.op = "tviews" /\ said.res = "ok" /\ said.probed /\ ~overlap
    => db.empty \cap Readable(Superuser) = {}

(* A deploy that requires pg_tviews and fails on empty ones goes on only   *)
(* over a server on the contract, with every TVIEW read and filled, if     *)
(* nobody moved the database while it asked.                               *)
GateHolds ==
    rollout = "cleared" /\ FailsOnEmpty /\ ~moved
    => UsableSchema /\ setup.server = Ready /\ db.empty = {}

(* What the database commands say is so, of the record and of the data.    *)
DbCommandsTrue == LedgerFollowsDatabase /\ RestoreAccounted /\ RebuildAccounted /\ GateHolds
=============================================================================
