# fraisier: specifications and proofs

TLA+ specifications of fraisier, the deploy orchestrator in `src/crates/`: its saga
engine and state store, its three deploy flows, the preflight that guards them, the
adapters they work through, and the commands around them. TLC checks them on small
instances. TLAPS proves, for every value of the constants, the safety of the engine, of
the three flows, of preflight, the artifact adapters and the adapter calls, of sync and
the archives, and of the refresh, the webhook server and its self-upgrade.

## The system

A **deploy** is a saga: a list of steps, each with a compensation. The engine
(`fraisier-saga`) takes a lock for the pair (fraise, environment), journals every
transition before it acts, runs the steps, and on a failure compensates the
completed steps in reverse. Three **flows** (`fraisier-core`) give it its steps:

| flow | steps |
|---|---|
| single host | preflight, fetch, migrate, activate, restart, health, verify |
| multi-host | preflight, fetch, migrate, one rollout per batch of hosts, verify |
| blue-green | preflight, provision green, migrate, health gate, swap, hold, reap |

Each flow works through **adapters** (artifact, migration, service, health, load
balancer, traffic director), in the same process or behind the **IPC** of
`fraisier-ipc`. The **release ledger** sits in the state store's snapshot slot: it
says what the last committed deploy made live, and it is the rollback target of the
next one. The **CLI** validates a `fraisier.toml`, builds the adapters and dispatches.
Around the deploys are the database commands (backup, prune, drill, migrate, reset,
restore, refresh), `sync` of the ledger over git refs, `ship` and `check`, stacks of
several fraises, generated systemd units with their alerts, and a webhook server that
upgrades itself.

They interact through few things, and these are the variables that the modules
share or repeat: the deploy lock, the journal, the ledger, the database, the
service units, the load balancer's files, and the directories of releases, archives
and units.

## Modules

| module | models | extends |
|---|---|---|
| `Saga` | `saga.rs`, the store's operations | |
| `SagaContract` | what a caller of the engine may rely on | |
| `SingleHost` | `single_host.rs` | `Saga` |
| `MultiHost` | `multi_host.rs`, the nginx load balancer | `Saga` |
| `BlueGreen` | `blue_green.rs`, `AdapterFleet`, the nginx traffic director | `Saga` |
| `PolicyGate` | `policy.rs`, `connection_budget.rs` | |
| `Preflight` | the preflight step of the three flows, the approval hook | `PolicyGate` |
| `Config` | the sections of a `fraisier.toml`, `validate.rs`, `preset.rs` | `PolicyGate` |
| `Wiring` | `deploy`, dry run, `rollback`, `doctor`, `env-check`, timers; `factory.rs` | `Config` |
| `Releases` | the artifact adapters pull, release, git and local | |
| `Ipc` | one call of an external adapter, both sides | |
| `Tools` | the confiture, http, command, systemd, rc and compose adapters | |
| `StateFiles` | `FilesystemStateStore` by system call, and the commands that share it | |
| `Archives` | backup, retention prune, drill | |
| `Databases` | `db migrate`, `db reset`, `db restore`, `db tviews rebuild`, readiness | |
| `Refresh` | `db refresh`, its units, its flag and its marker | |
| `Sync` | `sync` push, pull and reclaim | |
| `Ship` | `check` and `ship` | |
| `Stacks` | `stack deploy`, `stack status`, the SDL gates | |
| `Units` | generated units, install, uninstall, prune, alerts | |
| `Upgrade` | the webhook server, `self-upgrade apply`, the drain coordinator | |
| `Steps` | sum of `Wiring`, `Preflight`, `Releases`, `Ipc`, `Tools` | those |
| `Storage` | sum of `StateFiles`, `Archives`, `Databases` | those |
| `Operations` | sum of `Ship`, `Stacks`, `Sync`, `Units`, `Refresh`, `Upgrade` | those |
| `Saga_proofs`, `Sync_proofs`, `Archives_proofs` | theorems | the module, `TLAPS` |
| `SingleHost_proofs`, `MultiHost_proofs`, `BlueGreen_proofs` | theorems | the flow, `Saga_proofs` |
| `Steps_proofs` | theorems about `Preflight`, `Releases`, `Ipc` | those, `TLAPS` |
| `Operations_proofs` | theorems about `Upgrade`, `Refresh` | those, `TLAPS` |
| `MC...` | instances for TLC | the module after `MC` |

The flows are composed with the engine by extension: each of their actions is an
engine action together with what the step does to the hosts, so that everything the
engine may do (fail, crash, be refused) happens in them too. The three sums put
components side by side that do not share state: a behaviour chooses one of them at
its start (`axis`, `scene`), and the others stay at rest. What two components do to each other
is in the module of the one that suffers it: a deploy beside a refresh in `Refresh`, a
deploy beside a `db` command in `Databases`, a deploy in the webhook server in `Upgrade`.

A mutated form of a definition stands right before it (`PushForcing` before `Push`): the
mistake that the properties are there to catch. `PROJECT.json` says which property
catches which, and names the source lines of every definition.

### Saga

`pc[p]` is where `run_with_state` of process `p` is; `from[p]` and `to[p]` are the
states of the transition it is making; `done[p]` and `failed[p]` its locals.
`curState`, `author` and `lastEvent` are the end of the two logs in the store, and
`effects[p]` is the world: the steps of `p` whose effect is in place. Every store call
is an action of its own and may fail (`AcquireFails`, `StoreFails`, `ReleaseFails`), and
`Crash` may come anywhere. A step that fails may leave its effect behind; a
compensation that fails may leave it or not. `LockDies` says which lock it is: a
flock dies with its process, a lease row (SQLite) does not.

### SingleHost

The seven phases of one host. `active` is the link, `running` the service, `db` the
revision, `ledger` the snapshot slot. `ReadPrior` comes before the lock and
`WriteLedger` after its release, as in `run_reporting`. A call that fails may have done
its work when only its answer was lost: a failed activation leaves the link where it was
or on the new release, a failed restart leaves the old service, the new one or none, a
failed migration any revision on its way, and the same goes for the calls of a
compensation. `undo_activate` is two actions, link and restart, with a crash in between.
A deliberate rollback reports its target revision also where there is no database
(`MigratedTo`).

### MultiHost

One run over an inventory in batches. Each host of a batch goes through drain,
activate, restart, health and reattach on its own (`hpc`), interleaved at every
await. nginx is a file (`conf`) and what the running process loaded (`live`): the
reload for one host applies every edit made so far. As on the single host, a call that
fails may have done its work: activate, restart and reload. A failed batch restores
each host from where it is (`FirstUndo`) before its step fails; what `restore_host` does
not put back (the link of a host whose own activation failed) stays. `finalize` is
`Outcome`.

### BlueGreen

Two fleets, a link, and what nginx serves. `switch_to` is two actions. Green may
be sick from its start, or degrade later; a stop may fail, or report failure
after it worked; nginx may be reloaded by something else. Several deploys follow
each other: either the operator exchanges the two fleets in the configuration
after each commit (`Exchanges`) or not.

### PolicyGate, Preflight, Config and Wiring

`PolicyGate` holds the decision functions (`Evaluate`, the two-version baseline,
the connection budget with its saturating sum). `Preflight` runs the step
with every flow, policy, set of capabilities, report, probe, answer of the approval
hook and failure of the throwaway database; a copy that could not be filled is dropped
at best, since the error of that drop is discarded (`"abandoned"`).

In `Config` a field is what validation tells apart (unset, a known value, one that
breaks a rule), and a validator returns the sections its errors are in. In `Wiring` a
command loads the file, validates the sections it needs, builds the adapters, and
goes on to the gate; the file, the environment and the schema may move between two
commands, and between the steps of one. Its properties relate two commands: the dry
run and the deploy, `doctor` and the deploy, the installation of a timer and its run.

### Releases, Ipc and Tools

`Releases` has the staging directory, the temporary link, the link, and the operation
in progress, by file-system step. Over ssh a step whose connection drops goes on
without its controller (`work["loose"]`). `Ipc` has the client's four states, the child,
the adapter's own progress, the tool it may have running (`helper`), the pipes it has
open and what it wrote: any answer, early close, lingering, kill and exit, in any order.
The timeout kills the process that was spawned, and no other. `Tools` is about verdicts: which
answer an adapter gives for an exit code and a report that may lack fields or
contradict itself, against what is true of the database, the unit or the site.

### StateFiles, Archives and Databases

`Saga` takes a store call for one step. `StateFiles` takes it apart.
`append_jsonl` is two writes, text and newline (`writeln!` on an unbuffered file);
`write_json_atomic` is open-and-truncate, write, rename, on one temporary name.
Deploys hold the lock while they record states and save the ledger after it;
`record_ledger_revision` of `db migrate` and `db reset`, and `sync --pull`, never
take it. A file is an inode with a name, a temporary name, both or none, so that
two commands can truncate, overwrite or rename each other's file.

`Archives` is a directory of stamps with a clock that may be set back. A backup claims
a stamp, dumps, verifies and renames; a prune lists, plans per policy (`PlanOne` is
`retention.rs`) and removes one by one under the deploy lock; a drill picks the newest
archive, restores, migrates, counts and tears down. `Databases` has one live database
(data, revision, pg_tviews, TVIEWs that are empty over rows), the role the command
connects with, the ledger, and the probes of the readiness gate one after the other.

### Refresh, Sync, Ship, Stacks, Units and Upgrade

- `Refresh`: the run's stages under the lock, from the marker through stopping the
  units, the drop, the two restore lists, sanitize and revoke, to the flagged start
  and its proof; a failure or death at each, a deploy, a timer and a second refresh
  beside it. Which objects of an archive are loaded by which list is computed from
  its table of contents.
- `Sync`: a commit is the sequence of payloads from its root, so descent is being a
  prefix. Every operator has a store, sync bases and one command; git and the store
  may fail between any two calls.
- `Ship`: trees with a version and a soundness that the checks can see; the working
  tree, the index, the local branch and the remote's are apart.
- `Stacks`: a dependency graph is placed as in `config/stack.rs`; an SDL is a number,
  a router release the numbers it was composed from; members activate host by host.
- `Units`: a unit file is absent, by hand, edited, plain or alerting, or empty or torn by
  a write that was cut; installers plan first and write file by file. The alert half has
  activations, their failure records and the alerts that look for them.
- `Upgrade`: one server that has one connection at a time, posts and probes alike, from
  accepting it through reading the request to the end of the deploy; the `current` link,
  the staged binaries, the unit under systemd with its two commands that restart it
  (`apply` and `self-upgrade restart`), and the drain flag. `drain_in_flight` is a library
  operation without a caller in the repository, so it is at work or not in either restart.

## Runs

A property whose negation is reachable through something that the code does not
defend against is stated with that condition in the formula, often as a history
variable (`alone`, `reloadFailed`, `mishaps`, `rewritten`, `cut`): the run still
contains the bad case, and the formula says exactly what breaks what. Several
checked properties are conjunctions; their parts are stated and commented one by one
in the modules.

| run | instance | properties |
|---|---|---|
| `saga` | 2 processes, 3 steps, flock, fair | `OutcomeFaithful`, `JournalTrue`, `OnlyHolderWrites`, `AlwaysReturns`, `ImplementsContract` |
| `single_host` | 2 deploys, the second possibly a rollback, with and without a database | `CommittedIsLive`, `UncommittedLiveIsReported`, `BaselineHolds` |
| `multi_host` | 3 hosts in batches of 2 and 1, 7 starting fleets, fair | `CommittedFleet`, `RollbackAccounted`, `FleetServes`, `RolloutEnds` |
| `blue_green` | 2 deploys, fleets exchanged, 2 polls | `TrafficIsServed`, `OutcomePlacesTraffic`, `HoldCatchesDegradation`, `GreenIsGated` |
| `steps` | 300 configurations, 2 tiers, 2 releases, 2 probes, 3 revisions | `PreviewAgrees`, `AcceptedIsNotRefused`, `PreflightVouches`, `ThrowawayAccountedFor`, `LiveIsVerified`, `AnswersHold`, `OkMeansApplied`, `FailedCallIsOver`, `AnswersEarned` |
| `storage` | 3 commands on the files; 2 backups, 3 seconds (2 beside a drill), 2 policies; the `db` commands over every identity | `StoreIsReadable`, `ArchivesAreWhole`, `RetentionKeeps`, `DrillVouches`, `DbCommandsTrue`, `MigrateKeepsReleaseAlone` |
| `operations` | two of everything, 3 members in 9 stack files | `ShipCommandTrue`, `StackCommandsTrue`, `FailureIsHeard`, `UnitsSeeSafeData`, `UpgradeReportsTrue`, `NoDeployCutOff`, `NoSilentOverwrite`, `DropsOnlyMarked`, `OperatorsFilesKept` |

What they show, run by run:

- **saga**: an outcome says which effects are in place; the stored state, written
  before every step, bounds what a run that died can have done, never runs ahead of
  the event log, and when it is in flight belongs to a run in flight, a dead one or
  one that reported an error; every run returns; the engine refines its contract.
- **single_host**: Committed means link, service and database are the run's, whatever
  died before; a release that did not commit is served only in flight or after a report;
  a rollback comes back to its baseline, and orderly runs leave a ledger that names it,
  but for what a failed activation or migration itself left.
- **multi_host**: a host is touched only out of traffic and the others stay in it; a
  commit left no host behind; a clean rollback restored services, links (but for those of
  hosts whose activation failed), pool and database, the database last; the rollout ends.
- **blue_green**: there is a running, gated fleet behind the proxy; commit and
  rollback put the traffic where they say; degradation during the hold is caught.
- **steps**: a dry run that nothing has overtaken agrees with the deploy's gate; what
  validation, `doctor` and `scheduled install` accept is not refused later; a passed
  preflight vouches for the change, the window, the copy and the connections; a deploy
  that goes on leaves no throwaway unreported; what is live was staged whole and verified,
  across crashes and retries; an external adapter's Ok means it was done, and a failed
  call to a local adapter that does its own work is over; a green verdict rests on
  evidence and a missing field is not a pass.
- **storage**: journal, key and ledger can be read back after a crash at any call;
  final names hold whole archives, prunes spare the floor of readable ones, a drill's
  receipt stands for a copy really restored; ledger and restore answers are true.
- **operations**: what is shipped is what was checked; a stack that exits 0 has a
  router that fits its subgraphs; a failure is heard and tells its own reason; no unit
  meets raw data; an upgrade, a revert and a drain say what they left, and the unit always
  has a whole binary to start; no connection, and no deploy in it, loses its server to a
  restart before the stop deadline; a push of one operator never
  drops what another published; a refresh drops only a marked database; installers
  keep the operator's files.

Five more runs show where the code and what it says of itself differ; each has its
entry under "findings" in `PROJECT.json`:

- `single_stale_prior`: the rollback target is read before the lock. A deploy that
  read it while another one was about to commit rolls back to the release before
  that one (`RollbackRestoresRelease`). `RollbackRestores` is what holds.
- `multi_persisted`: `finalize` changes the returned outcome, not the stored one; the
  store says RolledBack for a fleet with an unrestored host.
- `blue_green_same_config`: with one configuration, the second deploy provisions over
  the fleet that has the traffic.
- `state_files_fleet_ledger`: `db migrate` replaces a multi-host ledger by an empty
  single-host one, and the next multi-host deploy cannot decode it.
- `adapter_hung`: the call timeout bounds the exchange and not the wait for the
  child's exit, so an adapter that answers, closes its pipes and stays keeps the call.

### What the conditions name

The conditions of the passing properties are the places where the code gives no
guarantee. A reader of the code may want to know them:

- *Deploys.* A ledger write that is overtaken (`alone` in `LedgerNamesLive`); a migration
  that fails half way, or an activation that fails after its rename, since the step that
  fails is not compensated: after a clean RolledBack the link may name the new release,
  over the old service, which the next restart of the unit replaces (`failed[p] =
  Activate`, `single_host.rs:865`; `ActivationFailed`); the revision a deliberate rollback
  reports where there is no database (`ownsDatabase`); a reattach whose reload failed and
  which another host's reload applies (`reloadFailed`, `multi_host.rs:1088`); a host
  restored after the database when another could not be; a swap whose reload fails and is
  not compensated (`mishaps`, `blue_green.rs:228`); green degrading after the last poll
  (`"pause"`).
- *Files.* An append cut between its two writes (`Interrupted`); two writers of one
  temporary file (`Overlapped`); a pull into a deploy's append (`PulledInto`); a commit
  between the read and the write of `record_ledger_revision` (`window`).
- *Commands.* A rolling rollout ignores `--skip-preflight`, which its dry run honours; a
  blue-green deploy ignores a preflight that is off, which its dry run believes. The
  preset expands without an `active_path`; a rolling `[lb]` with only an `include_dir`
  validates, and the drain needs `config_path`; the factory refuses some validated
  configurations (`ValidatedBuilds` lists them); nobody looks at `[refresh]` when its
  timer is installed. A copy that could not be filled may stay behind with no word of it,
  and a rehearsal's error hides that of its teardown (`ThrowawayAccountedFor`).
- *Releases.* Staging the version that is live works on it in place; a remote step cut
  off by its connection goes on behind the controller; a lost connection makes pull's
  `current` say that nothing is active (`rewritten`, `dropped`).
- *Adapters.* An adapter behind ssh outlives the ssh that the timeout kills, and a tool
  that an adapter runs outlives the adapter: either may still act after the call failed
  (`late`). The verify of a command migration without a verify command is green of
  anything (`GreenIsEarned`).
- *Data.* A fresh unreadable archive holds a slot of the floor; a prune may remove the
  archive a drill is restoring; `db reset` has dropped the schemas when building the
  adapter fails; `db tviews rebuild` takes a failed probe for nothing left (`probed`).
- *Refresh.* After one that failed, a second finds the units inactive, starts none of
  them and reports them started; a deploy after a failed one starts the service on
  unsanitized data (`outside`); `mark-refresh-target` reads and then sets (`overmarked`).
- *Upgrade.* The upgrade gives up by the clock: a deploy in the one connection, or a peer
  that is slow to send its request, keeps the probe waiting, and a working binary is
  reverted; no property denies it. The stop deadline kills a long deploy; staging under
  the prior's name overwrites what a revert needs; both restarts go ahead without a
  drain; nobody lowers the drain flag after a drain that no restart follows.
- *Sync, ship, stacks, units.* A pull cut after its fetch moved the sync base without the
  store (`cut`); after a failed push the next ship takes its own commit for a race;
  members deployed before a failure stay, under the old router; `stack deploy` says of the
  member that failed that it rolled itself back, whatever its outcome was (what it prints
  is not judged here); `LocalKeys` of `sync` skips a key that has only a snapshot;
  `--prune` removes the units of other deployables, alerts included (`parted`), and one
  that was rewritten by hand after the plan, for it does not look again (`raced`); a unit
  file cut in its write is drift, and stays torn or empty until an install with `--force`.

### Bounds

- Two processes suffice for what one run can do to another (stale prior,
  overtaken ledger, refused lock); the properties of the engine and of the single host
  that matter most are proved for any number. Three commands in `StateFiles` allow a
  leftover temporary file next to two writers.
- Three steps give the engine a step before, at and after the failed one, and a
  compensation that fails with one more to go.
- Revisions 1 to 3 (`SingleHost`), 0 to 2 (`Tools`, `Databases`) give a migration an
  intermediate revision.
- Batches of two and one give hosts that interleave in a batch, a completed
  batch to compensate and a last, shorter one. The starting fleets are uniform,
  have a new host, are all new, have a host out of the pool, or have no database.
- Two polls, and two health probes: one that can pass before what the other catches.
- `MaxU32 = 3` keeps the shape of saturation at the largest integer.
- The configurations vary a section of a plain, a rolling, a blue-green or a preset one
  by a field, a service by all of them, and the policies by the preflight modes: a rule
  of validation reads one section, or that and the presence of another.
- Three seconds and two backups give two backups of one second, an old archive and two
  recent ones; one policy is bound by its age rule, the other by its ceiling. Beside a
  drill the clock has two seconds and may be set back, so that an archive can be too
  old, recent, or from the future; the theorems below are about any clock.
- Three members: a router, a subgraph, and one on two hosts that depends on the other;
  the nine stack files are that one, and one with each flaw or variation.
- Two operators, two deploys, two commits on a ref: enough for a push over what the
  other published; proved for any number of each.
- Three commits on a shipped branch: one before, the ship's own and another clone's.
- Two deployables in one unit directory, one edit or cut write, three activations: two of one unit
  and one of another.

`ProcSymmetry` and `MCSymmetry` exchange processes, operators, deployables, refreshes,
posts or backups that nothing distinguishes, and are used with no liveness property.
`MCView` of the single host leaves out of a state what neither a step nor an invariant
reads any more: the locals of runs that are over, and the event log.

`CHECK_DEADLOCK FALSE` stands in the runs of the sums, whose components end: every
command has run, every counter is at its bound.

### Fairness

`Saga` and `MultiHost` assume weak fairness of the process's own steps: an adapter or
store call returns, with a result or an error. For the HTTP calls a timeout sees to
that, for IPC calls all but the wait for exit (`adapter_hung`); the migration tool and
the commands on hosts are subprocesses that the adapters await without one
(`fraisier-adapter-confiture/src/lib.rs:353`, `fraisier-adapter-support/src/lib.rs:118`),
so that they end is an assumption on them, and `AlwaysReturns` and `RolloutEnds` say only
that the engine adds no waiting of its own. `FairSpec` of `Steps` assumes weak fairness of the
client's steps, the expiry of its timeout among them, and nothing of the adapter: the
client's promise is made against adapters that hang. No fairness is assumed of
failures, crashes, another run or the release of a lease.

## Proofs

### The engine

`Saga_proofs` proves, for every finite or infinite set of processes, every number of
steps and both kinds of lock:

| theorem | statement |
|---|---|
| `Invariance` | `Spec => []SagaInv` |
| `TypeCorrect` | `Spec => []TypeOK` |
| `MutualExclusion` | at most one run between acquiring and releasing |
| `OutcomesAreFaithful` | Committed: every effect; RolledBack: at most the failed step's own |
| `JournalIsWriteAhead` | the stored state bounds the effects, whenever the run dies |
| `NoSilentOrphan` | an in-flight state has a holder, a dead process or a reported error |
| `JournalIsTrue` | both, and the state log is never ahead of the event log |
| `HolderWrites` | only the holder of the lock changes the world or the journal |
| `LifecycleFollowed` | the journal of one run moves along the lifecycle only |
| `Refinement` | `Spec => Contract!CSpec` |

Assumptions: `NoProc` is not a process, the number of steps is a natural number,
`LockDies` is a Boolean.

None of the safety properties is inductive: mutual exclusion needs that a run in
flight has the lock, truthful outcomes need where the effects are at every point
of the way there, and the journal's bounds must survive that another process
takes over. `SagaInv` says, for every run, that it works only under the lock, that
its counters agree with the state it is in, that its effects lie within the
bounds of that state (`RunInv`, `Bounds`), and that a run about to act has just
journalled (`Journalled`); and, for the store, that the stored state bounds the
effects of its author. The proof (`NextInv`) splits into the type (`StepType`), the runs
that do not move (`OtherRuns`: they keep their facts, since only the holder acts),
the run that moves (`OwnRun`, one step per action) and the store (`JournalInv`).
`LifecycleFollowed` needs one more invariant, `NextInLifecycle`: what a run is about to
journal follows what it journalled last. That the states are not ahead of the events
needs `EventsLead`: between its two writes, a run's event is the one it is to record.

### The single host

`SingleHost_proofs` proves, for every set of runs, revisions and setups (including
deliberate rollbacks and no database) and both kinds of lock:

| theorem | statement |
|---|---|
| `CommitIsLive` | `SHSpec => []CommittedIsLive` |
| `LiveIsReported` | `SHSpec => []UncommittedLiveIsReported` |
| `BaselineIsKept` | `SHSpec => []BaselineHolds` |
| `HostFollowsRun`, `LiveFollowsRecords`, `ServedFollowsRun`, `BaselineIsReachable`, `LedgerFollowsRuns` | the inductive invariants `HostInv`, `LiveInv`, `ServedInv`, `BaseInv`, `LedgerInv` |

The engine inside a deploy is `Saga`'s: every step of the deploy is an engine step or
leaves the engine alone (`StepIsEngine`), so `SagaInv` holds of it (`EngineInv`) and with it
the exclusion that the rest needs. `HostInv` adds that the run in flight finds the host as
its own steps left it (`DoneBefore`): before step *i* the earlier steps' work is in place,
and nobody else has touched it. `LiveInv` follows a release backwards: the ledger and
what a run read from it name only recorded releases (`Recorded`), and a run that goes back
has put away its own (`Placed`). The service is followed apart from the link, because a
failed activation parts them: a run whose release is served is past its activation and
has not undone it, or committed, or died (`ServedInv`).

`BaselineHolds` has two halves, with an invariant each. `BaseInv` is about one run:
going forward it has not touched what its later steps are to change and keeps the
revision it found (`Keeps`); going back it has restored as much as its step says
(`Returning`); a journal that says RolledBack is one of a run that got there
(`Restored`). `LedgerInv` is about the runs together: as long as no two overlapped, at
most one is under way, it read the ledger that is still there, and whenever none is and
all ended well the ledger is the record of what is live. The ledger is read before the
lock and written after it, so exclusion does not give this, and without that proviso it
is false: the run `single_stale_prior` is the counterexample.

Further assumptions: the flow has its seven steps, revisions are positive, and the base
release is not one of the runs'.

### The multi-host rollout

`MultiHost_proofs` proves, for every inventory, every batch size, every fleet to start
from (hosts with and without a prior release, in the pool and out of it, with and
without a database) and both kinds of lock:

| theorem | statement |
|---|---|
| `CommitIsComplete` | `MHSpec => []CommittedFleet` |
| `RollbacksAreAccounted` | `MHSpec => []RollbackAccounted` |
| `FleetKeepsServing` | `MHSpec => FleetServes` |
| `FleetFollowsRun` | `MHSpec => []MHInv` |

`MHInv` ties three things to the saga's state. Each host is at a place of `advance_host`
or `restore_host`, and its place says what is installed, what runs, whether it is in the
pool and what the run has noted of it (`HostSound`). The step the saga is in says at
which place each host is: earlier batches are through, later ones untouched, and behind
a rollback every host is restored, or in the failed batch and remembered as unrestored
(`Placed`, `Undone`). The database follows the migration step (`Migrated`). The hosts of
a batch move in any order, so the proof separates the host that moves (`OwnHost`) from
the others (`OtherHost`). That every host has exactly one step is `Partition`:
`hosts.chunks(size)` splits the inventory, for any length and size, which is integer
division (`Division`, `ChunkOf`, `ChunksApart`).

Assumptions: there is one run; the inventory is not empty and names no host twice, which
`validate.rs` refuses and `multi_host.rs` counts on; the two releases differ.

### Blue-green

`BlueGreen_proofs` proves, for every set of runs, any number of checks in the hold window
and both kinds of lock:

| theorem | statement |
|---|---|
| `TrafficStaysServed` | `Exchanges`: `BGSpec => []TrafficIsServed` |
| `OutcomesPlaceTraffic` | `Exchanges`: `BGSpec => []OutcomePlacesTraffic` |
| `GreenStaysGated` | `Exchanges`: `BGSpec => GreenIsGated` |
| `HoldIsKept` | `Polls > 0`: `BGSpec => []HoldCatchesDegradation` |
| `FleetsFollowRun` | `BGSpec => []BGInv` |

Whether the fleets are exchanged is the operator's doing: with the same configuration
again, the next deploy provisions the fleet that has the traffic, which is what the run
`blue_green_same_config` shows, so the first three theorems have the hypothesis that the
property needs. A window without a check catches nothing, hence the other one. `BGInv`
itself has neither: it holds in both worlds, with the parts that need the hypothesis
under it. It says what each run found under the lock and that its green is the other
fleet (`RunSound`), what a run going forward and going back has arranged (`Onward`,
`Backward`), that the fleets behind the link and behind nginx are fit (`LiveSound`), and
what a run that ended left (`Placed`, `Restored`, kept by `Outcome` after it released
the lock). nginx is reloaded apart from the link, by its operator too, hence two fleets
to follow and not one.

### Preflight, artifacts and adapter calls

`Steps_proofs` proves:

| theorem | statement | for every |
|---|---|---|
| `PreflightIsTrusted` | `PFSpec => []PreflightVouches` | finite set of risk tiers, policy, width of the counts |
| `ThrowawayNeverForgotten` | `PFSpec => []ThrowawayAccountedFor` | the same |
| `LiveStaysVerified` | `RelSpec => []LiveIsVerified` | set of versions |
| `AnswersAreTrue` | `RelSpec => []AnswersHold` | set of versions |
| `OkIsEarned` | `IpcSpec => []OkMeansApplied` | |
| `LocalCallsEnd` | `IpcSpec => []FailedCallIsOver` | |

- `PFInv` follows the checks in their order: where the throwaway is and which database
  the report is about (`CopyInv`), what is decided when each check is reached
  (`CourseInv`), what the gate has seen by then (`GateInv`). `EvaluateVouches` is the
  policy gate on its own: what an Allow or a NeedsApproval says of every change, through
  `worst` and the mapping of tiers.
- `RelInv` follows an operation and what a lost connection left running beside it: each
  is on the course of its kind of source (`OpsInv`); what the controller has in hand at
  each step (`InHandInv`); whatever a deploy may activate is whole and verified, but for
  the release that is being staged (`SoundInv`); an operation in progress has not
  answered (`AnswerInv`).
- `IpcInv`: a success on stdout is one of an adapter that has done its work, itself or by
  its helper, and does no more, and a local child has exited when the call returns.

Assumptions: no tier is called "unclassified", the counts have a natural bound, and the
value for no version is not a version.

### Refresh, webhook server and self-upgrade

`Operations_proofs` proves, for any set of webhook requests, and any set of refreshes and
archive listings:

| theorem | statement |
|---|---|
| `UpgradesReportTrue` | `UpSpec => []UpgradeReportsTrue` |
| `DeploysAreNotCut` | `UpSpec => []NoDeployCutOff` |
| `SafeDataOnly` | `RFSpec => []UnitsSeeSafeData` |
| `OnlyMarkedDrops` | `RFSpec => DropsOnlyMarked` |
| `UnitFollowsUpgrade`, `UnitsFollowRefresh` | the inductive invariants `UpInv` and `RFInv` |

The unit is restarted by the upgrade, by the drain coordinator and by systemd, and each
of them acts on what it saw of it before. `UpInv` says what the unit runs while the
upgrade waits for it (`Waiting`), what is on disk at each of the upgrade's phases, so that a
revert has something to go back to (`Upgrading`), that what `current` names and what was
kept are whole, also after the upgrade died (`Whole`, `Intact`), that from the settle on
only a deploy accepted before it can take a lock (`Draining`), and that the connection at
work is the one the server is busy with (`Serving`).

`RFInv` has a part for the host and one for each refresh. Host (`HostSafe`): while the
data is unsafe (neither the environment's own, nor ready and flagged or cleared), every
unit a refresh lists is stopped, but for one that a deploy started. Refresh (`Local`):
past the lock it holds it; before the drop it changed no data, and the units it noted
are units it may start again (`Approach`); between the drop and the start everything in
the archive's table of contents comes into being, object by object (`Refill`); a failure
that reports the units restarted did restart them (`Returned`). A refresh without the
lock relies on nothing that another changes (`OthersKeep`); a refresh that dies releases
the lock and leaves the rest as it is, and the next one starts from `HostSafe`. That the
units stop in dependency order is `StoppedIs`: `UnitsToStop` is a `CHOOSE` among orders,
and there is exactly one for each configuration.

Assumptions: the values for nobody and none are none of the things they are told apart
from; the entries of a listing are of the four kinds that the code distinguishes, an
extension being in no schema.

### Sync

`Sync_proofs` proves for every non-empty set of keys, any operators, and any bound on
deploys and history that `SyncSpec => NoSilentOverwrite` (`PushNeverOverwrites`). The
inductive invariant is `SyncInv` (`SyncBasesAccepted`): every commit below an operator's
sync base is one that they recorded or took over, unless a pull of theirs was cut after
its fetch. A push that the remote accepts descends from the remote's tip, so that tip is
below the base, and therefore accepted.

### The archives

`Archives_proofs` proves, for any set of backups, any bound on the clock, any policies
and any limits of the drill:

| theorem | statement |
|---|---|
| `WholeArchives` | `ArchSpec => []ArchivesAreWhole` |
| `ReceiptsVouch` | `ArchSpec => []DrillVouches` |
| `RehearsalsFindTheirArchive` | `ArchSpec => []DeployFindsItsArchive`, a part of `RetentionKeeps` |

What is under a final name was carried there by a backup, so `DirInv` follows the
backups: one that is at work owns the partial file of its stamp, nobody else is at
work on that stamp (the claim refuses a stamp whose partial file exists), and what it
carries past the dump is whole and was not judged unreadable. `DrillInv` follows the
drill: from its check on its pick is recent, from the restore on the copy is of its pick,
and a drill that has not failed by its teardown migrated the copy and counted its tables.
`LockInv` is the deploy lock: a prune and a deploy have it while they are at work, and
nobody but a prune takes a file away (`StaysListed`).
All hold with crashes, prunes and a clock that is set back. Assumptions: the clock has a
first second and the limits are natural numbers. `DrillPick` rests on `LatestIs`: the
newest of a non-empty set of archives exists, by well-foundedness.

### Only model-checked

- Liveness under fairness, and what depends on `ENABLED`, are outside of what the prover
  does: `AlwaysReturns`, `RolloutEnds`, `CallReturns`. So is what a recursive definition
  computes.
- The sums. The theorems are about `PFSpec`, `RelSpec`, `IpcSpec`, `SyncSpec`,
  `ArchSpec`, `RFSpec` and `UpSpec`; that a behaviour of `Steps`, `Storage` or
  `Operations` which chose one of these components is one of that specification is by
  construction, and not a theorem.
- `FloorHolds` and `NoWorseThanBlind`, the parts of `RetentionKeeps` that depend on the
  plan: it is a fold over the sorted directory, and what it computes takes an induction
  over data.
- The components without theorems: `Wiring` (`PreviewAgrees`, `AcceptedIsNotRefused`),
  `Tools` (`AnswersEarned`), `StateFiles` (`StoreIsReadable`), `Databases`
  (`DbCommandsTrue`), `Ship` (`ShipCommandTrue`), `Stacks` (`StackCommandsTrue`),
  `Units` (`FailureIsHeard`, `OperatorsFilesKept`).

## What is not modelled

- The text of things: parsing TOML, the upstream block of an nginx file, unit files,
  SQL, messages, rendering, metrics, redaction. A report, a table of contents, a
  configuration or an SDL is what the code tells apart in it.
- What the programs behind the adapters do (confiture, curl, git, pg_dump, systemctl,
  nginx): they are external, and succeed, fail, or fail half way.
- Time, other than as polls, clocks of a few seconds, and timeouts that may happen.
  Calendar arithmetic is a word of a vocabulary.
- Bootstrap (directories made once, over a transport), the argument parser, telemetry
  and the delivery of notifications: no state that a later step reads.
- The child environment and the settings of token providers: data without state.
- Inside `Saga` a store call is one step; `StateFiles` is where it is not. The SQLite store
  does each operation in one transaction, and is `Saga` with a lease (`LockDies = FALSE`):
  proved there, not run; `AlwaysReturns` is therefore checked with the flock only.
- In `MultiHost` there is one run: what runs do to each other is in `SingleHost`.
- In `BlueGreen` the expand-only migration changes nothing the traffic sees.
- The components of a sum do not run at the same time. A refresh during a self-upgrade
  or a ship during a sync shares no state with it.
