----------------------------- MODULE BlueGreen -----------------------------
(***************************************************************************)
(* The blue-green deploy of fraisier-core (blue_green.rs), over the        *)
(* systemd fleet of fraisier-cli (AdapterFleet) and the nginx traffic      *)
(* director (switch_to): a saga of seven steps that starts a second fleet, *)
(* health-gates it, moves the traffic, watches it, and stops the first.    *)
(*                                                                         *)
(* The traffic director is two things: the active symlink, and what the    *)
(* running nginx loaded last.  switch_to repoints the link and then        *)
(* reloads.  nginx may also be reloaded by somebody else.                  *)
(*                                                                         *)
(* A configuration names the fleet that plays green.  Either every run     *)
(* uses the same configuration, or the operator exchanges the two fleets   *)
(* in it after each commit, so that green is the fleet without traffic.    *)
(*                                                                         *)
(* The migration is expand-only and has no compensation: it changes        *)
(* nothing that the traffic can see.  Preflight: see there.                *)
(***************************************************************************)
EXTENDS Saga

CONSTANTS Exchanges,     \* the operator exchanges the fleets after a commit
          Polls          \* health checks in the hold window

ASSUME SevenSteps == N = 7
ASSUME PollsAssumption == Polls \in Nat
ASSUME ExchangesAssumption == Exchanges \in BOOLEAN

VARIABLES green,       \* the fleet that plays green for each run
          priorTarget, \* BgRuntime.prior_target, or "none"
          provisioned, \* BgRuntime.green_provisioned
          repointed,   \* switch_to has repointed the link and not yet reloaded
          polls,       \* checks made in the hold window
          unit,        \* "up", "sick" from its start, "degraded" since, or "down"
          release,     \* the run whose release each fleet runs, or NoProc
          link,        \* the fleet the active symlink names
          served,      \* the fleet nginx sends the traffic to
          found,       \* history: link, traffic and units when a run took the lock
          mishaps      \* history: "reload" failed after the link was repointed,
                       \* "stop" reported a failure and stopped the unit,
                       \* "pause": green degraded after the last check

runtimeVars == <<green, priorTarget, provisioned, repointed, polls>>
fleetVars   == <<unit, release>>
trafficVars == <<link, served>>
bgVars == <<vars, runtimeVars, fleetVars, trafficVars, found, mishaps>>

Fleets == {"blue", "green"}
Other(f) == CHOOSE g \in Fleets : g # f

Preflight == 1
ProvisionGreen == 2
Migrate == 3
HealthGateGreen == 4
SwapTraffic == 5
Hold == 6
Reap == 7

BGInit ==
    /\ Init
    /\ green = [p \in Procs |-> "green"]
    /\ priorTarget = [p \in Procs |-> "none"]
    /\ provisioned = [p \in Procs |-> FALSE]
    /\ repointed = [p \in Procs |-> FALSE]
    /\ polls = [p \in Procs |-> 0]
    /\ unit = [f \in Fleets |-> IF f = "blue" THEN "up" ELSE "down"]
    /\ release = [f \in Fleets |-> NoProc]
    /\ link = "blue" /\ served = "blue"
    /\ found = [p \in Procs |-> [link |-> "blue", served |-> "blue", unit |-> unit]]
    /\ mishaps = {}

-----------------------------------------------------------------------------
At(p, i) == pc[p] = "forward" /\ to[p].step = i
Undoing(p, i) == pc[p] = "compensate" /\ to[p].step = i

TakeLock(p) ==
    /\ AcquireLock(p)
    /\ green' = [green EXCEPT ![p] = IF Exchanges THEN Other(link) ELSE "green"]
    /\ found' = [found EXCEPT ![p] = [link |-> link, served |-> served, unit |-> unit]]
    /\ UNCHANGED <<priorTarget, provisioned, repointed, polls, fleetVars, trafficVars, mishaps>>

Engine(p) ==
    /\ \/ Locked(p) \/ RecordEvent(p) \/ RecordState(p) \/ ReleaseLock(p)
       \/ AcquireFails(p) \/ StoreFails(p) \/ ReleaseFails(p)
    /\ UNCHANGED <<runtimeVars, fleetVars, trafficVars, found, mishaps>>

Inert(p, i) ==
    /\ At(p, i)
    /\ \/ Forward(p)
       \/ ForwardFails(p) /\ UNCHANGED effects
    /\ UNCHANGED <<runtimeVars, fleetVars, trafficVars, found, mishaps>>

RunPreflight(p) == Inert(p, Preflight)
RunMigrate(p) == Inert(p, Migrate)

InertUndo(p) ==
    /\ \E i \in {Preflight, Migrate, HealthGateGreen, Hold, Reap} : Undoing(p, i)
    /\ Compensate(p)
    /\ UNCHANGED <<runtimeVars, fleetVars, trafficVars, found, mishaps>>

SetUnit(f, state) == unit' = [unit EXCEPT ![f] = state]

(* Mutant: the unit of green's overlay is ignored; the base unit restarts. *)
RunProvisionGreenBaseUnit(p) ==
    /\ At(p, ProvisionGreen)
    /\ Forward(p)
    /\ SetUnit(Other(green[p]), "up")
    /\ release' = [release EXCEPT ![Other(green[p])] = p]
    /\ provisioned' = [provisioned EXCEPT ![p] = TRUE]
    /\ UNCHANGED <<green, priorTarget, repointed, polls, trafficVars, found, mishaps>>

(* provision_green(): stage, activate, restart green's unit.  A restart    *)
(* that succeeds says nothing of health.                                   *)
RunProvisionGreen(p) ==
    /\ At(p, ProvisionGreen)
    /\ \/ /\ Forward(p)
          /\ \E state \in {"up", "sick"} : SetUnit(green[p], state)
          /\ release' = [release EXCEPT ![green[p]] = p]
          /\ provisioned' = [provisioned EXCEPT ![p] = TRUE]
       \/ /\ ForwardFails(p)
          /\ \E state \in {unit[green[p]], "down"} : SetUnit(green[p], state)
          /\ (ProvisionGreen \in effects'[p]) = (unit' # unit)
          /\ UNCHANGED <<release, provisioned>>
    /\ UNCHANGED <<green, priorTarget, repointed, polls, trafficVars, found, mishaps>>

(* systemctl stop.                                                         *)
StopFails(f) == \/ UNCHANGED <<unit, mishaps>>
                \/ SetUnit(f, "down") /\ mishaps' = mishaps \cup {"stop"}

(* Mutant: green is left running.                                          *)
UndoProvisionGreenNot(p) ==
    /\ Undoing(p, ProvisionGreen)
    /\ Compensate(p)
    /\ UNCHANGED <<unit, release, runtimeVars, trafficVars, found, mishaps>>

UndoProvisionGreen(p) ==
    /\ Undoing(p, ProvisionGreen)
    /\ \/ /\ Compensate(p) /\ UNCHANGED mishaps
          /\ IF provisioned[p] THEN SetUnit(green[p], "down") ELSE UNCHANGED unit
       \/ /\ provisioned[p]
          /\ CompensateFails(p) /\ UNCHANGED effects
          /\ StopFails(green[p])
    /\ UNCHANGED <<release, runtimeVars, trafficVars, found>>

(* Mutant: the gate is open.                                               *)
RunHealthGateOpen(p) ==
    /\ At(p, HealthGateGreen)
    /\ Forward(p)
    /\ UNCHANGED <<runtimeVars, fleetVars, trafficVars, found, mishaps>>

(* One probe of green; an error counts as unhealthy.                       *)
RunHealthGate(p) ==
    /\ At(p, HealthGateGreen)
    /\ \/ unit[green[p]] = "up" /\ Forward(p)
       \/ ForwardFails(p) /\ UNCHANGED effects
    /\ UNCHANGED <<runtimeVars, fleetVars, trafficVars, found, mishaps>>

-----------------------------------------------------------------------------
(* switch_to(): repoint the link, then reload.                             *)

Repoint(p, target) ==
    /\ ~repointed[p]
    /\ link' = target
    /\ repointed' = [repointed EXCEPT ![p] = TRUE]

Reload(p) ==
    /\ repointed[p]
    /\ served' = link
    /\ repointed' = [repointed EXCEPT ![p] = FALSE]

ReloadFails(p) ==
    /\ repointed[p]
    /\ UNCHANGED served
    /\ mishaps' = mishaps \cup {"reload"}
    /\ repointed' = [repointed EXCEPT ![p] = FALSE]

(* run_swap(): the target before the swap is captured first.               *)
SwapRepoints(p) ==
    /\ At(p, SwapTraffic)
    /\ priorTarget' = [priorTarget EXCEPT ![p] = link]
    /\ Repoint(p, green[p])
    /\ UNCHANGED <<vars, green, provisioned, polls, fleetVars, served, found, mishaps>>

(* current_target fails, or switch_to before the link moved.               *)
SwapFails(p) ==
    /\ At(p, SwapTraffic) /\ ~repointed[p]
    /\ ForwardFails(p) /\ UNCHANGED effects
    /\ \E t \in {"none", link} : priorTarget' = [priorTarget EXCEPT ![p] = t]
    /\ UNCHANGED <<green, provisioned, repointed, polls, fleetVars, trafficVars, found, mishaps>>

SwapReloads(p) ==
    /\ At(p, SwapTraffic)
    /\ \/ Reload(p) /\ Forward(p) /\ UNCHANGED mishaps
       \/ ReloadFails(p) /\ ForwardFails(p) /\ SwapTraffic \in effects'[p]
    /\ UNCHANGED <<green, priorTarget, provisioned, polls, fleetVars, link, found>>

(* Mutant: swaps back to the other fleet of the configuration, green.      *)
UndoSwapRepointsToGreen(p) ==
    /\ Undoing(p, SwapTraffic)
    /\ Repoint(p, green[p])
    /\ UNCHANGED <<vars, green, priorTarget, provisioned, polls, fleetVars, served, found, mishaps>>

(* undo_swap(): back to the captured target.                               *)
UndoSwapRepoints(p) ==
    /\ Undoing(p, SwapTraffic)
    /\ priorTarget[p] # "none"
    /\ Repoint(p, priorTarget[p])
    /\ UNCHANGED <<vars, green, priorTarget, provisioned, polls, fleetVars, served, found, mishaps>>

UndoSwapFails(p) ==
    /\ Undoing(p, SwapTraffic) /\ ~repointed[p]
    /\ CompensateFails(p) /\ UNCHANGED effects
    /\ UNCHANGED <<runtimeVars, fleetVars, trafficVars, found, mishaps>>

UndoSwapReloads(p) ==
    /\ Undoing(p, SwapTraffic)
    /\ \/ Reload(p) /\ Compensate(p) /\ UNCHANGED mishaps
       \/ ReloadFails(p) /\ CompensateFails(p) /\ UNCHANGED effects
    /\ UNCHANGED <<green, priorTarget, provisioned, polls, fleetVars, link, found>>

-----------------------------------------------------------------------------
(* watch_green(): check, pause, check, pause, until the window is over.    *)

(* Mutant: only the first check counts.                                    *)
PollGreenOnce(p) ==
    /\ At(p, Hold) /\ polls[p] < Polls
    /\ \/ /\ polls[p] > 0 \/ unit[green[p]] = "up"
          /\ polls' = [polls EXCEPT ![p] = @ + 1] /\ UNCHANGED vars
       \/ ForwardFails(p) /\ UNCHANGED <<effects, polls>>
    /\ UNCHANGED <<green, priorTarget, provisioned, repointed, fleetVars, trafficVars, found, mishaps>>

PollGreen(p) ==
    /\ At(p, Hold) /\ polls[p] < Polls
    /\ \/ /\ unit[green[p]] = "up"
          /\ polls' = [polls EXCEPT ![p] = @ + 1] /\ UNCHANGED vars
       \/ ForwardFails(p) /\ UNCHANGED <<effects, polls>>
    /\ UNCHANGED <<green, priorTarget, provisioned, repointed, fleetVars, trafficVars, found, mishaps>>

HoldOver(p) ==
    /\ At(p, Hold) /\ polls[p] = Polls
    /\ Forward(p)
    /\ UNCHANGED <<runtimeVars, fleetVars, trafficVars, found, mishaps>>

(* Mutant: stops the wrong unit.                                           *)
RunReapWrongUnit(p) ==
    /\ At(p, Reap)
    /\ Forward(p)
    /\ SetUnit(green[p], "down")
    /\ UNCHANGED <<release, runtimeVars, trafficVars, found, mishaps>>

(* reap_blue(): stops the unit the configuration calls blue.               *)
RunReap(p) ==
    /\ At(p, Reap)
    /\ \/ Forward(p) /\ SetUnit(Other(green[p]), "down") /\ UNCHANGED mishaps
       \/ /\ ForwardFails(p)
          /\ StopFails(Other(green[p]))
          /\ (Reap \in effects'[p]) = (unit' # unit)
    /\ UNCHANGED <<release, runtimeVars, trafficVars, found>>

-----------------------------------------------------------------------------
(* Green degrades while its deploy has not ended the hold window.          *)
Degrade(p) ==
    /\ pc[p] = "forward" /\ to[p].step \in HealthGateGreen .. Hold
    /\ unit[green[p]] = "up"
    /\ SetUnit(green[p], "degraded")
    /\ mishaps' = mishaps \cup IF to[p].step = Hold /\ polls[p] = Polls THEN {"pause"} ELSE {}
    /\ UNCHANGED <<vars, release, runtimeVars, trafficVars, found>>

(* nginx is reloaded or restarted by something else.                       *)
ReloadElsewhere ==
    /\ served # link
    /\ served' = link
    /\ UNCHANGED <<vars, runtimeVars, fleetVars, link, found, mishaps>>

(* The process dies.  A unit being restarted or stopped may have got       *)
(* there; a switch_to under way is the repointing step followed by this.   *)
Die(p) ==
    /\ Crash(p)
    /\ \/ UNCHANGED <<effects, fleetVars>>
       \/ /\ At(p, ProvisionGreen)
          /\ effects'[p] = effects[p] \cup {ProvisionGreen}
          /\ \E state \in {"up", "sick", "down"} : SetUnit(green[p], state)
          /\ release' = [release EXCEPT ![green[p]] = p]
       \/ /\ Undoing(p, ProvisionGreen) /\ provisioned[p]
          /\ effects'[p] = effects[p] \ {ProvisionGreen}
          /\ SetUnit(green[p], "down") /\ UNCHANGED release
       \/ /\ At(p, Reap)
          /\ effects'[p] = effects[p] \cup {Reap}
          /\ SetUnit(Other(green[p]), "down") /\ UNCHANGED release
    /\ UNCHANGED <<runtimeVars, trafficVars, found, mishaps>>

Step(p) ==
    \/ TakeLock(p) \/ Engine(p) \/ RunPreflight(p) \/ RunMigrate(p) \/ InertUndo(p)
    \/ RunProvisionGreen(p) \/ UndoProvisionGreen(p) \/ RunHealthGate(p)
    \/ SwapRepoints(p) \/ SwapFails(p) \/ SwapReloads(p)
    \/ UndoSwapRepoints(p) \/ UndoSwapFails(p) \/ UndoSwapReloads(p)
    \/ PollGreen(p) \/ HoldOver(p) \/ RunReap(p)

AllOver == (\A p \in Procs : pc[p] \in {"returned", "dead"}) /\ UNCHANGED bgVars

BGNext == (\E p \in Procs : Step(p) \/ Degrade(p) \/ Die(p)) \/ ReloadElsewhere \/ AllOver

BGSpec == BGInit /\ [][BGNext]_bgVars

-----------------------------------------------------------------------------
(* Properties.                                                             *)

(* Every variable has its type. *)
BGTypeOK ==
    /\ TypeOK
    /\ green \in [Procs -> Fleets]
    /\ priorTarget \in [Procs -> Fleets \cup {"none"}]
    /\ {provisioned, repointed} \subseteq [Procs -> BOOLEAN]
    /\ polls \in [Procs -> 0 .. Polls]
    /\ unit \in [Fleets -> {"up", "sick", "degraded", "down"}]
    /\ release \in [Fleets -> Procs \cup {NoProc}]
    /\ link \in Fleets /\ served \in Fleets
    /\ mishaps \subseteq {"reload", "stop", "pause"}

(* Every run found nginx serving what the link names: no run died or       *)
(* failed before it between repointing the link and reloading.             *)
Settled == \A p \in Procs : found[p].served = found[p].link

(* There is always a running fleet behind the load balancer, whatever      *)
(* fails or dies: blue is stopped only once green has the traffic, green   *)
(* only once blue has it back.  A reload that failed, or a stop that lied, *)
(* breaks it.                                                              *)
TrafficIsServed == Settled /\ mishaps \cap {"reload", "stop"} = {} => unit[served] # "down"

(* "green is health-gated before any traffic moves, so the swap never      *)
(* points at a broken fleet": a fleet that never was healthy since it was  *)
(* started gets no traffic, even when a reload fails or a stop lies.       *)
GatedBeforeTraffic == Settled => unit[served] # "sick"

(* "Green takes no traffic until the swap": provision_green never restarts *)
(* the fleet that has the traffic.                                         *)
ProvisionsAnIdleFleet ==
    [][\A p \in Procs, f \in Fleets :
          At(p, ProvisionGreen) /\ (unit'[f] # unit[f] \/ release'[f] # release[f])
              => served # f]_bgVars

(* With the fleets exchanged after every commit, that holds when nginx     *)
(* serves what the link names.                                             *)
ProvisionsAnIdleFleetWhenSettled ==
    [][\A p \in Procs, f \in Fleets :
          Settled /\ At(p, ProvisionGreen) /\ (unit'[f] # unit[f] \/ release'[f] # release[f])
              => served # f]_bgVars

(* "Rollback before Reap = swap traffic back to still-hot blue": a clean   *)
(* RolledBack leaves the traffic, the link and the fleets as the run found *)
(* them.                                                                   *)
RollbackRestoresTraffic ==
    curState.tag = "RolledBack" /\ author # NoProc =>
        LET was == found[author] IN
        /\ link = was.link /\ served = was.link
        /\ unit[was.link] = was.unit[was.link]
        /\ unit[green[author]] \in {was.unit[green[author]], "down"}

(* That holds when every reload and every stop does what it says.          *)
RollbackRestoresTrafficWhenHonest ==
    Settled /\ mishaps \cap {"reload", "stop"} = {} => RollbackRestoresTraffic

(* A commit moved the traffic to the new release and stopped the old fleet. *)
CommittedServesNew ==
    curState.tag = "Committed" =>
        /\ link = green[author] /\ served = green[author]
        /\ release[served] = author
        /\ unit[Other(served)] = "down"

(* "return Err if green degrades within the window" (watch_green): blue is *)
(* not stopped for a green that degraded before the last check.            *)
HoldCatchesDegradation ==
    "pause" \notin mishaps => \A p \in Procs : At(p, Reap) => unit[green[p]] = "up"

(* Green takes no traffic before its gate: not by the swap, and not by     *)
(* being the fleet that serves when it is provisioned.                     *)
GreenIsGated == [](BGTypeOK /\ GatedBeforeTraffic) /\ ProvisionsAnIdleFleetWhenSettled

(* A run that ended left the traffic where its outcome says.               *)
OutcomePlacesTraffic == CommittedServesNew /\ RollbackRestoresTrafficWhenHonest
=============================================================================
