-------------------------- MODULE BlueGreen_proofs --------------------------
(***************************************************************************)
(* Proofs about BlueGreen for every set of runs, any number of health      *)
(* checks in the hold window and both kinds of lock.                       *)
(***************************************************************************)
EXTENDS BlueGreen, Saga_proofs

(* The history variable has its type.                                      *)
UnitStates == {"up", "sick", "degraded", "down"}
Snapshots == [link : Fleets, served : Fleets, unit : [Fleets -> UnitStates]]
FleetsOK == BGTypeOK /\ found \in [Procs -> Snapshots]

(* Every reload and every stop did what it said.                           *)
Honest == mishaps \cap {"reload", "stop"} = {}

(* The run may still change the fleets.                                    *)
Working(p) == pc[p] \in {"event", "state", "forward", "compensate"}

(* What holds of a run wherever it is: before it has the lock it has       *)
(* touched nothing; then green is the fleet that the link did not name,    *)
(* and what the link named could be served from.                           *)
RunSound(p) ==
    /\ to[p].tag = "Idle" =>
          ~repointed[p] /\ polls[p] = 0 /\ found[p].served = found[p].link
    /\ Exchanges /\ to[p].tag # "Idle" => green[p] # found[p].link
    /\ Exchanges /\ Settled =>
          /\ found[p].unit[found[p].link] # "sick"
          /\ Honest => found[p].unit[found[p].link] # "down"

(* How a run that goes forward has arranged things for its next step.      *)
Onward(p) ==
    LET i == to[p].step IN
    /\ i >= 3 => provisioned[p] /\ release[green[p]] = p
    /\ i >= 5 => unit[green[p]] \in {"up", "degraded"}
    /\ repointed[p] => i = 5 /\ link = green[p]
    /\ i >= 6 => link = green[p] /\ served = green[p]
    /\ i <= 5 => polls[p] = 0
    /\ Exchanges => unit[found[p].link] = found[p].unit[found[p].link]
    /\ i <= 2 => unit[green[p]] = found[p].unit[green[p]]
    /\ Exchanges /\ Settled =>
          /\ i <= 5 /\ ~repointed[p] => link = found[p].link /\ served = found[p].link
          /\ i >= 6 \/ repointed[p] => priorTarget[p] = found[p].link

(* What the last check of the hold window vouches for.                     *)
Checked(p) ==
    to[p].step = 7 \/ (to[p].step = 6 /\ polls[p] = Polls) => unit[green[p]] = "up"

(* How a run that goes back finds things.                                  *)
Backward(p) ==
    LET k == to[p].step IN
    /\ k >= 2 => provisioned[p]
    /\ repointed[p] => k = 5 /\ link = priorTarget[p]
    /\ Exchanges =>
          /\ unit[found[p].link] \in {found[p].unit[found[p].link], "down"}
          /\ Honest => unit[found[p].link] = found[p].unit[found[p].link]
    /\ k = 1 => unit[green[p]] \in {found[p].unit[green[p]], "down"}
    /\ Exchanges /\ Settled =>
          /\ k >= 5 => priorTarget[p] = found[p].link
          /\ Honest =>
                /\ k >= 5 /\ ~repointed[p] => link = green[p] /\ served = green[p]
                /\ k <= 4 => link = found[p].link /\ served = found[p].link

(* What a run that has committed or rolled back left.                      *)
Placed(p) ==
    /\ link = green[p] /\ served = green[p]
    /\ release[green[p]] = p
    /\ unit[Other(green[p])] = "down"

Restored(p) ==
    /\ link = found[p].link /\ served = found[p].link
    /\ unit[found[p].link] = found[p].unit[found[p].link]
    /\ unit[green[p]] \in {found[p].unit[green[p]], "down"}

(* What a run in flight relies on.                                         *)
RunFleet(p) ==
    /\ to[p].tag = "Running" => Onward(p) /\ (Polls > 0 /\ "pause" \notin mishaps => Checked(p))
    /\ to[p].tag = "Compensating" => Backward(p)
    /\ to[p].tag = "Committed" => Placed(p)
    /\ to[p].tag = "RolledBack" => (Exchanges /\ Settled /\ Honest => Restored(p))

(* Both the fleet the link names and the one that nginx serves are fit.    *)
LiveSound ==
    Exchanges /\ Settled =>
        /\ unit[link] # "sick" /\ unit[served] # "sick"
        /\ Honest => unit[link] # "down" /\ unit[served] # "down"

(* What the journal says last of a run that has ended.                     *)
Outcome ==
    /\ curState.tag = "Committed" => Placed(author)
    /\ curState.tag = "RolledBack" => (Exchanges /\ Settled /\ Honest => Restored(author))

BGInv ==
    /\ FleetsOK
    /\ \A p \in Procs : RunSound(p) /\ (Working(p) => RunFleet(p))
    /\ LiveSound
    /\ Outcome

-----------------------------------------------------------------------------
(* The two fleets.                                                         *)
LEMMA OtherFleet ==
  ASSUME NEW f \in Fleets
  PROVE  /\ Other(f) \in Fleets /\ Other(f) # f
         /\ \A g \in Fleets : g # f => g = Other(f)
<1>1. \E g \in Fleets : g # f
  BY Zenon DEF Fleets
<1>2. Other(f) \in Fleets /\ Other(f) # f
  BY <1>1, Zenon DEF Other
<1> QED
  BY <1>2, Zenon DEF Fleets

(* The engine inside the deploy is Saga's: a step of the deploy, of green  *)
(* or of nginx is a step of the engine or leaves it alone.                 *)
LEMMA StepIsEngine ==
  ASSUME NEW p \in Procs, Step(p) \/ Degrade(p) \/ Die(p)
  PROVE  Run(p) \/ Crash(p) \/ UNCHANGED vars
BY Zenon DEF Step, Degrade, Die, TakeLock, Engine, Inert, RunPreflight, RunMigrate, InertUndo,
       RunProvisionGreen, UndoProvisionGreen, RunHealthGate, SwapRepoints, SwapFails, SwapReloads,
       UndoSwapRepoints, UndoSwapFails, UndoSwapReloads, PollGreen, HoldOver, RunReap, Run

(* Hence the engine's inductive invariant holds of every deploy.           *)
LEMMA EngineNext ==
  ASSUME SagaInv, [BGNext]_bgVars
  PROVE  SagaInv'
<1>1. [Next]_vars
  BY StepIsEngine, Zenon DEF BGNext, AllOver, ReloadElsewhere, bgVars, Next
<1> QED
  BY <1>1, NextInv, Zenon

(* What the engine guarantees holds of the blue-green flow.                *)
LEMMA EngineInv == BGSpec => []SagaInv
<1>1. BGInit => SagaInv
  BY InitInv, Zenon DEF BGInit
<1>2. SagaInv /\ [BGNext]_bgVars => SagaInv'
  BY EngineNext, Zenon
<1> QED
  BY <1>1, <1>2, PTL DEF BGSpec

(* Where the engine takes a run that goes forward or back.                 *)
LEMMA ForwardMoves ==
  ASSUME SagaInv, NEW p \in Procs, Forward(p)
  PROVE  /\ pc[p] = "forward" /\ to[p].tag = "Running" /\ to[p].step \in 1 .. 7
         /\ pc'[p] = "event" /\ curState' = curState /\ author' = author
         /\ to[p].step = 7 => to'[p].tag = "Committed"
         /\ to[p].step # 7 => to'[p].tag = "Running" /\ to'[p].step = to[p].step + 1
BY SevenSteps, ForwardEnters, Zenon

(* A step that failed sends the run back, from the step before it.         *)
LEMMA ForwardFailsMoves ==
  ASSUME SagaInv, NEW p \in Procs, ForwardFails(p)
  PROVE  /\ pc[p] = "forward" /\ to[p].tag = "Running" /\ to[p].step \in 1 .. 7
         /\ pc'[p] = "event" /\ curState' = curState /\ author' = author
         /\ to[p].step = 1 => to'[p].tag = "RolledBack"
         /\ to[p].step # 1 => to'[p].tag = "Compensating" /\ to'[p].step = to[p].step - 1
BY SevenSteps, ForwardFailsEnters, Zenon

(* A compensation hands over to the one of the step before.                *)
LEMMA CompensateMoves ==
  ASSUME SagaInv, NEW p \in Procs, Compensate(p)
  PROVE  /\ pc[p] = "compensate" /\ to[p].tag = "Compensating" /\ to[p].step \in 1 .. 7
         /\ pc'[p] = "event" /\ curState' = curState /\ author' = author
         /\ to[p].step = 1 => to'[p].tag = "RolledBack"
         /\ to[p].step # 1 => to'[p].tag = "Compensating" /\ to'[p].step = to[p].step - 1
BY SevenSteps, CompensateEnters, Zenon

(* A compensation that failed ends the run.                                *)
LEMMA CompensateFailsMoves ==
  ASSUME SagaInv, NEW p \in Procs, CompensateFails(p)
  PROVE  /\ pc[p] = "compensate" /\ to[p].tag = "Compensating" /\ to[p].step \in 1 .. 7
         /\ pc'[p] = "event" /\ curState' = curState /\ author' = author
         /\ to'[p].tag = "PartialRollback"
BY SevenSteps, CompensateFailsEnters, Zenon

(* The other steps of the engine: a run enters its first step with the     *)
(* lock, and journals what it has entered.                                 *)
LEMMA EngineMoves ==
  ASSUME SagaInv, NEW p \in Procs, Engine(p)
  PROVE  /\ to' = to
         /\ Working(p)' => Working(p)
         /\ \/ curState' = curState /\ author' = author
            \/ Working(p) /\ curState' = to[p] /\ author' = p
<1>1. TypeOK
  BY Zenon DEF SagaInv
<1>2. to' = to
  BY Zenon DEF Engine, Locked, RecordEvent, RecordState, ReleaseLock, AcquireFails, StoreFails,
     ReleaseFails
<1>3. Working(p)' => Working(p)
  BY <1>1, Zenon
  DEF Engine, Locked, RecordEvent, RecordState, ReleaseLock, AcquireFails, StoreFails,
     ReleaseFails, Working, TypeOK
<1>4. \/ curState' = curState /\ author' = author
      \/ Working(p) /\ curState' = to[p] /\ author' = p
  BY Zenon DEF Engine, Locked, RecordEvent, RecordState, ReleaseLock, AcquireFails, StoreFails,
     ReleaseFails, storeVars, Working
<1> QED
  BY <1>2, <1>3, <1>4, Zenon

(* Whoever takes the lock is alone, and starts at the first step.          *)
LEMMA LockMovesRun ==
  ASSUME SagaInv, NEW p \in Procs, AcquireLock(p)
  PROVE  /\ to[p].tag = "Idle" /\ to'[p].tag = "Running" /\ to'[p].step = 1
         /\ curState' = curState /\ author' = author /\ author # p
         /\ \A q \in Procs : ~InFlight(q)
<1>1. TypeOK /\ \A q \in Procs : RunInv(q) /\ Journalled(q)
  BY Zenon DEF SagaInv
<1>2. to[p].tag = "Idle" /\ author # p
  BY <1>1 DEF AcquireLock, RunInv, Journalled, Idle, State
<1>3. to'[p] = State("Running", 0 + 1)
  BY <1>1, SevenSteps DEF AcquireLock, Enter, TypeOK, AfterForward
<1>4. to'[p].tag = "Running" /\ to'[p].step = 1
  BY <1>3 DEF State
<1>5. \A q \in Procs : ~InFlight(q)
  BY <1>1, NoProcAssumption, Zenon DEF AcquireLock, RunInv
<1> QED
  BY <1>2, <1>4, <1>5, Zenon DEF AcquireLock, storeVars

(* Every step keeps the types.                                             *)
LEMMA FleetTypes ==
  ASSUME TypeOK', FleetsOK, NEW p \in Procs, Step(p) \/ Degrade(p) \/ Die(p)
  PROVE  FleetsOK'
<1> USE DEF FleetsOK, BGTypeOK, runtimeVars, fleetVars, trafficVars
<1>1. CASE TakeLock(p)
  <2>1. Other(link) \in Fleets /\ "green" \in Fleets
    BY OtherFleet, Zenon DEF Fleets
  <2>2. [link |-> link, served |-> served, unit |-> unit] \in Snapshots
    BY Zenon DEF Snapshots, UnitStates
  <2> QED
    BY <1>1, <2>1, <2>2, Zenon DEF TakeLock
<1>2. CASE UNCHANGED <<runtimeVars, fleetVars, trafficVars, found, mishaps>>
  BY <1>2, Zenon
<1>3. CASE RunProvisionGreen(p)
  <2>1. unit' \in [Fleets -> {"up", "sick", "degraded", "down"}]
    BY <1>3, Zenon DEF RunProvisionGreen, SetUnit
  <2>2. release' \in [Fleets -> Procs \cup {NoProc}]
    BY <1>3, Zenon DEF RunProvisionGreen
  <2>3. provisioned' \in [Procs -> BOOLEAN]
    BY <1>3, Zenon DEF RunProvisionGreen
  <2> QED
    BY <1>3, <2>1, <2>2, <2>3, Zenon DEF RunProvisionGreen
<1>4. CASE UndoProvisionGreen(p)
  BY <1>4, Zenon DEF UndoProvisionGreen, SetUnit, StopFails
<1>5. CASE SwapRepoints(p)
  BY <1>5, Zenon DEF SwapRepoints, Repoint
<1>6. CASE SwapFails(p)
  <2>1. priorTarget' \in [Procs -> Fleets \cup {"none"}]
    <3>1. \E x \in Fleets \cup {"none"} : priorTarget' = [priorTarget EXCEPT ![p] = x]
      BY <1>6, Zenon DEF SwapFails
    <3> QED
      BY <3>1, Zenon
  <2> QED
    BY <1>6, <2>1, Zenon DEF SwapFails
<1>7. CASE SwapReloads(p)
  <2>1. repointed' \in [Procs -> BOOLEAN]
    BY <1>7, Zenon DEF SwapReloads, Reload, ReloadFails
  <2>2. served' \in Fleets
    BY <1>7, Zenon DEF SwapReloads, Reload, ReloadFails
  <2>3. mishaps' \subseteq {"reload", "stop", "pause"}
    BY <1>7, Zenon DEF SwapReloads, Reload, ReloadFails
  <2> QED
    BY <1>7, <2>1, <2>2, <2>3, Zenon DEF SwapReloads
<1>8. CASE UndoSwapRepoints(p)
  BY <1>8, Zenon DEF UndoSwapRepoints, Repoint
<1>9. CASE UndoSwapReloads(p)
  <2>1. repointed' \in [Procs -> BOOLEAN]
    BY <1>9, Zenon DEF UndoSwapReloads, Reload, ReloadFails
  <2>2. served' \in Fleets
    BY <1>9, Zenon DEF UndoSwapReloads, Reload, ReloadFails
  <2>3. mishaps' \subseteq {"reload", "stop", "pause"}
    BY <1>9, Zenon DEF UndoSwapReloads, Reload, ReloadFails
  <2> QED
    BY <1>9, <2>1, <2>2, <2>3, Zenon DEF UndoSwapReloads
<1>10. CASE PollGreen(p)
  <2>1. polls[p] < Polls => polls[p] + 1 \in 0 .. Polls
    BY PollsAssumption
  <2>2. polls' \in [Procs -> 0 .. Polls]
    BY <1>10, <2>1, ZenonT(30) DEF PollGreen
  <2> QED
    BY <1>10, <2>2, Zenon DEF PollGreen
<1>11. CASE RunReap(p)
  <2>1. Other(green[p]) \in Fleets
    BY OtherFleet, Zenon
  <2> QED
    BY <1>11, <2>1, Zenon DEF RunReap, SetUnit, StopFails
<1>12. CASE Degrade(p)
  BY <1>12, Zenon DEF Degrade, SetUnit
<1>13. CASE Die(p)
  <2>1. Other(green[p]) \in Fleets
    BY OtherFleet, Zenon
  <2>2. unit' \in [Fleets -> {"up", "sick", "degraded", "down"}]
    BY <1>13, <2>1, Zenon DEF Die, SetUnit
  <2>3. release' \in [Fleets -> Procs \cup {NoProc}]
    BY <1>13, Zenon DEF Die
  <2> QED
    BY <1>13, <2>2, <2>3, Zenon DEF Die
<1> QED
  BY <1>1, <1>2, <1>3, <1>4, <1>5, <1>6, <1>7, <1>8, <1>9, <1>10, <1>11, <1>12, <1>13, Zenon
     DEF Step, Engine, RunPreflight, RunMigrate, Inert, InertUndo, RunHealthGate, UndoSwapFails,
         HoldOver

(* Only a run in the middle of a step changes what the deploy is about;    *)
(* it then is the author of the journal, which says so.                    *)
LEMMA Changes ==
  ASSUME SagaInv, NEW p \in Procs, Step(p) \/ Degrade(p) \/ Die(p)
  PROVE  \/ TakeLock(p)
         \/ Engine(p)
         \/ Die(p) /\ UNCHANGED <<runtimeVars, fleetVars, trafficVars, found, mishaps>>
         \/ /\ pc[p] \in {"forward", "compensate"} /\ InFlight(p) /\ found' = found
            /\ to[p].tag \in {"Running", "Compensating"}
            /\ curState.tag \in {"Running", "Compensating"} /\ curState' = curState
<1>1. CASE pc[p] \in {"forward", "compensate"}
  <2>1. RunInv(p) /\ Journalled(p)
    BY Zenon DEF SagaInv
  <2>2. /\ InFlight(p) /\ to[p].tag \in {"Running", "Compensating"} /\ curState = to[p]
    BY <1>1, <2>1, Zenon DEF RunInv, Journalled, InFlight
  <2>3. TakeLock(p) \/ Engine(p) \/ found' = found
    BY Zenon DEF Step, Degrade, Die, RunPreflight, RunMigrate, Inert, InertUndo,
       RunProvisionGreen, UndoProvisionGreen, RunHealthGate, SwapRepoints, SwapFails, SwapReloads,
       UndoSwapRepoints, UndoSwapFails, UndoSwapReloads, PollGreen, HoldOver, RunReap
  <2>4. TakeLock(p) \/ Engine(p) \/ curState' = curState
    <3>1. CASE UNCHANGED vars
      BY <3>1, Zenon DEF vars, storeVars
    <3>2. CASE Run(p) \/ Crash(p)
      BY <1>1, <3>2, Zenon
      DEF Run, Crash, AcquireLock, Locked, AcquireFails, RecordEvent, RecordState,
         StoreFails, Forward, ForwardFails, Compensate, CompensateFails, ReleaseLock, ReleaseFails,
         storeVars
    <3> QED
      BY <3>1, <3>2, StepIsEngine, Zenon
  <2> QED
    BY <1>1, <2>2, <2>3, <2>4, Zenon
<1>2. CASE pc[p] \notin {"forward", "compensate"}
  BY <1>2, Zenon DEF Step, Degrade, Die, RunPreflight, RunMigrate, Inert, InertUndo, At, Undoing,
       RunProvisionGreen, UndoProvisionGreen, RunHealthGate, SwapRepoints, SwapFails, SwapReloads,
       UndoSwapRepoints, UndoSwapFails, UndoSwapReloads, PollGreen, HoldOver, RunReap, fleetVars
<1> QED
  BY <1>1, <1>2, Zenon

(* A step of run p leaves what is kept for every other run alone.          *)
LEMMA OtherEntries ==
  ASSUME SagaInv, FleetsOK, NEW p \in Procs, NEW q \in Procs, q # p, Step(p) \/ Degrade(p) \/ Die(p)
  PROVE  /\ green'[q] = green[q] /\ priorTarget'[q] = priorTarget[q]
         /\ provisioned'[q] = provisioned[q] /\ repointed'[q] = repointed[q]
         /\ polls'[q] = polls[q] /\ found'[q] = found[q]
         /\ to'[q] = to[q] /\ pc'[q] = pc[q]
<1> USE DEF Step, Degrade, Die, TakeLock, Engine, RunPreflight, RunMigrate, Inert, InertUndo,
       RunProvisionGreen, UndoProvisionGreen, RunHealthGate, SwapRepoints, SwapFails, SwapReloads,
       UndoSwapRepoints, UndoSwapFails, UndoSwapReloads, PollGreen, HoldOver, RunReap, runtimeVars
<1>1. green' = green \/ \E x : green' = [green EXCEPT ![p] = x]
  BY Zenon
<1>2. priorTarget' = priorTarget \/ \E x : priorTarget' = [priorTarget EXCEPT ![p] = x]
  BY Zenon
<1>3. provisioned' = provisioned \/ \E x : provisioned' = [provisioned EXCEPT ![p] = x]
  BY Zenon
<1>4. repointed' = repointed \/ \E x : repointed' = [repointed EXCEPT ![p] = x]
  BY Zenon DEF Repoint, Reload, ReloadFails
<1>5. polls' = polls \/ \E x : polls' = [polls EXCEPT ![p] = x]
  BY Zenon
<1>6. found' = found \/ \E x : found' = [found EXCEPT ![p] = x]
  BY Zenon
<1>7. TypeOK
  BY Zenon DEF SagaInv
<1>8. to'[q] = to[q] /\ pc'[q] = pc[q]
  BY <1>7, StepIsEngine, OthersStand, Zenon DEF vars, runVars
<1> QED
  BY <1>1, <1>2, <1>3, <1>4, <1>5, <1>6, <1>8, ZenonT(30) DEF FleetsOK, BGTypeOK

(* While a run is in flight the others can only be refused.                *)
LEMMA OthersWait ==
  ASSUME SagaInv, NEW p \in Procs, NEW q \in Procs, q # p, InFlight(q),
         Step(p) \/ Degrade(p) \/ Die(p)
  PROVE  UNCHANGED <<runtimeVars, fleetVars, trafficVars, found, mishaps>>
<1>1. RunInv(p) /\ RunInv(q)
  BY Zenon DEF SagaInv
<1>2. ~InFlight(p) /\ lock = q /\ q # NoProc
  BY <1>1, NoProcAssumption, Zenon DEF RunInv
<1>3. ~TakeLock(p)
  BY <1>2, Zenon DEF TakeLock, AcquireLock
<1> QED
  BY <1>2, <1>3, Changes, Zenon DEF Engine

(* What a run in the middle of a step knows.                               *)
LEMMA Knows ==
  ASSUME SagaInv, BGInv, NEW p \in Procs
  PROVE  /\ green[p] \in Fleets /\ found[p].link \in Fleets /\ link \in Fleets /\ served \in Fleets
         /\ to[p].tag # "Idle" /\ Exchanges =>
               green[p] # found[p].link /\ Other(green[p]) = found[p].link
         /\ pc[p] = "forward" =>
               /\ to[p].tag = "Running" /\ to[p].step \in 1 .. 7 /\ Onward(p)
               /\ Polls > 0 /\ "pause" \notin mishaps => Checked(p)
         /\ pc[p] = "compensate" =>
               to[p].tag = "Compensating" /\ to[p].step \in 1 .. 7 /\ Backward(p)
<1>1. RunInv(p)
  BY Zenon DEF SagaInv
<1>2. pc[p] = "forward" => to[p].tag = "Running" /\ to[p].step \in 1 .. 7
  BY <1>1, SevenSteps, Zenon DEF RunInv, Bounds, Steps
<1>3. pc[p] = "compensate" => to[p].tag = "Compensating" /\ to[p].step \in 1 .. 7
  BY <1>1, SevenSteps, Zenon DEF RunInv, Bounds, Steps
<1>4. FleetsOK /\ RunSound(p) /\ (Working(p) => RunFleet(p))
  BY Zenon DEF BGInv
<1>5. green[p] \in Fleets /\ found[p].link \in Fleets /\ link \in Fleets /\ served \in Fleets
  BY <1>4, Zenon DEF FleetsOK, BGTypeOK, Snapshots
<1>6. to[p].tag # "Idle" /\ Exchanges =>
        green[p] # found[p].link /\ Other(green[p]) = found[p].link
  BY <1>4, <1>5, OtherFleet, ZenonT(30) DEF RunSound
<1> QED
  BY <1>2, <1>3, <1>4, <1>5, <1>6, Zenon DEF RunFleet, Working

(* A step that fails and leaves the fleets and the traffic as they were    *)
(* finds everything for the way back.                                      *)
LEMMA TurnsBack ==
  ASSUME SagaInv, BGInv, NEW p \in Procs, ForwardFails(p), ~repointed[p],
         UNCHANGED <<green, provisioned, repointed, fleetVars, trafficVars, found, mishaps>>,
         to[p].step >= 6 => priorTarget'[p] = priorTarget[p]
  PROVE  RunFleet(p)'
<1>1. /\ Onward(p) /\ to[p].step \in 1 .. 7
      /\ to[p].step = 1 => to'[p].tag = "RolledBack"
      /\ to[p].step # 1 => to'[p].tag = "Compensating" /\ to'[p].step = to[p].step - 1
  BY ForwardFailsMoves, Knows, Zenon
<1>2. (Settled' <=> Settled) /\ (Honest' <=> Honest)
  BY Zenon DEF Settled, Honest
<1>3. CASE to[p].step = 1
  <2>1. Exchanges /\ Settled /\ Honest => Restored(p)
    BY <1>1, <1>3 DEF Onward, Restored
  <2>2. Restored(p) => Restored(p)'
    BY Zenon DEF Restored, fleetVars, trafficVars
  <2> QED
    BY <1>1, <1>2, <1>3, <2>1, <2>2, Zenon DEF RunFleet
<1>4. CASE to[p].step # 1
  <2> DEFINE k == to[p].step - 1
  <2>1. /\ k \in 1 .. 6 /\ to'[p].step = k /\ (k >= 2 => to[p].step >= 3) /\ (k = 1 => to[p].step <= 2)
        /\ (k >= 5 => to[p].step >= 6) /\ (k <= 4 => to[p].step <= 5)
    BY <1>1, <1>4
  <2>2. Backward(p)'
    BY <1>1, <1>2, <2>1, Zenon DEF Onward, Backward, fleetVars, trafficVars
  <2> QED
    BY <1>1, <1>4, <2>2, Zenon DEF RunFleet
<1> QED
  BY <1>3, <1>4, Zenon

(* Nothing that is live changes.                                           *)
LEMMA LiveStands ==
  ASSUME LiveSound, UNCHANGED <<unit, link, served>>, Settled' => Settled, Honest' => Honest
  PROVE  LiveSound'
BY Zenon DEF LiveSound

(* The steps that change neither fleets nor traffic.                       *)
LEMMA InertFleet ==
  ASSUME SagaInv, BGInv, NEW p \in Procs,
         \/ RunPreflight(p) \/ RunMigrate(p) \/ RunHealthGate(p) \/ HoldOver(p)
  PROVE  RunFleet(p)'
<1> USE DEF RunPreflight, RunMigrate, RunHealthGate, HoldOver, Inert, At, Preflight, Migrate, HealthGateGreen, Hold
<1>1. UNCHANGED <<runtimeVars, fleetVars, trafficVars, found, mishaps>>
  BY Zenon
<1>2. pc[p] = "forward" /\ to[p].step \in {1, 3, 4, 6}
  BY Zenon
<1>3. Onward(p) /\ (Polls > 0 /\ "pause" \notin mishaps => Checked(p))
  BY <1>2, Knows, Zenon
<1>4. ~repointed[p]
  BY <1>2, <1>3 DEF Onward
<1>5. CASE ForwardFails(p)
  BY <1>1, <1>4, <1>5, TurnsBack, Zenon DEF runtimeVars
<1>6. CASE Forward(p)
  <2>1. to'[p].tag = "Running" /\ to'[p].step = to[p].step + 1
    BY <1>2, <1>6, ForwardMoves
  <2>2. (Settled' <=> Settled) /\ (Honest' <=> Honest)
    BY <1>1, Zenon DEF Settled, Honest
  <2>f. ~ForwardFails(p)
    BY <2>1, ForwardFailsMoves, Zenon
  <2>3. to[p].step = 4 => unit[green[p]] = "up"
    BY <2>f, SMTT(30)
  <2>4. Onward(p)'
    <3>1. /\ green'[p] = green[p] /\ unit' = unit /\ found' = found /\ link' = link /\ served' = served
          /\ polls'[p] = polls[p] /\ release' = release /\ provisioned'[p] = provisioned[p]
          /\ repointed' = repointed /\ priorTarget' = priorTarget
      BY <1>1, Zenon DEF runtimeVars, fleetVars, trafficVars
    <3> QED
      BY <1>2, <1>3, <1>4, <2>1, <2>2, <2>3, <3>1 DEF Onward
  <2>5. Polls > 0 /\ "pause" \notin mishaps' => Checked(p)'
    <3>1. to[p].step = 6 => polls[p] = Polls
      BY <2>f
    <3>2. to'[p].step = 7 => to[p].step = 6
      BY <2>1, <1>2
    <3>3. to'[p].step # 6
      BY <2>1, <1>2
    <3> QED
      BY <1>1, <1>3, <3>1, <3>2, <3>3, Zenon DEF Checked, runtimeVars, fleetVars
  <2> QED
    BY <2>1, <2>4, <2>5, Zenon DEF RunFleet
<1> QED
  BY <1>5, <1>6, Zenon

(* provision_green: green has no traffic.                                  *)
LEMMA ProvisionFleet ==
  ASSUME SagaInv, BGInv, NEW p \in Procs, RunProvisionGreen(p)
  PROVE  RunFleet(p)' /\ LiveSound'
<1> USE DEF ProvisionGreen
<1>1. /\ pc[p] = "forward" /\ to[p].step = 2 /\ to[p].tag = "Running" /\ Onward(p)
      /\ UNCHANGED <<green, priorTarget, repointed, polls, link, served, found, mishaps>>
  BY Knows, Zenon DEF RunProvisionGreen, At, trafficVars
<1>2. ~repointed[p] /\ polls[p] = 0 /\ unit[green[p]] = found[p].unit[green[p]]
  BY <1>1 DEF Onward
<1>3. (Settled' <=> Settled) /\ (Honest' <=> Honest)
  BY <1>1, Zenon DEF Settled, Honest
<1>4. /\ green[p] \in Fleets /\ found[p].link \in Fleets /\ (Exchanges => green[p] # found[p].link)
      /\ unit \in [Fleets -> {"up", "sick", "degraded", "down"}]
      /\ release \in [Fleets -> Procs \cup {NoProc}] /\ provisioned \in [Procs -> BOOLEAN]
      /\ LiveSound
  BY <1>1, Knows, Zenon DEF BGInv, FleetsOK, BGTypeOK
<1>5. \E x : unit' = [unit EXCEPT ![green[p]] = x]
  BY Zenon DEF RunProvisionGreen, SetUnit
<1>6. \A f \in Fleets : f # green[p] => unit'[f] = unit[f]
  BY <1>4, <1>5, Zenon
<1>7. Exchanges /\ Settled => link = found[p].link /\ served = found[p].link
  BY <1>1, <1>2 DEF Onward
<1>8. Exchanges => unit'[found[p].link] = found[p].unit[found[p].link]
  BY <1>1, <1>4, <1>6, Zenon DEF Onward
<1>9. LiveSound'
  BY <1>1, <1>3, <1>4, <1>6, <1>7, Zenon DEF LiveSound
<1>10. CASE Forward(p)
  <2>1. to'[p].tag = "Running" /\ to'[p].step = 3
    BY <1>1, <1>10, ForwardMoves
  <2>f. ~ForwardFails(p)
    BY <2>1, ForwardFailsMoves, Zenon
  <2>2. release'[green[p]] = p /\ provisioned'[p]
    BY <1>4, <2>f, ZenonT(30) DEF RunProvisionGreen
  <2>3. Onward(p)' /\ Checked(p)'
    BY <1>1, <1>2, <1>3, <1>7, <1>8, <2>1, <2>2 DEF Onward, Checked
  <2> QED
    BY <1>9, <2>1, <2>3, Zenon DEF RunFleet
<1>11. CASE ForwardFails(p)
  <2>1. to'[p].tag = "Compensating" /\ to'[p].step = 1
    BY <1>1, <1>11, ForwardFailsMoves
  <2>f. ~Forward(p)
    BY <2>1, <1>1, ForwardMoves, Zenon
  <2>2. unit'[green[p]] \in {found[p].unit[green[p]], "down"}
    BY <1>2, <1>4, <2>f, ZenonT(30) DEF RunProvisionGreen, SetUnit
  <2>3. Backward(p)'
    BY <1>1, <1>2, <1>3, <1>7, <1>8, <2>1, <2>2 DEF Backward
  <2> QED
    BY <1>9, <2>1, <2>3, Zenon DEF RunFleet
<1> QED
  BY <1>10, <1>11, Zenon DEF RunProvisionGreen

(* reap_blue: green has the traffic.                                       *)
LEMMA ReapFleet ==
  ASSUME SagaInv, BGInv, NEW p \in Procs, RunReap(p)
  PROVE  RunFleet(p)' /\ LiveSound'
<1> USE DEF Reap
<1>1. /\ pc[p] = "forward" /\ to[p].step = 7 /\ to[p].tag = "Running" /\ Onward(p)
      /\ UNCHANGED <<runtimeVars, release, link, served, found>>
  BY Knows, Zenon DEF RunReap, At, trafficVars
<1>2. /\ green'[p] = green[p] /\ priorTarget'[p] = priorTarget[p] /\ repointed'[p] = repointed[p]
      /\ provisioned'[p] = provisioned[p]
  BY <1>1, ZenonT(30) DEF runtimeVars
<1>3. /\ ~repointed[p] /\ provisioned[p] /\ link = green[p] /\ served = green[p] /\ release[green[p]] = p
      /\ unit[green[p]] \in {"up", "degraded"}
      /\ Exchanges => unit[found[p].link] = found[p].unit[found[p].link]
      /\ Exchanges /\ Settled => priorTarget[p] = found[p].link
  BY <1>1 DEF Onward
<1>4. /\ green[p] \in Fleets /\ found[p].link \in Fleets
      /\ Exchanges => green[p] # found[p].link /\ Other(green[p]) = found[p].link
      /\ Other(green[p]) \in Fleets /\ Other(green[p]) # green[p]
      /\ unit \in [Fleets -> {"up", "sick", "degraded", "down"}]
  BY <1>1, Knows, OtherFleet, Zenon DEF BGInv, FleetsOK, BGTypeOK
<1>5. Settled' <=> Settled
  BY <1>1, Zenon DEF Settled
<1>6. unit' = unit \/ unit' = [unit EXCEPT ![Other(green[p])] = "down"]
  BY Zenon DEF RunReap, SetUnit, StopFails
<1>7. unit'[green[p]] = unit[green[p]]
  BY <1>4, <1>6, Zenon
<1>8. LiveSound'
  BY <1>1, <1>3, <1>7, Zenon DEF LiveSound
<1>9. CASE Forward(p)
  <2>1. to'[p].tag = "Committed"
    BY <1>1, <1>9, ForwardMoves, Zenon
  <2>f. ~ForwardFails(p)
    BY <2>1, ForwardFailsMoves, Zenon
  <2>2. unit'[Other(green[p])] = "down"
    BY <1>4, <2>f, Zenon DEF RunReap, SetUnit
  <2>3. Placed(p)'
    BY <1>1, <1>2, <1>3, <2>2, Zenon DEF Placed
  <2> QED
    BY <1>8, <2>1, <2>3, Zenon DEF RunFleet
<1>10. CASE ForwardFails(p)
  <2>1. to'[p].tag = "Compensating" /\ to'[p].step = 6
    BY <1>1, <1>10, ForwardFailsMoves
  <2>f. ~Forward(p)
    BY <2>1, <1>1, ForwardMoves, Zenon
  <2>2. unit' = unit \/ "stop" \in mishaps'
    BY <2>f, Zenon DEF RunReap, StopFails
  <2>3. Honest' => unit' = unit
    BY <2>2, Zenon DEF Honest
  <2>4. Exchanges => /\ unit'[found[p].link] \in {found[p].unit[found[p].link], "down"}
                     /\ Honest' => unit'[found[p].link] = found[p].unit[found[p].link]
    BY <1>3, <1>4, <1>6, <2>3, ZenonT(30)
  <2>5. Backward(p)'
    BY <1>1, <1>2, <1>3, <1>5, <2>1, <2>4 DEF Backward
  <2> QED
    BY <1>8, <2>1, <2>5, Zenon DEF RunFleet
<1> QED
  BY <1>9, <1>10, Zenon DEF RunReap

(* switch_to on the way forward: the link moves, then the traffic.         *)
LEMMA SwapFleet ==
  ASSUME SagaInv, BGInv, NEW p \in Procs, SwapRepoints(p) \/ SwapFails(p) \/ SwapReloads(p)
  PROVE  RunFleet(p)' /\ LiveSound'
<1> USE DEF SwapTraffic
<1>1. /\ pc[p] = "forward" /\ to[p].step = 5 /\ to[p].tag = "Running" /\ Onward(p)
      /\ UNCHANGED <<green, provisioned, polls, fleetVars, found>>
  BY Knows, Zenon DEF SwapRepoints, SwapFails, SwapReloads, At
<1>2. /\ provisioned[p] /\ release[green[p]] = p /\ unit[green[p]] \in {"up", "degraded"}
      /\ polls[p] = 0 /\ (repointed[p] => link = green[p])
      /\ Exchanges => unit[found[p].link] = found[p].unit[found[p].link]
      /\ Exchanges /\ Settled =>
            /\ ~repointed[p] => link = found[p].link /\ served = found[p].link
            /\ repointed[p] => priorTarget[p] = found[p].link
  BY <1>1 DEF Onward
<1>3. /\ green'[p] = green[p] /\ provisioned'[p] = provisioned[p] /\ polls'[p] = polls[p]
      /\ unit' = unit /\ release' = release /\ found' = found /\ (Settled' <=> Settled)
  BY <1>1, Zenon DEF fleetVars, Settled
<1>4. /\ LiveSound /\ repointed \in [Procs -> BOOLEAN]
      /\ priorTarget \in [Procs -> Fleets \cup {"none"}]
  BY Zenon DEF BGInv, FleetsOK, BGTypeOK
<1>5. CASE SwapRepoints(p)
  <2>1. /\ link' = green[p] /\ served' = served /\ repointed'[p] /\ priorTarget'[p] = link
        /\ to' = to /\ mishaps' = mishaps /\ ~repointed[p]
    BY <1>4, <1>5, Zenon DEF SwapRepoints, Repoint, vars, runVars
  <2>2. Honest' <=> Honest
    BY <2>1, Zenon DEF Honest
  <2>3. LiveSound'
    BY <1>2, <1>3, <1>4, <2>1, <2>2, ZenonT(30) DEF LiveSound
  <2>4. Onward(p)' /\ Checked(p)'
    BY <1>1, <1>2, <1>3, <2>1 DEF Onward, Checked
  <2> QED
    BY <1>1, <2>1, <2>3, <2>4, Zenon DEF RunFleet
<1>6. CASE SwapFails(p)
  <2>1. /\ UNCHANGED <<repointed, link, served, mishaps, trafficVars>> /\ ForwardFails(p) /\ ~repointed[p]
    BY <1>6, Zenon DEF SwapFails, trafficVars
  <2>2. Honest' <=> Honest
    BY <2>1, Zenon DEF Honest
  <2>3. ~(to[p].step >= 6)
    BY <1>1
  <2> QED
    BY <1>1, <1>3, <1>4, <2>1, <2>2, <2>3, TurnsBack, LiveStands, Zenon
<1>7. CASE SwapReloads(p)
  <2>1. repointed[p] /\ ~repointed'[p] /\ priorTarget' = priorTarget /\ link' = link
    BY <1>4, <1>7, Zenon DEF SwapReloads, Reload, ReloadFails
  <2>2. CASE Reload(p) /\ Forward(p) /\ UNCHANGED mishaps
    <3>1. to'[p].tag = "Running" /\ to'[p].step = 6
      BY <1>1, <2>2, ForwardMoves
    <3>2. served' = link /\ (Honest' <=> Honest)
      BY <2>2, Zenon DEF Reload, Honest
    <3>3. LiveSound'
      BY <1>3, <1>4, <2>1, <3>2, ZenonT(30) DEF LiveSound
    <3>4. Onward(p)'
      BY <1>1, <1>2, <1>3, <2>1, <3>1, <3>2, SMTT(30) DEF Onward
    <3>5. Polls > 0 => Checked(p)'
      BY <1>2, <1>3, <3>1, PollsAssumption DEF Checked
    <3> QED
      BY <3>1, <3>3, <3>4, <3>5, ZenonT(30) DEF RunFleet
  <2>3. CASE ReloadFails(p) /\ ForwardFails(p)
    <3>1. to'[p].tag = "Compensating" /\ to'[p].step = 4
      BY <1>1, <2>3, ForwardFailsMoves
    <3>2. ~Honest' /\ served' = served
      BY <2>3, Zenon DEF Honest, ReloadFails
    <3>3. LiveSound'
      BY <1>3, <1>4, <2>1, <3>2, ZenonT(30) DEF LiveSound
    <3>4. Backward(p)'
      BY <1>1, <1>2, <1>3, <2>1, <3>1, <3>2 DEF Backward
    <3> QED
      BY <3>1, <3>3, <3>4, Zenon DEF RunFleet
  <2> QED
    BY <1>7, <2>2, <2>3, Zenon DEF SwapReloads
<1> QED
  BY <1>5, <1>6, <1>7, Zenon

(* The compensations that change nothing.                                  *)
LEMMA InertUndoFleet ==
  ASSUME SagaInv, BGInv, NEW p \in Procs, InertUndo(p)
  PROVE  RunFleet(p)' /\ LiveSound'
<1> USE DEF Preflight, Migrate, HealthGateGreen, Hold, Reap
<1>1. /\ pc[p] = "compensate" /\ to[p].step \in {1, 3, 4, 6, 7} /\ Backward(p) /\ Compensate(p)
      /\ UNCHANGED <<runtimeVars, fleetVars, trafficVars, found, mishaps>>
  BY Knows, Zenon DEF InertUndo, Undoing
<1>2. (Settled' <=> Settled) /\ (Honest' <=> Honest) /\ LiveSound
  BY <1>1, Zenon DEF Settled, Honest, BGInv
<1>3. LiveSound'
  BY <1>1, <1>2, LiveStands, ZenonT(30) DEF fleetVars, trafficVars
<1>4. ~repointed[p]
  BY <1>1 DEF Backward
<1>5. CASE to[p].step = 1
  <2>1. to'[p].tag = "RolledBack"
    BY <1>1, <1>5, CompensateMoves, ZenonT(30)
  <2>2. Exchanges /\ Settled /\ Honest => Restored(p)
    BY <1>1, <1>5 DEF Backward, Restored
  <2>3. Restored(p) => Restored(p)'
    BY <1>1, Zenon DEF Restored, runtimeVars, fleetVars, trafficVars
  <2> QED
    BY <1>2, <1>3, <2>1, <2>2, <2>3, Zenon DEF RunFleet
<1>6. CASE to[p].step # 1
  <2>1. to'[p].tag = "Compensating" /\ to'[p].step = to[p].step - 1
    BY <1>1, <1>6, CompensateMoves, Zenon
  <2>2. /\ to'[p].step >= 2 /\ to'[p].step # 1 /\ to[p].step >= 2
        /\ (to'[p].step >= 5 => to[p].step >= 5) /\ (to'[p].step <= 4 => to[p].step <= 4)
    BY <1>1, <1>6, <2>1
  <2>3. Backward(p)'
    BY <1>1, <1>2, <1>4, <2>2, Zenon DEF Backward, runtimeVars, fleetVars, trafficVars
  <2> QED
    BY <1>3, <2>1, <2>3, Zenon DEF RunFleet
<1> QED
  BY <1>5, <1>6, Zenon

(* reap_green on the way back: blue has the traffic again.                 *)
LEMMA UndoProvisionFleet ==
  ASSUME SagaInv, BGInv, NEW p \in Procs, UndoProvisionGreen(p)
  PROVE  RunFleet(p)' /\ LiveSound'
<1> USE DEF ProvisionGreen
<1>1. /\ pc[p] = "compensate" /\ to[p].step = 2 /\ to[p].tag = "Compensating" /\ Backward(p)
      /\ UNCHANGED <<runtimeVars, link, served, found>>
  BY Knows, Zenon DEF UndoProvisionGreen, Undoing, trafficVars
<1>2. /\ green'[p] = green[p] /\ repointed'[p] = repointed[p]
  BY <1>1, ZenonT(30) DEF runtimeVars
<1>3. /\ ~repointed[p] /\ provisioned[p]
      /\ Exchanges =>
            /\ unit[found[p].link] \in {found[p].unit[found[p].link], "down"}
            /\ Honest => unit[found[p].link] = found[p].unit[found[p].link]
      /\ Exchanges /\ Settled /\ Honest => link = found[p].link /\ served = found[p].link
  BY <1>1 DEF Backward
<1>4. /\ green[p] \in Fleets /\ found[p].link \in Fleets /\ link \in Fleets /\ served \in Fleets
      /\ Exchanges => green[p] # found[p].link
      /\ unit \in [Fleets -> {"up", "sick", "degraded", "down"}] /\ LiveSound
  BY <1>1, Knows, Zenon DEF BGInv, FleetsOK, BGTypeOK
<1>5. (Settled' <=> Settled) /\ (Honest' => Honest)
  BY <1>1, Zenon DEF Settled, Honest, UndoProvisionGreen, StopFails
<1>6. unit' = unit \/ unit' = [unit EXCEPT ![green[p]] = "down"]
  BY Zenon DEF UndoProvisionGreen, SetUnit, StopFails
<1>7. /\ \A f \in Fleets : f # green[p] => unit'[f] = unit[f]
      /\ \A f \in Fleets : unit'[f] \in {unit[f], "down"}
  BY <1>4, <1>6, Zenon
<1>8. LiveSound'
  <2>1. ASSUME Exchanges, Settled' PROVE unit'[link'] # "sick" /\ unit'[served'] # "sick"
    BY <1>1, <1>4, <1>5, <1>7, <2>1, Zenon DEF LiveSound
  <2>2. ASSUME Exchanges, Settled', Honest' PROVE unit'[link'] # "down" /\ unit'[served'] # "down"
    BY <1>1, <1>3, <1>4, <1>5, <1>7, <2>2, ZenonT(30) DEF LiveSound
  <2> QED
    BY <2>1, <2>2, Zenon DEF LiveSound
<1>9. CASE Compensate(p)
  <2>1. to'[p].tag = "Compensating" /\ to'[p].step = 1
    BY <1>1, <1>9, CompensateMoves
  <2>f. ~CompensateFails(p)
    BY <2>1, CompensateFailsMoves, Zenon
  <2>2. unit'[green[p]] = "down"
    BY <1>3, <1>4, <2>f, Zenon DEF UndoProvisionGreen, SetUnit
  <2>3. Exchanges => unit'[found[p].link] = unit[found[p].link]
    BY <1>4, <1>7, ZenonT(30)
  <2>4. Backward(p)'
    BY <1>1, <1>2, <1>3, <1>5, <2>1, <2>2, <2>3 DEF Backward
  <2> QED
    BY <1>8, <2>1, <2>4, Zenon DEF RunFleet
<1>10. CASE CompensateFails(p)
  BY <1>8, <1>10, CompensateFailsMoves, Zenon DEF RunFleet
<1> QED
  BY <1>9, <1>10, Zenon DEF UndoProvisionGreen

(* switch_to on the way back.                                              *)
LEMMA UndoSwapFleet ==
  ASSUME SagaInv, BGInv, NEW p \in Procs,
         UndoSwapRepoints(p) \/ UndoSwapFails(p) \/ UndoSwapReloads(p)
  PROVE  RunFleet(p)' /\ LiveSound'
<1> USE DEF SwapTraffic
<1>1. /\ pc[p] = "compensate" /\ to[p].step = 5 /\ to[p].tag = "Compensating" /\ Backward(p)
      /\ UNCHANGED <<green, priorTarget, provisioned, fleetVars, found>>
  BY Knows, ZenonT(30) DEF UndoSwapRepoints, UndoSwapFails, UndoSwapReloads, Undoing, runtimeVars
<1>2. /\ provisioned[p] /\ (repointed[p] => link = priorTarget[p])
      /\ Exchanges =>
            /\ unit[found[p].link] \in {found[p].unit[found[p].link], "down"}
            /\ Honest => unit[found[p].link] = found[p].unit[found[p].link]
      /\ Exchanges /\ Settled => priorTarget[p] = found[p].link
  BY <1>1 DEF Backward
<1>3. /\ green'[p] = green[p] /\ provisioned'[p] = provisioned[p] /\ priorTarget'[p] = priorTarget[p]
      /\ unit' = unit /\ found' = found /\ (Settled' <=> Settled)
  BY <1>1, Zenon DEF fleetVars, Settled
<1>4. LiveSound /\ RunSound(p) /\ repointed \in [Procs -> BOOLEAN]
  BY Zenon DEF BGInv, FleetsOK, BGTypeOK
<1>5. CASE UndoSwapRepoints(p)
  <2>1. /\ link' = priorTarget[p] /\ served' = served /\ repointed'[p] /\ to' = to /\ mishaps' = mishaps
    BY <1>4, <1>5, Zenon DEF UndoSwapRepoints, Repoint, vars, runVars
  <2>2. Honest' <=> Honest
    BY <2>1, Zenon DEF Honest
  <2>3. ASSUME Exchanges, Settled
        PROVE unit[found[p].link] # "sick" /\ (Honest => unit[found[p].link] # "down")
    BY <1>2, <1>4, <2>3, Zenon DEF RunSound
  <2>4. LiveSound'
    BY <1>2, <1>3, <1>4, <2>1, <2>2, <2>3, Zenon DEF LiveSound
  <2>5. Backward(p)'
    BY <1>1, <1>2, <1>3, <2>1, <2>2, Zenon DEF Backward
  <2> QED
    BY <1>1, <2>1, <2>4, <2>5, Zenon DEF RunFleet
<1>6. CASE UndoSwapFails(p)
  <2>1. UNCHANGED <<link, served, mishaps>> /\ CompensateFails(p)
    BY <1>6, Zenon DEF UndoSwapFails, trafficVars
  <2>2. Honest' <=> Honest
    BY <2>1, Zenon DEF Honest
  <2>3. LiveSound'
    BY <1>3, <1>4, <2>1, <2>2, Zenon DEF LiveSound
  <2> QED
    BY <2>1, <2>3, CompensateFailsMoves, Zenon DEF RunFleet
<1>7. CASE UndoSwapReloads(p)
  <2>1. repointed[p] /\ ~repointed'[p] /\ link' = link
    BY <1>4, <1>7, ZenonT(30) DEF UndoSwapReloads, Reload, ReloadFails
  <2>2. CASE Reload(p) /\ Compensate(p) /\ UNCHANGED mishaps
    <3>1. to'[p].tag = "Compensating" /\ to'[p].step = 4
      BY <1>1, <2>2, CompensateMoves
    <3>2. served' = link /\ (Honest' <=> Honest)
      BY <2>2, Zenon DEF Reload, Honest
    <3>3. LiveSound'
      BY <1>3, <1>4, <2>1, <3>2, ZenonT(30) DEF LiveSound
    <3>4. Backward(p)'
      BY <1>1, <1>2, <1>3, <2>1, <3>1, <3>2 DEF Backward
    <3> QED
      BY <3>1, <3>3, <3>4, Zenon DEF RunFleet
  <2>3. CASE ReloadFails(p) /\ CompensateFails(p)
    <3>1. ~Honest' /\ served' = served
      BY <2>3, Zenon DEF Honest, ReloadFails
    <3>2. LiveSound'
      BY <1>3, <1>4, <2>1, <3>1, Zenon DEF LiveSound
    <3> QED
      BY <2>3, <3>2, CompensateFailsMoves, Zenon DEF RunFleet
  <2> QED
    BY <1>7, <2>2, <2>3, Zenon DEF UndoSwapReloads
<1> QED
  BY <1>5, <1>6, <1>7, Zenon

(* watch_green: a check that passes found green up.                        *)
LEMMA PollFleet ==
  ASSUME SagaInv, BGInv, NEW p \in Procs, PollGreen(p)
  PROVE  RunFleet(p)'
<1> USE DEF Hold
<1>1. /\ pc[p] = "forward" /\ to[p].step = 6 /\ to[p].tag = "Running" /\ Onward(p) /\ polls[p] < Polls
      /\ UNCHANGED <<green, priorTarget, provisioned, repointed, fleetVars, trafficVars, found, mishaps>>
  BY Knows, ZenonT(30) DEF PollGreen, At
<1>2. ~repointed[p]
  BY <1>1 DEF Onward
<1>3. CASE ForwardFails(p)
  BY <1>1, <1>2, <1>3, TurnsBack, Zenon
<1>4. CASE unit[green[p]] = "up" /\ UNCHANGED vars
  <2>1. to' = to /\ unit' = unit /\ release' = release /\ link' = link /\ served' = served
    BY <1>1, <1>4, Zenon DEF vars, runVars, fleetVars, trafficVars
  <2>2. Settled' <=> Settled
    BY <1>1, Zenon DEF Settled
  <2>3. Checked(p)'
    BY <1>1, <1>4, <2>1, ZenonT(30) DEF Checked
  <2>4. Onward(p)'
    BY <1>1, <2>1, <2>2 DEF Onward
  <2> QED
    BY <1>1, <2>1, <2>3, <2>4, Zenon DEF RunFleet
<1> QED
  BY <1>3, <1>4, Zenon DEF PollGreen

(* Green degrades: after the last check it goes unseen.                    *)
LEMMA DegradeFleet ==
  ASSUME SagaInv, BGInv, NEW p \in Procs, Degrade(p)
  PROVE  RunFleet(p)' /\ LiveSound'
<1>1. /\ pc[p] = "forward" /\ to[p].step \in 4 .. 6 /\ to[p].tag = "Running" /\ Onward(p)
      /\ unit[green[p]] = "up" /\ unit' = [unit EXCEPT ![green[p]] = "degraded"]
      /\ UNCHANGED <<vars, release, runtimeVars, trafficVars, found>>
  BY Knows, Zenon DEF Degrade, SetUnit, HealthGateGreen, Hold
<1>2. /\ green[p] \in Fleets /\ found[p].link \in Fleets /\ link \in Fleets /\ served \in Fleets
      /\ Exchanges => green[p] # found[p].link
      /\ unit \in [Fleets -> {"up", "sick", "degraded", "down"}] /\ LiveSound
  BY <1>1, Knows, Zenon DEF BGInv, FleetsOK, BGTypeOK
<1>3. /\ unit'[green[p]] = "degraded"
      /\ \A f \in Fleets : unit'[f] \in {unit[f], "degraded"} /\ (f # green[p] => unit'[f] = unit[f])
  BY <1>1, <1>2, Zenon
<1>4. (Settled' <=> Settled) /\ (Honest' => Honest)
  BY <1>1, Zenon DEF Settled, Honest, Degrade
<1>5. /\ to' = to /\ green' = green /\ priorTarget' = priorTarget /\ provisioned' = provisioned
      /\ repointed' = repointed /\ polls' = polls /\ link' = link /\ served' = served
      /\ release' = release /\ found' = found
  BY <1>1, Zenon DEF vars, runVars, runtimeVars, trafficVars
<1>6. LiveSound'
  BY <1>2, <1>3, <1>4, <1>5, Zenon DEF LiveSound
<1>7. to[p].step = 6 /\ polls[p] = Polls => "pause" \in mishaps'
  BY ZenonT(30) DEF Degrade, Hold
<1>8. "pause" \notin mishaps' => Checked(p)'
  BY <1>1, <1>5, <1>7 DEF Checked
<1>9. Exchanges => unit'[found[p].link] = unit[found[p].link]
  BY <1>2, <1>3, ZenonT(30)
<1>10. Onward(p)'
  BY <1>1, <1>3, <1>4, <1>5, <1>9 DEF Onward
<1> QED
  BY <1>1, <1>5, <1>6, <1>8, <1>10, Zenon DEF RunFleet

(* A process that dies in the middle of a step touches the fleet that the  *)
(* step is about, which has no traffic.                                    *)
LEMMA DieLive ==
  ASSUME SagaInv, BGInv, NEW p \in Procs, Die(p)
  PROVE  LiveSound'
<1> USE DEF ProvisionGreen, Reap
<1>1. UNCHANGED <<link, served, found, mishaps>>
  BY Zenon DEF Die, trafficVars
<1>2. (Settled' <=> Settled) /\ (Honest' <=> Honest)
  BY <1>1, Zenon DEF Settled, Honest
<1>3. /\ green[p] \in Fleets /\ found[p].link \in Fleets /\ link \in Fleets /\ served \in Fleets
      /\ to[p].tag # "Idle" /\ Exchanges => green[p] # found[p].link
      /\ unit \in [Fleets -> {"up", "sick", "degraded", "down"}] /\ LiveSound
  BY Knows, Zenon DEF BGInv, FleetsOK, BGTypeOK
<1>4. CASE unit' = unit
  BY <1>1, <1>2, <1>3, <1>4, LiveStands, Zenon
<1>5. CASE At(p, 2) /\ \E state : SetUnit(green[p], state)
  <2>1. to[p].step = 2 /\ to[p].tag = "Running" /\ Onward(p)
    BY <1>5, Knows, Zenon DEF At
  <2>2. Exchanges /\ Settled => link = found[p].link /\ served = found[p].link
    BY <2>1 DEF Onward
  <2>3. \A f \in Fleets : f # green[p] => unit'[f] = unit[f]
    BY <1>3, <1>5, Zenon DEF SetUnit
  <2> QED
    BY <1>1, <1>2, <1>3, <2>1, <2>2, <2>3, Zenon DEF LiveSound
<1>6. CASE Undoing(p, 2) /\ SetUnit(green[p], "down")
  <2>1. to[p].step = 2 /\ to[p].tag = "Compensating" /\ Backward(p)
    BY <1>6, Knows, Zenon DEF Undoing
  <2>2. Exchanges /\ Settled /\ Honest => link = found[p].link /\ served = found[p].link
    BY <2>1 DEF Backward
  <2>3. \A f \in Fleets : unit'[f] \in {unit[f], "down"} /\ (f # green[p] => unit'[f] = unit[f])
    BY <1>3, <1>6, Zenon DEF SetUnit
  <2>4. ASSUME Exchanges, Settled' PROVE unit'[link'] # "sick" /\ unit'[served'] # "sick"
    BY <1>1, <1>2, <1>3, <2>3, <2>4, Zenon DEF LiveSound
  <2>5. ASSUME Exchanges, Settled', Honest' PROVE unit'[link'] # "down" /\ unit'[served'] # "down"
    BY <1>1, <1>2, <1>3, <2>1, <2>2, <2>3, <2>5, Zenon DEF LiveSound
  <2> QED
    BY <2>4, <2>5, Zenon DEF LiveSound
<1>7. CASE At(p, 7) /\ SetUnit(Other(green[p]), "down")
  <2>1. to[p].step = 7 /\ Onward(p)
    BY <1>7, Knows, Zenon DEF At
  <2>2. link = green[p] /\ served = green[p]
    BY <2>1 DEF Onward
  <2>3. Other(green[p]) # green[p]
    BY <1>3, OtherFleet, Zenon
  <2>4. unit'[green[p]] = unit[green[p]]
    BY <1>3, <1>7, <2>3, Zenon DEF SetUnit
  <2> QED
    BY <1>1, <1>2, <1>3, <2>2, <2>4, Zenon DEF LiveSound
<1> QED
  BY <1>4, <1>5, <1>6, <1>7, Zenon DEF Die, fleetVars

(* A run that takes the lock starts from what it finds.                    *)
LEMMA TakeLockFleet ==
  ASSUME SagaInv, BGInv, NEW p \in Procs, TakeLock(p)
  PROVE  /\ RunSound(p)' /\ RunFleet(p)' /\ LiveSound'
         /\ (Settled' => Settled) /\ (Honest' <=> Honest)
<1>1. AcquireLock(p) /\ UNCHANGED <<priorTarget, provisioned, repointed, polls, fleetVars, trafficVars, mishaps>>
  BY Zenon DEF TakeLock
<1>2. to[p].tag = "Idle" /\ to'[p].tag = "Running" /\ to'[p].step = 1
  BY <1>1, LockMovesRun, Zenon
<1>3. FleetsOK /\ LiveSound /\ RunSound(p)
  BY Zenon DEF BGInv
<1>4. ~repointed[p] /\ polls[p] = 0 /\ found[p].served = found[p].link
  BY <1>2, <1>3, Zenon DEF RunSound
<1>5. /\ found'[p].link = link /\ found'[p].served = served /\ found'[p].unit = unit
      /\ green'[p] = IF Exchanges THEN Other(link) ELSE "green"
      /\ \A q \in Procs : q # p => found'[q] = found[q]
  BY <1>3, Zenon DEF TakeLock, FleetsOK, BGTypeOK
<1>6. (Settled' => Settled) /\ (Settled' => link = served)
  BY <1>4, <1>5, Zenon DEF Settled
<1>7. Honest' <=> Honest
  BY <1>1, Zenon DEF Honest
<1>8. /\ repointed'[p] = repointed[p] /\ polls'[p] = polls[p]
      /\ unit' = unit /\ release' = release /\ link' = link /\ served' = served
  BY <1>1, Zenon DEF fleetVars, trafficVars
<1>9. LiveSound'
  BY <1>3, <1>6, <1>7, <1>8, Zenon DEF LiveSound
<1>10. Exchanges => green'[p] # found'[p].link
  BY <1>3, <1>5, OtherFleet, Zenon DEF FleetsOK, BGTypeOK
<1>11. RunSound(p)'
  <2>1. Exchanges /\ Settled' => unit[link] # "sick" /\ (Honest' => unit[link] # "down")
    BY <1>3, <1>6, <1>7, ZenonT(30) DEF LiveSound
  <2> QED
    BY <1>2, <1>5, <1>10, <2>1, Zenon DEF RunSound
<1>12. Onward(p)' /\ Checked(p)'
  BY <1>2, <1>4, <1>5, <1>6, <1>8 DEF Onward, Checked
<1> QED
  BY <1>2, <1>6, <1>7, <1>9, <1>11, <1>12, Zenon DEF RunFleet

(* What a run relies on stays while nothing changes.                       *)
LEMMA RunStands ==
  ASSUME NEW p \in Procs, to'[p] = to[p],
         UNCHANGED <<runtimeVars, fleetVars, trafficVars, found, mishaps>>
  PROVE  RunFleet(p) => RunFleet(p)'
<1>1. (Settled' <=> Settled) /\ (Honest' <=> Honest)
  BY Zenon DEF Settled, Honest
<1>2. Onward(p) => Onward(p)'
  BY <1>1, ZenonT(30) DEF Onward, runtimeVars, fleetVars, trafficVars
<1>3. Backward(p) => Backward(p)'
  BY <1>1, Zenon DEF Backward, runtimeVars, fleetVars, trafficVars
<1>4. (Checked(p) => Checked(p)') /\ (Placed(p) => Placed(p)') /\ (Restored(p) => Restored(p)')
  BY Zenon DEF Checked, Placed, Restored, runtimeVars, fleetVars, trafficVars
<1> QED
  BY <1>1, <1>2, <1>3, <1>4, Zenon DEF RunFleet

(* What every step of a run does to itself and to what is live.            *)
LEMMA OwnFleet ==
  ASSUME SagaInv, BGInv, NEW p \in Procs, Step(p) \/ Degrade(p) \/ Die(p)
  PROVE  /\ Working(p)' => RunFleet(p)'
         /\ LiveSound'
         /\ (Settled' => Settled) /\ (Honest' => Honest)
<1>a. TypeOK /\ LiveSound /\ (Working(p) => RunFleet(p))
  BY Zenon DEF SagaInv, BGInv
<1>1. CASE TakeLock(p)
  BY <1>1, TakeLockFleet, Zenon
<1>2. Honest' => Honest
  BY Zenon DEF Step, Degrade, Die, TakeLock, Engine, RunPreflight, RunMigrate, Inert, InertUndo,
       RunProvisionGreen, UndoProvisionGreen, RunHealthGate, SwapRepoints, SwapFails, SwapReloads,
       UndoSwapRepoints, UndoSwapFails, UndoSwapReloads, PollGreen, HoldOver, RunReap, StopFails,
       ReloadFails, Honest
<1>3. ~TakeLock(p) => found' = found
  BY Zenon DEF Step, Degrade, Die, Engine, RunPreflight, RunMigrate, Inert, InertUndo,
       RunProvisionGreen, UndoProvisionGreen, RunHealthGate, SwapRepoints, SwapFails, SwapReloads,
       UndoSwapRepoints, UndoSwapFails, UndoSwapReloads, PollGreen, HoldOver, RunReap
<1>4. ~TakeLock(p) => (Settled' <=> Settled)
  BY <1>3, Zenon DEF Settled
<1>5. ~TakeLock(p) /\ UNCHANGED <<unit, link, served>> => LiveSound'
  BY <1>2, <1>4, <1>a, LiveStands, Zenon
<1>6. CASE Engine(p)
  <2>1. to' = to /\ (Working(p)' => Working(p))
        /\ UNCHANGED <<runtimeVars, fleetVars, trafficVars, found, mishaps>>
    BY <1>6, EngineMoves, Zenon DEF Engine
  <2>2. RunFleet(p) => RunFleet(p)'
    BY <2>1, RunStands, Zenon
  <2>3. ~TakeLock(p)
    BY <1>6, <2>1, <1>a, LockMovesRun, Zenon DEF TakeLock
  <2> QED
    BY <1>2, <1>4, <1>5, <1>a, <2>1, <2>2, <2>3, Zenon DEF fleetVars, trafficVars
<1>7. CASE Die(p)
  <2>1. ~Working(p)'
    BY <1>7, <1>a, Zenon DEF Die, Crash, TypeOK, Working
  <2> QED
    BY <1>2, <1>3, <1>4, <1>7, <2>1, DieLive, TakeLockFleet, Zenon
<1>8. CASE RunPreflight(p) \/ RunMigrate(p) \/ RunHealthGate(p) \/ HoldOver(p) \/ PollGreen(p)
  <2>1. UNCHANGED <<unit, link, served>>
    BY <1>8, Zenon DEF RunPreflight, RunMigrate, RunHealthGate, HoldOver, PollGreen, Inert,
       fleetVars, trafficVars
  <2> QED
    BY <1>1, <1>2, <1>4, <1>5, <1>8, <2>1, InertFleet, PollFleet, Zenon
<1>9. CASE ~TakeLock(p) /\ ~Engine(p) /\ ~Die(p)
  BY <1>2, <1>4, <1>8, <1>9, ProvisionFleet, ReapFleet, SwapFleet, InertUndoFleet,
     UndoProvisionFleet, UndoSwapFleet, DegradeFleet, ZenonT(30) DEF Step
<1> QED
  BY <1>1, <1>6, <1>7, <1>9, Zenon

(* What is known of a run wherever it is stays known.                      *)
LEMMA SoundStays ==
  ASSUME SagaInv, BGInv, NEW p \in Procs, NEW q \in Procs, Step(p) \/ Degrade(p) \/ Die(p)
  PROVE  RunSound(q)'
<1>1. (Settled' => Settled) /\ (Honest' => Honest)
  BY OwnFleet, Zenon
<1>2. RunSound(q) /\ FleetsOK
  BY Zenon DEF BGInv
<1>3. CASE q # p
  BY <1>1, <1>2, <1>3, OtherEntries, Zenon DEF RunSound
<1>4. CASE q = p /\ TakeLock(p)
  BY <1>4, TakeLockFleet, Zenon
<1>5. CASE /\ q = p
           /\ Engine(p) \/ (Die(p) /\ UNCHANGED <<runtimeVars, fleetVars, trafficVars, found, mishaps>>)
  <2>1. to' = to
    BY <1>5, EngineMoves, ZenonT(30) DEF Die, Crash
  <2> QED
    BY <1>1, <1>2, <1>5, <2>1, Zenon DEF RunSound, Engine, runtimeVars
<1>6. CASE /\ q = p /\ found' = found /\ pc[p] \in {"forward", "compensate"} /\ ~TakeLock(p) /\ ~Engine(p)
           /\ to[p].tag \in {"Running", "Compensating"}
  <2>1. green' = green
    BY <1>6, ZenonT(30)
    DEF Step, Degrade, Die, RunPreflight, RunMigrate, Inert, InertUndo, runtimeVars,
       RunProvisionGreen, UndoProvisionGreen, RunHealthGate, SwapRepoints, SwapFails, SwapReloads,
       UndoSwapRepoints, UndoSwapFails, UndoSwapReloads, PollGreen, HoldOver, RunReap
  <2>2. to'[p].tag # "Idle"
    <3>1. CASE UNCHANGED vars \/ Crash(p)
      BY <1>6, <3>1, Zenon DEF vars, runVars, Crash
    <3>2. CASE Forward(p) \/ ForwardFails(p) \/ Compensate(p) \/ CompensateFails(p)
      BY <3>2, ForwardMoves, ForwardFailsMoves, CompensateMoves, CompensateFailsMoves, Zenon
    <3> QED
      BY <1>6, <3>1, <3>2, StepIsEngine, Zenon
      DEF Run, AcquireLock, Locked, AcquireFails, RecordEvent,
         RecordState, StoreFails, ReleaseLock, ReleaseFails
  <2> QED
    BY <1>1, <1>2, <1>6, <2>1, <2>2, ZenonT(30) DEF RunSound
<1> QED
  BY <1>3, <1>4, <1>5, <1>6, Changes, Zenon

(* What the journal says of a run that ended stays true: nobody touches    *)
(* fleets or traffic before the journal says that they are at work.        *)
LEMMA OutcomeStays ==
  ASSUME SagaInv, BGInv, NEW p \in Procs, Step(p) \/ Degrade(p) \/ Die(p)
  PROVE  Outcome'
<1>a. /\ Outcome /\ FleetsOK /\ (Working(p) => RunFleet(p))
      /\ TypeOK /\ (author = NoProc <=> curState.tag = "Idle")
  BY Zenon DEF BGInv, SagaInv
<1>b. curState.tag # "Idle" => author \in Procs
  BY <1>a, Zenon DEF TypeOK
<1>1. (Settled' => Settled) /\ (Honest' => Honest)
  BY OwnFleet, Zenon
<1>2. CASE /\ UNCHANGED <<fleetVars, trafficVars>> /\ curState' = curState /\ author' = author
           /\ author \in Procs => green'[author] = green[author] /\ found'[author] = found[author]
  <2>1. author \in Procs /\ Placed(author) => Placed(author)'
    BY <1>2, Zenon DEF Placed, fleetVars, trafficVars
  <2>2. author \in Procs /\ Restored(author) => Restored(author)'
    BY <1>2, Zenon DEF Restored, fleetVars, trafficVars
  <2> QED
    BY <1>2, <1>a, <1>b, <1>1, <2>1, <2>2, ZenonT(30) DEF Outcome
<1>3. CASE TakeLock(p)
  <2>1. UNCHANGED <<fleetVars, trafficVars>> /\ curState' = curState /\ author' = author /\ author # p
    BY <1>3, LockMovesRun, Zenon DEF TakeLock
  <2> QED
    BY <1>2, <1>3, <1>a, <2>1, OtherEntries, Zenon
<1>4. CASE Engine(p)
  <2>1. /\ UNCHANGED <<runtimeVars, fleetVars, trafficVars, found, mishaps>>
        /\ \/ curState' = curState /\ author' = author
           \/ Working(p) /\ curState' = to[p] /\ author' = p
    BY <1>4, EngineMoves, Zenon DEF Engine
  <2>2. CASE curState' = curState /\ author' = author
    BY <1>2, <2>1, <2>2, Zenon DEF runtimeVars
  <2>3. CASE Working(p) /\ curState' = to[p] /\ author' = p
    <3>1. Placed(p) => Placed(author)'
      BY <2>1, <2>3, Zenon DEF Placed, runtimeVars, fleetVars, trafficVars
    <3>2. Restored(p) => Restored(author)'
      BY <2>1, <2>3, Zenon DEF Restored, runtimeVars, fleetVars, trafficVars
    <3> QED
      BY <1>a, <1>1, <2>3, <3>1, <3>2, Zenon DEF RunFleet, Outcome
  <2> QED
    BY <2>1, <2>2, <2>3, Zenon
<1>5. CASE Die(p) /\ UNCHANGED <<runtimeVars, fleetVars, trafficVars, found, mishaps>>
  <2>1. curState' = curState /\ author' = author
    BY <1>5, Zenon DEF Die, Crash, storeVars
  <2> QED
    BY <1>2, <1>5, <2>1, Zenon DEF runtimeVars
<1>6. CASE curState.tag \in {"Running", "Compensating"} /\ curState' = curState
  BY <1>6, Zenon DEF Outcome
<1> QED
  BY <1>3, <1>4, <1>5, <1>6, Changes, Zenon

(* A fresh host: blue is up and has the traffic.                           *)
LEMMA FleetInit == BGInit => BGInv
<1> SUFFICES ASSUME BGInit PROVE BGInv
  BY Zenon
<1>1. SagaInv
  BY InitInv, Zenon DEF BGInit
<1>2. unit \in [Fleets -> UnitStates] /\ unit["blue"] = "up"
  BY Zenon DEF BGInit, Fleets, UnitStates
<1>3. found \in [Procs -> Snapshots]
  <2>1. [link |-> "blue", served |-> "blue", unit |-> unit] \in Snapshots
    BY <1>2, Zenon DEF Snapshots, Fleets
  <2> QED
    BY <2>1, Zenon DEF BGInit
<1>4. FleetsOK
  <2>1. TypeOK
    BY <1>1, Zenon DEF SagaInv
  <2>2. polls \in [Procs -> 0 .. Polls]
    BY PollsAssumption DEF BGInit
  <2> QED
    BY <1>2, <1>3, <2>1, <2>2, Zenon DEF FleetsOK, BGTypeOK, BGInit, Fleets, UnitStates
<1>5. ASSUME NEW p \in Procs PROVE RunSound(p) /\ ~Working(p)
  <2>1. to[p].tag = "Idle" /\ pc[p] = "ready" /\ ~repointed[p] /\ polls[p] = 0
    BY Zenon DEF BGInit, Init, Idle, State
  <2>2. found[p].link = "blue" /\ found[p].served = "blue" /\ found[p].unit = unit
    BY Zenon DEF BGInit
  <2> QED
    BY <1>2, <2>1, <2>2, Zenon DEF RunSound, Working
<1>6. LiveSound
  BY <1>2, Zenon DEF LiveSound, BGInit
<1>7. Outcome
  BY Zenon DEF Outcome, BGInit, Init, Idle, State
<1> QED
  BY <1>4, <1>5, <1>6, <1>7, Zenon DEF BGInv

(* Every step keeps what is known of fleets and traffic.                   *)
LEMMA FleetNext ==
  ASSUME SagaInv, BGInv, [BGNext]_bgVars
  PROVE  BGInv'
<1>1. SagaInv'
  BY EngineNext, Zenon
<1>2. ASSUME NEW p \in Procs, Step(p) \/ Degrade(p) \/ Die(p) PROVE BGInv'
  <2>1. FleetsOK'
    BY <1>1, <1>2, FleetTypes, Zenon DEF SagaInv, BGInv
  <2>2. ASSUME NEW q \in Procs, Working(q)' PROVE RunFleet(q)'
    <3>1. CASE q = p
      BY <1>2, <2>2, <3>1, OwnFleet, Zenon
    <3>2. CASE q # p
      <4>1. to'[q] = to[q] /\ pc'[q] = pc[q]
        BY <1>2, <3>2, OtherEntries, Zenon DEF BGInv
      <4>2. Working(q) /\ InFlight(q) /\ RunFleet(q)
        BY <2>2, <4>1, Zenon DEF Working, InFlight, BGInv
      <4>3. UNCHANGED <<runtimeVars, fleetVars, trafficVars, found, mishaps>>
        BY <1>2, <3>2, <4>2, OthersWait, Zenon
      <4> QED
        BY <4>1, <4>2, <4>3, RunStands, Zenon
    <3> QED
      BY <3>1, <3>2, Zenon
  <2> QED
    BY <1>2, <2>1, <2>2, OwnFleet, SoundStays, OutcomeStays, Zenon DEF BGInv
<1>3. CASE ReloadElsewhere
  <2>1. /\ UNCHANGED <<vars, runtimeVars, fleetVars, link, found, mishaps>> /\ served' = link /\ served # link
    BY <1>3, Zenon DEF ReloadElsewhere
  <2>2. FleetsOK /\ LiveSound /\ Outcome /\ \A p \in Procs : RunSound(p) /\ (Working(p) => RunFleet(p))
    BY Zenon DEF BGInv
  <2>3. (Settled' <=> Settled) /\ (Honest' <=> Honest)
    BY <2>1, Zenon DEF Settled, Honest
  <2>4. FleetsOK'
    BY <1>1, <2>1, <2>2, Zenon DEF FleetsOK, BGTypeOK, SagaInv, runtimeVars, fleetVars
  <2>5. LiveSound'
    BY <2>1, <2>2, <2>3, Zenon DEF LiveSound, fleetVars
  <2>6. Outcome'
    BY <2>1, <2>2, <2>3, Zenon
    DEF Outcome, Placed, Restored, vars, storeVars, runtimeVars, fleetVars
  <2>7. ASSUME NEW p \in Procs PROVE RunSound(p)' /\ (Working(p)' => RunFleet(p)')
    <3>1. RunSound(p)'
      BY <2>1, <2>2, <2>3, Zenon DEF RunSound, vars, runVars, runtimeVars
    <3>2. (Working(p)' => Working(p)) /\ to' = to
      BY <2>1, Zenon DEF Working, vars, runVars
    <3>3. Onward(p) => Onward(p)'
      BY <2>1, <2>3, <3>2, Zenon DEF Onward, runtimeVars, fleetVars
    <3>4. Backward(p) => Backward(p)'
      BY <2>1, <2>3, <3>2, Zenon DEF Backward, runtimeVars, fleetVars
    <3>5. Placed(p) => Placed(p)'
      BY <2>1, Zenon DEF Placed, runtimeVars, fleetVars
    <3>6. Restored(p) => Restored(p)'
      BY <2>1, Zenon DEF Restored, runtimeVars, fleetVars
    <3>7. Checked(p) => Checked(p)'
      BY <2>1, <3>2, Zenon DEF Checked, runtimeVars, fleetVars
    <3> QED
      BY <2>1, <2>2, <2>3, <3>1, <3>2, <3>3, <3>4, <3>5, <3>6, <3>7, ZenonT(30) DEF RunFleet
  <2> QED
    BY <2>4, <2>5, <2>6, <2>7, Zenon DEF BGInv
<1>4. CASE UNCHANGED bgVars
  <2>1. UNCHANGED <<vars, runtimeVars, fleetVars, trafficVars, found, mishaps>>
    BY <1>4, Zenon DEF bgVars
  <2>2. FleetsOK /\ LiveSound /\ Outcome /\ \A p \in Procs : RunSound(p) /\ (Working(p) => RunFleet(p))
    BY Zenon DEF BGInv
  <2>3. FleetsOK'
    BY <1>1, <2>1, <2>2, Zenon DEF FleetsOK, BGTypeOK, SagaInv, runtimeVars, fleetVars, trafficVars
  <2>4. (Settled' <=> Settled) /\ (Honest' <=> Honest)
    BY <2>1, Zenon DEF Settled, Honest
  <2>5. LiveSound' /\ Outcome'
    BY <2>1, <2>2, <2>4, Zenon
    DEF LiveSound, Outcome, Placed, Restored, vars, storeVars, runtimeVars,
       fleetVars, trafficVars
  <2>6. ASSUME NEW p \in Procs PROVE RunSound(p)' /\ (Working(p)' => RunFleet(p)')
    <3>1. to' = to /\ pc' = pc
      BY <2>1, Zenon DEF vars, runVars
    <3>2. RunSound(p)' /\ (Working(p)' => Working(p))
      BY <2>1, <2>2, <2>4, <3>1, Zenon DEF RunSound, Working, runtimeVars
    <3>3. RunFleet(p) => RunFleet(p)'
      BY <2>1, <3>1, RunStands, Zenon
    <3> QED
      BY <2>2, <3>2, <3>3, Zenon
  <2> QED
    BY <2>3, <2>5, <2>6, Zenon DEF BGInv
<1> QED
  BY <1>2, <1>3, <1>4, Zenon DEF BGNext, AllOver

(* What the run in flight relies on, what is live and what the journal     *)
(* says of an ended run hold in every state (blue_green.rs, the seven      *)
(* steps over AdapterFleet and switch_to).                                 *)
THEOREM FleetsFollowRun == BGSpec => []BGInv
<1>1. SagaInv /\ BGInv /\ [BGNext]_bgVars => BGInv'
  BY FleetNext, Zenon
<1> QED
  BY <1>1, FleetInit, EngineInv, PTL DEF BGSpec

(* With the fleets exchanged after each commit, there is always a running  *)
(* fleet behind the load balancer, for any number of runs that fail, die   *)
(* or overlap in any way (provision_green, switch_to, reap_blue).          *)
THEOREM TrafficStaysServed ==
  ASSUME Exchanges
  PROVE  BGSpec => []TrafficIsServed
<1>1. BGInv => TrafficIsServed
  BY Zenon DEF BGInv, LiveSound, Honest, TrafficIsServed
<1> QED
  BY <1>1, FleetsFollowRun, PTL

(* The journal's Committed and RolledBack say where the traffic is         *)
(* (run_swap, undo_swap, reap_blue, reap_green).                           *)
THEOREM OutcomesPlaceTraffic ==
  ASSUME Exchanges
  PROVE  BGSpec => []OutcomePlacesTraffic
<1>1. BGInv => OutcomePlacesTraffic
  <2> SUFFICES ASSUME BGInv PROVE OutcomePlacesTraffic
    BY Zenon
  <2>1. Outcome
    BY Zenon DEF BGInv
  <2>2. CommittedServesNew
    BY <2>1, Zenon DEF Outcome, Placed, CommittedServesNew
  <2>3. RollbackRestoresTrafficWhenHonest
    BY <2>1, Zenon
    DEF Outcome, Restored, Honest, RollbackRestoresTrafficWhenHonest, RollbackRestoresTraffic
  <2> QED
    BY <2>2, <2>3, Zenon DEF OutcomePlacesTraffic
<1> QED
  BY <1>1, FleetsFollowRun, PTL

(* However many checks the hold window has, if it has one, blue is not     *)
(* stopped for a green that degraded before the last of them (watch_green). *)
THEOREM HoldIsKept ==
  ASSUME Polls > 0
  PROVE  BGSpec => []HoldCatchesDegradation
<1>1. SagaInv /\ BGInv => HoldCatchesDegradation
  <2> SUFFICES ASSUME SagaInv, BGInv, "pause" \notin mishaps, NEW p \in Procs, At(p, Reap)
               PROVE  unit[green[p]] = "up"
    BY Zenon DEF HoldCatchesDegradation
  <2>1. Checked(p) /\ to[p].step = 7
    BY Knows, Zenon DEF At, Reap
  <2> QED
    BY <2>1, Zenon DEF Checked
<1> QED
  BY <1>1, EngineInv, FleetsFollowRun, PTL

(* A fleet that never was healthy gets no traffic, and a fleet that has it *)
(* is not restarted by provision_green.                                    *)
THEOREM GreenStaysGated ==
  ASSUME Exchanges
  PROVE  BGSpec => GreenIsGated
<1> DEFINE A == \A p \in Procs, f \in Fleets :
                  Settled /\ At(p, ProvisionGreen) /\ (unit'[f] # unit[f] \/ release'[f] # release[f])
                      => served # f
<1>1. BGInv => BGTypeOK /\ GatedBeforeTraffic
  BY Zenon DEF BGInv, FleetsOK, LiveSound, GatedBeforeTraffic
<1>2. SagaInv /\ BGInv /\ [BGNext]_bgVars => [A]_bgVars
  <2> SUFFICES ASSUME SagaInv, BGInv, BGNext, NEW p \in Procs, NEW f \in Fleets, Settled,
                      At(p, ProvisionGreen), unit'[f] # unit[f] \/ release'[f] # release[f]
               PROVE  served # f
    BY Zenon
  <2>1. PICK q \in Procs : Step(q) \/ Degrade(q) \/ Die(q)
    BY Zenon DEF BGNext, ReloadElsewhere, AllOver, bgVars, fleetVars
  <2>2. pc[p] = "forward" /\ to[p].step = 2 /\ to[p].tag = "Running" /\ Onward(p) /\ InFlight(p)
    BY Knows, Zenon DEF At, ProvisionGreen, InFlight
  <2>3. served = found[p].link /\ green[p] # served
    <3>1. served = found[p].link
      BY <2>2 DEF Onward
    <3> QED
      BY <2>2, <3>1, Knows, ZenonT(30)
  <2>4. q = p
    BY <2>1, <2>2, OthersWait, Zenon DEF fleetVars
  <2>5. /\ unit' = unit \/ \E x : unit' = [unit EXCEPT ![green[p]] = x]
        /\ release' = release \/ \E x : release' = [release EXCEPT ![green[p]] = x]
    <3>1. CASE Die(p)
      BY <2>2, <3>1 DEF Die, At, Undoing, Reap, SetUnit, fleetVars
    <3>2. CASE ~Die(p)
      <4>1. ~RunReap(p)
        BY <2>2 DEF RunReap, At, Reap
      <4> QED
        BY <2>1, <2>4, <3>2, <4>1, ZenonT(30)
           DEF Step, Degrade, TakeLock, Engine, RunPreflight, RunMigrate, Inert, InertUndo,
               RunProvisionGreen, UndoProvisionGreen, RunHealthGate, SwapRepoints, SwapFails,
               SwapReloads, UndoSwapRepoints, UndoSwapFails, UndoSwapReloads, PollGreen, HoldOver,
               SetUnit, StopFails, fleetVars
    <3> QED
      BY <3>1, <3>2, ZenonT(30)
  <2>6. f = green[p]
    BY <2>5, Zenon DEF BGInv, FleetsOK, BGTypeOK
  <2> QED
    BY <2>3, <2>6, Zenon
<1>3. BGSpec => [](BGTypeOK /\ GatedBeforeTraffic)
  BY <1>1, FleetsFollowRun, PTL
<1>4. BGSpec => [][A]_bgVars
  BY <1>2, EngineInv, FleetsFollowRun, PTL DEF BGSpec
<1> QED
  BY <1>3, <1>4, Zenon DEF GreenIsGated, ProvisionsAnIdleFleetWhenSettled
=============================================================================
