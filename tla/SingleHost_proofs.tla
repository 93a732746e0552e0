-------------------------- MODULE SingleHost_proofs --------------------------
(***************************************************************************)
(* Proofs about the single-host deploy for every set of runs, whichever    *)
(* revisions they migrate to and whichever kind of lock the store has.     *)
(***************************************************************************)
EXTENDS SingleHost, Saga_proofs

(* The engine inside the deploy is Saga's: a step of the deploy is a step  *)
(* of the engine or leaves it alone.                                       *)
LEMMA StepIsEngine ==
  ASSUME NEW p \in Procs, Step(p) \/ Die(p)
  PROVE  Run(p) \/ Crash(p) \/ UNCHANGED vars
BY Zenon DEF Step, Die, ReadPrior, TakeLock, Engine, WriteLedger, LedgerLost, RunPreflight,
   RunHealth, RunVerify,
       Inert, RunFetch, RunMigrate, RunActivate, RunRestart, InertUndo, UndoMigrate, Reactivate,
       ReactivateFails, RestartPrior, Run

(* Hence the engine's inductive invariant holds of every deploy.           *)
LEMMA EngineInv == SHSpec => []SagaInv
<1>1. SHInit => SagaInv
  BY InitInv, Zenon DEF SHInit
<1>2. SagaInv /\ [SHNext]_shVars => SagaInv'
  <2> SUFFICES ASSUME SagaInv, [SHNext]_shVars PROVE SagaInv'
    BY Zenon
  <2>1. [Next]_vars
    BY StepIsEngine, Zenon DEF SHNext, AllOver, shVars, Next
  <2> QED
    BY <2>1, NextInv, Zenon
<1> QED
  BY <1>1, <1>2, PTL DEF SHSpec

(* The setup of a deploy does not change.                                  *)
LEMMA SetupStays ==
  ASSUME NEW p \in Procs, Step(p) \/ Die(p)
  PROVE  ownsDatabase' = ownsDatabase
BY Zenon DEF Step, Die, ReadPrior, TakeLock, Engine, WriteLedger, LedgerLost, RunPreflight,
       RunHealth, RunVerify, Inert, RunFetch, RunMigrate, RunActivate, RunRestart, InertUndo,
       UndoMigrate, Reactivate, ReactivateFails, RestartPrior, ownVars, setupVars

(* The types of what the deploy keeps about revisions and artifacts.       *)
RevisionsOK ==
    /\ ownsDatabase \in BOOLEAN /\ rollbackTo \in [Procs -> Nat]
    /\ staged \in [Procs -> Procs \cup {NoRelease}]
    /\ prevRev \in [Procs -> Nat] /\ newRev \in [Procs -> Nat]
    /\ db \in Nat

(* What a run in flight has done to the host by the time it is in step i.  *)
DoneBefore(p, i) ==
    /\ i > Fetch => staged[p] = p
    /\ i > Migrate /\ ownsDatabase => db = newRev[p]
    /\ i > Activate => active = p
    /\ i > Restart => running = p

(* The run in flight finds the host as its own steps left it; a persisted  *)
(* Committed says so too.                                                  *)
HostInv ==
    /\ RevisionsOK
    /\ \A p \in Procs :
          InFlight(p) =>
             /\ to[p].tag = "Running" => DoneBefore(p, to[p].step)
             /\ to[p].tag = "Committed" => DoneBefore(p, N + 1)
    /\ CommittedIsLive

(* A fresh host. *)
LEMMA HostInit == SHInit => HostInv
<1> SUFFICES ASSUME SHInit PROVE HostInv
  BY Zenon
<1>1. RevisionsOK
  BY RevAssumption, SMTT(30) DEF SHInit, RevisionsOK
<1>2. \A p \in Procs : ~InFlight(p)
  BY Zenon DEF SHInit, Init, InFlight
<1>3. curState.tag # "Committed"
  BY Zenon DEF SHInit, Init, Idle, State
<1> QED
  BY <1>1, <1>2, <1>3, Zenon DEF HostInv, CommittedIsLive

(* Where a migration may leave the database is a revision.                 *)
LEMMA MigrateType ==
  ASSUME RevisionsOK, NEW p \in Procs
  PROVE  /\ MigrateTarget(p) \in Nat /\ MigratedTo(p) \in Nat
         /\ HalfWay(db, MigrateTarget(p)) \subseteq Nat
         /\ HalfWay(db, prevRev[p]) \subseteq Nat
<1>1. db \in Nat /\ rollbackTo[p] \in Nat /\ prevRev[p] \in Nat /\ Rev[p] \in Nat
  BY RevAssumption, Zenon DEF RevisionsOK
<1>2. MigrateTarget(p) \in Nat
  BY <1>1, Zenon DEF MigrateTarget
<1> QED
  BY <1>1, <1>2 DEF HalfWay, MigratedTo

(* Every step keeps them. *)
LEMMA RevisionsInv ==
  ASSUME RevisionsOK, NEW p \in Procs, Step(p) \/ Die(p)
  PROVE  RevisionsOK'
<1>1. /\ staged \in [Procs -> Procs \cup {NoRelease}]
      /\ prevRev \in [Procs -> Nat] /\ newRev \in [Procs -> Nat] /\ db \in Nat
  BY Zenon DEF RevisionsOK
<1>2. UNCHANGED setupVars
  BY Zenon DEF Step, Die, ReadPrior, TakeLock, Engine, WriteLedger, LedgerLost, RunPreflight,
     RunHealth, RunVerify,
         Inert, RunFetch, RunMigrate, RunActivate, RunRestart, InertUndo, UndoMigrate, Reactivate,
         ReactivateFails, RestartPrior, ownVars
<1>3. CASE RunFetch(p)
  BY <1>1, <1>2, <1>3, Zenon DEF RunFetch, RevisionsOK, setupVars, hostVars
<1>4. CASE RunMigrate(p)
  <2>1. db' \in Nat
    BY <1>1, <1>4, MigrateType, Zenon DEF RunMigrate
  <2>2. prevRev' \in [Procs -> Nat] /\ newRev' \in [Procs -> Nat]
    BY <1>1, <1>4, <2>1, MigrateType, Zenon DEF RunMigrate
  <2> QED
    BY <1>2, <1>4, <2>1, <2>2, Zenon DEF RunMigrate, RevisionsOK, setupVars
<1>5. CASE UndoMigrate(p)
  <2>1. db' \in Nat
    BY <1>1, <1>5, MigrateType, Zenon DEF UndoMigrate
  <2> QED
    BY <1>2, <1>5, <2>1, Zenon DEF UndoMigrate, RevisionsOK, setupVars, ownVars, localVars
<1>6. CASE Die(p)
  <2>1. db' \in Nat
    BY <1>1, <1>6, MigrateType, Zenon DEF Die, hostVars
  <2> QED
    BY <1>2, <1>6, <2>1, Zenon DEF Die, RevisionsOK, setupVars, ownVars, localVars
<1>7. CASE UNCHANGED <<staged, prevRev, newRev, db>>
  BY <1>2, <1>7, Zenon DEF RevisionsOK, setupVars
<1>8. \/ RunFetch(p) \/ RunMigrate(p) \/ UndoMigrate(p) \/ Die(p)
      \/ UNCHANGED <<staged, prevRev, newRev, db>>
  BY Zenon DEF Step, ReadPrior, TakeLock, Engine, WriteLedger, LedgerLost, RunPreflight,
     RunHealth, RunVerify,
         Inert, RunActivate, RunRestart, InertUndo, Reactivate,
         ReactivateFails, RestartPrior, ownVars, localVars, hostVars
<1> QED
  BY <1>3, <1>4, <1>5, <1>6, <1>7, <1>8, Zenon

(* Who changes the host, or the revision a run reports, is in the middle   *)
(* of a step, and the journal says so.                                     *)
LEMMA HostChanges ==
  ASSUME SagaInv, RevisionsOK, NEW p \in Procs, Step(p) \/ Die(p)
  PROVE  \/ UNCHANGED <<hostVars, staged, newRev>>
         \/ /\ pc[p] \in {"forward", "compensate"}
            /\ curState' = curState /\ curState.tag \in {"Running", "Compensating"}
            /\ \A q \in Procs \ {p} : staged'[q] = staged[q] /\ newRev'[q] = newRev[q]
<1>1. CASE UNCHANGED <<hostVars, staged, newRev>>
  BY <1>1, Zenon
<1>2. CASE pc[p] \in {"forward", "compensate"}
  <2>1. Journalled(p) /\ RunInv(p)
    BY Zenon DEF SagaInv
  <2>2. curState = to[p] /\ to[p].tag \in {"Running", "Compensating"}
    BY <1>2, <2>1, Zenon DEF Journalled, RunInv
  <2>3. curState' = curState
    BY <1>2, StepIsEngine, Zenon
       DEF Run, AcquireLock, Locked, AcquireFails, RecordEvent, RecordState, StoreFails, Forward,
           ForwardFails, Compensate, CompensateFails, ReleaseLock, ReleaseFails, Crash,
              storeVars, vars
  <2>4. staged' = staged \/ staged' = [staged EXCEPT ![p] = p]
    BY Zenon DEF Step, Die, ReadPrior, TakeLock, Engine, WriteLedger, LedgerLost, RunPreflight,
       RunHealth, RunVerify,
           Inert, RunFetch, RunMigrate, RunActivate, RunRestart, InertUndo, UndoMigrate, Reactivate,
           ReactivateFails, RestartPrior, ownVars, localVars
  <2>5. newRev' = newRev \/ newRev' = [newRev EXCEPT ![p] = MigratedTo(p)]
    BY Zenon DEF Step, Die, ReadPrior, TakeLock, Engine, WriteLedger, LedgerLost, RunPreflight,
       RunHealth, RunVerify,
           Inert, RunFetch, RunMigrate, RunActivate, RunRestart, InertUndo, UndoMigrate, Reactivate,
           ReactivateFails, RestartPrior, ownVars, localVars
  <2>6. \A q \in Procs \ {p} : staged'[q] = staged[q] /\ newRev'[q] = newRev[q]
    BY <2>4, <2>5, Zenon DEF RevisionsOK
  <2> QED
    BY <1>2, <2>2, <2>3, <2>6, Zenon
<1>3. UNCHANGED <<hostVars, staged, newRev>> \/ pc[p] \in {"forward", "compensate"}
  BY Zenon DEF Step, Die, ReadPrior, TakeLock, Engine, WriteLedger, LedgerLost, RunPreflight,
     RunHealth, RunVerify,
         Inert, RunFetch, RunMigrate, RunActivate, RunRestart, InertUndo, UndoMigrate, Reactivate,
         ReactivateFails, RestartPrior, At, Undoing, ownVars, localVars
<1> QED
  BY <1>1, <1>2, <1>3, Zenon

(* The state after a step forward, and after a compensation.               *)
LEMMA AfterIs ==
  ASSUME NEW i
  PROVE  /\ i = N => AfterForward(i).tag = "Committed" /\ AfterForward(i).step = 0
         /\ i # N => AfterForward(i).tag = "Running" /\ AfterForward(i).step = i + 1
         /\ AfterBackward(i).tag \in {"RolledBack", "Compensating"}
<1>1. i = N => AfterForward(i).tag = "Committed" /\ AfterForward(i).step = 0
  BY Zenon DEF AfterForward, State
<1>2. i # N => AfterForward(i).tag = "Running" /\ AfterForward(i).step = i + 1
  BY Zenon DEF AfterForward, State
<1>3. i = 0 => AfterBackward(i).tag = "RolledBack"
  BY Zenon DEF AfterBackward, State
<1>4. i # 0 => AfterBackward(i).tag = "Compensating"
  BY Zenon DEF AfterBackward, State
<1> QED
  BY <1>1, <1>2, <1>3, <1>4, Zenon

(* A step that succeeds has done what the next one relies on.              *)
LEMMA ForwardHost ==
  ASSUME SagaInv, HostInv, NEW p \in Procs, Step(p), Forward(p), NEW i \in Steps, to[p].step = i
  PROVE  DoneBefore(p, i + 1)'
<1> USE DEF Preflight, Fetch, Migrate, Activate, Restart, Health, Verify
<1>1. DoneBefore(p, i)
  <2>1. pc[p] = "forward" /\ RunInv(p)
    BY Zenon DEF Forward, SagaInv
  <2>2. to[p].tag = "Running"
    BY <2>1, Zenon DEF RunInv
  <2>3. InFlight(p)
    BY <2>1, Zenon DEF InFlight
  <2> QED
    BY <2>2, <2>3, Zenon DEF HostInv
<1>2. pc[p] = "forward" /\ pc'[p] = "event" /\ to'[p] # to[p]
  <2>1. TypeOK
    BY Zenon DEF SagaInv
  <2>2. pc[p] = "forward" /\ pc'[p] = "event" /\ to' = [to EXCEPT ![p] = AfterForward(i)]
    BY <2>1, Zenon DEF Forward, Enter, TypeOK
  <2>3. to[p].tag = "Running"
    BY <2>2, Zenon DEF RunInv, SagaInv
  <2>4. to'[p] = AfterForward(i)
    BY <2>1, <2>2, Zenon DEF TypeOK
  <2>5. to'[p].step # to[p].step
    BY <2>4, AfterIs DEF Steps
  <2> QED
    BY <2>2, <2>5, Zenon
<1>3. \/ Inert(p, Preflight) \/ Inert(p, Health) \/ Inert(p, Verify)
      \/ RunFetch(p) \/ RunMigrate(p) \/ RunActivate(p) \/ RunRestart(p)
  BY <1>2, Zenon
     DEF Step, ReadPrior, TakeLock, Engine, WriteLedger, LedgerLost, RunPreflight, RunHealth,
        RunVerify,
         InertUndo, UndoMigrate, Reactivate, ReactivateFails, RestartPrior, Undoing, AcquireLock,
         Locked, AcquireFails, RecordEvent, RecordState, StoreFails, ReleaseLock, ReleaseFails,
            vars, runVars
<1>4. ~ForwardFails(p)
  <2>1. Forward(p) => done'[p] = i
    BY Zenon DEF SagaInv, TypeOK, Forward
  <2>2. ForwardFails(p) => done'[p] = done[p]
    BY Zenon DEF ForwardFails
  <2>3. to[p].tag = "Running"
    BY <1>2, Zenon DEF RunInv, SagaInv
  <2>4. done[p] = i - 1
    BY <2>3, Zenon DEF RunInv, SagaInv
  <2>5. done'[p] = i
    BY <2>1, Zenon
  <2>6. i - 1 # i
    BY DEF Steps
  <2> QED
    BY <2>2, <2>4, <2>5, <2>6, Zenon
<1>t. RevisionsOK
  BY Zenon DEF HostInv
<1>5. CASE \E j \in {Preflight, Health, Verify} : Inert(p, j)
  <2>1. i \in {1, 6, 7} /\ UNCHANGED <<hostVars, staged, newRev, ownsDatabase>>
    BY <1>5, Zenon DEF Inert, At, ownVars, localVars, setupVars
  <2> QED
    BY <1>1, <2>1 DEF DoneBefore, hostVars
<1>6. CASE RunFetch(p)
  <2>1. i = 2 /\ staged' = [staged EXCEPT ![p] = p] /\ UNCHANGED hostVars
    BY <1>4, <1>6, Zenon DEF RunFetch, At
  <2> QED
    BY <1>t, <2>1 DEF DoneBefore, RevisionsOK
<1>7. CASE RunMigrate(p)
  <2>1. /\ i = 3 /\ newRev' = [newRev EXCEPT ![p] = MigratedTo(p)] /\ db' = MigrateTarget(p)
        /\ UNCHANGED <<staged, ownsDatabase>>
    BY <1>4, <1>7, Zenon DEF RunMigrate, At, setupVars
  <2>2. ownsDatabase => MigratedTo(p) = MigrateTarget(p)
    BY Zenon DEF MigratedTo, MigrateTarget
  <2>3. newRev'[p] = MigratedTo(p)
    BY <1>t, <2>1, Zenon DEF RevisionsOK
  <2> QED
    BY <1>1, <2>1, <2>2, <2>3 DEF DoneBefore
<1>8. CASE RunActivate(p)
  <2>1. i = 4 /\ active' = staged[p] /\ UNCHANGED <<staged, newRev, db, ownsDatabase>>
    BY <1>4, <1>8, Zenon DEF RunActivate, At, ownVars, localVars, setupVars
  <2> QED
    BY <1>1, <2>1 DEF DoneBefore
<1>9. CASE RunRestart(p)
  <2>1. i = 5 /\ running' = active /\ UNCHANGED <<staged, newRev, db, active, ownsDatabase>>
    BY <1>4, <1>9, Zenon DEF RunRestart, At, ownVars, localVars, setupVars
  <2> QED
    BY <1>1, <2>1 DEF DoneBefore
<1> QED
  BY <1>3, <1>5, <1>6, <1>7, <1>8, <1>9, Zenon

(* What a run in flight claims of the host holds after its own step.       *)
LEMMA OwnHost ==
  ASSUME SagaInv, HostInv, NEW p \in Procs, Step(p) \/ Die(p), InFlight(p)'
  PROVE  /\ to'[p].tag = "Running" => DoneBefore(p, to[p].step)'
         /\ to'[p].tag = "Committed" => DoneBefore(p, N + 1)'
<1> USE DEF Preflight, Fetch, Migrate, Activate, Restart, Health, Verify
<1>a. TypeOK /\ RunInv(p)
  BY Zenon DEF SagaInv
<1>b. ~Die(p)
  BY <1>a, Zenon DEF Die, Crash, InFlight, TypeOK
<1>1. CASE Forward(p)
  <2>1. pc[p] = "forward" /\ to' = [to EXCEPT ![p] = AfterForward(to[p].step)]
    BY <1>1, Zenon DEF Forward, Enter
  <2>2. to[p].step \in Steps
    BY <2>1, <1>a, Zenon DEF RunInv, Bounds
  <2>3. PICK i \in Steps : to[p].step = i
    BY <2>2, Zenon
  <2>4. DoneBefore(p, i + 1)'
    BY <1>1, <1>b, <2>3, ForwardHost, Zenon
  <2>5. to'[p] = AfterForward(i)
    BY <1>a, <2>1, <2>3, Zenon DEF TypeOK
  <2>6. CASE i = N
    <3>1. to'[p].tag = "Committed"
      BY <2>5, <2>6, AfterIs
    <3> QED
      BY <2>4, <2>6, <3>1, Zenon
  <2>7. CASE i # N
    <3>1. to'[p].tag = "Running" /\ to'[p].step = i + 1
      BY <2>5, <2>7, AfterIs, Zenon
    <3> QED
      BY <2>4, <3>1, Zenon DEF DoneBefore
  <2> QED
    BY <2>6, <2>7, Zenon
<1>2. CASE ForwardFails(p) \/ Compensate(p) \/ CompensateFails(p)
  <2>1. \/ \E k : to'[p] = AfterBackward(k)
        \/ to'[p] = State("PartialRollback", 0)
    BY <1>2, <1>a, Zenon DEF ForwardFails, Compensate, CompensateFails, Enter, TypeOK
  <2> QED
    BY <2>1, AfterIs DEF State
<1>3. CASE AcquireLock(p)
  <2>1. to'[p] = AfterForward(0)
    BY <1>3, <1>a, Zenon DEF AcquireLock, Enter, TypeOK
  <2>2. to'[p] = State("Running", 1)
    BY <2>1, StepsAssumption DEF AfterForward
  <2> QED
    BY <2>2 DEF State, DoneBefore
<1>4. CASE UNCHANGED <<hostVars, staged, newRev, to>> /\ InFlight(p)
  BY <1>4, SetupStays, Zenon DEF HostInv, DoneBefore, hostVars
<1>5. CASE Reactivate(p)
  <2>1. pc[p] = "compensate" /\ UNCHANGED to
    BY <1>5, Zenon DEF Reactivate, Undoing, vars, runVars
  <2>2. to[p].tag = "Compensating"
    BY <1>a, <2>1, Zenon DEF RunInv
  <2> QED
    BY <2>1, <2>2, Zenon
<1>6. \/ Forward(p) \/ ForwardFails(p) \/ Compensate(p) \/ CompensateFails(p) \/ AcquireLock(p) \/ Reactivate(p)
      \/ UNCHANGED <<hostVars, staged, newRev, to>>
  BY <1>b, ZenonT(30)
     DEF Step, ReadPrior, TakeLock, Engine, WriteLedger, LedgerLost, RunPreflight, RunHealth,
        RunVerify,
         Inert, RunFetch, RunMigrate, RunActivate, RunRestart, InertUndo, UndoMigrate,
         ReactivateFails, RestartPrior, ownVars, localVars, vars, runVars,
         Locked, AcquireFails, RecordEvent, RecordState, StoreFails, ReleaseLock, ReleaseFails
<1>7. InFlight(p) \/ AcquireLock(p)
  <2>1. CASE UNCHANGED vars
    BY <2>1, Zenon DEF vars, runVars, InFlight
  <2>2. CASE Run(p) \/ Crash(p)
    BY <1>a, <2>2, Zenon
       DEF Run, Locked, AcquireFails, RecordEvent, RecordState, StoreFails, Forward,
           ForwardFails, Compensate, CompensateFails, ReleaseLock, ReleaseFails, Crash,
              InFlight, TypeOK
  <2> QED
    BY <2>1, <2>2, StepIsEngine, Zenon
<1> QED
  BY <1>1, <1>2, <1>3, <1>4, <1>5, <1>6, <1>7, Zenon

(* Every step keeps what is known of the host: only the run in flight      *)
(* changes it, and while it does the journal does not say Committed.       *)
LEMMA HostNext ==
  ASSUME SagaInv, SagaInv', HostInv, NEW p \in Procs, Step(p) \/ Die(p)
  PROVE  HostInv'
<1>a. RevisionsOK /\ CommittedIsLive
  BY Zenon DEF HostInv
<1>1. RevisionsOK'
  BY <1>a, RevisionsInv, Zenon
<1>2. ASSUME NEW q \in Procs, InFlight(q)'
      PROVE  /\ to'[q].tag = "Running" => DoneBefore(q, to[q].step)'
             /\ to'[q].tag = "Committed" => DoneBefore(q, N + 1)'
  <2>1. CASE q = p
    BY <1>2, <2>1, OwnHost, Zenon
  <2>2. CASE q # p
    <3>1. to'[q] = to[q] /\ pc'[q] = pc[q]
      <4>1. CASE UNCHANGED vars
        BY <4>1, Zenon DEF vars, runVars
      <4>2. CASE Run(p) \/ Crash(p)
        <5>1. pc \in [Procs -> Locations] /\ to \in [Procs -> SagaStates]
          BY Zenon DEF SagaInv, TypeOK
        <5> QED
          BY <2>2, <4>2, <5>1, ZenonT(30)
             DEF Run, AcquireLock, Locked, AcquireFails, RecordEvent, RecordState, StoreFails,
                Forward, Enter,
                 ForwardFails, Compensate, CompensateFails, ReleaseLock, ReleaseFails, Crash
      <4> QED
        BY <4>1, <4>2, StepIsEngine, Zenon
    <3>2. InFlight(q)
      BY <1>2, <3>1, Zenon DEF InFlight
    <3>3. ~InFlight(p)
      <4>1. \A r \in Procs : InFlight(r) => lock = r
        BY Zenon DEF SagaInv, RunInv
      <4> QED
        BY <2>2, <3>2, <4>1, Zenon
    <3>4. UNCHANGED <<hostVars, staged, newRev>>
      BY <1>a, <3>3, HostChanges, Zenon DEF InFlight
    <3> QED
      BY <3>1, <3>2, <3>4, SetupStays, Zenon DEF HostInv, DoneBefore, hostVars
  <2> QED
    BY <2>1, <2>2, Zenon
<1>3. CommittedIsLive'
  <2> SUFFICES ASSUME curState'.tag = "Committed"
               PROVE  /\ active' = author' /\ running' = author'
                      /\ ownsDatabase => db' = newRev'[author']
    BY SetupStays, Zenon DEF CommittedIsLive
  <2>1. UNCHANGED <<hostVars, staged, newRev>>
    BY <1>a, HostChanges, Zenon
  <2>2. CASE UNCHANGED <<curState, author>>
    BY <1>a, <2>1, <2>2, Zenon DEF CommittedIsLive, hostVars
  <2>3. CASE RecordState(p)
    <3>1. pc[p] = "state" /\ curState' = to[p] /\ author' = p
      BY <2>3, Zenon DEF RecordState
    <3>2. DoneBefore(p, N + 1)
      BY <3>1, Zenon DEF HostInv, InFlight
    <3> QED
      BY <2>1, <3>1, <3>2, StepsAssumption
      DEF DoneBefore, hostVars, Fetch, Migrate, Activate, Restart
  <2>4. UNCHANGED <<curState, author>> \/ RecordState(p)
    BY StepIsEngine, Zenon
       DEF Run, AcquireLock, Locked, AcquireFails, RecordEvent, StoreFails, Forward,
           ForwardFails, Compensate, CompensateFails, ReleaseLock, ReleaseFails, Crash,
              storeVars, vars
  <2> QED
    BY <2>2, <2>3, <2>4, Zenon
<1> QED
  BY <1>1, <1>2, <1>3, Zenon DEF HostInv

(* What a run in flight has done to the host is there until it is over.    *)
THEOREM HostFollowsRun == SHSpec => []HostInv
<1>1. SagaInv /\ SagaInv' /\ HostInv /\ [SHNext]_shVars => HostInv'
  <2> SUFFICES ASSUME SagaInv, SagaInv', HostInv, [SHNext]_shVars PROVE HostInv'
    BY Zenon
  <2>1. CASE UNCHANGED shVars
    BY <2>1, Zenon
       DEF HostInv, RevisionsOK, DoneBefore, CommittedIsLive, InFlight, shVars, vars, runVars,
          storeVars,
           ownVars, setupVars, localVars, hostVars
  <2>2. ASSUME NEW p \in Procs, Step(p) \/ Die(p) PROVE HostInv'
    BY <2>2, HostNext, Zenon
  <2> QED
    BY <2>1, <2>2, Zenon DEF SHNext, AllOver
<1> QED
  BY <1>1, HostInit, EngineInv, PTL DEF SHSpec

(* A journal that says Committed is the truth about the host: release,     *)
(* service and database are the committing run's (single_host.rs, forward; *)
(* saga.rs, execute), for any number of runs that overlap in any way.      *)
THEOREM CommitIsLive == SHSpec => []CommittedIsLive
<1>1. HostInv => CommittedIsLive
  BY Zenon DEF HostInv
<1> QED
  BY <1>1, HostFollowsRun, PTL

-----------------------------------------------------------------------------
(* What a deliberate or failed deploy may leave live.                      *)

(* The releases that are in the ledger or were.                            *)
Recorded == {NoRelease, Base} \cup {q \in Procs : stage[q] = "recorded"}

(* Where a run whose release is live can be, unless its activation failed, *)
(* and when it has put the prior release back.                             *)
Placed(p) ==
    /\ p \in {active, running} /\ failed[p] # Activate =>
          /\ to[p].tag \notin {"Idle", "RolledBack"}
          /\ to[p].tag = "Running" => to[p].step > Activate
          /\ to[p].tag = "Compensating" => to[p].step >= Activate
    /\ repointed[p] => to[p].tag \notin {"Idle", "Running"}
    /\ repointed[p] /\ to[p].tag = "Compensating" => active # p

(* The types of what run_reporting keeps around the saga.                  *)
AroundOK ==
    /\ stage \in [Procs -> {"start", "saga", "recorded", "unrecorded"}]
    /\ prior \in [Procs -> Records]
    /\ ledger \in Records
    /\ repointed \in [Procs -> BOOLEAN]

(* A run puts live its own release, or one that was recorded before it.    *)
LiveInv ==
    /\ AroundOK
    /\ ledger.active \in Recorded
    /\ \A p \in Procs :
          /\ prior[p].active \in Recorded \ {p}
          /\ staged[p] \in {p, NoRelease}
          /\ stage[p] = "recorded" => pc[p] = "returned" /\ to[p].tag = "Committed"
          /\ pc[p] = "dead" \/ to[p].tag = "Committed" \/ Placed(p)

(* A fresh host runs Base or nothing. *)
LEMMA LiveInit == SHInit => LiveInv
<1> SUFFICES ASSUME SHInit PROVE LiveInv
  BY Zenon
<1>1. AroundOK
  <2>1. db \in Nat
    BY HostInit, Zenon DEF HostInv, RevisionsOK
  <2>2. ledger \in Records
    BY <2>1 DEF SHInit, Record, Records, Releases
  <2> QED
    BY <2>2, Zenon DEF SHInit, AroundOK, Record, Records, Releases
<1>2. active \in {NoRelease, Base} /\ running \in {NoRelease, Base} /\ ledger.active \in {NoRelease, Base}
  BY DEF SHInit, Record
<1>3. ASSUME NEW p \in Procs
      PROVE  /\ prior[p].active = NoRelease /\ staged[p] = NoRelease /\ stage[p] = "start"
             /\ to[p].tag = "Idle" /\ repointed[p] = FALSE
  BY Zenon DEF SHInit, Init, Idle, State, Record
<1> QED
  BY <1>1, <1>2, <1>3, ReleaseAssumption, ZenonT(30) DEF LiveInv, Recorded, Placed

(* Every step keeps the types.                                             *)
LEMMA AroundInv ==
  ASSUME AroundOK, RevisionsOK, \A q \in Procs : staged[q] \in {q, NoRelease}, NEW p \in Procs, Step(p) \/ Die(p)
  PROVE  AroundOK'
<1>1. CASE UNCHANGED <<stage, prior, ledger, repointed>>
  BY <1>1, Zenon DEF AroundOK
<1>2. CASE ReadPrior(p)
  BY <1>2, Zenon DEF ReadPrior, AroundOK
<1>3. CASE WriteLedger(p)
  <2>1. Record(staged[p], newRev[p]) \in Records
    BY Zenon DEF Record, Records, Releases, RevisionsOK
  <2> QED
    BY <1>3, <2>1, Zenon DEF WriteLedger, AroundOK, localVars
<1>4. CASE LedgerLost(p)
  BY <1>4, Zenon DEF LedgerLost, AroundOK, localVars
<1>5. CASE Reactivate(p)
  BY <1>5, Zenon DEF Reactivate, AroundOK, localVars
<1>6. \/ UNCHANGED <<stage, prior, ledger, repointed>>
      \/ ReadPrior(p) \/ WriteLedger(p) \/ LedgerLost(p) \/ Reactivate(p)
  BY Zenon DEF Step, Die, TakeLock, Engine, RunPreflight, RunHealth, RunVerify, Inert, RunFetch,
     RunMigrate,
         RunActivate, RunRestart, InertUndo, UndoMigrate, ReactivateFails, RestartPrior,
            ownVars, localVars
<1> QED
  BY <1>1, <1>2, <1>3, <1>4, <1>5, <1>6, Zenon

(* What one step puts live: the release of its own run, a recorded one, or *)
(* what the link already names.                                            *)
LEMMA StepPutsLive ==
  ASSUME LiveInv, NEW p \in Procs, Step(p) \/ Die(p)
  PROVE  /\ active' \in {active, p, NoRelease} \cup Recorded
         /\ running' \in {running, active, NoRelease}
<1>1. staged[p] \in {p, NoRelease} /\ prior[p].active \in Recorded
  BY Zenon DEF LiveInv
<1>2. active' \in {active, staged[p], prior[p].active}
  BY ZenonT(30) DEF Step, Die, ReadPrior, TakeLock, Engine, WriteLedger, LedgerLost, RunPreflight,
     RunHealth, RunVerify,
         Inert, RunFetch, RunMigrate, RunActivate, RunRestart, InertUndo, UndoMigrate, Reactivate,
         ReactivateFails, RestartPrior, ownVars, hostVars
<1>3. running' \in {running, active, NoRelease}
  BY Zenon DEF Step, Die, ReadPrior, TakeLock, Engine, WriteLedger, LedgerLost, RunPreflight,
     RunHealth, RunVerify,
         Inert, RunFetch, RunMigrate, RunActivate, RunRestart, InertUndo, UndoMigrate, Reactivate,
         ReactivateFails, RestartPrior, ownVars, hostVars
<1> QED
  BY <1>1, <1>2, <1>3, Zenon

(* A step of p leaves the other runs' records alone.                       *)
LEMMA OtherRecords ==
  ASSUME SagaInv, AroundOK, RevisionsOK, NEW p \in Procs, NEW q \in Procs, q # p, Step(p) \/ Die(p)
  PROVE  /\ stage'[q] = stage[q] /\ prior'[q] = prior[q] /\ repointed'[q] = repointed[q]
         /\ staged'[q] = staged[q] /\ to'[q] = to[q] /\ pc'[q] = pc[q] /\ failed'[q] = failed[q]
<1>1. \E v : stage' = [stage EXCEPT ![p] = v] \/ stage' = stage
  BY ZenonT(30) DEF Step, Die, ReadPrior, TakeLock, Engine, WriteLedger, LedgerLost, RunPreflight,
     RunHealth, RunVerify,
         Inert, RunFetch, RunMigrate, RunActivate, RunRestart, InertUndo, UndoMigrate, Reactivate,
         ReactivateFails, RestartPrior, ownVars
<1>2. prior' = [prior EXCEPT ![p] = ledger] \/ prior' = prior
  BY ZenonT(30) DEF Step, Die, ReadPrior, TakeLock, Engine, WriteLedger, LedgerLost, RunPreflight,
     RunHealth, RunVerify,
         Inert, RunFetch, RunMigrate, RunActivate, RunRestart, InertUndo, UndoMigrate, Reactivate,
         ReactivateFails, RestartPrior, ownVars, localVars
<1>3. repointed' = [repointed EXCEPT ![p] = TRUE] \/ repointed' = repointed
  BY ZenonT(30) DEF Step, Die, ReadPrior, TakeLock, Engine, WriteLedger, LedgerLost, RunPreflight,
     RunHealth, RunVerify,
         Inert, RunFetch, RunMigrate, RunActivate, RunRestart, InertUndo, UndoMigrate, Reactivate,
         ReactivateFails, RestartPrior, ownVars
<1>4. staged' = [staged EXCEPT ![p] = p] \/ staged' = staged
  BY Zenon DEF Step, Die, ReadPrior, TakeLock, Engine, WriteLedger, LedgerLost, RunPreflight,
     RunHealth, RunVerify,
         Inert, RunFetch, RunMigrate, RunActivate, RunRestart, InertUndo, UndoMigrate, Reactivate,
         ReactivateFails, RestartPrior, ownVars, localVars
<1>5. to'[q] = to[q] /\ pc'[q] = pc[q] /\ failed'[q] = failed[q]
  <2>1. CASE UNCHANGED vars
    BY <2>1, Zenon DEF vars, runVars
  <2>2. CASE Run(p) \/ Crash(p)
    <3>1. TypeOK
      BY Zenon DEF SagaInv
    <3> QED
      BY <2>2, <3>1, OthersStand, Zenon
  <2> QED
    BY <2>1, <2>2, StepIsEngine, Zenon
<1>6. stage'[q] = stage[q]
  BY <1>1, Zenon DEF AroundOK
<1>7. prior'[q] = prior[q] /\ repointed'[q] = repointed[q]
  BY <1>2, <1>3, Zenon DEF AroundOK
<1>8. staged'[q] = staged[q]
  BY <1>4, Zenon DEF RevisionsOK
<1> QED
  BY <1>5, <1>6, <1>7, <1>8, ZenonT(30)

(* What is recorded stays so, and the ledger names what is.                *)
LEMMA RecordedInv ==
  ASSUME SagaInv, RevisionsOK, LiveInv, NEW p \in Procs, Step(p) \/ Die(p)
  PROVE  /\ Recorded \subseteq Recorded'
         /\ ledger'.active \in Recorded'
         /\ stage[p] # "recorded"
<1>a. AroundOK /\ ledger.active \in Recorded /\ staged[p] \in {p, NoRelease}
      /\ (stage[p] = "recorded" => pc[p] = "returned")
  BY Zenon DEF LiveInv
<1>1. stage[p] # "recorded"
  BY <1>a, ZenonT(30)
     DEF Step, Die, ReadPrior, TakeLock, Engine, WriteLedger, LedgerLost, RunPreflight,
        RunHealth, RunVerify,
         Inert, RunFetch, RunMigrate, RunActivate, RunRestart, InertUndo, UndoMigrate, Reactivate,
         ReactivateFails, RestartPrior, At, Undoing
<1>2. Recorded \subseteq Recorded'
  <2>1. \A q \in Procs : q # p => stage'[q] = stage[q]
    BY <1>a, OtherRecords, Zenon
  <2> QED
    BY <1>1, <2>1, Zenon DEF Recorded
<1>3. CASE WriteLedger(p)
  <2>1. ledger' = Record(staged[p], newRev[p]) /\ stage'[p] = "recorded"
    BY <1>3, <1>a, Zenon DEF WriteLedger, AroundOK
  <2> QED
    BY <1>1, <1>2, <1>a, <2>1, Zenon DEF Record, Recorded
<1>4. CASE ledger' = ledger
  BY <1>1, <1>2, <1>4, <1>a, Zenon
<1>5. WriteLedger(p) \/ ledger' = ledger
  BY Zenon DEF Step, Die, ReadPrior, TakeLock, Engine, LedgerLost, RunPreflight, RunHealth,
     RunVerify,
         Inert, RunFetch, RunMigrate, RunActivate, RunRestart, InertUndo, UndoMigrate, Reactivate,
         ReactivateFails, RestartPrior, ownVars
<1> QED
  BY <1>3, <1>4, <1>5, Zenon

(* The other runs stay placed: nobody puts their release live.             *)
LEMMA OtherPlaced ==
  ASSUME SagaInv, RevisionsOK, LiveInv, NEW p \in Procs, NEW q \in Procs, q # p, Step(p) \/ Die(p)
  PROVE  pc'[q] = "dead" \/ to'[q].tag = "Committed" \/ Placed(q)'
<1>1. /\ stage'[q] = stage[q] /\ repointed'[q] = repointed[q] /\ to'[q] = to[q] /\ pc'[q] = pc[q]
      /\ failed'[q] = failed[q]
  BY OtherRecords, ZenonT(30) DEF LiveInv
<1>2. pc[q] = "dead" \/ to[q].tag = "Committed" \/ (Placed(q) /\ stage[q] # "recorded")
  BY Zenon DEF LiveInv
<1>3. stage[q] # "recorded" => q \notin Recorded \cup {NoRelease}
  BY ReleaseAssumption, Zenon DEF Recorded
<1>4. stage[q] # "recorded" => (active' = q => active = q) /\ (running' = q => q \in {active, running})
  BY <1>3, StepPutsLive, Zenon
<1> QED
  BY <1>1, <1>2, <1>4, Zenon DEF Placed

(* A run's own steps forward: its release goes live in Activate.           *)
LEMMA ForwardPlaced ==
  ASSUME SagaInv, NEW p \in Procs, Placed(p), Step(p), Forward(p) \/ ForwardFails(p)
  PROVE  to'[p].tag = "Committed" \/ Placed(p)'
<1> USE DEF Preflight, Fetch, Migrate, Activate, Restart, Health, Verify
<1>a. TypeOK /\ RunInv(p)
  BY Zenon DEF SagaInv
<1>b. pc[p] = "forward"
  BY Zenon DEF Forward, ForwardFails
<1>c. to[p].tag = "Running" /\ to[p].step \in Steps /\ done[p] = to[p].step - 1 /\ failed[p] = 0
  BY <1>a, <1>b, Zenon DEF RunInv, Bounds
<1>d. pc'[p] = "event"
  BY <1>a, Zenon DEF Forward, ForwardFails, Enter, TypeOK
<1>1. \/ Inert(p, Preflight) \/ Inert(p, Health) \/ Inert(p, Verify)
      \/ RunFetch(p) \/ RunMigrate(p) \/ RunActivate(p) \/ RunRestart(p)
  BY <1>b, <1>d, Zenon
     DEF Step, ReadPrior, TakeLock, Engine, WriteLedger, LedgerLost, RunPreflight, RunHealth,
        RunVerify,
         InertUndo, UndoMigrate, Reactivate, ReactivateFails, RestartPrior, Undoing, AcquireLock,
         Locked, AcquireFails, RecordEvent, RecordState, StoreFails, ReleaseLock, ReleaseFails,
            vars, runVars
<1>2. UNCHANGED repointed
  BY <1>1, Zenon DEF Inert, RunFetch, RunMigrate, RunActivate, RunRestart, ownVars
<1>3. to[p].step < Activate => UNCHANGED <<active, running>>
  <2>1. CASE RunActivate(p) \/ RunRestart(p)
    <3>1. to[p].step \in {Activate, Restart}
      BY <2>1, Zenon DEF RunActivate, RunRestart, At
    <3> QED
      BY <3>1
  <2>2. CASE Inert(p, Preflight) \/ Inert(p, Health) \/ Inert(p, Verify)
    BY <2>2, Zenon DEF Inert, hostVars
  <2>3. CASE RunFetch(p) \/ RunMigrate(p)
    BY <2>3, Zenon DEF RunFetch, RunMigrate, hostVars
  <2> QED
    BY <1>1, <2>1, <2>2, <2>3, Zenon
<1>4. ~repointed[p] /\ (to[p].step <= Activate => p \notin {active, running})
  BY <1>c, SMTT(30) DEF Placed, Steps
<1>5. PICK i \in Steps : to[p].step = i
  BY <1>c, Zenon
<1>6. CASE Forward(p)
  <2>1. to'[p] = AfterForward(i)
    BY <1>a, <1>5, <1>6, Zenon DEF Forward, Enter, TypeOK
  <2>2. i # N => to'[p].tag = "Running" /\ to'[p].step = i + 1
    BY <2>1, AfterIs, Zenon
  <2>3. i = N => to'[p].tag = "Committed"
    BY <2>1, AfterIs
  <2>4. i < Activate => p \notin {active', running'}
    BY <1>3, <1>4, <1>5, SMTT(30) DEF Steps
  <2> QED
    BY <1>2, <1>4, <1>5, <2>2, <2>3, <2>4, SMTT(30) DEF Placed, Steps
<1>7. CASE ForwardFails(p)
  <2>1. to'[p] = AfterBackward(i - 1)
    BY <1>a, <1>c, <1>5, <1>7, Zenon DEF ForwardFails, Enter, TypeOK
  <2>2. /\ i - 1 = 0 => to'[p].tag = "RolledBack"
        /\ i - 1 # 0 => to'[p].tag = "Compensating" /\ to'[p].step = i - 1
    BY <2>1, SMTT(30) DEF AfterBackward, State
  <2>3. /\ active' = active \/ failed'[p] = Activate
        /\ running' \in {running, NoRelease} \/ to[p].step = Restart
    <3>1. ~Forward(p)
      <4>1. Forward(p) => done'[p] = i
        BY <1>a, <1>5, Zenon DEF Forward, TypeOK
      <4>2. done'[p] = i - 1
        BY <1>c, <1>5, <1>7, Zenon DEF ForwardFails
      <4> QED
        BY <4>1, <4>2 DEF Steps
    <3>2. failed'[p] = to[p].step
      BY <1>7, ForwardFailsEnters, Zenon
    <3> QED
      BY <1>1, <3>1, <3>2, Zenon
         DEF Inert, RunFetch, RunMigrate, RunActivate, RunRestart, At, hostVars
  <2>4. i <= Activate /\ failed'[p] # Activate => p \notin {active', running'}
    BY <1>4, <1>5, <2>3, ReleaseAssumption, SMTT(30) DEF Steps
  <2> QED
    BY <1>2, <1>4, <2>2, <2>4, SMTT(30) DEF Placed, Steps
<1> QED
  BY <1>6, <1>7, Zenon

(* A run's own compensations: its release is gone once Activate is undone. *)
LEMMA BackwardPlaced ==
  ASSUME SagaInv, LiveInv, NEW p \in Procs, Placed(p), Step(p), pc[p] = "compensate"
  PROVE  Placed(p)'
<1> USE DEF Preflight, Fetch, Migrate, Activate, Restart, Health, Verify
<1>a. TypeOK /\ RunInv(p) /\ repointed \in [Procs -> BOOLEAN]
  BY Zenon DEF SagaInv, LiveInv, AroundOK
<1>c. to[p].tag = "Compensating" /\ to[p].step \in Steps
  BY <1>a, Zenon DEF RunInv, Bounds
<1>4. /\ to[p].step < Activate /\ failed[p] # Activate => p \notin {active, running}
      /\ repointed[p] => active # p
  BY <1>c, SMTT(30) DEF Placed, Steps
<1>f. failed' = failed
  BY ZenonT(30) DEF Step, ReadPrior, TakeLock, Engine, WriteLedger, LedgerLost, RunPreflight,
         RunHealth, RunVerify, Inert, RunFetch, RunMigrate, RunActivate, RunRestart, InertUndo,
         UndoMigrate, Reactivate, ReactivateFails, RestartPrior, At, AcquireLock, Locked,
         AcquireFails, RecordEvent, RecordState, StoreFails, Compensate, CompensateFails,
         ReleaseLock, ReleaseFails, vars, runVars
<1>5. PICK i \in Steps : to[p].step = i
  BY <1>c, Zenon
<1>b. /\ Compensate(p) => to'[p] = AfterBackward(i - 1)
      /\ CompensateFails(p) => to'[p] = State("PartialRollback", 0)
  BY <1>a, <1>5, Zenon DEF Compensate, CompensateFails, Enter, TypeOK
<1>d. /\ i - 1 = 0 => AfterBackward(i - 1).tag = "RolledBack"
      /\ i - 1 # 0 => AfterBackward(i - 1).tag = "Compensating" /\ AfterBackward(i - 1).step = i - 1
  BY Zenon DEF AfterBackward, State
<1>1. CASE InertUndo(p)
  <2>1. i # Activate /\ UNCHANGED <<active, running, repointed>> /\ Compensate(p)
    BY <1>1, <1>5, SMTT(30) DEF InertUndo, Undoing, ownVars, hostVars
  <2> QED
    BY <1>f, <1>4, <1>5, <1>b, <1>d, <2>1, SMTT(30) DEF Placed, Steps
<1>2. CASE UndoMigrate(p)
  <2>1. i = Migrate /\ UNCHANGED <<active, running, repointed>> /\ (Compensate(p) \/ CompensateFails(p))
    BY <1>2, <1>5, Zenon DEF UndoMigrate, Undoing, ownVars
  <2>2. CASE Compensate(p)
    <3>1. to'[p].tag = "Compensating" /\ to'[p].step = Fetch
      BY <1>b, <1>d, <2>1, <2>2, SMTT(30)
    <3> QED
      BY <1>f, <1>4, <1>5, <2>1, <3>1 DEF Placed
  <2>3. CASE CompensateFails(p)
    BY <1>f, <1>4, <1>5, <1>b, <2>1, <2>3, SMTT(30) DEF Placed, State
  <2> QED
    BY <2>1, <2>2, <2>3, Zenon
<1>3. CASE Reactivate(p)
  <2>1. i = Activate /\ active' = prior[p].active /\ UNCHANGED to
    BY <1>3, <1>5, Zenon DEF Reactivate, Undoing, vars, runVars
  <2>2. active' # p
    BY <2>1, ZenonT(30) DEF LiveInv
  <2> QED
    BY <1>f, <1>c, <1>5, <2>1, <2>2, SMTT(30) DEF Placed
<1>6. CASE ReactivateFails(p)
  <2>1. CompensateFails(p) /\ UNCHANGED <<running, repointed>> /\ ~repointed[p]
    BY <1>6, Zenon DEF ReactivateFails, ownVars
  <2> QED
    BY <1>f, <1>b, <2>1, SMTT(30) DEF Placed, State
<1>7. CASE RestartPrior(p)
  <2>1. i = Activate /\ repointed[p] /\ UNCHANGED <<active, repointed>>
    BY <1>7, <1>5, Zenon DEF RestartPrior, Undoing, ownVars
  <2>2. CASE CompensateFails(p)
    BY <1>f, <1>b, <2>1, <2>2, SMTT(30) DEF Placed, State
  <2>3. CASE Compensate(p) /\ running' = active
    BY <1>f, <1>4, <1>b, <1>d, <2>1, <2>3, Zenon DEF Placed
  <2> QED
    BY <1>7, <2>2, <2>3, Zenon DEF RestartPrior
<1>8. CASE ReadPrior(p) \/ WriteLedger(p) \/ LedgerLost(p)
  BY <1>8, <1>f, Zenon DEF ReadPrior, WriteLedger, LedgerLost, Placed, vars, runVars, hostVars
<1>9. \/ InertUndo(p) \/ UndoMigrate(p) \/ Reactivate(p) \/ ReactivateFails(p) \/ RestartPrior(p)
      \/ ReadPrior(p) \/ WriteLedger(p) \/ LedgerLost(p)
  BY Zenon DEF Step, TakeLock, Engine, RunPreflight, RunHealth, RunVerify, Inert, RunFetch,
     RunMigrate,
         RunActivate, RunRestart, At, AcquireLock, Locked, AcquireFails, RecordEvent,
            RecordState, StoreFails,
         ReleaseLock, ReleaseFails
<1> QED
  BY <1>1, <1>2, <1>3, <1>6, <1>7, <1>8, <1>9, Zenon

(* A run's own step keeps it placed. *)
LEMMA OwnPlaced ==
  ASSUME SagaInv, LiveInv, NEW p \in Procs, Step(p) \/ Die(p)
  PROVE  pc'[p] = "dead" \/ to'[p].tag = "Committed" \/ Placed(p)'
<1>a. TypeOK /\ RunInv(p)
  BY Zenon DEF SagaInv
<1>1. CASE Die(p)
  BY <1>1, <1>a, Zenon DEF Die, Crash, TypeOK
<1>2. CASE Step(p) /\ (Forward(p) \/ ForwardFails(p))
  <2>1. pc[p] = "forward" /\ to[p].tag = "Running"
    BY <1>2, <1>a, Zenon DEF Forward, ForwardFails, RunInv
  <2>2. Placed(p)
    BY <2>1, Zenon DEF LiveInv
  <2> QED
    BY <1>2, <2>2, ForwardPlaced, Zenon
<1>3. CASE Step(p) /\ pc[p] = "compensate"
  <2>1. to[p].tag = "Compensating"
    BY <1>3, <1>a, Zenon DEF RunInv
  <2>2. Placed(p)
    BY <1>3, <2>1, Zenon DEF LiveInv
  <2> QED
    BY <1>3, <2>2, BackwardPlaced, Zenon
<1>4. CASE TakeLock(p)
  <2>1. pc[p] = "ready" /\ to[p] = Idle
    BY <1>4, <1>a, Zenon DEF TakeLock, AcquireLock, RunInv
  <2>t. to[p].tag = "Idle"
    BY <2>1, SMTT(30) DEF Idle, State
  <2>f. failed[p] = 0
    BY <1>a, <2>t, Zenon DEF RunInv
  <2>2. to[p].tag = "Idle" /\ failed[p] # Activate
    BY <2>t, <2>f DEF Activate
  <2>3. p \notin {active, running} /\ ~repointed[p]
    BY <2>1, <2>2, Zenon DEF LiveInv, Placed
  <2>4. UNCHANGED <<active, running, repointed>>
    BY <1>4, Zenon DEF TakeLock, hostVars
  <2> QED
    BY <2>3, <2>4, Zenon DEF Placed
<1>5. CASE Engine(p) /\ pc[p] # "dead"
  <2>1. UNCHANGED <<active, running, repointed, to, failed>>
    BY <1>5, Zenon
       DEF Engine, ownVars, hostVars, Locked, AcquireFails, RecordEvent, RecordState,
          StoreFails, ReleaseLock,
           ReleaseFails
  <2> QED
    BY <1>5, <2>1, Zenon DEF LiveInv, Placed
<1>6. CASE ReadPrior(p) \/ WriteLedger(p) \/ LedgerLost(p)
  <2>1. UNCHANGED <<active, running, repointed, to, pc, failed>>
    BY <1>6, ZenonT(30) DEF ReadPrior, WriteLedger, LedgerLost, hostVars, vars, runVars
  <2> QED
    BY <2>1, Zenon DEF LiveInv, Placed
<1>7. \/ Die(p) \/ TakeLock(p) \/ ReadPrior(p) \/ WriteLedger(p) \/ LedgerLost(p)
      \/ Engine(p) /\ pc[p] # "dead"
      \/ Step(p) /\ (Forward(p) \/ ForwardFails(p) \/ pc[p] = "compensate")
  BY ZenonT(30) DEF Step, Engine, RunPreflight, RunHealth, RunVerify, Inert, RunFetch, RunMigrate,
     RunActivate,
         RunRestart, InertUndo, UndoMigrate, Reactivate, ReactivateFails, RestartPrior, Undoing,
         Locked, AcquireFails, RecordEvent, RecordState, StoreFails, ReleaseLock, ReleaseFails
<1> QED
  BY <1>1, <1>2, <1>3, <1>4, <1>5, <1>6, <1>7, Zenon

(* A run's own step keeps what it read, staged and recorded.               *)
LEMMA OwnRecords ==
  ASSUME SagaInv, RevisionsOK, LiveInv, NEW p \in Procs, Step(p) \/ Die(p)
  PROVE  /\ prior'[p].active \in Recorded' \ {p}
         /\ staged'[p] \in {p, NoRelease}
         /\ stage'[p] = "recorded" => pc'[p] = "returned" /\ to'[p].tag = "Committed"
<1>a. /\ AroundOK /\ ledger.active \in Recorded /\ prior[p].active \in Recorded \ {p}
      /\ staged[p] \in {p, NoRelease}
  BY Zenon DEF LiveInv
<1>b. Recorded \subseteq Recorded' /\ stage[p] # "recorded"
  BY RecordedInv, Zenon
<1>1. prior'[p].active \in Recorded' \ {p}
  <2>1. CASE ReadPrior(p)
    <3>1. prior'[p] = ledger
      BY <1>a, <2>1, Zenon DEF ReadPrior, AroundOK
    <3>2. p \notin Recorded
      BY <1>b, ReleaseAssumption, Zenon DEF Recorded
    <3> QED
      BY <1>a, <1>b, <3>1, <3>2, Zenon
  <2>2. CASE prior' = prior
    BY <1>a, <1>b, <2>2, ZenonT(30)
  <2>3. ReadPrior(p) \/ prior' = prior
    BY Zenon DEF Step, Die, TakeLock, Engine, WriteLedger, LedgerLost, RunPreflight, RunHealth,
       RunVerify,
           Inert, RunFetch, RunMigrate, RunActivate, RunRestart, InertUndo, UndoMigrate, Reactivate,
           ReactivateFails, RestartPrior, ownVars, localVars
  <2> QED
    BY <2>1, <2>2, <2>3, Zenon
<1>2. staged'[p] \in {p, NoRelease}
  <2>1. staged' = [staged EXCEPT ![p] = p] \/ staged' = staged
    BY Zenon DEF Step, Die, ReadPrior, TakeLock, Engine, WriteLedger, LedgerLost, RunPreflight,
       RunHealth, RunVerify,
           Inert, RunFetch, RunMigrate, RunActivate, RunRestart, InertUndo, UndoMigrate, Reactivate,
           ReactivateFails, RestartPrior, ownVars, localVars
  <2> QED
    BY <1>a, <2>1, ZenonT(30) DEF RevisionsOK
<1>3. ASSUME stage'[p] = "recorded" PROVE pc'[p] = "returned" /\ to'[p].tag = "Committed"
  <2>1. WriteLedger(p)
    <3>1. \/ WriteLedger(p) \/ stage' = stage \/ stage' = [stage EXCEPT ![p] = "saga"]
          \/ stage' = [stage EXCEPT ![p] = "unrecorded"]
      BY Zenon DEF Step, Die, ReadPrior, TakeLock, Engine, LedgerLost, RunPreflight, RunHealth,
         RunVerify,
             Inert, RunFetch, RunMigrate, RunActivate, RunRestart, InertUndo, UndoMigrate,
                Reactivate,
             ReactivateFails, RestartPrior, ownVars
    <3> QED
      BY <1>3, <1>a, <1>b, <3>1, ZenonT(30) DEF AroundOK
  <2>2. pc[p] = "returned" /\ result[p] = "Committed" /\ UNCHANGED <<pc, to>>
    BY <2>1, Zenon DEF WriteLedger, vars, runVars
  <2>3. to[p].tag = "Committed"
    <3>1. RunInv(p)
      BY Zenon DEF SagaInv
    <3> QED
      BY <2>2, <3>1, Zenon DEF RunInv, Terminal
  <2> QED
    BY <2>2, <2>3, Zenon
<1> QED
  BY <1>1, <1>2, <1>3, Zenon

(* No step puts a release live that is neither its run's nor recorded.     *)
THEOREM LiveFollowsRecords == SHSpec => []LiveInv
<1>1. SagaInv /\ HostInv /\ LiveInv /\ [SHNext]_shVars => LiveInv'
  <2> SUFFICES ASSUME SagaInv, HostInv, LiveInv, [SHNext]_shVars PROVE LiveInv'
    BY Zenon
  <2>1. CASE UNCHANGED shVars
    BY <2>1, Zenon
       DEF LiveInv, AroundOK, Recorded, Placed, shVars, vars, runVars, storeVars,
           ownVars, setupVars, localVars, hostVars
  <2>2. ASSUME NEW p \in Procs, Step(p) \/ Die(p) PROVE LiveInv'
    <3>a. RevisionsOK /\ AroundOK /\ \A q \in Procs : staged[q] \in {q, NoRelease}
      BY Zenon DEF HostInv, LiveInv
    <3>1. AroundOK'
      BY <2>2, <3>a, AroundInv, Zenon
    <3>2. Recorded \subseteq Recorded' /\ ledger'.active \in Recorded'
      BY <2>2, <3>a, RecordedInv, Zenon
    <3>3. ASSUME NEW q \in Procs
          PROVE  /\ prior'[q].active \in Recorded' \ {q}
                 /\ staged'[q] \in {q, NoRelease}
                 /\ stage'[q] = "recorded" => pc'[q] = "returned" /\ to'[q].tag = "Committed"
                 /\ pc'[q] = "dead" \/ to'[q].tag = "Committed" \/ Placed(q)'
      <4>1. CASE q = p
        BY <2>2, <3>a, <4>1, OwnRecords, OwnPlaced, Zenon
      <4>2. CASE q # p
        <5>1. /\ stage'[q] = stage[q] /\ prior'[q] = prior[q]
              /\ staged'[q] = staged[q] /\ to'[q] = to[q] /\ pc'[q] = pc[q]
          BY <2>2, <3>a, <4>2, OtherRecords, Zenon
        <5>2. /\ prior[q].active \in Recorded \ {q}
              /\ stage[q] = "recorded" => pc[q] = "returned" /\ to[q].tag = "Committed"
          BY Zenon DEF LiveInv
        <5>3. pc'[q] = "dead" \/ to'[q].tag = "Committed" \/ Placed(q)'
          BY <2>2, <3>a, <4>2, OtherPlaced, Zenon
        <5> QED
          BY <3>a, <3>2, <5>1, <5>2, <5>3, Zenon
      <4> QED
        BY <4>1, <4>2, Zenon
    <3> QED
      BY <3>1, <3>2, <3>3, Zenon DEF LiveInv
  <2> QED
    BY <2>1, <2>2, Zenon DEF SHNext, AllOver
<1> QED
  BY <1>1, LiveInit, HostFollowsRun, EngineInv, PTL DEF SHSpec

-----------------------------------------------------------------------------
(* What a rollback comes back to.                                          *)

(* What a run found under the lock has its type.                           *)
BasesOK ==
    /\ alone \in [Procs -> BOOLEAN]
    /\ active \in Releases /\ running \in Releases
    /\ base \in [Procs -> [active : Releases, running : Releases, db : Nat]]

(* A run reads the ledger before it does anything else, and only one that  *)
(* committed fails to record it.                                           *)
Entered ==
    \A p \in Procs :
        /\ stage[p] = "start" => pc[p] = "ready"
        /\ stage[p] = "unrecorded" => pc[p] = "returned" /\ result[p] = "Committed"

(* What a run that goes forward has not changed yet, and what it keeps to  *)
(* go back to.                                                             *)
Keeps(p) ==
    /\ to[p].step <= Activate => active = base[p].active
    /\ to[p].step <= Restart => running = base[p].running
    /\ to[p].step <= Migrate => db = base[p].db
    /\ to[p].step > Migrate => prevRev[p] = base[p].db

(* The release is back: it never changed, unless by the activation that    *)
(* failed, or it is the one in the record read before the lock.            *)
ReleaseBack(p) ==
    /\ failed[p] <= Activate => running = base[p].running
    /\ failed[p] < Activate => active = base[p].active
    /\ failed[p] = Activate => active \in {base[p].active, p}
    /\ failed[p] > Activate => active = prior[p].active /\ running = active

(* How far a run that goes back has come.                                  *)
Returning(p) ==
    /\ to[p].step > Activate => repointed[p] = FALSE
    /\ to[p].step = Activate => repointed[p] = FALSE \/ active = prior[p].active
    /\ to[p].step < Activate => ReleaseBack(p)
    /\ to[p].step >= Migrate => prevRev[p] = base[p].db
    /\ to[p].step < Migrate /\ failed[p] # Migrate => db = base[p].db

Restored(p) == ReleaseBack(p) /\ (failed[p] # Migrate => db = base[p].db)

(* What a run in flight relies on to go back.                              *)
Baseline(p) ==
    /\ ownsDatabase = FALSE => db = base[p].db
    /\ to[p].tag = "Running" => Keeps(p)
    /\ to[p].tag = "Compensating" => Returning(p)
    /\ to[p].tag = "RolledBack" => Restored(p)

(* A run in flight can go back, and a journal that says RolledBack is one  *)
(* that did.                                                               *)
BaseInv ==
    /\ BasesOK
    /\ Entered
    /\ \A p \in Procs : InFlight(p) => Baseline(p)
    /\ curState.tag = "RolledBack" => Restored(author)

(* A run that read the ledger and is not over; one that ended in an        *)
(* orderly way and left neither the database nor the link half way.        *)
Underway(p) == Started(p) /\ ~Over(p)
Fine(p) == Orderly(p) /\ failed[p] \notin {Migrate, Activate}

(* The ledger names a release and, where there is a database, a revision.  *)
Names(release, revision) ==
    ledger.active = release /\ (ownsDatabase => ledger.revision = revision)

(* What the only run under way knows of the ledger.                        *)
Follows(p) ==
    /\ prior[p] = ledger
    /\ to[p].tag = "Idle" => Names(active, db)
    /\ to[p].tag # "Idle" => Names(base[p].active, base[p].db)
    /\ to[p].tag = "Committed" => DoneBefore(p, N + 1)

(* While no two runs overlapped, the ledger names what is live whenever    *)
(* nobody is under way and nobody ended badly.                             *)
LedgerInv ==
    (\A p \in Procs : alone[p]) =>
        /\ \A p, q \in Procs : Underway(p) /\ Underway(q) => p = q
        /\ (\A q \in Procs : Fine(q)) => Names(active, db)
        /\ \A p \in Procs :
              Underway(p) /\ (\A q \in Procs \ {p} : Fine(q)) => Follows(p)

(* A fresh host: no run is in flight, and the ledger names what is live.   *)
LEMMA BaseInit == SHInit => BaseInv /\ LedgerInv
<1> SUFFICES ASSUME SHInit PROVE BaseInv /\ LedgerInv
  BY Zenon
<1>1. BasesOK
  <2>1. db \in Nat
    BY HostInit, Zenon DEF HostInv, RevisionsOK
  <2>2. Found(NoRelease, NoRelease, 0) \in [active : Releases, running : Releases, db : Nat]
    BY Zenon DEF Found, Releases
  <2>3. active \in Releases /\ running \in Releases
    BY Zenon DEF SHInit, Releases
  <2> QED
    BY <2>2, <2>3, Zenon DEF SHInit, BasesOK
<1>2. \A p \in Procs : pc[p] = "ready" /\ stage[p] = "start"
  BY Zenon DEF SHInit, Init
<1>3. curState.tag = "Idle"
  BY Zenon DEF SHInit, Init, Idle, State
<1>4. Names(active, db)
  BY DEF SHInit, Names, Record
<1>5. Entered /\ \A p \in Procs : ~InFlight(p) /\ ~Underway(p)
  BY <1>2, Zenon DEF Entered, InFlight, Underway, Started
<1> QED
  BY <1>1, <1>3, <1>4, <1>5, Zenon DEF BaseInv, LedgerInv

(* Every step keeps the types.                                             *)
LEMMA BasesInv ==
  ASSUME BasesOK, AroundOK, RevisionsOK, NEW p \in Procs, Step(p) \/ Die(p)
  PROVE  BasesOK'
<1>1. /\ active \in Releases /\ running \in Releases /\ alone \in [Procs -> BOOLEAN]
      /\ base \in [Procs -> [active : Releases, running : Releases, db : Nat]]
  BY Zenon DEF BasesOK
<1>2. staged[p] \in Releases /\ prior[p].active \in Releases /\ NoRelease \in Releases
  <2>1. staged[p] \in Procs \cup {NoRelease}
    BY Zenon DEF RevisionsOK
  <2>2. prior[p] \in Records
    BY Zenon DEF AroundOK
  <2> QED
    BY <2>1, <2>2, Zenon DEF Releases, Records
<1>3. active' \in {active, staged[p], prior[p].active} /\ running' \in {running, active, NoRelease}
  <2>1. active' \in {active, staged[p], prior[p].active}
    BY ZenonT(30) DEF Step, Die, ReadPrior, TakeLock, Engine, WriteLedger, LedgerLost, RunPreflight,
           RunHealth, RunVerify, Inert, RunFetch, RunMigrate, RunActivate, RunRestart, InertUndo,
           UndoMigrate, Reactivate, ReactivateFails, RestartPrior, ownVars, hostVars
  <2>2. running' \in {running, active, NoRelease}
    BY ZenonT(30) DEF Step, Die, ReadPrior, TakeLock, Engine, WriteLedger, LedgerLost, RunPreflight,
           RunHealth, RunVerify, Inert, RunFetch, RunMigrate, RunActivate, RunRestart, InertUndo,
           UndoMigrate, Reactivate, ReactivateFails, RestartPrior, ownVars, hostVars
  <2> QED
    BY <2>1, <2>2, ZenonT(30)
<1>4. base' = base \/ base' = [base EXCEPT ![p] = Found(active, running, db)]
  BY Zenon DEF Step, Die, ReadPrior, TakeLock, Engine, WriteLedger, LedgerLost, RunPreflight,
         RunHealth, RunVerify, Inert, RunFetch, RunMigrate, RunActivate, RunRestart, InertUndo,
         UndoMigrate, Reactivate, ReactivateFails, RestartPrior, ownVars
<1>5. alone' \in [Procs -> BOOLEAN]
  <2>1. alone' = alone \/ ReadPrior(p)
    BY Zenon DEF Step, Die, TakeLock, Engine, WriteLedger, LedgerLost, RunPreflight,
           RunHealth, RunVerify, Inert, RunFetch, RunMigrate, RunActivate, RunRestart, InertUndo,
           UndoMigrate, Reactivate, ReactivateFails, RestartPrior, ownVars
  <2>2. CASE ReadPrior(p)
    BY <2>2, Zenon DEF ReadPrior
  <2> QED
    BY <1>1, <2>1, <2>2, ZenonT(30)
<1>6. Found(active, running, db) \in [active : Releases, running : Releases, db : Nat]
  <2>1. db \in Nat
    BY Zenon DEF RevisionsOK
  <2> QED
    BY <1>1, <2>1, Zenon DEF Found
<1>7. base' \in [Procs -> [active : Releases, running : Releases, db : Nat]]
  BY <1>1, <1>4, <1>6, Zenon
<1> QED
  BY <1>1, <1>2, <1>3, <1>5, <1>7, Zenon DEF BasesOK

(* A step of p leaves alone what the other runs found and how they stand.  *)
LEMMA OthersKeep ==
  ASSUME SagaInv, RevisionsOK, BasesOK, NEW p \in Procs, NEW q \in Procs, q # p, Step(p) \/ Die(p)
  PROVE  /\ base'[q] = base[q] /\ prevRev'[q] = prevRev[q]
         /\ failed'[q] = failed[q] /\ result'[q] = result[q]
<1>1. base' = base \/ base' = [base EXCEPT ![p] = Found(active, running, db)]
  BY ZenonT(30) DEF Step, Die, ReadPrior, TakeLock, Engine, WriteLedger, LedgerLost, RunPreflight,
         RunHealth, RunVerify, Inert, RunFetch, RunMigrate, RunActivate, RunRestart, InertUndo,
         UndoMigrate, Reactivate, ReactivateFails, RestartPrior, ownVars
<1>2. prevRev' = prevRev \/ prevRev' = [prevRev EXCEPT ![p] = db]
  BY ZenonT(30) DEF Step, Die, ReadPrior, TakeLock, Engine, WriteLedger, LedgerLost, RunPreflight,
         RunHealth, RunVerify, Inert, RunFetch, RunMigrate, RunActivate, RunRestart, InertUndo,
         UndoMigrate, Reactivate, ReactivateFails, RestartPrior, ownVars, localVars
<1>3. failed'[q] = failed[q] /\ result'[q] = result[q]
  <2>1. CASE UNCHANGED vars
    BY <2>1, Zenon DEF vars, runVars
  <2>2. CASE Run(p) \/ Crash(p)
    <3>1. TypeOK
      BY Zenon DEF SagaInv
    <3> QED
      BY <2>2, <3>1, OthersStand, Zenon
  <2> QED
    BY <2>1, <2>2, StepIsEngine, Zenon
<1> QED
  BY <1>1, <1>2, <1>3, ZenonT(30) DEF BasesOK, RevisionsOK

(* What a step of p does to p's own records: it reads the ledger once,     *)
(* before anything else, and is under way in every other step.             *)
LEMMA OwnStage ==
  ASSUME SagaInv, AroundOK, LiveInv, Entered, NEW p \in Procs, Step(p) \/ Die(p)
  PROVE  \/ ReadPrior(p) /\ pc[p] = "ready" /\ stage'[p] = "saga"
         \/ stage[p] = "saga" /\ prior' = prior /\ Underway(p) /\ alone' = alone
<1>1. pc[p] # "returned" => stage[p] \notin {"recorded", "unrecorded"}
  BY Zenon DEF LiveInv, Entered
<1>2. CASE ReadPrior(p)
  <2>1. stage[p] = "start" /\ stage' = [stage EXCEPT ![p] = "saga"]
    BY <1>2, Zenon DEF ReadPrior
  <2> QED
    BY <1>2, <2>1, Zenon DEF AroundOK, Entered
<1>3. CASE ~ReadPrior(p)
  <2>1. prior' = prior /\ alone' = alone
    BY <1>3, ZenonT(30) DEF Step, Die, TakeLock, Engine, WriteLedger, LedgerLost, RunPreflight,
           RunHealth, RunVerify, Inert, RunFetch, RunMigrate, RunActivate, RunRestart, InertUndo,
           UndoMigrate, Reactivate, ReactivateFails, RestartPrior, ownVars, localVars
  <2>2. stage[p] = "saga" \/ pc[p] \in {"forward", "compensate"}
    BY <1>3, ZenonT(30) DEF Step, Die, TakeLock, Engine, WriteLedger, LedgerLost, RunPreflight,
           RunHealth, RunVerify, Inert, RunFetch, RunMigrate, RunActivate, RunRestart, InertUndo,
           UndoMigrate, Reactivate, ReactivateFails, RestartPrior, At, Undoing
  <2>3. stage[p] = "saga"
    <3>1. stage[p] \in {"start", "saga", "recorded", "unrecorded"}
      BY ZenonT(30) DEF AroundOK
    <3> QED
      BY <1>1, <2>2, <3>1, Zenon DEF Entered
  <2>4. pc[p] # "dead" /\ (pc[p] = "returned" => result[p] = "Committed")
    BY <1>3, ZenonT(30) DEF Step, Die, TakeLock, Engine, WriteLedger, LedgerLost, RunPreflight,
           RunHealth, RunVerify, Inert, RunFetch, RunMigrate, RunActivate, RunRestart, InertUndo,
           UndoMigrate, Reactivate, ReactivateFails, RestartPrior, At, Undoing, AcquireLock, Locked,
           AcquireFails, RecordEvent, RecordState, StoreFails, ReleaseLock, ReleaseFails, Crash
  <2> QED
    BY <2>1, <2>3, <2>4, ZenonT(30) DEF Underway, Started, Over
<1> QED
  BY <1>2, <1>3, Zenon

(* Every step keeps the order around the saga.                             *)
LEMMA EnteredInv ==
  ASSUME SagaInv, AroundOK, RevisionsOK, LiveInv, Entered, NEW p \in Procs, Step(p) \/ Die(p)
  PROVE  Entered'
<1>1. ASSUME NEW q \in Procs, q # p
      PROVE  /\ stage'[q] = "start" => pc'[q] = "ready"
             /\ stage'[q] = "unrecorded" => pc'[q] = "returned" /\ result'[q] = "Committed"
  <2>1. result'[q] = result[q]
    <3>1. CASE UNCHANGED vars
      BY <3>1, Zenon DEF vars, runVars
    <3>2. CASE Run(p) \/ Crash(p)
      <4>1. TypeOK
        BY Zenon DEF SagaInv
      <4> QED
        BY <1>1, <3>2, <4>1, OthersStand, Zenon
    <3> QED
      BY <3>1, <3>2, StepIsEngine, Zenon
  <2>2. stage'[q] = stage[q] /\ pc'[q] = pc[q]
    BY <1>1, OtherRecords, Zenon
  <2> QED
    BY <2>1, <2>2, Zenon DEF Entered
<1>2. /\ stage'[p] = "start" => pc'[p] = "ready"
      /\ stage'[p] = "unrecorded" => pc'[p] = "returned" /\ result'[p] = "Committed"
  <2>1. CASE stage'[p] = "saga"
    BY <2>1, Zenon
  <2>2. CASE stage[p] = "saga" /\ stage'[p] # "saga"
    <3>1. WriteLedger(p) \/ LedgerLost(p)
      BY <2>2, ZenonT(30) DEF Step, Die, ReadPrior, TakeLock, Engine, RunPreflight,
             RunHealth, RunVerify, Inert, RunFetch, RunMigrate, RunActivate, RunRestart, InertUndo,
             UndoMigrate, Reactivate, ReactivateFails, RestartPrior, ownVars
    <3>2. stage'[p] \in {"recorded", "unrecorded"}
      BY <3>1, Zenon DEF WriteLedger, LedgerLost, AroundOK
    <3>3. pc'[p] = "returned" /\ result'[p] = "Committed"
      BY <3>1, Zenon DEF WriteLedger, LedgerLost, vars, runVars
    <3> QED
      BY <3>2, <3>3, ZenonT(30)
  <2> QED
    BY <2>1, <2>2, OwnStage, Zenon
<1> QED
  BY <1>1, <1>2, Zenon DEF Entered

(* A step that succeeds leaves the run what it needs to go back.           *)
LEMMA ForwardKeeps ==
  ASSUME SagaInv, RevisionsOK, BasesOK, NEW p \in Procs, Baseline(p), Step(p), Forward(p)
  PROVE  Baseline(p)'
<1> USE DEF Preflight, Fetch, Migrate, Activate, Restart, Health, Verify
<1>a. /\ to[p].tag = "Running" /\ to[p].step \in 1 .. 7
      /\ to[p].step = 7 => to'[p].tag = "Committed"
      /\ to[p].step # 7 => to'[p].tag = "Running" /\ to'[p].step = to[p].step + 1
  BY ForwardEnters, StepsAssumption, Zenon
<1>b. Keeps(p) /\ (ownsDatabase = FALSE => db = base[p].db) /\ ownsDatabase' = ownsDatabase
  BY <1>a, SetupStays, Zenon DEF Baseline
<1>c. prevRev \in [Procs -> Nat]
  BY Zenon DEF RevisionsOK
<1>d. ASSUME Keeps(p)' \/ to'[p].tag = "Committed", db' = db \/ ownsDatabase # FALSE, base' = base
      PROVE  Baseline(p)'
  BY <1>a, <1>b, <1>d, Zenon DEF Baseline
<1>1. CASE UNCHANGED <<hostVars, base, prevRev>> /\ to[p].step \in {1, 2, 6, 7}
  <2>1. UNCHANGED <<active, running, db, base, prevRev>>
    BY <1>1, Zenon DEF hostVars
  <2>2. Keeps(p)' \/ to'[p].tag = "Committed"
    BY <1>a, <1>b, <1>1, <2>1 DEF Keeps
  <2> QED
    BY <1>d, <2>1, <2>2, Zenon
<1>2. CASE RunMigrate(p)
  <2>1. /\ to[p].step = 3 /\ prevRev' = [prevRev EXCEPT ![p] = db] /\ db' = MigrateTarget(p)
        /\ UNCHANGED <<active, running, base>>
    <3>1. ~ForwardFails(p)
      <4>1. TypeOK /\ failed[p] \in 0 .. N
        BY Zenon DEF SagaInv, TypeOK
      <4>2. failed[p] = 0
        BY <1>a, ZenonT(30) DEF SagaInv, RunInv
      <4>3. ForwardFails(p) => failed'[p] = to[p].step
        BY ForwardFailsEnters, Zenon
      <4>4. failed'[p] = failed[p]
        BY ForwardEnters, Zenon
      <4> QED
        BY <1>a, <4>2, <4>3, <4>4, SMTT(30)
    <3> QED
      BY <1>2, <3>1, Zenon DEF RunMigrate, At
  <2>2. prevRev'[p] = db
    BY <1>c, <2>1, ZenonT(30)
  <2>3. Keeps(p)'
    BY <1>a, <1>b, <2>1, <2>2 DEF Keeps
  <2>4. db' = db \/ ownsDatabase # FALSE
    BY <2>1, Zenon DEF MigrateTarget
  <2> QED
    BY <1>d, <2>1, <2>3, <2>4, Zenon
<1>3. CASE RunActivate(p)
  <2>1. to[p].step = 4 /\ UNCHANGED <<running, db, base, prevRev>>
    BY <1>3, ZenonT(30) DEF RunActivate, At, ownVars, localVars
  <2>2. Keeps(p)'
    BY <1>a, <1>b, <2>1 DEF Keeps
  <2> QED
    BY <1>d, <2>1, <2>2, Zenon
<1>4. CASE RunRestart(p)
  <2>1. to[p].step = 5 /\ UNCHANGED <<active, db, base, prevRev>>
    BY <1>4, Zenon DEF RunRestart, At, ownVars, localVars
  <2>2. Keeps(p)'
    BY <1>a, <1>b, <2>1 DEF Keeps
  <2> QED
    BY <1>d, <2>1, <2>2, Zenon
<1>5. \/ UNCHANGED <<hostVars, base, prevRev>> /\ to[p].step \in {1, 2, 6, 7}
      \/ RunMigrate(p) \/ RunActivate(p) \/ RunRestart(p)
  <2>1. RunPreflight(p) \/ RunHealth(p) \/ RunVerify(p) \/ RunFetch(p) \/ RunMigrate(p) \/ RunActivate(p) \/ RunRestart(p)
    <3>1. pc[p] = "forward" /\ pc'[p] = "event"
      BY ForwardEnters, Zenon
    <3> QED
      BY <3>1, ZenonT(30) DEF Step, ReadPrior, TakeLock, Engine, WriteLedger, LedgerLost, InertUndo,
             UndoMigrate, Reactivate, ReactivateFails, RestartPrior, Undoing, AcquireLock, Locked,
             AcquireFails, RecordEvent, RecordState, StoreFails, ReleaseLock, ReleaseFails,
                vars, runVars
  <2> QED
    BY <2>1, ZenonT(30)
    DEF RunPreflight, RunHealth, RunVerify, Inert, RunFetch, At, ownVars, localVars
<1> QED
  BY <1>1, <1>2, <1>3, <1>4, <1>5, Zenon

(* A step that fails: what is back already is what the run found.          *)
LEMMA ForwardFailsKeeps ==
  ASSUME SagaInv, RevisionsOK, BasesOK, NEW p \in Procs, Baseline(p), repointed[p] = FALSE,
         to[p].step > Fetch => staged[p] = p, Step(p), ForwardFails(p)
  PROVE  Baseline(p)'
<1> USE DEF Preflight, Fetch, Migrate, Activate, Restart, Health, Verify
<1>a. /\ to[p].tag = "Running" /\ to[p].step \in 1 .. 7 /\ failed'[p] = to[p].step
      /\ to[p].step = 1 => to'[p].tag = "RolledBack"
      /\ to[p].step # 1 => to'[p].tag = "Compensating" /\ to'[p].step = to[p].step - 1
  BY ForwardFailsEnters, StepsAssumption, Zenon
<1>b. Keeps(p) /\ (ownsDatabase = FALSE => db = base[p].db) /\ ownsDatabase' = ownsDatabase
  BY <1>a, SetupStays, Zenon DEF Baseline
<1>d. ASSUME to[p].step = 1 => Restored(p)', to[p].step # 1 => Returning(p)',
             db' = db \/ ownsDatabase # FALSE, base' = base
      PROVE  Baseline(p)'
  BY <1>a, <1>b, <1>d, Zenon DEF Baseline
<1>1. CASE UNCHANGED <<hostVars, base, prevRev, repointed>> /\ to[p].step # Migrate
  <2>1. UNCHANGED <<active, running, db, base, prevRev, repointed>>
    BY <1>1, ZenonT(30) DEF hostVars
  <2>2. to[p].step = 1 => Restored(p)'
    BY <1>a, <1>b, <2>1, SMTT(30) DEF Keeps, Restored, ReleaseBack
  <2>3. to[p].step # 1 => Returning(p)'
    BY <1>a, <1>b, <1>1, <2>1 DEF Keeps, Returning, ReleaseBack
  <2> QED
    BY <1>d, <2>1, <2>2, <2>3, Zenon
<1>2. CASE RunMigrate(p)
  <2>1. to[p].step = 3 /\ UNCHANGED <<active, running, base>>
    BY <1>2, ZenonT(30) DEF RunMigrate, At
  <2>2. Returning(p)'
    BY <1>a, <1>b, <2>1 DEF Keeps, Returning, ReleaseBack
  <2>3. db' = db \/ ownsDatabase # FALSE
    <3>1. ownsDatabase = FALSE => MigrateTarget(p) = db
      BY Zenon DEF MigrateTarget
    <3>2. db' \in HalfWay(db, MigrateTarget(p)) \/ db' = db \/ db' = MigrateTarget(p)
      BY <1>2, Zenon DEF RunMigrate
    <3>3. db \in Nat
      BY Zenon DEF RevisionsOK
    <3>4. db' \in HalfWay(db, db) => db' = db
      BY <3>3 DEF HalfWay
    <3> QED
      BY <3>1, <3>2, <3>4, Zenon
  <2>4. to[p].step # 1
    BY <2>1
  <2> QED
    BY <1>d, <2>1, <2>2, <2>3, <2>4, Zenon
<1>3. CASE RunRestart(p)
  <2>1. to[p].step = 5 /\ UNCHANGED <<active, db, base, prevRev, repointed>>
    BY <1>3, Zenon DEF RunRestart, At, ownVars, localVars
  <2>2. Returning(p)'
    BY <1>a, <1>b, <2>1 DEF Keeps, Returning, ReleaseBack
  <2>3. to[p].step # 1
    BY <2>1
  <2> QED
    BY <1>d, <2>1, <2>2, <2>3, Zenon
<1>4. CASE RunActivate(p)
  <2>1. /\ to[p].step = 4 /\ UNCHANGED <<running, db, base, prevRev, repointed>>
        /\ active' \in {active, staged[p]}
    BY <1>4, ZenonT(30) DEF RunActivate, At, ownVars, localVars
  <2>2. Returning(p)'
    BY <1>a, <1>b, <2>1, SMTT(30) DEF Keeps, Returning, ReleaseBack
  <2>3. to[p].step # 1
    BY <2>1
  <2> QED
    BY <1>d, <2>1, <2>2, <2>3, Zenon
<1>5. \/ UNCHANGED <<hostVars, base, prevRev, repointed>> /\ to[p].step # Migrate
      \/ RunMigrate(p) \/ RunActivate(p) \/ RunRestart(p)
  <2>1. RunPreflight(p) \/ RunHealth(p) \/ RunVerify(p) \/ RunFetch(p) \/ RunMigrate(p) \/ RunActivate(p) \/ RunRestart(p)
    <3>1. pc[p] = "forward" /\ pc'[p] = "event"
      BY ForwardFailsEnters, ZenonT(30)
    <3> QED
      BY <3>1, ZenonT(30) DEF Step, ReadPrior, TakeLock, Engine, WriteLedger, LedgerLost, InertUndo,
             UndoMigrate, Reactivate, ReactivateFails, RestartPrior, Undoing, AcquireLock, Locked,
             AcquireFails, RecordEvent, RecordState, StoreFails, ReleaseLock, ReleaseFails,
                vars, runVars
  <2>2. ~Forward(p)
    <3>1. failed[p] = 0
      BY <1>a, ZenonT(30) DEF SagaInv, RunInv
    <3>2. Forward(p) => failed'[p] = failed[p]
      BY ForwardEnters, ZenonT(30)
    <3> QED
      BY <1>a, <3>1, <3>2, SMTT(30)
  <2>3. CASE RunPreflight(p) \/ RunHealth(p) \/ RunVerify(p) \/ RunFetch(p)
    <3>1. to[p].step \in {1, 2, 6, 7}
      BY <2>3, Zenon DEF RunPreflight, RunHealth, RunVerify, Inert, RunFetch, At
    <3>2. UNCHANGED <<hostVars, base, prevRev, repointed>>
      BY <2>2, <2>3, Zenon DEF RunPreflight, RunHealth, RunVerify, Inert, RunFetch,
             ownVars, localVars, hostVars
    <3> QED
      BY <3>1, <3>2
  <2> QED
    BY <2>1, <2>3, ZenonT(30)
<1> QED
  BY <1>1, <1>2, <1>3, <1>4, <1>5, Zenon

(* A compensation brings the run one step closer to what it found.         *)
LEMMA BackwardKeeps ==
  ASSUME SagaInv, AroundOK, RevisionsOK, BasesOK, NEW p \in Procs, Baseline(p), Step(p),
         pc[p] = "compensate", pc'[p] # "compensate" \/ Reactivate(p)
  PROVE  Baseline(p)'
<1> USE DEF Preflight, Fetch, Migrate, Activate, Restart, Health, Verify
<1>a. /\ to[p].tag = "Compensating" /\ to[p].step \in 1 .. 7 /\ failed[p] > to[p].step
      /\ failed[p] \in 0 .. 7
  BY StepsAssumption, ZenonT(30) DEF SagaInv, RunInv, Bounds, Steps, TypeOK
<1>b. Returning(p) /\ (ownsDatabase = FALSE => db = base[p].db) /\ ownsDatabase' = ownsDatabase
  BY <1>a, SetupStays, Zenon DEF Baseline
<1>c. Compensate(p) => /\ failed'[p] = failed[p]
                       /\ to[p].step = 1 => to'[p].tag = "RolledBack"
                       /\ to[p].step # 1 => to'[p].tag = "Compensating" /\ to'[p].step = to[p].step - 1
  BY CompensateEnters, Zenon
<1>e. CompensateFails(p) => to'[p].tag = "PartialRollback"
  BY CompensateFailsEnters, Zenon
<1>f. ownsDatabase \in BOOLEAN
  BY Zenon DEF RevisionsOK
<1>1. CASE CompensateFails(p)
  <2>1. (db' = db \/ ownsDatabase # FALSE) /\ base' = base
    <3>1. InertUndo(p) \/ UndoMigrate(p) \/ Reactivate(p) \/ ReactivateFails(p) \/ RestartPrior(p)
      BY ZenonT(30) DEF Step, ReadPrior, TakeLock, Engine, WriteLedger, LedgerLost, RunPreflight,
             RunHealth, RunVerify, Inert, RunFetch, RunMigrate, RunActivate, RunRestart, At,
             AcquireLock, Locked, AcquireFails, RecordEvent, RecordState, StoreFails, ReleaseLock,
             ReleaseFails, vars, runVars
    <3> QED
      BY <3>1, ZenonT(30)
      DEF InertUndo, UndoMigrate, Reactivate, ReactivateFails, RestartPrior, ownVars, hostVars
  <2> QED
    BY <1>b, <1>e, <1>1, <2>1, Zenon DEF Baseline
<1>2. CASE InertUndo(p)
  <2>1. /\ Compensate(p) /\ to[p].step \in {1, 2, 5, 6, 7}
        /\ UNCHANGED <<active, running, db, base, prevRev, prior, repointed>>
    BY <1>2, ZenonT(30) DEF InertUndo, Undoing, ownVars, localVars, hostVars
  <2>2. to[p].step = 1 => Restored(p)'
    BY <1>a, <1>b, <1>c, <2>1, SMTT(30) DEF Returning, Restored, ReleaseBack
  <2>3. to[p].step # 1 => Returning(p)'
    BY <1>a, <1>b, <1>c, <2>1 DEF Returning, ReleaseBack
  <2> QED
    BY <1>b, <1>c, <2>1, <2>2, <2>3, Zenon DEF Baseline
<1>3. CASE UndoMigrate(p) /\ Compensate(p) /\ ~CompensateFails(p)
  <2>1. /\ to[p].step = 3 /\ UNCHANGED <<active, running, base, prevRev, prior, repointed>>
        /\ db' = IF ownsDatabase THEN prevRev[p] ELSE db
    BY <1>3, Zenon DEF UndoMigrate, Undoing, ownVars, localVars
  <2>2. db' = base[p].db
    <3>1. prevRev[p] = base[p].db
      BY <1>b, <2>1, SMTT(30) DEF Returning
    <3> QED
      BY <1>b, <1>f, <2>1, <3>1, ZenonT(30)
  <2>3. to'[p].tag = "Compensating" /\ to'[p].step = 2 /\ failed'[p] = failed[p]
    BY <1>c, <1>3, <2>1, SMTT(30)
  <2>4. Returning(p)'
    BY <1>a, <1>b, <2>1, <2>2, <2>3 DEF Returning, ReleaseBack
  <2> QED
    BY <2>1, <2>2, <2>3, <2>4, Zenon DEF Baseline
<1>4. CASE Reactivate(p)
  <2>1. /\ to[p].step = 4 /\ active' = prior[p].active /\ UNCHANGED <<vars, running, db, base, prevRev, prior>>
    BY <1>4, Zenon DEF Reactivate, Undoing, localVars
  <2>2. UNCHANGED <<to, failed>>
    BY <2>1, ZenonT(30) DEF vars, runVars
  <2>3. Returning(p)'
    BY <1>a, <1>b, <2>1, <2>2 DEF Returning
  <2> QED
    BY <1>a, <1>b, <2>1, <2>2, <2>3, Zenon DEF Baseline
<1>5. CASE RestartPrior(p) /\ Compensate(p) /\ ~CompensateFails(p)
  <2>1. /\ to[p].step = 4 /\ repointed[p] /\ UNCHANGED <<active, db, base, prevRev, prior, repointed>>
        /\ running' = active
    BY <1>5, ZenonT(30) DEF RestartPrior, Undoing, ownVars, localVars
  <2>2. active = prior[p].active /\ prevRev[p] = base[p].db
    BY <1>b, <2>1, SMTT(30) DEF Returning
  <2>3. to'[p].tag = "Compensating" /\ to'[p].step = 3 /\ failed'[p] = failed[p]
    BY <1>c, <1>5, <2>1, SMTT(30)
  <2>4. Returning(p)'
    BY <1>a, <2>1, <2>2, <2>3, SMTT(30) DEF Returning, ReleaseBack
  <2> QED
    BY <1>b, <2>1, <2>3, <2>4, Zenon DEF Baseline
<1>6. \/ CompensateFails(p) \/ InertUndo(p) \/ Reactivate(p)
      \/ UndoMigrate(p) /\ Compensate(p) /\ ~CompensateFails(p)
      \/ RestartPrior(p) /\ Compensate(p) /\ ~CompensateFails(p)
  BY ZenonT(30) DEF Step, ReadPrior, TakeLock, Engine, WriteLedger, LedgerLost, RunPreflight,
         RunHealth, RunVerify, Inert, RunFetch, RunMigrate, RunActivate, RunRestart, At,
            UndoMigrate,
         ReactivateFails, RestartPrior, AcquireLock, Locked, AcquireFails, RecordEvent, RecordState,
         StoreFails, ReleaseLock, ReleaseFails, vars, runVars
<1> QED
  BY <1>1, <1>2, <1>3, <1>4, <1>5, <1>6, ZenonT(30)

(* A run's own step keeps what it relies on to go back.                    *)
LEMMA OwnBaseline ==
  ASSUME SagaInv, HostInv, LiveInv, BaseInv, NEW p \in Procs, Step(p) \/ Die(p), InFlight(p)'
  PROVE  Baseline(p)'
<1>a. TypeOK /\ RunInv(p) /\ RevisionsOK /\ AroundOK /\ BasesOK /\ Entered /\ (InFlight(p) => Baseline(p))
  BY Zenon DEF SagaInv, HostInv, LiveInv, BaseInv
<1>1. CASE Die(p)
  BY <1>1, <1>a, Zenon DEF Die, Crash, TypeOK, InFlight
<1>2. CASE Step(p) /\ Forward(p)
  <2>1. InFlight(p)
    BY <1>2, Zenon DEF Forward, InFlight
  <2> QED
    BY <1>2, <1>a, <2>1, ForwardKeeps, Zenon
<1>3. CASE Step(p) /\ ForwardFails(p)
  <2>1. InFlight(p) /\ pc[p] = "forward" /\ to[p].tag = "Running"
    BY <1>3, <1>a, Zenon DEF ForwardFails, RunInv, InFlight
  <2>2. repointed[p] \in BOOLEAN
    BY <1>a, Zenon DEF AroundOK
  <2>3. repointed[p] = FALSE
    BY <2>1, <2>2, Zenon DEF LiveInv, Placed
  <2>4. to[p].step > Fetch => staged[p] = p
    BY <2>1, Zenon DEF HostInv, DoneBefore
  <2> QED
    BY <1>3, <1>a, <2>1, <2>3, <2>4, ForwardFailsKeeps, Zenon
<1>4. CASE Step(p) /\ (Compensate(p) \/ CompensateFails(p))
  <2>1. InFlight(p) /\ pc[p] = "compensate"
    BY <1>4, Zenon DEF Compensate, CompensateFails, InFlight
  <2>2. pc'[p] = "event"
    BY <1>4, CompensateEnters, CompensateFailsEnters, Zenon
  <2> QED
    BY <1>4, <1>a, <2>1, <2>2, BackwardKeeps, Zenon
<1>5. CASE Reactivate(p)
  <2>1. InFlight(p) /\ pc[p] = "compensate"
    BY <1>5, Zenon DEF Reactivate, Undoing, InFlight
  <2>2. Step(p)
    BY <1>5, Zenon DEF Step
  <2> QED
    BY <1>5, <1>a, <2>1, <2>2, BackwardKeeps, Zenon
<1>6. CASE TakeLock(p)
  <2>1. to'[p] = AfterForward(0) /\ 0 # N
    BY <1>6, <1>a, StepsAssumption, SMTT(30) DEF TakeLock, AcquireLock, Enter, TypeOK
  <2>2. to'[p].tag = "Running" /\ to'[p].step = 1
    BY <2>1, AfterIs
  <2>3. base'[p] = Found(active, running, db) /\ UNCHANGED <<active, running, db>>
    BY <1>6, <1>a, Zenon DEF TakeLock, BasesOK, hostVars
  <2>4. base'[p].active = active /\ base'[p].running = running /\ base'[p].db = db
    BY <2>3, SMTT(30) DEF Found
  <2>5. Keeps(p)'
    BY <2>2, <2>3, <2>4 DEF Keeps, Migrate, Activate, Restart
  <2> QED
    BY <2>2, <2>3, <2>4, <2>5, ZenonT(30) DEF Baseline
<1>7. CASE Engine(p)
  <2>1. UNCHANGED <<active, running, db, base, prevRev, prior, repointed, ownsDatabase, to, failed>>
    BY <1>7, Zenon DEF Engine, ownVars, setupVars, localVars, hostVars, Locked, AcquireFails,
           RecordEvent, RecordState, StoreFails, ReleaseLock, ReleaseFails
  <2>2. InFlight(p)
    BY <1>7, <1>a, Zenon DEF Engine, InFlight, Locked, AcquireFails, RecordEvent,
           RecordState, StoreFails, ReleaseLock, ReleaseFails, TypeOK
  <2> QED
    BY <1>a, <2>1, <2>2, ZenonT(30) DEF Baseline, Keeps, Returning, Restored, ReleaseBack
<1>8. CASE ReadPrior(p) \/ WriteLedger(p) \/ LedgerLost(p)
  <2>1. UNCHANGED pc /\ pc[p] \in {"ready", "returned"}
    BY <1>8, <1>a, ZenonT(30) DEF ReadPrior, WriteLedger, LedgerLost, vars, runVars, Entered
  <2> QED
    BY <2>1, Zenon DEF InFlight
<1>9. \/ Die(p) \/ TakeLock(p) \/ Engine(p) \/ ReadPrior(p) \/ WriteLedger(p) \/ LedgerLost(p) \/ Reactivate(p)
      \/ Step(p) /\ (Forward(p) \/ ForwardFails(p) \/ Compensate(p) \/ CompensateFails(p))
  BY Zenon DEF Step, RunPreflight, RunHealth, RunVerify, Inert, RunFetch, RunMigrate,
         RunActivate, RunRestart, InertUndo, UndoMigrate, ReactivateFails, RestartPrior
<1> QED
  BY <1>1, <1>2, <1>3, <1>4, <1>5, <1>6, <1>7, <1>8, <1>9, ZenonT(30)

(* A step of another run is none of the run in flight's business.          *)
LEMMA OtherBaseline ==
  ASSUME SagaInv, HostInv, LiveInv, BaseInv, NEW p \in Procs, NEW q \in Procs, q # p,
         Step(p) \/ Die(p), InFlight(q)'
  PROVE  Baseline(q)'
<1>a. RevisionsOK /\ AroundOK /\ BasesOK
  BY Zenon DEF HostInv, LiveInv, BaseInv
<1>1. /\ prior'[q] = prior[q] /\ repointed'[q] = repointed[q] /\ to'[q] = to[q] /\ pc'[q] = pc[q]
      /\ base'[q] = base[q] /\ prevRev'[q] = prevRev[q] /\ failed'[q] = failed[q]
      /\ ownsDatabase' = ownsDatabase
  BY <1>a, OtherRecords, OthersKeep, SetupStays, Zenon
<1>2. InFlight(q)
  BY <1>1, Zenon DEF InFlight
<1>3. ~InFlight(p)
  BY <1>2, ZenonT(30) DEF SagaInv, RunInv
<1>4. UNCHANGED <<active, running, db>>
  BY <1>a, <1>3, HostChanges, Zenon DEF InFlight, hostVars
<1>5. Baseline(q)
  BY <1>2, Zenon DEF BaseInv
<1> QED
  BY <1>1, <1>4, <1>5, ZenonT(30) DEF Baseline, Keeps, Returning, Restored, ReleaseBack

(* What a journal that says RolledBack claims stays so until the next run  *)
(* journals its first step.                                                *)
LEMMA JournalRestored ==
  ASSUME SagaInv, HostInv, LiveInv, BaseInv, NEW p \in Procs, Step(p) \/ Die(p),
         curState'.tag = "RolledBack"
  PROVE  Restored(author)'
<1>a. RevisionsOK /\ AroundOK /\ BasesOK /\ Entered
  BY Zenon DEF HostInv, LiveInv, BaseInv
<1>1. UNCHANGED <<active, running, db>>
  BY <1>a, HostChanges, Zenon DEF hostVars
<1>2. CASE Engine(p) /\ RecordState(p)
  <2>1. curState' = to[p] /\ author' = p /\ pc[p] = "state"
    BY <1>2, Zenon DEF RecordState
  <2>2. Restored(p)
    BY <2>1, Zenon DEF BaseInv, InFlight, Baseline
  <2>3. UNCHANGED <<prior, base, failed>>
    BY <1>2, Zenon DEF Engine, ownVars, localVars, RecordState
  <2> QED
    BY <1>1, <2>1, <2>2, <2>3, Zenon DEF Restored, ReleaseBack
<1>3. CASE UNCHANGED <<curState, author>>
  <2>1. Restored(author) /\ author \in Procs
    <3>1. Restored(author)
      BY <1>3, Zenon DEF BaseInv
    <3>2. author # NoProc
      BY <1>3, Zenon DEF SagaInv
    <3> QED
      BY <3>1, <3>2, Zenon DEF SagaInv, TypeOK
  <2>2. prior'[author] = prior[author] /\ base'[author] = base[author] /\ failed'[author] = failed[author]
    <3>1. CASE author # p
      BY <1>a, <2>1, <3>1, OtherRecords, OthersKeep, Zenon
    <3>2. CASE author = p
      <4>1. pc[p] # "ready" /\ stage[p] # "start"
        BY <1>a, <3>2, Zenon DEF SagaInv, Journalled, Entered
      <4>2. pc[p] # "forward"
        <5>1. Journalled(p) /\ RunInv(p)
          BY ZenonT(30) DEF SagaInv
        <5> QED
          BY <1>3, <5>1, Zenon DEF Journalled, RunInv
      <4>3. UNCHANGED <<prior, base>>
        BY <4>1, ZenonT(30)
        DEF Step, Die, ReadPrior, TakeLock, Engine, WriteLedger, LedgerLost, RunPreflight,
               RunHealth, RunVerify, Inert, RunFetch, RunMigrate, RunActivate, RunRestart,
                  InertUndo,
               UndoMigrate, Reactivate, ReactivateFails, RestartPrior, ownVars, localVars,
                  AcquireLock
      <4>4. failed' = failed
        BY <4>2, StepIsEngine, ZenonT(30)
           DEF Run, AcquireLock, Locked, AcquireFails, RecordEvent, RecordState, StoreFails,
              Forward,
               ForwardFails, Compensate, CompensateFails, ReleaseLock, ReleaseFails, Crash,
                  vars, runVars
      <4> QED
        BY <4>3, <4>4, Zenon
    <3> QED
      BY <3>1, <3>2, Zenon
  <2> QED
    BY <1>1, <1>3, <2>1, <2>2, Zenon DEF Restored, ReleaseBack
<1>4. UNCHANGED <<curState, author>> \/ (Engine(p) /\ RecordState(p))
  BY ZenonT(30) DEF Step, Die, ReadPrior, TakeLock, Engine, WriteLedger, LedgerLost, RunPreflight,
         RunHealth, RunVerify, Inert, RunFetch, RunMigrate, RunActivate, RunRestart, InertUndo,
         UndoMigrate, Reactivate, ReactivateFails, RestartPrior, AcquireLock, Locked, AcquireFails,
         RecordEvent, StoreFails, Forward, ForwardFails, Compensate, CompensateFails,
         ReleaseLock, ReleaseFails, Crash, storeVars, vars
<1> QED
  BY <1>2, <1>3, <1>4, Zenon

(* A run in flight can go back to what it found, and a rolled-back run has *)
(* (single_host.rs, undo_activate, undo_migrate): the release of the       *)
(* record it read, the revision it found.                                  *)
THEOREM BaselineIsReachable == SHSpec => []BaseInv
<1>1. SagaInv /\ HostInv /\ LiveInv /\ BaseInv /\ [SHNext]_shVars => BaseInv'
  <2> SUFFICES ASSUME SagaInv, HostInv, LiveInv, BaseInv, [SHNext]_shVars PROVE BaseInv'
    BY Zenon
  <2>1. CASE UNCHANGED shVars
    <3>1. UNCHANGED <<vars, setupVars, stage, localVars, repointed, ledger, base, alone, hostVars>>
      BY <2>1, Zenon DEF shVars, ownVars
    <3>2. UNCHANGED <<pc, to, failed, result, curState, author, ownsDatabase, stage, prior, prevRev,
                      repointed, base, alone, active, running, db>>
      BY <3>1, Zenon DEF vars, runVars, storeVars, setupVars, localVars, hostVars
    <3> QED
      BY <3>2, ZenonT(30) DEF BaseInv, BasesOK, Entered, InFlight, Baseline, Keeps, Returning,
             Restored, ReleaseBack
  <2>2. ASSUME NEW p \in Procs, Step(p) \/ Die(p) PROVE BaseInv'
    <3>a. RevisionsOK /\ AroundOK /\ BasesOK /\ Entered
      BY Zenon DEF HostInv, LiveInv, BaseInv
    <3>1. BasesOK' /\ Entered'
      BY <2>2, <3>a, BasesInv, EnteredInv, Zenon
    <3>2. \A q \in Procs : InFlight(q)' => Baseline(q)'
      BY <2>2, OwnBaseline, OtherBaseline, Zenon
    <3>3. curState'.tag = "RolledBack" => Restored(author)'
      BY <2>2, JournalRestored, Zenon
    <3> QED
      BY <3>1, <3>2, <3>3, Zenon DEF BaseInv
  <2> QED
    BY <2>1, <2>2, Zenon DEF SHNext, AllOver
<1>2. SHInit => BaseInv
  BY BaseInit, Zenon
<1> QED
  BY <1>1, <1>2, LiveFollowsRecords, HostFollowsRun, EngineInv, PTL DEF SHSpec

-----------------------------------------------------------------------------
(* What the service may run.                                               *)

(* Where a run whose release is served can be.                             *)
Serving(p) ==
    /\ to[p].tag \notin {"Idle", "RolledBack"}
    /\ to[p].tag = "Running" => to[p].step > Activate
    /\ to[p].tag = "Compensating" => to[p].step >= Activate

ServedInv ==
    \A p \in Procs :
        running = p => pc[p] = "dead" \/ to[p].tag = "Committed" \/ Serving(p)

(* A restart brings up the release of its own run, or the recorded one it  *)
(* went back to.                                                           *)
LEMMA RestartsOwn ==
  ASSUME SagaInv, HostInv, LiveInv, BaseInv, NEW p \in Procs, Step(p) \/ Die(p)
  PROVE  \/ running' \in {running, NoRelease} \cup (Recorded \ {p})
         \/ running' = p /\ to[p].tag = "Running" /\ to[p].step = Restart
<1>a. RunInv(p)
  BY Zenon DEF SagaInv
<1>1. CASE At(p, Restart) /\ running' = active
  <2>1. pc[p] = "forward" /\ to[p].tag = "Running" /\ to[p].step = Restart /\ InFlight(p)
    BY <1>1, <1>a, Zenon DEF At, RunInv, InFlight
  <2>2. DoneBefore(p, Restart)
    BY <2>1, Zenon DEF HostInv
  <2>3. active = p
    BY <2>2 DEF DoneBefore, Restart, Activate
  <2> QED
    BY <1>1, <2>1, <2>3, Zenon
<1>2. CASE Undoing(p, Activate) /\ repointed[p] /\ running' = active
  <2>1. pc[p] = "compensate" /\ to[p].tag = "Compensating" /\ to[p].step = Activate /\ InFlight(p)
    BY <1>2, <1>a, Zenon DEF Undoing, RunInv, InFlight
  <2>2. Returning(p)
    BY <2>1, Zenon DEF BaseInv, Baseline
  <2>3. active = prior[p].active
    BY <1>2, <2>1, <2>2, ZenonT(30) DEF Returning
  <2> QED
    BY <1>2, <2>3, Zenon DEF LiveInv
<1>3. \/ At(p, Restart) /\ running' = active
      \/ Undoing(p, Activate) /\ repointed[p] /\ running' = active
      \/ running' \in {running, NoRelease}
  BY ZenonT(30) DEF Step, Die, ReadPrior, TakeLock, Engine, WriteLedger, LedgerLost, RunPreflight,
         RunHealth, RunVerify, Inert, RunFetch, RunMigrate, RunActivate, RunRestart, InertUndo,
         UndoMigrate, Reactivate, ReactivateFails, RestartPrior, ownVars, hostVars
<1> QED
  BY <1>1, <1>2, <1>3, Zenon

(* A run whose release is served stays where it can be.                    *)
LEMMA OwnServed ==
  ASSUME SagaInv, HostInv, LiveInv, BaseInv, ServedInv, NEW p \in Procs, Step(p) \/ Die(p),
         running' = p
  PROVE  pc'[p] = "dead" \/ to'[p].tag = "Committed" \/ Serving(p)'
<1> USE DEF Preflight, Fetch, Migrate, Activate, Restart, Health, Verify
<1>a. TypeOK /\ RunInv(p)
  BY Zenon DEF SagaInv
<1>b. \/ pc[p] = "dead" \/ to[p].tag = "Committed" \/ Serving(p)
  <2>1. p # NoRelease
    BY ReleaseAssumption, Zenon
  <2>2. running = p \/ (to[p].tag = "Running" /\ to[p].step = Restart)
    BY <2>1, RestartsOwn, Zenon
  <2> QED
    BY <2>2 DEF ServedInv, Serving
<1>1. CASE Die(p)
  BY <1>1, <1>a, ZenonT(30) DEF Die, Crash, TypeOK
<1>2. CASE Step(p) /\ Forward(p)
  <2>1. /\ to[p].tag = "Running" /\ to[p].step \in 1 .. 7 /\ pc[p] = "forward"
        /\ to[p].step = 7 => to'[p].tag = "Committed"
        /\ to[p].step # 7 => to'[p].tag = "Running" /\ to'[p].step = to[p].step + 1
    BY <1>2, ForwardEnters, StepsAssumption, Zenon
  <2>2. Serving(p)
    BY <1>b, <2>1, Zenon
  <2> QED
    BY <2>1, <2>2, SMTT(30) DEF Serving
<1>3. CASE Step(p) /\ ForwardFails(p)
  <2>1. /\ to[p].tag = "Running" /\ to[p].step \in 1 .. 7 /\ pc[p] = "forward"
        /\ to[p].step # 1 => to'[p].tag = "Compensating" /\ to'[p].step = to[p].step - 1
    BY <1>3, ForwardFailsEnters, StepsAssumption, Zenon
  <2>2. Serving(p)
    BY <1>b, <2>1, Zenon
  <2> QED
    BY <2>1, <2>2, SMTT(30) DEF Serving
<1>4. CASE Step(p) /\ Compensate(p)
  <2>1. pc[p] = "compensate"
    BY <1>4, Zenon DEF Compensate
  <2>2. /\ to[p].tag = "Compensating" /\ to[p].step \in 1 .. 7
        /\ to[p].step # 1 => to'[p].tag = "Compensating" /\ to'[p].step = to[p].step - 1
    BY <1>4, <1>a, <2>1, CompensateEnters, StepsAssumption, ZenonT(30) DEF RunInv, Bounds, Steps
  <2>3. Serving(p)
    BY <1>b, <2>1, <2>2, Zenon
  <2>4. ASSUME to[p].step = Activate PROVE FALSE
    <3>1. RestartPrior(p) \/ ReactivateFails(p) \/ Reactivate(p)
      <4>1. Undoing(p, Activate) /\ ~InertUndo(p) /\ ~UndoMigrate(p)
        BY <2>1, <2>4 DEF Undoing, InertUndo, UndoMigrate
      <4>2. pc'[p] = "event"
        BY <1>4, CompensateEnters, ZenonT(30)
      <4> QED
        BY <1>4, <2>1, <4>1, <4>2, ZenonT(30)
           DEF Step, ReadPrior, TakeLock, Engine, WriteLedger, LedgerLost, RunPreflight,
               RunHealth, RunVerify, Inert, RunFetch, RunMigrate, RunActivate, RunRestart,
               At, AcquireLock, Locked, AcquireFails, RecordEvent, RecordState, StoreFails,
               ReleaseLock, ReleaseFails, Compensate, vars, runVars
    <3>2. ~CompensateFails(p)
      BY <2>2, <2>4, CompensateFailsEnters, SMTT(30)
    <3>3. ~Reactivate(p)
      <4>1. Reactivate(p) => to' = to
        BY Zenon DEF Reactivate, vars, runVars
      <4> QED
        BY <2>2, <2>4, <4>1, SMTT(30)
    <3>4. repointed[p] /\ running' = active
      BY <3>1, <3>2, <3>3, Zenon DEF RestartPrior, ReactivateFails
    <3>5. active # p
      BY <2>1, <2>2, <3>4, Zenon DEF LiveInv, Placed
    <3> QED
      BY <3>4, <3>5, ZenonT(30)
  <2> QED
    BY <2>2, <2>3, <2>4, SMTT(30) DEF Serving
<1>5. CASE Step(p) /\ CompensateFails(p)
  <2>1. to'[p].tag = "PartialRollback"
    BY <1>5, CompensateFailsEnters, Zenon
  <2> QED
    BY <2>1, Zenon DEF Serving
<1>6. CASE TakeLock(p)
  <2>1. pc[p] = "ready" /\ to[p] = Idle
    BY <1>6, <1>a, Zenon DEF TakeLock, AcquireLock, RunInv
  <2>2. to[p].tag = "Idle"
    BY <2>1, SMTT(30) DEF Idle, State
  <2> QED
    BY <1>b, <2>1, <2>2, Zenon DEF Serving
<1>7. CASE Engine(p) \/ Reactivate(p) \/ ReadPrior(p) \/ WriteLedger(p) \/ LedgerLost(p)
  <2>1. to' = to /\ (pc[p] = "dead" => pc'[p] = "dead")
    BY <1>7, ZenonT(30)
       DEF Engine, Reactivate, ReadPrior, WriteLedger, LedgerLost, Locked, AcquireFails,
           RecordEvent, RecordState, StoreFails, ReleaseLock, ReleaseFails, vars, runVars
  <2> QED
    BY <1>b, <2>1, Zenon DEF Serving
<1>8. \/ Die(p) \/ TakeLock(p) \/ Engine(p) \/ ReadPrior(p) \/ WriteLedger(p) \/ LedgerLost(p)
      \/ Reactivate(p)
      \/ Step(p) /\ (Forward(p) \/ ForwardFails(p) \/ Compensate(p) \/ CompensateFails(p))
  BY Zenon DEF Step, RunPreflight, RunHealth, RunVerify, Inert, RunFetch, RunMigrate,
         RunActivate, RunRestart, InertUndo, UndoMigrate, ReactivateFails, RestartPrior
<1> QED
  BY <1>1, <1>2, <1>3, <1>4, <1>5, <1>6, <1>7, <1>8, ZenonT(30)

(* No step leaves the service on a release that is neither its run's nor   *)
(* recorded: what is served is accounted for (single_host.rs, run_restart, *)
(* undo_activate).                                                         *)
THEOREM ServedFollowsRun == SHSpec => []ServedInv
<1>1. SagaInv /\ HostInv /\ LiveInv /\ BaseInv /\ ServedInv /\ [SHNext]_shVars => ServedInv'
  <2> SUFFICES ASSUME SagaInv, HostInv, LiveInv, BaseInv, ServedInv, [SHNext]_shVars,
                      NEW q \in Procs, running' = q
               PROVE  pc'[q] = "dead" \/ to'[q].tag = "Committed" \/ Serving(q)'
    BY Zenon DEF ServedInv
  <2>1. CASE UNCHANGED shVars
    <3>1. UNCHANGED <<pc, to, running>>
      BY <2>1, Zenon DEF shVars, vars, runVars, hostVars
    <3> QED
      BY <3>1, Zenon DEF ServedInv, Serving
  <2>2. ASSUME NEW p \in Procs, Step(p) \/ Die(p)
        PROVE  pc'[q] = "dead" \/ to'[q].tag = "Committed" \/ Serving(q)'
    <3>1. CASE q = p
      BY <2>2, <3>1, OwnServed, Zenon
    <3>2. CASE q # p
      <4>a. RevisionsOK /\ AroundOK
        BY Zenon DEF HostInv, LiveInv
      <4>1. to'[q] = to[q] /\ pc'[q] = pc[q]
        BY <2>2, <3>2, <4>a, OtherRecords, Zenon
      <4>2. running = q \/ q \in Recorded
        BY <2>2, <3>2, RestartsOwn, ReleaseAssumption, Zenon
      <4>3. q \in Recorded => to[q].tag = "Committed"
        BY ReleaseAssumption, ZenonT(30) DEF Recorded, LiveInv
      <4> QED
        BY <4>1, <4>2, <4>3, Zenon DEF ServedInv, Serving
    <3> QED
      BY <3>1, <3>2, Zenon
  <2> QED
    BY <2>1, <2>2, Zenon DEF SHNext, AllOver
<1>2. SHInit => ServedInv
  <2>1. SHInit => running \in {NoRelease, Base}
    BY Zenon DEF SHInit
  <2> QED
    BY <2>1, ReleaseAssumption, Zenon DEF ServedInv
<1> QED
  BY <1>1, <1>2, BaselineIsReachable, LiveFollowsRecords, HostFollowsRun, EngineInv, PTL DEF SHSpec

(* A run that stands anywhere but at the start, committed or rolled back   *)
(* is in flight, dead, or said how it ended.                               *)
LEMMA ElsewhereIsAccounted ==
  ASSUME SagaInv, NEW p \in Procs, to[p].tag \notin {"Idle", "RolledBack", "Committed"}
  PROVE  Accounted(p)
<1> SUFFICES ASSUME pc[p] # "dead", ~InFlight(p)
             PROVE  result[p] \in {"Error", "PartialRollback"}
  BY Zenon DEF Accounted
<1>2. TypeOK /\ RunInv(p)
  BY Zenon DEF SagaInv
<1>3. to[p] # Idle
  BY DEF Idle, State
<1>4. pc[p] = "returned"
  <2>1. pc[p] \in Locations
    BY <1>2, Zenon DEF TypeOK
  <2>2. pc[p] # "ready"
    BY <1>2, <1>3, Zenon DEF RunInv
  <2> QED
    BY <2>1, <2>2, Zenon DEF Locations, InFlight
<1>5. result[p] # "none" /\ result[p] # "Locked" /\ (result[p] \in Terminal => result[p] = to[p].tag)
  BY <1>2, <1>3, <1>4, Zenon DEF RunInv
<1>6. result[p] \in Results
  BY <1>2, Zenon DEF TypeOK
<1> QED
  BY <1>5, <1>6, Zenon DEF Results, Terminal

(* A release that did not commit is served only while its deploy is in     *)
(* flight, or after it died or reported an error or a partial rollback;    *)
(* the link is on it only then, or after its own activation failed         *)
(* (single_host.rs, run_activate, undo_activate; saga.rs, rollback).       *)
THEOREM LiveIsReported == SHSpec => []UncommittedLiveIsReported
<1>1. SagaInv /\ LiveInv /\ ServedInv => UncommittedLiveIsReported
  <2> SUFFICES ASSUME SagaInv, LiveInv, ServedInv, NEW p \in Procs, to[p].tag # "Committed",
                      pc[p] # "dead"
               PROVE  /\ running = p => Accounted(p)
                      /\ active = p => Accounted(p) \/ failed[p] = Activate
    BY Zenon DEF UncommittedLiveIsReported, Accounted
  <2>1. running = p => to[p].tag \notin {"Idle", "RolledBack", "Committed"}
    BY Zenon DEF ServedInv, Serving
  <2>2. active = p => failed[p] = Activate \/ to[p].tag \notin {"Idle", "RolledBack", "Committed"}
    BY Zenon DEF LiveInv, Placed
  <2> QED
    BY <2>1, <2>2, ElsewhereIsAccounted, Zenon
<1> QED
  BY <1>1, ServedFollowsRun, LiveFollowsRecords, EngineInv, PTL

-----------------------------------------------------------------------------
(* What the ledger names.                                                  *)

(* A run that was under way before a step of its own still knows the       *)
(* ledger after it, unless the step ends it.                               *)
LEMMA OwnFollows ==
  ASSUME SagaInv, SagaInv', HostInv, HostInv', LiveInv, BaseInv, NEW p \in Procs, Step(p) \/ Die(p),
         stage[p] = "saga", prior' = prior, Follows(p), Underway(p)'
  PROVE  Follows(p)'
<1>a. TypeOK /\ RunInv(p) /\ AroundOK /\ BasesOK
  BY Zenon DEF SagaInv, LiveInv, BaseInv
<1>b. Follows(p) /\ ~Over(p)'
  BY ZenonT(30) DEF Underway
<1>1. ledger' = ledger
  <2>1. CASE WriteLedger(p)
    BY <1>a, <1>b, <2>1, Zenon DEF WriteLedger, Over, AroundOK
  <2> QED
    BY <2>1, ZenonT(30) DEF Step, Die, ReadPrior, TakeLock, Engine, LedgerLost, RunPreflight,
           RunHealth, RunVerify, Inert, RunFetch, RunMigrate, RunActivate, RunRestart, InertUndo,
           UndoMigrate, Reactivate, ReactivateFails, RestartPrior, ownVars
<1>2. to'[p].tag = "Committed" => DoneBefore(p, N + 1)'
  <2>1. CASE InFlight(p)'
    BY <2>1, Zenon DEF HostInv
  <2>2. CASE ~InFlight(p)'
    <3>1. pc'[p] \notin {"event", "dead"}
      BY <1>b, <2>2, ZenonT(30) DEF InFlight, Over
    <3>2. UNCHANGED <<to, staged, newRev, active, running, db>>
      <4>1. CASE Forward(p) \/ ForwardFails(p) \/ Compensate(p) \/ CompensateFails(p)
        BY <3>1, <4>1, ForwardEnters, ForwardFailsEnters, CompensateEnters,
           CompensateFailsEnters, ZenonT(30)
      <4>2. CASE TakeLock(p) \/ Die(p)
        BY <1>a, <3>1, <4>2, ZenonT(30) DEF TakeLock, Die, Crash, AcquireLock, Enter, TypeOK
      <4>3. CASE Reactivate(p)
        BY <2>2, <4>3, Zenon DEF Reactivate, Undoing, InFlight, vars, runVars
      <4>4. CASE Engine(p)
        BY <4>4, Zenon DEF Engine, ownVars, localVars, hostVars, Locked, AcquireFails,
               RecordEvent, RecordState, StoreFails, ReleaseLock, ReleaseFails
      <4>5. CASE ReadPrior(p) \/ WriteLedger(p) \/ LedgerLost(p)
        BY <4>5, Zenon DEF ReadPrior, WriteLedger, LedgerLost, vars, runVars, hostVars, localVars
      <4> QED
        BY <4>1, <4>2, <4>3, <4>4, <4>5, ZenonT(30)
           DEF Step, RunPreflight, RunHealth, RunVerify, Inert, RunFetch, RunMigrate,
               RunActivate, RunRestart, InertUndo, UndoMigrate, ReactivateFails, RestartPrior
    <3> QED
      BY <1>b, <3>2, SetupStays, Zenon DEF Follows, DoneBefore
  <2> QED
    BY <2>1, <2>2, Zenon
<1>s. ownsDatabase' = ownsDatabase
  BY SetupStays, Zenon
<1>3. CASE TakeLock(p)
  <2>1. to[p] = Idle
    BY <1>3, <1>a, ZenonT(30) DEF TakeLock, AcquireLock, RunInv
  <2>2. Names(active, db)
    BY <1>b, <2>1 DEF Follows, Idle, State
  <2>3. base'[p] = Found(active, running, db)
    BY <1>3, <1>a, ZenonT(30) DEF TakeLock, BasesOK
  <2>4. Names(base'[p].active, base'[p].db)
    BY <2>2, <2>3, SMTT(30) DEF Found, Names
  <2>5. to'[p].tag # "Idle"
    <3>1. pc'[p] = "event"
      BY <1>3, <1>a, Zenon DEF TakeLock, AcquireLock, Enter, TypeOK
    <3> QED
      BY <3>1, ZenonT(30) DEF SagaInv, RunInv, InFlight
  <2> QED
    BY <1>b, <1>s, <1>1, <1>2, <2>4, <2>5, Zenon DEF Follows, Names
<1>4. CASE ~TakeLock(p)
  <2>1. base' = base
    BY <1>4, ZenonT(30) DEF Step, Die, ReadPrior, Engine, WriteLedger, LedgerLost, RunPreflight,
           RunHealth, RunVerify, Inert, RunFetch, RunMigrate, RunActivate, RunRestart, InertUndo,
           UndoMigrate, Reactivate, ReactivateFails, RestartPrior, ownVars
  <2>2. CASE pc[p] \in {"forward", "compensate"}
    <3>1. to[p].tag # "Idle"
      BY <1>a, <2>2, Zenon DEF RunInv, InFlight
    <3>2. to'[p].tag # "Idle"
      <4>1. CASE to'[p] = to[p]
        BY <3>1, <4>1, Zenon
      <4>2. CASE Forward(p)
        BY <4>2, ForwardEnters, Zenon
      <4>3. CASE ForwardFails(p)
        BY <4>3, ForwardFailsEnters, Zenon
      <4>4. CASE Compensate(p)
        BY <4>4, CompensateEnters, Zenon
      <4>5. CASE CompensateFails(p)
        BY <4>5, CompensateFailsEnters, ZenonT(30)
      <4>6. to'[p] = to[p] \/ Forward(p) \/ ForwardFails(p) \/ Compensate(p) \/ CompensateFails(p)
        BY <2>2, StepIsEngine, ZenonT(30)
           DEF Run, AcquireLock, Locked, AcquireFails, RecordEvent, RecordState, StoreFails,
               ReleaseLock, ReleaseFails, Crash, vars, runVars
      <4> QED
        BY <4>1, <4>2, <4>3, <4>4, <4>5, <4>6, Zenon
    <3> QED
      BY <1>b, <1>s, <1>1, <1>2, <2>1, <3>1, <3>2, ZenonT(30) DEF Follows, Names
  <2>3. CASE pc[p] \notin {"forward", "compensate"}
    <3>1. UNCHANGED <<active, db>>
      BY <2>3, HostChanges, ZenonT(30) DEF HostInv, hostVars
    <3>2. to' = to
      BY <1>4, <2>3, ZenonT(30)
      DEF Step, Die, ReadPrior, Engine, WriteLedger, LedgerLost, RunPreflight,
             RunHealth, RunVerify, Inert, RunFetch, RunMigrate, RunActivate, RunRestart, InertUndo,
             UndoMigrate, Reactivate, ReactivateFails, RestartPrior, At, Undoing, Crash, Locked,
             AcquireFails, RecordEvent, RecordState, StoreFails, ReleaseLock, ReleaseFails,
                vars, runVars
    <3> QED
      BY <1>b, <1>s, <1>1, <1>2, <2>1, <3>1, <3>2, ZenonT(30) DEF Follows, Names
  <2> QED
    BY <2>2, <2>3, ZenonT(30)
<1> QED
  BY <1>3, <1>4, Zenon

(* A run that ends in an orderly way leaves a ledger that names what is    *)
(* live: it recorded its own release, changed nothing, or went back.       *)
LEMMA EndsFine ==
  ASSUME SagaInv, HostInv, LiveInv, BaseInv, NEW p \in Procs, Step(p) \/ Die(p),
         stage[p] = "saga", Follows(p), Underway(p), Fine(p)'
  PROVE  Names(active, db)'
<1>s. ownsDatabase' = ownsDatabase
  BY SetupStays, Zenon
<1>a. TypeOK /\ RunInv(p) /\ AroundOK /\ BasesOK
  BY ZenonT(30) DEF SagaInv, LiveInv, BaseInv
<1>1. CASE WriteLedger(p)
  <2>1. /\ pc[p] = "returned" /\ result[p] = "Committed" /\ ledger' = Record(staged[p], newRev[p])
        /\ UNCHANGED <<active, db>>
    BY <1>1, Zenon DEF WriteLedger, hostVars
  <2>2. to[p].tag = "Committed"
    BY <1>a, <2>1, Zenon DEF RunInv, Terminal
  <2>3. DoneBefore(p, 8)
    <3>1. N + 1 = 8
      BY StepsAssumption
    <3> QED
      BY <2>2, <3>1, Zenon DEF Follows
  <2>4. staged[p] = p /\ (ownsDatabase => db = newRev[p]) /\ active = p
    BY <2>3 DEF DoneBefore, Fetch, Migrate, Activate
  <2> QED
    BY <1>s, <2>1, <2>4 DEF Names, Record
<1>2. CASE Engine(p) /\ Locked(p)
  <2>1. to[p] = Idle /\ UNCHANGED <<ledger, active, db>>
    BY <1>2, <1>a, ZenonT(30) DEF Locked, RunInv, Engine, ownVars, hostVars
  <2>2. to[p].tag = "Idle"
    BY <2>1 DEF Idle, State
  <2> QED
    BY <1>s, <2>1, <2>2, ZenonT(30) DEF Follows, Names
<1>3. CASE Engine(p) /\ ReleaseLock(p)
  <2>1. pc[p] = "release" /\ UNCHANGED <<ledger, active, db, failed, stage, result>> /\ pc'[p] = "returned"
    BY <1>3, <1>a, Zenon DEF ReleaseLock, Engine, ownVars, hostVars, TypeOK
  <2>2. result[p] = "RolledBack" /\ failed[p] \notin {Migrate, Activate}
    <3>1. result[p] \in Terminal \cup {"Error"}
      BY <1>a, <2>1, Zenon DEF RunInv
    <3>2. /\ result[p] \in {"Locked", "RolledBack"} \/ stage[p] \in {"start", "recorded"}
          /\ failed[p] \notin {Migrate, Activate}
      BY <2>1, Zenon DEF Fine, Orderly
    <3> QED
      BY <3>1, <3>2, Zenon DEF Terminal
  <2>3. to[p].tag = "RolledBack" /\ InFlight(p)
    BY <1>a, <2>1, <2>2, Zenon DEF RunInv, Terminal, InFlight
  <2>4. Restored(p) /\ failed[p] \in 0 .. N
    BY <1>a, <2>3, Zenon DEF BaseInv, Baseline, TypeOK
  <2>5. Names(base[p].active, base[p].db) /\ prior[p] = ledger
    BY <2>3, Zenon DEF Follows
  <2>6. prior[p].active = base[p].active
    BY <2>5, ZenonT(30) DEF Names
  <2>7. active = base[p].active
    BY <2>2, <2>4, <2>6, NAssumption, SMTT(30) DEF Restored, ReleaseBack, Activate
  <2>8. db = base[p].db
    BY <2>2, <2>4, ZenonT(30) DEF Restored
  <2> QED
    BY <1>s, <2>1, <2>5, <2>7, <2>8, ZenonT(30) DEF Names
<1>4. WriteLedger(p) \/ (Engine(p) /\ Locked(p)) \/ (Engine(p) /\ ReleaseLock(p))
  <2>1. CASE LedgerLost(p)
    BY <1>a, <2>1, Zenon DEF LedgerLost, Fine, Orderly, AroundOK, vars, runVars
  <2>2. CASE Engine(p) /\ (AcquireFails(p) \/ ReleaseFails(p))
    <3>1. result'[p] = "Error" /\ stage' = stage
      BY <1>a, <2>2, Zenon DEF AcquireFails, ReleaseFails, TypeOK, Engine, ownVars
    <3> QED
      BY <3>1, Zenon DEF Fine, Orderly
  <2>3. CASE stage' = stage /\ pc'[p] # "returned"
    BY <2>3, Zenon DEF Fine, Orderly
  <2>4. CASE ReadPrior(p)
    BY <2>4, Zenon DEF ReadPrior
  <2>5. CASE Engine(p) /\ (RecordEvent(p) \/ RecordState(p) \/ StoreFails(p))
    BY <1>a, <2>3, <2>5, ZenonT(30)
    DEF Engine, ownVars, RecordEvent, RecordState, StoreFails, TypeOK
  <2>6. CASE TakeLock(p) \/ Die(p)
    BY <1>a, <2>3, <2>6, ZenonT(30) DEF TakeLock, Die, ownVars, AcquireLock, Enter, Crash, TypeOK
  <2>7. CASE Reactivate(p)
    BY <2>3, <2>7, Zenon DEF Reactivate, Undoing, vars, runVars
  <2>8. CASE stage' = stage /\ (Forward(p) \/ ForwardFails(p) \/ Compensate(p) \/ CompensateFails(p))
    BY <2>3, <2>8, ForwardEnters, ForwardFailsEnters, CompensateEnters, CompensateFailsEnters,
       ZenonT(30)
  <2>9. CASE Engine(p)
    BY <2>2, <2>5, <2>9, Zenon DEF Engine
  <2> QED
    BY <2>1, <2>4, <2>6, <2>7, <2>8, <2>9, ZenonT(30)
       DEF Step, RunPreflight, RunHealth, RunVerify, Inert, RunFetch, RunMigrate,
           RunActivate, RunRestart, InertUndo, UndoMigrate, ReactivateFails, RestartPrior, ownVars
<1> QED
  BY <1>1, <1>2, <1>3, <1>4, Zenon

(* A step of p leaves alone how the other runs stand.                      *)
LEMMA OthersStatus ==
  ASSUME SagaInv, AroundOK, RevisionsOK, BasesOK, NEW p \in Procs, NEW q \in Procs, q # p, Step(p) \/ Die(p)
  PROVE  (Underway(q)' <=> Underway(q)) /\ (Fine(q)' <=> Fine(q))
<1>1. /\ stage'[q] = stage[q] /\ pc'[q] = pc[q] /\ result'[q] = result[q] /\ failed'[q] = failed[q]
  BY OtherRecords, OthersKeep, Zenon
<1> QED
  BY <1>1, Zenon DEF Underway, Started, Over, Fine, Orderly

(* A run reads the ledger: if it is still alone, nobody was under way.     *)
LEMMA ReadsAlone ==
  ASSUME SagaInv, HostInv, LiveInv, BaseInv, LedgerInv, NEW p \in Procs, ReadPrior(p),
         \A q \in Procs : alone'[q]
  PROVE  /\ \A q \in Procs : alone[q] /\ ~Underway(q)
         /\ (\A q \in Procs \ {p} : Fine(q)) => Follows(p)'
         /\ ~Fine(p)'
<1>a. RunInv(p) /\ AroundOK /\ Entered /\ stage[p] = "start" /\ pc[p] = "ready"
  BY Zenon DEF SagaInv, LiveInv, BaseInv, ReadPrior, Entered
<1>1. \A q \in Procs : alone[q] /\ ~Underway(q)
  <2> DEFINE underway == {q \in Procs : Started(q) /\ ~Over(q)}
  <2>1. alone' = [q \in Procs |-> alone[q] /\ (underway = {} \/ q \notin underway \cup {p})]
    BY Zenon DEF ReadPrior
  <2> HIDE DEF underway
  <2>2. (\A q \in Procs : alone[q]) /\ underway = {}
    BY <2>1, Zenon
  <2> QED
    BY <2>2, Zenon DEF underway, Underway
<1>2. /\ prior'[p] = ledger /\ stage'[p] = "saga"
      /\ UNCHANGED <<ledger, active, db, to, pc, result, failed, ownsDatabase>>
  BY <1>a, Zenon DEF ReadPrior, AroundOK, vars, runVars, hostVars, setupVars
<1>3. ~Fine(p)'
  BY <1>a, <1>2, ZenonT(30) DEF Fine, Orderly
<1>4. to[p].tag = "Idle" /\ failed[p] = 0
  <2>1. to[p] = Idle
    BY <1>a, ZenonT(30) DEF RunInv
  <2>2. to[p].tag = "Idle"
    BY <2>1, SMTT(30) DEF Idle, State
  <2> QED
    BY <1>a, <2>2, Zenon DEF RunInv
<1>5. Fine(p)
  BY <1>a, <1>4, SMTT(30) DEF Fine, Orderly, Migrate, Activate
<1>6. (\A q \in Procs \ {p} : Fine(q)) => Names(active, db)
  BY <1>1, <1>5, Zenon DEF LedgerInv
<1> QED
  BY <1>1, <1>2, <1>3, <1>4, <1>6, ZenonT(30) DEF Follows, Names

(* Every step keeps what the ledger names.                                 *)
LEMMA LedgerNext ==
  ASSUME SagaInv, SagaInv', HostInv, HostInv', LiveInv, BaseInv, LedgerInv, NEW p \in Procs, Step(p) \/ Die(p)
  PROVE  LedgerInv'
<1>a. AroundOK /\ RevisionsOK /\ BasesOK /\ Entered
  BY Zenon DEF HostInv, LiveInv, BaseInv
<1>b. \A q \in Procs : q # p => (Underway(q)' <=> Underway(q)) /\ (Fine(q)' <=> Fine(q))
  BY <1>a, OthersStatus, Zenon
<1> SUFFICES ASSUME \A q \in Procs : alone'[q]
             PROVE  /\ \A q, r \in Procs : Underway(q)' /\ Underway(r)' => q = r
                    /\ (\A q \in Procs : Fine(q)') => Names(active, db)'
                    /\ \A q \in Procs :
                          Underway(q)' /\ (\A r \in Procs \ {q} : Fine(r)') => Follows(q)'
  BY Zenon DEF LedgerInv
<1>1. CASE ReadPrior(p)
  <2>1. /\ \A q \in Procs : ~Underway(q)
        /\ (\A q \in Procs \ {p} : Fine(q)) => Follows(p)'
        /\ ~Fine(p)'
    BY <1>1, ReadsAlone, Zenon
  <2>2. \A q \in Procs : Underway(q)' => q = p
    BY <1>b, <2>1, Zenon
  <2> QED
    BY <1>b, <2>1, <2>2, Zenon
<1>2. CASE stage[p] = "saga" /\ prior' = prior /\ Underway(p) /\ alone' = alone
  <2>1. \A q \in Procs : alone[q]
    BY <1>2, Zenon
  <2>2. \A q \in Procs : Underway(q)' => q = p
    BY <1>2, <1>b, <2>1, Zenon DEF LedgerInv
  <2>3. (\A r \in Procs \ {p} : Fine(r)') => Follows(p)
    BY <1>2, <1>b, <2>1, Zenon DEF LedgerInv
  <2>4. Follows(p) /\ Underway(p)' => Follows(p)'
    BY <1>2, OwnFollows, Zenon
  <2>5. Follows(p) /\ Fine(p)' => Names(active, db)'
    BY <1>2, EndsFine, Zenon
  <2> QED
    BY <2>2, <2>3, <2>4, <2>5, Zenon
<1> QED
  BY <1>1, <1>2, <1>a, OwnStage, Zenon

(* The ledger names what is live whenever no run is under way, as long as  *)
(* no two overlapped and none ended badly (single_host.rs, run_reporting). *)
THEOREM LedgerFollowsRuns == SHSpec => []LedgerInv
<1>1. SagaInv /\ SagaInv' /\ HostInv /\ HostInv' /\ LiveInv /\ BaseInv /\ LedgerInv /\ [SHNext]_shVars
      => LedgerInv'
  <2> SUFFICES ASSUME SagaInv, SagaInv', HostInv, HostInv', LiveInv, BaseInv, LedgerInv, [SHNext]_shVars
               PROVE  LedgerInv'
    BY Zenon
  <2>1. CASE UNCHANGED shVars
    <3>1. UNCHANGED <<vars, setupVars, stage, localVars, ledger, base, alone, hostVars>>
      BY <2>1, Zenon DEF shVars, ownVars
    <3>2. UNCHANGED <<pc, to, failed, result, ownsDatabase, stage, prior, staged, newRev, ledger,
                      base, alone, active, running, db>>
      BY <3>1, Zenon DEF vars, runVars, setupVars, localVars, hostVars
    <3>3. ASSUME NEW q \in Procs
          PROVE  (Underway(q)' <=> Underway(q)) /\ (Fine(q)' <=> Fine(q)) /\ (alone'[q] <=> alone[q])
      BY <3>2, Zenon DEF Underway, Started, Over, Fine, Orderly
    <3>4. ASSUME NEW q \in Procs PROVE Follows(q)' <=> Follows(q)
      BY <3>2, Zenon DEF Follows, Names, DoneBefore
    <3>5. Names(active, db)' <=> Names(active, db)
      BY <3>2, Zenon DEF Names
    <3> QED
      BY <3>3, <3>4, <3>5, Zenon DEF LedgerInv
  <2>2. ASSUME NEW p \in Procs, Step(p) \/ Die(p) PROVE LedgerInv'
    BY <2>2, LedgerNext, Zenon
  <2> QED
    BY <2>1, <2>2, Zenon DEF SHNext, AllOver
<1>2. SHInit => LedgerInv
  BY BaseInit, Zenon
<1> QED
  BY <1>1, <1>2, BaselineIsReachable, LiveFollowsRecords, HostFollowsRun, EngineInv, PTL DEF SHSpec

(* A clean rollback is "back at the pre-run baseline" (single_host.rs,     *)
(* undo_activate and undo_migrate), as far as RollbackRestores says; and   *)
(* the ledger a run reads before the lock names what is live (the snapshot *)
(* slot, run_reporting), as long as LedgerNamesLive says: for any number   *)
(* of runs, whichever fail, die, lose their record or are refused.         *)
THEOREM BaselineIsKept == SHSpec => []BaselineHolds
<1>1. SagaInv /\ HostInv /\ LiveInv /\ BaseInv => SHTypeOK
  BY ZenonT(30) DEF SagaInv, HostInv, LiveInv, BaseInv, RevisionsOK, AroundOK, BasesOK, SHTypeOK
<1>2. SagaInv /\ BaseInv => RollbackRestores
  <2> SUFFICES ASSUME SagaInv, BaseInv, curState.tag = "RolledBack"
               PROVE  RollbackRestores
    BY Zenon DEF RollbackRestores
  <2>1. Restored(author)
    BY Zenon DEF BaseInv
  <2>2. author \in Procs
    <3>1. author # NoProc
      BY Zenon DEF SagaInv
    <3> QED
      BY <3>1, Zenon DEF SagaInv, TypeOK
  <2>3. failed[author] \in 0 .. N
    BY <2>2, Zenon DEF SagaInv, TypeOK
  <2> QED
    BY <2>1, <2>3, NAssumption DEF RollbackRestores, Restored, ReleaseBack, Activate
<1>3. LedgerInv => LedgerNamesLive
  BY Zenon DEF LedgerInv, LedgerNamesLive, Fine, Names
<1> QED
  BY <1>1, <1>2, <1>3, LedgerFollowsRuns, BaselineIsReachable, LiveFollowsRecords, HostFollowsRun,
     EngineInv, PTL DEF BaselineHolds

=============================================================================
