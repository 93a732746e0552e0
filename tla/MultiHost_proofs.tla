-------------------------- MODULE MultiHost_proofs --------------------------
(***************************************************************************)
(* Proofs about MultiHost for every inventory, batch size, fleet to start  *)
(* from and both kinds of lock.                                            *)
(***************************************************************************)
EXTENDS MultiHost, Saga_proofs

(* The step whose batch a host belongs to.                                 *)
Slot(h) == CHOOSE i \in 4 .. N - 1 : h \in Batch(i - 3)

(* The variables of this module have their types.                          *)
FleetsOK ==
    /\ hpc \in [Hosts -> HostPlaces]
    /\ captured \in [Hosts -> {"no", "in", "down"}] /\ drained \in [Hosts -> {"no", "in", "down"}]
    /\ activated \in [Hosts -> BOOLEAN] /\ reattached \in [Hosts -> BOOLEAN]
    /\ ownsDatabase \in BOOLEAN /\ unrecoverable \in BOOLEAN /\ reloadFailed \in BOOLEAN
    /\ prior \in [Hosts -> {New, Old, None}] /\ ledger \in [Hosts -> {New, Old, None}]
    /\ active \in [Hosts -> {New, Old, None}] /\ running \in [Hosts -> {New, Old, None}]
    /\ conf \in [Hosts -> {"in", "down"}] /\ live \in [Hosts -> {"in", "down"}]
    /\ pool0 \in [Hosts -> {"in", "down"}]
    /\ db \in 0 .. 2 /\ db0 \in 0 .. 2 /\ prevRev \in 0 .. 2
    /\ recorded \in {"no", "yes", "failed"}

(* A host as the run found it, and as the run is to leave it; one that     *)
(* serves what it served, with the link back unless its activation failed; *)
(* in the pool as it was before, and out of it.                            *)
OnOld(h) == active[h] = prior[h] /\ running[h] = prior[h]
ServesOld(h) == running[h] = prior[h] /\ (active[h] = prior[h] \/ ActivationFailed(h))
OnNew(h) == active[h] = New /\ running[h] = New
AtPool(h) == conf[h] = pool0[h] /\ live[h] = pool0[h]
OutOfPool(h) == conf[h] = "down" /\ live[h] = "down"

(* What advance_host has noted of its progress.                            *)
Took(h, from0, a, r) == drained[h] = from0 /\ activated[h] = a /\ reattached[h] = r

(* What the place of a host says of it on the way forward ...              *)
HostOnward(h) ==
    /\ hpc[h] = "idle" => Took(h, "no", FALSE, FALSE) /\ OnOld(h) /\ AtPool(h)
    /\ hpc[h] = "drain reload" =>
          Took(h, "no", FALSE, FALSE) /\ captured[h] = pool0[h] /\ OnOld(h) /\ conf[h] = "down"
    /\ hpc[h] = "activate" => Took(h, pool0[h], FALSE, FALSE) /\ OnOld(h) /\ OutOfPool(h)
    /\ hpc[h] = "restart" => Took(h, pool0[h], TRUE, FALSE) /\ active[h] = New /\ OutOfPool(h)
    /\ hpc[h] \in {"health", "reattach"} =>
          Took(h, pool0[h], TRUE, FALSE) /\ OnNew(h) /\ OutOfPool(h)
    /\ hpc[h] = "reattach reload" =>
          Took(h, pool0[h], TRUE, FALSE) /\ OnNew(h) /\ conf[h] = pool0[h]
    /\ hpc[h] \in {"advanced", "undo drain"} =>
          Took(h, pool0[h], TRUE, TRUE) /\ OnNew(h) /\ AtPool(h)

(* ... where it failed ...                                                 *)
HostFailed(h) ==
    hpc[h] = "failed" =>
        \/ Took(h, "no", FALSE, FALSE) /\ OnOld(h) /\ (~reloadFailed => AtPool(h))
        \/ Took(h, pool0[h], FALSE, FALSE) /\ ServesOld(h) /\ OutOfPool(h)
        \/ Took(h, pool0[h], TRUE, FALSE) /\ (~reloadFailed => OutOfPool(h))

(* ... and on the way back.                                                *)
HostBack(h) ==
    /\ hpc[h] = "undo drain reload" =>
          drained[h] = pool0[h] /\ activated[h] /\ conf[h] = "down"
    /\ hpc[h] = "undo activate" => drained[h] = pool0[h] /\ (~reloadFailed => OutOfPool(h))
    /\ hpc[h] = "undo restart" =>
          drained[h] = pool0[h] /\ active[h] = prior[h] /\ (~reloadFailed => OutOfPool(h))
    /\ hpc[h] = "undo reattach" => drained[h] = pool0[h] /\ ServesOld(h)
    /\ hpc[h] = "undo reattach reload" => conf[h] = pool0[h] /\ ServesOld(h)
    /\ hpc[h] = "restored" => ServesOld(h) /\ (~reloadFailed => AtPool(h))

HostSound(h) == HostOnward(h) /\ HostFailed(h) /\ HostBack(h)

(* Where a rollback leaves the hosts it has passed: those of the failed    *)
(* batch may be unrestored, which is remembered.                           *)
Undone(h) ==
    /\ Slot(h) < failed[Self] => hpc[h] = "restored"
    /\ Slot(h) = failed[Self] => hpc[h] = "restored" \/ (hpc[h] = "unrestored" /\ unrecoverable)
    /\ Slot(h) > failed[Self] => hpc[h] = "idle"

(* Where the step the run is in says a host is.                            *)
Placed(h) ==
    LET i == to[Self].step
        entering == pc[Self] \in {"event", "state"}
    IN  /\ to[Self].tag = "Idle" => hpc[h] = "idle"
        /\ to[Self].tag = "Running" =>
              /\ Slot(h) < i => hpc[h] = "advanced"
              /\ Slot(h) > i \/ (Slot(h) = i /\ entering) => hpc[h] = "idle"
        /\ to[Self].tag = "Compensating" =>
              /\ Slot(h) < i \/ (Slot(h) = i /\ entering) => hpc[h] = "advanced"
              /\ Slot(h) > i => Undone(h)
        /\ to[Self].tag = "Committed" => hpc[h] = "advanced"
        /\ to[Self].tag = "RolledBack" => Undone(h)

(* Where the database is.                                                  *)
Migrated ==
    LET i == to[Self].step
    IN  /\ ~ownsDatabase => db = db0
        /\ to[Self].tag = "Idle" => db = db0
        /\ to[Self].tag = "Running" =>
              /\ i < 3 \/ (i = 3 /\ pc[Self] \in {"event", "state", "forward"}) => db = db0
              /\ i > 3 => prevRev = db0 /\ (ownsDatabase => db = 2)
        /\ to[Self].tag = "Compensating" =>
              /\ i >= 3 => prevRev = db0
              /\ i < 3 /\ failed[Self] # 3 => db = db0
        /\ to[Self].tag = "RolledBack" => (failed[Self] # 3 => db = db0)
        /\ to[Self].tag = "Committed" => (ownsDatabase => db = 2)

(* The inductive invariant, next to the engine's.                          *)
MHInv ==
    /\ FleetsOK
    /\ \A h \in Hosts : HostSound(h) /\ Placed(h)
    /\ Migrated

-----------------------------------------------------------------------------
(* Batches are consecutive chunks: arithmetic with a size that is a        *)
(* constant.                                                               *)
LEMMA ChunkType == ChunkSize \in Nat \ {0} /\ Len(Inventory) \in Nat \ {0} /\ NumBatches \in Nat
<1>1. ChunkSize \in Nat \ {0}
  BY BatchesAssumption DEF ChunkSize
<1>2. Len(Inventory) \in Nat \ {0}
  BY InventoryAssumption
<1>3. \A a \in Nat, c \in Nat \ {0} : a \div c \in Nat
  OBVIOUS
<1>4. Len(Inventory) + ChunkSize - 1 \in Nat
  BY <1>1, <1>2
<1> QED
  BY <1>1, <1>2, <1>3, <1>4, Zenon DEF NumBatches

(* Products by the size are monotonic.                                     *)
LEMMA Product ==
  ASSUME NEW a \in Nat, NEW b \in Nat, NEW c \in Nat \ {0}, a < b
  PROVE  (a + 1) * c <= b * c /\ (a + 1) * c = a * c + c
<1>1. PICK d \in Nat : b = a + 1 + d
  <2>1. b - a - 1 \in Nat /\ b = a + 1 + (b - a - 1)
    OBVIOUS
  <2> QED
    BY <2>1, Zenon
<1>2. b * c = (a + 1) * c + d * c
  BY <1>1
<1>3. d * c \in Nat
  OBVIOUS
<1> QED
  BY <1>2, <1>3

(* Division by the size.                                                   *)
LEMMA Division ==
  ASSUME NEW a \in Nat, NEW c \in Nat \ {0}
  PROVE  (a \div c) * c <= a /\ a < (a \div c) * c + c /\ a \div c \in Nat
OBVIOUS

(* The chunk that holds position j.                                        *)
LEMMA ChunkOf ==
  ASSUME NEW j \in 1 .. Len(Inventory)
  PROVE  \E k \in 1 .. NumBatches : (k - 1) * ChunkSize < j /\ j <= k * ChunkSize
<1> DEFINE c == ChunkSize
           q == (j - 1) \div c
           m == NumBatches
           l == Len(Inventory)
<1>1. c \in Nat \ {0} /\ l \in Nat \ {0} /\ m \in Nat /\ j - 1 \in Nat /\ l + c - 1 \in Nat
  BY ChunkType
<1>2. q * c <= j - 1 /\ j - 1 < q * c + c /\ q \in Nat
  BY <1>1, Division, Zenon
<1>3. m * c <= l + c - 1 /\ l + c - 1 < m * c + c
  BY <1>1, Division, Zenon DEF NumBatches
<1> HIDE DEF c, q, m, l
<1>4. q * c \in Nat /\ m * c \in Nat
  BY <1>1, <1>2
<1>5. j <= l
  BY DEF l
<1>6. q * c < m * c
  BY <1>1, <1>2, <1>3, <1>4, <1>5
<1>7. q < m
  <2>1. SUFFICES ASSUME m <= q PROVE FALSE
    BY <1>1, <1>2
  <2>2. CASE m = q
    BY <1>4, <1>6, <2>2
  <2>3. CASE m < q
    <3>1. (m + 1) * c <= q * c /\ (m + 1) * c = m * c + c
      BY <1>1, <1>2, <2>3, Product, Zenon
    <3> QED
      BY <1>1, <1>4, <1>6, <3>1
  <2> QED
    BY <1>1, <1>2, <2>1, <2>2, <2>3
<1>8. (q + 1) * c = q * c + c
  BY <1>1, <1>2, <1>7, Product, Zenon
<1>9. PICK r \in 1 .. m : r = q + 1 /\ r - 1 = q
  BY <1>1, <1>2, <1>7
<1>10. (r - 1) * c < j /\ j <= r * c
  BY <1>1, <1>2, <1>4, <1>8, <1>9
<1> QED
  BY <1>9, <1>10, Zenon DEF c, m

(* No position is in two chunks.                                           *)
LEMMA ChunksApart ==
  ASSUME NEW j \in Nat, NEW k \in Nat, NEW l \in Nat \ {0}, k < l,
         j <= k * ChunkSize, (l - 1) * ChunkSize < j
  PROVE  FALSE
<1> DEFINE c == ChunkSize
<1>1. c \in Nat \ {0}
  BY ChunkType, Zenon
<1> HIDE DEF c
<1>2. l - 1 \in Nat /\ k <= l - 1
  OBVIOUS
<1>3. k * c <= (l - 1) * c
  <2>1. CASE k = l - 1
    <3>1. k * c \in Nat
      BY <1>1
    <3> QED
      BY <2>1, <3>1
  <2>2. CASE k < l - 1
    <3>1. (k + 1) * c <= (l - 1) * c /\ (k + 1) * c = k * c + c
      BY <1>1, <1>2, <2>2, Product, Zenon
    <3>2. k * c \in Nat /\ (l - 1) * c \in Nat
      BY <1>1, <1>2
    <3> QED
      BY <1>1, <3>1, <3>2
  <2> QED
    BY <1>2, <2>1, <2>2
<1>4. k * c \in Nat /\ (l - 1) * c \in Nat
  BY <1>1, <1>2
<1>5. j <= k * c /\ (l - 1) * c < j
  BY Zenon DEF c
<1> QED
  BY <1>3, <1>4, <1>5

(* plan_batches() puts every host into exactly one batch.                  *)
LEMMA Partition ==
  ASSUME NEW h \in Hosts
  PROVE  /\ Slot(h) \in 4 .. N - 1
         /\ \A i \in 4 .. N - 1 : h \in Batch(i - 3) <=> Slot(h) = i
<1>1. PICK j \in DOMAIN Inventory : h = Inventory[j]
  BY Zenon DEF Hosts
<1>2. j \in 1 .. Len(Inventory) /\ DOMAIN Inventory = 1 .. Len(Inventory) /\ Len(Inventory) \in Nat
  BY InventoryAssumption
<1>3. PICK k \in 1 .. NumBatches : (k - 1) * ChunkSize < j /\ j <= k * ChunkSize
  BY <1>2, ChunkOf, Zenon
<1>4. NumBatches \in Nat /\ N = 4 + NumBatches
  BY ChunkType, BatchesAssumption, Zenon
<1>5. PICK i \in 4 .. N - 1 : i - 3 = k
  <2>1. k + 3 \in 4 .. N - 1 /\ (k + 3) - 3 = k
    BY <1>4
  <2> QED
    BY <2>1, Zenon
<1>6. h \in Batch(i - 3)
  BY <1>1, <1>3, <1>5, Zenon DEF Batch
<1>7. Slot(h) \in 4 .. N - 1 /\ h \in Batch(Slot(h) - 3)
  BY <1>5, <1>6, Zenon DEF Slot
<1>8. ASSUME NEW a \in 4 .. N - 1, NEW b \in 4 .. N - 1, h \in Batch(a - 3), h \in Batch(b - 3), a < b
      PROVE  FALSE
  <2>1. PICK x \in DOMAIN Inventory : h = Inventory[x] /\ x <= (a - 3) * ChunkSize
    BY <1>8, Zenon DEF Batch
  <2>2. PICK y \in DOMAIN Inventory : h = Inventory[y] /\ (b - 3 - 1) * ChunkSize < y
    BY <1>8, Zenon DEF Batch
  <2>3. x = y
    BY <2>1, <2>2, InventoryAssumption, Zenon
  <2>4. a - 3 \in Nat /\ b - 3 \in Nat \ {0} /\ a - 3 < b - 3 /\ x \in Nat
    BY <1>2, <1>4, <1>8
  <2> QED
    BY <2>1, <2>2, <2>3, <2>4, ChunksApart, Zenon
<1>9. ASSUME NEW l \in 4 .. N - 1, h \in Batch(l - 3) PROVE Slot(h) = l
  <2>1. Slot(h) < l \/ l < Slot(h) \/ Slot(h) = l
    BY <1>7, <1>4
  <2> QED
    BY <1>7, <1>8, <1>9, <2>1, Zenon
<1> QED
  BY <1>7, <1>9, Zenon

-----------------------------------------------------------------------------
(* There is one run, with at least four steps.                             *)
LEMMA TheRun == Self \in Procs /\ Procs = {Self} /\ N \in Nat /\ N >= 4
<1>1. Self \in Procs /\ Procs = {Self}
  BY OneRun, Zenon DEF Self
<1>2. N \in Nat /\ N >= 4
  BY ChunkType, BatchesAssumption
<1> QED
  BY <1>1, <1>2, Zenon

(* The engine inside the rollout is Saga's.                                *)
LEMMA EngineNext ==
  ASSUME SagaInv, [MHNext]_mhVars
  PROVE  SagaInv'
<1>1. MHNext => Run(Self) \/ Crash(Self) \/ UNCHANGED vars
  BY Zenon DEF MHNext, Work, Ended, mhVars, Engine, Inert, RunPreflight, RunFetch, RunVerify,
     InertUndo,
     RunMigrate, UndoMigrate, HostStep, BatchAdvanced, BatchFailed, FailedBatchRestored,
        BeginUndoBatch,
     EndUndoBatch, RecordLedger, Die, Run
<1>2. [Next]_vars
  BY <1>1, TheRun, Zenon DEF Next, mhVars
<1> QED
  BY <1>2, NextInv, Zenon

(* What the engine guarantees holds of the rollout.                        *)
LEMMA EngineInv == MHSpec => []SagaInv
<1>1. MHInit => SagaInv
  BY InitInv, Zenon DEF MHInit
<1>2. SagaInv /\ [MHNext]_mhVars => SagaInv'
  BY EngineNext, Zenon
<1> QED
  BY <1>1, <1>2, PTL DEF MHSpec

(* Where the engine takes the run.                                         *)
LEMMA ForwardMoves ==
  ASSUME SagaInv, Forward(Self)
  PROVE  /\ to[Self].tag = "Running" /\ to[Self].step \in 1 .. N
         /\ to[Self].step = N => to'[Self].tag = "Committed"
         /\ to[Self].step # N => to'[Self].tag = "Running" /\ to'[Self].step = to[Self].step + 1
BY TheRun, ForwardEnters, Zenon

(* A step that failed sends the run back, and is remembered.               *)
LEMMA ForwardFailsMoves ==
  ASSUME SagaInv, ForwardFails(Self)
  PROVE  /\ to[Self].tag = "Running" /\ to[Self].step \in 1 .. N
         /\ failed'[Self] = to[Self].step
         /\ to[Self].step = 1 => to'[Self].tag = "RolledBack"
         /\ to[Self].step # 1 => to'[Self].tag = "Compensating" /\ to'[Self].step = to[Self].step - 1
BY TheRun, ForwardFailsEnters, Zenon

(* A compensation hands over to the one of the step before.                *)
LEMMA CompensateMoves ==
  ASSUME SagaInv, Compensate(Self)
  PROVE  /\ to[Self].tag = "Compensating" /\ to[Self].step \in 1 .. N
         /\ failed'[Self] = failed[Self] /\ failed[Self] \in 1 .. N /\ failed[Self] > to[Self].step
         /\ to[Self].step = 1 => to'[Self].tag = "RolledBack"
         /\ to[Self].step # 1 => to'[Self].tag = "Compensating" /\ to'[Self].step = to[Self].step - 1
BY TheRun, CompensateEnters, Zenon

(* A compensation that failed ends the run.                                *)
LEMMA CompensateFailsMoves ==
  ASSUME SagaInv, CompensateFails(Self)
  PROVE  to[Self].tag = "Compensating" /\ to'[Self].tag = "PartialRollback"
BY TheRun, CompensateFailsEnters, Zenon

(* The other steps of the engine: the run enters its first step with the   *)
(* lock; it journals the state it is in; it ends.                          *)
LEMMA EngineMoves ==
  ASSUME SagaInv, Engine
  PROVE  \/ to[Self].tag = "Idle" /\ to'[Self].tag = "Running" /\ to'[Self].step = 1
         \/ /\ to'[Self] = to[Self] /\ failed'[Self] = failed[Self]
            /\ pc'[Self] \in {"event", "state"} => pc[Self] \in {"event", "state"}
            /\ pc'[Self] = "forward" => pc[Self] \in {"event", "state", "forward"}
<1>1. TypeOK /\ RunInv(Self)
  BY TheRun, Zenon DEF SagaInv
<1>2. CASE AcquireLock(Self)
  <2>1. to[Self].tag = "Idle"
    BY <1>1, <1>2, SMTT(30) DEF AcquireLock, RunInv, Idle, State
  <2>2. to'[Self] = State("Running", 0 + 1)
    BY <1>1, <1>2, TheRun DEF AcquireLock, Enter, TypeOK, AfterForward
  <2>3. to'[Self].tag = "Running" /\ to'[Self].step = 1
    BY <2>2 DEF State
  <2> QED
    BY <2>1, <2>3, Zenon
<1>3. CASE ~AcquireLock(Self)
  BY <1>1, <1>3, TheRun, Zenon
  DEF Engine, RecordEvent, RecordState, ReleaseLock, AcquireFails, StoreFails,
     ReleaseFails, TypeOK
<1> QED
  BY <1>2, <1>3, Zenon

(* A crash leaves the run in its state.                                    *)
LEMMA CrashMoves ==
  ASSUME SagaInv, Crash(Self)
  PROVE  /\ to'[Self] = to[Self] /\ failed'[Self] = failed[Self]
         /\ pc'[Self] = "dead"
BY TheRun, Zenon DEF Crash, SagaInv, TypeOK

-----------------------------------------------------------------------------
(* Types.                                                                  *)

(* Where migrations that fail, or whose process dies, leave the database.  *)
LEMMA HalfWayType ==
  ASSUME NEW x \in 0 .. 2, NEW y \in 0 .. 2
  PROVE  HalfWay(x, y) \subseteq 0 .. 2
BY DEF HalfWay

(* What the migration step migrates to is a revision.                      *)
LEMMA TargetType == FleetsOK => MigrateTarget \in 0 .. 2
<1>1. 2 \in 0 .. 2
  OBVIOUS
<1> QED
  BY <1>1, Zenon DEF FleetsOK, MigrateTarget

(* The first step back of a host is a place.                               *)
LEMMA FirstUndoType == \A h \in Hosts : FirstUndo(h) \in HostPlaces
BY Zenon DEF FirstUndo, HostPlaces

(* What a host does keeps the types.                                       *)
LEMMA HostTypes ==
  ASSUME FleetsOK, NEW h \in Hosts, HostSound(h), HostStep(h)
  PROVE  FleetsOK'
<1>1. UNCHANGED <<ownsDatabase, unrecoverable, prior, ledger, pool0, db, db0, prevRev, recorded>>
  BY Zenon DEF HostStep, dbVars, outerVars
<1>2. \A w \in HostPlaces : Go(h, w) => hpc' \in [Hosts -> HostPlaces]
  BY ZenonT(30) DEF Go, FleetsOK
<1>3. /\ {"drain reload", "activate", "restart", "health", "reattach"} \subseteq HostPlaces
      /\ {"reattach reload", "advanced", "failed", "undo drain reload"} \subseteq HostPlaces
      /\ {"undo activate", "undo restart", "undo reattach"} \subseteq HostPlaces
      /\ {"undo reattach reload", "restored", "unrestored"} \subseteq HostPlaces
  BY Zenon DEF HostPlaces
<1>4. hpc' \in [Hosts -> HostPlaces]
  BY <1>2, <1>3, Zenon
  DEF HostStep, ReloadOr, Drain, DrainReload, ActivateHost, RestartHost, CheckHealth,
     Reattach, ReattachReload, UndoDrain, UndoDrainReload, UndoActivate, UndoRestart, UndoReattach,
     UndoReattachReload
<1> USE DEF FleetsOK, progressVars, fleetVars, EditFile, Reload, ReloadOr
<1>5. CASE Drain(h)
  <2>1. captured' \in [Hosts -> {"no", "in", "down"}]
    BY <1>5, ZenonT(30) DEF Drain
  <2>2. conf' \in [Hosts -> {"in", "down"}]
    BY <1>5, Zenon DEF Drain
  <2> QED
    BY <1>1, <1>4, <1>5, <2>1, <2>2, Zenon DEF Drain
<1>6. CASE DrainReload(h)
  BY <1>1, <1>4, <1>6, Zenon DEF DrainReload
<1>7. CASE ActivateHost(h)
  BY <1>1, <1>4, <1>7, ZenonT(30) DEF ActivateHost
<1>8. CASE RestartHost(h)
  <2>1. running' \in [Hosts -> {New, Old, None}]
    BY <1>8, ZenonT(30) DEF RestartHost
  <2> QED
    BY <1>1, <1>4, <1>8, <2>1, Zenon DEF RestartHost
<1>9. CASE CheckHealth(h)
  BY <1>1, <1>4, <1>9, Zenon DEF CheckHealth
<1>10. CASE Reattach(h)
  <2>1. drained[h] \in {"in", "down"}
    BY <1>10, Zenon DEF Reattach, HostSound, HostOnward, Took
  <2>2. conf' \in [Hosts -> {"in", "down"}]
    BY <1>10, <2>1, Zenon DEF Reattach
  <2> QED
    BY <1>1, <1>4, <1>10, <2>2, Zenon DEF Reattach
<1>11. CASE ReattachReload(h)
  BY <1>1, <1>4, <1>11, Zenon DEF ReattachReload
<1>12. CASE UndoDrain(h)
  BY <1>1, <1>4, <1>12, Zenon DEF UndoDrain
<1>13. CASE UndoDrainReload(h)
  BY <1>1, <1>4, <1>13, Zenon DEF UndoDrainReload
<1>14. CASE UndoActivate(h)
  <2>1. PICK r \in {active[h], prior[h]} : active' = [active EXCEPT ![h] = r]
    BY <1>14, ZenonT(30) DEF UndoActivate
  <2>2. r \in {New, Old, None}
    BY <2>1, Zenon
  <2>3. active' \in [Hosts -> {New, Old, None}]
    BY <2>1, <2>2, Zenon
  <2> QED
    BY <1>1, <1>4, <1>14, <2>3, Zenon DEF UndoActivate
<1>15. CASE UndoRestart(h)
  <2>1. running' \in [Hosts -> {New, Old, None}]
    BY <1>15, Zenon DEF UndoRestart
  <2> QED
    BY <1>1, <1>4, <1>15, <2>1, Zenon DEF UndoRestart
<1>16. CASE UndoReattach(h)
  <2>1. drained[h] \in {"in", "down"}
    BY <1>16, Zenon DEF UndoReattach, HostSound, HostBack, Took
  <2>2. conf' \in [Hosts -> {"in", "down"}]
    BY <1>16, <2>1, Zenon DEF UndoReattach
  <2> QED
    BY <1>1, <1>4, <1>16, <2>2, Zenon DEF UndoReattach
<1>17. CASE UndoReattachReload(h)
  BY <1>1, <1>4, <1>17, Zenon DEF UndoReattachReload
<1> QED
  BY <1>5, <1>6, <1>7, <1>8, <1>9, <1>10, <1>11, <1>12, <1>13, <1>14, <1>15, <1>16, <1>17,
     ZenonT(30)
  DEF HostStep

(* So does every other step.                                               *)
LEMMA FleetTypes ==
  ASSUME FleetsOK, \A h \in Hosts : HostSound(h), MHNext
  PROVE  FleetsOK'
<1>1. CASE UNCHANGED <<hpc, progressVars, unrecoverable, fleetVars, dbVars, outerVars, reloadFailed>>
  BY <1>1, Zenon DEF FleetsOK, progressVars, fleetVars, dbVars, outerVars
<1>2. CASE \E h \in Hosts : HostStep(h)
  BY <1>2, HostTypes, Zenon
<1>3. CASE RunMigrate \/ UndoMigrate \/ Die
  <2>1. /\ UNCHANGED <<hpc, progressVars, unrecoverable, fleetVars, outerVars, reloadFailed>>
        /\ prevRev' \in {db, prevRev}
    BY <1>3, Zenon DEF RunMigrate, UndoMigrate, Die
  <2>2. db' \in {db, MigrateTarget, prevRev} \cup HalfWay(db, MigrateTarget) \cup HalfWay(db, prevRev)
    BY <1>3, Zenon DEF RunMigrate, UndoMigrate, Die
  <2>3. /\ HalfWay(db, MigrateTarget) \subseteq 0 .. 2
        /\ HalfWay(db, prevRev) \subseteq 0 .. 2
        /\ MigrateTarget \in 0 .. 2
    BY TargetType, HalfWayType, Zenon DEF FleetsOK
  <2>4. db' \in 0 .. 2 /\ prevRev' \in 0 .. 2
    BY <2>1, <2>2, <2>3, Zenon DEF FleetsOK
  <2> QED
    BY <2>1, <2>4, Zenon DEF FleetsOK, progressVars, fleetVars, outerVars
<1>4. CASE BatchFailed \/ BeginUndoBatch
  <2>1. /\ UNCHANGED <<progressVars, unrecoverable, fleetVars, dbVars, outerVars, reloadFailed>>
        /\ BeginRestore
    BY <1>4, Zenon DEF BatchFailed, BeginUndoBatch
  <2>2. hpc' \in [Hosts -> HostPlaces]
    BY <2>1, FirstUndoType, Zenon DEF BeginRestore, FleetsOK
  <2> QED
    BY <2>1, <2>2, Zenon DEF FleetsOK, progressVars, fleetVars, dbVars, outerVars
<1>5. CASE FailedBatchRestored
  <2>1. unrecoverable' \in BOOLEAN
    BY <1>5, Zenon DEF FailedBatchRestored
  <2> QED
    BY <1>5, <2>1, Zenon
    DEF FailedBatchRestored, FleetsOK, progressVars, fleetVars, dbVars, outerVars
<1>6. CASE RecordLedger
  <2>1. ledger' \in [Hosts -> {New, Old, None}] /\ recorded' \in {"no", "yes", "failed"}
    BY <1>6, Zenon DEF RecordLedger, FleetsOK
  <2> QED
    BY <1>6, <2>1, Zenon DEF RecordLedger, FleetsOK, progressVars, fleetVars, dbVars
<1> QED
  BY <1>1, <1>2, <1>3, <1>4, <1>5, <1>6, Zenon
  DEF MHNext, Work, Ended, mhVars, Engine, Inert, RunPreflight,
     RunFetch, RunVerify, InertUndo, BatchAdvanced, EndUndoBatch

-----------------------------------------------------------------------------
(* The hosts.                                                              *)

(* A reload for another host changes nothing of what is known of a host.   *)
LEMMA OtherHost ==
  ASSUME NEW g \in Hosts, HostSound(g), reloadFailed => reloadFailed',
         /\ hpc'[g] = hpc[g] /\ captured'[g] = captured[g] /\ drained'[g] = drained[g]
         /\ activated'[g] = activated[g] /\ reattached'[g] = reattached[g]
         /\ active'[g] = active[g] /\ running'[g] = running[g] /\ conf'[g] = conf[g]
         /\ live'[g] = live[g] \/ live'[g] = conf[g]
         /\ prior' = prior /\ pool0' = pool0
  PROVE  HostSound(g)'
<1>1. /\ OnOld(g) => OnOld(g)'
      /\ ServesOld(g) => ServesOld(g)'
      /\ OnNew(g) => OnNew(g)'
      /\ AtPool(g) => AtPool(g)'
      /\ OutOfPool(g) => OutOfPool(g)'
  BY Zenon DEF OnOld, ServesOld, ActivationFailed, OnNew, AtPool, OutOfPool
<1>2. HostOnward(g)'
  BY <1>1, Zenon DEF HostSound, HostOnward, Took
<1>3. HostFailed(g)'
  BY <1>1, Zenon DEF HostSound, HostFailed, Took
<1>4. HostBack(g)'
  BY <1>1, ZenonT(30) DEF HostSound, HostBack
<1> QED
  BY <1>2, <1>3, <1>4, Zenon DEF HostSound

(* One step of a host leaves it as its new place says.                     *)
LEMMA OwnHost ==
  ASSUME FleetsOK, NEW h \in Hosts, HostSound(h), HostStep(h)
  PROVE  HostSound(h)'
<1>1. UNCHANGED <<prior, pool0>>
  BY Zenon DEF HostStep, outerVars
<1>2. HostOnward(h) /\ HostFailed(h) /\ HostBack(h) /\ pool0[h] # "no"
  BY Zenon DEF HostSound, FleetsOK
<1> USE DEF progressVars, fleetVars, Go, EditFile, Reload, ReloadOr, Took, OnOld, ServesOld,
            ActivationFailed, OnNew, AtPool, OutOfPool
<1>3. CASE Drain(h)
  <2>1. HostOnward(h)'
    BY <1>1, <1>2, <1>3, ZenonT(30) DEF Drain, HostOnward, FleetsOK
  <2>2. HostFailed(h)'
    BY <1>1, <1>2, <1>3, Zenon DEF Drain, HostOnward, HostFailed, FleetsOK
  <2>3. HostBack(h)'
    BY <1>1, <1>2, <1>3, ZenonT(30) DEF Drain, HostOnward, HostBack, FleetsOK
  <2> QED
    BY <2>1, <2>2, <2>3, Zenon DEF HostSound
<1>4. CASE DrainReload(h)
  <2>1. HostOnward(h)'
    BY <1>1, <1>2, <1>4, ZenonT(30) DEF DrainReload, HostOnward, FleetsOK
  <2>2. HostFailed(h)'
    BY <1>1, <1>2, <1>4, Zenon DEF DrainReload, HostOnward, HostFailed, FleetsOK
  <2>3. HostBack(h)'
    BY <1>1, <1>2, <1>4, ZenonT(30) DEF DrainReload, HostOnward, HostBack, FleetsOK
  <2> QED
    BY <2>1, <2>2, <2>3, Zenon DEF HostSound
<1>5. CASE ActivateHost(h)
  <2>1. HostOnward(h)'
    BY <1>1, <1>2, <1>5, ZenonT(30) DEF ActivateHost, HostOnward, FleetsOK
  <2>2. HostFailed(h)'
    BY <1>1, <1>2, <1>5, Zenon DEF ActivateHost, HostOnward, HostFailed, FleetsOK
  <2>3. HostBack(h)'
    BY <1>1, <1>2, <1>5, ZenonT(30) DEF ActivateHost, HostOnward, HostBack, FleetsOK
  <2> QED
    BY <2>1, <2>2, <2>3, Zenon DEF HostSound
<1>6. CASE RestartHost(h)
  <2>1. HostOnward(h)'
    BY <1>1, <1>2, <1>6, ZenonT(30) DEF RestartHost, HostOnward, FleetsOK
  <2>2. HostFailed(h)'
    BY <1>1, <1>2, <1>6, Zenon DEF RestartHost, HostOnward, HostFailed, FleetsOK
  <2>3. HostBack(h)'
    BY <1>1, <1>2, <1>6, ZenonT(30) DEF RestartHost, HostOnward, HostBack, FleetsOK
  <2> QED
    BY <2>1, <2>2, <2>3, Zenon DEF HostSound
<1>7. CASE CheckHealth(h)
  <2>1. HostOnward(h)'
    BY <1>1, <1>2, <1>7, ZenonT(30) DEF CheckHealth, HostOnward, FleetsOK
  <2>2. HostFailed(h)'
    BY <1>1, <1>2, <1>7, Zenon DEF CheckHealth, HostOnward, HostFailed, FleetsOK
  <2>3. HostBack(h)'
    BY <1>1, <1>2, <1>7, ZenonT(30) DEF CheckHealth, HostOnward, HostBack, FleetsOK
  <2> QED
    BY <2>1, <2>2, <2>3, Zenon DEF HostSound
<1>8. CASE Reattach(h)
  <2>1. HostOnward(h)'
    BY <1>1, <1>2, <1>8, ZenonT(30) DEF Reattach, HostOnward, FleetsOK
  <2>2. HostFailed(h)'
    BY <1>1, <1>2, <1>8, Zenon DEF Reattach, HostOnward, HostFailed, FleetsOK
  <2>3. HostBack(h)'
    BY <1>1, <1>2, <1>8, ZenonT(30) DEF Reattach, HostOnward, HostBack, FleetsOK
  <2> QED
    BY <2>1, <2>2, <2>3, Zenon DEF HostSound
<1>9. CASE ReattachReload(h)
  <2>1. HostOnward(h)'
    BY <1>1, <1>2, <1>9, ZenonT(30) DEF ReattachReload, HostOnward, FleetsOK
  <2>2. HostFailed(h)'
    BY <1>1, <1>2, <1>9, Zenon DEF ReattachReload, HostOnward, HostFailed, FleetsOK
  <2>3. HostBack(h)'
    BY <1>1, <1>2, <1>9, ZenonT(30) DEF ReattachReload, HostOnward, HostBack, FleetsOK
  <2> QED
    BY <2>1, <2>2, <2>3, Zenon DEF HostSound
<1>10. CASE UndoDrain(h)
  <2>1. HostOnward(h)'
    BY <1>1, <1>2, <1>10, ZenonT(30) DEF UndoDrain, HostOnward, FleetsOK
  <2>2. HostFailed(h)'
    BY <1>1, <1>2, <1>10, Zenon DEF UndoDrain, HostOnward, HostFailed, FleetsOK
  <2>3. HostBack(h)'
    BY <1>1, <1>2, <1>10, ZenonT(30) DEF UndoDrain, HostOnward, HostBack, FleetsOK
  <2> QED
    BY <2>1, <2>2, <2>3, Zenon DEF HostSound
<1>11. CASE UndoDrainReload(h)
  <2>1. HostOnward(h)'
    BY <1>1, <1>2, <1>11, ZenonT(30) DEF UndoDrainReload, HostOnward, FleetsOK
  <2>2. HostFailed(h)'
    BY <1>1, <1>2, <1>11, Zenon DEF UndoDrainReload, HostOnward, HostFailed, FleetsOK
  <2>3. HostBack(h)'
    BY <1>1, <1>2, <1>11, ZenonT(30) DEF UndoDrainReload, HostOnward, HostBack, FleetsOK
  <2> QED
    BY <2>1, <2>2, <2>3, Zenon DEF HostSound
<1>12. CASE UndoActivate(h)
  <2>1. HostOnward(h)'
    BY <1>1, <1>2, <1>12, ZenonT(30) DEF UndoActivate, HostOnward, FleetsOK
  <2>2. HostFailed(h)'
    BY <1>1, <1>2, <1>12, Zenon DEF UndoActivate, HostOnward, HostFailed, FleetsOK
  <2>3. HostBack(h)'
    BY <1>1, <1>2, <1>12, ZenonT(30) DEF UndoActivate, HostOnward, HostBack, FleetsOK
  <2> QED
    BY <2>1, <2>2, <2>3, Zenon DEF HostSound
<1>13. CASE UndoRestart(h)
  <2>1. HostOnward(h)'
    BY <1>1, <1>2, <1>13, ZenonT(30) DEF UndoRestart, HostOnward, FleetsOK
  <2>2. HostFailed(h)'
    BY <1>1, <1>2, <1>13, Zenon DEF UndoRestart, HostOnward, HostFailed, FleetsOK
  <2>3. HostBack(h)'
    BY <1>1, <1>2, <1>13, ZenonT(30) DEF UndoRestart, HostOnward, HostBack, FleetsOK
  <2> QED
    BY <2>1, <2>2, <2>3, Zenon DEF HostSound
<1>14. CASE UndoReattach(h)
  <2>1. HostOnward(h)'
    BY <1>1, <1>2, <1>14, ZenonT(30) DEF UndoReattach, HostOnward, FleetsOK
  <2>2. HostFailed(h)'
    BY <1>1, <1>2, <1>14, Zenon DEF UndoReattach, HostOnward, HostFailed, FleetsOK
  <2>3. HostBack(h)'
    BY <1>1, <1>2, <1>14, ZenonT(30) DEF UndoReattach, HostOnward, HostBack, FleetsOK
  <2> QED
    BY <2>1, <2>2, <2>3, Zenon DEF HostSound
<1>15. CASE UndoReattachReload(h)
  <2>1. HostOnward(h)'
    BY <1>1, <1>2, <1>15, ZenonT(30) DEF UndoReattachReload, HostOnward, FleetsOK
  <2>2. HostFailed(h)'
    BY <1>1, <1>2, <1>15, Zenon DEF UndoReattachReload, HostOnward, HostFailed, FleetsOK
  <2>3. HostBack(h)'
    BY <1>1, <1>2, <1>15, ZenonT(30) DEF UndoReattachReload, HostOnward, HostBack, FleetsOK
  <2> QED
    BY <2>1, <2>2, <2>3, Zenon DEF HostSound
<1> QED
  BY <1>3, <1>4, <1>5, <1>6, <1>7, <1>8, <1>9, <1>10, <1>11, <1>12, <1>13, <1>14, <1>15, ZenonT(30)
  DEF HostStep

(* What a step of one host leaves alone.                                   *)
LEMMA StepOfOther ==
  ASSUME FleetsOK, NEW h \in Hosts, NEW g \in Hosts, g # h, HostStep(h)
  PROVE  /\ hpc'[g] = hpc[g] /\ captured'[g] = captured[g] /\ drained'[g] = drained[g]
         /\ activated'[g] = activated[g] /\ reattached'[g] = reattached[g]
         /\ active'[g] = active[g] /\ running'[g] = running[g] /\ conf'[g] = conf[g]
         /\ live'[g] = live[g] \/ live'[g] = conf[g]
         /\ reloadFailed => reloadFailed'
<1> USE DEF progressVars, fleetVars, Go, EditFile, Reload, ReloadOr, FleetsOK
<1>1. CASE Drain(h) \/ DrainReload(h)
  BY <1>1, ZenonT(30) DEF Drain, DrainReload
<1>2. CASE ActivateHost(h) \/ RestartHost(h) \/ CheckHealth(h)
  BY <1>2, ZenonT(30) DEF ActivateHost, RestartHost, CheckHealth
<1>3. CASE Reattach(h) \/ ReattachReload(h)
  BY <1>3, ZenonT(30) DEF Reattach, ReattachReload
<1>4. CASE UndoDrain(h) \/ UndoDrainReload(h) \/ UndoActivate(h) \/ UndoRestart(h)
  BY <1>4, ZenonT(30) DEF UndoDrain, UndoDrainReload, UndoActivate, UndoRestart
<1>5. CASE UndoReattach(h) \/ UndoReattachReload(h)
  BY <1>5, ZenonT(30) DEF UndoReattach, UndoReattachReload
<1> QED
  BY <1>1, <1>2, <1>3, <1>4, <1>5, Zenon DEF HostStep

(* A host that is asked to go back starts where restore_host finds what    *)
(* advance_host has noted.                                                 *)
LEMMA RestoreBegins ==
  ASSUME FleetsOK, \A h \in Hosts : HostSound(h), AllAt({"advanced", "failed"}), BeginRestore,
         UNCHANGED <<progressVars, fleetVars, prior, pool0, reloadFailed>>
  PROVE  \A h \in Hosts : HostSound(h)'
<1> SUFFICES ASSUME NEW h \in Hosts PROVE HostSound(h)'
  BY Zenon
<1>1. HostSound(h) /\ pool0[h] # "no"
  BY Zenon DEF FleetsOK
<1>2. CASE h \notin Current
  <2>1. hpc'[h] = hpc[h]
    BY <1>2, Zenon DEF BeginRestore
  <2> QED
    BY <1>1, <2>1, OtherHost, Zenon DEF progressVars, fleetVars
<1>3. CASE h \in Current
  <2> USE DEF progressVars, fleetVars, Took, OnOld, ServesOld, ActivationFailed, OnNew, AtPool,
              OutOfPool
  <2>1. hpc'[h] = FirstUndo(h) /\ hpc[h] \in {"advanced", "failed"}
    BY <1>3, Zenon DEF BeginRestore, AllAt
  <2>2. CASE hpc[h] = "advanced"
    <3>1. hpc'[h] = "undo drain"
      BY <1>1, <2>1, <2>2, Zenon DEF FirstUndo, HostSound, HostOnward
    <3> QED
      BY <1>1, <2>2, <3>1, Zenon DEF HostSound, HostOnward, HostFailed, HostBack
  <2>3. CASE hpc[h] = "failed" /\ drained[h] = "no"
    <3>1. hpc'[h] = "restored"
      BY <2>1, <2>3, Zenon DEF FirstUndo
    <3>2. OnOld(h) /\ (~reloadFailed => AtPool(h))
      BY <1>1, <2>3, Zenon DEF HostSound, HostFailed
    <3> QED
      BY <3>1, <3>2, Zenon DEF HostSound, HostOnward, HostFailed, HostBack
  <2>4. CASE hpc[h] = "failed" /\ drained[h] # "no" /\ ~activated[h]
    <3>1. drained[h] = pool0[h] /\ ~reattached[h] /\ ServesOld(h)
      BY <1>1, <2>4, Zenon DEF HostSound, HostFailed
    <3>2. hpc'[h] = "undo reattach"
      BY <2>1, <2>4, <3>1, Zenon DEF FirstUndo
    <3> QED
      BY <3>1, <3>2, Zenon DEF HostSound, HostOnward, HostFailed, HostBack
  <2>5. CASE hpc[h] = "failed" /\ drained[h] # "no" /\ activated[h]
    <3>1. drained[h] = pool0[h] /\ ~reattached[h] /\ (~reloadFailed => OutOfPool(h))
      BY <1>1, <2>5, Zenon DEF HostSound, HostFailed
    <3>2. hpc'[h] = "undo activate"
      BY <2>1, <2>5, <3>1, Zenon DEF FirstUndo
    <3> QED
      BY <3>1, <3>2, Zenon DEF HostSound, HostOnward, HostFailed, HostBack
  <2> QED
    BY <2>1, <2>2, <2>3, <2>4, <2>5, Zenon
<1> QED
  BY <1>2, <1>3, Zenon

(* Which steps leave the hosts alone.                                      *)
LEMMA HostsRest ==
  ASSUME MHNext
  PROVE  \/ \E h \in Hosts : HostStep(h)
         \/ BatchFailed \/ BeginUndoBatch
         \/ UNCHANGED <<hpc, progressVars, fleetVars, reloadFailed, prior, pool0>>
BY Zenon DEF MHNext, Work, Ended, mhVars, Engine, Inert, RunPreflight, RunFetch, RunVerify,
   InertUndo,
   RunMigrate, UndoMigrate, BatchAdvanced, FailedBatchRestored, EndUndoBatch, RecordLedger, Die,
      outerVars

(* No action separates the place of a host from what the run knows of it.  *)
LEMMA HostsSound ==
  ASSUME FleetsOK, \A h \in Hosts : HostSound(h), MHNext
  PROVE  \A h \in Hosts : HostSound(h)'
<1>1. ASSUME NEW h \in Hosts, HostStep(h) PROVE \A g \in Hosts : HostSound(g)'
  <2> SUFFICES ASSUME NEW g \in Hosts PROVE HostSound(g)'
    BY Zenon
  <2>1. CASE g = h
    BY <1>1, <2>1, OwnHost, Zenon
  <2>2. CASE g # h
    <3>1. UNCHANGED <<prior, pool0>>
      BY <1>1, Zenon DEF HostStep, outerVars
    <3> QED
      BY <1>1, <2>2, <3>1, StepOfOther, OtherHost, Zenon
  <2> QED
    BY <2>1, <2>2, Zenon
<1>2. CASE BatchFailed \/ BeginUndoBatch
  <2>1. /\ AllAt({"advanced", "failed"}) /\ BeginRestore
        /\ UNCHANGED <<progressVars, fleetVars, prior, pool0, reloadFailed>>
    BY <1>2, Zenon DEF BatchFailed, BeginUndoBatch, AllAt, outerVars
  <2> QED
    BY <2>1, RestoreBegins, Zenon
<1>3. CASE UNCHANGED <<hpc, progressVars, fleetVars, reloadFailed, prior, pool0>>
  BY <1>3, OtherHost, ZenonT(30) DEF progressVars, fleetVars
<1> QED
  BY <1>1, <1>2, <1>3, HostsRest, Zenon

-----------------------------------------------------------------------------
(* Where the hosts are.  Each way the run can go keeps them in step with   *)
(* the saga's state.                                                       *)

(* A rollout step succeeds once the hosts of its batch have advanced.      *)
LEMMA PlacedForward ==
  ASSUME SagaInv, NEW h \in Hosts, Placed(h), Forward(Self), hpc'[h] = hpc[h],
         Slot(h) = to[Self].step => hpc[h] = "advanced"
  PROVE  Placed(h)'
<1>1. Slot(h) \in 4 .. N - 1 /\ N \in Nat
  BY Partition, TheRun, Zenon
<1>2. /\ to[Self].tag = "Running" /\ to[Self].step \in 1 .. N
      /\ to[Self].step = N => to'[Self].tag = "Committed"
      /\ to[Self].step # N => to'[Self].tag = "Running" /\ to'[Self].step = to[Self].step + 1
  BY ForwardMoves, Zenon
<1>3. /\ Slot(h) < to[Self].step => hpc[h] = "advanced"
      /\ Slot(h) > to[Self].step => hpc[h] = "idle"
  BY <1>2, ZenonT(30) DEF Placed
<1> QED
  BY <1>1, <1>2, <1>3 DEF Placed

(* A rollout step fails once the hosts of its batch are restored or given  *)
(* up.                                                                     *)
LEMMA PlacedForwardFails ==
  ASSUME SagaInv, NEW h \in Hosts, Placed(h), ForwardFails(Self), hpc'[h] = hpc[h],
         Slot(h) = to[Self].step =>
             hpc[h] = "restored" \/ (hpc[h] = "unrestored" /\ unrecoverable')
  PROVE  Placed(h)'
<1>1. Slot(h) \in 4 .. N - 1 /\ N \in Nat
  BY Partition, TheRun, Zenon
<1>2. /\ to[Self].tag = "Running" /\ to[Self].step \in 1 .. N
      /\ failed'[Self] = to[Self].step
      /\ to[Self].step = 1 => to'[Self].tag = "RolledBack"
      /\ to[Self].step # 1 => to'[Self].tag = "Compensating" /\ to'[Self].step = to[Self].step - 1
  BY ForwardFailsMoves, Zenon
<1>3. /\ Slot(h) < to[Self].step => hpc[h] = "advanced"
      /\ Slot(h) > to[Self].step => hpc[h] = "idle"
  BY <1>2, Zenon DEF Placed
<1> QED
  BY <1>1, <1>2, <1>3 DEF Placed, Undone

(* A batch is compensated once its hosts are restored.                     *)
LEMMA PlacedCompensate ==
  ASSUME SagaInv, NEW h \in Hosts, Placed(h), Compensate(Self), hpc'[h] = hpc[h],
         unrecoverable' = unrecoverable,
         Slot(h) = to[Self].step => hpc[h] = "restored"
  PROVE  Placed(h)'
<1>1. Slot(h) \in 4 .. N - 1 /\ N \in Nat
  BY Partition, TheRun, Zenon
<1>2. /\ to[Self].tag = "Compensating" /\ to[Self].step \in 1 .. N
      /\ failed'[Self] = failed[Self] /\ failed[Self] \in 1 .. N /\ failed[Self] > to[Self].step
      /\ to[Self].step = 1 => to'[Self].tag = "RolledBack"
      /\ to[Self].step # 1 => to'[Self].tag = "Compensating" /\ to'[Self].step = to[Self].step - 1
  BY CompensateMoves, Zenon
<1>3. /\ Slot(h) < to[Self].step => hpc[h] = "advanced"
      /\ Slot(h) > to[Self].step => Undone(h)
  BY <1>2, ZenonT(30) DEF Placed
<1>4. Slot(h) >= to[Self].step => Undone(h)'
  <2>1. Slot(h) = to[Self].step => Slot(h) < failed[Self] /\ hpc[h] = "restored"
    BY <1>1, <1>2, ZenonT(30)
  <2>2. Slot(h) = to[Self].step => Undone(h)'
    BY <1>1, <1>2, <2>1 DEF Undone
  <2>3. Slot(h) > to[Self].step => Undone(h)'
    BY <1>2, <1>3, ZenonT(30) DEF Undone
  <2> QED
    BY <1>1, <1>2, <2>2, <2>3, SMTT(30)
<1>5. to[Self].step = 1 => Placed(h)'
  BY <1>1, <1>2, <1>4, SMTT(30) DEF Placed
<1>6. to[Self].step # 1 => Placed(h)'
  BY <1>1, <1>2, <1>3, <1>4, SMTT(30) DEF Placed
<1> QED
  BY <1>5, <1>6, Zenon

(* A partial rollback says nothing of the hosts.                           *)
LEMMA PlacedCompensateFails ==
  ASSUME SagaInv, NEW h \in Hosts, CompensateFails(Self)
  PROVE  Placed(h)'
BY CompensateFailsMoves, Zenon DEF Placed

(* The engine journals, or the run dies, or its hosts work.                *)
LEMMA PlacedStays ==
  ASSUME NEW h \in Hosts, Placed(h), unrecoverable' = unrecoverable,
         to'[Self] = to[Self], failed'[Self] = failed[Self],
         pc'[Self] \in {"event", "state"} => pc[Self] \in {"event", "state"},
         hpc'[h] # hpc[h] => Slot(h) = to[Self].step /\ pc'[Self] \notin {"event", "state"}
                             /\ to[Self].tag \in {"Running", "Compensating"}
  PROVE  Placed(h)'
<1>1. CASE hpc'[h] = hpc[h]
  BY <1>1, Zenon DEF Placed, Undone
<1>2. CASE hpc'[h] # hpc[h]
  <2>1. Slot(h) \in 4 .. N - 1 /\ N \in Nat
    BY Partition, TheRun, ZenonT(30)
  <2>2. ~(Slot(h) < to[Self].step) /\ ~(Slot(h) > to[Self].step)
    BY <1>2, <2>1
  <2> QED
    BY <1>2, <2>2, Zenon DEF Placed
<1> QED
  BY <1>1, <1>2, Zenon

(* The batch at work is that of the step.                                  *)
LEMMA InBatch ==
  ASSUME SagaInv, IsRollout(to[Self].step), NEW h \in Hosts
  PROVE  h \in Current <=> Slot(h) = to[Self].step
<1>1. to[Self] \in SagaStates
  BY TheRun, Zenon DEF SagaInv, TypeOK
<1>2. to[Self].step \in 0 .. N
  BY <1>1, Zenon DEF SagaStates
<1>3. to[Self].step \in 4 .. N - 1
  BY <1>2, TheRun DEF IsRollout
<1> QED
  BY <1>3, Partition, Zenon DEF Current

(* Steps other than rollout steps are nobody's.                            *)
LEMMA NotRollout ==
  ASSUME NEW h \in Hosts
  PROVE  Slot(h) # 1 /\ Slot(h) # 2 /\ Slot(h) # 3 /\ Slot(h) # N
<1>1. Slot(h) \in 4 .. N - 1 /\ N \in Nat
  BY Partition, TheRun, Zenon
<1> QED
  BY <1>1

(* A host at work: the run is in the middle of the step of its batch.      *)
LEMMA AtWork ==
  ASSUME SagaInv, Advancing \/ \E i \in 4 .. N - 1 : Undoing(i)
  PROVE  /\ IsRollout(to[Self].step) /\ pc[Self] \in {"forward", "compensate"}
         /\ to[Self].tag \in {"Running", "Compensating"}
<1>1. RunInv(Self)
  BY TheRun, Zenon DEF SagaInv
<1>2. \A i \in 4 .. N - 1 : IsRollout(i)
  BY TheRun DEF IsRollout
<1> QED
  BY <1>1, <1>2, Zenon DEF RunInv, Advancing, Undoing

(* No action takes a host from where the saga has it.                      *)
LEMMA PlacedNext ==
  ASSUME SagaInv, FleetsOK, \A h \in Hosts : Placed(h), MHNext
  PROVE  \A h \in Hosts : Placed(h)'
<1> SUFFICES ASSUME NEW h \in Hosts PROVE Placed(h)'
  BY Zenon
<1>1. Placed(h) /\ Slot(h) # 1 /\ Slot(h) # 2 /\ Slot(h) # 3 /\ Slot(h) # N
  BY NotRollout, Zenon
<1>2. CASE Engine
  <2>1. hpc'[h] = hpc[h] /\ unrecoverable' = unrecoverable
    BY <1>2, Zenon DEF Engine
  <2>2. CASE to[Self].tag = "Idle" /\ to'[Self].tag = "Running" /\ to'[Self].step = 1
    <3>1. Slot(h) \in 4 .. N - 1 /\ N \in Nat
      BY Partition, TheRun, Zenon
    <3>2. ~(Slot(h) < 1)
      BY <3>1
    <3> QED
      BY <1>1, <2>1, <2>2, <3>2, Zenon DEF Placed
  <2> QED
    BY <1>1, <1>2, <2>1, <2>2, EngineMoves, PlacedStays, ZenonT(30)
<1>3. CASE RunPreflight \/ RunFetch \/ RunVerify \/ RunMigrate
  <2>1. /\ hpc'[h] = hpc[h] /\ Slot(h) # to[Self].step
        /\ Forward(Self) \/ ForwardFails(Self)
    BY <1>1, <1>3, Zenon
    DEF RunPreflight, RunFetch, RunVerify, Inert, RunMigrate, At, Fetch, Verify, Migrate
  <2> QED
    BY <1>1, <2>1, PlacedForward, PlacedForwardFails, Zenon
<1>4. CASE InertUndo \/ UndoMigrate
  <2>1. /\ hpc'[h] = hpc[h] /\ Slot(h) # to[Self].step /\ unrecoverable' = unrecoverable
        /\ Compensate(Self) \/ CompensateFails(Self)
    BY <1>1, <1>4, Zenon DEF InertUndo, UndoMigrate, Undoing, Fetch, Verify, Migrate
  <2> QED
    BY <1>1, <2>1, PlacedCompensate, PlacedCompensateFails, Zenon
<1>5. ASSUME NEW g \in Hosts, HostStep(g) PROVE Placed(h)'
  <2>1. /\ g \in Current /\ IsRollout(to[Self].step) /\ pc[Self] \in {"forward", "compensate"}
        /\ unrecoverable' = unrecoverable /\ pc' = pc /\ to' = to /\ failed' = failed
    BY <1>5, Zenon DEF HostStep, Advancing, vars, runVars
  <2>2. Slot(g) = to[Self].step
    BY <2>1, InBatch, ZenonT(30)
  <2>3. to[Self].tag \in {"Running", "Compensating"}
    BY <2>1, TheRun, ZenonT(30) DEF SagaInv, RunInv
  <2>4. hpc'[h] # hpc[h] => h = g
    BY <1>5, StepOfOther, Zenon
  <2> QED
    BY <1>1, <2>1, <2>2, <2>3, <2>4, PlacedStays, ZenonT(30)
<1>6. CASE BatchFailed \/ BeginUndoBatch
  <2>1. /\ IsRollout(to[Self].step) /\ pc[Self] \in {"forward", "compensate"}
        /\ to[Self].tag \in {"Running", "Compensating"}
    BY <1>6, AtWork, Zenon DEF BatchFailed, BeginUndoBatch
  <2>2. /\ BeginRestore /\ unrecoverable' = unrecoverable
        /\ pc' = pc /\ to' = to /\ failed' = failed
    BY <1>6, Zenon DEF BatchFailed, BeginUndoBatch, vars, runVars
  <2>3. hpc'[h] # hpc[h] => h \in Current
    BY <2>2, Zenon DEF BeginRestore
  <2> QED
    BY <1>1, <2>1, <2>2, <2>3, InBatch, PlacedStays, ZenonT(30)
<1>7. CASE BatchAdvanced
  <2>1. /\ IsRollout(to[Self].step) /\ hpc'[h] = hpc[h] /\ Forward(Self)
        /\ h \in Current => hpc[h] = "advanced"
    BY <1>7, Zenon DEF BatchAdvanced, Advancing, AllAt
  <2> QED
    BY <1>1, <2>1, InBatch, PlacedForward, Zenon
<1>8. CASE FailedBatchRestored
  <2>1. /\ IsRollout(to[Self].step) /\ hpc'[h] = hpc[h] /\ ForwardFails(Self)
        /\ h \in Current => hpc[h] = "restored" \/ (hpc[h] = "unrestored" /\ unrecoverable')
    BY <1>8, Zenon DEF FailedBatchRestored, Advancing, AllAt
  <2> QED
    BY <1>1, <2>1, InBatch, PlacedForwardFails, Zenon
<1>9. CASE EndUndoBatch
  <2>1. IsRollout(to[Self].step)
    BY <1>9, AtWork, Zenon DEF EndUndoBatch
  <2>2. /\ hpc'[h] = hpc[h] /\ unrecoverable' = unrecoverable
        /\ \/ Compensate(Self) /\ (h \in Current => hpc[h] = "restored")
           \/ CompensateFails(Self)
    BY <1>9, Zenon DEF EndUndoBatch, AllAt
  <2> QED
    BY <1>1, <2>1, <2>2, InBatch, PlacedCompensate, PlacedCompensateFails, ZenonT(30)
<1>10. CASE Die
  <2>1. hpc'[h] = hpc[h] /\ unrecoverable' = unrecoverable /\ Crash(Self)
    BY <1>10, Zenon DEF Die
  <2> QED
    BY <1>1, <2>1, CrashMoves, PlacedStays, ZenonT(30)
<1>11. CASE RecordLedger \/ Ended
  <2>1. UNCHANGED <<hpc, unrecoverable, pc, to, failed>>
    BY <1>11, Zenon DEF RecordLedger, Ended, mhVars, vars, runVars
  <2> QED
    BY <1>1, <2>1, PlacedStays, Zenon
<1> QED
  BY <1>2, <1>3, <1>4, <1>5, <1>6, <1>7, <1>8, <1>9, <1>10, <1>11, ZenonT(30) DEF MHNext, Work

-----------------------------------------------------------------------------
(* The database.                                                           *)

(* Half of the way from a revision to itself is no way at all.             *)
LEMMA NoWay == \A x \in 0 .. 2 : HalfWay(x, x) = {x}
BY DEF HalfWay

(* A step of the engine that is no migration.                              *)
LEMMA MigratedElsewhere ==
  ASSUME SagaInv, Migrated, UNCHANGED <<db, prevRev, ownsDatabase, db0>>,
         \/ (Forward(Self) \/ ForwardFails(Self) \/ Compensate(Self)) /\ to[Self].step # 3
         \/ CompensateFails(Self)
  PROVE  Migrated'
<1>1. N \in Nat /\ N >= 4
  BY TheRun, ZenonT(30)
<1>2. CASE Forward(Self) /\ to[Self].step # 3
  <2>1. /\ to[Self].tag = "Running" /\ to[Self].step \in 1 .. N
        /\ to[Self].step = N => to'[Self].tag = "Committed"
        /\ to[Self].step # N => to'[Self].tag = "Running" /\ to'[Self].step = to[Self].step + 1
    BY <1>2, ForwardMoves, Zenon
  <2>2. /\ ~ownsDatabase => db = db0
        /\ to[Self].step < 3 => db = db0
        /\ to[Self].step > 3 => prevRev = db0 /\ (ownsDatabase => db = 2)
    BY <2>1, ZenonT(30) DEF Migrated
  <2> QED
    BY <1>1, <1>2, <2>1, <2>2, SMTT(30) DEF Migrated
<1>3. CASE ForwardFails(Self) /\ to[Self].step # 3
  <2>1. /\ to[Self].tag = "Running" /\ to[Self].step \in 1 .. N
        /\ failed'[Self] = to[Self].step
        /\ to[Self].step = 1 => to'[Self].tag = "RolledBack"
        /\ to[Self].step # 1 => to'[Self].tag = "Compensating" /\ to'[Self].step = to[Self].step - 1
    BY <1>3, ForwardFailsMoves, Zenon
  <2>2. /\ ~ownsDatabase => db = db0
        /\ to[Self].step < 3 => db = db0
        /\ to[Self].step > 3 => prevRev = db0
    BY <2>1, ZenonT(30) DEF Migrated
  <2> QED
    BY <1>1, <1>3, <2>1, <2>2 DEF Migrated
<1>4. CASE Compensate(Self) /\ to[Self].step # 3
  <2>1. /\ to[Self].tag = "Compensating" /\ to[Self].step \in 1 .. N
        /\ failed'[Self] = failed[Self]
        /\ to[Self].step = 1 => to'[Self].tag = "RolledBack"
        /\ to[Self].step # 1 => to'[Self].tag = "Compensating" /\ to'[Self].step = to[Self].step - 1
    BY <1>4, CompensateMoves, Zenon
  <2>2. /\ ~ownsDatabase => db = db0
        /\ to[Self].step < 3 /\ failed[Self] # 3 => db = db0
        /\ to[Self].step >= 3 => prevRev = db0
    BY <2>1, Zenon DEF Migrated
  <2> QED
    BY <1>1, <1>4, <2>1, <2>2, SMTT(30) DEF Migrated
<1>5. CASE CompensateFails(Self)
  BY <1>5, CompensateFailsMoves, Zenon DEF Migrated
<1> QED
  BY <1>2, <1>3, <1>4, <1>5, Zenon

(* run_migrate() and its compensation.                                     *)
LEMMA MigratedHere ==
  ASSUME SagaInv, FleetsOK, Migrated, RunMigrate \/ UndoMigrate
  PROVE  Migrated'
<1>1. N \in Nat /\ N >= 4
  BY TheRun, Zenon
<1>2. UNCHANGED <<ownsDatabase, db0>> /\ to[Self].step = 3
  BY Zenon DEF RunMigrate, UndoMigrate, outerVars, At, Undoing, Migrate
<1>3. CASE RunMigrate
  <2>1. pc[Self] = "forward" /\ to[Self].tag = "Running"
    BY <1>3, TheRun, ZenonT(30) DEF RunMigrate, At, SagaInv, RunInv
  <2>2. db = db0 /\ prevRev' = db0
    BY <1>2, <1>3, <2>1, Zenon DEF RunMigrate, Migrated
  <2>3. ~ownsDatabase => db' = db0
    BY <1>3, <2>2, NoWay, ZenonT(30) DEF RunMigrate, MigrateTarget, FleetsOK
  <2>4. CASE Forward(Self)
    <3>1. to'[Self].tag = "Running" /\ to'[Self].step = 4
      <4>1. 3 # N /\ 3 + 1 = 4
        BY <1>1
      <4> QED
        BY <1>2, <2>4, <4>1, ForwardMoves, Zenon
    <3>2. ownsDatabase => db' = 2
      <4>1. ~ForwardFails(Self)
        BY <3>1, ForwardFailsMoves, Zenon
      <4> QED
        BY <1>3, <4>1, Zenon DEF RunMigrate, MigrateTarget
    <3>3. ~(4 < 3) /\ 4 # 3
      OBVIOUS
    <3> QED
      BY <1>2, <2>2, <2>3, <3>1, <3>2, <3>3, Zenon DEF Migrated
  <2>5. CASE ForwardFails(Self)
    <3>1. to'[Self].tag = "Compensating" /\ to'[Self].step = 2 /\ failed'[Self] = 3
      <4>1. 3 # 1 /\ 3 - 1 = 2
        OBVIOUS
      <4> QED
        BY <1>2, <2>5, <4>1, ForwardFailsMoves, Zenon
    <3>2. ~(2 >= 3)
      OBVIOUS
    <3> QED
      BY <1>2, <2>3, <3>1, <3>2, Zenon DEF Migrated
  <2> QED
    BY <1>3, <2>4, <2>5, ZenonT(30) DEF RunMigrate
<1>4. CASE UndoMigrate
  <2>1. prevRev' = prevRev
    BY <1>4, Zenon DEF UndoMigrate
  <2>2. CASE Compensate(Self) /\ db' = (IF ownsDatabase THEN prevRev ELSE db)
    <3>1. /\ to[Self].tag = "Compensating"
          /\ to'[Self].tag = "Compensating" /\ to'[Self].step = 2
      <4>1. 3 # 1 /\ 3 - 1 = 2
        OBVIOUS
      <4> QED
        BY <1>2, <2>2, <4>1, CompensateMoves, Zenon
    <3>2. prevRev = db0 /\ (~ownsDatabase => db = db0)
      <4>1. 3 >= 3
        OBVIOUS
      <4> QED
        BY <1>2, <3>1, <4>1, Zenon DEF Migrated
    <3>3. db' = db0
      BY <2>2, <3>2, Zenon
    <3>4. ~(2 >= 3)
      OBVIOUS
    <3> QED
      BY <1>2, <3>1, <3>3, <3>4, Zenon DEF Migrated
  <2>3. CASE ownsDatabase /\ CompensateFails(Self)
    BY <1>2, <2>3, CompensateFailsMoves, Zenon DEF Migrated
  <2> QED
    BY <1>4, <2>2, <2>3, Zenon DEF UndoMigrate
<1> QED
  BY <1>3, <1>4, Zenon

(* The process dies, in the middle of a migration too.                     *)
LEMMA MigratedDies ==
  ASSUME SagaInv, FleetsOK, Migrated, Die
  PROVE  Migrated'
<1>1. /\ to'[Self] = to[Self] /\ failed'[Self] = failed[Self] /\ pc'[Self] = "dead"
      /\ UNCHANGED <<ownsDatabase, db0, prevRev>>
  BY CrashMoves, Zenon DEF Die, outerVars
<1>2. CASE db' = db
  BY <1>1, <1>2, Zenon DEF Migrated
<1>3. CASE db' # db
  <2>1. \/ to[Self].tag = "Running" /\ to[Self].step = 3
        \/ to[Self].tag = "Compensating" /\ to[Self].step = 3
    BY <1>3, TheRun, ZenonT(30) DEF Die, At, Undoing, Migrate, SagaInv, RunInv
  <2>2. ownsDatabase
    BY <1>3, NoWay, Zenon DEF Die, MigrateTarget, FleetsOK
  <2>3. ~(3 < 3) /\ ~(3 > 3)
    OBVIOUS
  <2> QED
    BY <1>1, <2>1, <2>2, <2>3, ZenonT(30) DEF Migrated
<1> QED
  BY <1>2, <1>3, Zenon

(* What leaves the database and the step alone keeps what is said of them. *)
LEMMA MigratedStays ==
  ASSUME Migrated, UNCHANGED <<db, prevRev, ownsDatabase, db0>>,
         to'[Self] = to[Self], failed'[Self] = failed[Self],
         pc'[Self] \in {"event", "state", "forward"} => pc[Self] \in {"event", "state", "forward"}
  PROVE  Migrated'
BY Zenon DEF Migrated

(* No action takes the database from where the saga has it.                *)
LEMMA MigratedNext ==
  ASSUME SagaInv, FleetsOK, Migrated, MHNext
  PROVE  Migrated'
<1> USE DEF dbVars, outerVars
<1>1. CASE Engine
  <2>1. UNCHANGED <<db, prevRev, ownsDatabase, db0>>
    BY <1>1, Zenon DEF Engine
  <2>2. CASE to[Self].tag = "Idle" /\ to'[Self].tag = "Running" /\ to'[Self].step = 1
    <3>1. ~(1 > 3)
      OBVIOUS
    <3> QED
      BY <2>1, <2>2, <3>1, Zenon DEF Migrated
  <2> QED
    BY <1>1, <2>1, <2>2, EngineMoves, MigratedStays, ZenonT(30)
<1>2. CASE RunPreflight \/ RunFetch \/ RunVerify \/ InertUndo
  <2>1. 1 # 3 /\ 2 # 3 /\ N # 3
    BY TheRun
  <2>2. /\ UNCHANGED <<db, prevRev, ownsDatabase, db0>> /\ to[Self].step # 3
        /\ Forward(Self) \/ ForwardFails(Self) \/ Compensate(Self)
    BY <1>2, <2>1, Zenon
    DEF RunPreflight, RunFetch, RunVerify, Inert, InertUndo, At, Undoing, Fetch, Verify
  <2> QED
    BY <2>2, MigratedElsewhere, Zenon
<1>3. CASE RunMigrate \/ UndoMigrate
  BY <1>3, MigratedHere, Zenon
<1>4. CASE (\E h \in Hosts : HostStep(h)) \/ BatchFailed \/ BeginUndoBatch \/ RecordLedger \/ Ended
  <2>1. UNCHANGED <<db, prevRev, ownsDatabase, db0, to, failed, pc>>
    BY <1>4, Zenon
    DEF HostStep, BatchFailed, BeginUndoBatch, RecordLedger, Ended, mhVars, vars, runVars
  <2> QED
    BY <2>1, MigratedStays, Zenon
<1>5. CASE BatchAdvanced \/ FailedBatchRestored \/ EndUndoBatch
  <2>1. IsRollout(to[Self].step)
    BY <1>5, AtWork, Zenon DEF BatchAdvanced, FailedBatchRestored, EndUndoBatch
  <2>2. to[Self].step # 3
    BY <2>1 DEF IsRollout
  <2>3. /\ UNCHANGED <<db, prevRev, ownsDatabase, db0>>
        /\ Forward(Self) \/ ForwardFails(Self) \/ Compensate(Self) \/ CompensateFails(Self)
    BY <1>5, Zenon DEF BatchAdvanced, FailedBatchRestored, EndUndoBatch
  <2> QED
    BY <2>2, <2>3, MigratedElsewhere, Zenon
<1>6. CASE Die
  BY <1>6, MigratedDies, Zenon
<1> QED
  BY <1>1, <1>2, <1>3, <1>4, <1>5, <1>6, ZenonT(30) DEF MHNext, Work

-----------------------------------------------------------------------------
(* A run starts with every host idle and in the pool as it was.            *)
LEMMA FleetInit == MHInit => MHInv
<1> SUFFICES ASSUME MHInit PROVE MHInv
  BY Zenon
<1>1. PICK s \in Starts : ownsDatabase = s.ownsDatabase /\ prior = s.prior /\ conf = s.pool
  BY Zenon DEF MHInit
<1>2. s \in [prior : [Hosts -> {Old, None}], pool : [Hosts -> {"in", "down"}], ownsDatabase : BOOLEAN]
  BY StartsAssumption, Zenon
<1>3. /\ ownsDatabase \in BOOLEAN
      /\ prior \in [Hosts -> {Old, None}]
      /\ conf \in [Hosts -> {"in", "down"}]
  BY <1>1, <1>2, Zenon
<1>4. db \in 0 .. 2 /\ prevRev \in 0 .. 2 /\ db0 = db
  <2>1. 0 \in 0 .. 2 /\ 1 \in 0 .. 2
    OBVIOUS
  <2> QED
    BY <2>1, Zenon DEF MHInit
<1>5. hpc \in [Hosts -> HostPlaces]
  BY Zenon DEF MHInit, HostPlaces
<1>6. FleetsOK
  <2>1. prior \in [Hosts -> {New, Old, None}]
    BY <1>3, Zenon
  <2>2. /\ captured \in [Hosts -> {"no", "in", "down"}] /\ drained \in [Hosts -> {"no", "in", "down"}]
        /\ activated \in [Hosts -> BOOLEAN] /\ reattached \in [Hosts -> BOOLEAN]
    BY Zenon DEF MHInit
  <2> QED
    BY <1>3, <1>4, <1>5, <2>1, <2>2, ZenonT(30) DEF FleetsOK, MHInit
<1>7. to[Self].tag = "Idle"
  BY TheRun, Zenon DEF MHInit, Init, Idle, State
<1>8. ASSUME NEW h \in Hosts PROVE HostSound(h) /\ Placed(h)
  <2>1. hpc[h] = "idle" /\ Took(h, "no", FALSE, FALSE)
    BY Zenon DEF MHInit, Took
  <2>2. OnOld(h) /\ AtPool(h)
    BY Zenon DEF MHInit, OnOld, AtPool
  <2>3. HostSound(h)
    BY <2>1, <2>2, Zenon DEF HostSound, HostOnward, HostFailed, HostBack
  <2>4. Placed(h)
    BY <1>7, <2>1, Zenon DEF Placed
  <2> QED
    BY <2>3, <2>4, Zenon
<1>9. Migrated
  BY <1>4, <1>7, Zenon DEF Migrated
<1> QED
  BY <1>6, <1>8, <1>9, Zenon DEF MHInv

(* Every step of the flow keeps the invariant.                             *)
LEMMA FleetNext ==
  ASSUME SagaInv, MHInv, [MHNext]_mhVars
  PROVE  MHInv'
<1>1. FleetsOK /\ Migrated /\ \A h \in Hosts : HostSound(h) /\ Placed(h)
  BY Zenon DEF MHInv
<1>2. CASE MHNext
  <2>1. FleetsOK'
    BY <1>1, <1>2, FleetTypes, Zenon
  <2>2. \A h \in Hosts : HostSound(h)'
    BY <1>1, <1>2, HostsSound, Zenon
  <2>3. \A h \in Hosts : Placed(h)'
    BY <1>1, <1>2, PlacedNext, Zenon
  <2>4. Migrated'
    BY <1>1, <1>2, MigratedNext, Zenon
  <2> QED
    BY <2>1, <2>2, <2>3, <2>4, Zenon DEF MHInv
<1>3. CASE UNCHANGED mhVars
  <2>1. /\ UNCHANGED <<hpc, progressVars, unrecoverable, fleetVars, dbVars, outerVars, reloadFailed>>
        /\ UNCHANGED <<pc, to, failed>>
    BY <1>3, Zenon DEF mhVars, vars, runVars
  <2> USE DEF progressVars, fleetVars, dbVars, outerVars
  <2>2. FleetsOK'
    BY <1>1, <2>1, Zenon DEF FleetsOK
  <2>3. Migrated'
    BY <1>1, <2>1, MigratedStays, Zenon
  <2>4. \A h \in Hosts : HostSound(h)'
    BY <1>1, <2>1, OtherHost, Zenon
  <2>5. \A h \in Hosts : Placed(h)'
    BY <1>1, <2>1, PlacedStays, Zenon
  <2> QED
    BY <2>2, <2>3, <2>4, <2>5, ZenonT(30) DEF MHInv
<1> QED
  BY <1>2, <1>3, Zenon

(* Every host is where the saga's state says, noted what it did and is in  *)
(* the pool or out of it accordingly, and the database follows the         *)
(* migration step, for every inventory, batch size and start (multi_host.rs, *)
(* build, advance_host, restore_host).                                     *)
THEOREM FleetFollowsRun == MHSpec => []MHInv
<1>1. SagaInv /\ MHInv /\ [MHNext]_mhVars => MHInv'
  BY FleetNext, Zenon
<1> QED
  BY <1>1, FleetInit, EngineInv, PTL DEF MHSpec

(* A terminal result is the state the run is in.                           *)
LEMMA ResultIs ==
  ASSUME SagaInv, result[Self] \in {"Committed", "RolledBack"}
  PROVE  to[Self].tag = result[Self]
BY TheRun, ZenonT(30) DEF SagaInv, RunInv, Terminal

(* Restored or never reached: a host serves what it served.                *)
LEMMA UndoneIsBack ==
  ASSUME MHInv, NEW h \in Hosts, Undone(h), failed[Self] \in 0 .. N, ~unrecoverable
  PROVE  ServesOld(h) /\ (~reloadFailed => AtPool(h))
<1>1. Slot(h) \in 4 .. N - 1 /\ N \in Nat
  BY Partition, TheRun, Zenon
<1>2. Slot(h) < failed[Self] \/ Slot(h) = failed[Self] \/ Slot(h) > failed[Self]
  BY <1>1
<1>3. hpc[h] = "restored" \/ hpc[h] = "idle"
  BY <1>2, Zenon DEF Undone
<1> QED
  BY <1>3, Zenon DEF MHInv, HostSound, HostOnward, HostBack, OnOld, ServesOld

(* A committed rollout left no host behind, whatever the inventory and the *)
(* batch size (run_rollout, finalize).                                     *)
THEOREM CommitIsComplete == MHSpec => []CommittedFleet
<1>1. SagaInv /\ MHInv => CommittedFleet
  <2> SUFFICES ASSUME SagaInv, MHInv, Outcome = "Committed"
               PROVE  /\ \A h \in Hosts : active[h] = New /\ running[h] = New
                      /\ db = MigrateTarget
                      /\ PoolIsBack
    BY Zenon DEF CommittedFleet
  <2>1. to[Self].tag = "Committed"
    BY ResultIs, Zenon DEF Outcome
  <2>2. \A h \in Hosts : OnNew(h) /\ AtPool(h)
    BY <2>1, Zenon DEF MHInv, Placed, HostSound, HostOnward
  <2>3. db = MigrateTarget
    BY <2>1, Zenon DEF MHInv, Migrated, MigrateTarget
  <2>4. conf \in [Hosts -> {"in", "down"}] /\ live \in [Hosts -> {"in", "down"}]
        /\ pool0 \in [Hosts -> {"in", "down"}]
    BY Zenon DEF MHInv, FleetsOK
  <2>5. PoolIsBack
    BY <2>2, <2>4 DEF PoolIsBack, AtPool
  <2> QED
    BY <2>2, <2>3, <2>5, Zenon DEF OnNew
<1> QED
  BY <1>1, EngineInv, FleetFollowsRun, PTL

(* A fleet that serves host by host what it served is back.                *)
LEMMA FleetEqual ==
  ASSUME MHInv, \A h \in Hosts : ServesOld(h)
  PROVE  HostsAreBack
<1>1. running \in [Hosts -> {New, Old, None}] /\ prior \in [Hosts -> {New, Old, None}]
  BY Zenon DEF MHInv, FleetsOK
<1>2. running = prior
  BY <1>1, SMTT(30) DEF ServesOld
<1> QED
  BY <1>2, Zenon DEF ServesOld, HostsAreBack

(* A clean RolledBack means that every host serves what it served, on its  *)
(* own link unless its activation failed, and the migration is undone only *)
(* after the hosts, or a host that could not be restored is going to be    *)
(* reported, whatever the inventory and the batch size (restore_batch,     *)
(* finalize).                                                              *)
THEOREM RollbacksAreAccounted == MHSpec => []RollbackAccounted
<1>1. SagaInv => failed[Self] \in 0 .. N
  BY TheRun, Zenon DEF SagaInv, TypeOK
<1>2. SagaInv /\ MHInv => CleanRollbackRestores
  <2> SUFFICES ASSUME SagaInv, MHInv, Outcome = "RolledBack"
               PROVE  /\ HostsAreBack
                      /\ failed[Self] # Migrate => db = db0
                      /\ ~reloadFailed => PoolIsBack
    BY Zenon DEF CleanRollbackRestores
  <2>1. to[Self].tag = "RolledBack" /\ ~unrecoverable
    BY ResultIs, Zenon DEF Outcome
  <2>2. \A h \in Hosts : ServesOld(h) /\ (~reloadFailed => AtPool(h))
    <3>1. \A h \in Hosts : Undone(h)
      BY <2>1, Zenon DEF MHInv, Placed
    <3> QED
      BY <1>1, <2>1, <3>1, UndoneIsBack, Zenon
  <2>3. failed[Self] # Migrate => db = db0
    BY <2>1, Zenon DEF MHInv, Migrated, Migrate
  <2>4. conf \in [Hosts -> {"in", "down"}] /\ live \in [Hosts -> {"in", "down"}]
        /\ pool0 \in [Hosts -> {"in", "down"}]
    BY Zenon DEF MHInv, FleetsOK
  <2>5. ~reloadFailed => PoolIsBack
    BY <2>2, <2>4 DEF PoolIsBack, AtPool
  <2> QED
    BY <2>2, <2>3, <2>5, FleetEqual, Zenon
<1>3. SagaInv /\ MHInv => MigrationUndoneLastOrReported
  <2> SUFFICES ASSUME SagaInv, MHInv, Undoing(Migrate), ~unrecoverable PROVE HostsAreBack
    BY Zenon DEF MigrationUndoneLastOrReported
  <2>1. to[Self].tag = "Compensating" /\ to[Self].step = 3
    BY TheRun, ZenonT(30) DEF Undoing, Migrate, SagaInv, RunInv
  <2>2. ASSUME NEW h \in Hosts PROVE ServesOld(h)
    <3>1. Slot(h) \in 4 .. N - 1 /\ N \in Nat
      BY Partition, TheRun, Zenon
    <3>2. Slot(h) > 3
      BY <3>1
    <3>3. Undone(h)
      BY <2>1, <3>2, Zenon DEF MHInv, Placed
    <3> QED
      BY <1>1, <3>3, UndoneIsBack, Zenon
  <2> QED
    BY <2>2, FleetEqual, Zenon
<1>4. SagaInv /\ MHInv => RollbackAccounted
  BY <1>2, <1>3, Zenon DEF RollbackAccounted
<1> QED
  BY <1>4, EngineInv, FleetFollowsRun, PTL

(* The fleet serves throughout: a host is out of the pool while it is      *)
(* worked on, and the hosts of the other batches stay in it, whatever the  *)
(* inventory and the batch size (advance_host, restore_host and the nginx  *)
(* adapter's apply).                                                       *)
THEOREM FleetKeepsServing == MHSpec => FleetServes
<1>1. SagaInv /\ MHInv => MHTypeOK
  BY Zenon DEF SagaInv, MHInv, FleetsOK, MHTypeOK
<1>2. MHInv => DrainedWhileUpdated
  BY Zenon DEF MHInv, HostSound, HostOnward, OutOfPool, DrainedWhileUpdated
<1>3. SagaInv /\ MHInv => RestStaysLive
  <2> SUFFICES ASSUME SagaInv, MHInv, to[Self].tag \in {"Running", "Compensating"},
                      ~unrecoverable, ~reloadFailed, NEW h \in Hosts,
                      IsRollout(to[Self].step) => h \notin Current
               PROVE  /\ pool0[h] = "in" => live[h] = "in"
                      /\ running[h] = active[h] \/ (ActivationFailed(h) /\ running[h] = prior[h])
    BY Zenon DEF RestStaysLive
  <2>1. Slot(h) \in 4 .. N - 1 /\ N \in Nat /\ to[Self] \in SagaStates /\ failed[Self] \in 0 .. N
    BY Partition, TheRun, ZenonT(30) DEF SagaInv, TypeOK
  <2>2. to[Self].step \in 0 .. N
    BY <2>1, Zenon DEF SagaStates
  <2>3. Slot(h) # to[Self].step
    <3>1. Slot(h) = to[Self].step => IsRollout(to[Self].step)
      BY <2>1, <2>2, SMTT(30) DEF IsRollout
    <3> QED
      BY <3>1, InBatch, ZenonT(30)
  <2>4. Slot(h) < to[Self].step \/ Slot(h) > to[Self].step
    BY <2>1, <2>2, <2>3
  <2>5. Placed(h) /\ HostSound(h)
    BY Zenon DEF MHInv
  <2>6. hpc[h] \in {"idle", "advanced"} \/ Undone(h)
    BY <2>4, <2>5, Zenon DEF Placed
  <2>7. (ServesOld(h) \/ OnNew(h)) /\ AtPool(h)
    BY <2>1, <2>5, <2>6, UndoneIsBack, ZenonT(30) DEF HostSound, HostOnward, OnOld, ServesOld
  <2> QED
    BY <2>7, Zenon DEF ServesOld, OnNew, AtPool
<1>4. MHInv /\ [MHNext]_mhVars => [TouchedInPool => reloadFailed]_mhVars
  <2> SUFFICES ASSUME MHInv, MHNext, ~reloadFailed, NEW h \in Hosts, live[h] = "in",
                      active'[h] # active[h] \/ running'[h] # running[h]
               PROVE  FALSE
    BY Zenon DEF TouchedInPool
  <2>1. PICK g \in Hosts : HostStep(g)
    BY HostsRest, Zenon DEF BatchFailed, BeginUndoBatch, fleetVars
  <2>2. g = h
    BY <2>1, StepOfOther, Zenon DEF MHInv
  <2>3. hpc[h] \in {"activate", "restart", "undo activate", "undo restart"}
    BY <2>1, <2>2, ZenonT(30)
    DEF HostStep, Drain, DrainReload, ActivateHost, RestartHost, CheckHealth, Reattach,
       ReattachReload, UndoDrain, UndoDrainReload, UndoActivate, UndoRestart, UndoReattach,
       UndoReattachReload, fleetVars
  <2>4. live[h] = "down"
    BY <2>3, Zenon DEF MHInv, HostSound, HostOnward, HostBack, OutOfPool
  <2> QED
    BY <2>4, Zenon
<1> QED
  BY <1>1, <1>2, <1>3, <1>4, EngineInv, FleetFollowsRun, PTL
     DEF MHSpec, FleetServes, TouchedOnlyOutOfPoolOrReloadFailed

=============================================================================
