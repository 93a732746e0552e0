----------------------------- MODULE Saga_proofs -----------------------------
(***************************************************************************)
(* Proofs about Saga for every set of runs, every number of steps and both *)
(* kinds of lock.                                                          *)
(***************************************************************************)
EXTENDS Saga, TLAPS

USE NoProcAssumption, NAssumption, LockDiesAssumption

(* The two directions of execute and rollback stay within the saga states. *)
LEMMA NextStateType ==
  ASSUME NEW i \in 0 .. N
  PROVE  AfterForward(i) \in SagaStates /\ AfterBackward(i) \in SagaStates
<1> USE DEF SagaStates, Tags, State
<1>1. CASE i = N
  BY <1>1 DEF AfterForward, AfterBackward
<1>2. CASE i # N
  <2>1. i + 1 \in 0 .. N
    BY <1>2
  <2> QED
    BY <1>2, <2>1, Zenon DEF AfterForward, AfterBackward
<1> QED
  BY <1>1, <1>2, Zenon

(* The initial state satisfies the inductive invariant. *)
LEMMA InitInv == Init => SagaInv
<1> SUFFICES ASSUME Init PROVE SagaInv
  BY Zenon
<1> USE DEF Init, Idle, State
<1>1. TypeOK
  BY DEF TypeOK, Locations, SagaStates, Tags, Results, Steps
<1>2. \A p \in Procs : RunInv(p) /\ Journalled(p)
  BY Zenon DEF RunInv, Journalled, Bounds, Claim, InFlight, Terminal
<1>3. InFlightStateHasOwner
  BY Zenon DEF InFlightStateHasOwner
<1> QED
  BY <1>1, <1>2, <1>3, Zenon DEF SagaInv

(* Every step of a run, or its crash, keeps the types. *)
LEMMA StepType ==
  ASSUME NEW p \in Procs, SagaInv, Run(p) \/ Crash(p)
  PROVE  TypeOK'
<1> USE DEF TypeOK, SagaStates, Tags, State, Idle, Steps
<1> TypeOK /\ RunInv(p)
  BY Zenon DEF SagaInv
<1>1. CASE AcquireLock(p)
  <2>1. AfterForward(0) \in SagaStates
    BY NextStateType
  <2> QED
    BY <1>1, <2>1, ZenonT(30) DEF AcquireLock, Enter, Locations, storeVars
<1>2. CASE Locked(p)
  BY <1>2, ZenonT(30) DEF Locked, Locations, Results, storeVars
<1>3. CASE AcquireFails(p)
  BY <1>3, ZenonT(30) DEF AcquireFails, Locations, Results, storeVars
<1>4. CASE RecordEvent(p)
  BY <1>4, Zenon DEF RecordEvent, Locations
<1>5. CASE RecordState(p)
  BY <1>5, Zenon DEF RecordState, Locations, Results, Terminal
<1>6. CASE StoreFails(p)
  BY <1>6 DEF StoreFails, Locations, Results, storeVars
<1>7. CASE Forward(p)
  <2>1. to[p].step \in Steps
    BY <1>7, Zenon DEF Forward, RunInv, Bounds
  <2>2. AfterForward(to[p].step) \in SagaStates
    BY <2>1, NextStateType, Zenon
  <2> QED
    BY <1>7, <2>1, <2>2 DEF Forward, Enter, Locations, storeVars
<1>8. CASE ForwardFails(p)
  <2>1. to[p].step \in Steps
    BY <1>8, Zenon DEF ForwardFails, RunInv, Bounds
  <2>2. AfterBackward(done[p]) \in SagaStates
    BY NextStateType, Zenon
  <2> QED
    BY <1>8, <2>1, <2>2 DEF ForwardFails, Enter, Locations, storeVars
<1>9. CASE Compensate(p)
  <2>1. to[p].step \in Steps
    BY <1>9, Zenon DEF Compensate, RunInv, Bounds
  <2>2. to[p].step - 1 \in 0 .. N
    BY <2>1
  <2>3. AfterBackward(to[p].step - 1) \in SagaStates
    BY <2>2, NextStateType, Zenon
  <2> QED
    BY <1>9, <2>2, <2>3 DEF Compensate, Enter, Locations, storeVars
<1>10. CASE CompensateFails(p)
  BY <1>10 DEF CompensateFails, Enter, Locations, storeVars
<1>11. CASE ReleaseLock(p)
  BY <1>11, ZenonT(30) DEF ReleaseLock, Locations, storeVars
<1>12. CASE ReleaseFails(p)
  BY <1>12 DEF ReleaseFails, Locations, Results, storeVars
<1>13. CASE Crash(p)
  <2>1. pc[p] \in {"forward", "compensate"} => to[p].step \in Steps
    BY Zenon DEF RunInv, Bounds
  <2> QED
    BY <1>13, <2>1 DEF Crash, Locations, storeVars
<1> QED
  BY <1>1, <1>2, <1>3, <1>4, <1>5, <1>6, <1>7, <1>8, <1>9, <1>10, <1>11, <1>12,
     <1>13, Zenon DEF Run

(* A step of run p, or its crash, leaves the entries of every other run    *)
(* alone.                                                                  *)
LEMMA OthersStand ==
  ASSUME NEW p \in Procs, NEW q \in Procs, q # p, TypeOK, Run(p) \/ Crash(p)
  PROVE  /\ pc'[q] = pc[q] /\ to'[q] = to[q] /\ done'[q] = done[q]
         /\ failed'[q] = failed[q] /\ effects'[q] = effects[q] /\ result'[q] = result[q]
<1>1. CASE AcquireLock(p)
  BY <1>1, Zenon DEF AcquireLock, TypeOK, Enter
<1>2. CASE Locked(p)
  BY <1>2, Zenon DEF Locked, TypeOK
<1>3. CASE AcquireFails(p)
  BY <1>3, Zenon DEF AcquireFails, TypeOK
<1>4. CASE RecordEvent(p)
  BY <1>4, Zenon DEF RecordEvent, TypeOK
<1>5. CASE RecordState(p)
  BY <1>5, Zenon DEF RecordState, TypeOK
<1>6. CASE StoreFails(p)
  BY <1>6, Zenon DEF StoreFails, TypeOK
<1>7. CASE Forward(p)
  BY <1>7, Zenon DEF Forward, TypeOK, Enter
<1>8. CASE ForwardFails(p)
  BY <1>8, Zenon DEF ForwardFails, TypeOK, Enter
<1>9. CASE Compensate(p)
  BY <1>9, Zenon DEF Compensate, TypeOK, Enter
<1>10. CASE CompensateFails(p)
  BY <1>10, Zenon DEF CompensateFails, TypeOK, Enter
<1>11. CASE ReleaseLock(p)
  BY <1>11, Zenon DEF ReleaseLock, TypeOK
<1>12. CASE ReleaseFails(p)
  BY <1>12, Zenon DEF ReleaseFails, TypeOK
<1>13. CASE Crash(p)
  BY <1>13, Zenon DEF Crash, TypeOK
<1> QED
  BY <1>1, <1>2, <1>3, <1>4, <1>5, <1>6, <1>7, <1>8, <1>9, <1>10, <1>11, <1>12, <1>13, Zenon
  DEF Run

(* The lock moves only between nobody and the run that takes the step,     *)
(* which takes it when it starts and gives it up while in flight.          *)
LEMMA LockMoves ==
  ASSUME NEW p \in Procs, Run(p) \/ Crash(p)
  PROVE  \/ lock' = lock
         \/ lock = NoProc /\ lock' = p
         \/ InFlight(p) /\ lock' = NoProc
<1>1. CASE AcquireLock(p)
  BY <1>1, Zenon DEF AcquireLock
<1>2. CASE Locked(p)
  BY <1>2, Zenon DEF Locked
<1>3. CASE AcquireFails(p)
  BY <1>3, Zenon DEF AcquireFails
<1>4. CASE RecordEvent(p)
  BY <1>4, Zenon DEF RecordEvent
<1>5. CASE RecordState(p)
  BY <1>5, Zenon DEF RecordState
<1>6. CASE StoreFails(p)
  BY <1>6, Zenon DEF StoreFails
<1>7. CASE Forward(p)
  BY <1>7, Zenon DEF Forward
<1>8. CASE ForwardFails(p)
  BY <1>8, Zenon DEF ForwardFails
<1>9. CASE Compensate(p)
  BY <1>9, Zenon DEF Compensate
<1>10. CASE CompensateFails(p)
  BY <1>10, Zenon DEF CompensateFails
<1>11. CASE ReleaseLock(p)
  BY <1>11, Zenon DEF ReleaseLock, InFlight
<1>12. CASE ReleaseFails(p)
  BY <1>12, Zenon DEF ReleaseFails, InFlight
<1>13. CASE Crash(p)
  BY <1>13, Zenon DEF Crash, InFlight
<1> QED
  BY <1>1, <1>2, <1>3, <1>4, <1>5, <1>6, <1>7, <1>8, <1>9, <1>10, <1>11, <1>12, <1>13, Zenon
  DEF Run

(* A run other than p keeps its part of the invariant through p's step:    *)
(* only p's own entries change, and the lock moves only between p and      *)
(* nobody.                                                                 *)
LEMMA OtherRuns ==
  ASSUME NEW p \in Procs, NEW q \in Procs, q # p, SagaInv, Run(p) \/ Crash(p)
  PROVE  RunInv(q)'
<1> TypeOK /\ RunInv(p) /\ RunInv(q)
  BY Zenon DEF SagaInv
<1>1. /\ pc'[q] = pc[q] /\ to'[q] = to[q] /\ done'[q] = done[q]
      /\ failed'[q] = failed[q] /\ effects'[q] = effects[q] /\ result'[q] = result[q]
  BY OthersStand, Zenon
<1>2. \/ lock' = lock
      \/ lock = NoProc /\ lock' = p
      \/ lock = p /\ lock' = NoProc
  BY LockMoves, Zenon DEF RunInv
<1>3. Bounds(to[q], q)'
  BY <1>1, Zenon DEF RunInv, Bounds, Claim
<1> QED
  BY <1>1, <1>2, <1>3 DEF RunInv, InFlight

(* A run keeps its own part of the invariant through each of its steps. *)
LEMMA OwnRun ==
  ASSUME NEW p \in Procs, SagaInv, Run(p) \/ Crash(p)
  PROVE  RunInv(p)'
<1> TypeOK /\ RunInv(p)
  BY Zenon DEF SagaInv
<1> DEFINE i == to[p].step
<1>t. /\ i \in 0 .. N /\ done[p] \in 0 .. N /\ failed[p] \in 0 .. N
      /\ effects[p] \subseteq Steps
  BY Zenon DEF TypeOK, SagaStates
<1>1. CASE AcquireLock(p)
  <2>1. effects[p] = {} /\ done[p] = 0 /\ failed[p] = 0 /\ result[p] = "none"
    BY <1>1 DEF AcquireLock, RunInv, Idle, State
  <2>2. /\ pc'[p] = "event" /\ to'[p] = AfterForward(0) /\ lock' = p
        /\ done'[p] = 0 /\ failed'[p] = 0 /\ effects'[p] = {} /\ result'[p] = "none"
    BY <1>1, <2>1, Zenon DEF AcquireLock, Enter, TypeOK
  <2> QED
    BY <2>2 DEF RunInv, Bounds, Claim, InFlight, AfterForward, State, Idle, Terminal, Steps
<1>2. CASE Locked(p)
  BY <1>2, Zenon DEF Locked, TypeOK, RunInv, Bounds, Claim, InFlight, Terminal, Idle, State
<1>3. CASE AcquireFails(p)
  BY <1>3, Zenon DEF AcquireFails, TypeOK, RunInv, Bounds, Claim, InFlight, Terminal, Idle, State
<1>4. CASE RecordEvent(p)
  BY <1>4, Zenon DEF RecordEvent, TypeOK, RunInv, Bounds, Claim, InFlight, Terminal
<1>5. CASE RecordState(p)
  BY <1>5, ZenonT(30)
  DEF RecordState, TypeOK, RunInv, Bounds, Claim, InFlight, Terminal, SagaStates, Tags
<1>6. CASE StoreFails(p)
  BY <1>6, ZenonT(30) DEF StoreFails, TypeOK, RunInv, Bounds, Claim, InFlight, Terminal
<1>7. CASE Forward(p)
  <2>1. /\ i \in Steps /\ failed[p] = 0 /\ result[p] = "none" /\ lock = p
        /\ effects[p] = 1 .. (i - 1)
    BY <1>7, Zenon DEF Forward, RunInv, Bounds, InFlight
  <2>2. effects[p] \cup {i} = 1 .. i
    BY <2>1 DEF Steps
  <2>3. /\ pc'[p] = "event" /\ to'[p] = AfterForward(i) /\ lock' = p
        /\ done'[p] = i /\ failed'[p] = 0 /\ effects'[p] = 1 .. i /\ result'[p] = "none"
    BY <1>7, <2>1, <2>2, Zenon DEF Forward, Enter, TypeOK
  <2>4. CASE i = N
    BY <2>1, <2>3, <2>4, SMTT(30) DEF RunInv, Bounds, Claim, InFlight, AfterForward, State, Idle,
       Terminal, Steps
  <2>5. CASE i # N
    <3>0. to'[p] = [tag |-> "Running", step |-> i + 1]
      BY <2>3, <2>5, Zenon DEF AfterForward, State
    <3>1. /\ to'[p].tag = "Running" /\ to'[p].step \in Steps /\ to'[p].step - 1 = i
      BY <2>1, <2>5, <3>0, <1>t, SMTT(30) DEF Steps
    <3>2. 1 .. i \subseteq 1 .. to'[p].step
      BY <2>1, <3>0 DEF Steps
    <3>3. Bounds(to[p], p)'
      BY <2>3, <3>1, <3>2, Zenon DEF Bounds, Claim
    <3> QED
      BY <2>3, <3>1, <3>3, Zenon DEF RunInv, InFlight, Terminal, Idle, State
  <2> QED
    BY <2>4, <2>5, Zenon
<1>8. CASE ForwardFails(p)
  <2>1. /\ i \in Steps /\ done[p] = i - 1 /\ result[p] = "none" /\ lock = p
        /\ effects[p] = 1 .. (i - 1)
    BY <1>8, Zenon DEF ForwardFails, RunInv, Bounds, InFlight
  <2>2. /\ pc'[p] = "event" /\ to'[p] = AfterBackward(i - 1) /\ lock' = p
        /\ done'[p] = i - 1 /\ failed'[p] = i /\ result'[p] = "none"
        /\ 1 .. (i - 1) \subseteq effects'[p]
        /\ effects'[p] \subseteq (1 .. (i - 1)) \cup {i}
    BY <1>8, <2>1, SMTT(30) DEF ForwardFails, Enter, TypeOK
  <2>3. CASE i = 1
    BY <2>1, <2>2, <2>3, SMTT(30) DEF RunInv, Bounds, Claim, InFlight, AfterBackward, State, Idle,
       Terminal, Steps
  <2>4. CASE i # 1
    <3>1. /\ to'[p] = [tag |-> "Compensating", step |-> i - 1]
          /\ i - 1 \in Steps /\ i - 1 \in 1 .. (i - 1) /\ i > i - 1
          /\ 1 .. (i - 1 - 1) \subseteq 1 .. (i - 1)
      BY <2>1, <2>2, <2>4 DEF AfterBackward, State, Steps
    <3>2. to'[p].tag = "Compensating" /\ to'[p].step = i - 1
      BY <3>1
    <3>3. Bounds(to[p], p)'
      BY <2>2, <3>1, <3>2, Zenon DEF Bounds, Claim
    <3>4. to'[p].step \in effects'[p]
      BY <2>2, <3>1, <3>2, Zenon
    <3> QED
      BY <2>2, <3>2, <3>3, <3>4, Zenon DEF RunInv, InFlight, Terminal, Idle, State
  <2> QED
    BY <2>3, <2>4, Zenon
<1>9. CASE Compensate(p)
  <2>1. /\ i \in Steps /\ result[p] = "none" /\ lock = p /\ failed[p] > i
        /\ 1 .. (i - 1) \subseteq effects[p]
        /\ effects[p] \subseteq (1 .. i) \cup {failed[p]}
    BY <1>9, Zenon DEF Compensate, RunInv, Bounds, InFlight
  <2>2. /\ 1 .. (i - 1) \subseteq effects[p] \ {i}
        /\ effects[p] \ {i} \subseteq (1 .. (i - 1)) \cup {failed[p]}
    BY <2>1, <1>t DEF Steps
  <2>3. /\ pc'[p] = "event" /\ to'[p] = AfterBackward(i - 1) /\ lock' = p
        /\ done'[p] = i - 1 /\ failed'[p] = failed[p] /\ result'[p] = "none"
        /\ effects'[p] = effects[p] \ {i}
    BY <1>9, <2>1, Zenon DEF Compensate, Enter, TypeOK
  <2>4. failed[p] \in Steps
    BY <2>1, <1>t, SMTT(30) DEF Steps
  <2>5. CASE i = 1
    <3>1. effects'[p] \subseteq {failed[p]}
      BY <2>2, <2>3, <2>5, SMTT(30)
    <3> QED
      BY <2>3, <2>4, <2>5, <3>1, SMTT(30) DEF RunInv, Bounds, Claim, InFlight, AfterBackward, State,
         Idle, Terminal
  <2>6. CASE i # 1
    <3>1. /\ to'[p] = [tag |-> "Compensating", step |-> i - 1]
          /\ i - 1 \in Steps /\ i - 1 \in 1 .. (i - 1) /\ failed[p] > i - 1
          /\ 1 .. (i - 1 - 1) \subseteq 1 .. (i - 1)
      BY <2>1, <2>3, <2>6, <1>t DEF AfterBackward, State, Steps
    <3>2. to'[p].tag = "Compensating" /\ to'[p].step = i - 1
      BY <3>1
    <3>3. Bounds(to[p], p)'
      BY <2>2, <2>3, <3>1, <3>2, Zenon DEF Bounds, Claim
    <3>4. to'[p].step \in effects'[p]
      BY <2>2, <2>3, <3>1, <3>2, Zenon
    <3> QED
      BY <2>3, <3>2, <3>3, <3>4, Zenon DEF RunInv, InFlight, Terminal, Idle, State
  <2> QED
    BY <2>5, <2>6, Zenon
<1>10. CASE CompensateFails(p)
  <2>1. /\ i \in Steps /\ result[p] = "none" /\ lock = p /\ failed[p] > i
    BY <1>10, Zenon DEF CompensateFails, RunInv, Bounds, InFlight
  <2>2. failed[p] \in Steps
    BY <2>1, <1>t DEF Steps
  <2>3. /\ pc'[p] = "event" /\ to'[p] = State("PartialRollback", 0) /\ lock' = p
        /\ failed'[p] = failed[p] /\ result'[p] = "none"
    BY <1>10, <2>1, Zenon DEF CompensateFails, Enter, TypeOK
  <2> QED
    BY <2>2, <2>3, SMTT(30) DEF RunInv, Bounds, Claim, InFlight, Terminal, Idle, State
<1>11. CASE ReleaseLock(p)
  BY <1>11, ZenonT(30) DEF ReleaseLock, TypeOK, RunInv, Bounds, Claim, InFlight, Terminal
<1>12. CASE ReleaseFails(p)
  BY <1>12, ZenonT(30) DEF ReleaseFails, TypeOK, RunInv, Bounds, Claim, InFlight, Terminal
<1>13. CASE Crash(p)
  <2>1. /\ pc'[p] = "dead" /\ to'[p] = to[p] /\ done'[p] = done[p] /\ failed'[p] = failed[p]
        /\ result'[p] = result[p] /\ to[p].tag # "Idle" /\ (LockDies => lock' # p)
    BY <1>13, Zenon DEF Crash, TypeOK, RunInv, InFlight
  <2>2. Bounds(to[p], p)'
    <3>1. CASE effects' = effects
      BY <2>1, <3>1, ZenonT(30) DEF RunInv, Bounds, Claim
    <3>2. CASE pc[p] = "forward" /\ effects' = [effects EXCEPT ![p] = @ \cup {i}]
      BY <2>1, <3>2, <1>t, SMTT(30) DEF RunInv, Bounds, Claim, TypeOK, Steps
    <3>3. CASE pc[p] = "compensate" /\ effects' = [effects EXCEPT ![p] = @ \ {i}]
      BY <2>1, <3>3, <1>t DEF RunInv, Bounds, Claim, TypeOK, Steps
    <3> QED
      BY <1>13, <3>1, <3>2, <3>3, Zenon DEF Crash
  <2> QED
    BY <2>1, <2>2, SMTT(30) DEF RunInv, InFlight, Terminal, Idle, State
<1> QED
  BY <1>1, <1>2, <1>3, <1>4, <1>5, <1>6, <1>7, <1>8, <1>9, <1>10, <1>11, <1>12,
     <1>13, Zenon DEF Run

(* The journal's part of the invariant: who wrote it, that a run about to  *)
(* act or to report is that writer, and that it bounds the world.          *)
LEMMA JournalInv ==
  ASSUME NEW p \in Procs, SagaInv, Run(p) \/ Crash(p)
  PROVE  /\ \A q \in Procs : Journalled(q)'
         /\ (author = NoProc <=> curState.tag = "Idle")'
         /\ (author # NoProc => Bounds(curState, author))'
         /\ InFlightStateHasOwner'
<1> DEFINE i == to[p].step
<1>a. /\ TypeOK
      /\ \A q \in Procs : RunInv(q) /\ Journalled(q)
      /\ author = NoProc <=> curState.tag = "Idle"
      /\ author # NoProc => Bounds(curState, author)
      /\ InFlightStateHasOwner
  BY Zenon DEF SagaInv
<1>t. /\ i \in 0 .. N /\ failed[p] \in 0 .. N /\ effects[p] \subseteq Steps
      /\ author # NoProc => author \in Procs
  BY <1>a, Zenon DEF TypeOK, SagaStates
<1>o. \A q \in Procs : q # p => ~(InFlight(p) /\ InFlight(q))
  BY <1>a, Zenon DEF RunInv
<1>1. CASE AcquireLock(p) \/ Locked(p) \/ AcquireFails(p)
  <2>1. /\ UNCHANGED <<done, failed, effects, storeVars>>
        /\ \A q \in Procs : q # p => pc'[q] = pc[q] /\ to'[q] = to[q] /\ result'[q] = result[q]
        /\ pc[p] = "ready" /\ pc'[p] \in {"event", "returned"}
        /\ lock' = lock \/ lock = NoProc
    BY <1>1, <1>a, Zenon DEF AcquireLock, Locked, AcquireFails, Enter, TypeOK
  <2>2. author # p
    BY <2>1, <1>a, Zenon DEF Journalled
  <2>3. \A q \in Procs : Journalled(q)'
    BY <2>1, <1>a, Zenon DEF Journalled, storeVars
  <2>4. (author # NoProc => Bounds(curState, author))'
    BY <2>1, <1>a, Zenon DEF Bounds, Claim, storeVars
  <2>5. InFlightStateHasOwner'
    BY <2>1, <2>2, <1>a, <1>t, Zenon DEF InFlightStateHasOwner, InFlight, storeVars
  <2> QED
    BY <2>1, <2>3, <2>4, <2>5, <1>a, Zenon DEF storeVars
<1>2. CASE RecordEvent(p)
  <2>1. /\ UNCHANGED <<lock, to, failed, effects, result, curState, author>>
        /\ pc' = [pc EXCEPT ![p] = "state"] /\ pc[p] = "event"
    BY <1>2, Zenon DEF RecordEvent
  <2>2. \A q \in Procs : Journalled(q)'
    BY <2>1, <1>a, Zenon DEF Journalled, TypeOK
  <2>3. (author # NoProc => Bounds(curState, author))'
    BY <2>1, <1>a, Zenon DEF Bounds, Claim
  <2>4. InFlightStateHasOwner'
    BY <2>1, <1>a, <1>t, Zenon DEF InFlightStateHasOwner, InFlight, TypeOK
  <2> QED
    BY <2>1, <2>2, <2>3, <2>4, <1>a, Zenon
<1>3. CASE RecordState(p)
  <2>1. /\ lock = p /\ to[p].tag # "Idle" /\ Bounds(to[p], p) /\ result[p] = "none"
        /\ to[p].tag \in Tags
    BY <1>3, <1>a, Zenon DEF RecordState, RunInv, InFlight, TypeOK, SagaStates
  <2>2. /\ UNCHANGED <<lock, to, failed, effects>>
        /\ curState' = to[p] /\ author' = p
        /\ pc'[p] \in {"forward", "compensate", "release"}
        /\ \A q \in Procs : q # p => pc'[q] = pc[q] /\ result'[q] = result[q]
    BY <1>3, <1>a, Zenon DEF RecordState, TypeOK
  <2>3. \A q \in Procs : q # p => ~InFlight(q)
    BY <1>3, <1>o, Zenon DEF RecordState, InFlight
  <2>4. \A q \in Procs : Journalled(q)'
    BY <2>2, <2>3, Zenon DEF Journalled, InFlight
  <2>5. Bounds(curState, author)'
    BY <2>1, <2>2, Zenon DEF Bounds, Claim
  <2>6. InFlightStateHasOwner'
    BY <2>1, <2>2, Zenon DEF InFlightStateHasOwner, InFlight
  <2> QED
    BY <2>1, <2>2, <2>4, <2>5, <2>6, Zenon
<1>4. CASE StoreFails(p)
  <2>1. /\ UNCHANGED <<lock, to, failed, effects, curState, author>>
        /\ pc' = [pc EXCEPT ![p] = "release"]
        /\ result' = [result EXCEPT ![p] = "Error"]
    BY <1>4, Zenon DEF StoreFails, storeVars
  <2>2. \A q \in Procs : Journalled(q)'
    BY <2>1, <1>a, Zenon DEF Journalled, TypeOK
  <2>3. (author # NoProc => Bounds(curState, author))'
    BY <2>1, <1>a, Zenon DEF Bounds, Claim
  <2>4. InFlightStateHasOwner'
    BY <2>1, <1>a, <1>t, Zenon DEF InFlightStateHasOwner, InFlight, TypeOK
  <2> QED
    BY <2>1, <2>2, <2>3, <2>4, <1>a, Zenon
<1>5. CASE Forward(p) \/ ForwardFails(p) \/ Compensate(p) \/ CompensateFails(p)
  <2>1. /\ author = p /\ curState = to[p] /\ lock = p
        /\ \/ pc[p] = "forward" /\ to[p].tag = "Running"
           \/ pc[p] = "compensate" /\ to[p].tag = "Compensating"
        /\ Bounds(to[p], p)
    BY <1>5, <1>a, Zenon DEF Forward, ForwardFails, Compensate, CompensateFails, RunInv,
       Journalled, InFlight
  <2>2. /\ UNCHANGED <<lock, result, curState, author>>
        /\ pc' = [pc EXCEPT ![p] = "event"]
        /\ \A q \in Procs : q # p => to'[q] = to[q]
    BY <1>5, <1>a, Zenon
    DEF Forward, ForwardFails, Compensate, CompensateFails, Enter, storeVars,
       TypeOK
  <2>3. \A q \in Procs : Journalled(q)'
    BY <2>1, <2>2, <1>a, Zenon DEF Journalled, TypeOK
  <2>4. Bounds(curState, author)'
    <3>1. CASE pc[p] = "forward"
      <4>1. \/ effects'[p] = effects[p]
            \/ effects'[p] = effects[p] \cup {i}
        BY <1>5, <3>1, <1>a, SMTT(30) DEF Forward, ForwardFails, Compensate, CompensateFails, TypeOK
      <4>2. /\ i \in 1 .. N /\ 1 .. (i - 1) \subseteq effects[p]
            /\ effects[p] \subseteq 1 .. i
        BY <2>1, <3>1, Zenon DEF Bounds, Steps
      <4>3. 1 .. (i - 1) \subseteq effects'[p] /\ effects'[p] \subseteq 1 .. i
        BY <4>1, <4>2
      <4>4. curState'.tag = "Running" /\ curState'.step = i /\ author' = p
        BY <2>1, <2>2, <3>1, Zenon
      <4> QED
        BY <4>2, <4>3, <4>4, Zenon DEF Bounds, Claim, Steps
    <3>2. CASE pc[p] = "compensate"
      <4>1. /\ failed' = failed
            /\ \/ effects'[p] = effects[p]
               \/ effects'[p] = effects[p] \ {i}
        BY <1>5, <3>2, <1>a, SMTT(30) DEF Forward, ForwardFails, Compensate, CompensateFails, TypeOK
      <4>2. /\ i \in 1 .. N /\ failed[p] > i /\ 1 .. (i - 1) \subseteq effects[p]
            /\ effects[p] \subseteq (1 .. i) \cup {failed[p]}
        BY <2>1, <3>2, Zenon DEF Bounds, Steps
      <4>3. /\ failed'[p] = failed[p] /\ 1 .. (i - 1) \subseteq effects'[p]
            /\ effects'[p] \subseteq (1 .. i) \cup {failed[p]}
        BY <4>1, <4>2
      <4>4. curState'.tag = "Compensating" /\ curState'.step = i /\ author' = p
        BY <2>1, <2>2, <3>2, Zenon
      <4> QED
        BY <4>2, <4>3, <4>4, Zenon DEF Bounds, Claim, Steps
    <3> QED
      BY <2>1, <3>1, <3>2, Zenon
  <2>5. InFlightStateHasOwner'
    BY <2>1, <2>2, <1>a, Zenon DEF InFlightStateHasOwner, InFlight, TypeOK
  <2> QED
    BY <2>1, <2>2, <2>3, <2>4, <2>5, <1>a, Zenon
<1>6. CASE ReleaseLock(p) \/ ReleaseFails(p)
  <2>1. /\ UNCHANGED <<to, failed, effects, curState, author>>
        /\ pc[p] = "release" /\ pc' = [pc EXCEPT ![p] = "returned"]
        /\ \A q \in Procs : q # p => result'[q] = result[q]
        /\ result'[p] \in {result[p], "Error"}
    BY <1>6, <1>a, Zenon DEF ReleaseLock, ReleaseFails, storeVars, TypeOK
  <2>2. lock = p
    BY <2>1, <1>a, Zenon DEF RunInv, InFlight
  <2>3. result[p] # "Error" => author = p /\ curState.tag \in Terminal
    BY <2>1, <1>a, Zenon DEF RunInv, Journalled
  <2>4. \A q \in Procs : Journalled(q)'
    BY <2>1, <1>a, Zenon DEF Journalled, TypeOK
  <2>5. (author # NoProc => Bounds(curState, author))'
    BY <2>1, <1>a, Zenon DEF Bounds, Claim
  <2>6. InFlightStateHasOwner'
    BY <2>1, <2>2, <2>3, <1>a, <1>t, Zenon DEF InFlightStateHasOwner, InFlight, TypeOK, Terminal
  <2> QED
    BY <2>1, <2>4, <2>5, <2>6, <1>a, Zenon
<1>7. CASE Crash(p)
  <2>1. /\ UNCHANGED <<to, failed, result, curState, author>>
        /\ InFlight(p) /\ pc' = [pc EXCEPT ![p] = "dead"]
        /\ \A q \in Procs : q # p => effects'[q] = effects[q]
        /\ lock = p
    BY <1>7, <1>a, Zenon DEF Crash, storeVars, InFlight, RunInv, TypeOK
  <2>2. \A q \in Procs : Journalled(q)'
    BY <2>1, <1>a, Zenon DEF Journalled, TypeOK
  <2>3. (author # NoProc => Bounds(curState, author))'
    <3>1. CASE author # p \/ effects' = effects
      BY <2>1, <3>1, <1>a, <1>t, Zenon DEF Bounds, Claim
    <3>2. CASE author = p /\ pc[p] = "forward" /\ effects'[p] = effects[p] \cup {i}
      <4>1. curState = to[p] /\ curState.tag = "Running" /\ Bounds(to[p], p)
        BY <3>2, <1>a, Zenon DEF Journalled, RunInv
      <4>2. /\ i \in 1 .. N /\ 1 .. (i - 1) \subseteq effects[p]
            /\ effects[p] \subseteq 1 .. i
        BY <4>1, Zenon DEF Bounds, Steps
      <4>3. 1 .. (i - 1) \subseteq effects'[p] /\ effects'[p] \subseteq 1 .. i
        BY <2>1, <3>2, <4>2, SMTT(30)
      <4>4. curState'.tag = "Running" /\ curState'.step = i /\ author' = p
        BY <2>1, <3>2, <4>1, Zenon
      <4> QED
        BY <4>2, <4>3, <4>4, Zenon DEF Bounds, Claim, Steps
    <3>3. CASE author = p /\ pc[p] = "compensate" /\ effects'[p] = effects[p] \ {i}
      <4>1. curState = to[p] /\ curState.tag = "Compensating" /\ Bounds(to[p], p)
        BY <3>3, <1>a, Zenon DEF Journalled, RunInv
      <4>2. /\ i \in 1 .. N /\ failed[p] > i /\ 1 .. (i - 1) \subseteq effects[p]
            /\ effects[p] \subseteq (1 .. i) \cup {failed[p]}
        BY <4>1, Zenon DEF Bounds, Steps
      <4>3. /\ failed'[p] = failed[p] /\ 1 .. (i - 1) \subseteq effects'[p]
            /\ effects'[p] \subseteq (1 .. i) \cup {failed[p]}
        BY <2>1, <3>3, <4>2, SMTT(30)
      <4>4. curState'.tag = "Compensating" /\ curState'.step = i /\ author' = p
        BY <2>1, <3>3, <4>1, Zenon
      <4> QED
        BY <4>2, <4>3, <4>4, Zenon DEF Bounds, Claim, Steps
    <3> QED
      BY <1>7, <1>a, <3>1, <3>2, <3>3, Zenon DEF Crash, TypeOK
  <2>4. InFlightStateHasOwner'
    BY <2>1, <1>a, <1>t, Zenon DEF InFlightStateHasOwner, InFlight, TypeOK
  <2> QED
    BY <2>1, <2>2, <2>3, <2>4, <1>a, Zenon
<1> QED
  BY <1>1, <1>2, <1>3, <1>4, <1>5, <1>6, <1>7, Zenon DEF Run

(* Every step of the engine preserves the invariant. *)
LEMMA NextInv == SagaInv /\ [Next]_vars => SagaInv'
<1> SUFFICES ASSUME SagaInv, [Next]_vars PROVE SagaInv'
  BY Zenon
<1>1. ASSUME NEW p \in Procs, Run(p) \/ Crash(p) PROVE SagaInv'
  <2>1. TypeOK'
    BY <1>1, StepType, Zenon
  <2>2. \A q \in Procs : RunInv(q)'
    BY <1>1, OwnRun, OtherRuns, Zenon
  <2> QED
    BY <1>1, <2>1, <2>2, JournalInv, Zenon DEF SagaInv
<1>2. CASE UNCHANGED vars
  <2>1. TypeOK'
    BY <1>2, Zenon DEF SagaInv, TypeOK, vars, runVars, storeVars
  <2>2. ASSUME NEW q \in Procs PROVE RunInv(q)'
    <3>1. RunInv(q)
      BY Zenon DEF SagaInv
    <3>2. /\ pc' = pc /\ lock' = lock /\ to' = to /\ effects' = effects
          /\ done' = done /\ failed' = failed /\ result' = result
      BY <1>2, Zenon DEF vars, runVars, storeVars
    <3>3. Bounds(to[q], q)'
      BY <3>1, <3>2, Zenon DEF RunInv, Bounds, Claim
    <3> QED
      BY <3>1, <3>2, <3>3, ZenonT(30) DEF RunInv, InFlight
  <2>3. \A q \in Procs : Journalled(q)'
    BY <1>2, Zenon DEF SagaInv, Journalled, vars, runVars, storeVars
  <2>4. /\ (author = NoProc <=> curState.tag = "Idle")'
        /\ (author # NoProc => Bounds(curState, author))'
        /\ InFlightStateHasOwner'
    BY <1>2, Zenon DEF SagaInv, Bounds, Claim, InFlight, InFlightStateHasOwner, vars,
       runVars, storeVars
  <2> QED
    BY <2>1, <2>2, <2>3, <2>4, Zenon DEF SagaInv
<1> QED
  BY <1>1, <1>2, Zenon DEF Next, Quiet

(* SagaInv holds in every reachable state of the engine. *)
THEOREM Invariance == Spec => []SagaInv
  BY InitInv, NextInv, PTL DEF Spec

(* The types of the engine's state and of its journal. *)
THEOREM TypeCorrect == Spec => []TypeOK
<1>1. SagaInv => TypeOK
  BY Zenon DEF SagaInv
<1> QED
  BY <1>1, Invariance, PTL

(* No two runs on one pair are ever in flight together, for any number of  *)
(* runs and either kind of lock: acquire_lock, release_lock.               *)
THEOREM MutualExclusion == Spec => []AtMostOneInFlight
<1>1. SagaInv => AtMostOneInFlight
  BY Zenon DEF SagaInv, RunInv, AtMostOneInFlight
<1> QED
  BY <1>1, Invariance, PTL

(* The outcome run_with_state returns is true of the world, for any number *)
(* of steps: execute, rollback.                                            *)
THEOREM OutcomesAreFaithful == Spec => []OutcomeFaithful
<1>1. SagaInv => OutcomeFaithful
  BY ZenonT(30) DEF SagaInv, RunInv, Bounds, Claim, OutcomeFaithful, Terminal
<1> QED
  BY <1>1, Invariance, PTL

(* The persisted state bounds the effects in the world, whatever crashes:  *)
(* transition() runs before every forward and compensate.                  *)
THEOREM JournalIsWriteAhead == Spec => []JournalBoundsWorld
<1>1. SagaInv => JournalBoundsWorld
  BY Zenon DEF SagaInv, Bounds, JournalBoundsWorld
<1> QED
  BY <1>1, Invariance, PTL

(* A persisted in-flight state is never orphaned silently: run_inner.      *)
THEOREM NoSilentOrphan == Spec => []InFlightStateHasOwner
<1>1. SagaInv => InFlightStateHasOwner
  BY Zenon DEF SagaInv
<1> QED
  BY <1>1, Invariance, PTL

(* Only the holder of the lock changes the world or the journal.           *)
THEOREM HolderWrites == Spec => OnlyHolderWrites
<1> DEFINE A == \A p \in Procs :
                  \/ effects'[p] # effects[p]
                  \/ curState' # curState /\ author' = p
                  => lock = p
<1>1. SagaInv /\ [Next]_vars => [A]_vars
  <2> SUFFICES ASSUME SagaInv, NEW p \in Procs, Run(p) \/ Crash(p) PROVE A
    BY Zenon DEF Next, Quiet, vars, runVars, storeVars
  <2>1. InFlight(p) => lock = p
    BY Zenon DEF SagaInv, RunInv
  <2>2. InFlight(p) \/ (effects' = effects /\ curState' = curState)
    BY Zenon DEF Run, AcquireLock, Locked, AcquireFails, RecordEvent, RecordState, StoreFails,
       Forward, ForwardFails, Compensate, CompensateFails, ReleaseLock, ReleaseFails, Crash,
       InFlight, storeVars
  <2>3. \A q \in Procs : q # p => effects'[q] = effects[q]
    BY Zenon DEF Run, AcquireLock, Locked, AcquireFails, RecordEvent, RecordState, StoreFails,
       Forward, ForwardFails, Compensate, CompensateFails, ReleaseLock, ReleaseFails, Crash,
       SagaInv, TypeOK
  <2>4. curState' = curState \/ author' = p
    BY Zenon DEF Run, AcquireLock, Locked, AcquireFails, RecordEvent, RecordState, StoreFails,
       Forward, ForwardFails, Compensate, CompensateFails, ReleaseLock, ReleaseFails, Crash,
       storeVars
  <2> QED
    BY <2>1, <2>2, <2>3, <2>4, Zenon
<1> QED
  BY <1>1, Invariance, PTL DEF Spec, OnlyHolderWrites

(* What a run is about to journal follows its last entry, at every step.   *)
LEMMA LifecycleInv == SagaInv /\ NextInLifecycle /\ [Next]_vars => NextInLifecycle'
<1> SUFFICES ASSUME SagaInv, NextInLifecycle, [Next]_vars PROVE NextInLifecycle'
  BY Zenon
<1>1. CASE UNCHANGED vars
  BY <1>1, Zenon DEF NextInLifecycle, Successors, AfterForward, AfterBackward, State, vars, runVars,
     storeVars
<1>2. ASSUME NEW p \in Procs, Run(p) \/ Crash(p) PROVE NextInLifecycle'
  <2>a. TypeOK /\ RunInv(p) /\ Journalled(p)
    BY Zenon DEF SagaInv
  <2>1. CASE Forward(p) \/ ForwardFails(p) \/ Compensate(p) \/ CompensateFails(p)
    <3>1. /\ curState = to[p] /\ author = p /\ author' = author /\ curState' = curState
          /\ done[p] = to[p].step - 1 \/ to[p].tag = "Compensating"
          /\ to[p].tag = "Running" <=> pc[p] = "forward"
          /\ to[p].tag = "Compensating" <=> pc[p] = "compensate"
      BY <2>1, <2>a, Zenon
      DEF Forward, ForwardFails, Compensate, CompensateFails, RunInv, Journalled,
         storeVars
    <3>2. to'[p] \in Successors(to[p])
      BY <2>1, <2>a, <3>1, SMTT(30) DEF Forward, ForwardFails, Compensate, CompensateFails, Enter,
         Successors, TypeOK
    <3>3. \A q \in Procs : author' = q => q = p
      BY <3>1, Zenon
    <3> QED
      BY <3>1, <3>2, <3>3, Zenon DEF NextInLifecycle, Successors
  <2>2. CASE RecordState(p)
    BY <2>2, <2>a, Zenon DEF RecordState, NextInLifecycle, TypeOK
  <2>3. CASE AcquireLock(p)
    BY <2>3, <2>a, Zenon DEF AcquireLock, Enter, Journalled, NextInLifecycle, storeVars, TypeOK,
       Successors
  <2>4. CASE Locked(p) \/ AcquireFails(p) \/ RecordEvent(p) \/ StoreFails(p)
              \/ ReleaseLock(p) \/ ReleaseFails(p) \/ Crash(p)
    <3>1. /\ UNCHANGED <<to, curState, author>>
          /\ \A q \in Procs : pc'[q] = pc[q] \/ (q = p /\ pc'[q] \notin {"event", "state"})
                              \/ (q = p /\ pc[q] = "event")
      BY <2>4, <2>a, Zenon DEF Locked, AcquireFails, RecordEvent, StoreFails, ReleaseLock,
         ReleaseFails, Crash, storeVars, TypeOK
    <3> QED
      BY <3>1, Zenon DEF NextInLifecycle, Successors
  <2> QED
    BY <1>2, <2>1, <2>2, <2>3, <2>4, Zenon DEF Run
<1> QED
  BY <1>1, <1>2, Zenon DEF Next, Quiet

(* One run never persists a state out of order: execute, rollback.         *)
THEOREM LifecycleFollowed == Spec => JournalFollowsLifecycle
<1> DEFINE A == curState' # curState /\ author' = author => curState' \in Successors(curState)
<1>1. Init => NextInLifecycle
  BY Zenon DEF Init, NextInLifecycle
<1>2. SagaInv /\ NextInLifecycle /\ [Next]_vars => [A]_vars
  <2> SUFFICES ASSUME SagaInv, NextInLifecycle, NEW p \in Procs, Run(p) \/ Crash(p) PROVE A
    BY Zenon DEF Next, Quiet, vars, runVars, storeVars
  <2>1. curState' = curState \/ RecordState(p)
    BY Zenon DEF Run, AcquireLock, Locked, AcquireFails, RecordEvent, StoreFails,
       Forward, ForwardFails, Compensate, CompensateFails, ReleaseLock, ReleaseFails, Crash,
       storeVars
  <2> QED
    BY <2>1, Zenon DEF RecordState, NextInLifecycle
<1> QED
  BY <1>1, <1>2, Invariance, LifecycleInv, PTL DEF Spec, JournalFollowsLifecycle

(* The events lead the states at every step. *)
LEMMA EventsLeadInv == SagaInv /\ EventsLead /\ [Next]_vars => EventsLead'
<1> SUFFICES ASSUME SagaInv, EventsLead, [Next]_vars PROVE EventsLead'
  BY Zenon
<1>1. CASE UNCHANGED vars
  BY <1>1, Zenon
  DEF EventsLead, StateNotAheadOfEvents, InFlight, Idle, State, vars, runVars, storeVars
<1>2. ASSUME NEW p \in Procs, Run(p) \/ Crash(p) PROVE EventsLead'
  <2>a. TypeOK /\ RunInv(p) /\ Journalled(p)
    BY Zenon DEF SagaInv
  <2>b. author \in Procs \cup {NoProc} /\ pc \in [Procs -> Locations] /\ from \in [Procs -> SagaStates] /\ to \in [Procs -> SagaStates]
    BY <2>a, Zenon DEF TypeOK
  <2>1. CASE Forward(p) \/ ForwardFails(p) \/ Compensate(p) \/ CompensateFails(p)
    <3>1. curState = to[p] /\ author = p /\ InFlight(p) /\ UNCHANGED storeVars
      BY <2>1, <2>a, Zenon
      DEF Forward, ForwardFails, Compensate, CompensateFails, Journalled, InFlight
    <3>2. PICK target : Enter(p, target)
      BY <2>1, Zenon DEF Forward, ForwardFails, Compensate, CompensateFails
    <3>3. \A q \in Procs : q # p => pc'[q] = pc[q] /\ from'[q] = from[q] /\ to'[q] = to[q]
      BY <2>b, <3>2, Zenon DEF Enter
    <3>4. pc'[p] = "event" /\ from'[p] = to[p]
      BY <2>b, <3>2, Zenon DEF Enter
    <3>5. curState \in {lastEvent.from, lastEvent.to}
      BY <3>1, Zenon DEF EventsLead, StateNotAheadOfEvents
    <3> QED
      BY <3>1, <3>3, <3>4, <3>5, ZenonT(30) DEF EventsLead, StateNotAheadOfEvents, storeVars
  <2>2. CASE RecordState(p)
    <3>1. curState' = to[p] /\ author' = p /\ lastEvent' = lastEvent /\ lastEvent.to = to[p]
      BY <2>2 DEF RecordState, EventsLead
    <3>2. pc'[p] \notin {"event", "state"} /\ UNCHANGED <<from, to>>
      BY <2>2, <2>b, Zenon DEF RecordState
    <3>3. \A q \in Procs : q # p => pc'[q] \notin {"event", "state"}
      <4>1. InFlight(p)
        BY <2>2, Zenon DEF RecordState, InFlight
      <4>2. \A q \in Procs : q # p => ~InFlight(q)
        BY <4>1, Zenon DEF SagaInv, RunInv
      <4>3. \A q \in Procs : q # p => pc'[q] = pc[q]
        BY <2>2, <2>b, Zenon DEF RecordState
      <4> QED
        BY <4>2, <4>3, Zenon DEF InFlight
    <3> QED
      BY <3>1, <3>2, <3>3, NoProcAssumption, Zenon DEF EventsLead, StateNotAheadOfEvents
  <2>3. CASE AcquireLock(p)
    <3>1. author # p /\ to[p] = Idle /\ UNCHANGED storeVars /\ ~InFlight(p)
      BY <2>3, <2>a, Zenon DEF AcquireLock, Journalled, RunInv, InFlight
    <3>2. pc'[p] = "event" /\ from'[p] = Idle
      BY <2>3, <2>b, <3>1, Zenon DEF AcquireLock, Enter
    <3>3. \A q \in Procs : q # p => pc'[q] = pc[q] /\ from'[q] = from[q] /\ to'[q] = to[q]
      BY <2>3, <2>b, Zenon DEF AcquireLock, Enter
    <3>4. author # NoProc => (InFlight(author)' = InFlight(author))
      BY <2>b, <3>1, <3>3, Zenon DEF InFlight, storeVars
    <3> QED
      BY <3>1, <3>2, <3>3, <3>4, ZenonT(30) DEF EventsLead, StateNotAheadOfEvents, storeVars
  <2>4. CASE RecordEvent(p)
    <3>1. lastEvent' = [from |-> from[p], to |-> to[p]] /\ UNCHANGED <<from, to, curState, author>>
      BY <2>4, Zenon DEF RecordEvent
    <3>2. pc'[p] = "state" /\ \A q \in Procs : q # p => pc'[q] = pc[q]
      BY <2>4, <2>b, Zenon DEF RecordEvent
    <3>3. \A q \in Procs : q # p => ~InFlight(q)
      <4>1. InFlight(p)
        BY <2>4, Zenon DEF RecordEvent, InFlight
      <4> QED
        BY <4>1, Zenon DEF SagaInv, RunInv
    <3>4. pc[p] = "event"
      BY <2>4, Zenon DEF RecordEvent
    <3>5. StateNotAheadOfEvents'
      <4>1. CASE author = p \/ author = NoProc
        BY <3>1, <3>4, <4>1, NoProcAssumption, Zenon DEF EventsLead, StateNotAheadOfEvents
      <4>2. CASE author # p /\ author # NoProc
        BY <2>b, <3>1, <3>2, <3>3, <3>4, <4>2, Zenon
        DEF EventsLead, StateNotAheadOfEvents, InFlight
      <4> QED
        BY <4>1, <4>2, Zenon
    <3> QED
      BY <3>1, <3>2, <3>3, <3>4, <3>5, Zenon DEF EventsLead, InFlight
  <2>5. CASE Locked(p) \/ AcquireFails(p) \/ StoreFails(p) \/ ReleaseLock(p) \/ ReleaseFails(p) \/ Crash(p)
    <3>1. UNCHANGED <<from, to, storeVars>>
      BY <2>5, Zenon DEF Locked, AcquireFails, StoreFails, ReleaseLock, ReleaseFails, Crash
    <3>2. \A q \in Procs : pc'[q] = pc[q] \/ (q = p /\ pc'[q] \notin {"event", "state"})
      BY <2>5, <2>b, Zenon DEF Locked, AcquireFails, StoreFails, ReleaseLock, ReleaseFails, Crash
    <3>3. \A q \in Procs : ~InFlight(q) => ~InFlight(q)'
      BY <2>5, <2>b, Zenon
      DEF Locked, AcquireFails, StoreFails, ReleaseLock, ReleaseFails, Crash, InFlight
    <3> QED
      BY <2>b, <3>1, <3>2, <3>3, Zenon DEF EventsLead, StateNotAheadOfEvents, storeVars
  <2> QED
    BY <1>2, <2>1, <2>2, <2>3, <2>4, <2>5, Zenon DEF Run
<1> QED
  BY <1>1, <1>2, Zenon DEF Next, Quiet

(* What the journal says holds, of the world, of its owner and of its own  *)
(* two logs: record_event precedes record_state, and both precede a step.  *)
THEOREM JournalIsTrue == Spec => []JournalTrue
<1>1. Init => EventsLead
  BY SMTT(30) DEF Init, EventsLead, StateNotAheadOfEvents
<1>2. SagaInv /\ EventsLead => JournalTrue
  BY Zenon DEF SagaInv, EventsLead, Bounds, JournalBoundsWorld, JournalTrue
<1> QED
  BY <1>1, <1>2, Invariance, EventsLeadInv, PTL DEF Spec

(* The engine implements SagaContract: each of its steps is a step of the  *)
(* contract or leaves the contract's state alone.                          *)
THEOREM Refinement == Spec => ImplementsContract
<1>1. Init => Contract!CInit
  BY Zenon DEF Init, Contract!CInit, Reported
<1>2. SagaInv /\ [Next]_vars => [Contract!CNext]_(Contract!cvars)
  <2> SUFFICES ASSUME SagaInv, [Next]_vars PROVE [Contract!CNext]_(Contract!cvars)
    BY Zenon
  <2>1. CASE UNCHANGED vars
    BY <2>1, Zenon DEF vars, runVars, storeVars, Contract!cvars, Reported
  <2>2. ASSUME NEW p \in Procs, Run(p) \/ Crash(p) PROVE [Contract!CNext]_(Contract!cvars)
    <3>a. TypeOK /\ RunInv(p)
      BY Zenon DEF SagaInv
    <3>i. InFlight(p) => lock = p /\ Reported[p] = "none"
      BY <3>a, Zenon DEF RunInv, InFlight, Reported
    <3>1. CASE AcquireLock(p)
      <4>1. lock = NoProc /\ lock' = p /\ effects' = effects /\ Reported[p] = "none"
        BY <3>1, Zenon DEF AcquireLock, Reported
      <4>2. Reported' = Reported
        BY <3>1, <3>a, Zenon DEF AcquireLock, Enter, Reported, TypeOK
      <4> QED
        BY <4>1, <4>2, Zenon DEF Contract!CNext, Contract!Begin
    <3>2. CASE Locked(p) \/ AcquireFails(p)
      <4>1. lock # p /\ lock' = lock /\ effects' = effects /\ Reported[p] = "none"
        BY <3>2, <3>a, Zenon DEF Locked, AcquireFails, Reported, RunInv
      <4>2. \E r \in {"Locked", "Error"} : Reported' = [Reported EXCEPT ![p] = r]
        <5>1. CASE Locked(p)
          BY <5>1, <3>a, Zenon DEF Locked, Reported, TypeOK
        <5>2. CASE AcquireFails(p)
          BY <5>2, <3>a, Zenon DEF AcquireFails, Reported, TypeOK
        <5> QED
          BY <3>2, <5>1, <5>2, Zenon
      <4> QED
        BY <4>1, <4>2, Zenon DEF Contract!CNext, Contract!Refuse
    <3>3. CASE RecordEvent(p) \/ RecordState(p) \/ StoreFails(p)
      BY <3>3, <3>a, Zenon
      DEF RecordEvent, RecordState, StoreFails, Reported, TypeOK, Contract!cvars
    <3>4. CASE Forward(p) \/ ForwardFails(p) \/ Compensate(p) \/ CompensateFails(p)
      <4>1. InFlight(p) /\ to[p].step \in 1 .. N /\ lock' = lock
        BY <3>4, <3>a, Zenon
        DEF Forward, ForwardFails, Compensate, CompensateFails, InFlight, RunInv,
           Bounds, Steps
      <4>2. Reported' = Reported
        BY <3>4, <3>a, Zenon
        DEF Forward, ForwardFails, Compensate, CompensateFails, Enter, Reported,
           TypeOK
      <4>3. \/ effects' = effects
            \/ effects' = [effects EXCEPT ![p] = @ \cup {to[p].step}]
            \/ effects' = [effects EXCEPT ![p] = @ \ {to[p].step}]
        BY <3>4, <3>a DEF Forward, ForwardFails, Compensate, CompensateFails, TypeOK
      <4> QED
        BY <3>i, <4>1, <4>2, <4>3, Zenon DEF Contract!CNext, Contract!Work, Contract!cvars
    <3>5. CASE ReleaseLock(p) \/ ReleaseFails(p)
      <4>1. lock = p /\ Reported[p] = "none" /\ effects' = effects
        BY <3>5, <3>i, Zenon DEF ReleaseLock, ReleaseFails, InFlight
      <4>2. CASE ReleaseLock(p)
        <5>1. Reported' = [Reported EXCEPT ![p] = result[p]] /\ lock' = NoProc
          BY <4>2, <3>a, Zenon DEF ReleaseLock, Reported, TypeOK
        <5>2. /\ result[p] \in {"Committed", "RolledBack", "PartialRollback", "Error"}
              /\ Contract!Truthful(result[p], effects[p])
          BY <4>2, <3>a, Zenon DEF ReleaseLock, RunInv, Bounds, Claim, Terminal, Steps,
             Contract!Truthful
        <5> QED
          BY <4>1, <5>1, <5>2, Zenon DEF Contract!CNext, Contract!End
      <4>3. CASE ReleaseFails(p)
        <5>1. Reported' = [Reported EXCEPT ![p] = "Error"] /\ lock' \in {p, NoProc}
          BY <4>1, <4>3, <3>a, Zenon DEF ReleaseFails, Reported, TypeOK
        <5>2. Contract!Truthful("Error", effects[p])
          BY Zenon DEF Contract!Truthful
        <5> QED
          BY <4>1, <5>1, <5>2, Zenon DEF Contract!CNext, Contract!End
      <4> QED
        BY <3>5, <4>2, <4>3, Zenon
    <3>6. CASE Crash(p)
      <4>1. /\ InFlight(p) /\ lock' \in {lock, NoProc}
            /\ pc[p] \in {"forward", "compensate"} => to[p].step \in 1 .. N
        BY <3>6, <3>a, Zenon DEF Crash, InFlight, RunInv, Bounds, Steps
      <4>2. Reported' = [Reported EXCEPT ![p] = "Died"]
        BY <3>6, <3>a, Zenon DEF Crash, Reported, TypeOK
      <4>3. \/ effects' = effects
            \/ /\ to[p].step \in 1 .. N
               /\ \/ effects' = [effects EXCEPT ![p] = @ \cup {to[p].step}]
                  \/ effects' = [effects EXCEPT ![p] = @ \ {to[p].step}]
        BY <3>6, <4>1, Zenon DEF Crash
      <4> QED
        BY <3>i, <4>1, <4>2, <4>3, Zenon DEF Contract!CNext, Contract!Die
    <3> QED
      BY <2>2, <3>1, <3>2, <3>3, <3>4, <3>5, <3>6, Zenon DEF Run
  <2> QED
    BY <2>1, <2>2, Zenon DEF Next, Quiet
<1> QED
  BY <1>1, <1>2, Invariance, PTL DEF Spec, ImplementsContract, Contract!CSpec

-----------------------------------------------------------------------------
(* For the modules that say what the steps do: where the engine takes a    *)
(* run.                                                                    *)

(* A step that succeeds. *)
LEMMA ForwardEnters ==
  ASSUME SagaInv, NEW p \in Procs, Forward(p)
  PROVE  /\ pc[p] = "forward" /\ to[p].tag = "Running" /\ to[p].step \in 1 .. N
         /\ pc'[p] = "event" /\ failed'[p] = failed[p] /\ curState' = curState /\ author' = author
         /\ to[p].step = N => to'[p].tag = "Committed"
         /\ to[p].step # N => to'[p].tag = "Running" /\ to'[p].step = to[p].step + 1
<1>1. TypeOK /\ RunInv(p)
  BY Zenon DEF SagaInv
<1>2. pc[p] = "forward" /\ to[p].tag = "Running" /\ to[p].step \in 1 .. N
  BY <1>1, Zenon DEF Forward, RunInv, Bounds, Steps
<1>3. /\ pc'[p] = "event" /\ to'[p] = AfterForward(to[p].step) /\ failed'[p] = failed[p]
      /\ curState' = curState /\ author' = author
  BY <1>1, Zenon DEF Forward, Enter, TypeOK, storeVars
<1>4. to[p].step = N => to'[p].tag = "Committed"
  BY <1>3 DEF AfterForward, State
<1>5. to[p].step # N => to'[p].tag = "Running" /\ to'[p].step = to[p].step + 1
  BY <1>3 DEF AfterForward, State
<1> QED
  BY <1>2, <1>3, <1>4, <1>5, Zenon

(* A step that fails: back to the last completed one. *)
LEMMA ForwardFailsEnters ==
  ASSUME SagaInv, NEW p \in Procs, ForwardFails(p)
  PROVE  /\ pc[p] = "forward" /\ to[p].tag = "Running" /\ to[p].step \in 1 .. N
         /\ pc'[p] = "event" /\ failed'[p] = to[p].step /\ curState' = curState /\ author' = author
         /\ to[p].step = 1 => to'[p].tag = "RolledBack"
         /\ to[p].step # 1 => to'[p].tag = "Compensating" /\ to'[p].step = to[p].step - 1
<1>1. TypeOK /\ RunInv(p)
  BY Zenon DEF SagaInv
<1>2. /\ pc[p] = "forward" /\ to[p].tag = "Running" /\ to[p].step \in 1 .. N
      /\ done[p] = to[p].step - 1
  BY <1>1, Zenon DEF ForwardFails, RunInv, Bounds, Steps
<1>3. /\ pc'[p] = "event" /\ to'[p] = AfterBackward(done[p]) /\ failed'[p] = to[p].step
      /\ curState' = curState /\ author' = author
  BY <1>1, Zenon DEF ForwardFails, Enter, TypeOK, storeVars
<1>4. done[p] = 0 => to'[p].tag = "RolledBack"
  BY <1>3 DEF AfterBackward, State
<1>5. done[p] # 0 => to'[p].tag = "Compensating" /\ to'[p].step = done[p]
  BY <1>3 DEF AfterBackward, State
<1>6. to[p].step = 1 <=> done[p] = 0
  BY <1>2
<1> QED
  BY <1>2, <1>3, <1>4, <1>5, <1>6, Zenon

(* A compensation that succeeds: on to the one before. *)
LEMMA CompensateEnters ==
  ASSUME SagaInv, NEW p \in Procs, Compensate(p)
  PROVE  /\ pc[p] = "compensate" /\ to[p].tag = "Compensating" /\ to[p].step \in 1 .. N
         /\ failed'[p] = failed[p] /\ failed[p] \in 1 .. N /\ failed[p] > to[p].step
         /\ pc'[p] = "event" /\ curState' = curState /\ author' = author
         /\ to[p].step = 1 => to'[p].tag = "RolledBack"
         /\ to[p].step # 1 => to'[p].tag = "Compensating" /\ to'[p].step = to[p].step - 1
<1>1. TypeOK /\ RunInv(p) /\ failed[p] \in 0 .. N
  BY Zenon DEF SagaInv, TypeOK
<1>2. /\ pc[p] = "compensate" /\ to[p].tag = "Compensating" /\ to[p].step \in 1 .. N
      /\ failed[p] > to[p].step
  BY <1>1, Zenon DEF Compensate, RunInv, Bounds, Steps
<1>3. /\ pc'[p] = "event" /\ to'[p] = AfterBackward(to[p].step - 1) /\ failed'[p] = failed[p]
      /\ curState' = curState /\ author' = author
  BY <1>1, Zenon DEF Compensate, Enter, TypeOK, storeVars
<1>4. to[p].step - 1 = 0 => to'[p].tag = "RolledBack"
  BY <1>3 DEF AfterBackward, State
<1>5. to[p].step - 1 # 0 => to'[p].tag = "Compensating" /\ to'[p].step = to[p].step - 1
  BY <1>3 DEF AfterBackward, State
<1>6. (to[p].step = 1 <=> to[p].step - 1 = 0) /\ failed[p] \in 1 .. N
  BY <1>1, <1>2, NAssumption
<1> QED
  BY <1>2, <1>3, <1>4, <1>5, <1>6, Zenon

(* A compensation that fails ends the rollback. *)
LEMMA CompensateFailsEnters ==
  ASSUME SagaInv, NEW p \in Procs, CompensateFails(p)
  PROVE  /\ pc[p] = "compensate" /\ to[p].tag = "Compensating" /\ to[p].step \in 1 .. N
         /\ pc'[p] = "event" /\ curState' = curState /\ author' = author
         /\ to'[p].tag = "PartialRollback"
<1>1. TypeOK /\ RunInv(p)
  BY Zenon DEF SagaInv
<1>2. pc[p] = "compensate" /\ to[p].tag = "Compensating" /\ to[p].step \in 1 .. N
  BY <1>1, Zenon DEF CompensateFails, RunInv, Bounds, Steps
<1>3. /\ pc'[p] = "event" /\ to'[p] = State("PartialRollback", 0)
      /\ curState' = curState /\ author' = author
  BY <1>1, Zenon DEF CompensateFails, Enter, TypeOK, storeVars
<1> QED
  BY <1>2, <1>3 DEF State

=============================================================================
