-------------------------------- MODULE Saga --------------------------------
(***************************************************************************)
(* The saga engine of fraisier-saga (saga.rs) over its state store         *)
(* (state_store.rs).  Every process is one call of run_with_state for the  *)
(* same (fraise, environment) pair: a CLI invocation, a webhook delivery,  *)
(* an embedded deploy.  A run takes the pair's lock without waiting, drives *)
(* its steps 1..N forward, compensates the completed ones in reverse on    *)
(* the first failure, and releases the lock.  Each change of lifecycle     *)
(* state is journalled in two separate writes, the event and then the      *)
(* state, and every store call may fail.                                   *)
(*                                                                         *)
(* What a step does to the world is abstracted to whether its effect is    *)
(* there.  A forward or a compensation that fails, or whose process dies,  *)
(* may or may not have had its effect.                                     *)
(***************************************************************************)
EXTENDS Naturals

CONSTANTS Procs,        \* the runs
          NoProc,       \* "nobody": the lock is free
          N,            \* number of steps of the saga
          LockDies      \* TRUE: flock, freed by the kernel with its process
                        \* FALSE: a lease row that only release_lock deletes

ASSUME NoProcAssumption == NoProc \notin Procs
ASSUME NAssumption == N \in Nat
ASSUME LockDiesAssumption == LockDies \in BOOLEAN

VARIABLES lock,         \* the holder of the pair's lock, or NoProc
          pc,           \* where each run is
          from,         \* the lifecycle state each run is leaving
          to,           \* the lifecycle state each run is entering or in
          done,         \* number of completed, not yet compensated steps
          failed,       \* the step whose forward failed, 0 while none has
          effects,      \* the steps of each run whose effect is in the world
          result,       \* what run_with_state returns
          curState,     \* the last persisted state
          author,       \* the run that persisted it
          lastEvent     \* the last persisted transition event

storeVars == <<curState, author, lastEvent>>
runVars   == <<pc, from, to, done, failed, effects, result>>
vars      == <<lock, runVars, storeVars>>

Steps == 1 .. N

Tags == {"Idle", "Running", "Committed", "Compensating", "RolledBack",
         "PartialRollback"}
SagaStates == [tag : Tags, step : 0 .. N]

State(tag, i) == [tag |-> tag, step |-> i]
Idle == State("Idle", 0)
Terminal == {"Committed", "RolledBack", "PartialRollback"}
Results == {"none", "Error", "Locked"} \cup Terminal
Locations == {"ready", "event", "state", "forward", "compensate", "release",
              "returned", "dead"}

Init ==
    /\ lock = NoProc
    /\ pc = [p \in Procs |-> "ready"]
    /\ from = [p \in Procs |-> Idle]
    /\ to = [p \in Procs |-> Idle]
    /\ done = [p \in Procs |-> 0]
    /\ failed = [p \in Procs |-> 0]
    /\ effects = [p \in Procs |-> {}]
    /\ result = [p \in Procs |-> "none"]
    /\ curState = Idle
    /\ author = NoProc
    /\ lastEvent = [from |-> Idle, to |-> Idle]

-----------------------------------------------------------------------------
(* The state a run enters once i steps have run forward, and once only k   *)
(* steps are left to compensate.                                           *)

(* Mutant: runs one step too many. *)
AfterForwardPastEnd(i) == IF i > N THEN State("Committed", 0) ELSE State("Running", i + 1)

AfterForward(i) == IF i = N THEN State("Committed", 0) ELSE State("Running", i + 1)

AfterBackward(k) == IF k = 0 THEN State("RolledBack", 0) ELSE State("Compensating", k)

(* Mutants of Enter: journals no step forward after the first; writes the  *)
(* event of the first transition only.                                     *)
EnterUnjournalled(p, target) ==
    /\ from' = [from EXCEPT ![p] = to[p]]
    /\ to' = [to EXCEPT ![p] = target]
    /\ pc' = [pc EXCEPT ![p] = IF target.tag = "Running" /\ target.step > 1
                               THEN "forward" ELSE "event"]

EnterStateOnly(p, target) ==
    /\ from' = [from EXCEPT ![p] = to[p]]
    /\ to' = [to EXCEPT ![p] = target]
    /\ pc' = [pc EXCEPT ![p] = IF to[p] = Idle THEN "event" ELSE "state"]

(* Begin a transition: the event is written next, then the state.          *)
Enter(p, target) ==
    /\ from' = [from EXCEPT ![p] = to[p]]
    /\ to' = [to EXCEPT ![p] = target]
    /\ pc' = [pc EXCEPT ![p] = "event"]

-----------------------------------------------------------------------------
(* Mutants: takes the lock whoever holds it; goes on without it.           *)
AcquireLockUnguarded(p) ==
    /\ pc[p] = "ready"
    /\ lock' = p
    /\ Enter(p, AfterForward(0))
    /\ UNCHANGED <<done, failed, effects, result, storeVars>>

LockedProceeds(p) ==
    /\ pc[p] = "ready"
    /\ lock # NoProc
    /\ Enter(p, AfterForward(0))
    /\ UNCHANGED <<lock, done, failed, effects, result, storeVars>>

(* Acquiring the lock: never waits.                                        *)
AcquireLock(p) ==
    /\ pc[p] = "ready"
    /\ lock = NoProc
    /\ lock' = p
    /\ Enter(p, AfterForward(0))
    /\ UNCHANGED <<done, failed, effects, result, storeVars>>

(* Somebody holds the lock (a leaked lease included).                      *)
Locked(p) ==
    /\ pc[p] = "ready"
    /\ lock # NoProc
    /\ pc' = [pc EXCEPT ![p] = "returned"]
    /\ result' = [result EXCEPT ![p] = "Locked"]
    /\ UNCHANGED <<lock, from, to, done, failed, effects, storeVars>>

(* The lock cannot be tried at all: an open, flock or INSERT error.        *)
AcquireFails(p) ==
    /\ pc[p] = "ready"
    /\ pc' = [pc EXCEPT ![p] = "returned"]
    /\ result' = [result EXCEPT ![p] = "Error"]
    /\ UNCHANGED <<lock, from, to, done, failed, effects, storeVars>>

-----------------------------------------------------------------------------
(* transition(): record_event, then record_state.                          *)

RecordEvent(p) ==
    /\ pc[p] = "event"
    /\ lastEvent' = [from |-> from[p], to |-> to[p]]
    /\ pc' = [pc EXCEPT ![p] = "state"]
    /\ UNCHANGED <<lock, from, to, done, failed, effects, result, curState, author>>

RecordState(p) ==
    /\ pc[p] = "state"
    /\ curState' = to[p]
    /\ author' = p
    /\ pc' = [pc EXCEPT ![p] =
                IF to[p].tag = "Running" THEN "forward"
                ELSE IF to[p].tag = "Compensating" THEN "compensate"
                ELSE "release"]
    /\ result' = [result EXCEPT ![p] =
                IF to[p].tag \in Terminal THEN to[p].tag ELSE @]
    /\ UNCHANGED <<lock, from, to, done, failed, effects, lastEvent>>

(* Mutant: the store error is swallowed.                                   *)
StoreFailsSilently(p) ==
    /\ pc[p] \in {"event", "state"}
    /\ pc' = [pc EXCEPT ![p] = "release"]
    /\ UNCHANGED <<lock, from, to, done, failed, effects, result, storeVars>>

(* Either write fails: `?` leaves execute and rollback at once, with no    *)
(* compensation.                                                           *)
StoreFails(p) ==
    /\ pc[p] \in {"event", "state"}
    /\ pc' = [pc EXCEPT ![p] = "release"]
    /\ result' = [result EXCEPT ![p] = "Error"]
    /\ UNCHANGED <<lock, from, to, done, failed, effects, storeVars>>

-----------------------------------------------------------------------------
(* execute(): the forward actions.                                         *)

Forward(p) ==
    /\ pc[p] = "forward"
    /\ effects' = [effects EXCEPT ![p] = @ \cup {to[p].step}]
    /\ done' = [done EXCEPT ![p] = to[p].step]
    /\ Enter(p, AfterForward(to[p].step))
    /\ UNCHANGED <<lock, failed, result, storeVars>>

(* Mutant: retries the failed step without limit.                          *)
ForwardFailsRetries(p) ==
    /\ pc[p] = "forward"
    /\ Enter(p, to[p])
    /\ UNCHANGED <<lock, done, failed, effects, result, storeVars>>

ForwardFails(p) ==
    /\ pc[p] = "forward"
    /\ \E left \in {{}, {to[p].step}} :
          effects' = [effects EXCEPT ![p] = @ \cup left]
    /\ failed' = [failed EXCEPT ![p] = to[p].step]
    /\ Enter(p, AfterBackward(done[p]))
    /\ UNCHANGED <<lock, done, result, storeVars>>

(* rollback(): the compensations, last completed step first.               *)

Compensate(p) ==
    /\ pc[p] = "compensate"
    /\ effects' = [effects EXCEPT ![p] = @ \ {to[p].step}]
    /\ done' = [done EXCEPT ![p] = to[p].step - 1]
    /\ Enter(p, AfterBackward(to[p].step - 1))
    /\ UNCHANGED <<lock, failed, result, storeVars>>

(* Mutant: a failed compensation is ignored and the rollback goes on.      *)
CompensateFailsIgnored(p) ==
    /\ pc[p] = "compensate"
    /\ done' = [done EXCEPT ![p] = to[p].step - 1]
    /\ Enter(p, AfterBackward(to[p].step - 1))
    /\ UNCHANGED <<lock, failed, effects, result, storeVars>>

CompensateFails(p) ==
    /\ pc[p] = "compensate"
    /\ \E gone \in {{}, {to[p].step}} :
          effects' = [effects EXCEPT ![p] = @ \ gone]
    /\ Enter(p, State("PartialRollback", 0))
    /\ UNCHANGED <<lock, done, failed, result, storeVars>>

-----------------------------------------------------------------------------
(* run_inner(): the lock is released whatever execute returned.            *)

ReleaseLock(p) ==
    /\ pc[p] = "release"
    /\ lock' = NoProc
    /\ pc' = [pc EXCEPT ![p] = "returned"]
    /\ UNCHANGED <<from, to, done, failed, effects, result, storeVars>>

(* The release fails: the run reports an error even when it committed.  A  *)
(* flock is gone anyway, its file is dropped with the guard; a lease stays. *)
ReleaseFails(p) ==
    /\ pc[p] = "release"
    /\ lock' = IF LockDies THEN NoProc ELSE lock
    /\ pc' = [pc EXCEPT ![p] = "returned"]
    /\ result' = [result EXCEPT ![p] = "Error"]
    /\ UNCHANGED <<from, to, done, failed, effects, storeVars>>

(* The process dies holding the lock, anywhere, in the middle of a step    *)
(* too: the step's effect may already have happened.                       *)
Crash(p) ==
    /\ pc[p] \in {"event", "state", "forward", "compensate", "release"}
    /\ pc' = [pc EXCEPT ![p] = "dead"]
    /\ lock' = IF LockDies THEN NoProc ELSE lock
    /\ \/ UNCHANGED effects
       \/ /\ pc[p] = "forward"
          /\ effects' = [effects EXCEPT ![p] = @ \cup {to[p].step}]
       \/ /\ pc[p] = "compensate"
          /\ effects' = [effects EXCEPT ![p] = @ \ {to[p].step}]
    /\ UNCHANGED <<from, to, done, failed, result, storeVars>>

-----------------------------------------------------------------------------
(* What a process does of its own accord.                                  *)
Run(p) ==
    \/ AcquireLock(p) \/ Locked(p) \/ AcquireFails(p)
    \/ RecordEvent(p) \/ RecordState(p) \/ StoreFails(p)
    \/ Forward(p) \/ ForwardFails(p)
    \/ Compensate(p) \/ CompensateFails(p)
    \/ ReleaseLock(p) \/ ReleaseFails(p)

(* Every run is over: nothing more happens.                                *)
Quiet == (\A p \in Procs : pc[p] \in {"returned", "dead"}) /\ UNCHANGED vars

Next == (\E p \in Procs : Run(p) \/ Crash(p)) \/ Quiet

Spec == Init /\ [][Next]_vars

(* Assuming that every store call and every step's action returns, a run   *)
(* that can take its next step takes it.  Nothing makes a process crash.   *)
FairSpec == Spec /\ \A p \in Procs : WF_vars(Run(p))

-----------------------------------------------------------------------------
(* Properties.                                                             *)

(* Every variable has its type. *)
TypeOK ==
    /\ lock \in Procs \cup {NoProc}
    /\ pc \in [Procs -> Locations]
    /\ from \in [Procs -> SagaStates]
    /\ to \in [Procs -> SagaStates]
    /\ done \in [Procs -> 0 .. N]
    /\ failed \in [Procs -> 0 .. N]
    /\ effects \in [Procs -> SUBSET Steps]
    /\ result \in [Procs -> Results]
    /\ curState \in SagaStates
    /\ author \in Procs \cup {NoProc}
    /\ lastEvent \in [from : SagaStates, to : SagaStates]

InFlight(p) == pc[p] \in {"event", "state", "forward", "compensate", "release"}

(* "At most one in-flight saga per pair" (state_store.rs, the concurrency  *)
(* contract): no two runs are ever between acquire_lock and release_lock,  *)
(* whatever crashes, store errors and failed releases came before.         *)
AtMostOneInFlight ==
    \A p, q \in Procs : InFlight(p) /\ InFlight(q) => p = q

(* What a terminal tag claims about the effects of the run p that reports  *)
(* or persists it.                                                         *)
Claim(tag, p) ==
    /\ tag = "Committed" => effects[p] = Steps
    /\ tag = "RolledBack" => effects[p] \subseteq {failed[p]}

(* The outcome run_with_state hands back is true of the world: Committed   *)
(* only with every step's effect in place, RolledBack only with nothing    *)
(* left but what the failed step itself left (SagaOutcome).                *)
OutcomeFaithful == \A p \in Procs : Claim(result[p], p)

(* The persisted state is a write-ahead record of the world: whatever dies *)
(* and whenever, an operator who reads Running(i) knows that steps before  *)
(* i took effect and none after it did, Compensating(i) that every step    *)
(* before i is still to be undone and every later completed one is undone, *)
(* and a terminal state means what it claims (transition() before every    *)
(* forward and compensate).                                                *)
JournalBoundsWorld ==
    LET i == curState.step IN
    author # NoProc =>
        /\ Claim(curState.tag, author)
        /\ curState.tag = "Running" =>
              1 .. (i - 1) \subseteq effects[author] /\ effects[author] \subseteq 1 .. i
        /\ curState.tag = "Compensating" =>
              /\ 1 .. (i - 1) \subseteq effects[author]
              /\ effects[author] \subseteq (1 .. i) \cup {failed[author]}

(* A persisted in-flight state (Running, Compensating) is never orphaned   *)
(* silently: its run still holds the lock, or it died, or it reported an   *)
(* error to its caller.                                                    *)
InFlightStateHasOwner ==
    curState.tag \in {"Running", "Compensating"} =>
        \/ lock = author /\ InFlight(author)
        \/ pc[author] = "dead"
        \/ result[author] = "Error"

(* The state log is never ahead of the event log: the persisted state is   *)
(* the last event's target, or the state that event leaves, or that of a   *)
(* run that is over while a new one has journalled its first event         *)
(* (record_event precedes record_state).                                   *)
StateNotAheadOfEvents ==
    \/ curState \in {lastEvent.from, lastEvent.to}
    \/ lastEvent.from = Idle /\ author # NoProc /\ ~InFlight(author)

(* What the journal says holds: of the world, of who may still change it,  *)
(* and of its two logs.                                                    *)
JournalTrue == JournalBoundsWorld /\ InFlightStateHasOwner /\ StateNotAheadOfEvents

(* Only the run that holds the lock changes the world or the journal, even *)
(* after failed releases and next to refused runs.                         *)
OnlyHolderWrites ==
    [][\A p \in Procs :
          \/ effects'[p] # effects[p]
          \/ curState' # curState /\ author' = p
          => lock = p]_vars

(* The journal of one run moves along the saga's lifecycle only: forward   *)
(* one step at a time, back one step at a time starting below the failed   *)
(* step, never forward again (execute, rollback).                          *)
Successors(s) ==
    IF s.tag = "Running" THEN {AfterForward(s.step), AfterBackward(s.step - 1)}
    ELSE IF s.tag = "Compensating"
         THEN {AfterBackward(s.step - 1), State("PartialRollback", 0)}
         ELSE {}

(* See Successors: one run never persists a state out of order. *)
JournalFollowsLifecycle ==
    [][curState' # curState /\ author' = author => curState' \in Successors(curState)]_vars

(* Every call of run_with_state returns, or its process died: no run waits *)
(* for another, and neither the way forward nor the way back can loop.     *)
AlwaysReturns == \A p \in Procs : <>(pc[p] \in {"returned", "dead"})

(* The engine implements its contract: the world changes only while a run  *)
(* holds the lock and has not reported, and what it reports is true.       *)
Reported == [p \in Procs |-> IF pc[p] = "returned" THEN result[p]
                             ELSE IF pc[p] = "dead" THEN "Died" ELSE "none"]

Contract == INSTANCE SagaContract WITH
    holder <- lock, world <- effects, outcome <- Reported

(* See Contract: run_with_state refines SagaContract. *)
ImplementsContract == Contract!CSpec

-----------------------------------------------------------------------------
(* The inductive invariant.                                                *)

(* The effects of run p lie where state s says they do. *)
Bounds(s, p) ==
    /\ Claim(s.tag, p)
    /\ s.tag = "Running" =>
          /\ s.step \in Steps
          /\ 1 .. (s.step - 1) \subseteq effects[p]
          /\ effects[p] \subseteq 1 .. s.step
    /\ s.tag = "Compensating" =>
          /\ s.step \in Steps
          /\ failed[p] > s.step
          /\ 1 .. (s.step - 1) \subseteq effects[p]
          /\ effects[p] \subseteq (1 .. s.step) \cup {failed[p]}

(* What is known of one run wherever it is: it works only under the lock,  *)
(* its counters agree with the state it is in, its effects lie within the  *)
(* bounds of that state, and its result is the one that state earned.      *)
RunInv(p) ==
    /\ InFlight(p) => lock = p /\ to[p].tag # "Idle"
    /\ pc[p] = "ready" => lock # p /\ to[p] = Idle
    /\ lock = p /\ ~InFlight(p) => ~LockDies
    /\ to[p].tag = "Idle" => effects[p] = {} /\ done[p] = 0 /\ failed[p] = 0
    /\ Bounds(to[p], p)
    /\ to[p].tag = "Running" =>
          /\ done[p] = to[p].step - 1
          /\ failed[p] = 0
          /\ pc[p] \in {"event", "state", "forward"} =>
                effects[p] = 1 .. (to[p].step - 1)
    /\ to[p].tag = "Compensating" =>
          /\ done[p] = to[p].step
          /\ pc[p] \in {"event", "state", "compensate"} => to[p].step \in effects[p]
    /\ to[p].tag \in {"RolledBack", "PartialRollback"} => failed[p] \in Steps
    /\ pc[p] = "forward" => to[p].tag = "Running"
    /\ pc[p] = "compensate" => to[p].tag = "Compensating"
    /\ pc[p] \in {"ready", "event", "state", "forward", "compensate"} => result[p] = "none"
    /\ pc[p] = "release" => result[p] \in Terminal \cup {"Error"}
    /\ result[p] \in Terminal => result[p] = to[p].tag
    /\ pc[p] = "returned" => result[p] # "none"
    /\ result[p] = "Locked" => pc[p] = "returned" /\ to[p] = Idle

(* A run about to act, or about to return its outcome, is the author of    *)
(* the persisted state, and that is the state it is in; a run that has not *)
(* started has written nothing.                                            *)
Journalled(p) ==
    /\ \/ pc[p] \in {"forward", "compensate"}
       \/ pc[p] = "release" /\ result[p] # "Error"
       => author = p /\ curState = to[p]
    /\ pc[p] = "ready" => author # p

(* The invariant Saga_proofs shows inductive; it implies the safety        *)
(* properties above.                                                       *)
SagaInv ==
    /\ TypeOK
    /\ \A p \in Procs : RunInv(p) /\ Journalled(p)
    /\ author = NoProc <=> curState.tag = "Idle"
    /\ author # NoProc => Bounds(curState, author)
    /\ InFlightStateHasOwner

(* What a run is about to journal follows what it journalled last. *)
NextInLifecycle ==
    \A p \in Procs :
        pc[p] \in {"event", "state"} /\ author = p => to[p] \in Successors(curState)

(* A run between its two writes has written its event; one that enters a   *)
(* state leaves the persisted one, unless it is its first.                 *)
EventsLead ==
    /\ author = NoProc => curState = Idle
    /\ \A p \in Procs :
          /\ pc[p] = "state" => lastEvent = [from |-> from[p], to |-> to[p]]
          /\ pc[p] \in {"event", "state"} =>
                \/ author # p /\ from[p] = Idle
                \/ author = p /\ from[p] = curState
    /\ StateNotAheadOfEvents

=============================================================================
