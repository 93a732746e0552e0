---------------------------- MODULE SagaContract ----------------------------
(***************************************************************************)
(* What the saga engine promises to its callers, with no journal, no       *)
(* program counters and no order of steps: runs on one pair exclude each   *)
(* other, a refused run changes nothing, and the outcome a run reports is  *)
(* true of the effects it leaves behind.                                   *)
(***************************************************************************)
EXTENDS Naturals

CONSTANTS Procs, NoProc, N

VARIABLES holder,    \* the run that may change the world, or NoProc
          world,     \* the steps of each run whose effect is in the world
          outcome    \* what each run reported, "none" before, "Died" if never

cvars == <<holder, world, outcome>>

CInit ==
    /\ holder = NoProc
    /\ world = [p \in Procs |-> {}]
    /\ outcome = [p \in Procs |-> "none"]

Begin(p) ==
    /\ holder = NoProc
    /\ outcome[p] = "none"
    /\ holder' = p
    /\ UNCHANGED <<world, outcome>>

Refuse(p) ==
    /\ holder # p
    /\ outcome[p] = "none"
    /\ \E r \in {"Locked", "Error"} : outcome' = [outcome EXCEPT ![p] = r]
    /\ UNCHANGED <<holder, world>>

(* The holder adds or removes the effect of one step at a time.            *)
Work(p) ==
    /\ holder = p
    /\ outcome[p] = "none"
    /\ \E i \in 1 .. N : \/ world' = [world EXCEPT ![p] = @ \cup {i}]
                         \/ world' = [world EXCEPT ![p] = @ \ {i}]
    /\ UNCHANGED <<holder, outcome>>

(* What each outcome says about the effects w the run leaves: all of them; *)
(* none but what the one failed step left; anything.                       *)
Truthful(r, w) ==
    \/ r = "Committed" /\ w = 1 .. N
    \/ r = "RolledBack" /\ \E i \in 1 .. N : w \subseteq {i}
    \/ r \in {"PartialRollback", "Error"}

End(p) ==
    /\ holder = p
    /\ outcome[p] = "none"
    /\ \E r \in {"Committed", "RolledBack", "PartialRollback", "Error"} :
          /\ Truthful(r, world[p])
          /\ outcome' = [outcome EXCEPT ![p] = r]
          /\ holder' \in (IF r = "Error" THEN {p, NoProc} ELSE {NoProc})
    /\ UNCHANGED world

(* The process dies, possibly with its last effect done, and possibly      *)
(* leaving the pair locked.                                                *)
Die(p) ==
    /\ holder = p
    /\ outcome[p] = "none"
    /\ \/ UNCHANGED world
       \/ \E i \in 1 .. N : \/ world' = [world EXCEPT ![p] = @ \cup {i}]
                            \/ world' = [world EXCEPT ![p] = @ \ {i}]
    /\ outcome' = [outcome EXCEPT ![p] = "Died"]
    /\ holder' \in {p, NoProc}

CNext == \E p \in Procs : Begin(p) \/ Refuse(p) \/ Work(p) \/ End(p) \/ Die(p)

CSpec == CInit /\ [][CNext]_cvars

=============================================================================
