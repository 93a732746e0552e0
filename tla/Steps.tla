------------------------------- MODULE Steps --------------------------------
(***************************************************************************)
(* What a deploy is built from and what its steps ask: the command line    *)
(* over a configuration, the checks before the first change, the artifact  *)
(* adapters, a call to an external adapter, and the adapters that judge.   *)
(* One controller makes one of these calls at a time; which of them a      *)
(* behaviour drives is chosen at the start, and the others stay at rest.   *)
(***************************************************************************)
EXTENDS Wiring, Preflight, Releases, Ipc, Tools

VARIABLE axis

stepsVars == <<axis, wiringVars, pfVars, relVars, ipcVars, toolVars>>

LocalSource == [kind |-> "local", ipc |-> FALSE, remote |-> FALSE, sum |-> FALSE]
CommandSetup == [migration |-> "command", health |-> "none", service |-> "none"]

Init ==
    /\ axis \in {"command", "preflight", "artifact", "external", "tool"}
    /\ axis # "command" => /\ file = CHOOSE c \in ConfigFiles : TRUE
                           /\ schema = CHOOSE s \in Schemas : TRUE
                           /\ dsnSet = TRUE
    /\ axis # "preflight" => /\ flow = [strategy |-> "multi", rollback |-> FALSE, mode |-> "Off"]
                             /\ policy = NoPolicy /\ wired = FALSE
    /\ axis # "artifact" => source = LocalSource
    /\ axis # "external" => launcher = "local"
    /\ axis # "tool" => tools = CommandSetup /\ installed = {}
    /\ WiringInit /\ PFInit /\ RelInit /\ IpcInit /\ ToolInit

Next ==
    /\ UNCHANGED axis
    /\ \/ /\ axis = "command" /\ WiringNext
          /\ UNCHANGED <<pfVars, relVars, ipcVars, toolVars>>
       \/ /\ axis = "preflight" /\ PFNext
          /\ UNCHANGED <<wiringVars, relVars, ipcVars, toolVars>>
       \/ /\ axis = "artifact" /\ RelNext
          /\ UNCHANGED <<wiringVars, pfVars, ipcVars, toolVars>>
       \/ /\ axis = "external" /\ IpcNext
          /\ UNCHANGED <<wiringVars, pfVars, relVars, toolVars>>
       \/ /\ axis = "tool" /\ ToolNext
          /\ UNCHANGED <<wiringVars, pfVars, relVars, ipcVars>>

Spec == Init /\ [][Next]_stepsVars

(* Calls to an external adapter under a controller that runs: its own      *)
(* steps, the expiry of the call timeout among them, are taken.  Of the    *)
(* adapter nothing is assumed.                                             *)
ControllerRuns ==
    WF_stepsVars(/\ axis = "external" /\ IpcClient
                   /\ UNCHANGED <<axis, wiringVars, pfVars, relVars, toolVars>>)

ExternalInit == axis = "external" /\ Init
FairSpec == ExternalInit /\ [][Next]_stepsVars /\ ControllerRuns
=============================================================================
