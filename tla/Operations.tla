----------------------------- MODULE Operations -----------------------------
(***************************************************************************)
(* What an operator runs around the deploys: `ship`, `stack`, `sync`, the  *)
(* timers and their alerts, `db refresh`, and the webhook server with its  *)
(* self-upgrade.  They meet only in files this model keeps apart, so a     *)
(* behaviour drives one of them and leaves the others at rest.             *)
(***************************************************************************)
EXTENDS Ship, Stacks, Sync, Units, Refresh, Upgrade

VARIABLE scene

opsVars == <<scene, shipVars, stackVars, syncVars, unitsVars, rfVars, upVars>>

OpsInit ==
    /\ scene \in {"ship", "stack", "sync", "units", "refresh", "upgrade"}
    /\ scene # "stack" => /\ stackFile = CHOOSE f \in Files : TRUE
                          /\ published = [m \in Members |-> 0]
    /\ scene # "units" => half = "alert" /\ dir = [a \in Apps |-> [p \in Parts |-> "absent"]]
    /\ scene # "refresh" => /\ extra = <<Timer>> /\ loads = {Service}
                            /\ database = [there |-> TRUE, marker |-> "none", grant |-> FALSE,
                                           data |-> "own", objects |-> {}]
    /\ scene # "upgrade" => activated = FALSE /\ files = [id \in Ids |-> None] /\ srv = Down
    /\ ShipInit /\ StackInit /\ SyncInit /\ UnitsInit /\ RFInit /\ UpInit

OpsNext ==
    /\ UNCHANGED scene
    /\ \/ /\ scene = "ship" /\ ShipNext
          /\ UNCHANGED <<stackVars, syncVars, unitsVars, rfVars, upVars>>
       \/ /\ scene = "stack" /\ StackNext
          /\ UNCHANGED <<shipVars, syncVars, unitsVars, rfVars, upVars>>
       \/ /\ scene = "sync" /\ SyncNext
          /\ UNCHANGED <<shipVars, stackVars, unitsVars, rfVars, upVars>>
       \/ /\ scene = "units" /\ UnitsNext
          /\ UNCHANGED <<shipVars, stackVars, syncVars, rfVars, upVars>>
       \/ /\ scene = "refresh" /\ RFNext
          /\ UNCHANGED <<shipVars, stackVars, syncVars, unitsVars, upVars>>
       \/ /\ scene = "upgrade" /\ UpNext
          /\ UNCHANGED <<shipVars, stackVars, syncVars, unitsVars, rfVars>>

OpsSpec == OpsInit /\ [][OpsNext]_opsVars
=============================================================================
