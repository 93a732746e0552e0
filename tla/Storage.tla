------------------------------ MODULE Storage -------------------------------
(***************************************************************************)
(* What fraisier keeps on disk and in the database: the files of the state *)
(* store, the archives of the backup directory, and the live database with *)
(* its ledger.  They meet only in files this model keeps apart, so a       *)
(* behaviour drives one of the three.                                      *)
(***************************************************************************)
EXTENDS StateFiles, Archives, Databases

VARIABLE scene

storageVars == <<scene, sfVars, archVars, dbVars>>

QuietSetup == [admin |-> "none", appSuper |-> FALSE, tviews |-> FALSE, requires |-> "none",
               server |-> Ready, grants |-> Tviews]

StorageInit ==
    /\ scene \in {"files", "archives", "database"}
    /\ scene # "files" => /\ \E mix \in {CHOOSE m \in Mixes : TRUE} :
                                shape = mix[1] /\ kind = mix[2]
                          /\ name = [t \in Targets |-> NoProc]
    /\ scene # "archives" => cast = "drill" /\ reader = TRUE
    /\ scene # "database" => setup = QuietSetup
    /\ SFInit /\ ArchInit /\ DbInit

StorageNext ==
    /\ UNCHANGED scene
    /\ \/ scene = "files" /\ SFNext /\ UNCHANGED <<archVars, dbVars>>
       \/ scene = "archives" /\ ArchNext /\ UNCHANGED <<sfVars, dbVars>>
       \/ scene = "database" /\ DbNext /\ UNCHANGED <<sfVars, archVars>>

StorageSpec == StorageInit /\ [][StorageNext]_storageVars
=============================================================================
