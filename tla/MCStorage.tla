----------------------------- MODULE MCStorage ------------------------------
(* Three commands over the state files.  Two backups over three seconds,   *)
(* or two seconds beside a drill, which takes an archive of the second     *)
(* before for too old; one policy whose age rule bites and one whose       *)
(* ceiling does.                                                           *)
(* Every identity over a ready server; every fault of the server, every    *)
(* gate and a TVIEW the app role may not read where they differ.           *)
EXTENDS Storage, MCStateFiles

MCDbSetups ==
    {s \in Setups :
        /\ s.admin # "none" => ~s.appSuper
        /\ s.requires # "fail" => s.admin = "none" /\ ~s.appSuper
        /\ s.server # Ready => s.admin = "super" /\ s.requires = "fail"
        /\ s.grants # Tviews => s.admin = "none" /\ ~s.appSuper /\ s.requires # "none"
        /\ ~s.tviews => s.admin = "none" /\ s.requires = "none" /\ s.server = Ready}

MCPolicies ==
    {[retention |-> 1, minimum |-> 1, last |-> 0], [retention |-> 0, minimum |-> 2, last |-> 2]}
MCSymmetry == Permutations(Dumpers)
=============================================================================
