---------------------------- MODULE MCBlueGreen ----------------------------
(* Model-checking instances of BlueGreen: two deploys, which are alike.    *)
EXTENDS BlueGreen, TLC

ProcSymmetry == Permutations(Procs)

=============================================================================
