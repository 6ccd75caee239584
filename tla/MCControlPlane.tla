---------------------------- MODULE MCControlPlane ----------------------------
(* Instances of ControlPlane for TLC.                                       *)
EXTENDS ControlPlane, TLC

Symmetry == Permutations(Ids) \cup Permutations(Accounts) \cup Permutations(Procs)
=============================================================================
