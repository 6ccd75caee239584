------------------------------ MODULE MCVelzard ------------------------------
(* Model values and symmetry for the runs of Velzard.                       *)
EXTENDS Velzard, TLC

Symmetry == Permutations(Reqs) \cup Permutations(Workers) \cup Permutations(Envs)
=============================================================================
