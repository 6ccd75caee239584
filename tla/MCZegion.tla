------------------------------- MODULE MCZegion -------------------------------
(* Symmetry for the runs of Zegion without temporal properties.             *)
EXTENDS Zegion, TLC

Symmetry == Permutations(Reqs) \cup Permutations(Workers)
=============================================================================
