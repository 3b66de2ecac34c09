------------------------------ MODULE MCPolicy ------------------------------
(* Instances of Policy for TLC. *)
EXTENDS Policy, TLC

Symmetry == Permutations(Proc) \cup Permutations(Project) \cup Permutations(Setting)
=============================================================================
