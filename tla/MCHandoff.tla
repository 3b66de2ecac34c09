----------------------------- MODULE MCHandoff -----------------------------
(* Instances of Handoff for TLC. *)
EXTENDS Handoff, TLC

Symmetry == Permutations(Proc) \cup Permutations(Path) \cup Permutations(Content)
=============================================================================
