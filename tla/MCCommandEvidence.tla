-------------------------- MODULE MCCommandEvidence --------------------------
(* Instances of CommandEvidence for TLC. *)
EXTENDS CommandEvidence
=============================================================================
