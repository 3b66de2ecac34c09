----------------------------- MODULE MCPrepare ------------------------------
(* Instances of Prepare for TLC: a directory with two files, the same      *)
(* directory spelt with a trailing slash, and a file of its own.           *)
EXTENDS Prepare, TLC

CONSTANTS f1, f2, f3, dir, dirSlash, file

MCCovers == [i \in Include |-> IF i = file THEN {f3} ELSE {f1, f2}]
Symmetry == Permutations(Proc)
=============================================================================
