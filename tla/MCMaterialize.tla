---------------------------- MODULE MCMaterialize ----------------------------
(* An instance of Materialize for TLC: archives of two pieces.  A is sound *)
(* and so is one of its mixtures with B, the other cannot be unpacked; B   *)
(* lacks a file its manifest lists.                                        *)
EXTENDS Materialize, TLC

CONSTANTS task, file, p1, p2
A == <<"a", "a">>
B == <<"b", "b">>
AB == <<"a", "b">>
BA == <<"b", "a">>
MCTar == A :> <<task, file>> @@ AB :> <<task>> @@ B :> <<task>>
MCDeclared == A :> {task, file} @@ AB :> {task} @@ B :> {task, file} @@ BA :> {}
Symmetry == Permutations({p1, p2})
MCExpected == {A}
=============================================================================
