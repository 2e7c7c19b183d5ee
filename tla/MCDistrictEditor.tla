-------------------------- MODULE MCDistrictEditor --------------------------
(* An instance of the editor: one parent with two blocks, one with none.   *)
EXTENDS DistrictEditor, TLC
CONSTANTS p1, p2, b1, b2

MCParentOf == [b \in {b1, b2} |-> p1]

Symmetric == Permutations({b1, b2})
=============================================================================
