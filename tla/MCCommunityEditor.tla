------------------------- MODULE MCCommunityEditor -------------------------
(* One parent with two blocks, and at most two communities at a time. *)
EXTENDS CommunityEditor, TLC
CONSTANTS p1, b1, b2

MCParentOf == [b \in {b1, b2} |-> p1]

MCNothing == {}

Symmetric == Permutations({b1, b2})
=============================================================================
