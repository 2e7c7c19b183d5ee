-------------------------- MODULE MCDistrictStats ---------------------------
(* Two geographies, two districts and two computations. *)
EXTENDS DistrictStats, TLC
CONSTANTS u1, u2, j1, j2, z1, z2

Symmetric == Permutations({u1, u2}) \cup Permutations({z1, z2})
=============================================================================
