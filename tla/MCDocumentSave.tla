--------------------------- MODULE MCDocumentSave ---------------------------
(* Two browsers, two geographies, and as many requests as the run asks for. *)
EXTENDS DocumentSave, TLC
CONSTANTS c1, c2, g1, g2, u1, u2, u3

Symmetric == Permutations({c1, c2}) \cup Permutations({g1, g2}) \cup Permutations(Puts)
=============================================================================
