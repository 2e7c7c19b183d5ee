---------------------------- MODULE MCPlanMetrics ----------------------------
(* Three parents of two, two and one blocks.  The labels are 1 in two      *)
(* spellings, two numbers far above, and a name.  The adjacencies are a     *)
(* ring of blocks, one in which p has two parts, and one in which q2, and   *)
(* r with its only block, have no edge; the last one has no graph of two    *)
(* levels, for no edge leads out of p.                                      *)
EXTENDS PlanMetrics, TLC
CONSTANTS p, q, r, p1, p2, q1, q2, r1, One, OneDot, Eleven, Twelve, Name

MCParentOf == (p1 :> p) @@ (p2 :> p) @@ (q1 :> q) @@ (q2 :> q) @@ (r1 :> r)
MCNumberOf == (One :> 1) @@ (OneDot :> 1) @@ (Eleven :> 11) @@ (Twelve :> 12) @@ (Name :> 0)
MCAdjacencies ==
    {{{p1, p2}, {p2, q1}, {q1, q2}, {q2, r1}, {r1, p1}},
     {{p1, q1}, {q1, q2}, {q2, r1}, {r1, p2}, {p2, q2}},
     {{p1, p2}, {p1, q1}, {p2, q1}},
     {{p1, p2}, {q1, r1}}}
=============================================================================
