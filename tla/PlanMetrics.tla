---------------------------- MODULE PlanMetrics ------------------------------
(***************************************************************************)
(* Metrics of a plan that are computed on two levels at once: parents that *)
(* are assigned whole, and the blocks of the others (evaluation/           *)
(* validity.py, compactness.py, contiguity/main.py), on the graph that the *)
(* pipelines build from the adjacency of blocks (pipelines/transforms/     *)
(* graph.py).  They are compared with what the same words mean on blocks   *)
(* alone, for every plan that an import or a save of the editor can leave. *)
(*                                                                         *)
(* A metric that raises is left out of the report, and the others are in   *)
(* it (evaluation/main.py, compute_metrics): the result of a metric is a   *)
(* set that has its one answer, or none.                                   *)
(***************************************************************************)
EXTENDS PlanImport

CONSTANT Zones         \* zones the editor paints

ASSUME PlanMetricsOK == Zones \subseteq Nat \ {0}

\* What a save lists: parents, and every block of those that are broken.  A parent
\* may be listed beside its blocks ("Each PUT is independently valid so the DB ends
\* up holding both the parent entry and child entries").
Listings ==
    IF map.shatterable
    THEN {whole \cup UNION {Children(p) : p \in broken} :
             whole \in SUBSET Parents, broken \in SUBSET Parents}
    ELSE SUBSET Blocks

Save ==
    /\ \E listed \in Listings : rows' \in [listed -> Zones \cup {0}]
    /\ UNCHANGED <<map, file, zoneOf, remapped, count>>

Next == New /\ ((\E f \in Files : Import(f)) \/ Save)

Spec == Init /\ [][Next]_vars

-----------------------------------------------------------------------------
(* _build_combined_graph *)

\* The block edges between two parents, whose number is in weighted_edges.
Between(E, p, q) ==
    {e \in E : \E b, c \in e : ParentOf[b] = p /\ ParentOf[c] = q}

\* Blocks, the parents of their neighbours, and neighbouring parents.
Neighbours(E, g, h) ==
    \/ {g, h} \in E
    \/ /\ map.shatterable
       /\ \/ g \in Blocks /\ h \in Parents \ {ParentOf[g]} /\ \E b \in Children(h) : {g, b} \in E
          \/ h \in Blocks /\ g \in Parents \ {ParentOf[h]} /\ \E b \in Children(g) : {h, b} \in E
          \/ g \in Parents /\ h \in Parents \ {g} /\ Between(E, g, h) # {}

\* is_connected of the subgraph of some nodes: they do not fall into two parts
\* without an edge between them.
Connected(E, nodes) ==
    \A part \in SUBSET nodes :
        part # {} /\ part # nodes =>
           \E g \in part, h \in nodes \ part : Neighbours(E, g, h)

NonContiguous ==
    {p \in Parents : map.shatterable /\ ~Connected(map.edges, Linked(p))}

-----------------------------------------------------------------------------
(* The metrics *)

Assigned == {g \in DOMAIN rows : rows[g] # 0}
Units == Assigned \cap Blocks
Wholes == Assigned \cap Parents
Painted == {rows[g] : g \in Assigned}

(* Bug: parents are nodes whether they are contiguous or not. *)
NotExpanded(zone) == {g \in Assigned : rows[g] = zone}

\* The units of a zone, with parents that are not contiguous replaced by the blocks
\* that the graph has of them.
Expanded(zone) ==
    LET units == {g \in Assigned : rows[g] = zone}
    IN  (units \ NonContiguous) \cup UNION {Linked(p) : p \in units \cap NonContiguous}

\* contiguous: G.subgraph leaves out what is not a node, and is_connected raises for
\* a graph without nodes.
Contiguous ==
    LET nodes(zone) == Expanded(zone) \cap Nodes
    IN  IF \E zone \in Painted : nodes(zone) = {} THEN {}
        ELSE {[zone \in Painted |-> Connected(map.edges, nodes(zone))]}

(* Bug: every neighbour that is a single unit is met from both sides. *)
HalfOfAll(once, twice) == (once + twice) \div 2

Halved(once, twice) == once + twice \div 2

\* block_cut_edges: the boundaries of parents that are both whole, by their weight,
\* then those of single units, of which an edge between two is met twice.
\* G.neighbors raises for a unit that is not a node.
CutEdges ==
    LET boundaries == {pq \in kSubset(2, Wholes) : Cardinality({rows[p] : p \in pq}) = 2}
        heavy == {e \in map.edges : map.shatterable /\ {ParentOf[b] : b \in e} \in boundaries}
        met == {d \in Units \X Blocks : {d[1], d[2]} \in map.edges}
        twice == {d \in met : d[2] \in Units /\ rows[d[1]] # rows[d[2]]}
        once == {d \in met : /\ d[2] \notin Units
                             /\ map.shatterable /\ ParentOf[d[2]] \in Wholes
                             /\ rows[d[1]] # rows[ParentOf[d[2]]]}
    IN  IF Units \subseteq Nodes
        THEN {Cardinality(heavy) + Halved(Cardinality(once), Cardinality(twice))}
        ELSE {}

\* assigned_units: G.nodes raises for what is not a node, and a parent that is
\* assigned beside its blocks is refused.
Begun == {ParentOf[b] : b \in Units}
Shattered == {p \in Begun : Linked(p) \subseteq Units}
SplitParents == {p \in Shattered : Cardinality({rows[b] : b \in Linked(p)}) > 1}
Conflicting == IF map.shatterable THEN Begun \cap Wholes ELSE {}

Counts ==
    IF ~map.shatterable
    THEN {[assigned |-> Cardinality(Units), split |-> 0, partial |-> 0, children |-> 0]}
    ELSE IF ~(Assigned \subseteq Nodes) \/ Conflicting # {} THEN {}
    ELSE {[assigned |-> Cardinality(Wholes) + Cardinality(Shattered \ SplitParents),
           split    |-> Cardinality(SplitParents),
           partial  |-> Cardinality(Begun \ Shattered),
           children |-> Cardinality(Units) + Cardinality(UNION {Linked(p) : p \in Wholes})]}

-----------------------------------------------------------------------------
(* What they mean on blocks, as far as the graph has them *)

BlocksIn(zone) == {b \in Ends : ZoneOf(b) = zone}
ZonesAmong(S) == {ZoneOf(b) : b \in S} \ {0}
FullyIn(p) == \A b \in Linked(p) : ZoneOf(b) # 0

\* Cut edges are adjacent blocks in different districts; a parent counts as
\* assigned, split or partial by where its blocks are.  ("cut_count: total number
\* of block-level cut edges"; "assigned_count - units fully assigned to exactly one
\* district"; "split_count - units fully shattered but whose blocks span two or
\* more districts"; "partially_assigned_count - units where only some blocks are
\* assigned".)  A parent assigned beside its blocks has no counts and no right cut
\* edges; where each block has an edge, every other plan has both.
CountsExact ==
    /\ Conflicting = {} =>
          \A n \in CutEdges : n = Cardinality({e \in map.edges :
                                      /\ \A b \in e : ZoneOf(b) # 0
                                      /\ Cardinality(ZonesAmong(e)) = 2})
    /\ map.shatterable =>
          LET number(Is(_)) == Cardinality({p \in Parents : Is(p)})
          IN  \A counts \in Counts :
                 counts = [assigned |-> number(LAMBDA p : FullyIn(p)
                                           /\ Cardinality(ZonesAmong(Linked(p))) = 1),
                           split    |-> number(LAMBDA p : FullyIn(p)
                                           /\ Cardinality(ZonesAmong(Linked(p))) > 1),
                           partial  |-> number(LAMBDA p : ~FullyIn(p)
                                           /\ ZonesAmong(Linked(p)) # {}),
                           children |-> Cardinality({b \in Ends : ZoneOf(b) # 0})]
    /\ Ends = Blocks => CutEdges # {} /\ (Conflicting = {} => Counts # {})

\* A district is contiguous when its blocks are, on whichever levels it is stored
\* ("geographic disconnection is not hidden by the single-node representation"); of
\* a plan with a district that has no block with an edge, nothing is said.
ContiguityExact ==
    Conflicting = {} =>
       Contiguous =
          IF \E zone \in ZonesAmong(Blocks) : BlocksIn(zone) = {} THEN {}
          ELSE {[zone \in ZonesAmong(Blocks) |-> Connected(map.edges, BlocksIn(zone))]}

\* A district that is said to be contiguous is, the blocks without an edge included.
IslandsTold ==
    \A told \in Contiguous : \A zone \in DOMAIN told :
        told[zone] => Connected(map.edges, {b \in Blocks : ZoneOf(b) = zone})
=============================================================================
