----------------------------- MODULE PlanImport ------------------------------
(***************************************************************************)
(* The rows of document.assignments that the server writes itself: those   *)
(* of a new document made from an uploaded file of geographies and labels  *)
(* (assignments/assignments.py, batch_insert_assignments).  Labels become  *)
(* zones, blocks that make up a whole parent are healed into it, and a     *)
(* parent that is listed in part is filled up with rows without a zone.    *)
(*                                                                         *)
(* A label is what it reads as: a whole positive number in one of its      *)
(* spellings, or anything else.  A file is the set of its records; a       *)
(* record that occurs twice is one more duplicate.                         *)
(*                                                                         *)
(* What the map has of geographies is what its graph has, which the        *)
(* pipelines build from a list of edges: a block without an edge is no     *)
(* node of it, nor is a parent all of whose blocks are without.            *)
(***************************************************************************)
EXTENDS Integers, FiniteSets, FiniteSetsExt, Functions

CONSTANTS Parents, Blocks,
          ParentOf,      \* [Blocks -> Parents]
          Adjacencies,   \* adjacency of blocks: sets of sets of two blocks
          Labels,
          NumberOf,      \* [Labels -> Nat], 0 for what is not a whole positive number
          MaxDistricts,  \* MAX_DISTRICTS
          Default,       \* districtrmap.num_districts
          MaxRecords     \* bound: records of a file

ASSUME PlanImportOK ==
    /\ IsFiniteSet(Parents) /\ IsFiniteSet(Blocks)
    /\ Parents \cap Blocks = {}
    /\ ParentOf \in [Blocks -> Parents]
    /\ \A p \in Parents : \E b \in Blocks : ParentOf[b] = p
    /\ NumberOf \in [Labels -> Nat]
    /\ {MaxDistricts, Default} \subseteq Nat \ {0}
    /\ MaxRecords \in Nat
    /\ \A E \in Adjacencies : E \subseteq kSubset(2, Blocks)

VARIABLES map,       \* shatterable, num_districts_modifiable, and the edges of its graph
          file,      \* the file the document was made from, {} when there was none
          rows,      \* document.assignments: geography -> zone, or 0 for NULL
          zoneOf,    \* the zones the labels of the file were given
          remapped,  \* the labels whose new number the user is told
          count      \* document.num_districts

vars == <<map, file, rows, zoneOf, remapped, count>>

Children(p) == {b \in Blocks : ParentOf[b] = p}
Records == (Parents \cup Blocks) \X Labels
Files == {Range(list) : list \in [1 .. MaxRecords -> Records]}

\* The nodes of the graph, and the "children" of one.
Ends == UNION map.edges
Nodes == Ends \cup (IF map.shatterable THEN {ParentOf[b] : b \in Ends} ELSE {})
Linked(p) == Children(p) \cap Ends

\* _build_combined_graph fails for a parent whose blocks have edges, but none that
\* leads out of it: a parent becomes a node by such an edge.
Buildable(E) ==
    \A b \in UNION E : \E e \in E :
        \E c, d \in e : ParentOf[c] = ParentOf[b] /\ ParentOf[d] # ParentOf[b]

Empty == [g \in {} |-> 0]

Init ==
    /\ map \in [shatterable : BOOLEAN, modifiable : BOOLEAN, edges : Adjacencies]
    /\ map.shatterable => Buildable(map.edges)
    /\ file = {} /\ remapped = {}
    /\ rows = Empty /\ zoneOf = Empty
    /\ count = Default

-----------------------------------------------------------------------------
(* _build_zone_mapping *)

OutlierFactor == 5
MaxOutliers == 2

\* _detect_outlier_labels: of the two largest numbers, those that are far above
\* the next one and the map's own count.
Outliers(labels) ==
    LET numbers == {NumberOf[l] : l \in labels} \ {0}
        largest == {n \in numbers : Cardinality({m \in numbers : m > n}) < MaxOutliers}
        reference == Max((numbers \ largest) \cup {Default})
    IN  {l \in labels : NumberOf[l] \in largest /\ NumberOf[l] > OutlierFactor * reference}

ZoneCap == IF map.modifiable THEN MaxDistricts ELSE Default

\* The labels that keep their number ...
Kept(labels) ==
    {l \in labels : NumberOf[l] \in 1 .. ZoneCap}
        \ (IF map.modifiable THEN Outliers(labels) ELSE {})
Used(labels) == {NumberOf[l] : l \in Kept(labels)}
Renumbered(labels) == labels \ Kept(labels)

\* ... and the numbers the others are given, the lowest that are free.
Available(labels) ==
    LET free == (1 .. ZoneCap) \ Used(labels)
    IN  {n \in free : Cardinality({m \in free : m < n}) < Cardinality(Renumbered(labels))}

\* In which order depends on the iteration over a set of strings.
Mappings(labels) ==
    {[l \in labels |-> IF l \in Kept(labels) THEN NumberOf[l] ELSE new[l]] :
        new \in Bijection(Renumbered(labels), Available(labels))}

\* More zones than the map may have are refused.
Fits(labels) == Cardinality(Used(labels)) + Cardinality(Renumbered(labels)) <= ZoneCap

-----------------------------------------------------------------------------
(* _heal_or_fill *)

Listed(zones, p) == Children(p) \cap DOMAIN zones

(* Bug: blocks of one zone are healed though some of their siblings are not
   listed. *)
HealsListed(zones, p) ==
    Listed(zones, p) # {} /\ Cardinality({zones[b] : b \in Listed(zones, p)}) = 1

Heals(zones, p) ==
    Listed(zones, p) = Linked(p) /\ Cardinality({zones[b] : b \in Linked(p)}) = 1

HealedOrFilled(zones) ==
    LET healed == {p \in Parents : Heals(zones, p)}
        removed == UNION {Linked(p) : p \in healed}
        filled == UNION {Linked(p) : p \in {q \in Parents : Listed(zones, q) # {}}}
    IN  [g \in (DOMAIN zones \cup healed \cup filled) \ removed |->
            IF g \in healed THEN zones[CHOOSE b \in Linked(g) : TRUE]
            ELSE IF g \in DOMAIN zones THEN zones[g] ELSE 0]

-----------------------------------------------------------------------------
(* batch_insert_assignments, create_document *)

LabelsOf(f) == {r[2] : r \in f}
Accepted(f) == {r \in f : r[1] \in Nodes}
Duplicates(f) == \E r, s \in Accepted(f) : r # s /\ r[1] = s[1]

\* A document that nothing has been written to yet.
New == rows = Empty /\ file = {}

\* The plan of a new document; a file that is refused leaves no document.
Import(f) ==
    /\ Fits(LabelsOf(f))
    /\ ~Duplicates(f)
    /\ \E zone \in Mappings(LabelsOf(f)) :
          LET zones == [g \in {r[1] : r \in Accepted(f)} |->
                            zone[(CHOOSE r \in f : r[1] = g)[2]]]
          IN  /\ zoneOf' = zone
              /\ rows' = IF map.shatterable THEN HealedOrFilled(zones) ELSE zones
              /\ remapped' = {l \in Renumbered(LabelsOf(f)) : zone[l] \in Range(zones)}
              /\ count' = IF map.modifiable THEN Max(Range(zones) \cup {Default}) ELSE Default
    /\ file' = f
    /\ UNCHANGED map

-----------------------------------------------------------------------------
\* The zone a block is in, by its own row or by its parent's.
ZoneOf(b) ==
    LET own == {b, ParentOf[b]} \cap DOMAIN rows
    IN  Max({rows[g] : g \in own} \cup {0})

\* What the editor relies on when it loads the plan: no parent is listed with
\* its blocks, and a parent's blocks that the graph has are listed all or not at all.
WellFormed ==
    \A b \in Blocks \cap DOMAIN rows :
        map.shatterable => /\ ParentOf[b] \notin DOMAIN rows
                           /\ Linked(ParentOf[b]) \subseteq DOMAIN rows

SameLabel(k, l) == k = l \/ (NumberOf[k] = NumberOf[l] /\ NumberOf[k] # 0)

\* A file that lists a parent and blocks of it says two things of these.
Mixes(f) ==
    \E r, s \in Accepted(f) : s[1] \in Blocks /\ r[1] = ParentOf[s[1]]

\* The document says what the file says, of the blocks the graph has: every one is
\* in the zone of the label that its record, or its parent's, has, and in none
\* otherwise; two labels share a zone only when they are the same number; a label
\* that lost its number is told to the user; and the district count admits every
\* zone.
ImportExact ==
    file # {} /\ ~Mixes(file) =>
        /\ WellFormed
        /\ \A b \in Ends :
              LET records == {r \in Accepted(file) : r[1] \in {b, ParentOf[b]}}
              IN  ZoneOf(b) = Max({zoneOf[r[2]] : r \in records} \cup {0})
        /\ \A k, l \in LabelsOf(file) : zoneOf[k] = zoneOf[l] <=> SameLabel(k, l)
        /\ \A r \in Accepted(file) : zoneOf[r[2]] # NumberOf[r[2]] => r[2] \in remapped
        /\ \A g \in DOMAIN rows : rows[g] \in 0 .. count

\* A block without an edge, whose records are skipped, is in a zone only when its
\* parent is listed.
SkippedStayOut ==
    file # {} =>
        \A b \in Blocks \ Ends :
            ZoneOf(b) # 0 => \E r \in Accepted(file) : r[1] = ParentOf[b]
=============================================================================
