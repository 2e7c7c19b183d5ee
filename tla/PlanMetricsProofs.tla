-------------------------- MODULE PlanMetricsProofs --------------------------
(***************************************************************************)
(* Proofs about imports and metrics, for every map and every adjacency of  *)
(* blocks: a document that is made from a file says what the file says,    *)
(* and the counts, the cut edges and the contiguity that are computed on   *)
(* two levels are those of the blocks.  The plan of a document is made in  *)
(* one step, so what matters is what the operators return; the invariant   *)
(* that carries them is Laid, the form of the rows.                        *)
(***************************************************************************)
EXTENDS PlanMetrics, Graphs, FiniteSetTheorems, WellFoundedInduction, TLAPS

LEMMA Geography ==
    /\ \A b \in Blocks : ParentOf[b] \in Parents /\ b \notin Parents
    /\ \A p \in Parents : p \notin Blocks /\ Children(p) # {} /\ Children(p) \subseteq Blocks
    /\ \A p \in Parents : IsFiniteSet(Children(p)) /\ IsFiniteSet(Linked(p))
<1>1. \A p \in Parents : Children(p) \in SUBSET Blocks
  BY DEF Children
<1>2. \A p \in Parents : IsFiniteSet(Children(p))
  BY <1>1, FS_Subset, PlanImportOK
<1>3. \A p \in Parents : Linked(p) \in SUBSET Children(p)
  BY DEF Linked
<1>4. \A p \in Parents : IsFiniteSet(Linked(p))
  BY <1>2, <1>3, FS_Subset
<1> QED BY <1>1, <1>2, <1>4, PlanImportOK DEF Children

LEMMA MaxIs ==
    ASSUME NEW S \in SUBSET Int, NEW n \in S, \A x \in S : x <= n
    PROVE  Max(S) = n
<1>1. \A x \in S : (\A y \in S : x >= y) => x = n
  OBVIOUS
<1>2. \A y \in S : n >= y
  OBVIOUS
<1> QED BY <1>1, <1>2 DEF Max

LEMMA BoundedMax ==
    ASSUME NEW S \in SUBSET Nat, S # {}, NEW n \in Nat, \A x \in S : x <= n
    PROVE  Max(S) \in S /\ \A x \in S : x <= Max(S)
<1> DEFINE T == {m \in Nat : n - m \in S}
           R == OpToRel(<, Nat)
<1>1. IsWellFoundedOn(R, Nat)
  BY NatLessThanWellFounded
<1>2. T # {} /\ T \subseteq Nat
  <2>1. PICK x \in S : TRUE
    OBVIOUS
  <2>2. n - x \in Nat /\ n - (n - x) = x
    OBVIOUS
  <2> QED BY <2>1, <2>2
<1>3. \A a, b \in Nat : a < b => <<a, b>> \in R
  BY DEF OpToRel
<1> HIDE DEF R
<1>4. PICK m \in T : \A k \in T : ~(<<k, m>> \in R)
  <2> HIDE DEF T
  <2> QED BY <1>1, <1>2, WFMin
<1>5. n - m \in S /\ \A x \in S : x <= n - m
  <2> SUFFICES ASSUME NEW x \in S PROVE x <= n - m
    OBVIOUS
  <2>1. n - x \in Nat /\ n - (n - x) = x
    OBVIOUS
  <2>2. n - x \in T
    BY <2>1
  <2>3. ~(n - x < m)
    BY <1>3, <1>4, <2>1, <2>2
  <2> QED BY <2>1, <2>3
<1> QED BY <1>5, MaxIs

(* A finite set of numbers has a greatest: of the sets of them that have   *)
(* no bound, a least one would have one, with its last element or without. *)
LEMMA FiniteBounded ==
    ASSUME NEW S \in SUBSET Nat, IsFiniteSet(S)
    PROVE  \E n \in Nat : \A x \in S : x <= n
<1> DEFINE Bounded(U) == \E n \in Nat : \A x \in U : x <= n
           T == {U \in SUBSET S : ~Bounded(U)}
           R == StrictSubsetOrdering(S)
<1>1. SUFFICES ASSUME T # {} PROVE FALSE
  BY DEF T
<1>2. IsWellFoundedOn(R, SUBSET S)
  BY FS_StrictSubsetOrderingWellFounded, FS_FiniteSubsetsOfFinite
<1>3. \A U, V \in SUBSET S : U \subseteq V /\ U # V => <<U, V>> \in R
  BY DEF StrictSubsetOrdering
<1> HIDE DEF R
<1>4. PICK U \in T : \A V \in T : ~(<<V, U>> \in R)
  <2>1. T \subseteq SUBSET S
    OBVIOUS
  <2> HIDE DEF T
  <2> QED BY <1>1, <1>2, <2>1, WFMin
<1>5. U # {}
  <2>1. Bounded({})
    OBVIOUS
  <2> QED BY <2>1
<1>6. PICK x \in U : TRUE
  BY <1>5
<1>7. Bounded(U \ {x})
  <2>1. U \ {x} \in SUBSET S /\ U \ {x} # U /\ U \ {x} \subseteq U /\ U \in SUBSET S
    BY <1>6
  <2>2. U \ {x} \notin T
    BY <1>3, <1>4, <2>1
  <2> QED BY <2>1, <2>2
<1>8. PICK n \in Nat : \A y \in U \ {x} : y <= n
  BY <1>7
<1>9. x \in Nat /\ \A y \in U : y \in Nat
  BY <1>6
<1>10. \A y \in U : y <= n + x
  BY <1>8, <1>9
<1>11. n + x \in Nat
  BY <1>9
<1> QED BY <1>10, <1>11

LEMMA FiniteMax ==
    ASSUME NEW S \in SUBSET Nat, IsFiniteSet(S), S # {}
    PROVE  Max(S) \in S /\ \A x \in S : x <= Max(S)
BY FiniteBounded, BoundedMax

LEMMA ImageFinite ==
    ASSUME NEW S, IsFiniteSet(S), NEW F
    PROVE  IsFiniteSet({F[x] : x \in S})
<1> DEFINE T == {F[x] : x \in S}
           G == [x \in S |-> F[x]]
<1>1. G \in Surjection(S, T)
  BY DEF Surjection
<1> QED BY <1>1, FS_Surjection

-----------------------------------------------------------------------------
(* The labels of a file                                                    *)

Maps == [shatterable : BOOLEAN, modifiable : BOOLEAN, edges : Adjacencies]

(* A number that is written in two ways is one that every map keeps.       *)
SpellingsKept ==
    \A k, l \in Labels :
        k # l /\ NumberOf[k] = NumberOf[l] => NumberOf[k] <= Default /\ NumberOf[k] <= MaxDistricts

LEMMA FileFacts ==
    ASSUME NEW f \in Files
    PROVE  /\ f \subseteq Records /\ IsFiniteSet(f)
           /\ \A r \in f : r = <<r[1], r[2]>> /\ r[1] \in Parents \cup Blocks /\ r[2] \in Labels
           /\ LabelsOf(f) \subseteq Labels /\ IsFiniteSet(LabelsOf(f))
<1>1. PICK list \in [1..MaxRecords -> Records] : f = Range(list)
  BY DEF Files
<1>2. f \subseteq Records
  BY <1>1 DEF Range
<1>3. list \in Surjection(1..MaxRecords, f)
  BY <1>1 DEF Range, Surjection
<1>4. IsFiniteSet(f)
  BY <1>3, FS_Interval, FS_Surjection, PlanImportOK
<1>5. \A r \in f : r = <<r[1], r[2]>> /\ r[1] \in Parents \cup Blocks /\ r[2] \in Labels
  BY <1>2 DEF Records
<1>6. LabelsOf(f) \subseteq Labels
  BY <1>5 DEF LabelsOf
<1>7. IsFiniteSet(LabelsOf(f))
  <2> DEFINE G == [r \in f |-> r[2]]
  <2>1. G \in Surjection(f, LabelsOf(f))
    BY DEF Surjection, LabelsOf
  <2> QED BY <1>4, <2>1, FS_Surjection
<1> QED BY <1>2, <1>4, <1>5, <1>6, <1>7

(* What is at most the map's own count is never an outlier.                *)
LEMMA SmallKept ==
    ASSUME map \in Maps, NEW labels \in SUBSET Labels, IsFiniteSet(labels), NEW l \in labels,
           NumberOf[l] # 0, NumberOf[l] <= Default, NumberOf[l] <= MaxDistricts
    PROVE  l \in Kept(labels)
<1> DEFINE numbers == {NumberOf[k] : k \in labels} \ {0}
           largest == {n \in numbers : Cardinality({m \in numbers : m > n}) < MaxOutliers}
           all == (numbers \ largest) \cup {Default}
           reference == Max(all)
<1>1. NumberOf[l] \in Nat /\ Default \in Nat \ {0} /\ MaxDistricts \in Nat \ {0}
  BY PlanImportOK
<1>2. NumberOf[l] \in 1 .. ZoneCap
  BY <1>1 DEF ZoneCap, Maps
<1>3. numbers \in SUBSET Nat
  BY PlanImportOK
<1>4. IsFiniteSet(numbers)
  <2>1. IsFiniteSet({NumberOf[k] : k \in labels})
    BY ImageFinite
  <2> QED BY <2>1, FS_RemoveElement
<1>5. all \in SUBSET Nat /\ all # {} /\ IsFiniteSet(all) /\ Default \in all
  <2>1. numbers \ largest \in SUBSET numbers
    OBVIOUS
  <2> HIDE DEF numbers, largest
  <2>2. IsFiniteSet(numbers \ largest)
    BY <1>4, <2>1, FS_Subset
  <2> QED BY <1>1, <1>3, <2>2, FS_AddElement
<1>6. reference \in Nat /\ Default <= reference
  <2> HIDE DEF all
  <2> QED BY <1>5, FiniteMax
<1>7. ~(NumberOf[l] > OutlierFactor * reference)
  <2> HIDE DEF reference
  <2> QED BY <1>1, <1>6 DEF OutlierFactor
<1>8. l \notin Outliers(labels)
  BY <1>7 DEF Outliers
<1> QED BY <1>2, <1>8 DEF Kept

LEMMA MappingFacts ==
    ASSUME map \in Maps, NEW labels \in SUBSET Labels, NEW zone \in Mappings(labels)
    PROVE  /\ zone \in [labels -> 1 .. ZoneCap] /\ ZoneCap \in Nat
           /\ \A l \in Kept(labels) : zone[l] = NumberOf[l]
           /\ \A k \in Kept(labels), l \in Renumbered(labels) : zone[k] # zone[l]
           /\ \A k, l \in Renumbered(labels) : zone[k] = zone[l] => k = l
<1>1. PICK new \in Bijection(Renumbered(labels), Available(labels)) :
         zone = [l \in labels |-> IF l \in Kept(labels) THEN NumberOf[l] ELSE new[l]]
  BY DEF Mappings
<1>2. /\ new \in [Renumbered(labels) -> Available(labels)]
      /\ \A k, l \in Renumbered(labels) : new[k] = new[l] => k = l
  BY DEF Bijection, Injection, IsInjective
<1>3. Kept(labels) \subseteq labels /\ Renumbered(labels) = labels \ Kept(labels)
  BY DEF Kept, Renumbered
<1>4. \A l \in Kept(labels) : NumberOf[l] \in 1 .. ZoneCap /\ NumberOf[l] \in Used(labels)
  BY DEF Kept, Used
<1>5. \A n \in Available(labels) : n \in 1 .. ZoneCap /\ n \notin Used(labels)
  BY DEF Available
<1>6. ZoneCap \in Nat
  BY PlanImportOK DEF ZoneCap, Maps
<1> QED BY <1>1, <1>2, <1>3, <1>4, <1>5, <1>6

(* Two labels share a zone only when they are the same number.             *)
LEMMA SameZones ==
    ASSUME map \in Maps, SpellingsKept, NEW labels \in SUBSET Labels, IsFiniteSet(labels),
           NEW zone \in Mappings(labels)
    PROVE  \A k, l \in labels : zone[k] = zone[l] <=> SameLabel(k, l)
<1> TAKE k \in labels, l \in labels
<1>1. ASSUME NEW m \in labels, NEW n \in labels, m # n, SameLabel(m, n)
      PROVE  m \in Kept(labels)
  <2>1. NumberOf[m] = NumberOf[n] /\ NumberOf[m] # 0 /\ m \in Labels /\ n \in Labels
    BY <1>1 DEF SameLabel
  <2>2. NumberOf[m] <= Default /\ NumberOf[m] <= MaxDistricts
    BY <1>1, <2>1 DEF SpellingsKept
  <2> QED BY <2>1, <2>2, SmallKept
<1>2. SameLabel(k, l) <=> SameLabel(l, k)
  BY DEF SameLabel
<1>3. \A m \in labels : m \in Kept(labels) \/ m \in Renumbered(labels)
  BY DEF Renumbered
<1>4. \A m \in Kept(labels) : NumberOf[m] # 0
  BY DEF Kept
<1>5. CASE k = l
  BY <1>5 DEF SameLabel
<1>6. CASE k # l /\ k \in Kept(labels) /\ l \in Kept(labels)
  BY <1>4, <1>6, MappingFacts DEF SameLabel
<1>7. CASE k # l /\ ~(k \in Kept(labels) /\ l \in Kept(labels))
  <2>1. ~SameLabel(k, l)
    BY <1>1, <1>2, <1>7
  <2>2. zone[k] # zone[l]
    BY <1>3, <1>7, MappingFacts
  <2> QED BY <2>1, <2>2
<1> QED BY <1>5, <1>6, <1>7

-----------------------------------------------------------------------------
(* The graph has blocks with an edge, and on a map of two levels their     *)
(* parents.                                                                *)

LEMMA EdgeIsPair ==
    ASSUME NEW e \in kSubset(2, Blocks), NEW b \in e, NEW c \in e, b # c
    PROVE  e = {b, c}
<1> DEFINE S == {b}
           T == S \cup {c}
<1>1. e \in SUBSET Blocks /\ Cardinality(e) = 2
  BY DEF kSubset
<1>2. IsFiniteSet(e)
  BY <1>1, FS_Subset, PlanImportOK
<1>3. IsFiniteSet(S) /\ Cardinality(S) = 1 /\ c \notin S
  BY FS_Singleton
<1>4. T \in SUBSET e /\ T = {b, c}
  OBVIOUS
<1> HIDE DEF S
<1>5. Cardinality(T) = 2
  <2>1. Cardinality(S \cup {c}) = IF c \in S THEN Cardinality(S) ELSE Cardinality(S) + 1
    BY <1>3, FS_AddElement
  <2> QED BY <1>3, <2>1
<1> HIDE DEF T
<1>6. T = e
  BY <1>1, <1>2, <1>4, <1>5, FS_Subset
<1> QED BY <1>4, <1>6

LEMMA EdgeFacts ==
    ASSUME NEW E \in Adjacencies
    PROVE  /\ \A e \in E : e \subseteq Blocks
           /\ \A e \in E : \A b, c \in e : b # c => e = {b, c}
           /\ \A b, c : {b, c} \in E => b \in Blocks /\ c \in Blocks /\ b # c
<1>1. \A e \in E : e \in kSubset(2, Blocks)
  BY PlanImportOK
<1>2. \A e \in E : e \subseteq Blocks /\ Cardinality(e) = 2
  BY <1>1 DEF kSubset
<1>3. \A e \in E : \A b, c \in e : b # c => e = {b, c}
  BY <1>1, EdgeIsPair
<1>4. ASSUME NEW b, NEW c, {b, c} \in E PROVE b \in Blocks /\ c \in Blocks /\ b # c
  <2>1. b \in Blocks /\ c \in Blocks /\ Cardinality({b, c}) = 2
    BY <1>2, <1>4
  <2>2. Cardinality({b}) = 1
    BY FS_Singleton
  <2>3. b = c => {b, c} = {b}
    OBVIOUS
  <2> QED BY <2>1, <2>2, <2>3
<1> QED BY <1>2, <1>3, <1>4

LEMMA NodeFacts ==
    ASSUME map \in Maps
    PROVE  /\ map.edges \in Adjacencies /\ Ends \subseteq Blocks
           /\ Nodes \subseteq Parents \cup Blocks /\ \A b \in Blocks : b \in Nodes <=> b \in Ends
           /\ \A p \in Parents : p \in Nodes <=> map.shatterable /\ Linked(p) # {}
           /\ \A p : \A b : b \in Linked(p) <=> b \in Ends /\ ParentOf[b] = p
           /\ \A b \in Ends : ParentOf[b] \in Parents
<1>1. map.edges \in Adjacencies
  BY DEF Maps
<1>2. Ends \subseteq Blocks
  BY <1>1, EdgeFacts DEF Ends
<1>3. \A p : \A b : b \in Linked(p) <=> b \in Ends /\ ParentOf[b] = p
  BY <1>2 DEF Linked, Children
<1>4. \A p : p \in {ParentOf[b] : b \in Ends} <=> Linked(p) # {}
  BY <1>3
<1>5. \A b \in Ends : ParentOf[b] \in Parents
  BY <1>2, Geography
<1> QED BY <1>1, <1>2, <1>3, <1>4, <1>5, Geography DEF Nodes

-----------------------------------------------------------------------------
(* The rows of a file                                                      *)

ZonesOf(f, zone) ==
    [g \in {r[1] : r \in Accepted(f)} |-> zone[(CHOOSE r \in f : r[1] = g)[2]]]

(* No parent is given with blocks of it.                                   *)
Unmixed(zones) == \A b \in Blocks \cap DOMAIN zones : ParentOf[b] \notin DOMAIN zones

LEMMA ZonesFacts ==
    ASSUME map \in Maps, NEW f \in Files, ~Duplicates(f), NEW zone \in Mappings(LabelsOf(f))
    PROVE  LET zones == ZonesOf(f, zone)
           IN  /\ DOMAIN zones = {r[1] : r \in Accepted(f)} /\ DOMAIN zones \subseteq Nodes
               /\ \A r \in Accepted(f) : zones[r[1]] = zone[r[2]]
               /\ \A g \in DOMAIN zones : zones[g] \in 1 .. ZoneCap
               /\ ~Mixes(f) => Unmixed(zones)
<1> DEFINE zones == ZonesOf(f, zone)
<1>1. DOMAIN zones = {r[1] : r \in Accepted(f)}
  BY DEF ZonesOf
<1>2. \A r \in Accepted(f) : r \in f /\ r[1] \in Nodes
  BY DEF Accepted
<1>3. \A r \in Accepted(f) : zones[r[1]] = zone[r[2]]
  <2> TAKE r \in Accepted(f)
  <2> DEFINE s == CHOOSE t \in f : t[1] = r[1]
  <2>1. s \in f /\ s[1] = r[1]
    BY <1>2
  <2>2. s \in Accepted(f)
    BY <1>2, <2>1 DEF Accepted
  <2>3. s = r
    BY <2>1, <2>2 DEF Duplicates
  <2>4. zones[r[1]] = zone[s[2]]
    BY DEF ZonesOf
  <2> QED BY <2>3, <2>4
<1>4. \A r \in Accepted(f) : zone[r[2]] \in 1 .. ZoneCap
  <2> TAKE r \in Accepted(f)
  <2>1. r[2] \in LabelsOf(f)
    BY <1>2 DEF LabelsOf
  <2> QED BY <2>1, FileFacts, MappingFacts
<1>5. ~Mixes(f) => Unmixed(zones)
  <2>1. \A b \in DOMAIN zones : \E r \in Accepted(f) : r[1] = b
    BY <1>1
  <2> QED BY <2>1 DEF Unmixed, Mixes
<1> HIDE DEF zones
<1> QED BY <1>1, <1>2, <1>3, <1>4, <1>5 DEF zones

LEMMA HealsFacts ==
    ASSUME NEW zones, NEW p \in Parents, Heals(zones, p)
    PROVE  /\ Linked(p) \subseteq DOMAIN zones /\ Linked(p) # {}
           /\ \A b, c \in Linked(p) : zones[b] = zones[c]
<1>1. Linked(p) \subseteq DOMAIN zones
  BY DEF Heals, Listed
<1>2. IsFiniteSet({zones[b] : b \in Linked(p)})
  BY Geography, ImageFinite
<1>3. PICK x : {zones[b] : b \in Linked(p)} = {x}
  BY <1>2, FS_Singleton DEF Heals
<1>4. Linked(p) # {}
  BY <1>3
<1> QED BY <1>1, <1>3, <1>4

LEMMA HealedRows ==
    ASSUME map \in Maps, NEW zones, DOMAIN zones \subseteq Nodes
    PROVE  LET new == HealedOrFilled(zones)
           IN  /\ DOMAIN new \subseteq Parents \cup Blocks
               /\ \A p \in Parents : p \in DOMAIN new <=> p \in DOMAIN zones \/ Heals(zones, p)
               /\ \A b \in Ends : b \in DOMAIN new <=>
                     Listed(zones, ParentOf[b]) # {} /\ ~Heals(zones, ParentOf[b])
               /\ DOMAIN new \cap Blocks \subseteq Ends
               /\ \A p \in Parents : Heals(zones, p) =>
                     \A b \in Linked(p) : new[p] = zones[b]
               /\ \A g \in DOMAIN new : (g \in Parents /\ Heals(zones, g)) \/
                     new[g] = IF g \in DOMAIN zones THEN zones[g] ELSE 0
<1> DEFINE healed == {p \in Parents : Heals(zones, p)}
           removed == UNION {Linked(p) : p \in healed}
           filled == UNION {Linked(p) : p \in {q \in Parents : Listed(zones, q) # {}}}
           new == HealedOrFilled(zones)
<1>1. new = [g \in (DOMAIN zones \cup healed \cup filled) \ removed |->
               IF g \in healed THEN zones[CHOOSE b \in Linked(g) : TRUE]
               ELSE IF g \in DOMAIN zones THEN zones[g] ELSE 0]
  BY DEF HealedOrFilled
<1>2. DOMAIN new = (DOMAIN zones \cup healed \cup filled) \ removed
  BY <1>1
<1>3. \A b \in Ends : b \in removed <=> Heals(zones, ParentOf[b])
  BY NodeFacts
<1>4. \A b \in Ends : b \in filled <=> Listed(zones, ParentOf[b]) # {}
  BY NodeFacts
<1>5. removed \subseteq Blocks /\ filled \subseteq Blocks /\ healed \subseteq Parents
  BY NodeFacts
<1>6. \A b \in Blocks \cap DOMAIN zones : Listed(zones, ParentOf[b]) # {}
  BY DEF Listed, Children
<1>7. \A g \in DOMAIN new : new[g] = IF g \in healed THEN zones[CHOOSE b \in Linked(g) : TRUE]
                                     ELSE IF g \in DOMAIN zones THEN zones[g] ELSE 0
  BY <1>1
<1>8. \A p \in healed : p \in DOMAIN new
  BY <1>2, <1>5, Geography
<1>9. \A p \in healed : \A b \in Linked(p) : new[p] = zones[b]
  <2> TAKE p \in healed
  <2> TAKE b \in Linked(p)
  <2>1. (CHOOSE c \in Linked(p) : TRUE) \in Linked(p)
    BY HealsFacts
  <2>2. new[p] = zones[CHOOSE c \in Linked(p) : TRUE]
    BY <1>7, <1>8
  <2> QED BY <2>1, <2>2, HealsFacts
<1>10. \A p \in Parents : p \in DOMAIN new <=> p \in DOMAIN zones \/ Heals(zones, p)
  BY <1>2, <1>5, Geography
<1>11. \A b \in Ends : b \in DOMAIN new <=>
          Listed(zones, ParentOf[b]) # {} /\ ~Heals(zones, ParentOf[b])
  BY <1>2, <1>3, <1>4, <1>5, <1>6, NodeFacts, Geography
<1>12. DOMAIN new \subseteq Parents \cup Blocks
  BY <1>2, <1>5, NodeFacts
<1>13. \A p \in Parents : p \in healed <=> Heals(zones, p)
  OBVIOUS
<1>16. DOMAIN new \cap Blocks \subseteq Ends
  <2>1. filled \subseteq Ends /\ healed \cap Blocks = {} /\ DOMAIN zones \cap Blocks \subseteq Ends
    BY NodeFacts, Geography
  <2> QED BY <1>2, <2>1
<1> HIDE DEF new, healed, removed, filled
<1>14. \A g \in DOMAIN new : (g \in Parents /\ Heals(zones, g)) \/
          new[g] = IF g \in DOMAIN zones THEN zones[g] ELSE 0
  BY <1>5, <1>7, <1>13
<1>15. \A p \in Parents : Heals(zones, p) => \A b \in Linked(p) : new[p] = zones[b]
  BY <1>9, <1>13
<1> QED BY <1>10, <1>11, <1>12, <1>14, <1>15, <1>16 DEF new

-----------------------------------------------------------------------------
(* The form of the rows of a document: numbers, on geographies of the map. *)

Geos == Blocks \cup (IF map.shatterable THEN Parents ELSE {})

Laid ==
    /\ map \in Maps
    /\ rows \in [DOMAIN rows -> Nat] /\ DOMAIN rows \subseteq Geos

LEMMA ZonedUnits ==
    ASSUME Laid
    PROVE  /\ \A g : g \in Assigned <=> g \in DOMAIN rows /\ rows[g] # 0
           /\ \A g : g \in Units <=> g \in Assigned /\ g \in Blocks
           /\ \A g : g \in Wholes <=> g \in Assigned /\ g \in Parents
           /\ \A g \in Assigned : g \in Units \/ g \in Wholes
           /\ Wholes # {} => map.shatterable
           /\ Conflicting = {} <=> \A b \in Units : ParentOf[b] \notin Wholes
<1>1. \A g : g \in Assigned <=> g \in DOMAIN rows /\ rows[g] # 0
  BY DEF Assigned
<1>2. \A g : g \in Units <=> g \in Assigned /\ g \in Blocks
  BY DEF Units
<1>3. \A g : g \in Wholes <=> g \in Assigned /\ g \in Parents
  BY DEF Wholes
<1>4. \A g \in Assigned : g \in Geos
  BY <1>1 DEF Laid
<1>5. Wholes # {} => map.shatterable
  BY <1>3, <1>4, Geography DEF Geos
<1>6. \A g \in Assigned : g \in Units \/ g \in Wholes
  BY <1>2, <1>3, <1>4 DEF Geos
<1> QED BY <1>1, <1>2, <1>3, <1>5, <1>6 DEF Conflicting, Begun

(* The zone of a block can be read off its row, or off its parent's, when  *)
(* no parent is assigned beside blocks of it.                              *)
ReadOff ==
    \A b \in Blocks :
        ZoneOf(b) = IF b \in Units THEN rows[b]
                    ELSE IF ParentOf[b] \in Wholes THEN rows[ParentOf[b]] ELSE 0

LEMMA ZoneRead == ASSUME Laid, Conflicting = {} PROVE ReadOff
<1> SUFFICES ASSUME NEW b \in Blocks
             PROVE ZoneOf(b) = IF b \in Units THEN rows[b]
                               ELSE IF ParentOf[b] \in Wholes THEN rows[ParentOf[b]] ELSE 0
  BY DEF ReadOff
<1> DEFINE own == {b, ParentOf[b]} \cap DOMAIN rows
           shown == {rows[g] : g \in own} \cup {0}
           n == IF b \in Units THEN rows[b]
                ELSE IF ParentOf[b] \in Wholes THEN rows[ParentOf[b]] ELSE 0
<1>1. ZoneOf(b) = Max(shown)
  BY DEF ZoneOf
<1>2. \A g \in DOMAIN rows : rows[g] \in Nat
  BY DEF Laid
<1>3. shown \in SUBSET Int
  BY <1>2
<1>4. ParentOf[b] \in Parents
  BY Geography
<1>5. \A g \in own : g = b \/ g = ParentOf[b]
  OBVIOUS
<1>6. b \in own => rows[b] = 0 \/ b \in Units
  BY ZonedUnits
<1>7. ParentOf[b] \in own => rows[ParentOf[b]] = 0 \/ ParentOf[b] \in Wholes
  BY <1>4, ZonedUnits
<1>8. ~(b \in Units /\ ParentOf[b] \in Wholes)
  BY ZonedUnits
<1>9. (b \in Units => b \in own) /\ (ParentOf[b] \in Wholes => ParentOf[b] \in own)
  BY ZonedUnits
<1>10. n \in shown
  BY <1>9
<1>11. \A g \in own : rows[g] <= n
  <2> TAKE g \in own
  <2>1. rows[g] \in Nat /\ n \in Nat
    BY <1>2, <1>9
  <2>2. rows[g] = 0 \/ rows[g] = n
    BY <1>5, <1>6, <1>7, <1>8
  <2> QED BY <2>1, <2>2
<1>12. \A x \in shown : x <= n
  <2>1. n \in Nat
    BY <1>2, <1>9
  <2> QED BY <1>11, <2>1
<1> HIDE DEF shown, n
<1>13. Max(shown) = n
  BY <1>3, <1>10, <1>12, MaxIs
<1> QED BY <1>1, <1>13 DEF n

(* What an import leaves: no parent is listed beside blocks of it.         *)
OneLevel == \A b \in Blocks \cap DOMAIN rows : ParentOf[b] \notin DOMAIN rows

RowShown ==
    \A b \in Blocks :
        ZoneOf(b) = IF b \in DOMAIN rows THEN rows[b]
                    ELSE IF ParentOf[b] \in DOMAIN rows THEN rows[ParentOf[b]] ELSE 0

LEMMA RowsRead == Laid /\ OneLevel => RowShown
<1> SUFFICES ASSUME Laid, OneLevel PROVE RowShown
  OBVIOUS
<1>1. Conflicting = {}
  BY ZonedUnits DEF OneLevel
<1>2. ReadOff
  BY <1>1, ZoneRead
<1> SUFFICES ASSUME NEW b \in Blocks
             PROVE  ZoneOf(b) = IF b \in DOMAIN rows THEN rows[b]
                                ELSE IF ParentOf[b] \in DOMAIN rows THEN rows[ParentOf[b]] ELSE 0
  BY DEF RowShown
<1>3. ParentOf[b] \in Parents
  BY Geography
<1>4. b \in DOMAIN rows => ParentOf[b] \notin DOMAIN rows
  BY DEF OneLevel
<1>5. ZoneOf(b) = IF b \in Units THEN rows[b]
                  ELSE IF ParentOf[b] \in Wholes THEN rows[ParentOf[b]] ELSE 0
  BY <1>2 DEF ReadOff
<1> QED BY <1>3, <1>4, <1>5, ZonedUnits

(* What the action leaves, in terms of the zones of the file.              *)
Imported(f, zone, zones) ==
    /\ zone \in Mappings(LabelsOf(f)) /\ zones = ZonesOf(f, zone)
    /\ zoneOf' = zone
    /\ rows' = IF map.shatterable THEN HealedOrFilled(zones) ELSE zones
    /\ remapped' = {l \in Renumbered(LabelsOf(f)) : zone[l] \in Range(zones)}
    /\ count' = IF map.modifiable THEN Max(Range(zones) \cup {Default}) ELSE Default
    /\ file' = f /\ map' = map
    /\ ~Duplicates(f)

LEMMA ImportIs ==
    ASSUME NEW f \in Files, Import(f) PROVE \E zone, zones : Imported(f, zone, zones)
BY DEF Import, Imported, ZonesOf

LEMMA ImportZones ==
    ASSUME map \in Maps, NEW f \in Files, NEW zone, NEW zones, Imported(f, zone, zones)
    PROVE  /\ DOMAIN zones \subseteq Nodes
           /\ ~Mixes(f) => Unmixed(zones)
           /\ \A g \in DOMAIN zones : zones[g] \in 1 .. ZoneCap /\ zones[g] \in Nat
           /\ zones = [g \in DOMAIN zones |-> zones[g]]
           /\ ZoneCap \in Nat
           /\ map' = map /\ Ends' = Ends /\ Nodes' = Nodes /\ Geos' = Geos
<1>1. ~Duplicates(f) /\ zone \in Mappings(LabelsOf(f)) /\ zones = ZonesOf(f, zone)
  BY DEF Imported
<1>2. LabelsOf(f) \in SUBSET Labels
  BY FileFacts
<1>3. /\ DOMAIN zones \subseteq Nodes
      /\ ~Mixes(f) => Unmixed(zones)
      /\ \A g \in DOMAIN zones : zones[g] \in 1 .. ZoneCap
  BY <1>1, ZonesFacts
<1>4. ZoneCap \in Nat
  BY <1>1, <1>2, MappingFacts
<1>5. \A n \in 1 .. ZoneCap : n \in Nat
  BY <1>4
<1>6. zones = [g \in DOMAIN zones |-> zones[g]]
  BY <1>1 DEF ZonesOf
<1>7. map' = map /\ Ends' = Ends /\ Nodes' = Nodes /\ Geos' = Geos
  BY DEF Imported, Nodes, Ends, Geos
<1> QED BY <1>3, <1>4, <1>5, <1>6, <1>7

LEMMA ImportLaid ==
    ASSUME map \in Maps, NEW f \in Files, NEW zone, NEW zones, Imported(f, zone, zones)
    PROVE  Laid'
<1>1. /\ DOMAIN zones \subseteq Nodes
      /\ \A g \in DOMAIN zones : zones[g] \in Nat
      /\ zones = [g \in DOMAIN zones |-> zones[g]]
      /\ map' = map /\ Geos' = Geos
  BY ImportZones
<1>2. Nodes \subseteq Geos
  BY NodeFacts, Geography DEF Geos
<1>3. CASE map.shatterable
  <2> DEFINE new == HealedOrFilled(zones)
  <2>1. rows' = new /\ Geos = Parents \cup Blocks
    BY <1>3 DEF Imported, Geos
  <2>2. /\ DOMAIN new \subseteq Parents \cup Blocks
        /\ \A p \in Parents : Heals(zones, p) => \A b \in Linked(p) : new[p] = zones[b]
        /\ \A g \in DOMAIN new : (g \in Parents /\ Heals(zones, g)) \/
              new[g] = IF g \in DOMAIN zones THEN zones[g] ELSE 0
    BY <1>1, HealedRows
  <2>3. \A g \in DOMAIN new : new[g] \in Nat
    <3> SUFFICES ASSUME NEW g \in DOMAIN new, g \in Parents, Heals(zones, g) PROVE new[g] \in Nat
      BY <1>1, <2>2
    <3>1. PICK b \in Linked(g) : b \in DOMAIN zones
      BY HealsFacts
    <3>2. new[g] = zones[b]
      BY <2>2, <3>1
    <3> QED BY <1>1, <3>1, <3>2
  <2>4. new = [g \in DOMAIN new |-> new[g]]
    BY DEF HealedOrFilled
  <2> HIDE DEF new
  <2>5. new \in [DOMAIN new -> Nat]
    BY <2>3, <2>4
  <2> QED BY <1>1, <2>1, <2>2, <2>5 DEF Laid
<1>4. CASE ~map.shatterable
  <2>1. rows' = zones
    BY <1>4 DEF Imported
  <2>2. zones \in [DOMAIN zones -> Nat]
    BY <1>1
  <2> QED BY <1>1, <1>2, <2>1, <2>2 DEF Laid
<1> QED BY <1>3, <1>4

LEMMA ImportOneLevel ==
    ASSUME map \in Maps, NEW f \in Files, ~Mixes(f), NEW zone, NEW zones, Imported(f, zone, zones)
    PROVE  OneLevel'
<1>1. DOMAIN zones \subseteq Nodes /\ Unmixed(zones)
  BY ImportZones
<1>2. CASE map.shatterable
  <2> DEFINE new == HealedOrFilled(zones)
  <2>1. rows' = new
    BY <1>2 DEF Imported
  <2>2. /\ \A p \in Parents : p \in DOMAIN new <=> p \in DOMAIN zones \/ Heals(zones, p)
        /\ \A b \in Ends : b \in DOMAIN new <=>
              Listed(zones, ParentOf[b]) # {} /\ ~Heals(zones, ParentOf[b])
        /\ DOMAIN new \cap Blocks \subseteq Ends
    BY <1>1, HealedRows
  <2>3. ASSUME NEW b \in Blocks, b \in DOMAIN new, ParentOf[b] \in DOMAIN new PROVE FALSE
    <3>1. b \in Ends /\ ParentOf[b] \in Parents
      BY <2>2, <2>3, Geography
    <3>2. ParentOf[b] \in DOMAIN zones
      BY <2>2, <2>3, <3>1
    <3>3. PICK c \in Listed(zones, ParentOf[b]) : TRUE
      BY <2>2, <2>3, <3>1
    <3>4. c \in Blocks \cap DOMAIN zones /\ ParentOf[c] = ParentOf[b]
      BY <3>3 DEF Listed, Children
    <3> QED BY <1>1, <3>2, <3>4 DEF Unmixed
  <2> HIDE DEF new
  <2> QED BY <2>1, <2>3 DEF OneLevel
<1>3. CASE ~map.shatterable
  <2>1. rows' = zones
    BY <1>3 DEF Imported
  <2> QED BY <1>1, <2>1 DEF OneLevel, Unmixed
<1> QED BY <1>2, <1>3

(* Every block the graph has is in the zone that the file gives it or its  *)
(* parent.                                                                 *)
LEMMA ImportShows ==
    ASSUME map \in Maps, NEW f \in Files, ~Mixes(f), NEW zone, NEW zones, Imported(f, zone, zones),
           NEW b \in Ends
    PROVE  ZoneOf(b)' = IF b \in DOMAIN zones THEN zones[b]
                        ELSE IF ParentOf[b] \in DOMAIN zones THEN zones[ParentOf[b]] ELSE 0
<1> DEFINE p == ParentOf[b]
<1>1. DOMAIN zones \subseteq Nodes /\ Unmixed(zones)
  BY ImportZones
<1>2. b \in Blocks /\ p \in Parents /\ b \notin Parents /\ b \in Linked(p) /\ b \in Children(p)
  BY NodeFacts, Geography DEF Children
<1>3. ZoneOf(b)' = IF b \in DOMAIN rows' THEN rows'[b]
                   ELSE IF p \in DOMAIN rows' THEN rows'[p] ELSE 0
  <2>1. Laid' /\ OneLevel'
    BY ImportLaid, ImportOneLevel
  <2>2. (Laid /\ OneLevel => RowShown)'
    BY RowsRead, PTL
  <2>3. RowShown'
    BY <2>1, <2>2
  <2> QED BY <1>2, <2>3 DEF RowShown
<1>4. CASE map.shatterable
  <2> DEFINE new == HealedOrFilled(zones)
  <2>1. rows' = new
    BY <1>4 DEF Imported
  <2>2. /\ p \in DOMAIN new <=> p \in DOMAIN zones \/ Heals(zones, p)
        /\ b \in DOMAIN new <=> Listed(zones, p) # {} /\ ~Heals(zones, p)
        /\ Heals(zones, p) => new[p] = zones[b]
        /\ b \in DOMAIN new => new[b] = IF b \in DOMAIN zones THEN zones[b] ELSE 0
        /\ p \in DOMAIN new /\ ~Heals(zones, p) =>
              new[p] = IF p \in DOMAIN zones THEN zones[p] ELSE 0
    BY <1>1, <1>2, HealedRows
  <2>3. b \in DOMAIN zones => Listed(zones, p) # {}
    BY <1>2 DEF Listed
  <2>4. Listed(zones, p) # {} => p \notin DOMAIN zones
    BY <1>1 DEF Listed, Children, Unmixed
  <2>5. Heals(zones, p) => b \in DOMAIN zones
    BY <1>2, HealsFacts
  <2> HIDE DEF new, p
  <2> QED BY <1>3, <2>1, <2>2, <2>3, <2>4, <2>5 DEF p
<1>5. CASE ~map.shatterable
  <2>1. rows' = zones
    BY <1>5 DEF Imported
  <2> QED BY <1>3, <2>1
<1> QED BY <1>4, <1>5

(* Every zone of a row is one of the file, and the map admits it.          *)
LEMMA ImportCounts ==
    ASSUME map \in Maps, NEW f \in Files, NEW zone, NEW zones, Imported(f, zone, zones)
    PROVE  \A g \in DOMAIN rows' : rows'[g] \in 0 .. count'
<1>1. /\ DOMAIN zones \subseteq Nodes
      /\ \A g \in DOMAIN zones : zones[g] \in 1 .. ZoneCap /\ zones[g] \in Nat
      /\ ZoneCap \in Nat /\ Default \in Nat
  BY ImportZones, PlanImportOK
<1>2. count' \in Nat /\ \A g \in DOMAIN zones : zones[g] <= count'
  <2>1. CASE map.modifiable
    <3> DEFINE all == Range(zones) \cup {Default}
    <3>1. count' = Max(all)
      BY <2>1 DEF Imported
    <3>2. /\ all \in SUBSET Nat /\ all # {} /\ Default + ZoneCap \in Nat
          /\ \A n \in all : n <= Default + ZoneCap
      BY <1>1 DEF Range
    <3>3. \A g \in DOMAIN zones : zones[g] \in all
      BY DEF Range
    <3> HIDE DEF all
    <3>4. Max(all) \in all /\ \A n \in all : n <= Max(all)
      BY <3>2, BoundedMax
    <3> QED BY <3>1, <3>2, <3>3, <3>4
  <2>2. CASE ~map.modifiable
    <3>1. count' = Default /\ ZoneCap = Default
      BY <2>2 DEF Imported, ZoneCap
    <3> QED BY <1>1, <3>1
  <2> QED BY <2>1, <2>2
<1>3. \A g \in DOMAIN rows' : rows'[g] = 0 \/ \E h \in DOMAIN zones : rows'[g] = zones[h]
  <2>1. CASE map.shatterable
    <3> DEFINE new == HealedOrFilled(zones)
    <3>1. rows' = new
      BY <2>1 DEF Imported
    <3>2. /\ \A p \in Parents : Heals(zones, p) => \A b \in Linked(p) : new[p] = zones[b]
          /\ \A g \in DOMAIN new : (g \in Parents /\ Heals(zones, g)) \/
                new[g] = IF g \in DOMAIN zones THEN zones[g] ELSE 0
      BY <1>1, HealedRows
    <3>3. \A p \in Parents : Heals(zones, p) => \E h \in DOMAIN zones : new[p] = zones[h]
      BY <3>2, HealsFacts
    <3> HIDE DEF new
    <3> QED BY <3>1, <3>2, <3>3
  <2>2. CASE ~map.shatterable
    BY <2>2 DEF Imported
  <2> QED BY <2>1, <2>2
<1> QED BY <1>1, <1>2, <1>3

LEMMA ImportWellFormed ==
    ASSUME map \in Maps, NEW f \in Files, ~Mixes(f), NEW zone, NEW zones, Imported(f, zone, zones)
    PROVE  WellFormed'
<1>1. DOMAIN zones \subseteq Nodes /\ map' = map /\ Ends' = Ends
  BY ImportZones
<1>2. OneLevel'
  BY ImportOneLevel
<1>3. \A p : Linked(p)' = Linked(p)
  BY <1>1 DEF Linked
<1> SUFFICES ASSUME NEW b \in Blocks, b \in DOMAIN rows', map.shatterable
             PROVE  /\ ParentOf[b] \notin DOMAIN rows'
                    /\ Linked(ParentOf[b]) \subseteq DOMAIN rows'
  BY <1>1, <1>3 DEF WellFormed
<1>4. rows' = HealedOrFilled(zones)
  BY DEF Imported
<1>5. /\ \A c \in Ends : c \in DOMAIN rows' <=>
            Listed(zones, ParentOf[c]) # {} /\ ~Heals(zones, ParentOf[c])
      /\ b \in Ends
  BY <1>1, <1>4, HealedRows
<1>6. \A c \in Linked(ParentOf[b]) : c \in Ends /\ ParentOf[c] = ParentOf[b]
  BY NodeFacts
<1> QED BY <1>2, <1>5, <1>6 DEF OneLevel

LEMMA ImportKeepsWord ==
    ASSUME map \in Maps, SpellingsKept, NEW f \in Files, Import(f)
    PROVE  ImportExact'
<1>1. PICK zone, zones : Imported(f, zone, zones)
  BY ImportIs
<1>2. /\ ~Duplicates(f) /\ zone \in Mappings(LabelsOf(f)) /\ zones = ZonesOf(f, zone)
      /\ map' = map /\ file' = f /\ zoneOf' = zone
  BY <1>1 DEF Imported
<1>3. LabelsOf(f) \in SUBSET Labels /\ IsFiniteSet(LabelsOf(f))
  BY FileFacts
<1>4. /\ DOMAIN zones = {r[1] : r \in Accepted(f)} /\ DOMAIN zones \subseteq Nodes
      /\ \A r \in Accepted(f) : zones[r[1]] = zone[r[2]]
      /\ ~Mixes(f) => Unmixed(zones)
  BY <1>2, ZonesFacts
<1>5. \A g \in DOMAIN zones : zones[g] \in Nat
  BY <1>1, ImportZones
<1>6. /\ Accepted(file)' = Accepted(f) /\ LabelsOf(file)' = LabelsOf(f) /\ Ends' = Ends
      /\ Mixes(file)' = Mixes(f)
  BY <1>2 DEF Accepted, LabelsOf, Nodes, Ends, Mixes
<1> SUFFICES ASSUME ~Mixes(f) PROVE ImportExact'
  BY <1>6 DEF ImportExact
<1>7. WellFormed'
  BY <1>1, ImportWellFormed
<1>8. ASSUME NEW b \in Ends
      PROVE  ZoneOf(b)' = Max({zone[r[2]] : r \in {s \in Accepted(f) : s[1] \in {b, ParentOf[b]}}}
                              \cup {0})
  <2> DEFINE p == ParentOf[b]
             given == {zone[r[2]] : r \in {s \in Accepted(f) : s[1] \in {b, p}}} \cup {0}
             shown == IF b \in DOMAIN zones THEN zones[b]
                      ELSE IF p \in DOMAIN zones THEN zones[p] ELSE 0
  <2>1. ZoneOf(b)' = shown
    BY <1>1, ImportShows
  <2>2. b \in DOMAIN zones => p \notin DOMAIN zones
    BY <1>4, NodeFacts DEF Unmixed
  <2>3. \A g \in DOMAIN zones : \E r \in Accepted(f) : r[1] = g /\ zone[r[2]] = zones[g]
    BY <1>4
  <2>4. \A r \in Accepted(f) : r[1] \in DOMAIN zones /\ zone[r[2]] = zones[r[1]]
    BY <1>4
  <2>5. given \subseteq Int /\ \A n \in given : n <= shown
    BY <1>5, <2>2, <2>4
  <2>6. shown \in given
    BY <2>3
  <2> HIDE DEF given, shown
  <2>7. Max(given) = shown
    BY <2>5, <2>6, MaxIs
  <2> QED BY <2>1, <2>7 DEF given
<1>9. \A k, l \in LabelsOf(f) : zone[k] = zone[l] <=> SameLabel(k, l)
  BY <1>2, <1>3, SameZones
<1>10. \A r \in Accepted(f) : zone[r[2]] # NumberOf[r[2]] => r[2] \in remapped'
  <2> SUFFICES ASSUME NEW r \in Accepted(f), zone[r[2]] # NumberOf[r[2]] PROVE r[2] \in remapped'
    OBVIOUS
  <2>1. r[2] \in LabelsOf(f)
    BY DEF Accepted, LabelsOf
  <2>2. r[2] \notin Kept(LabelsOf(f))
    BY <1>2, <1>3, MappingFacts
  <2>3. r[2] \in Renumbered(LabelsOf(f))
    BY <2>1, <2>2 DEF Renumbered
  <2>4. zone[r[2]] \in Range(zones)
    BY <1>4 DEF Range
  <2> QED BY <1>1, <2>3, <2>4 DEF Imported
<1>11. \A g \in DOMAIN rows' : rows'[g] \in 0 .. count'
  BY <1>1, ImportCounts
<1> QED BY <1>2, <1>6, <1>7, <1>8, <1>9, <1>10, <1>11 DEF ImportExact, SameLabel

-----------------------------------------------------------------------------
(* The plans of documents                                                  *)

LEMMA SaveLaid == ASSUME Laid, Save PROVE Laid'
<1>1. PICK listed \in Listings : rows' \in [listed -> Zones \cup {0}]
  BY DEF Save
<1>2. map' = map /\ Geos' = Geos
  BY DEF Save, Geos
<1>3. listed \subseteq Geos
  BY <1>1, Geography DEF Listings, Geos
<1>4. \A n \in Zones \cup {0} : n \in Nat
  BY PlanMetricsOK
<1>5. DOMAIN rows' = listed /\ rows' \in [listed -> Nat]
  BY <1>1, <1>4
<1> QED BY <1>2, <1>3, <1>5 DEF Laid

LEMMA LaidNext == ASSUME Laid, [Next]_vars PROVE Laid'
<1>1. ASSUME NEW f \in Files, Import(f) PROVE Laid'
  <2>1. map \in Maps
    BY DEF Laid
  <2> QED BY <1>1, <2>1, ImportIs, ImportLaid
<1>2. CASE Save
  BY <1>2, SaveLaid
<1>3. CASE UNCHANGED vars
  BY <1>3 DEF vars, Laid, Geos
<1> QED BY <1>1, <1>2, <1>3 DEF Next

LEMMA AlwaysLaid == Spec => []Laid
<1>1. Init => Laid
  BY DEF Init, Laid, Maps, Empty
<1>2. Laid /\ [Next]_vars => Laid'
  BY LaidNext
<1> QED BY <1>1, <1>2, PTL DEF Spec

(* The plan of a document that is made from a file says what the file      *)
(* says of the blocks the graph has, unless the file lists a parent beside *)
(* blocks of it, and the user is told of every label that lost its number  *)
(* (batch_insert_assignments): when a number that comes in two spellings   *)
(* is small enough to be kept.                                             *)
THEOREM ImportSaysTheFile ==
    ASSUME SpellingsKept PROVE Spec => []ImportExact
<1>1. Init => ImportExact
  BY DEF Init, ImportExact
<1>2. Laid /\ ImportExact /\ [Next]_vars => ImportExact'
  <2> SUFFICES ASSUME Laid, ImportExact, [Next]_vars PROVE ImportExact'
    OBVIOUS
  <2>1. ASSUME NEW f \in Files, Import(f) PROVE ImportExact'
    BY <2>1, ImportKeepsWord DEF Laid
  <2>2. CASE New /\ Save
    BY <2>2 DEF New, Save, ImportExact
  <2>3. CASE UNCHANGED vars
    BY <2>3 DEF vars, ImportExact, WellFormed, Accepted, Nodes, Ends, Linked, Mixes, ZoneOf, LabelsOf
  <2> QED BY <2>1, <2>2, <2>3 DEF Next
<1>3. Spec => []Laid
  BY AlwaysLaid
<1> QED BY <1>1, <1>2, <1>3, PTL DEF Spec

-----------------------------------------------------------------------------
(* Contiguity                                                              *)

(* The subgraph that some units induce.                                    *)
Subgraph(E, units) ==
    [node |-> units, edge |-> {e \in units \X units : Neighbours(E, e[1], e[2])}]

(* Connected is what is_connected computes: paths of the units' own edges  *)
(* lead from each of them to each other.                                   *)
THEOREM PathsConnect ==
    ASSUME NEW E, NEW units
    PROVE  Connected(E, units) <=> IsStronglyConnected(Subgraph(E, units))
<1> DEFINE G == Subgraph(E, units)
<1>1. G.node = units /\ \A g, h \in units : <<g, h>> \in G.edge <=> Neighbours(E, g, h)
  BY DEF Subgraph
<1> HIDE DEF G
<1>2. ASSUME Connected(E, units), NEW m \in units, NEW n \in units
      PROVE  AreConnectedIn(m, n, G)
  <2> DEFINE reached == {h \in units : AreConnectedIn(m, h, G)}
  <2>1. AreConnectedIn(m, m, G)
    <3>1. <<m>> \in Seq(G.node) /\ <<m>> # <<>> /\ Len(<<m>>) = 1 /\ <<m>>[1] = m
      BY <1>1
    <3>2. <<m>> \in Path(G)
      BY <3>1 DEF Path
    <3> QED BY <3>1, <3>2 DEF AreConnectedIn
  <2>2. ASSUME NEW g \in reached, NEW h \in units, Neighbours(E, g, h) PROVE h \in reached
    <3>1. PICK p \in Path(G) : p[1] = m /\ p[Len(p)] = g
      BY DEF AreConnectedIn
    <3>2. /\ p \in Seq(units) /\ p # <<>>
          /\ \A i \in 1 .. Len(p) - 1 : <<p[i], p[i + 1]>> \in G.edge
      BY <1>1, <3>1 DEF Path
    <3> DEFINE q == Append(p, h)
    <3>3. /\ q \in Seq(units) /\ q # <<>> /\ Len(q) = Len(p) + 1 /\ q[Len(p) + 1] = h
          /\ Len(p) \in Nat \ {0} /\ \A i \in 1 .. Len(p) : q[i] = p[i]
      BY <3>2
    <3>4. <<g, h>> \in G.edge
      BY <1>1, <2>2
    <3> HIDE DEF q
    <3>5. \A i \in 1 .. Len(q) - 1 : <<q[i], q[i + 1]>> \in G.edge
      <4> TAKE i \in 1 .. Len(q) - 1
      <4>1. i \in 1 .. Len(p) /\ i \in Nat
        BY <3>3
      <4>2. CASE i = Len(p)
        BY <3>1, <3>3, <3>4, <4>1, <4>2
      <4>3. CASE i # Len(p)
        <5>1. i \in 1 .. Len(p) - 1 /\ i + 1 \in 1 .. Len(p)
          BY <3>3, <4>1, <4>3
        <5> QED BY <3>2, <3>3, <4>1, <5>1
      <4> QED BY <4>2, <4>3
    <3>6. q \in Path(G) /\ q[1] = m /\ q[Len(q)] = h
      BY <1>1, <3>1, <3>3, <3>5 DEF Path
    <3> QED BY <3>6 DEF AreConnectedIn
  <2>3. reached \in SUBSET units /\ reached # {}
    BY <2>1
  <2>4. reached = units
    <3> HIDE DEF reached
    <3> QED BY <1>2, <2>2, <2>3 DEF Connected
  <2> QED BY <2>4
<1>3. ASSUME \A m, n \in units : AreConnectedIn(m, n, G) PROVE Connected(E, units)
  <2> SUFFICES ASSUME NEW T \in SUBSET units, T # {}, T # units
               PROVE  \E g \in T, h \in units \ T : Neighbours(E, g, h)
    BY DEF Connected
  <2>1. PICK m \in T, n \in units \ T : TRUE
    OBVIOUS
  <2>2. PICK p \in Path(G) : p[1] = m /\ p[Len(p)] = n
    BY <1>3 DEF AreConnectedIn
  <2>3. /\ p \in Seq(units) /\ Len(p) \in Nat \ {0}
        /\ \A i \in 1 .. Len(p) : p[i] \in units
        /\ \A i \in 1 .. Len(p) - 1 : <<p[i], p[i + 1]>> \in G.edge
    BY <1>1, <2>2 DEF Path
  <2> DEFINE out == {i \in 1 .. Len(p) : p[i] \notin T}
             R == OpToRel(<, Nat)
  <2>a. IsWellFoundedOn(R, Nat)
    BY NatLessThanWellFounded
  <2>4. \A a, b \in Nat : a < b => <<a, b>> \in R
    BY DEF OpToRel
  <2>5. out # {} /\ out \subseteq Nat
    BY <2>1, <2>2, <2>3
  <2> HIDE DEF R
  <2>6. PICK k \in out : \A i \in out : ~(<<i, k>> \in R)
    <3> HIDE DEF out
    <3> QED BY <2>a, <2>5, WFMin
  <2>7. k # 1 /\ k \in 1 .. Len(p) /\ k \in Nat
    BY <2>1, <2>2, <2>3, <2>6
  <2>8. k - 1 \in 1 .. Len(p) - 1 /\ k - 1 \in Nat /\ k - 1 < k /\ (k - 1) + 1 = k
        /\ k - 1 \in 1 .. Len(p)
    BY <2>3, <2>7
  <2>9. k - 1 \notin out
    BY <2>4, <2>6, <2>7, <2>8
  <2>10. p[k - 1] \in T /\ p[k] \in units \ T
    BY <2>3, <2>6, <2>7, <2>8, <2>9
  <2>11. Neighbours(E, p[k - 1], p[k])
    BY <1>1, <2>3, <2>8, <2>10
  <2> QED BY <2>10, <2>11
<1> QED BY <1>1, <1>2, <1>3 DEF IsStronglyConnected, G

(* When units stand for disjoint sets of smaller ones, each connected, and *)
(* are neighbours when some of those are, they are connected if and only   *)
(* if the smaller ones are.                                                *)
LEMMA Quotient ==
    ASSUME NEW E, NEW X, NEW B, NEW Fib,
           \A g \in X : Fib[g] \subseteq B /\ Fib[g] # {} /\ Connected(E, Fib[g]),
           \A b \in B : \E g \in X : b \in Fib[g],
           \A g, h \in X : g # h =>
              /\ Fib[g] \cap Fib[h] = {}
              /\ Neighbours(E, g, h) <=> \E b \in Fib[g], c \in Fib[h] : Neighbours(E, b, c)
    PROVE  Connected(E, X) <=> Connected(E, B)
<1>1. ASSUME Connected(E, B) PROVE Connected(E, X)
  <2> SUFFICES ASSUME NEW S \in SUBSET X, S # {}, S # X
               PROVE  \E g \in S, h \in X \ S : Neighbours(E, g, h)
    BY DEF Connected
  <2> DEFINE part == {b \in B : \E g \in S : b \in Fib[g]}
  <2>1. part \in SUBSET B /\ part # {}
    OBVIOUS
  <2>2. part # B
    <3>1. PICK h \in X \ S : TRUE
      OBVIOUS
    <3>2. PICK c \in Fib[h] : c \in B
      OBVIOUS
    <3>3. c \notin part
      BY <3>1, <3>2
    <3> QED BY <3>2, <3>3
  <2>3. PICK b \in part, c \in B \ part : Neighbours(E, b, c)
    <3> HIDE DEF part
    <3> QED BY <1>1, <2>1, <2>2 DEF Connected
  <2>4. PICK g \in S : b \in Fib[g]
    OBVIOUS
  <2>5. PICK h \in X : c \in Fib[h]
    OBVIOUS
  <2>6. h \notin S
    BY <2>5
  <2>7. Neighbours(E, g, h)
    BY <2>3, <2>4, <2>5, <2>6
  <2> QED BY <2>4, <2>5, <2>6, <2>7
<1>2. ASSUME Connected(E, X) PROVE Connected(E, B)
  <2> SUFFICES ASSUME NEW T \in SUBSET B, T # {}, T # B
               PROVE  \E b \in T, c \in B \ T : Neighbours(E, b, c)
    BY DEF Connected
  <2>1. CASE \E g \in X : Fib[g] \cap T # {} /\ ~(Fib[g] \subseteq T)
    <3>1. PICK g \in X : Fib[g] \cap T # {} /\ ~(Fib[g] \subseteq T)
      BY <2>1
    <3>2. Fib[g] \cap T \in SUBSET Fib[g] /\ Fib[g] \cap T # Fib[g] /\ Connected(E, Fib[g])
      BY <3>1
    <3>3. PICK b \in Fib[g] \cap T, c \in Fib[g] \ (Fib[g] \cap T) : Neighbours(E, b, c)
      BY <3>1, <3>2 DEF Connected
    <3> QED BY <3>3
  <2>2. CASE \A g \in X : Fib[g] \cap T # {} => Fib[g] \subseteq T
    <3> DEFINE S == {g \in X : Fib[g] \subseteq T}
    <3>1. S \in SUBSET X /\ S # {}
      <4>1. PICK b \in T : TRUE
        OBVIOUS
      <4>2. PICK g \in X : b \in Fib[g]
        OBVIOUS
      <4> QED BY <2>2, <4>1, <4>2
    <3>2. S # X
      <4>1. PICK c \in B : c \notin T
        OBVIOUS
      <4>2. PICK h \in X : c \in Fib[h]
        OBVIOUS
      <4> QED BY <4>1, <4>2
    <3>3. PICK g \in S, h \in X \ S : Neighbours(E, g, h)
      <4> HIDE DEF S
      <4> QED BY <1>2, <3>1, <3>2 DEF Connected
    <3>4. PICK b \in Fib[g], c \in Fib[h] : Neighbours(E, b, c)
      BY <3>3
    <3>5. b \in T /\ c \in B /\ c \notin T
      BY <2>2, <3>3, <3>4
    <3> QED BY <3>4, <3>5
  <2> QED BY <2>1, <2>2
<1> QED BY <1>1, <1>2

(* The graph says of two nodes whether blocks of them are adjacent.        *)
Fibre(g) == IF g \in Blocks THEN {g} ELSE Linked(g)

LEMMA NeighboursAre ==
    ASSUME map \in Maps, NEW g \in Nodes, NEW h \in Nodes, g # h,
           g \in Blocks => ParentOf[g] # h, h \in Blocks => ParentOf[h] # g
    PROVE  Neighbours(map.edges, g, h) <=> \E b \in Fibre(g), c \in Fibre(h) : {b, c} \in map.edges
<1> DEFINE E == map.edges
<1>1. g \in Parents \cup Blocks /\ h \in Parents \cup Blocks
      /\ (g \in Parents \/ h \in Parents => map.shatterable)
  BY NodeFacts
<1>2. \A x : x \in Parents => x \notin Blocks
  BY Geography
<1>3. \A b, c : {b, c} \in E => b \in Blocks /\ c \in Blocks
  BY EdgeFacts, NodeFacts
<1>4. \A b, c : {b, c} = {c, b}
  OBVIOUS
<1>5. \A b, c : {b, c} \in E => b \in Ends /\ c \in Ends
  BY DEF Ends
<1>6. \A p : \A b \in Ends : b \in Linked(p) <=> b \in Children(p)
  BY DEF Linked
<1>7. \A p : Linked(p) \subseteq Children(p)
  BY DEF Linked
<1> SUFFICES Neighbours(E, g, h) <=> \E b \in Fibre(g), c \in Fibre(h) : {b, c} \in E
  OBVIOUS
<1> HIDE DEF E
<1>8. CASE g \in Blocks /\ h \in Blocks
  BY <1>2, <1>8 DEF Neighbours, Fibre
<1>9. CASE g \in Blocks /\ h \in Parents
  BY <1>1, <1>2, <1>3, <1>5, <1>6, <1>7, <1>9 DEF Neighbours, Fibre
<1>10. CASE g \in Parents /\ h \in Blocks
  BY <1>1, <1>2, <1>3, <1>4, <1>5, <1>6, <1>7, <1>10 DEF Neighbours, Fibre
<1>11. CASE g \in Parents /\ h \in Parents
  <2>1. Neighbours(E, g, h) <=> Between(E, g, h) # {}
    BY <1>1, <1>2, <1>3, <1>11 DEF Neighbours
  <2>2. Fibre(g) = Linked(g) /\ Fibre(h) = Linked(h)
    BY <1>2, <1>11 DEF Fibre
  <2>3. ASSUME NEW e \in Between(E, g, h)
        PROVE  \E b \in Linked(g), c \in Linked(h) : {b, c} \in E
    <3>1. PICK b \in e, c \in e : ParentOf[b] = g /\ ParentOf[c] = h
      BY DEF Between
    <3>2. e \in E /\ e \subseteq Blocks /\ b # c
      BY <3>1, EdgeFacts, NodeFacts DEF Between, E
    <3>3. e = {b, c}
      BY <3>1, <3>2, EdgeFacts, NodeFacts DEF E
    <3>4. b \in Linked(g) /\ c \in Linked(h)
      BY <1>5, <3>1, <3>2, <3>3, NodeFacts
    <3> QED BY <3>2, <3>3, <3>4
  <2>4. ASSUME NEW b \in Linked(g), NEW c \in Linked(h), {b, c} \in E
        PROVE  Between(E, g, h) # {}
    <3>1. ParentOf[b] = g /\ ParentOf[c] = h
      BY NodeFacts
    <3>2. {b, c} \in Between(E, g, h)
      BY <2>4, <3>1 DEF Between
    <3> QED BY <3>2
  <2> QED BY <2>1, <2>2, <2>3, <2>4
<1> QED BY <1>1, <1>8, <1>9, <1>10, <1>11

LEMMA SingleConnected ==
    ASSUME NEW E, NEW g PROVE Connected(E, {g})
<1>1. \A part \in SUBSET {g} : part = {} \/ part = {g}
  OBVIOUS
<1> QED BY <1>1 DEF Connected

(* The nodes of a zone, and what they stand for.                           *)
LEMMA ExpandedFacts ==
    ASSUME Laid, Conflicting = {}, NEW zone \in Nat \ {0}
    PROVE  LET X == Expanded(zone) \cap Nodes
               B == BlocksIn(zone)
           IN  /\ B \subseteq Blocks
               /\ \A g \in X : Fibre(g) \subseteq B /\ Fibre(g) # {} /\ Connected(map.edges, Fibre(g))
               /\ \A b \in B : \E g \in X : b \in Fibre(g)
               /\ \A b \in X \cap Blocks : ParentOf[b] \notin X
<1> DEFINE units == {g \in Assigned : rows[g] = zone}
           NC == NonContiguous
           X == Expanded(zone) \cap Nodes
           B == BlocksIn(zone)
<1>1. \A g : g \in X <=> /\ g \in Nodes
                         /\ (g \in units /\ g \notin NC) \/ \E p \in units \cap NC : g \in Linked(p)
  BY DEF Expanded
<1>2. ReadOff
  BY ZoneRead
<1>3. \A g : g \in units <=> g \in Assigned /\ rows[g] = zone
  OBVIOUS
<1>4. \A p \in NC : p \in Parents /\ p \notin Blocks
  BY Geography DEF NonContiguous
<1>5. map \in Maps
  BY DEF Laid
<1>6. \A b \in Blocks : b \in units \/ ParentOf[b] \in units <=> ZoneOf(b) = zone
  <2> TAKE b \in Blocks
  <2>1. ParentOf[b] \in Parents /\ zone # 0
    BY Geography
  <2>2. ZoneOf(b) = IF b \in Units THEN rows[b]
                    ELSE IF ParentOf[b] \in Wholes THEN rows[ParentOf[b]] ELSE 0
    BY <1>2 DEF ReadOff
  <2>3. b \in Assigned <=> b \in Units
    BY ZonedUnits
  <2>4. ParentOf[b] \in Assigned <=> ParentOf[b] \in Wholes
    BY <2>1, ZonedUnits
  <2>5. ~(b \in Units /\ ParentOf[b] \in Wholes)
    BY ZonedUnits
  <2> HIDE DEF units
  <2> QED BY <1>3, <2>1, <2>2, <2>3, <2>4, <2>5
<1>7. \A b : b \in B <=> b \in Ends /\ (b \in units \/ ParentOf[b] \in units)
  <2>1. Ends \subseteq Blocks
    BY <1>5, NodeFacts
  <2> HIDE DEF units
  <2> QED BY <1>6, <2>1 DEF BlocksIn
<1>8. \A b \in Units : ParentOf[b] \notin Wholes
  BY ZonedUnits
<1>9. \A g \in units : g \in Parents => g \in Wholes /\ map.shatterable
  BY ZonedUnits
<1>10. \A b \in units \cap Blocks : b \in Units
  BY ZonedUnits
<1>11. \A p \in Parents : p \in units /\ p \notin NC => Connected(map.edges, Linked(p))
  BY <1>9 DEF NonContiguous
<1>12. \A b \in Blocks \cap units : ParentOf[b] \notin units
  BY <1>8, <1>9, <1>10, Geography
<1> HIDE DEF units, NC, X, B
<1>13. \A g \in X : \/ g \in Blocks /\ g \in B
                    \/ g \in Parents /\ g \notin Blocks /\ g \in units /\ g \notin NC
  <2> SUFFICES ASSUME NEW g \in X, g \in Blocks PROVE g \in B
    BY <1>1, <1>4, <1>5, NodeFacts, Geography
  <2>1. g \in Ends
    BY <1>1, <1>5, NodeFacts
  <2>2. g \in units \/ \E p \in units : g \in Linked(p)
    BY <1>1
  <2>3. \A p \in units : g \in Linked(p) => ParentOf[g] \in units
    BY <1>5, NodeFacts
  <2> QED BY <1>7, <2>1, <2>2, <2>3
<1>14. \A g \in X : Fibre(g) \subseteq B /\ Fibre(g) # {} /\ Connected(map.edges, Fibre(g))
  <2> TAKE g \in X
  <2>1. CASE g \in Blocks /\ g \in B
    BY <2>1, SingleConnected DEF Fibre
  <2>2. CASE g \in Parents /\ g \notin Blocks /\ g \in units /\ g \notin NC
    <3>1. Fibre(g) = Linked(g)
      BY <2>2 DEF Fibre
    <3>2. Linked(g) # {}
      BY <1>1, <1>5, <2>2, NodeFacts
    <3>3. Linked(g) \subseteq B
      BY <1>5, <1>7, <2>2, NodeFacts
    <3> QED BY <1>11, <2>2, <3>1, <3>2, <3>3
  <2> QED BY <1>13, <2>1, <2>2
<1>15. \A b \in B : \E g \in X : b \in Fibre(g)
  <2> TAKE b \in B
  <2>1. b \in Ends /\ b \in Blocks /\ b \in Nodes /\ ParentOf[b] \in Parents
        /\ b \in Linked(ParentOf[b]) /\ (b \in units \/ ParentOf[b] \in units)
    BY <1>5, <1>7, NodeFacts
  <2>2. CASE b \in units
    <3>1. b \in X /\ b \in Fibre(b)
      BY <1>1, <1>4, <2>1, <2>2 DEF Fibre
    <3> QED BY <3>1
  <2>3. CASE ParentOf[b] \in units /\ ParentOf[b] \in NC
    <3>1. b \in X /\ b \in Fibre(b)
      BY <1>1, <2>1, <2>3 DEF Fibre
    <3> QED BY <3>1
  <2>4. CASE ParentOf[b] \in units /\ ParentOf[b] \notin NC
    <3>1. ParentOf[b] \in Nodes
      BY <1>5, <1>9, <2>1, <2>4, NodeFacts
    <3>2. ParentOf[b] \in X /\ b \in Fibre(ParentOf[b])
      BY <1>1, <2>1, <2>4, <3>1, Geography DEF Fibre
    <3> QED BY <3>2
  <2> QED BY <2>1, <2>2, <2>3, <2>4
<1>16. \A b \in X \cap Blocks : ParentOf[b] \notin X
  <2> SUFFICES ASSUME NEW b \in X, b \in Blocks, ParentOf[b] \in X PROVE FALSE
    OBVIOUS
  <2>1. ParentOf[b] \in units /\ ParentOf[b] \notin NC
    BY <1>13, Geography
  <2>2. b \in units \/ ParentOf[b] \in NC
    BY <1>1, <1>5, NodeFacts
  <2> QED BY <1>12, <2>1, <2>2
<1>17. B \subseteq Blocks
  BY <1>5, <1>7, NodeFacts
<1> QED BY <1>14, <1>15, <1>16, <1>17 DEF X, B

LEMMA LevelsAgree ==
    ASSUME Laid, Conflicting = {}, NEW zone \in Nat \ {0}
    PROVE  LET X == Expanded(zone) \cap Nodes
           IN  /\ Connected(map.edges, X) = Connected(map.edges, BlocksIn(zone))
               /\ X = {} <=> BlocksIn(zone) = {}
<1> DEFINE E == map.edges
           X == Expanded(zone) \cap Nodes
           B == BlocksIn(zone)
           Fib == [g \in X |-> Fibre(g)]
<1>1. /\ B \subseteq Blocks
      /\ \A g \in X : Fibre(g) \subseteq B /\ Fibre(g) # {} /\ Connected(E, Fibre(g))
      /\ \A b \in B : \E g \in X : b \in Fibre(g)
      /\ \A b \in X \cap Blocks : ParentOf[b] \notin X
  BY ExpandedFacts
<1>2. map \in Maps /\ X \subseteq Nodes
  BY DEF Laid
<1>3. \A g \in X : Fib[g] = Fibre(g)
  OBVIOUS
<1> HIDE DEF X, B, Fib, E
<1>4. \A b, c \in Blocks : Neighbours(E, b, c) <=> {b, c} \in E
  <2> TAKE b \in Blocks, c \in Blocks
  <2>1. b \notin Parents /\ c \notin Parents
    BY Geography
  <2> QED BY <2>1 DEF Neighbours
<1>5. ASSUME NEW g \in X, NEW h \in X, g # h
      PROVE  Fibre(g) \cap Fibre(h) = {}
  <2>1. \A k \in X : \A b \in Fibre(k) : (k \in Blocks /\ b = k) \/ (k \notin Blocks /\ ParentOf[b] = k)
    BY <1>2, NodeFacts DEF Fibre
  <2>2. SUFFICES ASSUME NEW b \in Fibre(g), b \in Fibre(h) PROVE FALSE
    OBVIOUS
  <2> QED BY <1>1, <1>5, <2>1, <2>2
<1>6. ASSUME NEW g \in X, NEW h \in X, g # h
      PROVE  Neighbours(E, g, h) <=> \E b \in Fibre(g), c \in Fibre(h) : Neighbours(E, b, c)
  <2>1. g \in Nodes /\ h \in Nodes
    BY <1>2
  <2>2. (g \in Blocks => ParentOf[g] # h) /\ (h \in Blocks => ParentOf[h] # g)
    BY <1>1
  <2>3. Neighbours(E, g, h) <=> \E b \in Fibre(g), c \in Fibre(h) : {b, c} \in E
    BY <1>2, <1>6, <2>1, <2>2, NeighboursAre DEF E
  <2>4. Fibre(g) \subseteq Blocks /\ Fibre(h) \subseteq Blocks
    BY <1>1
  <2> QED BY <1>4, <2>3, <2>4
<1>7. \A g \in X : Fib[g] \subseteq B /\ Fib[g] # {} /\ Connected(E, Fib[g])
  BY <1>1, <1>3
<1>8. \A b \in B : \E g \in X : b \in Fib[g]
  BY <1>1, <1>3
<1>9. \A g, h \in X : g # h =>
          /\ Fib[g] \cap Fib[h] = {}
          /\ Neighbours(E, g, h) <=> \E b \in Fib[g], c \in Fib[h] : Neighbours(E, b, c)
  BY <1>3, <1>5, <1>6
<1>10. Connected(E, X) <=> Connected(E, B)
  BY <1>7, <1>8, <1>9, Quotient
<1>11. Connected(E, X) \in BOOLEAN /\ Connected(E, B) \in BOOLEAN
  BY DEF Connected
<1>12. X = {} <=> B = {}
  BY <1>7, <1>8
<1>13. Connected(E, X) = Connected(E, B)
  BY <1>10, <1>11
<1> QED BY <1>12, <1>13 DEF B, X, E

LEMMA PaintedAre ==
    ASSUME Laid, Conflicting = {}
    PROVE  Painted = ZonesAmong(Blocks) /\ Painted \subseteq Nat \ {0}
<1>1. ReadOff
  BY ZoneRead
<1>2. \A g \in Assigned : rows[g] \in Nat \ {0}
  BY ZonedUnits DEF Laid
<1>3. ASSUME NEW z \in Painted PROVE z \in ZonesAmong(Blocks)
  <2>1. PICK g \in Assigned : rows[g] = z
    BY DEF Painted
  <2>2. z # 0
    BY <1>2, <2>1
  <2>3. CASE g \in Units
    <3>1. g \in Blocks /\ ZoneOf(g) = z
      BY <1>1, <2>1, <2>3, ZonedUnits DEF ReadOff
    <3> QED BY <2>2, <3>1 DEF ZonesAmong
  <2>4. CASE g \in Wholes
    <3>1. PICK b \in Children(g) : TRUE
      BY <2>4, ZonedUnits, Geography
    <3>2. b \in Blocks /\ ParentOf[b] = g
      BY <3>1 DEF Children
    <3>3. b \notin Units
      BY <2>4, <3>2, ZonedUnits
    <3>4. ZoneOf(b) = z
      BY <1>1, <2>1, <2>4, <3>2, <3>3 DEF ReadOff
    <3> QED BY <2>2, <3>2, <3>4 DEF ZonesAmong
  <2> QED BY <2>3, <2>4, ZonedUnits
<1>4. ASSUME NEW z \in ZonesAmong(Blocks) PROVE z \in Painted
  <2>1. PICK b \in Blocks : ZoneOf(b) = z /\ z # 0
    BY DEF ZonesAmong
  <2>2. \/ b \in Units /\ rows[b] = z
        \/ ParentOf[b] \in Wholes /\ rows[ParentOf[b]] = z
    BY <1>1, <2>1 DEF ReadOff
  <2> QED BY <2>2, ZonedUnits DEF Painted
<1> QED BY <1>2, <1>3, <1>4 DEF Painted

(* A district is contiguous when the blocks that its graph has of it are,  *)
(* for any adjacency of the blocks and any plan that assigns no parent     *)
(* beside its blocks, on whichever levels it is stored (the expansion of   *)
(* parents that are not contiguous, in contiguity/main.py), and nothing is *)
(* said just when a district has no such block.                            *)
THEOREM ContiguityIsOfBlocks == Spec => []ContiguityExact
<1>1. Laid => ContiguityExact
  <2> SUFFICES ASSUME Laid, Conflicting = {}
               PROVE  Contiguous =
                         IF \E zone \in ZonesAmong(Blocks) : BlocksIn(zone) = {} THEN {}
                         ELSE {[zone \in ZonesAmong(Blocks) |->
                                   Connected(map.edges, BlocksIn(zone))]}
    BY DEF ContiguityExact
  <2> DEFINE nodes(zone) == Expanded(zone) \cap Nodes
             Z == ZonesAmong(Blocks)
  <2>1. Painted = Z /\ \A zone \in Z : zone \in Nat \ {0}
    BY PaintedAre
  <2> HIDE DEF Z
  <2>2. \A zone \in Z : /\ Connected(map.edges, nodes(zone)) = Connected(map.edges, BlocksIn(zone))
                        /\ nodes(zone) = {} <=> BlocksIn(zone) = {}
    BY <2>1, LevelsAgree
  <2>3. Contiguous = IF \E zone \in Z : nodes(zone) = {} THEN {}
                     ELSE {[zone \in Z |-> Connected(map.edges, nodes(zone))]}
    BY <2>1 DEF Contiguous
  <2> HIDE DEF nodes
  <2>4. [zone \in Z |-> Connected(map.edges, nodes(zone))]
        = [zone \in Z |-> Connected(map.edges, BlocksIn(zone))]
    BY <2>2
  <2>5. (\E zone \in Z : nodes(zone) = {}) <=> \E zone \in Z : BlocksIn(zone) = {}
    BY <2>2
  <2> QED BY <2>3, <2>4, <2>5 DEF Z
<1>2. Spec => []Laid
  BY AlwaysLaid
<1> QED BY <1>1, <1>2, PTL

-----------------------------------------------------------------------------
(* Counts                                                                  *)

LEMMA SameSize ==
    ASSUME NEW S, IsFiniteSet(S), NEW T, NEW f \in [S -> T],
           \A x, y \in S : f[x] = f[y] => x = y, \A t \in T : \E x \in S : f[x] = t
    PROVE  IsFiniteSet(T) /\ Cardinality(T) = Cardinality(S)
<1>1. f \in Bijection(S, T)
  BY DEF Bijection, Injection, Surjection, IsInjective
<1>2. ExistsBijection(S, T)
  BY <1>1 DEF ExistsBijection
<1> QED BY <1>2, FS_Bijection

LEMMA DisjointSize ==
    ASSUME NEW S, IsFiniteSet(S), NEW T, IsFiniteSet(T), S \cap T = {}
    PROVE  IsFiniteSet(S \cup T) /\ Cardinality(S \cup T) = Cardinality(S) + Cardinality(T)
<1>1. Cardinality(S \cap T) = 0
  BY FS_EmptySet
<1>2. Cardinality(S) \in Nat /\ Cardinality(T) \in Nat
  BY FS_CardinalityType
<1>3. IsFiniteSet(S \cup T)
      /\ Cardinality(S \cup T) = Cardinality(S) + Cardinality(T) - Cardinality(S \cap T)
  BY FS_Union
<1> QED BY <1>1, <1>2, <1>3

LEMMA PairSize ==
    ASSUME NEW x, NEW y
    PROVE  IsFiniteSet({x, y}) /\ (Cardinality({x, y}) = 2 <=> x # y)
<1> DEFINE S == {x}
<1>1. IsFiniteSet(S) /\ Cardinality(S) = 1 /\ (y \in S <=> x = y)
  BY FS_Singleton
<1>2. {x, y} = S \cup {y}
  OBVIOUS
<1> HIDE DEF S
<1>3. IsFiniteSet(S \cup {y}) /\
      Cardinality(S \cup {y}) = IF y \in S THEN Cardinality(S) ELSE Cardinality(S) + 1
  BY <1>1, FS_AddElement
<1> QED BY <1>1, <1>2, <1>3

(* A block is in a zone by its own row, or by that of its parent.          *)
LEMMA ZonedBlocks ==
    ASSUME Laid, Conflicting = {}
    PROVE  /\ \A b \in Blocks : ZoneOf(b) # 0 <=> b \in Units \/ ParentOf[b] \in Wholes
           /\ \A b \in Blocks : b \in Units => ZoneOf(b) = rows[b] /\ ParentOf[b] \notin Wholes
           /\ \A b \in Blocks : ParentOf[b] \in Wholes => ZoneOf(b) = rows[ParentOf[b]]
           /\ Units \subseteq Blocks /\ Wholes \subseteq Parents
           /\ Wholes # {} => map.shatterable
<1>1. ReadOff
  BY ZoneRead
<1>2. \A g \in Units \cup Wholes : rows[g] # 0
  BY ZonedUnits
<1>3. \A b \in Units : ParentOf[b] \notin Wholes
  BY ZonedUnits
<1>4. Units \subseteq Blocks /\ Wholes \subseteq Parents /\ (Wholes # {} => map.shatterable)
  BY ZonedUnits
<1> QED BY <1>1, <1>2, <1>3, <1>4 DEF ReadOff

-----------------------------------------------------------------------------
(* Cut edges                                                               *)

CutBlocks(E) ==
    {e \in E : /\ \A b \in e : ZoneOf(b) # 0
               /\ Cardinality(ZonesAmong(e)) = 2}

LEMMA EdgeIsSome ==
    ASSUME NEW E \in Adjacencies, NEW e \in E
    PROVE  \E b, c \in Blocks : b # c /\ e = {b, c}
<1>1. e \in SUBSET Blocks /\ Cardinality(e) = 2
  BY PlanImportOK DEF kSubset
<1>2. IsFiniteSet(e)
  BY <1>1, FS_Subset, PlanImportOK
<1>3. e # {}
  BY <1>1, FS_EmptySet
<1>4. PICK b \in e : TRUE
  BY <1>3
<1>5. e # {b}
  BY <1>1, FS_Singleton
<1>6. PICK c \in e : c # b
  BY <1>4, <1>5
<1>7. e = {b, c}
  BY <1>4, <1>6, EdgeFacts
<1> QED BY <1>1, <1>4, <1>6, <1>7

LEMMA CutPair ==
    ASSUME NEW E \in Adjacencies, NEW b, NEW c, {b, c} \in E
    PROVE  {b, c} \in CutBlocks(E) <=>
              ZoneOf(b) # 0 /\ ZoneOf(c) # 0 /\ ZoneOf(b) # ZoneOf(c)
<1>1. CASE ZoneOf(b) # 0 /\ ZoneOf(c) # 0
  <2>1. ZonesAmong({b, c}) = {ZoneOf(b), ZoneOf(c)}
    BY <1>1 DEF ZonesAmong
  <2>2. Cardinality({ZoneOf(b), ZoneOf(c)}) = 2 <=> ZoneOf(b) # ZoneOf(c)
    BY PairSize
  <2> QED BY <1>1, <2>1, <2>2 DEF CutBlocks
<1>2. CASE ~(ZoneOf(b) # 0 /\ ZoneOf(c) # 0)
  BY <1>2 DEF CutBlocks
<1> QED BY <1>1, <1>2

LEMMA FinitelyManyEdges == ASSUME NEW E \in Adjacencies PROVE IsFiniteSet(E)
<1>1. E \in SUBSET (SUBSET Blocks)
  BY PlanImportOK DEF kSubset
<1>2. IsFiniteSet(SUBSET Blocks)
  BY FS_SUBSET, PlanImportOK
<1> QED BY <1>1, <1>2, FS_Subset

(* The three sets whose sizes CutEdges adds up.                            *)
Heavy(E) ==
    {e \in E : map.shatterable /\ {ParentOf[b] : b \in e} \in
                  {pq \in kSubset(2, Wholes) : Cardinality({rows[p] : p \in pq}) = 2}}
Met(E) == {d \in Units \X Blocks : {d[1], d[2]} \in E}
Twice(E) == {d \in Met(E) : d[2] \in Units /\ rows[d[1]] # rows[d[2]]}
Once(E) == {d \in Met(E) : /\ d[2] \notin Units
                           /\ map.shatterable /\ ParentOf[d[2]] \in Wholes
                           /\ rows[d[1]] # rows[ParentOf[d[2]]]}

LEMMA CutEdgesAre ==
    ASSUME NEW n \in CutEdges
    PROVE  n = Cardinality(Heavy(map.edges))
               + (Cardinality(Once(map.edges)) + Cardinality(Twice(map.edges)) \div 2)
<1> DEFINE E == map.edges
<1>1. Once(E) = {d \in Met(E) : /\ d[2] \notin Units
                                /\ map.shatterable /\ ParentOf[d[2]] \in Wholes
                                /\ rows[d[1]] # rows[ParentOf[d[2]]]}
  BY DEF Once
<1>2. Heavy(E) =
        {e \in E : map.shatterable /\ {ParentOf[b] : b \in e} \in
                      {pq \in kSubset(2, Wholes) : Cardinality({rows[p] : p \in pq}) = 2}}
  BY DEF Heavy
<1>3. CutEdges =
        IF Units \subseteq Nodes
        THEN {Cardinality(Heavy(E)) + Halved(Cardinality(Once(E)), Cardinality(Twice(E)))}
        ELSE {}
  BY <1>1, <1>2 DEF CutEdges, Met, Twice
<1> QED BY <1>3 DEF Halved

(* Cut edges between blocks of whole parents, between single units, and    *)
(* between one and the other.                                              *)
Apart(E) == {e \in CutBlocks(E) : \A b \in e : ParentOf[b] \in Wholes}
Within(E) == {e \in CutBlocks(E) : \A b \in e : b \in Units}
Across(E) == {e \in CutBlocks(E) : (\E b \in e : b \in Units) /\ \E b \in e : ParentOf[b] \in Wholes}

LEMMA HeavyIs ==
    ASSUME Laid, Conflicting = {}, NEW E \in Adjacencies PROVE Heavy(E) = Apart(E)
<1>1. ASSUME NEW e \in E PROVE e \in Heavy(E) <=> e \in Apart(E)
  <2>1. PICK b, c \in Blocks : b # c /\ e = {b, c}
    BY EdgeIsSome
  <2> DEFINE p == ParentOf[b]
             q == ParentOf[c]
  <2>2. {ParentOf[x] : x \in e} = {p, q}
    BY <2>1
  <2>3. {p, q} \in kSubset(2, Wholes) <=> p \in Wholes /\ q \in Wholes /\ p # q
    BY PairSize DEF kSubset
  <2>4. {rows[x] : x \in {p, q}} = {rows[p], rows[q]}
    OBVIOUS
  <2>5. Cardinality({rows[p], rows[q]}) = 2 <=> rows[p] # rows[q]
    BY PairSize
  <2>6. e \in Heavy(E) <=> p \in Wholes /\ q \in Wholes /\ rows[p] # rows[q]
    <3>1. e \in Heavy(E) <=> /\ map.shatterable /\ {p, q} \in kSubset(2, Wholes)
                             /\ Cardinality({rows[x] : x \in {p, q}}) = 2
      BY <2>2 DEF Heavy
    <3>2. p \in Wholes => map.shatterable
      BY ZonedBlocks
    <3> QED BY <2>3, <2>4, <2>5, <3>1, <3>2
  <2>7. e \in CutBlocks(E) <=> ZoneOf(b) # 0 /\ ZoneOf(c) # 0 /\ ZoneOf(b) # ZoneOf(c)
    BY <2>1, CutPair
  <2>8. e \in Apart(E) <=> e \in CutBlocks(E) /\ p \in Wholes /\ q \in Wholes
    BY <2>1 DEF Apart
  <2> QED BY <2>1, <2>6, <2>7, <2>8, ZonedBlocks
<1> QED BY <1>1 DEF Heavy, Apart, CutBlocks

(* An edge between a single unit and a block of a whole parent is met once.*)
LEMMA OnceIs ==
    ASSUME Laid, Conflicting = {}, NEW E \in Adjacencies
    PROVE  IsFiniteSet(Across(E)) /\ Cardinality(Once(E)) = Cardinality(Across(E))
<1> DEFINE f == [d \in Once(E) |-> {d[1], d[2]}]
<1>1. ASSUME NEW d \in Once(E)
      PROVE  /\ d = <<d[1], d[2]>> /\ {d[1], d[2]} \in E
             /\ d[1] \in Units /\ d[2] \in Blocks /\ d[2] \notin Units
             /\ ParentOf[d[2]] \in Wholes /\ rows[d[1]] # rows[ParentOf[d[2]]]
  BY DEF Once, Met
<1>2. ASSUME NEW d \in Once(E) PROVE {d[1], d[2]} \in Across(E)
  <2>1. {d[1], d[2]} \in CutBlocks(E)
    BY <1>1, CutPair, ZonedBlocks
  <2> QED BY <1>1, <2>1 DEF Across
<1>3. f \in [Once(E) -> Across(E)]
  BY <1>2
<1>4. \A x, y \in Once(E) : f[x] = f[y] => x = y
  <2> SUFFICES ASSUME NEW x \in Once(E), NEW y \in Once(E), {x[1], x[2]} = {y[1], y[2]}
               PROVE  x = y
    OBVIOUS
  <2>1. x[1] = y[1] /\ x[2] = y[2]
    BY <1>1
  <2> QED BY <1>1, <2>1
<1>5. ASSUME NEW e \in Across(E) PROVE \E d \in Once(E) : f[d] = e
  <2>1. e \in E /\ e \in CutBlocks(E)
    BY DEF Across, CutBlocks
  <2>2. PICK b \in e, c \in e : b \in Units /\ ParentOf[c] \in Wholes
    BY DEF Across
  <2>3. b \in Blocks /\ c \in Blocks
    BY <2>1, EdgeFacts
  <2>4. c \notin Units /\ b # c
    BY <2>2, <2>3, ZonedBlocks
  <2>5. e = {b, c}
    BY <2>1, <2>4, EdgeFacts
  <2>6. ZoneOf(b) # ZoneOf(c)
    BY <2>1, <2>5, CutPair
  <2>7. rows[b] # rows[ParentOf[c]] /\ map.shatterable
    BY <2>2, <2>3, <2>6, ZonedBlocks
  <2>8. <<b, c>> \in Once(E)
    BY <2>1, <2>2, <2>3, <2>4, <2>5, <2>7 DEF Once, Met
  <2> QED BY <2>5, <2>8
<1>6. IsFiniteSet(Across(E))
  <2>1. Across(E) \in SUBSET E
    BY DEF Across, CutBlocks
  <2> QED BY <2>1, FinitelyManyEdges, FS_Subset
<1> HIDE DEF f
<1>7. f \in Injection(Once(E), Across(E))
  BY <1>3, <1>4 DEF Injection, IsInjective
<1>8. f \in Surjection(Once(E), Across(E))
  BY <1>3, <1>5 DEF Surjection
<1>9. IsFiniteSet(Once(E)) /\ (Cardinality(Once(E)) = Cardinality(Across(E)) <=>
                               f \in Surjection(Once(E), Across(E)))
  BY <1>6, <1>7, FS_Injection
<1> QED BY <1>6, <1>8, <1>9

(* One between two single units is met from both sides.                    *)
LEMMA TwiceIs ==
    ASSUME Laid, Conflicting = {}, NEW E \in Adjacencies
    PROVE  /\ IsFiniteSet(Within(E))
           /\ Cardinality(Twice(E)) = 2 * Cardinality(Within(E))
<1> DEFINE W == Within(E)
           left(e) == CHOOSE b \in e : TRUE
           right(e) == CHOOSE c \in e : c # left(e)
           f == [e \in W |-> <<left(e), right(e)>>]
           g == [e \in W |-> <<right(e), left(e)>>]
           A == {<<left(e), right(e)>> : e \in W}
           B == {<<right(e), left(e)>> : e \in W}
<1>1. IsFiniteSet(W) /\ \A e \in W : e \in E /\ e \in CutBlocks(E)
  <2>1. W \in SUBSET E /\ \A e \in W : e \in CutBlocks(E)
    BY DEF Within, CutBlocks
  <2> QED BY <2>1, FinitelyManyEdges, FS_Subset
<1>2. ASSUME NEW e \in W
      PROVE  /\ left(e) \in e /\ right(e) \in e /\ left(e) # right(e)
             /\ e = {left(e), right(e)}
  <2>1. PICK b, c \in Blocks : b # c /\ e = {b, c}
    BY <1>1, EdgeIsSome
  <2>2. left(e) \in e
    BY <2>1
  <2>3. \E x \in e : x # left(e)
    BY <2>1, <2>2
  <2> DEFINE l == left(e)
  <2> HIDE DEF l
  <2>4. right(e) \in e /\ right(e) # left(e)
    BY <2>3 DEF l
  <2>5. e = {left(e), right(e)}
    BY <1>1, <2>2, <2>4, EdgeFacts
  <2> QED BY <2>2, <2>4, <2>5
<1>3. ASSUME NEW b, NEW c
      PROVE  <<b, c>> \in Twice(E) <=> {b, c} \in W
  <2>1. <<b, c>> \in Twice(E) <=>
           b \in Units /\ c \in Units /\ {b, c} \in E /\ rows[b] # rows[c]
    BY ZonedBlocks DEF Twice, Met
  <2>2. {b, c} \in W <=> {b, c} \in CutBlocks(E) /\ b \in Units /\ c \in Units
    BY DEF Within
  <2>3. {b, c} \in CutBlocks(E) => {b, c} \in E
    BY DEF CutBlocks
  <2>4. {b, c} \in E => b \in Blocks /\ c \in Blocks
    BY EdgeFacts
  <2> HIDE DEF W
  <2> QED BY <2>1, <2>2, <2>3, <2>4, CutPair, ZonedBlocks
<1>4. ASSUME NEW d \in Twice(E) PROVE d = <<d[1], d[2]>>
  BY DEF Twice, Met
<1> HIDE DEF W, left, right
<1>5. Twice(E) = A \cup B
  <2>1. ASSUME NEW d \in Twice(E) PROVE d \in A \cup B
    <3>1. PICK e \in W : e = {d[1], d[2]}
      BY <1>3, <1>4
    <3>2. \/ d[1] = left(e) /\ d[2] = right(e)
          \/ d[1] = right(e) /\ d[2] = left(e)
      BY <1>2, <3>1
    <3>3. d = <<left(e), right(e)>> \/ d = <<right(e), left(e)>>
      BY <1>4, <3>2
    <3> QED BY <3>3
  <2>2. ASSUME NEW e \in W
        PROVE  <<left(e), right(e)>> \in Twice(E) /\ <<right(e), left(e)>> \in Twice(E)
    <3>1. e = {left(e), right(e)} /\ e = {right(e), left(e)}
      BY <1>2
    <3> QED BY <1>3, <3>1
  <2>3. A \cup B \subseteq Twice(E)
    BY <2>2
  <2> QED BY <2>1, <2>3
<1>6. A \cap B = {}
  <2> SUFFICES ASSUME NEW e \in W, NEW h \in W, left(e) = right(h), right(e) = left(h) PROVE FALSE
    OBVIOUS
  <2>1. e = h
    BY <1>2
  <2> QED BY <1>2, <2>1
<1>7. IsFiniteSet(A) /\ Cardinality(A) = Cardinality(W)
  <2>1. f \in [W -> A] /\ (\A t \in A : \E x \in W : f[x] = t)
    OBVIOUS
  <2>2. \A x, y \in W : f[x] = f[y] => x = y
    BY <1>2
  <2> HIDE DEF f, A
  <2> QED BY <1>1, <2>1, <2>2, SameSize
<1>8. IsFiniteSet(B) /\ Cardinality(B) = Cardinality(W)
  <2>1. g \in [W -> B] /\ (\A t \in B : \E x \in W : g[x] = t)
    OBVIOUS
  <2>2. \A x, y \in W : g[x] = g[y] => x = y
    BY <1>2
  <2> HIDE DEF g, B
  <2> QED BY <1>1, <2>1, <2>2, SameSize
<1> HIDE DEF A, B
<1>9. Cardinality(A \cup B) = Cardinality(A) + Cardinality(B)
  BY <1>6, <1>7, <1>8, DisjointSize
<1>10. Cardinality(W) \in Nat
  BY <1>1, FS_CardinalityType
<1> QED BY <1>1, <1>5, <1>7, <1>8, <1>9, <1>10 DEF W

LEMMA CutEdgesExact ==
    ASSUME Laid, Conflicting = {}, NEW n \in CutEdges
    PROVE  n = Cardinality(CutBlocks(map.edges))
<1> DEFINE E == map.edges
           H == Apart(E)
           W == Within(E)
           C == Across(E)
<1>0. E \in Adjacencies
  BY DEF Laid, Maps
<1>14. n = Cardinality(Heavy(E)) + (Cardinality(Once(E)) + Cardinality(Twice(E)) \div 2)
  BY CutEdgesAre
<1> SUFFICES n = Cardinality(CutBlocks(E))
  OBVIOUS
<1> HIDE DEF E
<1>1. H \in SUBSET E /\ W \in SUBSET E /\ C \in SUBSET E
  BY DEF Apart, Within, Across, CutBlocks
<1>2. IsFiniteSet(H) /\ IsFiniteSet(W) /\ IsFiniteSet(C)
  BY <1>0, <1>1, FinitelyManyEdges, FS_Subset
<1>3. \A e \in CutBlocks(E) : /\ e \subseteq Blocks /\ e # {}
                              /\ \A b \in e : b \in Units \/ ParentOf[b] \in Wholes
                              /\ \A b \in e : ~(b \in Units /\ ParentOf[b] \in Wholes)
  <2> TAKE e \in CutBlocks(E)
  <2>1. e \in E /\ \A b \in e : ZoneOf(b) # 0
    BY DEF CutBlocks
  <2>2. PICK b, c \in Blocks : b # c /\ e = {b, c}
    BY <1>0, <2>1, EdgeIsSome
  <2> QED BY <2>1, <2>2, ZonedBlocks
<1>4. CutBlocks(E) = (H \cup W) \cup C
  <2>1. \A e \in CutBlocks(E) : e \in H \/ e \in W \/ e \in C
    BY <1>3 DEF Apart, Within, Across
  <2>2. H \subseteq CutBlocks(E) /\ W \subseteq CutBlocks(E) /\ C \subseteq CutBlocks(E)
    BY DEF Apart, Within, Across
  <2> HIDE DEF H, W, C
  <2> QED BY <2>1, <2>2
<1>5. H \cap W = {}
  BY <1>3 DEF Apart, Within
<1>6. (H \cup W) \cap C = {}
  BY <1>3 DEF Apart, Within, Across
<1>7. Heavy(E) = H
  BY <1>0, HeavyIs
<1>8. Cardinality(Once(E)) = Cardinality(C) /\ Cardinality(Twice(E)) = 2 * Cardinality(W)
  BY <1>0, OnceIs, TwiceIs
<1> HIDE DEF H, W, C
<1>9. Cardinality(H) \in Nat /\ Cardinality(W) \in Nat /\ Cardinality(C) \in Nat
  BY <1>2, FS_CardinalityType
<1>10. IsFiniteSet(H \cup W) /\ Cardinality(H \cup W) = Cardinality(H) + Cardinality(W)
  BY <1>2, <1>5, DisjointSize
<1>11. Cardinality((H \cup W) \cup C) = Cardinality(H \cup W) + Cardinality(C)
  BY <1>2, <1>6, <1>10, DisjointSize
<1>12. \A m \in Nat : (2 * m) \div 2 = m
  OBVIOUS
<1>13. Cardinality(CutBlocks(E)) = Cardinality(H) + Cardinality(W) + Cardinality(C)
  BY <1>4, <1>10, <1>11
<1>15. n = Cardinality(H) + (Cardinality(C) + (2 * Cardinality(W)) \div 2)
  BY <1>7, <1>8, <1>14
<1> QED BY <1>9, <1>12, <1>13, <1>15

-----------------------------------------------------------------------------
(* Counts of parents                                                       *)

InOne(p) == FullyIn(p) /\ Cardinality(ZonesAmong(Linked(p))) = 1
InMore(p) == FullyIn(p) /\ Cardinality(ZonesAmong(Linked(p))) > 1
InPart(p) == ~FullyIn(p) /\ ZonesAmong(Linked(p)) # {}

(* Where the blocks of a parent are, by how the parent is stored.          *)
LEMMA ParentCases ==
    ASSUME Laid, map.shatterable, Conflicting = {}, Assigned \subseteq Nodes, NEW p \in Parents
    PROVE  /\ p \in Wholes => p \notin Begun /\ InOne(p) /\ ~InMore(p) /\ ~InPart(p)
           /\ p \in Shattered => /\ FullyIn(p) /\ ~InPart(p)
                                 /\ InOne(p) <=> p \notin SplitParents
                                 /\ InMore(p) <=> p \in SplitParents
           /\ p \in Begun \ Shattered => InPart(p) /\ ~InOne(p) /\ ~InMore(p)
           /\ p \notin Wholes /\ p \notin Begun => ~InOne(p) /\ ~InMore(p) /\ ~InPart(p)
<1> DEFINE kids == Linked(p)
           Z == ZonesAmong(kids)
<1>1. /\ \A b \in kids : b \in Blocks /\ ParentOf[b] = p
      /\ p \in Wholes => kids # {}
      /\ Units \subseteq Ends /\ \A b \in Ends : b \in kids <=> ParentOf[b] = p
  BY NodeFacts, ZonedUnits DEF Laid
<1>2. \A z : z \in Z <=> z # 0 /\ \E b \in kids : ZoneOf(b) = z
  BY DEF ZonesAmong
<1>3. FullyIn(p) <=> \A b \in kids : ZoneOf(b) # 0
  BY DEF FullyIn
<1>4. IsFiniteSet(kids) /\ IsFiniteSet({rows[b] : b \in kids})
  BY Geography, ImageFinite
<1>5. \A b \in Units : b \in Blocks
  BY ZonedBlocks
<1>6. p \in Begun <=> \E b \in kids : b \in Units
  BY <1>1 DEF Begun
<1>7. p \in Shattered <=> p \in Begun /\ kids \subseteq Units
  BY DEF Shattered
<1>8. ASSUME p \in Wholes
      PROVE  p \notin Begun /\ InOne(p) /\ ~InMore(p) /\ ~InPart(p)
  <2>1. \A b \in kids : ZoneOf(b) = rows[p] /\ ZoneOf(b) # 0 /\ b \notin Units
    BY <1>1, <1>8, ZonedBlocks
  <2>2. Z = {rows[p]}
    BY <1>1, <1>2, <1>8, <2>1
  <2>3. Cardinality(Z) = 1
    BY <2>2, FS_Singleton
  <2>4. FullyIn(p)
    BY <1>3, <2>1
  <2> QED BY <1>6, <2>1, <2>3, <2>4 DEF InOne, InMore, InPart
<1>9. ASSUME p \in Shattered
      PROVE  /\ FullyIn(p) /\ ~InPart(p)
             /\ InOne(p) <=> p \notin SplitParents
             /\ InMore(p) <=> p \in SplitParents
  <2>1. \A b \in kids : ZoneOf(b) = rows[b] /\ ZoneOf(b) # 0
    BY <1>1, <1>7, <1>9, ZonedBlocks
  <2> DEFINE R == {rows[b] : b \in kids}
  <2>2. Z = R
    <3>1. \A z : z \in Z <=> z \in R
      BY <1>2, <2>1
    <3> HIDE DEF Z, R
    <3> QED BY <3>1
  <2>3. FullyIn(p)
    BY <1>3, <2>1
  <2>4. p \in SplitParents <=> Cardinality(R) > 1
    BY <1>9 DEF SplitParents
  <2>5. R # {}
    BY <1>6, <1>7, <1>9
  <2>6. Cardinality(R) \in Nat /\ Cardinality(R) # 0
    <3> HIDE DEF R
    <3>1. IsFiniteSet(R)
      BY <1>4 DEF R
    <3> QED BY <2>5, <3>1, FS_CardinalityType, FS_EmptySet
  <2> HIDE DEF R, Z
  <2>7. Cardinality(R) > 1 <=> Cardinality(R) # 1
    BY <2>6
  <2>8. /\ InOne(p) <=> FullyIn(p) /\ Cardinality(Z) = 1
        /\ InMore(p) <=> FullyIn(p) /\ Cardinality(Z) > 1
        /\ InPart(p) => ~FullyIn(p)
    BY DEF InOne, InMore, InPart, Z
  <2> QED BY <2>2, <2>3, <2>4, <2>7, <2>8
<1>10. ASSUME p \in Begun, p \notin Shattered, p \notin Wholes
       PROVE  InPart(p) /\ ~InOne(p) /\ ~InMore(p)
  <2>1. PICK b \in kids : b \in Units
    BY <1>6, <1>10
  <2>2. PICK c \in kids : c \notin Units
    BY <1>7, <1>10
  <2>3. ZoneOf(b) # 0 /\ ZoneOf(c) = 0
    BY <1>1, <1>10, <2>1, <2>2, ZonedBlocks
  <2>4. ZoneOf(b) \in Z /\ ~FullyIn(p)
    BY <1>2, <1>3, <2>3
  <2> QED BY <2>4 DEF InOne, InMore, InPart
<1>11. ASSUME p \notin Wholes, p \notin Begun
       PROVE  ~InOne(p) /\ ~InMore(p) /\ ~InPart(p)
  <2>1. \A b \in kids : ZoneOf(b) = 0
    BY <1>1, <1>6, <1>11, ZonedBlocks
  <2>2. Z = {}
    BY <1>2, <2>1
  <2>3. Cardinality(Z) = 0
    BY <2>2, FS_EmptySet
  <2> QED BY <2>2, <2>3 DEF InOne, InMore, InPart
<1> QED BY <1>8, <1>9, <1>10, <1>11

LEMMA CountsAre ==
    ASSUME Laid, map.shatterable, NEW counts \in Counts
    PROVE  counts = [assigned |-> Cardinality({p \in Parents : InOne(p)}),
                     split    |-> Cardinality({p \in Parents : InMore(p)}),
                     partial  |-> Cardinality({p \in Parents : InPart(p)}),
                     children |-> Cardinality({b \in Ends : ZoneOf(b) # 0})]
<1>a. Conflicting = {} /\ Assigned \subseteq Nodes /\ map \in Maps
  BY DEF Counts, Laid
<1>1. Begun \subseteq Parents /\ Shattered \subseteq Begun /\ SplitParents \subseteq Shattered
      /\ Wholes \subseteq Parents /\ Units \subseteq Blocks /\ Units \subseteq Ends
  BY <1>a, ZonedUnits, NodeFacts, Geography DEF Begun, Shattered, SplitParents
<1>2. {p \in Parents : InOne(p)} = Wholes \cup (Shattered \ SplitParents)
  <2>1. \A p \in Parents : InOne(p) <=> p \in Wholes \/ (p \in Shattered /\ p \notin SplitParents)
    BY <1>1, <1>a, ParentCases
  <2> QED BY <1>1, <2>1
<1>3. {p \in Parents : InMore(p)} = SplitParents
  <2>1. \A p \in Parents : InMore(p) <=> p \in SplitParents
    BY <1>1, <1>a, ParentCases
  <2> QED BY <1>1, <2>1
<1>4. {p \in Parents : InPart(p)} = Begun \ Shattered
  <2>1. \A p \in Parents : InPart(p) <=> p \in Begun \ Shattered
    BY <1>1, <1>a, ParentCases
  <2> QED BY <1>1, <2>1
<1> DEFINE S == Shattered \ SplitParents
           K == UNION {Linked(p) : p \in Wholes}
<1>5. Cardinality(Wholes \cup S) = Cardinality(Wholes) + Cardinality(S)
  <2>1. S \in SUBSET Parents /\ Wholes \in SUBSET Parents
    BY <1>1
  <2>2. Wholes \cap S = {}
    BY <1>1, <1>a, ParentCases
  <2>3. IsFiniteSet(Wholes) /\ IsFiniteSet(S)
    BY <2>1, FS_Subset, PlanImportOK
  <2> HIDE DEF S
  <2> QED BY <2>2, <2>3, DisjointSize
<1>6. {b \in Ends : ZoneOf(b) # 0} = Units \cup K
  <2>1. \A b \in Ends : b \in Blocks /\ (b \in K <=> ParentOf[b] \in Wholes)
    BY <1>a, NodeFacts
  <2>2. K \subseteq Ends
    BY <1>a, NodeFacts
  <2> HIDE DEF K
  <2>3. \A b \in Ends : ZoneOf(b) # 0 <=> b \in Units \cup K
    BY <1>a, <2>1, ZonedBlocks
  <2> QED BY <1>1, <2>2, <2>3
<1>7. Cardinality(Units \cup K) = Cardinality(Units) + Cardinality(K)
  <2>1. K \in SUBSET Blocks /\ Units \in SUBSET Blocks
    BY <1>a, <1>1, NodeFacts
  <2>2. Units \cap K = {}
    BY <1>a, <1>1, ZonedBlocks, NodeFacts
  <2>3. IsFiniteSet(Units) /\ IsFiniteSet(K)
    BY <2>1, FS_Subset, PlanImportOK
  <2> HIDE DEF K
  <2> QED BY <2>2, <2>3, DisjointSize
<1>8. counts = [assigned |-> Cardinality(Wholes) + Cardinality(S),
                split    |-> Cardinality(SplitParents),
                partial  |-> Cardinality(Begun \ Shattered),
                children |-> Cardinality(Units) + Cardinality(K)]
  BY DEF Counts
<1> HIDE DEF S, K
<1> QED BY <1>2, <1>3, <1>4, <1>5, <1>6, <1>7, <1>8 DEF S

(* Cut edges and counts of units, which are computed from rows of parents  *)
(* and of blocks, are those of the blocks (block_cut_edges counts an edge  *)
(* between two single units from both sides and halves the sum;            *)
(* assigned_units sorts parents by how they are stored), for every plan of *)
(* which they are computed; where each block has an edge, the counts fail  *)
(* only for a plan that assigns a parent beside its blocks.                *)
THEOREM CountsAreOfBlocks == Spec => []CountsExact
<1>1. Laid => CountsExact
  <2> SUFFICES ASSUME Laid PROVE CountsExact
    OBVIOUS
  <2>1. Conflicting = {} => \A n \in CutEdges : n = Cardinality(CutBlocks(map.edges))
    BY CutEdgesExact
  <2>2. map.shatterable =>
           \A counts \in Counts :
              counts = [assigned |-> Cardinality({p \in Parents : InOne(p)}),
                        split    |-> Cardinality({p \in Parents : InMore(p)}),
                        partial  |-> Cardinality({p \in Parents : InPart(p)}),
                        children |-> Cardinality({b \in Ends : ZoneOf(b) # 0})]
    BY CountsAre
  <2>3. ASSUME Ends = Blocks PROVE CutEdges # {} /\ (Conflicting = {} => Counts # {})
    <3>1. map \in Maps
      BY DEF Laid
    <3>2. Units \subseteq Nodes
      BY <2>3, <3>1, NodeFacts, ZonedUnits
    <3>3. \A p \in Parents : Linked(p) # {}
      BY <2>3, Geography DEF Linked
    <3>4. Assigned \subseteq Nodes
      BY <3>1, <3>2, <3>3, NodeFacts, ZonedUnits
    <3>5. CutEdges # {}
      BY <3>2 DEF CutEdges
    <3>6. Conflicting = {} => Counts # {}
      BY <3>4 DEF Counts
    <3> QED BY <3>5, <3>6
  <2> QED BY <2>1, <2>2, <2>3 DEF CountsExact, CutBlocks, InOne, InMore, InPart
<1>2. Spec => []Laid
  BY AlwaysLaid
<1> QED BY <1>1, <1>2, PTL
=============================================================================
