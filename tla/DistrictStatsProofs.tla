------------------------- MODULE DistrictStatsProofs -------------------------
(***************************************************************************)
(* What is proved of DistrictStats for any finite sets of units and        *)
(* districts, any number of computations and any bound on time: types in   *)
(* every case; and, when no save commits inside the transaction of a       *)
(* computation, that the cache and the answers are exact, and that the     *)
(* published object is when only one task publishes.                       *)
(***************************************************************************)
EXTENDS DistrictStats, FunctionTheorems, FiniteSetTheorems, TLAPS

JobTypes == [stage: {"idle", "asked", "zones", "cache", "locked", "built",
                     "answered", "uploaded"},
             lock: BOOLEAN, snap: Stamps \cup {Never}, zones: SUBSET Zones,
             seen: Tables,
             built: [Zones -> SUBSET Units], result: Tables]

SaveTypes == [stage: {"idle", "open", "evicted"}, start: Stamps \cup {Never}, rows: Plans,
              dirty: SUBSET Zones, evicted: SUBSET Zones, rest: BOOLEAN]

-----------------------------------------------------------------------------
(* Types *)

LEMMA MembersType ==
    ASSUME NEW plan \in Plans, NEW z
    PROVE  /\ Members(plan, z) \in SUBSET Units
           /\ IsFiniteSet(Members(plan, z))
           /\ Cardinality(Members(plan, z)) \in 0..Cardinality(Units)
<1>1. Members(plan, z) \in SUBSET Units
  BY DEF Members
<1>2. IsFiniteSet(Members(plan, z)) /\ Cardinality(Members(plan, z)) <= Cardinality(Units)
  BY <1>1, FS_Subset, StatsAssumption
<1> QED BY <1>1, <1>2, FS_CardinalityType, StatsAssumption

LEMMA ExactType == ASSUME NEW plan \in Plans PROVE Exact(plan) \in Tables
BY MembersType DEF Exact, Tables

LEMMA EmptyTypes == EmptyTable \in Tables /\ Nothing \in Plans /\ 1 \in Stamps
BY StatsAssumption DEF EmptyTable, Tables, NoRest, Nothing, Plans, Stamps

LEMMA IdleTypes == Idle \in JobTypes /\ NoSave \in SaveTypes
BY EmptyTypes DEF Idle, JobTypes, NoSave, SaveTypes

LEMMA DirtyType ==
    ASSUME NEW old \in Plans, NEW new \in Plans PROVE Dirty(old, new) \in SUBSET Zones
BY DEF Dirty, Plans

LEMMA WeightType ==
    ASSUME NEW zone \in [Zones -> SUBSET Units] PROVE Weight(zone) \in Nat
<1>1. IsFiniteSet(Zones \X Units)
  BY FS_Product, StatsAssumption
<1>2. {p \in Zones \X Units : p[2] \in zone[p[1]]} \in SUBSET (Zones \X Units)
  OBVIOUS
<1> QED BY <1>1, <1>2, FS_Subset, FS_CardinalityType DEF Weight

LEMMA LeftOverType ==
    ASSUME NEW zone \in [Zones -> SUBSET Units] PROVE LeftOver(zone) \in 0..Cardinality(Units)
<1>1. Cardinality(Units) \in Nat
  BY FS_CardinalityType, StatsAssumption
<1> QED BY <1>1, WeightType DEF LeftOver

(* An open transaction has started: with this the types are inductive.     *)
Typed == TypeOK /\ (save.stage # "idle" => save.start \in Stamps)

LEMMA InitType == Init => Typed
BY EmptyTypes, IdleTypes, StatsAssumption
DEF Init, Typed, TypeOK, JobTypes, SaveTypes, NoSave

(* A step that changes one computation and nothing else. *)
LEMMA OneJobType ==
    ASSUME Typed, NEW j \in Jobs, NEW q \in JobTypes, Set(j, q),
           UNCHANGED <<rows, cache, changed, published, save, clock>>
    PROVE  Typed'
BY DEF Typed, TypeOK, Set, JobTypes

LEMMA BeginType ==
    ASSUME Typed, NEW plan \in Plans, NEW dirty \in SUBSET Zones, Begin(plan, dirty)
    PROVE  Typed'
<1>1. clock + 1 \in Stamps
  BY StatsAssumption DEF Begin, Typed, TypeOK, Stamps
<1>2. save' \in SaveTypes /\ save'.start = clock + 1
  BY <1>1, IdleTypes DEF Begin, SaveTypes
<1> QED BY <1>1, <1>2 DEF Begin, Typed, TypeOK, SaveTypes

LEMMA SaveStepType == Typed /\ (Evict \/ CommitSave \/ AbortSave) => Typed'
<1> SUFFICES ASSUME Typed, Evict \/ CommitSave \/ AbortSave PROVE Typed'
  OBVIOUS
<1>1. CASE Evict
  <2>1. save' \in SaveTypes /\ save'.start = save.start
    BY <1>1 DEF Evict, Typed, TypeOK, SaveTypes
  <2> QED BY <1>1, <2>1 DEF Evict, Typed, TypeOK, SaveTypes
<1>2. CASE CommitSave
  <2>1. cache' \in Tables
    BY <1>2 DEF CommitSave, Typed, TypeOK, Tables
  <2>2. changed' \in Stamps /\ rows' \in Plans
    BY <1>2 DEF CommitSave, Typed, TypeOK
  <2>3. save' \in SaveTypes /\ save'.stage = "idle"
    BY <1>2, IdleTypes DEF CommitSave, NoSave
  <2> QED BY <1>2, <2>1, <2>2, <2>3 DEF CommitSave, Typed, TypeOK, SaveTypes
<1>3. CASE AbortSave
  <2>1. save' \in SaveTypes /\ save'.stage = "idle"
    BY <1>3, IdleTypes DEF AbortSave, NoSave
  <2> QED BY <1>3, <2>1 DEF AbortSave, Typed, TypeOK, SaveTypes
<1> QED BY <1>1, <1>2, <1>3

LEMMA JobType == ASSUME Typed, NEW j \in Jobs PROVE job[j] \in JobTypes
BY DEF Typed, TypeOK, JobTypes

LEMMA ReadZonesType == ASSUME Typed, NEW j \in Jobs, ReadZones(j) PROVE Typed'
<1>1. [job[j] EXCEPT !.stage = "zones", !.zones = {z \in Zones : Members(rows, z) # {}}]
        \in JobTypes
  BY JobType DEF JobTypes
<1> QED BY <1>1, OneJobType DEF ReadZones

LEMMA ReadCacheType == ASSUME Typed, NEW j \in Jobs, ReadCache(j) PROVE Typed'
<1>1. [job[j] EXCEPT !.stage = "cache", !.seen = cache] \in JobTypes
  BY JobType DEF JobTypes, Typed, TypeOK
<1> QED BY <1>1, OneJobType DEF ReadCache

LEMMA AnswerFromCacheType == ASSUME Typed, NEW j \in Jobs, AnswerFromCache(j) PROVE Typed'
<1>1. [job[j] EXCEPT !.stage = "answered", !.result = job[j].seen] \in JobTypes
  BY JobType DEF JobTypes
<1> QED BY <1>1, OneJobType DEF AnswerFromCache

LEMMA LockType == ASSUME Typed, NEW j \in Jobs, Lock(j) PROVE Typed'
<1>1. [job[j] EXCEPT !.stage = "locked", !.lock = TRUE, !.seen = cache] \in JobTypes
  BY JobType DEF JobTypes, Typed, TypeOK
<1> QED BY <1>1, OneJobType DEF Lock

LEMMA RebuildType == ASSUME Typed, NEW j \in Jobs, Rebuild(j) PROVE Typed'
<1> DEFINE built == [z \in Zones |-> IF z \in Missing(j) THEN Members(rows, z) ELSE {}]
<1>1. built \in [Zones -> SUBSET Units]
  BY DEF Members
<1>2. [job[j] EXCEPT !.stage = "built", !.built = built] \in JobTypes
  BY <1>1, JobType DEF JobTypes
<1> QED BY <1>2, OneJobType DEF Rebuild

LEMMA CommitStatsType == ASSUME Typed, NEW j \in Jobs, CommitStats(j) PROVE Typed'
<1> DEFINE seen     == job[j].seen
           built    == job[j].built
           returned == [z \in Zones |-> IF built[z] # {} THEN built[z] ELSE seen.zone[z]]
           again    == seen.rest = NoRest \/ \E z \in Zones : built[z] # {}
           rest     == IF again THEN LeftOver(returned) ELSE seen.rest
           table    == [zone |-> [z \in Zones |-> IF cache.zone[z] = {} THEN built[z]
                                                  ELSE cache.zone[z]],
                        rest |-> IF again THEN rest ELSE cache.rest]
           q        == [job[j] EXCEPT !.stage = "answered", !.lock = FALSE,
                                      !.result = [zone |-> returned, rest |-> rest]]
<1>1. job[j] \in JobTypes /\ seen \in Tables /\ built \in [Zones -> SUBSET Units]
  BY JobType DEF JobTypes
<1>2. returned \in [Zones -> SUBSET Units]
  BY <1>1 DEF Tables
<1>3. rest \in {NoRest} \cup 0..Cardinality(Units)
  BY <1>1, <1>2, LeftOverType DEF Tables
<1>4. table \in Tables
  BY <1>1, <1>3 DEF Typed, TypeOK, Tables
<1>5. q \in JobTypes
  BY <1>1, <1>2, <1>3 DEF JobTypes, Tables
<1>6. cache' = table /\ Set(j, q) /\ UNCHANGED <<rows, changed, published, save, clock>>
  BY DEF CommitStats
<1> HIDE DEF table, q
<1> QED BY <1>4, <1>5, <1>6 DEF Typed, TypeOK, Set, JobTypes

LEMMA FinishType == ASSUME Typed, NEW j \in Jobs, Finish(j) PROVE Typed'
BY IdleTypes, OneJobType DEF Finish

LEMMA PublishType ==
    ASSUME Typed, NEW j \in Jobs, StartPublish(j) \/ Upload(j) \/ Stamp(j) PROVE Typed'
<1>1. CASE StartPublish(j)
  <2>1. [Idle EXCEPT !.stage = "asked", !.snap = changed] \in JobTypes
    BY IdleTypes DEF JobTypes, Typed, TypeOK
  <2> QED BY <1>1, <2>1, OneJobType DEF StartPublish
<1>2. CASE Upload(j)
  <2>1. [Idle EXCEPT !.stage = "uploaded", !.snap = job[j].snap, !.lock = job[j].lock]
          \in JobTypes
    BY JobType, IdleTypes DEF JobTypes
  <2>2. published' \in [body: Tables, stamp: Stamps \cup {Never}]
    BY <1>2, JobType DEF Upload, Typed, TypeOK, JobTypes
  <2> QED BY <1>2, <2>1, <2>2 DEF Upload, Typed, TypeOK, Set, JobTypes
<1>3. CASE Stamp(j)
  <2>1. published' \in [body: Tables, stamp: Stamps \cup {Never}]
    BY <1>3, JobType DEF Stamp, StampOf, Typed, TypeOK, JobTypes
  <2> QED BY <1>3, <2>1, IdleTypes DEF Stamp, Typed, TypeOK, Set, JobTypes
<1> QED BY <1>1, <1>2, <1>3

LEMMA NextType == Typed /\ [Next]_vars => Typed'
<1> SUFFICES ASSUME Typed, [Next]_vars PROVE Typed'
  OBVIOUS
<1>1. ASSUME NEW plan \in Plans, Save(plan) PROVE Typed'
  BY <1>1, BeginType, DirtyType DEF Save, Typed, TypeOK
<1>2. CASE Reset
  BY <1>2, BeginType, EmptyTypes DEF Reset
<1>3. CASE Evict \/ CommitSave \/ AbortSave
  BY <1>3, SaveStepType
<1>4. ASSUME NEW j \in Jobs,
             \/ Request(j) \/ ReadCache(j) \/ AnswerFromCache(j) \/ Lock(j) \/ Rebuild(j)
             \/ CommitStats(j) \/ Finish(j)
             \/ StartPublish(j) \/ Compute(j) \/ Upload(j) \/ Stamp(j)
      PROVE  Typed'
  BY <1>4, ReadZonesType, ReadCacheType, AnswerFromCacheType, LockType, RebuildType,
     CommitStatsType, FinishType, PublishType DEF Request, Compute
<1>5. CASE UNCHANGED vars
  BY <1>5 DEF vars, Typed, TypeOK
<1> QED BY <1>1, <1>2, <1>3, <1>4, <1>5 DEF Next

LEMMA TypedAlways == Spec => []Typed
BY InitType, NextType, PTL DEF Spec

(* The tables, the transactions and the computations keep their types.     *)
THEOREM TypeCorrect == Spec => []TypeOK
<1>1. Typed => TypeOK
  BY DEF Typed
<1> QED BY <1>1, TypedAlways, PTL

-----------------------------------------------------------------------------
(* What the operators compute *)

(* Districts that a save does not name have the same units before and      *)
(* after it; when it names none, so has what is unassigned.                *)
LEMMA DirtyExact ==
    ASSUME NEW old \in Plans, NEW new \in Plans
    PROVE  /\ \A z \in Zones \ Dirty(old, new) : Members(new, z) = Members(old, z)
           /\ Dirty(old, new) = {} => Members(new, Null) = Members(old, Null)
<1>1. ASSUME NEW u \in Units, old[u] # new[u]
      PROVE  {old[u], new[u]} \ {Null} \subseteq Dirty(old, new)
  BY <1>1 DEF Dirty
<1>2. ASSUME NEW z \in Zones \ Dirty(old, new), NEW u \in Units
      PROVE  new[u] = z <=> old[u] = z
  BY <1>1, StatsAssumption
<1>3. ASSUME Dirty(old, new) = {}, NEW u \in Units PROVE new[u] = old[u]
  BY <1>1, <1>3
<1> QED BY <1>2, <1>3 DEF Members

(* The unassigned row is what the districts leave over. *)
LEMMA LeftOverExact ==
    ASSUME NEW plan \in Plans
    PROVE  LeftOver([z \in Zones |-> Members(plan, z)]) = Cardinality(Members(plan, Null))
<1> DEFINE zone == [z \in Zones |-> Members(plan, z)]
           N    == Members(plan, Null)
           S    == Units \ N
           T    == {p \in Zones \X Units : p[2] \in zone[p[1]]}
           F    == [u \in S |-> <<plan[u], u>>]
<1>1. IsFiniteSet(S) /\ Cardinality(S) = Cardinality(Units) - Cardinality(Units \cap N)
  BY FS_Difference, StatsAssumption
<1>2. Units \cap N = N
  BY DEF Members
<1>3. F \in [S -> T]
  BY DEF Plans, Members
<1>4. \A a, b \in S : F[a] = F[b] => a = b
  OBVIOUS
<1>5. \A t \in T : \E u \in S : F[u] = t
  <2> SUFFICES ASSUME NEW t \in T PROVE \E u \in S : F[u] = t
    OBVIOUS
  <2>1. PICK z \in Zones, u \in Units : t = <<z, u>>
    OBVIOUS
  <2>2. plan[u] = z /\ z # Null
    BY <2>1, StatsAssumption DEF Members
  <2>3. u \in S /\ F[u] = t
    BY <2>1, <2>2 DEF Members
  <2> QED BY <2>3
<1>6. F \in Bijection(S, T)
  BY <1>3, <1>4, <1>5, Fun_IsBij
<1>7. Cardinality(T) = Cardinality(S)
  BY <1>1, <1>6, FS_Bijection DEF ExistsBijection
<1>8. Cardinality(N) \in 0..Cardinality(Units) /\ Cardinality(Units) \in Nat
  BY MembersType, FS_CardinalityType, StatsAssumption
<1>9. Weight(zone) = Cardinality(Units) - Cardinality(N)
  BY <1>1, <1>2, <1>7 DEF Weight
<1> QED BY <1>8, <1>9 DEF LeftOver

-----------------------------------------------------------------------------
(* Exactness, when no save commits inside the transaction of a computation *)

FreshTable(table) ==
    /\ \A z \in Cached(table) : table.zone[z] = Members(rows, z)
    /\ table.rest # NoRest => table.rest = Cardinality(Members(rows, Null))

Districts == {z \in Zones : Members(rows, z) # {}}

(* What a computation has read or built is of the plan as it is. *)
JobExact(q) ==
    /\ q.stage \in {"zones", "cache", "locked", "built"} => q.zones = Districts
    /\ q.stage \in {"cache", "locked", "built"} => FreshTable(q.seen)
    /\ q.stage = "built" =>
           q.built = [z \in Zones |-> IF z \in q.zones \ Cached(q.seen) THEN Members(rows, z)
                                      ELSE {}]

(* A save is alone, names every district it changes, and has deleted every *)
(* row of them.                                                            *)
SaveExact ==
    /\ save.stage # "idle" =>
           /\ \A j \in Jobs : ~InTransaction(j)
           /\ \A z \in Zones \ save.dirty : Members(save.rows, z) = Members(rows, z)
           /\ save.dirty = {} => Members(save.rows, Null) = Members(rows, Null)
    /\ save.stage = "evicted" =>
           /\ Cached(cache) \cap save.dirty \subseteq save.evicted
           /\ save.dirty # {} => cache.rest = NoRest \/ save.rest

IInv == Typed /\ FreshTable(cache) /\ SaveExact /\ \A j \in Jobs : JobExact(job[j])

LEMMA FreshTableExact ==
    ASSUME NEW table \in Tables, FreshTable(table), rows \in Plans,
           Districts \subseteq Cached(table)
    PROVE  table.zone = Exact(rows).zone
<1>1. \A z \in Zones : table.zone[z] = Members(rows, z)
  BY DEF FreshTable, Cached, Districts
<1> QED BY <1>1 DEF Tables, Exact

LEMMA InitIInv == Init => IInv
<1> SUFFICES ASSUME Init PROVE IInv
  OBVIOUS
<1>1. FreshTable(cache)
  BY DEF Init, FreshTable, EmptyTable, Cached
<1>2. SaveExact /\ \A j \in Jobs : JobExact(job[j])
  BY DEF Init, SaveExact, NoSave, JobExact, Idle
<1> QED BY <1>1, <1>2, InitType DEF IInv

(* A step that changes one computation and nothing else. *)
LEMMA OneJobIInv ==
    ASSUME IInv, Typed', NEW j \in Jobs, NEW q, Set(j, q), JobExact(q),
           save.stage = "idle" \/ q.stage \notin {"zones", "cache", "locked", "built"},
           UNCHANGED <<rows, cache, changed, published, save, clock>>
    PROVE  IInv'
<1>1. \A k \in Jobs : job'[k] = IF k = j THEN q ELSE job[k]
  BY DEF IInv, Typed, TypeOK, Set
<1>2. ASSUME NEW k \in Jobs PROVE JobExact(job[k])'
  <2>1. CASE k = j
    BY <1>1, <2>1 DEF JobExact, FreshTable, Districts
  <2>2. CASE k # j
    <3>1. job'[k] = job[k] /\ JobExact(job[k])
      BY <1>1, <2>2 DEF IInv
    <3> QED BY <3>1 DEF JobExact, FreshTable, Districts
  <2> QED BY <2>1, <2>2
<1>3. SaveExact'
  BY <1>1 DEF IInv, SaveExact, InTransaction
<1>4. FreshTable(cache)'
  BY DEF IInv, FreshTable
<1> QED BY <1>2, <1>3, <1>4 DEF IInv

LEMMA BeginIInv ==
    ASSUME ~Overlapping, IInv, NEW plan \in Plans, NEW dirty \in SUBSET Zones, Begin(plan, dirty),
           \A z \in Zones \ dirty : Members(plan, z) = Members(rows, z),
           dirty = {} => Members(plan, Null) = Members(rows, Null)
    PROVE  IInv'
<1>1. Typed'
  BY BeginType DEF IInv
<1>2. save'.stage = "open" /\ save'.rows = plan /\ save'.dirty = dirty
  BY DEF Begin, NoSave
<1>3. (\A j \in Jobs : ~InTransaction(j)) /\ UNCHANGED <<rows, cache, job>>
  BY DEF Begin
<1>4. SaveExact'
  BY <1>2, <1>3 DEF SaveExact, InTransaction
<1> QED BY <1>1, <1>3, <1>4 DEF IInv, FreshTable, JobExact, Districts

LEMMA SaveIInv == ASSUME ~Overlapping, IInv, NEW plan \in Plans, Save(plan) PROVE IInv'
BY BeginIInv, DirtyExact, DirtyType DEF Save, IInv, Typed, TypeOK

LEMMA ResetIInv == ASSUME ~Overlapping, IInv, Reset PROVE IInv'
<1>1. Zones = {} => Members(Nothing, Null) = Members(rows, Null)
  BY DEF IInv, Typed, TypeOK, Plans, Members, Nothing
<1> QED BY <1>1, BeginIInv, EmptyTypes DEF Reset

LEMMA EvictIInv == ASSUME IInv, Evict PROVE IInv'
<1>1. Typed'
  BY SaveStepType DEF IInv
<1>2. SaveExact'
  BY DEF IInv, Typed, TypeOK, SaveExact, Evict, InTransaction
<1> QED BY <1>1, <1>2 DEF IInv, Evict, FreshTable, JobExact, Districts

LEMMA CommitSaveIInv == ASSUME IInv, CommitSave PROVE IInv'
<1>1. Typed'
  BY SaveStepType DEF IInv
<1>2. rows' = save.rows /\ job' = job /\ save.stage = "evicted"
  BY DEF CommitSave
<1>3. \A j \in Jobs : ~InTransaction(j)
  BY <1>2 DEF IInv, SaveExact
<1>4. \A j \in Jobs : JobExact(job[j])'
  BY <1>2, <1>3 DEF JobExact, InTransaction
<1>5. FreshTable(cache)'
  <2>1. ASSUME NEW z \in Zones, cache'.zone[z] # {}
        PROVE  cache'.zone[z] = Members(rows', z)
    <3>1. z \notin save.evicted /\ cache'.zone[z] = cache.zone[z] /\ z \in Cached(cache)
      BY <2>1 DEF CommitSave, Cached
    <3>2. z \in Zones \ save.dirty
      BY <1>2, <3>1 DEF IInv, SaveExact
    <3> QED BY <1>2, <3>1, <3>2 DEF IInv, SaveExact, FreshTable
  <2>2. ASSUME cache'.rest # NoRest PROVE cache'.rest = Cardinality(Members(rows', Null))
    <3>1. ~save.rest /\ cache'.rest = cache.rest
      BY <2>2 DEF CommitSave
    <3>2. save.dirty = {}
      BY <1>2, <2>2, <3>1 DEF IInv, SaveExact
    <3> QED BY <1>2, <2>2, <3>1, <3>2 DEF IInv, SaveExact, FreshTable
  <2> QED BY <2>1, <2>2 DEF FreshTable, Cached
<1>6. SaveExact'
  BY DEF CommitSave, NoSave, SaveExact
<1> QED BY <1>1, <1>4, <1>5, <1>6 DEF IInv

LEMMA AbortSaveIInv == ASSUME IInv, AbortSave PROVE IInv'
<1>1. Typed'
  BY SaveStepType DEF IInv
<1>2. SaveExact'
  BY DEF AbortSave, NoSave, SaveExact
<1> QED BY <1>1, <1>2 DEF IInv, AbortSave, FreshTable, JobExact, Districts

LEMMA ReadZonesIInv == ASSUME ~Overlapping, IInv, NEW j \in Jobs, ReadZones(j) PROVE IInv'
<1> DEFINE q == [job[j] EXCEPT !.stage = "zones", !.zones = Districts]
<1>1. q.stage = "zones" /\ q.zones = Districts
  BY JobType DEF IInv, JobTypes
<1>2. JobExact(q)
  BY <1>1 DEF JobExact
<1>3. Typed' /\ Set(j, q)
  BY ReadZonesType DEF IInv, ReadZones, Districts
<1> HIDE DEF q
<1> QED BY <1>1, <1>2, <1>3, OneJobIInv DEF ReadZones

(* Inside a transaction no save is open. *)
LEMMA AloneInTransaction ==
    ASSUME IInv, NEW j \in Jobs, InTransaction(j) PROVE save.stage = "idle"
BY DEF IInv, SaveExact

LEMMA ReadCacheIInv == ASSUME IInv, NEW j \in Jobs, ReadCache(j) PROVE IInv'
<1> DEFINE q == [job[j] EXCEPT !.stage = "cache", !.seen = cache]
<1>1. q.stage = "cache" /\ q.zones = job[j].zones /\ q.seen = cache
  BY JobType DEF IInv, JobTypes
<1>2. JobExact(q)
  BY <1>1 DEF IInv, JobExact, ReadCache
<1>3. Typed' /\ Set(j, q) /\ save.stage = "idle"
  BY ReadCacheType, AloneInTransaction DEF IInv, ReadCache, InTransaction
<1> HIDE DEF q
<1> QED BY <1>2, <1>3, OneJobIInv DEF ReadCache

LEMMA AnswerFromCacheIInv ==
    ASSUME IInv, NEW j \in Jobs, AnswerFromCache(j)
    PROVE  IInv' /\ job'[j].result = Exact(rows) /\ job'[j].snap = job[j].snap
                 /\ job'[j].stage = "answered"
<1> DEFINE q == [job[j] EXCEPT !.stage = "answered", !.result = job[j].seen]
<1>1. /\ q.stage = "answered" /\ q.result = job[j].seen /\ q.snap = job[j].snap
      /\ job'[j] = q /\ job[j] \in JobTypes
  BY JobType DEF IInv, Typed, TypeOK, JobTypes, AnswerFromCache, Set
<1>2. JobExact(q)
  BY <1>1 DEF JobExact
<1>3. Typed' /\ Set(j, q)
  BY AnswerFromCacheType DEF IInv, AnswerFromCache
<1>4. IInv'
  <2> HIDE DEF q
  <2> QED BY <1>1, <1>2, <1>3, OneJobIInv DEF AnswerFromCache
<1>5. /\ FreshTable(job[j].seen) /\ Districts \subseteq Cached(job[j].seen)
      /\ job[j].seen.rest # NoRest
  BY DEF IInv, JobExact, AnswerFromCache, Complete, Missing
<1>6. job[j].seen \in Tables /\ rows \in Plans
  BY <1>1 DEF IInv, Typed, TypeOK, JobTypes
<1>7. job[j].seen.zone = Exact(rows).zone /\ job[j].seen.rest = Exact(rows).rest
  BY <1>5, <1>6, FreshTableExact DEF FreshTable, Exact
<1>8. job[j].seen = Exact(rows)
  BY <1>6, <1>7, ExactType DEF Tables
<1> QED BY <1>1, <1>4, <1>8

LEMMA LockIInv == ASSUME IInv, NEW j \in Jobs, Lock(j) PROVE IInv'
<1> DEFINE q == [job[j] EXCEPT !.stage = "locked", !.lock = TRUE, !.seen = cache]
<1>1. q.stage = "locked" /\ q.zones = job[j].zones /\ q.seen = cache
  BY JobType DEF IInv, JobTypes
<1>2. JobExact(q)
  BY <1>1 DEF IInv, JobExact, Lock
<1>3. Typed' /\ Set(j, q) /\ save.stage = "idle"
  BY LockType, AloneInTransaction DEF IInv, Lock, InTransaction
<1> HIDE DEF q
<1> QED BY <1>2, <1>3, OneJobIInv DEF Lock

LEMMA RebuildIInv == ASSUME IInv, NEW j \in Jobs, Rebuild(j) PROVE IInv'
<1> DEFINE built == [z \in Zones |-> IF z \in Missing(j) THEN Members(rows, z) ELSE {}]
           q     == [job[j] EXCEPT !.stage = "built", !.built = built]
<1>1. /\ q.stage = "built" /\ q.zones = job[j].zones /\ q.seen = job[j].seen
      /\ q.built = built
  BY JobType DEF IInv, JobTypes
<1>2. JobExact(q)
  BY <1>1 DEF IInv, JobExact, Rebuild, Missing
<1>3. Typed' /\ Set(j, q) /\ save.stage = "idle"
  BY RebuildType, AloneInTransaction DEF IInv, Rebuild, InTransaction
<1> HIDE DEF q
<1> QED BY <1>2, <1>3, OneJobIInv DEF Rebuild

(* The districts returned, from the cache and rebuilt, are those of the    *)
(* plan, and so is what they leave over.                                   *)
LEMMA CommitStatsIInv ==
    ASSUME IInv, NEW j \in Jobs, CommitStats(j)
    PROVE  IInv' /\ job'[j].result = Exact(rows) /\ job'[j].snap = job[j].snap
                 /\ job'[j].stage = "answered"
<1> DEFINE seen     == job[j].seen
           built    == job[j].built
           returned == [z \in Zones |-> IF built[z] # {} THEN built[z] ELSE seen.zone[z]]
           again    == seen.rest = NoRest \/ \E z \in Zones : built[z] # {}
           rest     == IF again THEN LeftOver(returned) ELSE seen.rest
           q        == [job[j] EXCEPT !.stage = "answered", !.lock = FALSE,
                                      !.result = [zone |-> returned, rest |-> rest]]
<1>1. /\ job[j] \in JobTypes /\ rows \in Plans /\ job[j].stage = "built"
      /\ job \in [Jobs -> JobTypes]
  BY DEF IInv, Typed, TypeOK, JobTypes, CommitStats
<1>2. /\ job[j].zones = Districts /\ FreshTable(seen)
      /\ \A z \in Zones : built[z] = IF z \in Districts \ Cached(seen) THEN Members(rows, z)
                                     ELSE {}
  BY <1>1 DEF IInv, JobExact
<1>3. \A z \in Zones : (IF built[z] # {} THEN built[z] ELSE seen.zone[z]) = Members(rows, z)
  BY <1>2 DEF FreshTable, Cached, Districts
<1>4. returned = [z \in Zones |-> Members(rows, z)]
  BY <1>3
<1>5. rest = Cardinality(Members(rows, Null))
  BY <1>1, <1>2, <1>4, LeftOverExact DEF FreshTable
<1>6. [zone |-> returned, rest |-> rest] = Exact(rows)
  BY <1>4, <1>5 DEF Exact
<1>7. /\ job' = [job EXCEPT ![j] = q] /\ q.stage = "answered" /\ q.result = Exact(rows)
      /\ q.snap = job[j].snap
  BY <1>1, <1>6 DEF CommitStats, Set, JobTypes
<1>8. /\ UNCHANGED <<rows, save>>
      /\ \A z \in Zones : cache'.zone[z] = IF cache.zone[z] = {} THEN built[z] ELSE cache.zone[z]
      /\ cache'.rest = IF again THEN rest ELSE cache.rest
  BY DEF CommitStats
<1> HIDE DEF q, rest, returned, again
<1>9. FreshTable(cache)'
  BY <1>2, <1>5, <1>8 DEF IInv, FreshTable, Cached
<1>10. save.stage = "idle"
  BY <1>1, AloneInTransaction DEF InTransaction
<1>11. SaveExact'
  BY <1>8, <1>10 DEF SaveExact
<1>12. \A k \in Jobs : JobExact(job[k])'
  BY <1>1, <1>7, <1>8 DEF IInv, JobExact, FreshTable, Districts
<1>13. Typed'
  BY CommitStatsType DEF IInv
<1> QED BY <1>1, <1>7, <1>9, <1>11, <1>12, <1>13 DEF IInv

LEMMA FinishIInv == ASSUME IInv, NEW j \in Jobs, Finish(j) PROVE IInv'
<1>1. JobExact(Idle) /\ Idle.stage = "idle"
  BY DEF JobExact, Idle
<1> QED BY <1>1, FinishType, OneJobIInv DEF IInv, Finish

LEMMA PublishIInv ==
    ASSUME IInv, NEW j \in Jobs, StartPublish(j) \/ Upload(j) \/ Stamp(j) PROVE IInv'
<1>1. Typed'
  BY PublishType DEF IInv
<1>2. PICK q : Set(j, q) /\ q.stage \in {"asked", "uploaded", "idle"}
  <2>1. /\ [Idle EXCEPT !.stage = "asked", !.snap = changed].stage = "asked"
        /\ [Idle EXCEPT !.stage = "uploaded", !.snap = job[j].snap,
                        !.lock = job[j].lock].stage = "uploaded"
        /\ Idle.stage = "idle"
    BY DEF Idle
  <2> QED BY <2>1 DEF StartPublish, Upload, Stamp
<1>3. JobExact(q) /\ UNCHANGED <<rows, cache, save>>
  BY <1>2 DEF JobExact, StartPublish, Upload, Stamp
<1>4. \A k \in Jobs : job'[k] = IF k = j THEN q ELSE job[k]
  BY <1>2 DEF IInv, Typed, TypeOK, Set
<1>5. ASSUME NEW k \in Jobs PROVE JobExact(job[k])'
  <2>1. CASE k = j
    BY <1>3, <1>4, <2>1 DEF JobExact, FreshTable, Districts
  <2>2. CASE k # j
    <3>1. job'[k] = job[k] /\ JobExact(job[k])
      BY <1>4, <2>2 DEF IInv
    <3> QED BY <1>3, <3>1 DEF JobExact, FreshTable, Districts
  <2> QED BY <2>1, <2>2
<1>6. SaveExact'
  BY <1>2, <1>3, <1>4 DEF IInv, SaveExact, InTransaction
<1> QED BY <1>1, <1>3, <1>5, <1>6 DEF IInv, FreshTable

LEMMA NextIInv == ASSUME ~Overlapping, IInv, [Next]_vars PROVE IInv'
<1>1. ASSUME NEW plan \in Plans, Save(plan) PROVE IInv'
  BY <1>1, SaveIInv
<1>2. CASE Reset
  BY <1>2, ResetIInv
<1>3. CASE Evict \/ CommitSave \/ AbortSave
  BY <1>3, EvictIInv, CommitSaveIInv, AbortSaveIInv
<1>4. ASSUME NEW j \in Jobs,
             \/ Request(j) \/ ReadCache(j) \/ AnswerFromCache(j) \/ Lock(j) \/ Rebuild(j)
             \/ CommitStats(j) \/ Finish(j)
             \/ StartPublish(j) \/ Compute(j) \/ Upload(j) \/ Stamp(j)
      PROVE  IInv'
  BY <1>4, ReadZonesIInv, ReadCacheIInv, AnswerFromCacheIInv, LockIInv, RebuildIInv,
     CommitStatsIInv, FinishIInv, PublishIInv DEF Request, Compute
<1>5. CASE UNCHANGED vars
  <2>1. Typed'
    BY <1>5, NextType DEF IInv
  <2> QED BY <1>5, <2>1
          DEF vars, IInv, FreshTable, SaveExact, JobExact, Districts, InTransaction
<1> QED BY <1>1, <1>2, <1>3, <1>4, <1>5 DEF Next

(* No cached row is stale and the unassigned row is exact, for any number  *)
(* of units, districts and computations (CacheFresh).                      *)
THEOREM CacheAlwaysFresh == ASSUME ~Overlapping PROVE Spec => []CacheFresh
<1>1. IInv => CacheFresh
  BY DEF IInv, FreshTable, CacheFresh, Exact
<1>2. IInv /\ [Next]_vars => IInv'
  BY NextIInv
<1> QED BY <1>1, <1>2, InitIInv, PTL DEF Spec

(* Every answer is of the plan as it is when it is made (AnswersExact).    *)
THEOREM AnswersAlwaysExact == ASSUME ~Overlapping PROVE Spec => AnswersExact
<1>1. IInv /\ [Next]_vars => IInv'
  BY NextIInv
<1>2. IInv => [\A j \in Jobs : AnswerFromCache(j) \/ CommitStats(j) =>
                                   job'[j].result = Exact(rows)]_vars
  BY AnswerFromCacheIInv, CommitStatsIInv
<1> QED BY <1>1, <1>2, InitIInv, PTL DEF Spec, AnswersExact

-----------------------------------------------------------------------------
(* The published object, when one task publishes                           *)

OnePublisher == \E p \in Jobs : Publishers = {p}

(* t is the time of a plan that was committed before any open save began.  *)
Past(t) == t <= clock /\ (save.stage # "idle" => t < save.start)

(* While a publication is under way the object is not taken for fresh;     *)
(* what it has computed or uploaded is of the plan, unless a save has moved *)
(* assignments_updated_at since it began.                                  *)
PublicationExact(j, q) ==
    /\ q.stage = "idle" => q.snap = Never
    /\ q.snap # Never =>
           /\ j \in Publishers /\ Past(q.snap) /\ ~CdnFresh
           /\ q.stage = "answered" /\ changed <= q.snap => q.result = Exact(rows)
           /\ q.stage = "uploaded" /\ changed <= q.snap => published.body = Exact(rows)

PublishedInv ==
    /\ Past(changed) /\ Past(published.stamp)
    /\ save.stage # "idle" => save.start <= clock
    /\ \A j \in Jobs : PublicationExact(j, job[j])
    /\ PublishedFresh

LEMMA InitPublished == Init => PublishedInv
BY DEF Init, PublishedInv, Past, PublicationExact, Idle, NoSave, PublishedFresh, CdnFresh, Never

LEMMA TimesAreNumbers ==
    ASSUME Typed
    PROVE  /\ changed \in Nat /\ clock \in Nat /\ published.stamp \in Nat
           /\ \A j \in Jobs : job[j].snap \in Nat
           /\ save.stage # "idle" => save.start \in Nat
BY DEF Typed, TypeOK, Stamps, Never

(* A step that changes one computation and nothing else. *)
LEMMA OneJobPublished ==
    ASSUME IInv, PublishedInv, NEW j \in Jobs, NEW q, Set(j, q), PublicationExact(j, q),
           UNCHANGED <<rows, cache, changed, published, save, clock>>
    PROVE  PublishedInv'
<1>1. \A k \in Jobs : job'[k] = IF k = j THEN q ELSE job[k]
  BY DEF IInv, Typed, TypeOK, Set
<1>2. ASSUME NEW k \in Jobs PROVE PublicationExact(k, job[k])'
  <2>1. PublicationExact(k, job'[k])
    BY <1>1 DEF PublishedInv
  <2> QED BY <2>1 DEF PublicationExact, Past, CdnFresh
<1> QED BY <1>2 DEF PublishedInv, Past, PublishedFresh, CdnFresh

LEMMA BeginPublished ==
    ASSUME IInv, PublishedInv, NEW plan, NEW dirty, Begin(plan, dirty) PROVE PublishedInv'
<1>1. save'.start = clock + 1 /\ clock' = clock + 1 /\ save.stage = "idle"
  BY DEF Begin, NoSave
<1>2. UNCHANGED <<rows, changed, published, job>>
  BY DEF Begin
<1>3. ASSUME NEW t \in Nat, Past(t) PROVE t <= clock' /\ t < save'.start
  BY <1>1, <1>3, TimesAreNumbers DEF IInv, Past
<1>4. Past(changed)' /\ Past(published.stamp)' /\ save'.start <= clock'
  BY <1>1, <1>2, <1>3, TimesAreNumbers DEF IInv, PublishedInv, Past
<1>5. ASSUME NEW k \in Jobs PROVE PublicationExact(k, job[k])'
  BY <1>2, <1>3, TimesAreNumbers DEF IInv, PublishedInv, PublicationExact, Past, CdnFresh
<1> QED BY <1>2, <1>4, <1>5 DEF PublishedInv, PublishedFresh, CdnFresh

LEMMA EvictPublished ==
    ASSUME IInv, PublishedInv, Evict \/ AbortSave PROVE PublishedInv'
<1>1. save'.stage # "idle" => save'.start = save.start /\ save.stage # "idle"
  <2>1. CASE Evict
    <3>1. save \in SaveTypes
      BY DEF IInv, Typed, TypeOK, SaveTypes
    <3> QED BY <2>1, <3>1 DEF Evict, SaveTypes
  <2>2. CASE AbortSave
    BY <2>2 DEF AbortSave, NoSave
  <2> QED BY <2>1, <2>2
<1>2. UNCHANGED <<rows, changed, published, job, clock>>
  BY DEF Evict, AbortSave
<1>3. ASSUME NEW k \in Jobs PROVE PublicationExact(k, job[k])'
  BY <1>1, <1>2 DEF PublishedInv, PublicationExact, Past, CdnFresh
<1> QED BY <1>1, <1>2, <1>3 DEF PublishedInv, Past, PublishedFresh, CdnFresh

(* A save that changes anything is later than every stamp. *)
LEMMA CommitSavePublished == ASSUME IInv, PublishedInv, CommitSave PROVE PublishedInv'
<1>1. /\ save.stage = "evicted" /\ save'.stage = "idle" /\ rows' = save.rows
      /\ changed' = IF save.dirty # {} THEN save.start ELSE changed
      /\ UNCHANGED <<published, job, clock>>
  BY DEF CommitSave, NoSave
<1>2. save.dirty = {} => Exact(rows') = Exact(rows)
  BY <1>1 DEF IInv, SaveExact, Exact
<1>3. ASSUME NEW t \in Nat, Past(t)
      PROVE  /\ t <= clock /\ changed <= changed'
             /\ changed' <= t => changed <= t /\ Exact(rows') = Exact(rows)
  <2>1. t < save.start /\ changed < save.start
    BY <1>1, <1>3 DEF PublishedInv, Past
  <2>2. CASE save.dirty = {}
    BY <1>1, <1>2, <1>3, <2>2, TimesAreNumbers DEF IInv, Past
  <2>3. CASE save.dirty # {}
    BY <1>1, <1>3, <2>1, <2>3, TimesAreNumbers DEF IInv, Past
  <2> QED BY <2>2, <2>3
<1>4. Past(changed)' /\ Past(published.stamp)'
  BY <1>1, <1>3, TimesAreNumbers DEF IInv, PublishedInv, Past
<1>5. CdnFresh' => CdnFresh /\ Exact(rows') = Exact(rows)
  BY <1>1, <1>3, TimesAreNumbers DEF IInv, PublishedInv, CdnFresh
<1>6. ASSUME NEW k \in Jobs PROVE PublicationExact(k, job[k])'
  <2>1. PublicationExact(k, job[k]) /\ job[k].snap \in Nat
    BY TimesAreNumbers DEF IInv, PublishedInv
  <2>2. job[k].snap # Never => Past(job[k].snap)' /\ ~CdnFresh'
    BY <1>1, <1>3, <1>5, <2>1 DEF PublicationExact, Past
  <2> QED BY <1>1, <1>3, <2>1, <2>2 DEF PublicationExact
<1> QED BY <1>1, <1>4, <1>5, <1>6 DEF PublishedInv, PublishedFresh

(* Steps of a computation before its answer. *)
LEMMA WorkPublished ==
    ASSUME IInv, PublishedInv, NEW j \in Jobs,
           Request(j) \/ Compute(j) \/ ReadCache(j) \/ Lock(j) \/ Rebuild(j)
    PROVE  PublishedInv'
<1>1. PICK q : /\ Set(j, q) /\ q.snap = job[j].snap
               /\ q.stage \in {"zones", "cache", "locked", "built"}
  <2>1. job[j] \in JobTypes
    BY JobType DEF IInv
  <2>2. /\ [job[j] EXCEPT !.stage = "zones", !.zones = Districts].snap = job[j].snap
        /\ [job[j] EXCEPT !.stage = "zones", !.zones = Districts].stage = "zones"
    BY <2>1 DEF JobTypes
  <2>3. /\ [job[j] EXCEPT !.stage = "cache", !.seen = cache].snap = job[j].snap
        /\ [job[j] EXCEPT !.stage = "cache", !.seen = cache].stage = "cache"
    BY <2>1 DEF JobTypes
  <2>4. /\ [job[j] EXCEPT !.stage = "locked", !.lock = TRUE, !.seen = cache].snap = job[j].snap
        /\ [job[j] EXCEPT !.stage = "locked", !.lock = TRUE, !.seen = cache].stage = "locked"
    BY <2>1 DEF JobTypes
  <2>5. ASSUME NEW built
        PROVE  /\ [job[j] EXCEPT !.stage = "built", !.built = built].snap = job[j].snap
               /\ [job[j] EXCEPT !.stage = "built", !.built = built].stage = "built"
    BY <2>1 DEF JobTypes
  <2>6. CASE Request(j) \/ Compute(j)
    BY <2>2, <2>6 DEF Request, Compute, ReadZones, Districts
  <2>7. CASE ReadCache(j)
    BY <2>3, <2>7 DEF ReadCache
  <2>8. CASE Lock(j)
    BY <2>4, <2>8 DEF Lock
  <2>9. CASE Rebuild(j)
    BY <2>5, <2>9 DEF Rebuild
  <2> QED BY <2>6, <2>7, <2>8, <2>9
<1>2. UNCHANGED <<rows, cache, changed, published, save, clock>>
  BY DEF Request, Compute, ReadZones, ReadCache, Lock, Rebuild
<1>3. PublicationExact(j, q)
  BY <1>1 DEF PublishedInv, PublicationExact
<1> QED BY <1>1, <1>2, <1>3, OneJobPublished

LEMMA AnswerPublished ==
    ASSUME IInv, PublishedInv, NEW j \in Jobs, AnswerFromCache(j) \/ CommitStats(j)
    PROVE  PublishedInv'
<1>1. /\ job'[j].result = Exact(rows) /\ job'[j].snap = job[j].snap
      /\ job'[j].stage = "answered"
  BY AnswerFromCacheIInv, CommitStatsIInv
<1>2. /\ UNCHANGED <<rows, changed, published, save, clock>>
      /\ \A k \in Jobs \ {j} : job'[k] = job[k]
  BY DEF IInv, Typed, TypeOK, AnswerFromCache, CommitStats, Set
<1>3. ASSUME NEW k \in Jobs PROVE PublicationExact(k, job[k])'
  <2>1. PublicationExact(k, job[k])
    BY DEF PublishedInv
  <2>2. CASE k = j
    BY <1>1, <1>2, <2>1, <2>2 DEF PublicationExact, Past, CdnFresh
  <2>3. CASE k # j
    BY <1>2, <2>1, <2>3 DEF PublicationExact, Past, CdnFresh
  <2> QED BY <2>2, <2>3
<1> QED BY <1>2, <1>3 DEF PublishedInv, Past, PublishedFresh, CdnFresh

LEMMA EndPublished ==
    ASSUME IInv, PublishedInv, NEW j \in Jobs, Finish(j) \/ StartPublish(j) PROVE PublishedInv'
<1>1. CASE Finish(j)
  <2>1. PublicationExact(j, Idle)
    BY DEF PublicationExact, Idle
  <2> QED BY <1>1, <2>1, OneJobPublished DEF Finish
<1>2. CASE StartPublish(j)
  <2> DEFINE q == [Idle EXCEPT !.stage = "asked", !.snap = changed]
  <2>1. q.stage = "asked" /\ q.snap = changed
    BY DEF Idle
  <2>2. PublicationExact(j, q)
    BY <1>2, <2>1 DEF PublicationExact, PublishedInv, StartPublish
  <2> HIDE DEF q
  <2>3. Set(j, q)
    BY <1>2 DEF StartPublish, q
  <2> QED BY <1>2, <2>2, <2>3, OneJobPublished DEF StartPublish
<1> QED BY <1>1, <1>2

LEMMA UploadPublished ==
    ASSUME OnePublisher, IInv, PublishedInv, NEW j \in Jobs, Upload(j) \/ Stamp(j)
    PROVE  PublishedInv'
<1>1. CASE Upload(j)
  <2>1. job[j].stage = "answered" /\ job[j].snap # Never /\ PublicationExact(j, job[j])
    BY <1>1 DEF Upload, PublishedInv
  <2>2. \A k \in Jobs \ {j} : job'[k] = job[k] /\ job[k].snap = Never
    BY <1>1, <2>1 DEF Upload, Set, OnePublisher, PublishedInv, PublicationExact,
                      IInv, Typed, TypeOK
  <2>3. job'[j].stage = "uploaded" /\ job'[j].snap = job[j].snap
    BY <1>1 DEF Upload, Set, Idle, IInv, Typed, TypeOK
  <2>4. /\ UNCHANGED <<rows, changed, save, clock>>
        /\ published'.stamp = published.stamp /\ published'.body = job[j].result
    BY <1>1 DEF Upload, IInv, Typed, TypeOK
  <2>5. ~CdnFresh'
    BY <2>1, <2>4 DEF PublicationExact, CdnFresh
  <2>6. PublicationExact(j, job[j])'
    BY <2>1, <2>3, <2>4, <2>5 DEF PublicationExact, Past
  <2>7. ASSUME NEW k \in Jobs \ {j} PROVE PublicationExact(k, job[k])'
    BY <2>2 DEF PublicationExact
  <2> QED BY <2>4, <2>5, <2>6, <2>7 DEF PublishedInv, Past, PublishedFresh
<1>2. CASE Stamp(j)
  <2>1. job[j].stage = "uploaded" /\ PublicationExact(j, job[j])
    BY <1>2 DEF Stamp, PublishedInv
  <2>2. UNCHANGED <<rows, changed, save, clock>> /\ job'[j] = Idle
    BY <1>2 DEF Stamp, Set, IInv, Typed, TypeOK
  <2>3. published'.stamp = job[j].snap /\ published'.body = published.body
    BY <1>2 DEF Stamp, StampOf, IInv, Typed, TypeOK
  <2>4. CASE job[j].snap = Never
    <3>1. ~CdnFresh' /\ Past(published.stamp)'
      BY <2>2, <2>3, <2>4, TimesAreNumbers DEF IInv, CdnFresh, Past, PublishedInv, Never
    <3>2. ASSUME NEW k \in Jobs PROVE PublicationExact(k, job[k])'
      <4>1. CASE k = j
        BY <2>2, <4>1 DEF PublicationExact, Idle
      <4>2. CASE k # j
        <5>1. job'[k] = job[k] /\ PublicationExact(k, job[k])
          BY <1>2, <4>2 DEF Stamp, Set, PublishedInv, IInv, Typed, TypeOK
        <5> QED BY <2>2, <2>3, <3>1, <5>1 DEF PublicationExact, Past
      <4> QED BY <4>1, <4>2
    <3> QED BY <2>2, <3>1, <3>2 DEF PublishedInv, Past, PublishedFresh
  <2>5. CASE job[j].snap # Never
    <3>1. \A k \in Jobs \ {j} : job'[k] = job[k] /\ job[k].snap = Never
      BY <1>2, <2>1, <2>5 DEF Stamp, Set, OnePublisher, PublishedInv, PublicationExact,
                              IInv, Typed, TypeOK
    <3>2. Past(published.stamp)' /\ PublishedFresh'
      BY <2>1, <2>2, <2>3, <2>5 DEF PublicationExact, Past, PublishedFresh, CdnFresh
    <3>3. ASSUME NEW k \in Jobs PROVE PublicationExact(k, job[k])'
      BY <2>2, <3>1 DEF PublicationExact, Idle
    <3> QED BY <2>2, <3>2, <3>3 DEF PublishedInv, Past
  <2> QED BY <2>4, <2>5
<1> QED BY <1>1, <1>2

LEMMA NextPublished ==
    ASSUME OnePublisher, IInv, PublishedInv, [Next]_vars PROVE PublishedInv'
<1>1. CASE (\E plan \in Plans : Save(plan)) \/ Reset
  BY <1>1, BeginPublished DEF Save, Reset
<1>2. CASE Evict \/ CommitSave \/ AbortSave
  BY <1>2, EvictPublished, CommitSavePublished
<1>3. ASSUME NEW j \in Jobs,
             \/ Request(j) \/ ReadCache(j) \/ AnswerFromCache(j) \/ Lock(j) \/ Rebuild(j)
             \/ CommitStats(j) \/ Finish(j)
             \/ StartPublish(j) \/ Compute(j) \/ Upload(j) \/ Stamp(j)
      PROVE  PublishedInv'
  BY <1>3, WorkPublished, AnswerPublished, EndPublished, UploadPublished
<1>4. CASE UNCHANGED vars
  BY <1>4 DEF vars, PublishedInv, PublicationExact, Past, PublishedFresh, CdnFresh
<1> QED BY <1>1, <1>2, <1>3, <1>4 DEF Next

(* A reader sent to the CDN gets the statistics of the plan as it is, if   *)
(* one task at a time publishes (PublishedFresh).                          *)
THEOREM PublishedAlwaysFresh ==
    ASSUME ~Overlapping, OnePublisher PROVE Spec => []PublishedFresh
<1>1. (IInv /\ PublishedInv) /\ [Next]_vars => (IInv /\ PublishedInv)'
  BY NextIInv, NextPublished
<1>2. Init => IInv /\ PublishedInv
  BY InitIInv, InitPublished
<1>3. PublishedInv => PublishedFresh
  BY DEF PublishedInv
<1> QED BY <1>1, <1>2, <1>3, PTL DEF Spec
=============================================================================
