--------------------------- MODULE DistrictStats ----------------------------
(***************************************************************************)
(* The cached statistics of one plan: the rows of document.district_unions *)
(* (one per district, and one for what is unassigned), which a save evicts *)
(* and a reader rebuilds, and the copy published to the CDN, which readers *)
(* are sent to while its timestamp says that it is fresh.                  *)
(***************************************************************************)
EXTENDS Integers, FiniteSets

CONSTANTS
    Units,       \* geographies, each of weight one
    Zones,       \* districts
    Null,        \* the zone of an unassigned geography
    Jobs,        \* computations of the statistics: requests, publish tasks
    Publishers,  \* the jobs that may be publish tasks
    MaxClock,    \* bound on the transaction timestamps
    Overlapping  \* whether a save may commit while a job's transaction is open

ASSUME StatsAssumption ==
    /\ IsFiniteSet(Units) /\ IsFiniteSet(Zones)
    /\ Null \notin Zones
    /\ Publishers \subseteq Jobs
    /\ MaxClock \in Nat \ {0}
    /\ Overlapping \in BOOLEAN

VARIABLES
    rows,       \* document.assignments
    cache,      \* document.district_unions
    changed,    \* document.assignments_updated_at
    published,  \* the object on the CDN, and document.stats_published_at
    save,       \* the transaction of a save or a reset
    job,        \* every computation
    clock

vars == <<rows, cache, changed, published, save, job, clock>>

Stamps  == 1..MaxClock
Never   == 0     \* stats_published_at before the first publication
NoRest  == -1    \* the unassigned row is not cached
Plans   == [Units -> Zones \cup {Null}]
Nothing == [u \in Units |-> Null]

(* What the rows of the cache say: the units a district was computed from  *)
(* (none: it has no row) and the weight that was left unassigned.          *)
Tables     == [zone: [Zones -> SUBSET Units], rest: {NoRest} \cup 0..Cardinality(Units)]
EmptyTable == [zone |-> [z \in Zones |-> {}], rest |-> NoRest]

Members(plan, z) == {u \in Units : plan[u] = z}
Cached(table)    == {z \in Zones : table.zone[z] # {}}

(* Every district that has units, computed from the plan as it is. *)
Exact(plan) == [zone |-> [z \in Zones |-> Members(plan, z)],
                rest |-> Cardinality(Members(plan, Null))]

Idle   == [stage |-> "idle", lock |-> FALSE, snap |-> Never, zones |-> {}, seen |-> EmptyTable,
           built |-> [z \in Zones |-> {}], result |-> EmptyTable]
NoSave == [stage |-> "idle", start |-> Never, rows |-> Nothing, dirty |-> {}, evicted |-> {},
           rest |-> FALSE]

Init ==
    /\ rows = Nothing
    /\ cache = EmptyTable
    /\ changed = 1
    /\ published = [body |-> EmptyTable, stamp |-> Never]
    /\ save = NoSave
    /\ job = [j \in Jobs |-> Idle]
    /\ clock = 1

-----------------------------------------------------------------------------
(* Saves, one after another *)

InTransaction(j) == job[j].stage \in {"zones", "cache", "locked", "built"}

(* Bug: no row is the unassigned one's. *)
DirtyWithNull(old, new) ==
    {old[u] : u \in {v \in Units : old[v] # new[v]}} \cup {new[u] : u \in {v \in Units : old[v] # new[v]}}

(* Bug: only the districts that lose a unit. *)
DirtyLosing(old, new) == {old[u] : u \in {v \in Units : old[v] # new[v]}} \ {Null}

(* The districts that lose or gain a unit. *)
Dirty(old, new) == ({old[u] : u \in {v \in Units : old[v] # new[v]}}
                      \cup {new[u] : u \in {v \in Units : old[v] # new[v]}}) \ {Null}

(* now() is the start of the transaction. *)
Begin(plan, dirty) ==
    /\ save.stage = "idle"
    /\ Overlapping \/ \A j \in Jobs : ~InTransaction(j)
    /\ clock < MaxClock /\ clock' = clock + 1
    /\ save' = [NoSave EXCEPT !.stage = "open", !.start = clock + 1,
                              !.rows = plan, !.dirty = dirty]
    /\ UNCHANGED <<rows, cache, changed, published, job>>

Save(plan) == Begin(plan, Dirty(rows, plan))

(* reset_map drops every cached row. *)
Reset == Begin(Nothing, Zones)

(* DELETE sees the cached rows that are committed when it runs. *)
Evict ==
    /\ save.stage = "open"
    /\ save' = [save EXCEPT !.stage = "evicted",
                            !.evicted = save.dirty \cap Cached(cache),
                            !.rest = save.dirty # {} /\ cache.rest # NoRest]
    /\ UNCHANGED <<rows, cache, changed, published, job, clock>>

CommitSave ==
    /\ save.stage = "evicted"
    /\ rows' = save.rows
    /\ cache' = [zone |-> [z \in Zones |-> IF z \in save.evicted THEN {} ELSE cache.zone[z]],
                 rest |-> IF save.rest THEN NoRest ELSE cache.rest]
    /\ changed' = IF save.dirty # {} THEN save.start ELSE changed
    /\ save' = NoSave
    /\ UNCHANGED <<published, job, clock>>

AbortSave ==
    /\ save.stage # "idle"
    /\ save' = NoSave
    /\ UNCHANGED <<rows, cache, changed, published, job, clock>>

-----------------------------------------------------------------------------
(* update_or_select_district_stats: one transaction, a snapshot per        *)
(* statement                                                               *)

Set(j, rec) == job' = [job EXCEPT ![j] = rec]

(* SELECT DISTINCT zone *)
ReadZones(j) ==
    /\ Overlapping \/ save.stage = "idle"
    /\ Set(j, [job[j] EXCEPT !.stage = "zones",
                             !.zones = {z \in Zones : Members(rows, z) # {}}])
    /\ UNCHANGED <<rows, cache, changed, published, save, clock>>

Request(j) == job[j].stage = "idle" /\ ReadZones(j)

ReadCache(j) ==
    /\ job[j].stage = "zones"
    /\ Set(j, [job[j] EXCEPT !.stage = "cache", !.seen = cache])
    /\ UNCHANGED <<rows, cache, changed, published, save, clock>>

Missing(j)  == job[j].zones \ Cached(job[j].seen)

(* Bug: the unassigned row is forgotten. *)
CompleteDistricts(j) == Missing(j) = {}

Complete(j) == Missing(j) = {} /\ job[j].seen.rest # NoRest

(* Every district is cached, and so is the unassigned row. *)
AnswerFromCache(j) ==
    /\ job[j].stage \in {"cache", "locked"} /\ Complete(j)
    /\ Set(j, [job[j] EXCEPT !.stage = "answered", !.result = job[j].seen])
    /\ UNCHANGED <<rows, cache, changed, published, save, clock>>

(* The advisory lock is held to the end of the transaction; the cache is   *)
(* read again under it.                                                    *)
Lock(j) ==
    /\ job[j].stage = "cache" /\ Missing(j) # {}
    /\ \A k \in Jobs : ~job[k].lock
    /\ Set(j, [job[j] EXCEPT !.stage = "locked", !.lock = TRUE, !.seen = cache])
    /\ UNCHANGED <<rows, cache, changed, published, save, clock>>

(* INSERT ... SELECT of the missing districts, from the rows as they are   *)
(* when it runs.                                                           *)
Rebuild(j) ==
    /\ job[j].stage = "locked" \/ (job[j].stage = "cache" /\ Missing(j) = {})
    /\ ~Complete(j)
    /\ Set(j, [job[j] EXCEPT !.stage = "built",
                             !.built = [z \in Zones |-> IF z \in Missing(j) THEN Members(rows, z)
                                                        ELSE {}]])
    /\ UNCHANGED <<rows, cache, changed, published, save, clock>>

Weight(zone) == Cardinality({p \in Zones \X Units : p[2] \in zone[p[1]]})
LeftOver(zone) == IF Weight(zone) >= Cardinality(Units) THEN 0
                  ELSE Cardinality(Units) - Weight(zone)

(* The unassigned row is made again, from the rows the job returns, when a *)
(* district was rebuilt or when there was none; its DELETE waits for a     *)
(* save that is deleting it.                                               *)
CommitStats(j) ==
    /\ job[j].stage = "built"
    /\ LET seen     == job[j].seen
           built    == job[j].built
           returned == [z \in Zones |-> IF built[z] # {} THEN built[z] ELSE seen.zone[z]]
           again    == seen.rest = NoRest \/ \E z \in Zones : built[z] # {}
           rest     == IF again THEN LeftOver(returned) ELSE seen.rest
       IN /\ again => ~save.rest
          /\ cache' = [zone |-> [z \in Zones |-> IF cache.zone[z] = {} THEN built[z]
                                                 ELSE cache.zone[z]],
                       rest |-> IF again THEN rest ELSE cache.rest]
          /\ Set(j, [job[j] EXCEPT !.stage = "answered", !.lock = FALSE,
                                   !.result = [zone |-> returned, rest |-> rest]])
    /\ UNCHANGED <<rows, changed, published, save, clock>>

(* The end of a request, or an error or a crash of any job. *)
Finish(j) ==
    /\ job[j].stage # "idle"
    /\ Set(j, Idle)
    /\ UNCHANGED <<rows, cache, changed, published, save, clock>>

-----------------------------------------------------------------------------
(* publish_district_stats_to_s3 *)

CdnFresh == published.stamp # Never /\ published.stamp >= changed

StartPublish(j) ==
    /\ j \in Publishers /\ job[j].stage = "idle"
    /\ ~CdnFresh
    /\ Set(j, [Idle EXCEPT !.stage = "asked", !.snap = changed])
    /\ UNCHANGED <<rows, cache, changed, published, save, clock>>

Compute(j) == job[j].stage = "asked" /\ ReadZones(j)

Upload(j) ==
    /\ job[j].stage = "answered" /\ job[j].snap # Never
    /\ published' = [published EXCEPT !.body = job[j].result]
    /\ Set(j, [Idle EXCEPT !.stage = "uploaded", !.snap = job[j].snap, !.lock = job[j].lock])
    /\ UNCHANGED <<rows, cache, changed, save, clock>>

(* Bug: assignments_updated_at is read when the upload is done. *)
StampNow(j) == changed

(* assignments_updated_at as it was before the computation. *)
StampOf(j) == job[j].snap

Stamp(j) ==
    /\ job[j].stage = "uploaded"
    /\ published' = [published EXCEPT !.stamp = StampOf(j)]
    /\ Set(j, Idle)
    /\ UNCHANGED <<rows, cache, changed, save, clock>>

-----------------------------------------------------------------------------
Next ==
    \/ \E plan \in Plans : Save(plan)
    \/ Reset \/ Evict \/ CommitSave \/ AbortSave
    \/ \E j \in Jobs :
          \/ Request(j) \/ ReadCache(j) \/ AnswerFromCache(j) \/ Lock(j) \/ Rebuild(j)
          \/ CommitStats(j) \/ Finish(j)
          \/ StartPublish(j) \/ Compute(j) \/ Upload(j) \/ Stamp(j)

Spec == Init /\ [][Next]_vars

-----------------------------------------------------------------------------
(* Every variable keeps its shape. *)
TypeOK ==
    /\ rows \in Plans
    /\ cache \in Tables
    /\ changed \in Stamps /\ clock \in Stamps
    /\ published \in [body: Tables, stamp: Stamps \cup {Never}]
    /\ save \in [stage: {"idle", "open", "evicted"}, start: Stamps \cup {Never}, rows: Plans,
                 dirty: SUBSET Zones, evicted: SUBSET Zones, rest: BOOLEAN]
    /\ job \in [Jobs -> [stage: {"idle", "asked", "zones", "cache", "locked", "built",
                                 "answered", "uploaded"},
                         lock: BOOLEAN, snap: Stamps \cup {Never}, zones: SUBSET Zones,
                         seen: Tables,
                         built: [Zones -> SUBSET Units], result: Tables]]

(* "Any row that survives here is fresh" (update_or_select_district_stats):*)
(* a cached row says what the plan says, and an empty district has none.   *)
CacheFresh ==
    /\ \A z \in Cached(cache) : cache.zone[z] = Members(rows, z)
    /\ cache.rest # NoRest => cache.rest = Exact(rows).rest

(* "Edit-mode reads always compute inline so the editor never sees stale   *)
(* data" (get_document_stats).                                             *)
AnswersExact ==
    [][\A j \in Jobs : AnswerFromCache(j) \/ CommitStats(j) => job'[j].result = Exact(rows)]_vars

(* A reader is sent to the CDN when the object "is at least as fresh as    *)
(* the document's assignments" (get_document_stats), however the steps of  *)
(* a publication and the saves interleave.                                 *)
PublishedFresh == CdnFresh => published.body = Exact(rows)
=============================================================================
