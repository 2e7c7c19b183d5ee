# Districtr: a TLA+ model of the district editor, its stores and its server

Districtr is a web application in which people draw electoral districts or communities of
interest. A user paints geographies (VTDs, counties, or the census blocks inside them) with the
number of a district or the colour of a community; the browser keeps the plan in Zustand stores
with undo and redo, copies it to IndexedDB, and saves it to a FastAPI and PostgreSQL backend that
other browsers may be saving to as well. The backend derives statistics and metrics from the
plan, caches and publishes them, moderates comments, and makes new documents from files.

This directory holds TLA+ specifications of the parts that decide whether a plan stays correct,
the TLC configurations that check them on small instances, and proofs that TLAPS checks for
every instance. Definitions carry the names of the source where TLA+ allows it. Paths below are
relative to `src/app/src/app/` (the frontend, `app:`) and `src/backend/app/` (`backend:`).

## 1. The system

| Component | State | Operations | Interacts with | Correct when | Module |
|---|---|---|---|---|---|
| District assignments store (`app:store/assignmentsStore.ts`) and undo recorder (`middlewareConfig.ts`, `temporalStore.ts`) | `zoneAssignments`, `shatterIds`, `parentToChild`, `childToParent`, `accumulatedAssignments`, `pendingShatterUndoState`, `clientLastUpdated`; `pastStates`, `futureStates`, `isTracking` | stage paint, end of a stroke, break, heal, undo, redo, remove districts, ingest | map store, IndexedDB, save endpoint | no unit is counted twice; breaking and healing do not change zones; each stroke is one undo step | DistrictEditor, PlanHistory |
| Communities store (`app:store/coiAssignmentsStore.ts`, community list in `mapStore.ts`) | `communityAssignments` (overlapping), the same shatter collections, `community_metadata_list`, the history | strokes, breaks and heals, add, rename and remove communities, undo, redo, save, conflict, reload | map store, IndexedDB, save endpoint | no block is twice in a community; no assignment without its community | CommunityEditor |
| Map store (`app:store/mapStore.ts`) | document metadata, `mapLock`, block view (`captiveIds`, `focusFeatures`) | `handleShatter`, `exitBlockView`, `setNumDistricts`, `handleReset`, list of communities | both assignment stores, API | a lock is released; nothing read before an await is used stale | DistrictEditor, CommunityEditor |
| Map interaction (`utils/events`, `filterFeatures`, `ContextMenu`, hotkeys) | painting or not | brush, break tool, undo/redo keys | stores | only visible geographies are painted | DistrictEditor, CommunityEditor |
| Local store (`app:utils/idb/idb.ts`, `migrateUserMaps.ts`) | one record per document: metadata, rows, `clientLastUpdated`; `pendingUpdate`; the database's queue | debounced and immediate writes, metadata read-modify-writes, flush, switching documents, deleting, migration | all of the above | the record ends up as what the tab showed; nothing older replaces it | LocalStore |
| Saving and loading (`putUpdateAssignmentsAndVerify`, `fetchDocument`, `handlePutAssignments`, `useAutoSave`, conflict dialogs) | the version a tab started from | guarded PUT, read-back, four conflict resolutions, offline opening, automatic save | IndexedDB, endpoint | the indicator is dark only if the server has the plan | DocumentSave, DistrictEditor |
| `PUT /api/assignments`, reset (`backend:main.py`) | `document.assignments`, `updated_at`, `assignments_updated_at` | check, delete, insert, evict, commit | statistics, comments | nobody overwrites anybody silently | DocumentSave, DistrictStats |
| Statistics and CDN (`backend:utils.py`, `/stats`) | `document.district_unions`, `stats_published_at`, the S3 object | rebuild, evict, publish | save | a cached row or a published object is of the current plan | DistrictStats |
| Evaluation (`backend:evaluation`) | `document.evaluation`, an advisory lock | look up, wait, compute, store | statistics, save | an envelope that counts as fresh is of the current plan; a hung request blocks no other | Evaluation |
| Metrics and contiguity (`backend:evaluation/validity.py`, `compactness.py`, `contiguity`) | none | cut edges, counts of units, contiguity on two levels | graph built by the pipelines | they say of parents and blocks what they say on blocks alone | PlanMetrics |
| Import (`backend:assignments`) | rows of a new document | remap labels, heal blocks, fill parents | - | the document says what the file says | PlanImport |
| Comments and moderation (`backend:comments`) | comments, commenters, tags, scores; background tasks | save by id, copy, forms, score, review, list | save | the public sees nothing that moderation held back; a save changes its own comments only | DocumentComments |
| Share links, sessions, CMS, thumbnails, exports, workers, rendering, pipelines, infrastructure | - | - | - | - | not modelled (section 6) |

What is hard here: handlers that await and then use, or ask again for, the stores; a save that
runs while the user goes on; two timestamps (the tab's and the record's) whose equality with the
server's is all that says "saved"; a recorder that must not see a break as an edit; records that
are read, changed and written back by several handlers beside a debounced write; READ COMMITTED
transactions that check first and write later; answers that get lost; caches that are rebuilt
while they are evicted, behind locks that end with the first commit; background tasks that score
a text which is being replaced; plans stored on two geographic levels at once. PROJECT.json lists
each such place under `hazards` with the properties that watch it.

## 2. The modules

Several modules have a constant that names gestures or coincidences which the code does not
prevent and under which some property fails: `Allowed` (DistrictEditor, CommunityEditor,
LocalStore, DocumentComments) and `Overlapping` (DocumentSave, DistrictStats, Evaluation). The runs
say which of them happen; section 5 says what each of them breaks. They are preconditions of the
results, not facts about the program.

Definitions that begin with the comment "Bug:" belong to no specification. Each is a variant of
the definition after it with a plausible programming error; PROJECT.json (`mutants`) pairs it
with the property that notices.

### DistrictEditor (one browser tab)

`doc` is the part of the store that the recorder tracks; `za` is `zoneAssignments`, `clu` is
`clientLastUpdated`. `pending`, `past`, `future`, `tracking` are the recorder, `staged` the paint
of the stroke in progress, `captive` and `focus` the block view, `request` and `locked` the
request in flight and `mapLock`, `local` the record in IndexedDB, and `server` the document's row
and assignments.

| Action | Code |
|---|---|
| `Stage`, `Flush` | `mutateZoneAssignments`; `ingestAccumulatedAssignments` when painting ends |
| `StartBreak`, `BreakDone`, `BreakFails` | `handleShatter` up to its await, after it, and when it returns early |
| `ExitBlockView` | `exitBlockView`: ingest, then heal the focused parent |
| `Undo`, `Redo` | `useTemporalStore`, zundo, and the immediate write to IndexedDB |
| `SetNumDistricts`, `DecreaseDistricts` | `setNumDistricts`; the minus button with `removeAssignmentsForZonesAbove` |
| `StartSave`, `AutoSave`, `SaveDone`, `RequestFails` | `handlePutAssignments`, `useAutoSave`, `putUpdateAssignmentsAndVerify` |
| `StartRevert`, `RevertDone` | `handleRevert`, `ingestFromDocument` |
| `StartReset`, `ResetDone`, `ResetFails` | `handleReset`, `reset_map` |
| `Reload` | page load: `fetchDocument` from the record, `ingestFromDocument` |

`Diff`, `Push` and `Record` are `temporalDiff` and the zundo library around it; `Broken` and
`Healed` are the data part of a break and a heal. `Effective` is what a plan means: the zone of
every unit, its own or its parent's. Most properties are stated through it.

*Gestures.* Painting interrupted by a hotkey (`mid_stroke`), undo during a request
(`mid_request`), breaking a broken parent again (`rebreak`), the minus button (`decrease`), a
reset (`reset`), an automatic save in the middle of a stroke (`autosave`). The `editor` run has
none of them, `editor_gestures` all but `mid_stroke`.

*Abstractions.* Timestamps are counters; only their equality matters to a tab. The end of a
stroke writes IndexedDB at once (LocalStore has the 500 ms and what happens in them). A save or a
revert is atomic at the server here; DocumentSave takes it apart. One request at a time. While
the map is locked there are no pointer events (`pointer-events-none`, and after 150 ms the
loading overlay over the page), but hotkeys, the end of a stroke and an automatic save still
happen. A stroke has one zone. A reload happens between requests.

*PlanHistory* is the abstract specification: a plan over units, edits, undo and redo stacks, what
is saved. Breaking, healing, the pending snapshot, requests and locks do not exist there.
`DistrictEditor!Promise` is the refinement mapping and `ImplementsPlanHistory` the claim.

### CommunityEditor (one browser tab of a document with communities)

`doc` holds for each community its set of geographies (`ca`), and `childToParent` (`up`), from
which `shatterIds` and `parentToChild` are read off: every function of this store that writes one
of them writes all of them from the same edges. `names` is the list of communities with whether
each has its default name, `edited` and `base` are `updated.metadata` and the document's
`updated_at`, `local` and `waiting` the record and the debounced write, `request` also holds the
conflict dialog.

| Action | Code |
|---|---|
| `Stroke` | `mutateCommunityAssignments` for each feature, then `ingestAccumulatedAssignments` and `healTouchedParentsIfEligible` |
| `TimerFires` | the debounced write of `idb.ts` |
| `StartBreak`, `BreakDone`, `BreakFails`, `ExitBlockView` | `handleShatter`, `replaceCommunityAssignments`, `exitBlockView` |
| `Undo`, `Redo` | zundo and `syncCoiIdbAfterUndoRedo` |
| `AddCommunity`, `UpdateCommunity`, `RemoveCommunity` | the map store's handlers of the list, with `purgeZone` of the history and `removeCommunity` of the assignments |
| `StartSave`, `SaveDone`, `SaveFails`, `SaveConflicts`, `CloseDialog`, `UseServer` | `putUpdateCoiAssignmentsAndVerify`, the dialog of a conflict |
| `Reload`, `OtherSaves` | `fetchDocument` with `ingestFromDocument`; another browser |

`Allowed` may add `orphans` (the server's version, taken in a conflict, lacks a community that a
snapshot names), `burst` (a change of the list within the debounce of a stroke) and `crash` (the
page goes between the two writes of a removal).

### LocalStore (IndexedDB and the tab that writes to it)

`disk` is the table, `requests` the queue of the database with what each async function does
after its answer (`then`), `pending` is `pendingUpdate`, `plan` what the tab last held of each
document, `loading` the state of `fetchDocument`, `saving` the save in progress. A field of the
metadata is known by the edit that wrote it and a plan by its strokes, so that a lost update is
an older number or a missing stroke.

| Action | Code |
|---|---|
| `Stroke`, `Undo`, `TimerFires` | `queueAssignmentsUpdate` (debounced; at once), its timer |
| `EditMetadata`, `EditRead`, `SetCount` | the read-modify-writes of name, colours, password and document; the one of `setNumDistricts`, which does not flush |
| `PutDone`, `Deleted`, `Delete` | answers of the database, `deleteDocument` |
| `StartOpen`, `LoadRead`, `OpenOnline`, `OpenOffline`, `OpenFails` | `fetchDocument` and the flush of the document before |
| `Ignored` | the answer to a load that was overtaken by another, which changes nothing |
| `StartSave`, `SaveRead` | a save with its flush, its failure or success |
| `Exit` | the tab is closed (with `pagehide`'s flush) or killed, which loses what the database had not taken |

`Allowed` may add `overlap`, `burst`, `count` and `offline` (module comment).

### DocumentSave (several browsers, one server)

Each client has a tab (`tab`) and a record (`disk`); a plan is a function from geographies to
rows. Client actions are the steps of `fetchDocument`, `handlePutAssignments`, `handleRevert` and
`resolveConflict` between their awaits; an answer may be lost at any time (`AnswerLost`) while the
request lives on. Server actions are the statements of one PUT transaction: `Check`, `Delete` and
`Deleted`, `Insert`, `Commit`, each seeing what READ COMMITTED shows it, with row locks, key
conflicts and rollback. `now()` is the start of a transaction, so `updated_at` can go backwards.
Every PUT of the client carries a comments array, so it always counts as a change and moves
`updated_at`. `Overlapping` says whether the server works on several PUTs at once. A client
cannot edit while it saves (DistrictEditor covers the exceptions); the document that a fork
creates is outside.

### DistrictStats (the cache of statistics and the published object)

A cached district is abstracted to the set of units it was computed from, and the unassigned row
to its weight. Saves and resets are transactions (`Begin`, `Evict`, `CommitSave`); a job is a
request or a publish task that runs `update_or_select_district_stats` statement by statement,
with the advisory lock among jobs. `Overlapping` says whether a save may commit while the
transaction of a job is open, `Publishers` which jobs may be publish tasks. The delete and insert
of the unassigned row are one step with the job's commit.

### Evaluation (the cache of the metrics)

A plan is a number, a new one for each save; whatever was computed from a plan is that number.
A request reads the row (`ReadRow`), tries the advisory lock, polls, gives up waiting at the
deadline and computes without it (`late`), rebuilds the statistics in a transaction of its own,
whose commit also gives the lock up, computes the metrics and stores them with the start of its
transaction; it may fail, and may hang at any point unless it is in `Lively`. Saves and resets
run beside it (`BeginSave`, `CommitSave`, `AbortSave`, `Reset`). `Overlapping` says whether a save
may commit in the middle of what it spoils.

### DocumentComments (descriptions, forms, moderation)

A text is the score the moderation gives it. `comments`, `person` and `tags` are the tables,
`views` the comments each browser holds, `tasks` the background tasks, `form` the form being
submitted (its three parts commit separately). `Put` is the diff of `_sync_scoped_comments` by
id, `CopyDocument` the copy with its comments, `RunTask` one call of the moderation service,
`Review` and `Flag` the moderators and the public. `Public` and `Listed` are the two views, in
Python and in SQL, with their different treatment of NULL.

One field of a comment is no column: `approved` is history, the text the moderator approved, so that
`PublicSeesClean` can ask whether the text that is public now is that text. The moderator's screen is
taken to be current. Storing a score never fails in the model; in the code it may
(`update_moderation_score` raises again), and then that task and those after it in its request are
gone, and the old score stays beside the new text.

`Allowed` may add `forms` (a form names a document that is saved later), `uuid` (a client's own id
of a new description starts with digits), `reordered` (tasks of several requests overtake each
other) and `edited` (a save puts another offensive text into the row of a description that was
approved, `Overwrites`; the row stays approved). The `comments` run has none of them.

### PlanImport and PlanMetrics (algorithms over rows)

PlanImport is `batch_insert_assignments` as one action over every file of `MaxRecords` records:
labels are renumbered (`Mappings` holds every order the iteration of a set may take), outliers and
caps applied, blocks healed into their parent or their parent filled with empty rows. PlanMetrics
EXTENDS it with plans saved by the editor (`Save`), cut edges, counts of units and contiguity on two
levels. A save lists parents and blocks of broken parents; the server also accepts a parent beside its
blocks, so `Save` does.

The graph is the one `pipelines/transforms/graph.py` builds of a list of edges, so its nodes are the
ends of edges (`Ends`) and, on two levels, the parents of these (`Nodes`); the children of a parent
are those that have an edge (`Linked`). An edge list in which no edge leads out of a parent whose
blocks have edges makes the builder fail (`Buildable`). What asks the graph for something that is not
in it does what the code does: `G.subgraph` leaves it out, `G.nodes[...]` and `G.neighbors(...)`
raise, as does `is_connected` of a graph without nodes, and `assigned_units` for a parent that is
assigned beside its blocks (`Conflicting`). `compute_metrics` leaves a metric that raised out of the
report, so `Contiguous`, `CutEdges` and `Counts` are sets of at most one answer.

`Connected` says that some nodes do not fall into two parts without an edge between them;
`PathsConnect` (section 4) that this is what `is_connected` computes. The invariants compare each
answer with the same notion on the blocks that have an edge, and say when there is one.

### Proof modules

`DistrictEditorProofs`, `CommunityEditorProofs`, `LocalStoreProofs`, `DocumentSaveProofs`,
`DistrictStatsProofs`, `EvaluationProofs`, `DocumentCommentsProofs` and `PlanMetricsProofs` (which is
about PlanImport too) EXTEND their module with TLAPS; see section 4.

## 3. The runs

| Run | Instance | Shows |
|---|---|---|
| `editor` | a parent with two blocks, 2 districts, history of 2, 5 timestamps, no gestures | all invariants, that a reload keeps the plan, breaking changes no zone, strokes are exact, and the refinement of PlanHistory |
| `editor_gestures` | the same and a parent without blocks, 4 timestamps, all gestures but `mid_stroke` | `NoDoubleCoverage` |
| `communities` | a parent with two blocks, 1 to 2 communities, 3 ids, history of 2, 6 timestamps | types, no double coverage, assignments only to communities that exist, what the indicator says, what a reload keeps, what block view keeps |
| `local_store` | two documents of which one was migrated, 3 requests to the database at a time, 2 edits | the record is what the tab held once all is settled; no stroke leaves the record or the server by itself; every stroke reaches the record |
| `local_migrated` | the same, 2 requests, `offline` | a counterexample, section 5 |
| `save` | two clients, two geographies, two PUTs, one at a time | `DarkMeansSaved`, `NoSilentOverwrite`, `ReplacesAll` |
| `save_overlap` | one client whose lost requests overlap | `DarkMeansSaved` although rows may be mixed, and `SavesEnd` |
| `save_race` | two clients overlapping | a counterexample, section 5 |
| `stats` | two units, two districts, two jobs of which one publishes, no save commits inside a job | `CacheFresh`, `PublishedFresh`, `AnswersExact` |
| `evaluation` | two requests of which one may hang, 2 saves, 1 poll, no save commits inside | `FreshIsCurrent`, `RequestsProceed` |
| `comments` | one editor, two districts, a harmless and an offensive text, 4 ids, 2 writes, 1 review | `PublicSeesClean`, `SaveExact`, `ScoresSettle` |
| `plans` | three parents with two, two and one blocks, 5 labels, files of up to 3 records, 4 adjacencies | `ImportExact`, `CountsExact`, `ContiguityExact` |

*Why these bounds.* A parent with two blocks is the least on which blocks can agree or disagree
and be partly painted; two districts are the least between which an edit moves a unit; a history
of two is shorter than the number of edits that the timestamps (`MaxClock`) allow, so the
oldest step is dropped in many behaviours. Two communities overlap, a third id is one that is
handed out after a removal, and six timestamps allow a stroke, a removal, a save of another
browser and the conflict with it. In LocalStore two documents are what switching needs, and three
requests let a read-modify-write meet a flush and the read of the other document. Two PUTs by two
clients, or by one whose answer was lost, are enough for every pair of transactions to
interleave; two geographies let two plans be disjoint, equal or overlapping. In DistrictStats two
units and two districts let a save empty, fill and swap districts, and four timestamps allow three
saves around two jobs. In Evaluation two requests are what the lock is about; two saves put one
before and one after each computation. In DocumentComments two writes are a save after a save, a
copy or a form, and four ids are the comments they can create. In `plans` a parent with two blocks
can be whole, split, listed in part or not contiguous, one with one block is the degenerate case,
and the labels are a number in two spellings, two outliers and a name. The adjacencies are a ring
of all blocks, one in which the blocks of a parent touch only through another's, one in which a
block of a parent and the only block of another have no edge (and are skipped by an import, as a
geography that the map does not have is), and one whose edges make no graph on two levels.

Models stop when their clock or their requests run out. `editor`, `communities`, `save` and
`stats` still check deadlock, as a reload, a visit or another job is always possible; LocalStore,
Evaluation, DocumentComments and PlanMetrics end when the bounded actions are used up, and say
`CHECK_DEADLOCK FALSE`. The symmetric sets (blocks, clients, geographies, units, districts) are
interchangeable in every definition; runs with liveness use no symmetry.

*Fairness.* `save_overlap`: the server works on each PUT (`WF` of `Serve(p)`) and an answer that
exists is delivered (`WF` of `Answered(c)`); Uvicorn runs every request it has accepted, and the
browser settles every `fetch`. `local_store`: timers fire and IndexedDB answers, as browsers
promise while the tab lives; closing the tab is always possible. `evaluation`: an open save
commits, and each step of a request in `Lively` is taken; the other request may stop anywhere,
holding the lock. `comments`: the background tasks run (FastAPI runs them after the answer, `WF` of
`RunTask`); a service that fails is answered by the word list, then by the score 1.0
(`score_text`), so each task has a score to store. A score that cannot be stored, and a task lost
with the server's process, are not modelled. No timeout is assumed of the
database: `SavesEnd` shows that the waits for row locks and keys end by themselves.

## 4. The theorems

TLAPS checks thirty-six theorems, each for every value of the constants that the module's assumptions
allow. Some have one more assumption, on `Allowed`, `Overlapping` or the labels of a file,
which the run that checks the property meets; without it TLC has a counterexample (section 5).

`DistrictEditorProofs`, from `EditorAssumption` alone (any sets of parents and blocks, any
bounds, all gestures):

- `TypeCorrect`: `Spec => []TypeOK`. `TypeOK` is inductive; one lemma per action, over lemmas that
  type the operators (`HealedType`, `BrokenType`, `ParsedType`, ...).
- `ShatteringConsistent`: `Spec => []ShatterMapsAgree`. The four shatter collections of the store,
  of every undo and redo snapshot and of the pending one describe one partial map from blocks to
  parents, and the parent paths in IndexedDB are right. It is inductive relative to `TypeOK`: it
  has to speak of the snapshots, because an undo installs one, and of the rows, because a
  reload does. `HealedAgrees`, `BrokenAgrees` and `ParsedAgrees` carry the argument (a heal
  removes a parent with all of its known blocks; a break adds all of them; a parse derives three
  collections from the fourth), `RecordAgrees` and `KeepAgrees` that the recorder only stores
  what it was given, and `SameShatteringNext` disposes of the actions that touch neither.

Its second part, what the user sees, for `"mid_stroke" \notin Allowed`:

- `NothingTwice` (`NoDoubleCoverage`, as in `editor_gestures`) and, without `"decrease"` as well,
  `AllBlocksListed` (`BlocksFullyListed`). `Sound(d)` says both of a document; the invariant
  `PlanSound` says it of the store, of every snapshot, and in the terms of rows and of bare entries
  of IndexedDB, the request and the server (`RowsSound`, `ZonesSound`), since a reload and a revert
  rebuild the store from those. Two more conjuncts are needed: staged paint lies only on what is
  shown (`StagedShown`), and no stroke is under way when a break or a revert comes back
  (`Settled`). `HealedSound`, `BrokenSound`, `LocalSound` and `ParsedSound` carry the argument.

The rest of it, for `Allowed = {}` and `NoneIsNoSnapshot` (null is not a snapshot):

- `CleanIsSaved`, `ReloadTruly`, `BreakTruly`, `StrokesExact`: the other properties of the `editor`
  run. `HealKeepsZones` and `BrokenKeepsZones` say that healing and breaking keep the zone of every
  unit, which is where `AllBlocksListed` is needed: a block without an entry agrees with every zone.
  `Truthful` adds that the record shows what the screen shows (`Mirrored`), and the server's plan
  when it has the server's timestamp (`Backed`), that the pending snapshot shows the zones of the
  store (`Fits`), and that nothing else happens during a request (`Waiting`).
- `EditorImplementsPlanHistory`: the refinement. `PushSeen` is its heart: whichever document the
  recorder keeps, the store or the one from before a break, shows the plan before the edit.
  `SeenAppend`, `SeenTail` and `SeenFront` map the recorder's sequences.

`CommunityEditorProofs`, from `CommunityAssumption` and `NothingAssumption` (null is not a record):

- `TypeCorrect`, `NothingTwice` (`NoDoubleCoverage`) and `BlockViewMovesNothing`
  (`BlockViewKeepsUnits`), whatever `Allowed` is. `PlanSound` is the invariant of the districts'
  editor for plans that overlap: a community holds a parent or blocks of it, and says so of every
  snapshot (`Held`), of the record, of the waiting write and of the server's rows.
- `NoneOrphaned` (`AssignedExist`), for `"orphans" \notin Allowed`. The server refuses rows of a
  community that its document lacks (`ServerOwn`); each snapshot names only communities of the list,
  which is what `purgeZone` of the history is for.
- `DarkMeansSaved` (`CleanMeansSaved`), whatever `Allowed` is. A timestamp is handed out once
  (`Timely`), so a plan that bears the server's is the server's (`AllAgree`): of every snapshot,
  because an undo brings the old timestamp back with the old plan.
- `ReloadLosesNothing` (`ReloadKeepsPlan`), for `burst` and `crash` not in `Allowed`. `InStep`: the
  record made last has the plan of the screen and the list of communities, and one with the
  server's timestamp has what the server has. `Orderly` orders requests, the lock and what waits.

`LocalStoreProofs`, from the module's assumptions:

- `TypeCorrect`, whatever `Allowed` is. `InTurn` has to be added: which requests are in the queue
  follows from what the tab is doing.
- `RecordIsWhatWasHeld` (`StoredWhenSettled`), under `Calm`: none of `overlap`, `burst`, `count` is
  in `Allowed` (each of them alone breaks the property). The property speaks of an empty queue; the
  invariant (`Stored`) of every moment: what waits to be written of a document, or else what its
  record will be once the queue is answered (`Final`), or else what the edit under way will make of
  that, is what the tab holds. `Tidy` keeps edits from overlapping with anything, `Loads` keeps a
  document that is read from being written to behind the read.
- `RecordKeepsStrokes` (`DiskKeepsStrokes`), under `Calm`: the record, the writes in the queue and
  the tab's plan are a chain, in which no rows are lost but those taken back (`Chain`).
- `ServerKeepsPlan` (`SaveKeepsPlan`), under `Calm` and `"offline" \notin Allowed`: a whole record,
  a write in the queue and the tab's plan have the server's rows (`Served`), and so will the record
  that an edit under way is made from (`Founded`).

`DocumentSaveProofs`, from `SaveAssumption`:

- `TypeCorrect`, whatever `Overlapping` is. `TypeOK` is not inductive: that a working transaction
  has a start, and a waiting client a request, has to be added (`Typed`).
- `WholePlan` (`ReplacesAll`), `NoneOverwritten` (`NoSilentOverwrite`) and `DarkIsSaved`
  (`DarkMeansSaved`), from `~Overlapping`. The invariant has two layers. `Serial` is the server's:
  one PUT is active, it started after the server's version was made, the version it checked is
  still the server's, the writers it saw are those of the rows, and it has deleted all of them.
  `InSync` adds what each client knows: a clean record or tab of the server's version holds the
  server's rows, and a waiting client's request carries the rows of the tab, so that its commit
  makes the rows of the server those of the tab. `DarkMeansSaved` alone says nothing of requests
  in flight, of records, or of lost answers, and no step could be proved from it. TLC checked
  both layers as invariants first.

`DistrictStatsProofs`, from `StatsAssumption` (finite sets of units and zones):

- `TypeCorrect`, whatever `Overlapping` is, with the start of an open transaction added (`Typed`).
- `CacheAlwaysFresh` (`CacheFresh`) and `AnswersAlwaysExact` (`AnswersExact`), from `~Overlapping`.
  `IInv` says that every cached row is computed from the present plan, that what a job has read
  (its zones, the rows it saw, what it built) is of the present plan while its transaction is
  open, and that an open save has named every district it changes and evicted every row of them.
- `PublishedAlwaysFresh` (`PublishedFresh`), from `~Overlapping` and `OnePublisher`.
  `PublishedInv` adds what the publisher holds: once the plan has not changed since its snapshot,
  the result in its hands, and then the object, is exact.

`EvaluationProofs`, from `ConstantsOK`:

- `FreshCurrent` (`FreshIsCurrent`), from `~Overlapping`. `IInv` follows one computation through
  its transactions: `SavesOrdered` (a save starts after the version it replaces), the cached
  statistics are of the present plan, what a request has computed is of the present plan or is
  older than `updated_at` (`RequestCurrent`), and so is the stored envelope (`RowCurrent`), also
  while a save that started later than its stamp is open.

`DocumentCommentsProofs`, from `ConstantsOK`, for `"uuid" \notin Allowed` (the server hands out ids):

- `TypeCorrect` and `SavesExactly` (`SaveExact`). The second needs that two comments of a document
  do not share a district (`Single`) and that a browser which holds an id has it in the right
  document and district, for as long as the comment is there (`Known`); otherwise a save would
  update a comment of somebody else.
- `NothingOffensive` (`PublicSeesClean`), also for `reordered` and `edited` not in `Allowed`.
  `Settled`: a score is that of the text beside it, or a scoring is under way and the last one is of
  that text; the property itself says nothing of tasks and is not inductive. `ApprovedText`: an
  approved comment with an offensive text has the text that was approved, which every step but an
  edit keeps, and an edit unless it is of the kind `Overwrites` names.
- `FormsGoInSaves`, whatever else `Allowed` is: what somebody sent with a form is deleted exactly by
  a save of the document it names (`FormCommentsFall`), which takes it only while it has no tag.

`PlanMetricsProofs`, from `PlanImportOK` and `PlanMetricsOK` (any finite sets of parents and blocks,
any adjacency, labels and files):

- `ImportSaysTheFile` (`ImportExact`), for `SpellingsKept`: a number that comes in two spellings
  is at most the map's count and `MAX_DISTRICTS`, so that it is kept. The property is about files that
  do not list a parent beside blocks of it, and about the blocks that have an edge. `SmallKept` and
  `SameZones` are about the renumbering, for every order the set of labels may take; `HealedRows` and
  `ImportShows` about healing and filling.
- `ContiguityIsOfBlocks` (`ContiguityExact`), of plans without a parent beside its blocks: contiguity
  on two levels is that of the blocks that have an edge, and there is no answer exactly when some
  district has no such block. `Laid` is the invariant: rows lie on geographies of the map,
  whether a file or the editor made them. `Quotient` is the argument: merging connected groups of units into
  one node each neither joins nor parts anything, which is why parents that are not contiguous have to
  be expanded first (`ExpandedFacts`), and why the graph needs the edges between blocks and the parents
  of their neighbours (`NeighboursAre`).
- `CountsAreOfBlocks` (`CountsExact`), from `Laid` too: an answer is right whenever there is one (cut
  edges: of plans without a parent beside its blocks), and where every block has an edge there is
  one, except counts of a plan with a parent beside its blocks. `CutEdgesExact` counts every cut edge
  once: in the boundary of two whole parents, between a block and a whole parent, or between two
  blocks, where it is met from both ends and halved.
- `PathsConnect`: two units are joined by a path exactly when no cut parts them. It ties `Connected`
  to `IsStronglyConnected` of the community module Graphs.

Every invariant and every action property of the passing runs is stated by one of the theorems, and so
is the refinement. What stays with TLC is liveness (`SavesEnd`, `StrokesReachDisk`, `RequestsProceed`,
`ScoresSettle`), which is beyond the prover, and the counterexamples of section 5.

## 5. What the model says about the code

Two runs are counterexamples to a sentence of the repository, quoted in PROJECT.json:

- `save_race`: two PUTs can both pass the check of `updated_at` before either commits; the second
  replaces the first and nobody is told.
- `local_migrated`: a map migrated from localStorage, opened while the server is away, is shown
  and stored as an empty plan, and the next save empties it on the server.

Each of the following is a behaviour of the code that a changed constant shows; they are kept out
of the passing runs by the constants above, which is what those constants are for.

| Instance | Fails | Because |
|---|---|---|
| `editor.cfg`, `Allowed = {"rebreak"}` | `BreakKeepsZones` | "Break Parent to Blocks" on a shown block writes null over its siblings (`setZones`; the menu tests `window.parent`) |
| `{"mid_stroke"}` | every property but the first two | undo, or leaving block view, replaces the shatter maps under paint that is staged already |
| `{"mid_request"}` | `CleanMeansSaved`, `ReloadKeepsPlan`, `BreakKeepsZones`, the refinement | undo during a save or a break: the answer is applied to another plan than the one it was asked for |
| `{"reset"}` | `CleanMeansSaved` | a reset changes neither `updated_at` nor the record: after a reload the old plan is back, marked as saved |
| `{"autosave"}` | `CleanMeansSaved` | an automatic save can begin during a stroke, and its answer marks the stroke as saved |
| `{"decrease"}` | `ReloadKeepsPlan`, `BlocksFullyListed`, `PaintExact` | `setNumDistricts` writes back the rows it read before the removal; and a parent's blocks are no longer all listed, on which the list of unassigned areas and the heal rely |
| `save.cfg`, `Clients = {c1}`, `Overlapping = TRUE` | `NoSpuriousConflict` | a lost answer leads to a conflict with oneself |
| `save.cfg`, `Overlapping = TRUE` | `ReplacesAll` | two plans on disjoint geographies merge; the read-back reports it |
| `stats.cfg`, one job, `Overlapping = TRUE` | `CacheFresh` | a save during a rebuild leaves a stale cached district that nothing evicts |
| `stats.cfg`, `Publishers = {j1, j2}` | `PublishedFresh` | the newer stamp stays, the older object is uploaded last |
| `communities.cfg`, `Allowed = {"orphans"}`, `MaxClock = 4` | `AssignedExist` | undo after taking the server's version brings back geographies of a community it lacks; the server refuses every save from then on |
| `{"burst"}`, `{"crash"}` | `ReloadKeepsPlan` | a change of the list writes the rows on disk beside the new names; a removal that "CANNOT BE UNDONE" is written in two steps, and a reload in between brings the geographies back |
| `comments.cfg`, `Allowed` with `"forms"` | `FormCommentsStay` | a save deletes a form's comments of the document, whose zone is NULL |
| with `"uuid"` | `SaveExact` | `parseInt` of a client's own id that starts with digits names another row |
| with `"reordered"` | `PublicSeesClean` | tasks of two requests overtake each other, and the score of an older text is stored last |
| with `"edited"` | `PublicSeesClean` | `_sync_scoped_comments` writes the new text into the row and leaves `review_status` (comments/main.py:302-305): an offensive text that no moderator saw is public as approved |
| `MaxReviews = 2` | `ListedTagsClean` | a tag that nobody has reviewed is never a bad one: its comment and its author's name are listed once they are reviewed |
| `evaluation.cfg`, `Overlapping = TRUE` | `FreshIsCurrent` | `updated_at` of the row is the start of its last transaction; a save that started earlier and commits later is never noticed |
| `evaluation.cfg` | `FreshAfterReset`, `OneCompute` | a reset does not move `updated_at`; the advisory lock ends with the commit of the statistics, in the middle of the computation |
| `plans.cfg` | `IslandsTold` | `G.subgraph` leaves out blocks without an edge (contiguity/main.py:16, 23): a district of a contiguous part and such a block is said to be contiguous |
| `plans.cfg` | `SkippedStayOut` | a parent whose blocks with edges are all listed in one zone is healed, and takes its block without an edge along, whose record was skipped or missing (assignments.py:244-250) |
| `plans.cfg`, `Eleven` and `Twelve` both 11 (`NumberOf`) | `ImportExact` | a number above the map's count that comes in two spellings ("11", "11.0") is renumbered to two zones |
| `local_store.cfg`, `Allowed` with `"overlap"`, `"burst"` or `"count"` | `StoredWhenSettled` | metadata is read, changed and written while another write is on; strokes during the flush of the document before; `setNumDistricts` does not flush |

Three cases are outside what the properties of `plans` state. A file that lists a parent beside blocks
of it leaves both in the plan, or the zone of the healed blocks instead of the parent's own. A plan
with a parent beside its blocks has no counts (validity.py:68-74, which
test_validity_metrics.py:362-400 tests) but cut edges, in which the edges of those blocks are met
under two zones. A painted unit without an edge takes the cut edges, the counts, or both out of the
report (compactness.py:67, validity.py:47-49 and 65).

Read in the code while modelling, and not run: a label "inf" in a file overflows; assignment
writes drop `password` and `shouldFetchAssignments` from the record; a break that fails leaves the
recorder paused; a stroke in block view is not recorded separately; the reset of a document with
communities resets the store of districts only; a fork of one carries the server's list of
communities; ids of communities go past `COI_MAX_COMMUNITIES` after removals; nothing in the
interface calls `handleRevert`; the border of the moderation score is `<` in one view and `<=` in
the other; the comments of a copy are public without a score until it is saved; a form that fails
in the middle leaves rows that are never scored; the attempts of the county context are shared
between requests and never reset, and an empty answer about county populations stays cached.

## 6. Not modelled, and why

- *Share links and passwords, sessions, request protection*: each is one request with one
  statement, and no state of the plan depends on it.
- *Demography, geometry and parquet workers, map rendering*: derived from the stores; nothing is
  written back. Populations, colours, paint constraints and locks of areas are left out of the
  editors for the same reason.
- *Content management, thumbnails, exports*: plain reads and writes, image and file generation.
- *Data pipelines, infrastructure, prototypes*: offline or deployment; of the pipelines the graph
  builder is modelled, as PlanMetrics compares its graph with the adjacency of blocks. The
  prototypes are earlier programs that are not part of the system.
- *Partisan and geometric scores, county context*: formulas over read-only data.
- Inside modelled components: several requests of one tab at a time (an automatic save beside a
  break, a revert or a manual save); the new document that a fork or a copy creates while the old
  one is open; bounding boxes of contiguity; the batches of an import, which are one transaction.

Worth doing next: a set of requests in DistrictEditor.
