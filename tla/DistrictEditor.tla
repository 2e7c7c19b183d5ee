--------------------------- MODULE DistrictEditor ---------------------------
(***************************************************************************)
(* The district plan held by one browser tab: the Zustand assignments      *)
(* store, its undo/redo recorder, the block view ("breaking" a parent      *)
(* geography into its blocks), and the copies of the plan that the tab     *)
(* keeps in IndexedDB and sends to the server.                             *)
(*                                                                         *)
(* A geography is either a parent (VTD, county...) or a block.  A broken   *)
(* parent is represented by its blocks: it has left the map of             *)
(* assignments and each of its blocks has an entry of its own.             *)
(***************************************************************************)
EXTENDS Integers, Sequences, FiniteSets

CONSTANTS
    Parents,        \* parent geographies
    Blocks,         \* block geographies
    ParentOf,       \* the parentchildedges table: block -> parent
    MinDistricts,   \* MIN_NUM_DISTRICTS
    MaxDistricts,   \* bound on the number of districts (MAX_NUM_DISTRICTS)
    HistoryLimit,   \* TEMPORAL_HISTORY_LIMIT
    MaxClock,       \* bound on the timestamps a behaviour hands out
    Null,           \* the zone of an entry that says "unassigned"
    Absent,         \* a geography without an entry
    NoParent,       \* a block without an entry in childToParent
    None,           \* no snapshot, no focused feature
    Allowed         \* which of the Gestures below happen

(***************************************************************************)
(* Gestures and coincidences that the interface does not prevent.  A run   *)
(* names those it lets happen.                                             *)
(*   mid_stroke  a hotkey or a button while the mouse is still painting    *)
(*   mid_request undo or redo while a request has the map locked           *)
(*   rebreak     "Break Parent to Blocks" on a block that is already shown *)
(*   decrease    the minus button of the district count                    *)
(*   reset       "Reset map"                                               *)
(*   autosave    an automatic save while the mouse is still painting       *)
(***************************************************************************)
Gestures == {"mid_stroke", "mid_request", "rebreak", "decrease", "reset", "autosave"}

Zones   == 1..MaxDistricts
Stamps  == 1..MaxClock
Geos    == Parents \cup Blocks
Entries == Zones \cup {Null, Absent}

ASSUME EditorAssumption ==
    /\ Parents \cap Blocks = {}
    /\ ParentOf \in [Blocks -> Parents]
    /\ MinDistricts \in Nat /\ MaxDistricts \in Nat
    /\ 1 <= MinDistricts /\ MinDistricts <= MaxDistricts
    /\ HistoryLimit \in Nat \ {0}
    /\ Null \notin Zones /\ Absent \notin Zones /\ Null # Absent
    /\ NoParent \notin Parents
    /\ None \notin Parents
    /\ MaxClock \in Nat \ {0}
    /\ Allowed \subseteq Gestures

VARIABLES
    doc,          \* the tracked part of the store, see Docs
    pending,      \* pendingShatterUndoState: a document, or None
    past,         \* zundo pastStates
    future,       \* zundo futureStates
    tracking,     \* zundo isTracking
    staged,       \* accumulatedAssignments
    captive,      \* captiveIds: the blocks shown in block view
    focus,        \* focusFeatures[0]
    request,      \* the request in flight, see Requests
    locked,       \* mapLock
    numDistricts, \* mapDocument.num_districts
    clock,        \* the last timestamp handed out, by this tab or the server
    local,        \* this document's record in IndexedDB
    server        \* this document on the server

vars == <<doc, pending, past, future, tracking, staged, captive, focus,
          request, locked, numDistricts, clock, local, server>>

history == <<past, future, tracking>>
view    == <<captive, focus>>

-----------------------------------------------------------------------------
(* Data *)

(* The part of the store that the recorder tracks. *)
Docs == [za: [Geos -> Entries], parents: SUBSET Parents, children: SUBSET Blocks,
         parentToChild: [Parents -> SUBSET Blocks],
         childToParent: [Blocks -> Parents \cup {NoParent}],
         clu: Stamps]

Snapshots == [doc: Docs, pending: Docs \cup {None}]

ASSUME NoneIsNoSnapshot == None \notin Snapshots

Requests == [kind: {"none", "break", "save", "reset", "revert"},
             targets: SUBSET Parents, za: [Geos -> Entries]]

NoZones   == [g \in Geos |-> Absent]
NoRequest == [kind |-> "none", targets |-> {}, za |-> NoZones]

Kids(p) == {b \in Blocks : ParentOf[b] = p}

(* The units a plan assigns: blocks, and parents that have no blocks. *)
Units == Blocks \cup {p \in Parents : Kids(p) = {}}

(* The zone of every unit: its own entry, else its parent's. *)
Effective(za) ==
    [u \in Units |->
        IF za[u] # Absent THEN za[u]
        ELSE IF u \in Blocks /\ za[ParentOf[u]] # Absent THEN za[ParentOf[u]]
        ELSE Null]

Snapshot == [doc |-> doc, pending |-> pending]

(* new Date().toISOString(), or the server's now(): a timestamp never seen *)
(* before.  Only the equality of timestamps matters to this tab.           *)
CanStamp == clock < MaxClock
Fresh    == clock + 1
Tick     == CanStamp /\ clock' = Fresh

-----------------------------------------------------------------------------
(* Rows: what the plan looks like in IndexedDB and on the server *)

(* formatAssignmentsFromState: one row per entry; a row carries a parent   *)
(* path when its geography is a known child.                               *)
LocalRows(d) ==
    [za |-> d.za,
     path |-> [b \in Blocks |-> IF d.za[b] # Absent /\ b \in d.children
                                THEN d.childToParent[b] ELSE NoParent]]

(* get_assignments joins the parent path of every row that is a block. *)
ServerRows(za) ==
    [za |-> za,
     path |-> [b \in Blocks |-> IF za[b] # Absent THEN ParentOf[b] ELSE NoParent]]

(* formatAssignmentsFromDocument: the broken parents are those some row names. *)
Parsed(rows, stamp) ==
    [za            |-> rows.za,
     parents       |-> {p \in Parents : \E b \in Blocks : rows.path[b] = p},
     children      |-> {b \in Blocks : rows.path[b] # NoParent},
     parentToChild |-> [p \in Parents |-> {b \in Blocks : rows.path[b] = p}],
     childToParent |-> rows.path,
     clu           |-> stamp]

LocalCopy(d, num, stamp) == [rows |-> LocalRows(d), num |-> num, stamp |-> stamp]

-----------------------------------------------------------------------------
(* The undo/redo recorder (zundo with temporalDiff) *)

(* Bug: the pending document is taken without looking whether there is one. *)
DiffUnchecked(before, after) ==
    IF before.doc.clu = after.doc.clu THEN None
    ELSE IF after.pending = None THEN [doc |-> before.pending, pending |-> None]
    ELSE before

(* temporalDiff for a change that replaces the tracked collections. *)
Diff(before, after) ==
    IF before.doc.clu = after.doc.clu THEN None
    ELSE IF before.pending # None /\ after.pending = None
         THEN [doc |-> before.pending, pending |-> None]
         ELSE before

Keep(before, after) ==
    LET d == Diff(before, after) IN IF d = None THEN before ELSE d

Push(before, after) ==
    LET d    == Diff(before, after)
        room == IF Len(past) >= HistoryLimit THEN Tail(past) ELSE past
    IN  IF d = None THEN UNCHANGED <<past, future>>
        ELSE past' = Append(room, d) /\ future' = << >>

(* A set() that replaces the tracked collections. *)
Record(on, newDoc) ==
    IF on THEN Push(Snapshot, [doc |-> newDoc, pending |-> None])
    ELSE UNCHANGED <<past, future>>

-----------------------------------------------------------------------------
(* Breaking and healing *)

(* Bug: only a parent that has a zone hands something to its blocks. *)
BreakZonesOfAssigned(za, targets) ==
    [g \in Geos |->
        IF g \in targets /\ Kids(g) # {} THEN Absent
        ELSE IF g \in Blocks /\ ParentOf[g] \in targets /\ za[ParentOf[g]] \in Zones
             THEN za[ParentOf[g]]
        ELSE za[g]]

(* Bug: the parent's zone is dropped before its blocks get it. *)
BreakZonesEmptied(za, targets) ==
    [g \in Geos |->
        IF g \in targets /\ Kids(g) # {} THEN Absent
        ELSE IF g \in Blocks /\ ParentOf[g] \in targets THEN Null
        ELSE za[g]]

(* setZones for every target that has blocks. *)
BreakZones(za, targets) ==
    LET zone(p) == IF za[p] \in Zones THEN za[p] ELSE Null
    IN [g \in Geos |->
          IF g \in targets /\ Kids(g) # {} THEN Absent
          ELSE IF g \in Blocks /\ ParentOf[g] \in targets THEN zone(ParentOf[g])
          ELSE za[g]]

(* The blocks of the targets, as get_children returns them. *)
EdgesOf(targets) == {b \in Blocks : ParentOf[b] \in targets}

Broken(d, targets) ==
    LET kids == EdgesOf(targets)
    IN [za            |-> BreakZones(d.za, targets),
        parents       |-> d.parents \cup {ParentOf[b] : b \in kids},
        children      |-> d.children \cup kids,
        parentToChild |-> [p \in Parents |-> IF p \in targets THEN d.parentToChild[p] \cup Kids(p)
                                             ELSE d.parentToChild[p]],
        childToParent |-> [b \in Blocks |-> IF b \in kids THEN ParentOf[b] ELSE d.childToParent[b]],
        clu           |-> d.clu]

(* Bug: an unassigned block agrees with every zone as well. *)
SameZoneAmongAssigned(za, ids) ==
    \A b, c \in ids : za[b] \in Zones /\ za[c] \in Zones => za[b] = za[c]

(* checkIfSameZone: a block without an entry agrees with every zone. *)
SameZone(za, ids) ==
    \A b, c \in ids : za[b] # Absent /\ za[c] # Absent => za[b] = za[c]

ZoneOf(za, ids) ==
    IF \E z \in Zones : \E b \in ids : za[b] = z
    THEN CHOOSE z \in Zones : \E b \in ids : za[b] = z
    ELSE Null

Healable(d, candidates) ==
    {p \in candidates : d.parentToChild[p] # {} /\ SameZone(d.za, d.parentToChild[p])}

(* Bug: the parent is healed and its blocks stay among the known children. *)
HealedKeepingChildren(d, candidates) ==
    LET ps == Healable(d, candidates)
    IN [d EXCEPT !.za = [g \in Geos |-> IF g \in ps THEN ZoneOf(d.za, d.parentToChild[g])
                                        ELSE @[g]],
                 !.parents = @ \ ps]

(* healParentsIfAllChildrenInSameZone for the candidate parents. *)
Healed(d, candidates) ==
    LET ps   == Healable(d, candidates)
        kids == UNION {d.parentToChild[p] : p \in ps}
    IN [za            |-> [g \in Geos |->
                             IF g \in ps THEN ZoneOf(d.za, d.parentToChild[g])
                             ELSE IF g \in kids THEN Absent
                             ELSE d.za[g]],
        parents       |-> d.parents \ ps,
        children      |-> d.children \ kids,
        parentToChild |-> [p \in Parents |-> IF p \in ps THEN {} ELSE d.parentToChild[p]],
        childToParent |-> [b \in Blocks |-> IF b \in kids THEN NoParent ELSE d.childToParent[b]],
        clu           |-> d.clu]

(* The entries after the staged paint is merged in. *)
Painted(za) == [g \in Geos |-> IF staged[g] # Absent THEN staged[g] ELSE za[g]]

Stroking == staged # NoZones

(* ingestAccumulatedAssignments: outside block view, the parents of the    *)
(* painted blocks are healed in the same update.                           *)
Ingested(stamp) ==
    LET merged == [doc EXCEPT !.za = Painted(@), !.clu = stamp]
        tagged == IF captive # {} THEN {}
                  ELSE {doc.childToParent[b] : b \in {c \in doc.children : staged[c] # Absent}}
                         \ {NoParent}
    IN Healed(merged, tagged)

-----------------------------------------------------------------------------
(* The document is open, saved, and has no assignments. *)
Init ==
    /\ clock = 1
    /\ server = [za |-> NoZones, num |-> MaxDistricts, stamp |-> clock]
    /\ doc = Parsed(ServerRows(server.za), server.stamp)
    /\ local = LocalCopy(doc, server.num, server.stamp)
    /\ numDistricts = server.num
    /\ pending = None
    /\ past = << >> /\ future = << >> /\ tracking = TRUE
    /\ staged = NoZones
    /\ captive = {} /\ focus = None
    /\ request = NoRequest /\ locked = FALSE

-----------------------------------------------------------------------------
(* Painting *)

(* A locked map takes no pointer events; the loading overlay covers the    *)
(* rest of the page.  Hotkeys get through.                                 *)
Calm      == ~Stroking \/ "mid_stroke" \in Allowed
CanPoint  == ~locked /\ Calm
CanHotkey == Calm /\ (~locked \/ "mid_request" \in Allowed)

(* Bug: the layer filters show broken parents too. *)
PaintableBroken ==
    LET shown == Parents \cup doc.children
    IN IF captive = {} THEN shown ELSE shown \cap captive

(* The features the brush finds: unbroken parents and known children (the  *)
(* layer filters), only the captive ones in block view (filterFeatures).   *)
Paintable ==
    LET shown == (Parents \ doc.parents) \cup doc.children
    IN IF captive = {} THEN shown ELSE shown \cap captive

(* mutateZoneAssignments for one feature of a stroke. *)
Stage(g, z) ==
    /\ ~locked /\ CanStamp
    /\ g \in Paintable
    /\ staged[g] = Absent
    /\ z = Null \/ doc.za[g] # z
    /\ \A h \in Geos : staged[h] \in {Absent, z}
    /\ staged' = [staged EXCEPT ![g] = z]
    /\ UNCHANGED <<doc, pending, history, view, request, locked, numDistricts, clock, local, server>>

(* Bug: the snapshot that waits for the first stroke in a broken parent    *)
(* survives it, and the next stroke takes it for its own.                  *)
FlushKeepingPending ==
    /\ Stroking /\ Tick
    /\ doc' = Ingested(Fresh)
    /\ Record(TRUE, doc')
    /\ tracking' = TRUE
    /\ staged' = NoZones
    /\ local' = LocalCopy([doc EXCEPT !.za = doc'.za], numDistricts, Fresh)
    /\ UNCHANGED <<pending, view, request, locked, numDistricts, server>>

(* The end of a stroke.  The rows for IndexedDB are made before the set(), *)
(* from the new entries and the old shatter maps.                          *)
Flush ==
    /\ Stroking /\ Tick
    /\ doc' = Ingested(Fresh)
    /\ Record(TRUE, doc')
    /\ tracking' = TRUE
    /\ pending' = None
    /\ staged' = NoZones
    /\ local' = LocalCopy([doc EXCEPT !.za = doc'.za], numDistricts, Fresh)
    /\ UNCHANGED <<view, request, locked, numDistricts, server>>

-----------------------------------------------------------------------------
(* Block view *)

(* What a break may name: unbroken parents outside block view, or from the *)
(* context menu of a block, its parent.                                    *)
Breakable ==
    {ts \in SUBSET Parents :
       \/ ts # {} /\ captive = {} /\ ts \cap doc.parents = {}
       \/ /\ "rebreak" \in Allowed
          /\ \E b \in Paintable \cap Blocks : ts = {doc.childToParent[b]}}

StartBreak(ts) ==
    /\ CanPoint
    /\ ts \in Breakable
    /\ request' = [kind |-> "break", targets |-> ts, za |-> NoZones]
    /\ locked' = TRUE
    /\ tracking' = FALSE
    /\ UNCHANGED <<doc, pending, past, future, staged, view, numDistricts, clock, local, server>>

(* handleShatter after its await: it reads the store again, and its set()  *)
(* keeps clientLastUpdated, so nothing is recorded.                        *)
BreakDone(p) ==
    /\ request.kind = "break"
    /\ p \in request.targets
    /\ EdgesOf(request.targets) # {}
    /\ doc' = Broken(doc, request.targets)
    /\ pending' = doc
    /\ captive' = EdgesOf(request.targets)
    /\ focus' = p
    /\ request' = NoRequest /\ locked' = FALSE
    /\ UNCHANGED <<history, staged, numDistricts, clock, local, server>>

(* No edges, or no answer: the map stays locked until the page reloads. *)
BreakFails ==
    /\ request.kind = "break"
    /\ request' = NoRequest
    /\ UNCHANGED <<doc, pending, history, staged, view, locked, numDistricts, clock, local, server>>

(* exitBlockView: staged paint is ingested (and recorded), then the        *)
(* focused parent is healed without being recorded or written to IndexedDB.*)
ExitBlockView ==
    /\ CanPoint /\ Tick
    /\ captive # {}
    /\ LET ingested   == IF Stroking THEN Ingested(Fresh) ELSE [doc EXCEPT !.clu = Fresh]
           candidates == IF focus = None THEN ingested.parents ELSE {focus}
       IN /\ doc' = Healed(ingested, candidates)
          /\ Record(Stroking, ingested)
          /\ local' = IF Stroking
                      THEN LocalCopy([doc EXCEPT !.za = ingested.za], numDistricts, Fresh)
                      ELSE local
    /\ tracking' = TRUE
    /\ pending' = None
    /\ staged' = NoZones
    /\ captive' = {} /\ focus' = None
    /\ UNCHANGED <<request, locked, numDistricts, server>>

-----------------------------------------------------------------------------
(* Undo and redo, each followed by an immediate write to IndexedDB *)

(* Bug: the snapshot holds the entries and not the shatter maps. *)
RestoreZonesOnly(s) ==
    /\ doc' = [doc EXCEPT !.za = s.doc.za, !.clu = s.doc.clu]
    /\ pending' = s.pending
    /\ local' = LocalCopy(doc', numDistricts, Fresh)
    /\ UNCHANGED <<tracking, staged, view, request, locked, numDistricts, server>>

(* Bug: nothing is written to IndexedDB. *)
RestoreUnwritten(s) ==
    /\ doc' = s.doc
    /\ pending' = s.pending
    /\ UNCHANGED <<local, tracking, staged, view, request, locked, numDistricts, server>>

Restore(s) ==
    /\ doc' = s.doc
    /\ pending' = s.pending
    /\ local' = LocalCopy(s.doc, numDistricts, Fresh)
    /\ UNCHANGED <<tracking, staged, view, request, locked, numDistricts, server>>

Undo ==
    /\ CanHotkey /\ Tick
    /\ past # << >>
    /\ LET s == past[Len(past)]
       IN /\ Restore(s)
          /\ past' = SubSeq(past, 1, Len(past) - 1)
          /\ future' = Append(future, Keep(Snapshot, s))

Redo ==
    /\ CanHotkey /\ Tick
    /\ future # << >>
    /\ LET s == future[Len(future)]
       IN /\ Restore(s)
          /\ future' = SubSeq(future, 1, Len(future) - 1)
          /\ past' = Append(past, Keep(Snapshot, s))

-----------------------------------------------------------------------------
(* The number of districts *)

(* setNumDistricts, from the plus button or the text field: the entries of *)
(* zones above the new number stay.                                        *)
SetNumDistricts(n) ==
    /\ CanPoint /\ Tick
    /\ n \in MinDistricts..MaxDistricts /\ n # numDistricts
    /\ numDistricts' = n
    /\ doc' = [doc EXCEPT !.clu = Fresh]
    /\ local' = [local EXCEPT !.num = n, !.stamp = Fresh]
    /\ UNCHANGED <<pending, history, staged, view, request, locked, server>>

(* The minus button: setNumDistricts, then removeAssignmentsForZonesAbove. *)
(* setNumDistricts reads the record first and writes its rows back after   *)
(* the removal has written the new ones, so the old rows are what stays.   *)
DecreaseDistricts ==
    /\ "decrease" \in Allowed
    /\ CanPoint /\ Tick
    /\ numDistricts > MinDistricts
    /\ numDistricts' = numDistricts - 1
    /\ doc' = [doc EXCEPT !.clu = Fresh,
                          !.za = [g \in Geos |-> IF @[g] \in Zones /\ @[g] > numDistricts - 1
                                                 THEN Absent ELSE @[g]]]
    /\ staged' = NoZones
    /\ pending' = None
    /\ local' = [local EXCEPT !.num = numDistricts - 1, !.stamp = Fresh]
    /\ UNCHANGED <<history, view, request, locked, server>>

-----------------------------------------------------------------------------
(* Requests about the whole plan *)

Start(kind) ==
    /\ request' = [kind |-> kind, targets |-> {}, za |-> doc.za]
    /\ locked' = TRUE
    /\ UNCHANGED <<doc, pending, history, staged, view, numDistricts, clock, local, server>>

StartSave   == CanPoint /\ Start("save")
StartRevert == CanPoint /\ Start("revert")
StartReset  == "reset" \in Allowed /\ CanPoint /\ Start("reset")

(* useMapSaveStatus: neither the store nor the record in IndexedDB has a   *)
(* timestamp of its own.                                                   *)
Dark == doc.clu = server.stamp /\ local.stamp = server.stamp

(* useAutoSave: 30 seconds after the last edit, or when the window loses   *)
(* the focus or is hidden.  It asks neither for the lock nor for the mouse.*)
(* (The code could also start it beside another request; this model keeps  *)
(* one request at a time.)                                                 *)
AutoSave ==
    /\ request.kind = "none"
    /\ ~Dark
    /\ ~Stroking \/ "autosave" \in Allowed
    /\ Start("save")

(* handlePutAssignments: the server holds the entries captured when the    *)
(* save began, IndexedDB the rows the server then reports.  The recorder   *)
(* is paused around the new clientLastUpdated and always resumed.          *)
SaveDone ==
    /\ request.kind = "save" /\ Tick
    /\ server' = [za |-> request.za, num |-> numDistricts, stamp |-> Fresh]
    /\ local' = [rows |-> ServerRows(request.za), num |-> numDistricts, stamp |-> Fresh]
    /\ doc' = [doc EXCEPT !.clu = Fresh]
    /\ tracking' = TRUE
    /\ request' = NoRequest /\ locked' = FALSE
    /\ UNCHANGED <<pending, past, future, staged, view, numDistricts>>

(* handleRevert: the server's rows replace the plan; recorded like any set. *)
RevertDone ==
    /\ request.kind = "revert"
    /\ doc' = Parsed(ServerRows(server.za), server.stamp)
    /\ Record(tracking, doc')
    /\ pending' = None
    /\ local' = LocalCopy(doc', server.num, server.stamp)
    /\ numDistricts' = server.num
    /\ request' = NoRequest /\ locked' = FALSE
    /\ UNCHANGED <<tracking, staged, view, clock, server>>

(* A failed save or revert unlocks the map. *)
RequestFails ==
    /\ request.kind \in {"save", "revert"}
    /\ request' = NoRequest /\ locked' = FALSE
    /\ UNCHANGED <<doc, pending, history, staged, view, numDistricts, clock, local, server>>

(* handleReset: the server forgets the assignments and keeps updated_at;   *)
(* the store is emptied; IndexedDB is not told.                            *)
ResetDone ==
    /\ request.kind = "reset"
    /\ server' = [server EXCEPT !.za = NoZones]
    /\ doc' = Parsed(ServerRows(NoZones), doc.clu)
    /\ pending' = None
    /\ staged' = NoZones
    /\ request' = NoRequest /\ locked' = FALSE
    /\ UNCHANGED <<history, view, numDistricts, clock, local>>

(* A failed reset leaves the map locked. *)
ResetFails ==
    /\ request.kind = "reset"
    /\ request' = NoRequest
    /\ UNCHANGED <<doc, pending, history, staged, view, locked, numDistricts, clock, local, server>>

(* Bug: what is loaded is taken for the server's version. *)
LoadedStampInSync == server.stamp

(* ingestFromDocument: the store is dirty when the record's timestamp is   *)
(* not the server's.  (The code then takes a new timestamp.  The record's  *)
(* own does as well: it is not the server's, and a reload forgets every    *)
(* other one.)                                                             *)
LoadedStamp == local.stamp

(* The page reloads between requests: the store is rebuilt from IndexedDB. *)
Reload ==
    /\ request.kind = "none"
    /\ LET num == IF local.stamp = server.stamp THEN server.num ELSE local.num
       IN /\ doc' = Parsed(local.rows, LoadedStamp)
          /\ local' = LocalCopy(doc', num, LoadedStamp)
          /\ numDistricts' = num
    /\ pending' = None
    /\ past' = << >> /\ future' = << >> /\ tracking' = TRUE
    /\ staged' = NoZones
    /\ captive' = {} /\ focus' = None
    /\ locked' = FALSE
    /\ UNCHANGED <<request, clock, server>>

-----------------------------------------------------------------------------
Brush == \E g \in Geos, z \in (1..numDistricts) \cup {Null} : Stage(g, z)

Next ==
    \/ Brush \/ Flush
    \/ \E ts \in SUBSET Parents : StartBreak(ts)
    \/ \E p \in Parents : BreakDone(p)
    \/ BreakFails \/ ExitBlockView
    \/ Undo \/ Redo
    \/ \E n \in MinDistricts..MaxDistricts : SetNumDistricts(n)
    \/ DecreaseDistricts
    \/ StartSave \/ AutoSave \/ SaveDone
    \/ StartRevert \/ RevertDone
    \/ RequestFails
    \/ StartReset \/ ResetDone \/ ResetFails
    \/ Reload

Spec == Init /\ [][Next]_vars

-----------------------------------------------------------------------------
(* Every variable keeps the shape the store gives it. *)
TypeOK ==
    /\ doc \in Docs
    /\ pending \in Docs \cup {None}
    /\ past \in Seq(Snapshots) /\ future \in Seq(Snapshots)
    /\ tracking \in BOOLEAN
    /\ staged \in [Geos -> Entries]
    /\ captive \subseteq Blocks
    /\ focus \in Parents \cup {None}
    /\ request \in Requests
    /\ locked \in BOOLEAN
    /\ clock \in Stamps
    /\ numDistricts \in MinDistricts..MaxDistricts
    /\ local \in [rows: [za: [Geos -> Entries], path: [Blocks -> Parents \cup {NoParent}]],
                  num: MinDistricts..MaxDistricts, stamp: Stamps]
    /\ server \in [za: [Geos -> Entries], num: MinDistricts..MaxDistricts, stamp: Stamps]

(* The snapshots a step can bring back: the store, and the recorder's. *)
Elements(seq) == {seq[i] : i \in DOMAIN seq}
Held == {Snapshot} \cup Elements(past) \cup Elements(future)

(* The four shatter collections of a document describe one partial map     *)
(* from blocks to their parents.                                           *)
Agree(d) ==
    /\ \A b \in Blocks : d.childToParent[b] \in {NoParent, ParentOf[b]}
    /\ d.children = {b \in Blocks : d.childToParent[b] # NoParent}
    /\ d.parentToChild = [p \in Parents |-> {b \in d.children : ParentOf[b] = p}]
    /\ d.parents = {ParentOf[b] : b \in d.children}

SnapshotAgrees(s) == Agree(s.doc) /\ (s.pending # None => Agree(s.pending))

(* Whatever is undone, redone, interrupted or reloaded, the collections of *)
(* shatterIds, parentToChild and childToParent never disagree, in the      *)
(* store, in a snapshot an undo could restore, or in the rows a reload     *)
(* would rebuild them from.                                                *)
ShatterMapsAgree ==
    /\ \A s \in Held : SnapshotAgrees(s)
    /\ \A b \in Blocks : local.rows.path[b] \in {NoParent, ParentOf[b]}

(* A broken parent has no entry and a block that is not a known child has  *)
(* none.                                                                   *)
CoveredOnce(d) ==
    /\ \A p \in d.parents : d.za[p] = Absent
    /\ \A b \in Blocks \ d.children : d.za[b] = Absent

(* No unit is assigned twice ("don't paint parents with children",         *)
(* filterFeatures), in the store or in a snapshot an undo could restore.   *)
NoDoubleCoverage ==
    \A s \in Held : CoveredOnce(s.doc) /\ (s.pending # None => CoveredOnce(s.pending))

(* "When we shatter a unit, we populate all blocks in the document, so we  *)
(* always have those fully listed" (backend main.py): every block of a     *)
(* broken parent is a known child and has an entry.                        *)
BlocksFullyListed ==
    \A b \in Blocks : ParentOf[b] \in doc.parents
                        => b \in doc.children /\ doc.za[b] # Absent

(* The save indicator is dark only when the plan on screen is the plan on  *)
(* the server.                                                             *)
CleanMeansSaved == Dark => Effective(doc.za) = Effective(server.za)

(* A reload loses no finished edit and brings nothing back: it shows the   *)
(* zones that were on screen.                                              *)
ReloadKeepsPlan == [][Reload => Effective(doc'.za) = Effective(doc.za)]_vars

(* Breaking a geography changes no unit's zone (setZones hands the         *)
(* parent's zone to its blocks).                                           *)
BreakKeepsZones ==
    [][(\E p \in Parents : BreakDone(p)) => Effective(doc'.za) = Effective(doc.za)]_vars

(* The end of a stroke gives the painted units the brush's zone and leaves *)
(* every other unit alone, whatever is healed on the way.                  *)
PaintExact ==
    [][Flush \/ ExitBlockView =>
         \A u \in Units :
            Effective(doc'.za)[u] =
              IF staged[u] # Absent THEN staged[u]
              ELSE IF u \in Blocks /\ staged[ParentOf[u]] # Absent THEN staged[ParentOf[u]]
              ELSE Effective(doc.za)[u]]_vars

(* Seen through Effective, the editor is PlanHistory: breaking, healing    *)
(* and the snapshot that waits for the first paint of a broken geography   *)
(* never show, and each stroke is one undo step.                           *)
Seen(snaps) == [i \in DOMAIN snaps |-> Effective(snaps[i].doc.za)]

Promise == INSTANCE PlanHistory WITH
    Values     <- Zones \cup {Null},
    Unassigned <- Null,
    Limit      <- HistoryLimit,
    plan       <- Effective(doc.za),
    saved      <- Effective(server.za),
    undoable   <- Seen(past),
    redoable   <- Seen(future)

ImplementsPlanHistory == Promise!PlanSpec
=============================================================================
