-------------------------- MODULE CommunityEditor --------------------------
(***************************************************************************)
(* The communities of interest held by one browser tab.  Unlike districts, *)
(* communities overlap, and they come and go: each has a name in the       *)
(* document's metadata (mapStore) and a set of geographies in the          *)
(* assignments store, and removing one has to reach both, the undo history *)
(* and the record in IndexedDB.                                            *)
(*                                                                         *)
(* A stroke is one step here; DistrictEditor splits it.  shatterIds and    *)
(* parentToChild are read off childToParent: every function of the store   *)
(* that writes one writes all of them, from the same edges.                *)
(***************************************************************************)
EXTENDS Integers, Sequences, FiniteSets, FiniteSetsExt

CONSTANTS
    Parents, Blocks,  \* geographies
    ParentOf,         \* the parentchildedges table
    MinCommunities,   \* COI_MIN_COMMUNITIES
    MaxCommunities,   \* COI_MAX_COMMUNITIES
    MaxId,            \* bound on the ids a behaviour hands out
    HistoryLimit,     \* TEMPORAL_HISTORY_LIMIT
    MaxClock,         \* bound on the timestamps
    NoParent, None,   \* no entry in childToParent; nothing
    Allowed           \* which of the Coincidences below happen

(***************************************************************************)
(*   orphans  giving up, for the server's version, a community it lacks    *)
(*   burst    a name or a new community within the debounce of a stroke    *)
(*   crash    the page goes before the removal of a community is written   *)
(***************************************************************************)
Coincidences == {"orphans", "burst", "crash"}

Ids    == 1..MaxId
Stamps == 1..MaxClock
Geos   == Parents \cup Blocks

ASSUME CommunityAssumption ==
    /\ Parents \cap Blocks = {} /\ IsFiniteSet(Geos)
    /\ ParentOf \in [Blocks -> Parents]
    /\ MinCommunities \in Nat \ {0} /\ MaxCommunities \in Nat
    /\ MinCommunities <= MaxCommunities /\ MaxCommunities < MaxId
    /\ MaxId \in Nat /\ HistoryLimit \in Nat \ {0} /\ MaxClock \in Nat \ {0}
    /\ NoParent \notin Parents /\ None \notin Parents
    /\ Allowed \subseteq Coincidences

VARIABLES
    doc,       \* communityAssignments, childToParent, clientLastUpdated
    names,     \* community_metadata_list
    edited,    \* updated.metadata
    base,      \* mapDocument.updated_at
    past, future, tracking,  \* zundo
    captive,   \* captiveIds (with mode 'break')
    focus,     \* focusFeatures[0]
    request,   \* what the map is locked for, or the conflict dialog
    locked,    \* mapLock
    clock,     \* the last timestamp handed out
    local,     \* the record in IndexedDB
    waiting,   \* pendingUpdate: a record to be written, or None
    server     \* the document on the server

vars == <<doc, names, edited, base, past, future, tracking, captive, focus,
          request, locked, clock, local, waiting, server>>
history == <<past, future, tracking>>
view    == <<captive, focus>>
disk    == <<local, waiting>>
meta    == <<names, edited, base>>

-----------------------------------------------------------------------------
(* Data *)

Names == [Ids -> {"none", "default", "given"}]
Communities(n) == {c \in Ids : n[c] # "none"}

Docs == [ca: [Ids -> SUBSET Geos], up: [Blocks -> Parents \cup {NoParent}], clu: Stamps]

Nowhere == [c \in Ids |-> {}]
Kids(p) == {b \in Blocks : ParentOf[b] = p}
ShownKids(d, p) == {b \in Blocks : d.up[b] = p}
Broken(d)   == {p \in Parents : ShownKids(d, p) # {}}
Assigned(d) == {c \in Ids : d.ca[c] # {}}

Units == Blocks \cup {p \in Parents : Kids(p) = {}}

(* The communities of every unit: its own, and its parent's. *)
Effective(d) ==
    [u \in Units |-> {c \in Ids : u \in d.ca[c] \/ (u \in Blocks /\ ParentOf[u] \in d.ca[c])}]

(* A row per membership.  (Alone, known children in no community are lost.) *)
MemberRows(d) ==
    UNION {{<<g, c, IF g \in Blocks THEN d.up[g] ELSE NoParent>> : g \in d.ca[c]} : c \in Ids}

(* formatCoiAssignmentsFromState: a row per membership, and one without a  *)
(* community for each known child that is in none.                         *)
LocalRows(d) ==
    LET idle == {b \in Blocks : d.up[b] # NoParent /\ \A c \in Ids : b \notin d.ca[c]}
    IN MemberRows(d) \cup {<<b, 0, d.up[b]>> : b \in idle}

(* What PUT /api/assignments stores, and get_assignments with the parent   *)
(* path of every row that is a block.                                      *)
Sent(d) == {<<r[1], r[2]>> : r \in LocalRows(d)}
ServerRows(pairs) ==
    {<<s[1], s[2], IF s[1] \in Blocks THEN ParentOf[s[1]] ELSE NoParent>> : s \in pairs}

(* formatCoiAssignmentsFromDocument *)
Parsed(rows, stamp) ==
    [ca  |-> [c \in Ids |-> {g \in Geos : \E r \in rows : r[1] = g /\ r[2] = c}],
     up  |-> [b \in Blocks |-> IF \E r \in rows : r[1] = b /\ r[3] # NoParent
                               THEN ParentOf[b] ELSE NoParent],
     clu |-> stamp]

(* ingestFromDocument: when some community has geographies and no name,    *)
(* every community is made anew from the assignments.                      *)
Ingested(n, d) ==
    IF Assigned(d) \subseteq Communities(n) THEN n
    ELSE [c \in Ids |-> IF c \in Assigned(d) THEN "default" ELSE "none"]

Record(n, b, d, stamp) == [names |-> n, base |-> b, rows |-> LocalRows(d), stamp |-> stamp]

CanStamp == clock < MaxClock
Fresh    == clock + 1
Tick     == CanStamp /\ clock' = Fresh

(* Bug: the record is written without its timestamp. *)
WriteUndated(n, d, now) ==
    LET r == [names |-> n, base |-> base, rows |-> LocalRows(d)]
    IN IF now THEN local' = r /\ waiting' = None
              ELSE waiting' = r /\ UNCHANGED local

(* updateIdbCoiAssignments, at once or after 500 ms without another. *)
Write(n, d, now) ==
    LET r == Record(n, base, d, Fresh)
    IN IF now THEN local' = r /\ waiting' = None
              ELSE waiting' = r /\ UNCHANGED local

(* A recorded set(): zundo with temporalDiff. *)
Remember ==
    IF tracking
    THEN /\ past' = Append(IF Len(past) >= HistoryLimit THEN Tail(past) ELSE past, doc)
         /\ future' = << >>
    ELSE UNCHANGED <<past, future>>

Init ==
    /\ clock = 1
    /\ server = [names |-> [c \in Ids |-> IF c = 1 THEN "given"
                                          ELSE IF c <= MaxCommunities THEN "default" ELSE "none"],
                 pairs |-> {}, stamp |-> clock]
    /\ doc = Parsed({}, clock)
    /\ names = server.names /\ edited = FALSE /\ base = clock
    /\ past = << >> /\ future = << >> /\ tracking = TRUE
    /\ captive = {} /\ focus = None /\ request = "none" /\ locked = FALSE
    /\ local = Record(names, base, doc, clock) /\ waiting = None

-----------------------------------------------------------------------------
(* Painting and healing *)

(* The candidates whose children are all in the same communities. *)
Healable(d, ps) ==
    {p \in ps \cap Broken(d) :
        \A c \in Ids : d.ca[c] \cap ShownKids(d, p) \in {{}, ShownKids(d, p)}}

(* healParentsIfAllChildrenInSameCommunities *)
Healed(d, ps) ==
    LET hs   == Healable(d, ps)
        kids == UNION {ShownKids(d, p) : p \in hs}
    IN [d EXCEPT !.ca = [c \in Ids |-> (@[c] \ kids)
                            \cup {p \in hs : ShownKids(d, p) \cap @[c] # {}}],
                 !.up = [b \in Blocks |-> IF b \in kids THEN NoParent ELSE @[b]]]

(* healTouchedParentsIfEligible: not in block view. *)
Touched(gs) == IF captive # {} THEN {} ELSE {doc.up[b] : b \in gs \cap Blocks} \ {NoParent}

(* The features the brush finds, as in DistrictEditor. *)
Paintable ==
    LET shown == (Parents \ Broken(doc)) \cup {b \in Blocks : doc.up[b] # NoParent}
    IN IF captive = {} THEN shown ELSE shown \cap captive

(* mutateCommunityAssignments for every feature of a stroke: the brush     *)
(* takes what is not in the community, the eraser what is.                 *)
Mutated(gs, c, erase) ==
    [doc EXCEPT !.ca[c] = IF erase THEN @ \ gs ELSE @ \cup gs, !.clu = Fresh]

(* ingestAccumulatedAssignments.  The healing is not recorded. *)
Stroke(gs, c, erase) ==
    /\ ~locked /\ Tick
    /\ gs # {} /\ gs \subseteq Paintable /\ c \in Communities(names)
    /\ IF erase THEN gs \subseteq doc.ca[c] ELSE gs \cap doc.ca[c] = {}
    /\ LET painted == Mutated(gs, c, erase)
       IN /\ doc' = Healed(painted, Touched(gs))
          /\ Write(names, doc', Healable(painted, Touched(gs)) # {})
    /\ Remember
    /\ UNCHANGED <<meta, tracking, view, request, locked, server>>

(* The timer of the debounced write. *)
TimerFires ==
    /\ waiting # None
    /\ local' = waiting /\ waiting' = None
    /\ UNCHANGED <<doc, meta, history, view, request, locked, clock, server>>

-----------------------------------------------------------------------------
(* Block view *)

StartBreak ==
    /\ ~locked /\ captive = {}
    /\ request' = "break" /\ locked' = TRUE /\ tracking' = FALSE
    /\ UNCHANGED <<doc, meta, past, future, view, clock, disk, server>>

(* Bug: only the first community that holds the parent gets its blocks. *)
BrokenIntoFirst(d, ts) ==
    LET first(p) == CHOOSE c \in Ids : p \in d.ca[c] /\ \A e \in 1..(c - 1) : p \notin d.ca[e]
    IN [d EXCEPT !.ca = [c \in Ids |-> (@[c] \ ts)
                            \cup {b \in Blocks : /\ ParentOf[b] \in ts \cap @[c]
                                                 /\ first(ParentOf[b]) = c}],
                 !.up = [b \in Blocks |-> IF ParentOf[b] \in ts THEN ParentOf[b] ELSE @[b]]]

(* Every community that holds a parent gets all its blocks instead. *)
BrokenInto(d, ts) ==
    [d EXCEPT !.ca = [c \in Ids |-> {g \in @[c] : g \notin ts \/ Kids(g) = {}}
                            \cup {b \in Blocks : ParentOf[b] \in ts \cap @[c]}],
              !.up = [b \in Blocks |-> IF ParentOf[b] \in ts THEN ParentOf[b] ELSE @[b]]]

(* handleShatter: setShatterState, then replaceCommunityAssignments, which *)
(* takes a new timestamp; the recorder is paused.                          *)
BreakDone(ts) ==
    /\ request = "break" /\ Tick
    /\ ts \cap Broken(doc) = {} /\ \E p \in ts : Kids(p) # {}
    /\ doc' = BrokenInto([doc EXCEPT !.clu = Fresh], ts)
    /\ Write(names, doc', FALSE)
    /\ captive' = UNION {Kids(p) : p \in ts}
    /\ focus' \in ts
    /\ request' = "none" /\ locked' = FALSE
    /\ UNCHANGED <<meta, history, server>>

(* No edges, or no answer: the map stays locked, the recorder paused. *)
BreakFails ==
    /\ request = "break"
    /\ request' = "none"
    /\ UNCHANGED <<doc, meta, history, view, locked, clock, disk, server>>

(* exitBlockView: the recorder is only resumed here. *)
ExitBlockView ==
    /\ ~locked /\ captive # {} /\ Tick
    /\ IF Healable(doc, {focus}) # {}
       THEN /\ doc' = Healed([doc EXCEPT !.clu = Fresh], {focus})
            /\ Write(names, doc', TRUE)
       ELSE UNCHANGED <<doc, disk>>
    /\ captive' = {} /\ focus' = None /\ tracking' = TRUE
    /\ UNCHANGED <<meta, past, future, request, locked, server>>

(* Bug: nothing is written to IndexedDB. *)
RestoreUnwritten(s) ==
    /\ ~locked /\ Tick
    /\ doc' = s
    /\ UNCHANGED <<meta, tracking, view, request, locked, disk, server>>

(* undo, redo, and syncCoiIdbAfterUndoRedo *)
Restore(s) ==
    /\ ~locked /\ Tick
    /\ doc' = s
    /\ Write(names, s, TRUE)
    /\ UNCHANGED <<meta, tracking, view, request, locked, server>>

Undo ==
    /\ past # << >> /\ Restore(past[Len(past)])
    /\ past' = SubSeq(past, 1, Len(past) - 1) /\ future' = Append(future, doc)

Redo ==
    /\ future # << >> /\ Restore(future[Len(future)])
    /\ future' = SubSeq(future, 1, Len(future) - 1) /\ past' = Append(past, doc)

-----------------------------------------------------------------------------
(* The list of communities.  The new metadata is written beside the rows   *)
(* that are on disk, whatever waits to be written.                         *)

(* Bug: the metadata is not marked as edited. *)
EditNamesUnmarked(n) ==
    /\ ~locked /\ Tick
    /\ waiting = None \/ "burst" \in Allowed
    /\ names' = n
    /\ doc' = [doc EXCEPT !.clu = Fresh]
    /\ local' = [local EXCEPT !.names = n, !.base = base, !.stamp = Fresh]
    /\ UNCHANGED <<edited, base, history, view, request, locked, waiting, server>>

EditNames(n) ==
    /\ ~locked /\ Tick
    /\ waiting = None \/ "burst" \in Allowed
    /\ names' = n /\ edited' = TRUE
    /\ doc' = [doc EXCEPT !.clu = Fresh]
    /\ local' = [local EXCEPT !.names = n, !.base = base, !.stamp = Fresh]
    /\ UNCHANGED <<base, history, view, request, locked, waiting, server>>

(* getNextCommunityId: one more than the highest. *)
AddCommunity ==
    /\ Cardinality(Communities(names)) < MaxCommunities
    /\ LET id == Max(Communities(names)) + 1
       IN id \in Ids /\ EditNames([names EXCEPT ![id] = "default"])

UpdateCommunity(c) ==
    /\ names[c] = "default"
    /\ EditNames([names EXCEPT ![c] = "given"])

(* removeCommunity of the assignments store: the geographies go, and the   *)
(* parents that they were keeping broken are healed, unless the break tool *)
(* is in hand.  The rows wait for the timer when nothing heals.            *)
Emptied(c) == [doc EXCEPT !.ca[c] = {}, !.clu = Fresh]

DropCommunity(c, breaking) ==
    LET ps     == IF breaking THEN {} ELSE Touched(doc.ca[c])
        record == Record(names', base, doc', Fresh)
    IN /\ doc' = Healed(Emptied(c), ps)
       /\ IF Healable(Emptied(c), ps) # {}
          THEN local' = record /\ waiting' = None
          ELSE /\ waiting' = record
               /\ local' = [local EXCEPT !.names = names', !.base = base, !.stamp = Fresh]

(* Bug: the history is kept. *)
RemoveWithoutPurge(c, breaking) ==
    /\ ~locked /\ Tick
    /\ c \in Communities(names) /\ Cardinality(Communities(names)) > MinCommunities
    /\ names' = [names EXCEPT ![c] = "none"] /\ edited' = TRUE
    /\ DropCommunity(c, breaking)
    /\ Remember
    /\ UNCHANGED <<base, tracking, view, request, locked, server>>

(* removeCommunity of the map store: the new list is written at once,      *)
(* beside the rows on disk, and the history is cleared (purgeZone).        *)
RemoveCommunity(c, breaking) ==
    /\ ~locked /\ Tick
    /\ c \in Communities(names) /\ Cardinality(Communities(names)) > MinCommunities
    /\ names' = [names EXCEPT ![c] = "none"] /\ edited' = TRUE
    /\ DropCommunity(c, breaking)
    /\ past' = << >> /\ future' = << >>
    /\ UNCHANGED <<base, tracking, view, request, locked, server>>

-----------------------------------------------------------------------------
(* Saving, conflicts, loading *)

(* flushPendingUpdate, and the request. *)
StartSave ==
    /\ ~locked
    /\ request' = "save" /\ locked' = TRUE
    /\ local' = IF waiting = None THEN local ELSE waiting
    /\ waiting' = None
    /\ UNCHANGED <<doc, meta, history, view, clock, server>>

(* "reject orphan-producing writes": 400 when an assignment names a        *)
(* community that the metadata does not have.                              *)
Acceptable == Assigned(doc) \subseteq Communities(names)

SaveDone ==
    /\ request \in {"save", "overwrite"} /\ Tick /\ Acceptable
    /\ request = "save" => server.stamp = base
    /\ server' = [names |-> names, pairs |-> Sent(doc), stamp |-> Fresh]
    /\ doc' = [doc EXCEPT !.clu = Fresh]
    /\ edited' = FALSE /\ base' = Fresh
    /\ local' = [names |-> names, base |-> Fresh, rows |-> ServerRows(Sent(doc)), stamp |-> Fresh]
    /\ request' = "none" /\ locked' = FALSE
    /\ UNCHANGED <<names, history, view, waiting>>

SaveFails ==
    /\ request \in {"save", "overwrite"}
    /\ request' = "none" /\ locked' = FALSE
    /\ UNCHANGED <<doc, meta, history, view, clock, disk, server>>

(* 409: the dialog of a conflict, closed with nothing, with one's own      *)
(* version, or with the server's.                                          *)
SaveConflicts ==
    /\ request = "save" /\ server.stamp # base
    /\ request' = "dialog"
    /\ UNCHANGED <<doc, meta, history, view, locked, clock, disk, server>>

CloseDialog ==
    /\ request = "dialog"
    /\ \/ request' = "none" /\ locked' = FALSE
       \/ request' = "overwrite" /\ UNCHANGED locked
    /\ UNCHANGED <<doc, meta, history, view, clock, disk, server>>

(* setMapDocument and ingestFromDocument with a document, of the server or *)
(* of the record; the record gets the names that came with it.             *)
Show(n, b, d) ==
    /\ doc' = d
    /\ names' = Ingested(n, d) /\ edited' = FALSE /\ base' = b
    /\ captive' = {} /\ focus' = None
    /\ request' = "none" /\ locked' = FALSE
    /\ local' = Record(n, b, d, d.clu) /\ waiting' = None
    /\ UNCHANGED <<clock, server>>

(* The same document: the history stays, and the change is recorded. *)
UseServer ==
    /\ request = "dialog"
    /\ Communities(names) \subseteq Communities(server.names) \/ "orphans" \in Allowed
    /\ Show(server.names, server.stamp, Parsed(ServerRows(server.pairs), server.stamp))
    /\ Remember
    /\ UNCHANGED tracking

(* The page reloads: fetchDocument takes the server's version when the     *)
(* record has no edits, and the record when the server has none.  With     *)
(* both it asks, and the user takes the server's: the other answers are in *)
(* DocumentSave.                                                           *)
Reload ==
    /\ request = "none"
    /\ Assigned(Parsed(local.rows, 1)) \subseteq Communities(local.names) \/ "crash" \in Allowed
    /\ \/ /\ local.stamp = local.base \/ server.stamp # local.base
          /\ Show(server.names, server.stamp, Parsed(ServerRows(server.pairs), server.stamp))
       \/ /\ local.stamp # local.base /\ server.stamp = local.base
          /\ Show(local.names, local.base, Parsed(local.rows, local.stamp))
    /\ past' = << >> /\ future' = << >> /\ tracking' = TRUE

(* Someone else saves: the communities they leave, and one geography. *)
OtherSaves(cs, c, p) ==
    /\ Tick /\ c \in cs /\ cs \subseteq Communities(server.names)
    /\ server' = [names |-> [e \in Ids |-> IF e \in cs THEN server.names[e] ELSE "none"],
                  pairs |-> {<<p, c>>}, stamp |-> Fresh]
    /\ UNCHANGED <<doc, meta, history, view, request, locked, disk>>

Next ==
    \/ \E gs \in SUBSET Geos, c \in Ids, erase \in BOOLEAN : Stroke(gs, c, erase)
    \/ TimerFires
    \/ StartBreak \/ BreakFails \/ ExitBlockView
    \/ \E ts \in SUBSET Parents : BreakDone(ts)
    \/ Undo \/ Redo
    \/ AddCommunity
    \/ \E c \in Ids : UpdateCommunity(c)
    \/ \E c \in Ids, breaking \in BOOLEAN : RemoveCommunity(c, breaking)
    \/ StartSave \/ SaveDone \/ SaveFails \/ SaveConflicts \/ CloseDialog \/ UseServer
    \/ Reload
    \/ \E cs \in SUBSET Ids, c \in Ids, p \in Parents : OtherSaves(cs, c, p)

Spec == Init /\ [][Next]_vars

-----------------------------------------------------------------------------
Records == [names: Names, base: Stamps, stamp: Stamps,
            rows: SUBSET (Geos \X (Ids \cup {0}) \X (Parents \cup {NoParent}))]

(* Nothing waiting is no record. *)
ASSUME NothingAssumption == None \notin Records

(* Every variable keeps the shape the stores give it. *)
TypeOK ==
    /\ doc \in Docs /\ past \in Seq(Docs) /\ future \in Seq(Docs)
    /\ names \in Names /\ edited \in BOOLEAN /\ base \in Stamps
    /\ tracking \in BOOLEAN /\ captive \subseteq Blocks /\ focus \in Parents \cup {None}
    /\ request \in {"none", "break", "save", "overwrite", "dialog"} /\ locked \in BOOLEAN
    /\ clock \in Stamps /\ local \in Records /\ (waiting = None \/ waiting \in Records)
    /\ server \in [names: Names, pairs: SUBSET (Geos \X (Ids \cup {0})), stamp: Stamps]

(* What the screen shows now, or after an undo or a redo. *)
Held == {doc} \cup {past[i] : i \in DOMAIN past} \cup {future[i] : i \in DOMAIN future}

(* However breaks, healing, removals and undo follow one another, a broken *)
(* parent is in no community and a block is in one only through its own    *)
(* entry: no population is counted twice for a community.                  *)
NoDoubleCoverage ==
    \A d \in Held :
        /\ \A p \in Broken(d) : ShownKids(d, p) = Kids(p) /\ \A c \in Ids : p \notin d.ca[c]
        /\ \A b \in Blocks : d.up[b] = NoParent => \A c \in Ids : b \notin d.ca[c]

(* "Clears all undo/redo history when a zone is permanently removed"       *)
(* (temporal.ts): no undo or redo brings geographies back into a community *)
(* that is not in the list, which the server would refuse to save.         *)
AssignedExist == \A d \in Held : Assigned(d) \subseteq Communities(names)

(* The indicator is dark only when the server has what the tab shows.      *)
CleanMeansSaved ==
    doc.clu = base /\ ~edited /\ server.stamp = base =>
        /\ Effective(doc) = Effective(Parsed(ServerRows(server.pairs), 1))
        /\ names = server.names

(* A reload keeps the list of communities, without those that were removed *)
(* and with the names the user gave, even before the timer of a stroke;    *)
(* and it keeps every membership that is written.                          *)
ReloadKeepsPlan ==
    [][Reload /\ server.stamp = base =>
         names' = names /\ (waiting = None => Effective(doc') = Effective(doc))]_vars

(* Breaking a geography and leaving block view change no unit's            *)
(* communities, however many communities overlap there.                    *)
BlockViewKeepsUnits ==
    [][(\E ts \in SUBSET Parents : BreakDone(ts)) \/ ExitBlockView =>
         Effective(doc') = Effective(doc)]_vars
=============================================================================
