------------------------ MODULE DistrictEditorProofs ------------------------
(***************************************************************************)
(* What is proved of DistrictEditor for every set of geographies, every    *)
(* number of districts, every history limit and every choice of gestures.  *)
(* Part one is about the recorder, the bookkeeping of broken parents and   *)
(* the local copy.  Part two is what the user sees: no unit is covered     *)
(* twice, the blocks of a broken parent are all listed, strokes are exact, *)
(* breaking and healing change no zone, a reload and a dark indicator tell *)
(* the truth, and the editor implements PlanHistory.                       *)
(***************************************************************************)
EXTENDS DistrictEditor, SequenceTheorems, TLAPS

Rows == [za: [Geos -> Entries], path: [Blocks -> Parents \cup {NoParent}]]

-----------------------------------------------------------------------------
(* Types of the operators the actions are built from *)

LEMMA FreshStamp ==
    ASSUME clock \in Stamps, CanStamp PROVE Fresh \in Stamps
BY EditorAssumption DEF CanStamp, Fresh, Stamps

LEMMA ZoneOfType ==
    ASSUME NEW za, NEW ids PROVE ZoneOf(za, ids) \in Entries
BY DEF ZoneOf, Entries

LEMMA HealableParents ==
    ASSUME NEW d, NEW candidates PROVE Healable(d, candidates) \subseteq candidates
BY DEF Healable

LEMMA HealedType ==
    ASSUME NEW d \in Docs, NEW candidates \in SUBSET Parents
    PROVE  Healed(d, candidates) \in Docs
<1> DEFINE ps   == Healable(d, candidates)
           kids == UNION {d.parentToChild[p] : p \in ps}
<1>1. Absent \in Entries
  BY DEF Entries
<1> QED BY <1>1, ZoneOfType, HealableParents DEF Healed, Docs

LEMMA BrokenType ==
    ASSUME NEW d \in Docs, NEW targets \in SUBSET Parents
    PROVE  Broken(d, targets) \in Docs
<1>1. Absent \in Entries /\ Null \in Entries
  BY DEF Entries
<1>2. BreakZones(d.za, targets) \in [Geos -> Entries]
  BY <1>1, EditorAssumption DEF BreakZones, Docs, Geos, Entries
<1> QED BY <1>2, EditorAssumption DEF Broken, EdgesOf, Kids, Docs

LEMMA ServerRowsType ==
    ASSUME NEW za \in [Geos -> Entries] PROVE ServerRows(za) \in Rows
BY EditorAssumption DEF ServerRows, Rows

LEMMA LocalRowsType ==
    ASSUME NEW d \in Docs PROVE LocalRows(d) \in Rows
BY DEF LocalRows, Rows, Docs

LEMMA ParsedType ==
    ASSUME NEW rows \in Rows, NEW stamp \in Stamps PROVE Parsed(rows, stamp) \in Docs
BY DEF Parsed, Rows, Docs

LEMMA PaintedType ==
    ASSUME staged \in [Geos -> Entries], NEW za \in [Geos -> Entries]
    PROVE  Painted(za) \in [Geos -> Entries]
BY DEF Painted

LEMMA IngestedType ==
    ASSUME TypeOK, NEW stamp \in Stamps PROVE Ingested(stamp) \in Docs
<1> DEFINE merged == [doc EXCEPT !.za = Painted(doc.za), !.clu = stamp]
           tagged == IF captive # {} THEN {}
                     ELSE {doc.childToParent[b] : b \in {c \in doc.children : staged[c] # Absent}}
                            \ {NoParent}
<1>1. merged \in Docs
  BY PaintedType DEF TypeOK, Docs
<1>2. tagged \in SUBSET Parents
  BY DEF TypeOK, Docs
<1>3. Ingested(stamp) = Healed(merged, tagged)
  BY DEF Ingested, TypeOK, Docs
<1> QED BY <1>1, <1>2, <1>3, HealedType

LEMMA LocalCopyType ==
    ASSUME NEW d \in Docs, NEW num \in MinDistricts..MaxDistricts, NEW stamp \in Stamps
    PROVE  LocalCopy(d, num, stamp)
             \in [rows: Rows, num: MinDistricts..MaxDistricts, stamp: Stamps]
BY LocalRowsType DEF LocalCopy

-----------------------------------------------------------------------------
(* The recorder *)

LEMMA SnapshotType ==
    ASSUME TypeOK PROVE Snapshot \in Snapshots
BY DEF TypeOK, Snapshot, Snapshots

LEMMA KeepType ==
    ASSUME NEW before \in Snapshots, NEW after \in Snapshots
    PROVE  Keep(before, after) \in Snapshots
BY DEF Keep, Diff, Snapshots

LEMMA DropLast ==
    ASSUME NEW S, NEW s \in Seq(S), s # << >>
    PROVE  /\ SubSeq(s, 1, Len(s) - 1) \in Seq(S)
           /\ s[Len(s)] \in S
           /\ Elements(SubSeq(s, 1, Len(s) - 1)) \subseteq Elements(s)
           /\ s[Len(s)] \in Elements(s)
BY DEF Elements

LEMMA DropFirst ==
    ASSUME NEW S, NEW s \in Seq(S), s # << >>
    PROVE  Tail(s) \in Seq(S) /\ Elements(Tail(s)) \subseteq Elements(s)
BY DEF Elements

LEMMA AppendElements ==
    ASSUME NEW S, NEW s \in Seq(S), NEW e \in S
    PROVE  Append(s, e) \in Seq(S) /\ Elements(Append(s, e)) \subseteq Elements(s) \cup {e}
BY DEF Elements

(* What the recorder may add: the store as it was, or the snapshot from    *)
(* before the last break.                                                  *)
LEMMA RecordStep ==
    ASSUME TypeOK, NEW on, NEW newDoc \in Docs, Record(on, newDoc)
    PROVE  /\ past' \in Seq(Snapshots) /\ future' \in Seq(Snapshots)
           /\ Elements(future') \subseteq Elements(future)
           /\ \A s \in Elements(past') :
                 \/ s \in Elements(past)
                 \/ s = Snapshot
                 \/ pending # None /\ s = [doc |-> pending, pending |-> None]
<1> DEFINE after == [doc |-> newDoc, pending |-> None]
           d     == Diff(Snapshot, after)
           room  == IF Len(past) >= HistoryLimit THEN Tail(past) ELSE past
<1>1. CASE past' = past /\ future' = future
  BY <1>1 DEF TypeOK
<1>2. CASE past' = Append(room, d) /\ future' = << >> /\ d # None
  <2>1. room \in Seq(Snapshots) /\ Elements(room) \subseteq Elements(past)
    BY DropFirst, EditorAssumption DEF TypeOK
  <2>2. d = Snapshot \/ (pending # None /\ d = [doc |-> pending, pending |-> None])
    <3>1. Snapshot.pending = pending /\ after.pending = None
      BY DEF Snapshot
    <3>2. \/ d = None \/ d = Snapshot
          \/ Snapshot.pending # None /\ d = [doc |-> Snapshot.pending, pending |-> None]
      BY DEF Diff
    <3>3. d # None
      BY <1>2
    <3> HIDE DEF d
    <3> QED BY <3>1, <3>2, <3>3
  <2>3. d \in Snapshots
    BY <2>2, SnapshotType DEF TypeOK, Snapshots
  <2>4. Elements(future') = {} /\ future' \in Seq(Snapshots)
    BY <1>2 DEF Elements
  <2> HIDE DEF d, room
  <2>5. past' \in Seq(Snapshots) /\ Elements(past') \subseteq Elements(room) \cup {d}
    BY <1>2, <2>1, <2>3, AppendElements
  <2> QED BY <2>1, <2>2, <2>4, <2>5
<1> QED BY <1>1, <1>2 DEF Record, Push

-----------------------------------------------------------------------------
(* Type correctness *)

LEMMA InitType == Init => TypeOK
<1> SUFFICES ASSUME Init PROVE TypeOK
  OBVIOUS
<1>1. NoZones \in [Geos -> Entries]
  BY DEF NoZones, Entries
<1>2. clock \in Stamps /\ MaxDistricts \in MinDistricts..MaxDistricts
  BY EditorAssumption DEF Init, Stamps
<1>3. server \in [za: [Geos -> Entries], num: MinDistricts..MaxDistricts, stamp: Stamps]
  BY <1>1, <1>2 DEF Init
<1>4. doc \in Docs
  BY <1>3, ServerRowsType, ParsedType DEF Init
<1>5. local \in [rows: Rows, num: MinDistricts..MaxDistricts, stamp: Stamps]
  BY <1>3, <1>4, LocalCopyType DEF Init
<1>6. request \in Requests
  BY <1>1 DEF Init, NoRequest, Requests
<1>7. past \in Seq(Snapshots) /\ future \in Seq(Snapshots)
  BY DEF Init
<1>8. numDistricts \in MinDistricts..MaxDistricts
  BY <1>3 DEF Init
<1> QED BY <1>1, <1>2, <1>3, <1>4, <1>5, <1>6, <1>7, <1>8 DEF Init, TypeOK, Rows

LEMMA StageType ==
    ASSUME TypeOK, NEW g \in Geos, NEW z \in (1..numDistricts) \cup {Null}, Stage(g, z)
    PROVE  TypeOK'
<1>1. z \in Entries
  BY EditorAssumption DEF TypeOK, Entries, Zones
<1> QED BY <1>1 DEF Stage, TypeOK, history, view

LEMMA FlushType ==
    ASSUME TypeOK, Flush PROVE TypeOK'
<1>1. Fresh \in Stamps /\ clock' \in Stamps
  BY FreshStamp DEF Flush, Tick, TypeOK
<1>2. doc' \in Docs
  BY <1>1, IngestedType DEF Flush
<1>3. past' \in Seq(Snapshots) /\ future' \in Seq(Snapshots)
  BY <1>2, RecordStep DEF Flush
<1>4. [doc EXCEPT !.za = doc'.za] \in Docs
  BY <1>2 DEF Docs, TypeOK
<1>5. local' \in [rows: Rows, num: MinDistricts..MaxDistricts, stamp: Stamps]
  BY <1>1, <1>4, LocalCopyType DEF Flush, TypeOK
<1>6. staged' \in [Geos -> Entries]
  BY DEF Flush, NoZones, Entries
<1> QED BY <1>1, <1>2, <1>3, <1>5, <1>6 DEF Flush, TypeOK, view, Rows

LEMMA StartBreakType ==
    ASSUME TypeOK, NEW ts \in SUBSET Parents, StartBreak(ts) PROVE TypeOK'
<1>1. request' \in Requests
  BY DEF StartBreak, Requests, NoZones, Entries
<1> QED BY <1>1 DEF StartBreak, TypeOK, view

LEMMA BreakDoneType ==
    ASSUME TypeOK, NEW p \in Parents, BreakDone(p) PROVE TypeOK'
<1>1. doc' \in Docs
  BY BrokenType DEF BreakDone, TypeOK, Requests
<1>2. request' \in Requests
  BY DEF BreakDone, Requests, NoRequest, NoZones, Entries
<1>3. captive' \subseteq Blocks
  BY DEF BreakDone, EdgesOf
<1> QED BY <1>1, <1>2, <1>3 DEF BreakDone, TypeOK, history

LEMMA BreakFailsType ==
    ASSUME TypeOK, BreakFails PROVE TypeOK'
<1>1. request' \in Requests
  BY DEF BreakFails, Requests, NoRequest, NoZones, Entries
<1> QED BY <1>1 DEF BreakFails, TypeOK, history, view

LEMMA ExitType ==
    ASSUME TypeOK, ExitBlockView PROVE TypeOK'
<1> DEFINE ingested   == IF Stroking THEN Ingested(Fresh) ELSE [doc EXCEPT !.clu = Fresh]
           candidates == IF focus = None THEN ingested.parents ELSE {focus}
<1>1. Fresh \in Stamps /\ clock' \in Stamps
  BY FreshStamp DEF ExitBlockView, Tick, TypeOK
<1>2. ingested \in Docs
  BY <1>1, IngestedType DEF Docs, TypeOK
<1>3. [doc EXCEPT !.za = ingested.za] \in Docs
  BY <1>2 DEF Docs, TypeOK
<1> HIDE DEF ingested
<1>4. candidates \in SUBSET Parents
  BY <1>2 DEF Docs, TypeOK
<1>5. doc' = Healed(ingested, candidates) /\ Record(Stroking, ingested)
  BY DEF ExitBlockView, ingested
<1>6. doc' \in Docs
  BY <1>2, <1>4, <1>5, HealedType
<1>7. past' \in Seq(Snapshots) /\ future' \in Seq(Snapshots)
  BY <1>2, <1>5, RecordStep
<1>8. local' \in [rows: Rows, num: MinDistricts..MaxDistricts, stamp: Stamps]
  BY <1>1, <1>3, LocalCopyType DEF ExitBlockView, TypeOK, Rows, ingested
<1>9. staged' \in [Geos -> Entries]
  BY DEF ExitBlockView, NoZones, Entries
<1> QED BY <1>1, <1>6, <1>7, <1>8, <1>9 DEF ExitBlockView, TypeOK, Rows

LEMMA RestoreType ==
    ASSUME TypeOK, CanStamp, NEW s \in Snapshots, Restore(s)
    PROVE  /\ doc' \in Docs /\ pending' \in Docs \cup {None}
           /\ local' \in [rows: Rows, num: MinDistricts..MaxDistricts, stamp: Stamps]
           /\ UNCHANGED <<tracking, staged, captive, focus, request, locked, numDistricts, server>>
<1>1. Fresh \in Stamps /\ s.doc \in Docs
  BY FreshStamp DEF TypeOK, Snapshots
<1>2. local' \in [rows: Rows, num: MinDistricts..MaxDistricts, stamp: Stamps]
  BY <1>1, LocalCopyType DEF Restore, TypeOK
<1> QED BY <1>1, <1>2 DEF Restore, Snapshots, view

LEMMA UndoType ==
    ASSUME TypeOK, Undo PROVE TypeOK'
<1> DEFINE s == past[Len(past)]
<1>1. clock' \in Stamps /\ CanStamp
  BY FreshStamp DEF Undo, Tick, TypeOK
<1>2. s \in Snapshots /\ past' \in Seq(Snapshots)
  BY DropLast DEF Undo, TypeOK
<1>3. Keep(Snapshot, s) \in Snapshots
  BY <1>2, SnapshotType, KeepType
<1>4. future' \in Seq(Snapshots)
  BY <1>3, AppendElements DEF Undo, TypeOK
<1>5. Restore(s)
  BY DEF Undo
<1> HIDE DEF s
<1> QED BY <1>1, <1>2, <1>4, <1>5, RestoreType DEF TypeOK, Rows

LEMMA RedoType ==
    ASSUME TypeOK, Redo PROVE TypeOK'
<1> DEFINE s == future[Len(future)]
<1>1. clock' \in Stamps /\ CanStamp
  BY FreshStamp DEF Redo, Tick, TypeOK
<1>2. s \in Snapshots /\ future' \in Seq(Snapshots)
  BY DropLast DEF Redo, TypeOK
<1>3. Keep(Snapshot, s) \in Snapshots
  BY <1>2, SnapshotType, KeepType
<1>4. past' \in Seq(Snapshots)
  BY <1>3, AppendElements DEF Redo, TypeOK
<1>5. Restore(s)
  BY DEF Redo
<1> HIDE DEF s
<1> QED BY <1>1, <1>2, <1>4, <1>5, RestoreType DEF TypeOK, Rows

LEMMA SetNumDistrictsType ==
    ASSUME TypeOK, NEW n \in MinDistricts..MaxDistricts, SetNumDistricts(n) PROVE TypeOK'
<1>1. Fresh \in Stamps /\ clock' \in Stamps
  BY FreshStamp DEF SetNumDistricts, Tick, TypeOK
<1>2. doc' \in Docs
  BY <1>1 DEF SetNumDistricts, TypeOK, Docs
<1> QED BY <1>1, <1>2 DEF SetNumDistricts, TypeOK, history, view

LEMMA DecreaseType ==
    ASSUME TypeOK, DecreaseDistricts PROVE TypeOK'
<1>1. Fresh \in Stamps /\ clock' \in Stamps
  BY FreshStamp DEF DecreaseDistricts, Tick, TypeOK
<1>2. doc' \in Docs
  BY <1>1 DEF DecreaseDistricts, TypeOK, Docs, Entries
<1>3. numDistricts - 1 \in MinDistricts..MaxDistricts
  BY EditorAssumption DEF DecreaseDistricts, TypeOK
<1>4. staged' \in [Geos -> Entries]
  BY DEF DecreaseDistricts, NoZones, Entries
<1> QED BY <1>1, <1>2, <1>3, <1>4 DEF DecreaseDistricts, TypeOK, history, view

LEMMA StartType ==
    ASSUME TypeOK, NEW kind \in {"save", "reset", "revert"}, Start(kind) PROVE TypeOK'
<1>1. request' \in Requests
  BY DEF Start, TypeOK, Requests, Docs
<1> QED BY <1>1 DEF Start, TypeOK, history, view

LEMMA SaveDoneType ==
    ASSUME TypeOK, SaveDone PROVE TypeOK'
<1>1. Fresh \in Stamps /\ clock' \in Stamps
  BY FreshStamp DEF SaveDone, Tick, TypeOK
<1>2. doc' \in Docs
  BY <1>1 DEF SaveDone, TypeOK, Docs
<1>3. request.za \in [Geos -> Entries] /\ request' \in Requests
  BY DEF SaveDone, TypeOK, Requests, NoRequest, NoZones, Entries
<1>4. ServerRows(request.za) \in Rows
  BY <1>3, ServerRowsType
<1> QED BY <1>1, <1>2, <1>3, <1>4 DEF SaveDone, TypeOK, view, Rows

LEMMA RevertDoneType ==
    ASSUME TypeOK, RevertDone PROVE TypeOK'
<1>1. server.stamp \in Stamps /\ server.num \in MinDistricts..MaxDistricts
        /\ server.za \in [Geos -> Entries]
  BY DEF TypeOK
<1>2. doc' \in Docs
  BY <1>1, ServerRowsType, ParsedType DEF RevertDone
<1>3. past' \in Seq(Snapshots) /\ future' \in Seq(Snapshots)
  BY <1>2, RecordStep DEF RevertDone
<1>4. local' \in [rows: Rows, num: MinDistricts..MaxDistricts, stamp: Stamps]
  BY <1>1, <1>2, LocalCopyType DEF RevertDone
<1>5. request' \in Requests
  BY DEF RevertDone, Requests, NoRequest, NoZones, Entries
<1> QED BY <1>1, <1>2, <1>3, <1>4, <1>5 DEF RevertDone, TypeOK, view, Rows

LEMMA ResetDoneType ==
    ASSUME TypeOK, ResetDone PROVE TypeOK'
<1>1. NoZones \in [Geos -> Entries]
  BY DEF NoZones, Entries
<1>2. doc' \in Docs
  BY <1>1, ServerRowsType, ParsedType DEF ResetDone, TypeOK, Docs
<1>3. request' \in Requests
  BY <1>1 DEF ResetDone, Requests, NoRequest
<1> QED BY <1>1, <1>2, <1>3 DEF ResetDone, TypeOK, history, view

LEMMA FailureType ==
    ASSUME TypeOK, RequestFails \/ ResetFails PROVE TypeOK'
<1>1. request' \in Requests
  BY DEF RequestFails, ResetFails, Requests, NoRequest, NoZones, Entries
<1> QED BY <1>1 DEF RequestFails, ResetFails, TypeOK, history, view

LEMMA ReloadType ==
    ASSUME TypeOK, Reload PROVE TypeOK'
<1>1. local.rows \in Rows /\ local.stamp \in Stamps
  BY DEF TypeOK, Rows
<1>2. doc' \in Docs
  BY <1>1, ParsedType DEF Reload, LoadedStamp
<1>3. numDistricts' \in MinDistricts..MaxDistricts
  BY DEF Reload, TypeOK
<1>4. local' \in [rows: Rows, num: MinDistricts..MaxDistricts, stamp: Stamps]
  BY <1>1, <1>2, <1>3, LocalCopyType DEF Reload, LoadedStamp
<1>5. staged' \in [Geos -> Entries]
  BY DEF Reload, NoZones, Entries
<1>6. past' \in Seq(Snapshots) /\ future' \in Seq(Snapshots)
  BY DEF Reload
<1> QED BY <1>2, <1>3, <1>4, <1>5, <1>6 DEF Reload, TypeOK, Rows

(* Every step keeps every variable in its type. *)
LEMMA NextType == TypeOK /\ [Next]_vars => TypeOK'
<1> SUFFICES ASSUME TypeOK, [Next]_vars PROVE TypeOK'
  OBVIOUS
<1>1. CASE Brush
  BY <1>1, StageType DEF Brush
<1>2. CASE \E ts \in SUBSET Parents : StartBreak(ts)
  BY <1>2, StartBreakType
<1>3. CASE \E p \in Parents : BreakDone(p)
  BY <1>3, BreakDoneType
<1>4. CASE \E n \in MinDistricts..MaxDistricts : SetNumDistricts(n)
  BY <1>4, SetNumDistrictsType
<1>5. CASE StartSave \/ AutoSave \/ StartRevert \/ StartReset
  BY <1>5, StartType DEF StartSave, AutoSave, StartRevert, StartReset
<1>6. CASE UNCHANGED vars
  BY <1>6 DEF vars, TypeOK
<1> QED BY <1>1, <1>2, <1>3, <1>4, <1>5, <1>6, FlushType, BreakFailsType, ExitType,
           UndoType, RedoType, DecreaseType, SaveDoneType, RevertDoneType, ResetDoneType,
           FailureType, ReloadType DEF Next

(* The store, the recorder and both copies of the plan keep their types.   *)
THEOREM TypeCorrect == Spec => []TypeOK
BY InitType, NextType, PTL DEF Spec

-----------------------------------------------------------------------------
(* The shatter collections agree *)

PathsAgree(rows) == \A b \in Blocks : rows.path[b] \in {NoParent, ParentOf[b]}

LEMMA HealedAgrees ==
    ASSUME NEW d \in Docs, NEW candidates \in SUBSET Parents, Agree(d)
    PROVE  Agree(Healed(d, candidates))
<1> DEFINE ps   == Healable(d, candidates)
           kids == UNION {d.parentToChild[p] : p \in ps}
           h    == Healed(d, candidates)
<1>1. ps \subseteq Parents
  BY DEF Healable
<1>2. \A p \in Parents : d.parentToChild[p] = {b \in d.children : ParentOf[b] = p}
  BY DEF Agree
<1>3. \A b \in Blocks : b \in kids <=> b \in d.children /\ ParentOf[b] \in ps
  BY <1>1, <1>2, EditorAssumption
<1>4. /\ h.children = d.children \ kids
      /\ h.parents = d.parents \ ps
      /\ h.parentToChild = [p \in Parents |-> IF p \in ps THEN {} ELSE d.parentToChild[p]]
      /\ h.childToParent = [b \in Blocks |-> IF b \in kids THEN NoParent ELSE d.childToParent[b]]
  BY DEF Healed
<1>5. d.children \subseteq Blocks
  BY DEF Docs
<1> HIDE DEF ps, kids, h
<1>6. \A b \in Blocks : h.childToParent[b] \in {NoParent, ParentOf[b]}
  BY <1>4 DEF Agree
<1>7. h.children = {b \in Blocks : h.childToParent[b] # NoParent}
  BY <1>4, <1>5 DEF Agree
<1>8. h.parentToChild = [p \in Parents |-> {b \in h.children : ParentOf[b] = p}]
  <2>1. \A p \in Parents : h.parentToChild[p] = {b \in h.children : ParentOf[b] = p}
    BY <1>2, <1>3, <1>4, <1>5
  <2> QED BY <2>1, <1>4
<1>9. h.parents = {ParentOf[b] : b \in h.children}
  BY <1>3, <1>4, <1>5 DEF Agree
<1> QED BY <1>6, <1>7, <1>8, <1>9 DEF Agree, h

LEMMA BrokenAgrees ==
    ASSUME NEW d \in Docs, NEW targets \in SUBSET Parents, Agree(d)
    PROVE  Agree(Broken(d, targets))
<1> DEFINE kids == EdgesOf(targets)
           h    == Broken(d, targets)
<1>1. \A b \in Blocks : b \in kids <=> ParentOf[b] \in targets
  BY DEF EdgesOf
<1>2. kids \subseteq Blocks /\ d.children \subseteq Blocks
  BY DEF EdgesOf, Docs
<1>3. /\ h.children = d.children \cup kids
      /\ h.parents = d.parents \cup {ParentOf[b] : b \in kids}
      /\ h.parentToChild = [p \in Parents |-> IF p \in targets THEN d.parentToChild[p] \cup Kids(p)
                                              ELSE d.parentToChild[p]]
      /\ h.childToParent = [b \in Blocks |-> IF b \in kids THEN ParentOf[b] ELSE d.childToParent[b]]
  BY DEF Broken
<1> HIDE DEF kids, h
<1>4. \A b \in Blocks : h.childToParent[b] \in {NoParent, ParentOf[b]}
  BY <1>3 DEF Agree
<1>5. h.children = {b \in Blocks : h.childToParent[b] # NoParent}
  BY <1>2, <1>3, EditorAssumption DEF Agree
<1>6. h.parentToChild = [p \in Parents |-> {b \in h.children : ParentOf[b] = p}]
  <2>1. \A p \in Parents : d.parentToChild[p] = {b \in d.children : ParentOf[b] = p}
    BY DEF Agree
  <2>2. \A p \in Parents : h.parentToChild[p] = {b \in h.children : ParentOf[b] = p}
    BY <2>1, <1>1, <1>2, <1>3 DEF Kids
  <2> QED BY <2>2, <1>3
<1>7. h.parents = {ParentOf[b] : b \in h.children}
  BY <1>2, <1>3 DEF Agree
<1> QED BY <1>4, <1>5, <1>6, <1>7 DEF Agree, h

LEMMA ParsedAgrees ==
    ASSUME NEW rows \in Rows, PathsAgree(rows), NEW stamp PROVE Agree(Parsed(rows, stamp))
<1> DEFINE h == Parsed(rows, stamp)
<1>1. /\ h.children = {b \in Blocks : rows.path[b] # NoParent}
      /\ h.parents = {p \in Parents : \E b \in Blocks : rows.path[b] = p}
      /\ h.parentToChild = [p \in Parents |-> {b \in Blocks : rows.path[b] = p}]
      /\ h.childToParent = rows.path
  BY DEF Parsed
<1> HIDE DEF h
<1>2. h.parentToChild = [p \in Parents |-> {b \in h.children : ParentOf[b] = p}]
  <2>1. \A p \in Parents : {b \in Blocks : rows.path[b] = p} = {b \in h.children : ParentOf[b] = p}
    BY <1>1, EditorAssumption DEF PathsAgree
  <2> QED BY <2>1, <1>1
<1>3. h.parents = {ParentOf[b] : b \in h.children}
  BY <1>1, EditorAssumption DEF PathsAgree
<1> QED BY <1>1, <1>2, <1>3 DEF Agree, PathsAgree, h

LEMMA ServerPathsAgree ==
    ASSUME NEW za PROVE PathsAgree(ServerRows(za))
BY DEF PathsAgree, ServerRows

LEMMA LocalPathsAgree ==
    ASSUME NEW d, Agree(d) PROVE PathsAgree(LocalRows(d))
BY DEF PathsAgree, LocalRows, Agree

(* Agreement does not look at the zones or at the timestamp. *)
LEMMA SameShattering ==
    ASSUME NEW d \in Docs, NEW e \in Docs, Agree(d),
           e.parents = d.parents, e.children = d.children,
           e.parentToChild = d.parentToChild, e.childToParent = d.childToParent
    PROVE  Agree(e)
BY DEF Agree

LEMMA IngestedAgrees ==
    ASSUME TypeOK, Agree(doc), NEW stamp \in Stamps PROVE Agree(Ingested(stamp))
<1> DEFINE merged == [doc EXCEPT !.za = Painted(doc.za), !.clu = stamp]
           tagged == IF captive # {} THEN {}
                     ELSE {doc.childToParent[b] : b \in {c \in doc.children : staged[c] # Absent}}
                            \ {NoParent}
<1>1. merged \in Docs
  BY PaintedType DEF TypeOK, Docs
<1>2. tagged \in SUBSET Parents
  BY DEF TypeOK, Docs
<1>3. Ingested(stamp) = Healed(merged, tagged)
  BY DEF Ingested, TypeOK, Docs
<1>4. Agree(merged)
  BY <1>1, SameShattering DEF TypeOK, Docs
<1> QED BY <1>1, <1>2, <1>3, <1>4, HealedAgrees

RecorderAgrees == \A s \in Elements(past) \cup Elements(future) : SnapshotAgrees(s)

(* The invariant, taken apart. *)
LEMMA AgreeParts ==
    ASSUME ShatterMapsAgree
    PROVE  /\ Agree(doc)
           /\ pending # None => Agree(pending)
           /\ RecorderAgrees
           /\ PathsAgree(local.rows)
<1>1. Snapshot \in Held /\ \A s \in Elements(past) \cup Elements(future) : s \in Held
  BY DEF Held
<1>2. Snapshot.doc = doc /\ Snapshot.pending = pending
  BY DEF Snapshot
<1>3. SnapshotAgrees(Snapshot) /\ RecorderAgrees
  BY <1>1 DEF ShatterMapsAgree, RecorderAgrees
<1> QED BY <1>2, <1>3 DEF SnapshotAgrees, ShatterMapsAgree, PathsAgree

LEMMA AgreePartsNext ==
    ASSUME Agree(doc'), pending' # None => Agree(pending'), RecorderAgrees', PathsAgree(local'.rows)
    PROVE  ShatterMapsAgree'
BY DEF ShatterMapsAgree, Held, Snapshot, SnapshotAgrees, RecorderAgrees, PathsAgree

LEMMA RecordAgrees ==
    ASSUME TypeOK, ShatterMapsAgree, NEW on, NEW newDoc \in Docs, Record(on, newDoc)
    PROVE  RecorderAgrees'
<1>1. \A s \in Elements(past) \cup Elements(future) : SnapshotAgrees(s)
  BY AgreeParts DEF RecorderAgrees
<1>2. SnapshotAgrees(Snapshot)
  BY AgreeParts DEF SnapshotAgrees, Snapshot
<1>3. ASSUME pending # None PROVE SnapshotAgrees([doc |-> pending, pending |-> None])
  BY <1>3, AgreeParts DEF SnapshotAgrees
<1> QED BY <1>1, <1>2, <1>3, RecordStep DEF RecorderAgrees

LEMMA KeepAgrees ==
    ASSUME NEW before \in Snapshots, NEW after \in Snapshots, SnapshotAgrees(before)
    PROVE  SnapshotAgrees(Keep(before, after))
BY DEF Keep, Diff, SnapshotAgrees, Snapshots

LEMMA FlushAgrees ==
    ASSUME TypeOK, ShatterMapsAgree, Flush PROVE ShatterMapsAgree'
<1>1. Fresh \in Stamps /\ doc' = Ingested(Fresh) /\ Record(TRUE, doc')
  BY FreshStamp DEF Flush, Tick, TypeOK
<1>2. doc' \in Docs /\ Agree(doc')
  BY <1>1, IngestedType, IngestedAgrees, AgreeParts
<1>3. RecorderAgrees'
  BY <1>1, <1>2, RecordAgrees
<1>4. Agree([doc EXCEPT !.za = doc'.za])
  <2>1. [doc EXCEPT !.za = doc'.za] \in Docs
    BY <1>2 DEF Docs, TypeOK
  <2> QED BY <2>1, SameShattering, AgreeParts DEF TypeOK, Docs
<1>5. PathsAgree(local'.rows)
  BY <1>4, LocalPathsAgree DEF Flush, LocalCopy
<1>6. pending' = None
  BY DEF Flush
<1> QED BY <1>2, <1>3, <1>5, <1>6, AgreePartsNext

LEMMA BreakDoneAgrees ==
    ASSUME TypeOK, ShatterMapsAgree, NEW p \in Parents, BreakDone(p) PROVE ShatterMapsAgree'
<1>1. Agree(doc')
  BY BrokenAgrees, AgreeParts DEF BreakDone, TypeOK, Requests
<1>2. Agree(pending')
  BY AgreeParts DEF BreakDone
<1>3. RecorderAgrees' /\ PathsAgree(local'.rows)
  BY AgreeParts DEF BreakDone, history, RecorderAgrees
<1> QED BY <1>1, <1>2, <1>3, AgreePartsNext

LEMMA ExitAgrees ==
    ASSUME TypeOK, ShatterMapsAgree, ExitBlockView PROVE ShatterMapsAgree'
<1> DEFINE ingested   == IF Stroking THEN Ingested(Fresh) ELSE [doc EXCEPT !.clu = Fresh]
           candidates == IF focus = None THEN ingested.parents ELSE {focus}
<1>1. Fresh \in Stamps
  BY FreshStamp DEF ExitBlockView, Tick, TypeOK
<1>2. ingested \in Docs
  BY <1>1, IngestedType DEF Docs, TypeOK
<1>3. Agree(ingested)
  <2>1. CASE Stroking
    BY <2>1, <1>1, IngestedAgrees, AgreeParts
  <2>2. CASE ~Stroking
    BY <2>2, <1>2, SameShattering, AgreeParts DEF TypeOK, Docs
  <2> QED BY <2>1, <2>2
<1>4. [doc EXCEPT !.za = ingested.za] \in Docs
  BY <1>2 DEF Docs, TypeOK
<1>5. Agree([doc EXCEPT !.za = ingested.za])
  BY <1>4, SameShattering, AgreeParts DEF TypeOK, Docs
<1>6. PathsAgree(local'.rows)
  BY <1>5, LocalPathsAgree, AgreeParts DEF ExitBlockView, LocalCopy
<1> HIDE DEF ingested
<1>7. candidates \in SUBSET Parents
  BY <1>2 DEF Docs, TypeOK
<1>8. doc' = Healed(ingested, candidates) /\ Record(Stroking, ingested) /\ pending' = None
  BY DEF ExitBlockView, ingested
<1>9. Agree(doc') /\ RecorderAgrees'
  BY <1>2, <1>3, <1>7, <1>8, HealedAgrees, RecordAgrees
<1> QED BY <1>6, <1>8, <1>9, AgreePartsNext

LEMMA RestoreAgrees ==
    ASSUME NEW s \in Snapshots, SnapshotAgrees(s), Restore(s), RecorderAgrees'
    PROVE  ShatterMapsAgree'
<1>1. Agree(doc') /\ (pending' # None => Agree(pending'))
  BY DEF Restore, SnapshotAgrees
<1>2. PathsAgree(local'.rows)
  BY LocalPathsAgree DEF Restore, LocalCopy, SnapshotAgrees
<1> QED BY <1>1, <1>2, AgreePartsNext

LEMMA UndoAgrees ==
    ASSUME TypeOK, ShatterMapsAgree, Undo PROVE ShatterMapsAgree'
<1> DEFINE s == past[Len(past)]
<1>1. s \in Snapshots /\ s \in Elements(past) /\ Elements(past') \subseteq Elements(past)
  BY DropLast DEF Undo, TypeOK
<1>2. SnapshotAgrees(s) /\ SnapshotAgrees(Snapshot)
  BY <1>1, AgreeParts DEF RecorderAgrees, SnapshotAgrees, Snapshot
<1>3. Keep(Snapshot, s) \in Snapshots /\ SnapshotAgrees(Keep(Snapshot, s))
  BY <1>1, <1>2, SnapshotType, KeepType, KeepAgrees
<1>4. Elements(future') \subseteq Elements(future) \cup {Keep(Snapshot, s)}
  BY <1>3, AppendElements DEF Undo, TypeOK
<1>5. RecorderAgrees'
  BY <1>1, <1>3, <1>4, AgreeParts DEF RecorderAgrees
<1>6. Restore(s)
  BY DEF Undo
<1> HIDE DEF s
<1> QED BY <1>1, <1>2, <1>5, <1>6, RestoreAgrees

LEMMA RedoAgrees ==
    ASSUME TypeOK, ShatterMapsAgree, Redo PROVE ShatterMapsAgree'
<1> DEFINE s == future[Len(future)]
<1>1. s \in Snapshots /\ s \in Elements(future) /\ Elements(future') \subseteq Elements(future)
  BY DropLast DEF Redo, TypeOK
<1>2. SnapshotAgrees(s) /\ SnapshotAgrees(Snapshot)
  BY <1>1, AgreeParts DEF RecorderAgrees, SnapshotAgrees, Snapshot
<1>3. Keep(Snapshot, s) \in Snapshots /\ SnapshotAgrees(Keep(Snapshot, s))
  BY <1>1, <1>2, SnapshotType, KeepType, KeepAgrees
<1>4. Elements(past') \subseteq Elements(past) \cup {Keep(Snapshot, s)}
  BY <1>3, AppendElements DEF Redo, TypeOK
<1>5. RecorderAgrees'
  BY <1>1, <1>3, <1>4, AgreeParts DEF RecorderAgrees
<1>6. Restore(s)
  BY DEF Redo
<1> HIDE DEF s
<1> QED BY <1>1, <1>2, <1>5, <1>6, RestoreAgrees

(* The steps that only restamp the store, drop entries or lose the pending *)
(* snapshot.                                                               *)
LEMMA SameShatteringNext ==
    ASSUME TypeOK, TypeOK', ShatterMapsAgree, UNCHANGED <<past, future>>,
           pending' = pending \/ pending' = None,
           local'.rows = local.rows \/ PathsAgree(local'.rows),
           doc'.parents = doc.parents, doc'.children = doc.children,
           doc'.parentToChild = doc.parentToChild, doc'.childToParent = doc.childToParent
    PROVE  ShatterMapsAgree'
<1>1. Agree(doc')
  BY SameShattering, AgreeParts DEF TypeOK
<1>2. RecorderAgrees'
  BY AgreeParts DEF RecorderAgrees
<1>3. PathsAgree(local'.rows)
  BY AgreeParts DEF PathsAgree
<1>4. pending' # None => Agree(pending')
  BY AgreeParts
<1> QED BY <1>1, <1>2, <1>3, <1>4, AgreePartsNext

LEMMA RevertDoneAgrees ==
    ASSUME TypeOK, TypeOK', ShatterMapsAgree, RevertDone PROVE ShatterMapsAgree'
<1>1. ServerRows(server.za) \in Rows
  BY ServerRowsType DEF TypeOK
<1>2. Agree(doc') /\ doc' \in Docs
  BY <1>1, ParsedAgrees, ServerPathsAgree DEF RevertDone, TypeOK
<1>3. RecorderAgrees'
  BY <1>2, RecordAgrees DEF RevertDone
<1>4. PathsAgree(local'.rows)
  BY <1>2, LocalPathsAgree DEF RevertDone, LocalCopy
<1> QED BY <1>2, <1>3, <1>4, AgreePartsNext DEF RevertDone

LEMMA ResetDoneAgrees ==
    ASSUME TypeOK, ShatterMapsAgree, ResetDone PROVE ShatterMapsAgree'
<1>1. ServerRows(NoZones) \in Rows
  BY ServerRowsType DEF NoZones, Entries
<1>2. Agree(doc')
  BY <1>1, ParsedAgrees, ServerPathsAgree DEF ResetDone
<1>3. RecorderAgrees' /\ PathsAgree(local'.rows)
  BY AgreeParts DEF ResetDone, history, RecorderAgrees
<1> QED BY <1>2, <1>3, AgreePartsNext DEF ResetDone

LEMMA ReloadAgrees ==
    ASSUME TypeOK, ShatterMapsAgree, Reload PROVE ShatterMapsAgree'
<1>1. local.rows \in Rows /\ PathsAgree(local.rows)
  BY AgreeParts DEF TypeOK, Rows
<1>2. Agree(doc')
  BY <1>1, ParsedAgrees DEF Reload, LoadedStamp
<1>3. PathsAgree(local'.rows)
  BY <1>2, LocalPathsAgree DEF Reload, LocalCopy
<1>4. RecorderAgrees'
  BY DEF Reload, RecorderAgrees, Elements
<1> QED BY <1>2, <1>3, <1>4, AgreePartsNext DEF Reload

LEMMA InitAgrees ==
    ASSUME Init PROVE ShatterMapsAgree
<1>1. NoZones \in [Geos -> Entries]
  BY DEF NoZones, Entries
<1>2. Agree(doc) /\ doc \in Docs
  <2>1. ServerRows(NoZones) \in Rows
    BY <1>1, ServerRowsType
  <2> QED BY <2>1, ParsedAgrees, ServerPathsAgree, InitType DEF Init, TypeOK
<1>3. PathsAgree(local.rows)
  BY <1>2, LocalPathsAgree DEF Init, LocalCopy
<1>4. SnapshotAgrees(Snapshot)
  BY <1>2 DEF Init, Snapshot, SnapshotAgrees
<1>5. Held = {Snapshot}
  BY DEF Init, Held, Elements
<1> QED BY <1>3, <1>4, <1>5 DEF ShatterMapsAgree, PathsAgree

(* Every step keeps the agreement: a step either leaves the collections    *)
(* alone, or changes all four together.                                    *)
LEMMA NextAgrees ==
    ASSUME TypeOK, TypeOK', ShatterMapsAgree, [Next]_vars PROVE ShatterMapsAgree'
<1>1. CASE Brush
  <2>1. PICK g \in Geos, z \in (1..numDistricts) \cup {Null} : Stage(g, z)
    BY <1>1 DEF Brush
  <2> QED BY <2>1, SameShatteringNext DEF Stage, history
<1>2. CASE \E ts \in SUBSET Parents : StartBreak(ts)
  <2>1. PICK ts \in SUBSET Parents : StartBreak(ts)
    BY <1>2
  <2> QED BY <2>1, SameShatteringNext DEF StartBreak
<1>3. CASE \E p \in Parents : BreakDone(p)
  BY <1>3, BreakDoneAgrees
<1>4. CASE BreakFails \/ RequestFails \/ ResetFails
  BY <1>4, SameShatteringNext DEF BreakFails, RequestFails, ResetFails, history
<1>5. CASE \E n \in MinDistricts..MaxDistricts : SetNumDistricts(n)
  <2>1. PICK n \in MinDistricts..MaxDistricts : SetNumDistricts(n)
    BY <1>5
  <2>2. /\ doc'.parents = doc.parents /\ doc'.children = doc.children
        /\ doc'.parentToChild = doc.parentToChild /\ doc'.childToParent = doc.childToParent
        /\ local'.rows = local.rows
    BY <2>1 DEF SetNumDistricts, TypeOK, Docs
  <2> QED BY <2>1, <2>2, SameShatteringNext DEF SetNumDistricts, history
<1>6. CASE DecreaseDistricts
  <2>1. /\ doc'.parents = doc.parents /\ doc'.children = doc.children
        /\ doc'.parentToChild = doc.parentToChild /\ doc'.childToParent = doc.childToParent
        /\ local'.rows = local.rows
    BY <1>6 DEF DecreaseDistricts, TypeOK, Docs
  <2> QED BY <1>6, <2>1, SameShatteringNext DEF DecreaseDistricts, history
<1>7. CASE StartSave \/ AutoSave \/ StartRevert \/ StartReset
  BY <1>7, SameShatteringNext DEF StartSave, AutoSave, StartRevert, StartReset, Start, history
<1>8. CASE SaveDone
  <2>1. /\ doc'.parents = doc.parents /\ doc'.children = doc.children
        /\ doc'.parentToChild = doc.parentToChild /\ doc'.childToParent = doc.childToParent
    BY <1>8 DEF SaveDone, TypeOK, Docs
  <2>2. PathsAgree(local'.rows)
    BY <1>8, ServerPathsAgree DEF SaveDone
  <2> QED BY <1>8, <2>1, <2>2, SameShatteringNext DEF SaveDone
<1>9. CASE UNCHANGED vars
  BY <1>9, SameShatteringNext DEF vars
<1> QED BY <1>1, <1>2, <1>3, <1>4, <1>5, <1>6, <1>7, <1>8, <1>9, FlushAgrees, ExitAgrees,
           UndoAgrees, RedoAgrees, RevertDoneAgrees, ResetDoneAgrees, ReloadAgrees DEF Next

(* shatterIds, parentToChild and childToParent agree in the store, in every *)
(* snapshot an undo or a redo could restore, and in the rows a reload      *)
(* would read, whatever the user does and however requests end.            *)
THEOREM ShatteringConsistent == Spec => []ShatterMapsAgree
<1>1. Init => ShatterMapsAgree
  BY InitAgrees
<1>2. TypeOK /\ TypeOK' /\ ShatterMapsAgree /\ [Next]_vars => ShatterMapsAgree'
  BY NextAgrees
<1> QED BY <1>1, <1>2, TypeCorrect, PTL DEF Spec

-----------------------------------------------------------------------------
(* PART TWO: what the user sees *)

(* Every block of a broken parent is a known child and has an entry.  The  *)
(* minus button takes entries away.                                        *)
Full(d) ==
    "decrease" \notin Allowed =>
        \A b \in Blocks : ParentOf[b] \in d.parents => b \in d.children /\ d.za[b] # Absent

Sound(d) == CoveredOnce(d) /\ Full(d)

(* The same of a plan that is only entries (a request, the server) ...     *)
ZonesSound(za) ==
    /\ \A b \in Blocks : za[b] = Absent \/ za[ParentOf[b]] = Absent
    /\ "decrease" \notin Allowed =>
          \A b, c \in Blocks : ParentOf[b] = ParentOf[c] /\ za[b] # Absent => za[c] # Absent

(* ... and of rows with parent paths.                                      *)
RowsSound(rows) ==
    /\ \A b \in Blocks : rows.path[b] = NoParent => rows.za[b] = Absent
    /\ \A b \in Blocks : rows.path[b] # NoParent => rows.za[ParentOf[b]] = Absent
    /\ "decrease" \notin Allowed =>
          \A b, c \in Blocks : ParentOf[b] = ParentOf[c] /\ rows.path[b] # NoParent
                                  => rows.path[c] # NoParent /\ rows.za[c] # Absent

-----------------------------------------------------------------------------
(* The operators keep it *)

LEMMA SoundZones ==
    ASSUME NEW d \in Docs, Agree(d), Sound(d) PROVE ZonesSound(d.za)
<1>1. \A b \in Blocks : d.za[b] # Absent => b \in d.children /\ ParentOf[b] \in d.parents
  BY DEF Sound, CoveredOnce, Agree
<1> QED BY <1>1, EditorAssumption DEF Sound, CoveredOnce, Full, ZonesSound

LEMMA NoZonesSound == ZonesSound(NoZones) /\ NoZones \in [Geos -> Entries]
BY EditorAssumption DEF NoZones, ZonesSound, Entries, Geos

LEMMA ServerSound ==
    ASSUME NEW za \in [Geos -> Entries], ZonesSound(za) PROVE RowsSound(ServerRows(za))
<1>1. \A b \in Blocks : ServerRows(za).path[b] = IF za[b] # Absent THEN ParentOf[b] ELSE NoParent
  BY DEF ServerRows
<1>2. ServerRows(za).za = za
  BY DEF ServerRows
<1> QED BY <1>1, <1>2, EditorAssumption DEF ZonesSound, RowsSound

(* The rows made from new entries and old shatter maps, when the new maps  *)
(* only lost children.                                                     *)
LEMMA LocalSound ==
    ASSUME NEW d \in Docs, NEW e \in Docs, Agree(d), Agree(e), Sound(e),
           e.children \subseteq d.children
    PROVE  RowsSound(LocalRows([d EXCEPT !.za = e.za]))
<1> DEFINE rows == LocalRows([d EXCEPT !.za = e.za])
<1>1. rows.za = e.za
  BY DEF LocalRows, Docs
<1>2. \A b \in Blocks : rows.path[b] = IF e.za[b] # Absent /\ b \in d.children
                                       THEN d.childToParent[b] ELSE NoParent
  BY DEF LocalRows, Docs
<1>3. \A b \in Blocks : e.za[b] # Absent => b \in e.children /\ ParentOf[b] \in e.parents
  BY DEF Sound, CoveredOnce, Agree
<1>4. \A b \in d.children : b \in Blocks /\ d.childToParent[b] = ParentOf[b]
                            /\ d.childToParent[b] # NoParent
  BY DEF Agree
<1> HIDE DEF rows
<1>5. \A b \in Blocks : rows.path[b] # NoParent <=> e.za[b] # Absent
  BY <1>2, <1>3, <1>4
<1> QED BY <1>1, <1>3, <1>5 DEF RowsSound, Sound, CoveredOnce, Full, rows

LEMMA OwnRowsSound ==
    ASSUME NEW d \in Docs, Agree(d), Sound(d) PROVE RowsSound(LocalRows(d))
<1>1. d = [d EXCEPT !.za = d.za]
  BY DEF Docs
<1> QED BY <1>1, LocalSound

LEMMA ParsedSound ==
    ASSUME NEW rows \in Rows, NEW stamp, PathsAgree(rows), RowsSound(rows)
    PROVE  Sound(Parsed(rows, stamp))
<1> DEFINE h == Parsed(rows, stamp)
<1>1. /\ h.za = rows.za
      /\ h.parents = {p \in Parents : \E b \in Blocks : rows.path[b] = p}
      /\ h.children = {b \in Blocks : rows.path[b] # NoParent}
  BY DEF Parsed
<1> HIDE DEF h
<1>2. \A p \in h.parents : \E b \in Blocks : ParentOf[b] = p /\ rows.path[b] # NoParent
  BY <1>1, EditorAssumption DEF PathsAgree
<1>3. CoveredOnce(h)
  BY <1>1, <1>2 DEF RowsSound, CoveredOnce
<1>4. Full(h)
  BY <1>1, <1>2 DEF RowsSound, Full
<1> QED BY <1>3, <1>4 DEF Sound, h

LEMMA HealedSound ==
    ASSUME NEW d \in Docs, NEW candidates \in SUBSET Parents, Agree(d), Sound(d)
    PROVE  Sound(Healed(d, candidates)) /\ Healed(d, candidates).children \subseteq d.children
<1> DEFINE ps   == Healable(d, candidates)
           kids == UNION {d.parentToChild[p] : p \in ps}
           h    == Healed(d, candidates)
<1>1. ps \subseteq Parents
  BY DEF Healable
<1>2. \A b \in Blocks : b \in kids <=> b \in d.children /\ ParentOf[b] \in ps
  BY <1>1, EditorAssumption DEF Agree
<1>3. /\ h.children = d.children \ kids
      /\ h.parents = d.parents \ ps
      /\ \A g \in Geos : h.za[g] = IF g \in ps THEN ZoneOf(d.za, d.parentToChild[g])
                                   ELSE IF g \in kids THEN Absent
                                   ELSE d.za[g]
  BY DEF Healed
<1>4. \A g \in kids : g \in Blocks
  BY <1>1 DEF Docs
<1>5. d.parents \subseteq Parents /\ Parents \subseteq Geos /\ Blocks \subseteq Geos
      /\ Parents \cap Blocks = {}
  BY EditorAssumption DEF Docs, Geos
<1> HIDE DEF ps, kids, h
<1>6. CoveredOnce(h)
  BY <1>1, <1>3, <1>4, <1>5 DEF Sound, CoveredOnce
<1>7. Full(h)
  BY <1>1, <1>2, <1>3, <1>5 DEF Sound, Full
<1> QED BY <1>3, <1>6, <1>7 DEF Sound, h

LEMMA BrokenSound ==
    ASSUME NEW d \in Docs, NEW targets \in SUBSET Parents, Agree(d), Sound(d)
    PROVE  Sound(Broken(d, targets))
<1> DEFINE h == Broken(d, targets)
<1>1. /\ h.children = d.children \cup EdgesOf(targets)
      /\ h.parents = d.parents \cup {ParentOf[b] : b \in EdgesOf(targets)}
      /\ h.za = BreakZones(d.za, targets)
  BY DEF Broken
<1>2. \A b \in Blocks : b \in EdgesOf(targets) <=> ParentOf[b] \in targets
  BY DEF EdgesOf
<1>3. \A p \in Parents : h.za[p] = IF p \in targets /\ Kids(p) # {} THEN Absent ELSE d.za[p]
  BY <1>1, EditorAssumption DEF BreakZones, Geos
<1>4. \A b \in Blocks :
         IF ParentOf[b] \in targets
         THEN h.za[b] = IF d.za[ParentOf[b]] \in Zones THEN d.za[ParentOf[b]] ELSE Null
         ELSE h.za[b] = d.za[b]
  BY <1>1, EditorAssumption DEF BreakZones, Geos
<1>5. EdgesOf(targets) \subseteq Blocks /\ d.parents \subseteq Parents
  BY DEF EdgesOf, Docs
<1> HIDE DEF h
<1>6. \A b \in EdgesOf(targets) : ParentOf[b] \in Parents /\ Kids(ParentOf[b]) # {}
  BY <1>5, EditorAssumption DEF Kids
<1>7. \A b \in Blocks : h.za[b] = Absent => ParentOf[b] \notin targets
  BY <1>4, EditorAssumption
<1>8. CoveredOnce(h)
  BY <1>1, <1>2, <1>3, <1>4, <1>5, <1>6 DEF Sound, CoveredOnce
<1>9. Full(h)
  BY <1>1, <1>2, <1>4, <1>5, <1>7 DEF Sound, Full
<1> QED BY <1>8, <1>9 DEF Sound, h

-----------------------------------------------------------------------------
(* The invariant.  Paint that is staged lies on paintable geographies, and *)
(* no stroke is under way when a break or a revert changes the shattering. *)

SnapshotSound(s) == Sound(s.doc) /\ (s.pending # None => Sound(s.pending))

RecorderSound == \A s \in Elements(past) \cup Elements(future) : SnapshotSound(s)

StagedShown == \A g \in Geos : staged[g] # Absent => g \in (Parents \ doc.parents) \cup doc.children

Settled == request.kind \in {"break", "revert"} => locked /\ ~Stroking

StoreSound == /\ Sound(doc)
              /\ pending # None => Sound(pending)
              /\ RecorderSound
              /\ RowsSound(local.rows)

CopiesSound == ZonesSound(request.za) /\ ZonesSound(server.za)

PlanSound == StoreSound /\ CopiesSound /\ StagedShown /\ Settled

(* Types and agreement, which are proved. *)
Known == TypeOK /\ ShatterMapsAgree

LEMMA MergedSound ==
    ASSUME Known, Sound(doc), StagedShown, NEW stamp \in Stamps
    PROVE  LET merged == [doc EXCEPT !.za = Painted(doc.za), !.clu = stamp]
           IN  merged \in Docs /\ Agree(merged) /\ Sound(merged)
<1> DEFINE merged == [doc EXCEPT !.za = Painted(doc.za), !.clu = stamp]
<1>1. merged \in Docs
  BY PaintedType DEF Known, TypeOK, Docs
<1>2. /\ merged.parents = doc.parents /\ merged.children = doc.children
      /\ merged.parentToChild = doc.parentToChild /\ merged.childToParent = doc.childToParent
      /\ \A g \in Geos : merged.za[g] = IF staged[g] # Absent THEN staged[g] ELSE doc.za[g]
  BY DEF Known, TypeOK, Docs, Painted
<1>3. doc \in Docs /\ Agree(doc) /\ doc.parents \subseteq Parents
  BY AgreeParts DEF Known, TypeOK, Docs
<1>4. Parents \subseteq Geos /\ Blocks \subseteq Geos /\ Parents \cap Blocks = {}
  BY EditorAssumption DEF Geos
<1> HIDE DEF merged
<1>5. Agree(merged)
  BY <1>1, <1>2, <1>3, SameShattering
<1>6. doc.children \subseteq Blocks
  BY <1>3 DEF Docs
<1>7. CoveredOnce(merged)
  BY <1>2, <1>3, <1>4, <1>6 DEF Sound, CoveredOnce, StagedShown
<1>8. Full(merged)
  BY <1>2, <1>3, <1>4 DEF Sound, Full
<1> QED BY <1>1, <1>5, <1>7, <1>8 DEF Sound, merged

LEMMA IngestedSound ==
    ASSUME Known, Sound(doc), StagedShown, NEW stamp \in Stamps
    PROVE  Sound(Ingested(stamp)) /\ Ingested(stamp).children \subseteq doc.children
<1> DEFINE merged == [doc EXCEPT !.za = Painted(doc.za), !.clu = stamp]
           tagged == IF captive # {} THEN {}
                     ELSE {doc.childToParent[b] : b \in {c \in doc.children : staged[c] # Absent}}
                            \ {NoParent}
<1>1. merged \in Docs /\ Agree(merged) /\ Sound(merged)
  BY MergedSound
<1>2. tagged \in SUBSET Parents
  BY DEF Known, TypeOK, Docs
<1>3. Ingested(stamp) = Healed(merged, tagged)
  BY DEF Ingested, Known, TypeOK, Docs
<1>4. merged.children = doc.children
  BY DEF Known, TypeOK, Docs
<1> HIDE DEF merged, tagged
<1> QED BY <1>1, <1>2, <1>3, <1>4, HealedSound

LEMMA RecordSound ==
    ASSUME Known, StoreSound, NEW on, NEW newDoc \in Docs, Record(on, newDoc)
    PROVE  RecorderSound'
<1>1. \A s \in Elements(past) \cup Elements(future) : SnapshotSound(s)
  BY DEF StoreSound, RecorderSound
<1>2. SnapshotSound(Snapshot)
  BY DEF SnapshotSound, Snapshot, StoreSound
<1>3. ASSUME pending # None PROVE SnapshotSound([doc |-> pending, pending |-> None])
  BY <1>3 DEF SnapshotSound, StoreSound
<1> QED BY <1>1, <1>2, <1>3, RecordStep DEF RecorderSound, Known

LEMMA KeepSound ==
    ASSUME NEW before \in Snapshots, NEW after \in Snapshots, SnapshotSound(before)
    PROVE  SnapshotSound(Keep(before, after))
BY DEF Keep, Diff, SnapshotSound, Snapshots

(* Soundness looks at three of the collections and not at the timestamp.   *)
LEMMA Restamped ==
    ASSUME NEW d, NEW e, Sound(d), e.za = d.za, e.parents = d.parents, e.children = d.children
    PROVE  Sound(e)
BY DEF Sound, CoveredOnce, Full

-----------------------------------------------------------------------------
(* The steps *)

LEMMA FlushSound ==
    ASSUME Known, PlanSound, Flush PROVE PlanSound'
<1>1. Fresh \in Stamps /\ doc' = Ingested(Fresh) /\ Record(TRUE, doc')
  BY FreshStamp DEF Flush, Tick, Known, TypeOK
<1>2. Sound(doc') /\ doc'.children \subseteq doc.children
  BY <1>1, IngestedSound DEF PlanSound, StoreSound
<1>3. doc' \in Docs /\ Agree(doc') /\ doc \in Docs /\ Agree(doc)
  BY <1>1, IngestedType, IngestedAgrees, AgreeParts DEF Known, TypeOK
<1>4. RecorderSound'
  BY <1>1, <1>3, RecordSound DEF PlanSound
<1>5. RowsSound(local'.rows)
  BY <1>2, <1>3, LocalSound DEF Flush, LocalCopy
<1>6. staged' = NoZones /\ pending' = None /\ UNCHANGED <<request, locked, server>>
  BY DEF Flush
<1>7. StagedShown' /\ Settled'
  BY <1>6 DEF StagedShown, NoZones, Settled, Stroking, PlanSound
<1> QED BY <1>2, <1>4, <1>5, <1>6, <1>7 DEF PlanSound, StoreSound, CopiesSound

LEMMA StageSound ==
    ASSUME Known, PlanSound, NEW g \in Geos, NEW z, Stage(g, z) PROVE PlanSound'
<1>1. StagedShown'
  BY DEF Stage, Paintable, StagedShown, PlanSound, Known, TypeOK
<1>2. Settled'
  BY DEF Stage, Settled, PlanSound
<1> QED BY <1>1, <1>2 DEF PlanSound, StoreSound, CopiesSound, RecorderSound, Stage, history

LEMMA BreakDoneSound ==
    ASSUME Known, PlanSound, NEW p \in Parents, BreakDone(p) PROVE PlanSound'
<1>1. request.targets \in SUBSET Parents /\ doc \in Docs /\ Agree(doc)
  BY AgreeParts DEF Known, TypeOK, Requests
<1>2. Sound(doc')
  BY <1>1, BrokenSound DEF BreakDone, PlanSound, StoreSound
<1>3. ~Stroking
  BY DEF BreakDone, Settled, PlanSound
<1>4. staged' = NoZones
  BY <1>3 DEF BreakDone, Stroking
<1>5. StagedShown' /\ Settled' /\ ZonesSound(request'.za)
  BY <1>4, NoZonesSound DEF StagedShown, NoZones, Settled, BreakDone, NoRequest
<1> QED BY <1>2, <1>5 DEF PlanSound, StoreSound, CopiesSound, RecorderSound, BreakDone, history

LEMMA StartBreakSound ==
    ASSUME Known, PlanSound, "mid_stroke" \notin Allowed, NEW ts \in SUBSET Parents, StartBreak(ts)
    PROVE  PlanSound'
<1>1. Settled'
  BY DEF StartBreak, CanPoint, Calm, Settled, Stroking
<1>2. ZonesSound(request'.za)
  BY NoZonesSound DEF StartBreak
<1>3. UNCHANGED <<doc, pending, past, future, staged, local, server>>
  BY DEF StartBreak
<1> QED BY <1>1, <1>2, <1>3 DEF PlanSound, StoreSound, CopiesSound, RecorderSound, StagedShown

LEMMA ExitSound ==
    ASSUME Known, PlanSound, "mid_stroke" \notin Allowed, ExitBlockView PROVE PlanSound'
<1> DEFINE ingested   == IF Stroking THEN Ingested(Fresh) ELSE [doc EXCEPT !.clu = Fresh]
           candidates == IF focus = None THEN ingested.parents ELSE {focus}
<1>1. ~Stroking /\ Fresh \in Stamps
  BY FreshStamp DEF ExitBlockView, CanPoint, Calm, Tick, Known, TypeOK
<1>2. ingested \in Docs /\ ingested.za = doc.za
      /\ ingested.parents = doc.parents /\ ingested.children = doc.children
      /\ ingested.parentToChild = doc.parentToChild
      /\ ingested.childToParent = doc.childToParent
  BY <1>1 DEF Docs, Known, TypeOK
<1>3. /\ doc' = Healed(ingested, candidates) /\ Record(Stroking, ingested)
      /\ UNCHANGED <<request, locked, server>> /\ pending' = None /\ staged' = NoZones
  BY DEF ExitBlockView
<1>10. local' = local
  BY <1>1 DEF ExitBlockView
<1>4. doc \in Docs /\ Agree(doc) /\ focus \in Parents \cup {None}
  BY AgreeParts DEF Known, TypeOK
<1> HIDE DEF ingested
<1>5. Agree(ingested) /\ Sound(ingested)
  BY <1>2, <1>4, SameShattering, Restamped DEF PlanSound, StoreSound
<1>6. candidates \in SUBSET Parents
  BY <1>2, <1>4 DEF Docs
<1>7. Sound(doc')
  BY <1>2, <1>3, <1>5, <1>6, HealedSound
<1>8. RecorderSound'
  BY <1>2, <1>3, RecordSound DEF PlanSound
<1>9. StagedShown' /\ Settled'
  BY <1>3 DEF StagedShown, NoZones, Settled, Stroking, PlanSound
<1> QED BY <1>3, <1>7, <1>8, <1>9, <1>10 DEF PlanSound, StoreSound, CopiesSound

LEMMA RestoreSound ==
    ASSUME Known, PlanSound, NEW s \in Snapshots, SnapshotAgrees(s), SnapshotSound(s), ~Stroking,
           Restore(s), RecorderSound'
    PROVE  PlanSound'
<1>1. Sound(doc') /\ (pending' # None => Sound(pending'))
  BY DEF Restore, SnapshotSound
<1>2. s.doc \in Docs /\ Agree(s.doc) /\ Sound(s.doc)
  BY DEF Snapshots, SnapshotAgrees, SnapshotSound
<1>3. RowsSound(local'.rows)
  BY <1>2, OwnRowsSound DEF Restore, LocalCopy
<1>4. staged' = NoZones /\ UNCHANGED <<request, locked, server>>
  BY DEF Restore, Stroking
<1>5. StagedShown' /\ Settled'
  BY <1>4 DEF StagedShown, NoZones, Settled, Stroking, PlanSound
<1> QED BY <1>1, <1>3, <1>4, <1>5 DEF PlanSound, StoreSound, CopiesSound

LEMMA UndoSound ==
    ASSUME Known, PlanSound, "mid_stroke" \notin Allowed, Undo PROVE PlanSound'
<1> DEFINE s == past[Len(past)]
<1>1. s \in Snapshots /\ s \in Elements(past) /\ Elements(past') \subseteq Elements(past)
  BY DropLast DEF Undo, Known, TypeOK
<1>2. SnapshotAgrees(s) /\ SnapshotSound(s) /\ SnapshotSound(Snapshot)
  BY <1>1, AgreeParts DEF RecorderAgrees, RecorderSound, SnapshotSound, Snapshot, Known,
                          PlanSound, StoreSound
<1>3. Keep(Snapshot, s) \in Snapshots /\ SnapshotSound(Keep(Snapshot, s))
  BY <1>1, <1>2, SnapshotType, KeepType, KeepSound DEF Known
<1>4. Elements(future') \subseteq Elements(future) \cup {Keep(Snapshot, s)}
  BY <1>3, AppendElements DEF Undo, Known, TypeOK
<1>5. RecorderSound'
  BY <1>1, <1>3, <1>4 DEF RecorderSound, PlanSound, StoreSound
<1>6. Restore(s) /\ ~Stroking
  BY DEF Undo, CanHotkey, Calm
<1> HIDE DEF s
<1> QED BY <1>1, <1>2, <1>5, <1>6, RestoreSound

LEMMA RedoSound ==
    ASSUME Known, PlanSound, "mid_stroke" \notin Allowed, Redo PROVE PlanSound'
<1> DEFINE s == future[Len(future)]
<1>1. s \in Snapshots /\ s \in Elements(future) /\ Elements(future') \subseteq Elements(future)
  BY DropLast DEF Redo, Known, TypeOK
<1>2. SnapshotAgrees(s) /\ SnapshotSound(s) /\ SnapshotSound(Snapshot)
  BY <1>1, AgreeParts DEF RecorderAgrees, RecorderSound, SnapshotSound, Snapshot, Known,
                          PlanSound, StoreSound
<1>3. Keep(Snapshot, s) \in Snapshots /\ SnapshotSound(Keep(Snapshot, s))
  BY <1>1, <1>2, SnapshotType, KeepType, KeepSound DEF Known
<1>4. Elements(past') \subseteq Elements(past) \cup {Keep(Snapshot, s)}
  BY <1>3, AppendElements DEF Redo, Known, TypeOK
<1>5. RecorderSound'
  BY <1>1, <1>3, <1>4 DEF RecorderSound, PlanSound, StoreSound
<1>6. Restore(s) /\ ~Stroking
  BY DEF Redo, CanHotkey, Calm
<1> HIDE DEF s
<1> QED BY <1>1, <1>2, <1>5, <1>6, RestoreSound

LEMMA SetNumDistrictsSound ==
    ASSUME Known, PlanSound, NEW n, SetNumDistricts(n) PROVE PlanSound'
<1>1. /\ doc'.za = doc.za /\ doc'.parents = doc.parents /\ doc'.children = doc.children
      /\ local'.rows = local.rows
  BY DEF SetNumDistricts, Known, TypeOK, Docs
<1>2. UNCHANGED <<pending, past, future, staged, request, locked, server>>
  BY DEF SetNumDistricts, history
<1>3. Sound(doc')
  BY <1>1, Restamped DEF PlanSound, StoreSound
<1>4. StagedShown'
  BY <1>1, <1>2 DEF StagedShown, PlanSound
<1> QED BY <1>1, <1>2, <1>3, <1>4 DEF PlanSound, StoreSound, CopiesSound, RecorderSound,
                                      Settled, Stroking

LEMMA DecreaseSound ==
    ASSUME Known, PlanSound, DecreaseDistricts PROVE PlanSound'
<1>1. /\ doc'.parents = doc.parents /\ doc'.children = doc.children
      /\ local'.rows = local.rows
      /\ \A g \in Geos : doc'.za[g] \in {Absent, doc.za[g]}
  BY DEF DecreaseDistricts, Known, TypeOK, Docs
<1>2. pending' = None /\ staged' = NoZones /\ UNCHANGED <<past, future, request, locked, server>>
  BY DEF DecreaseDistricts, history
<1>3. "decrease" \in Allowed
  BY DEF DecreaseDistricts
<1>4. doc.parents \subseteq Geos /\ Blocks \subseteq Geos
  BY DEF Known, TypeOK, Docs, Geos
<1>5. Sound(doc')
  BY <1>1, <1>3, <1>4 DEF PlanSound, StoreSound, Sound, CoveredOnce, Full
<1>6. StagedShown' /\ Settled'
  BY <1>2 DEF StagedShown, NoZones, Settled, Stroking, PlanSound
<1> QED BY <1>1, <1>2, <1>5, <1>6 DEF PlanSound, StoreSound, CopiesSound, RecorderSound

LEMMA StartSound ==
    ASSUME Known, PlanSound, "mid_stroke" \notin Allowed,
           StartSave \/ AutoSave \/ StartRevert \/ StartReset
    PROVE  PlanSound'
<1>1. PICK kind \in {"save", "revert", "reset"} :
        Start(kind) /\ (kind = "revert" => ~Stroking)
  BY DEF StartSave, AutoSave, StartRevert, StartReset, CanPoint, Calm
<1>2. ZonesSound(request'.za)
  BY <1>1, SoundZones, AgreeParts DEF Start, Known, TypeOK, PlanSound, StoreSound
<1>3. UNCHANGED <<doc, pending, past, future, staged, local, server>>
      /\ locked' = TRUE /\ request'.kind = kind
  BY <1>1 DEF Start, history
<1>4. Settled'
  BY <1>1, <1>3 DEF Settled, Stroking
<1> QED BY <1>2, <1>3, <1>4 DEF PlanSound, StoreSound, CopiesSound, RecorderSound, StagedShown

LEMMA SaveDoneSound ==
    ASSUME Known, PlanSound, SaveDone PROVE PlanSound'
<1>1. /\ doc'.za = doc.za /\ doc'.parents = doc.parents /\ doc'.children = doc.children
  BY DEF SaveDone, Known, TypeOK, Docs
<1>2. Sound(doc')
  BY <1>1, Restamped DEF PlanSound, StoreSound
<1>3. request.za \in [Geos -> Entries] /\ ZonesSound(request.za)
  BY DEF Known, TypeOK, Requests, PlanSound, CopiesSound
<1>4. RowsSound(local'.rows) /\ ZonesSound(server'.za) /\ ZonesSound(request'.za)
  BY <1>3, ServerSound, NoZonesSound DEF SaveDone, NoRequest
<1>5. StagedShown' /\ Settled'
  BY <1>1 DEF SaveDone, StagedShown, Settled, NoRequest, PlanSound
<1> QED BY <1>2, <1>4, <1>5 DEF PlanSound, StoreSound, CopiesSound, RecorderSound, SaveDone

LEMMA RevertDoneSound ==
    ASSUME Known, PlanSound, RevertDone PROVE PlanSound'
<1>1. ServerRows(server.za) \in Rows /\ RowsSound(ServerRows(server.za))
  BY ServerRowsType, ServerSound DEF Known, TypeOK, PlanSound, CopiesSound
<1>2. doc' \in Docs /\ Agree(doc') /\ Sound(doc')
  BY <1>1, ParsedType, ParsedAgrees, ParsedSound, ServerPathsAgree DEF RevertDone, Known, TypeOK
<1>3. RecorderSound'
  BY <1>2, RecordSound DEF RevertDone, PlanSound
<1>4. RowsSound(local'.rows)
  BY <1>2, OwnRowsSound DEF RevertDone, LocalCopy
<1>5. staged' = NoZones
  BY DEF RevertDone, PlanSound, Settled, Stroking
<1>6. StagedShown' /\ Settled' /\ ZonesSound(request'.za)
  BY <1>5, NoZonesSound DEF StagedShown, NoZones, Settled, RevertDone, NoRequest
<1> QED BY <1>2, <1>3, <1>4, <1>6 DEF PlanSound, StoreSound, CopiesSound, RevertDone

LEMMA ResetDoneSound ==
    ASSUME Known, PlanSound, ResetDone PROVE PlanSound'
<1>1. ServerRows(NoZones) \in Rows /\ RowsSound(ServerRows(NoZones))
  BY ServerRowsType, ServerSound, NoZonesSound
<1>2. Sound(doc')
  BY <1>1, ParsedSound, ServerPathsAgree DEF ResetDone
<1>3. ZonesSound(server'.za) /\ ZonesSound(request'.za)
  BY NoZonesSound DEF ResetDone, NoRequest, Known, TypeOK
<1>4. StagedShown' /\ Settled'
  BY DEF StagedShown, NoZones, Settled, ResetDone, NoRequest
<1> QED BY <1>2, <1>3, <1>4 DEF PlanSound, StoreSound, CopiesSound, RecorderSound,
                                ResetDone, history

LEMMA FailureSound ==
    ASSUME Known, PlanSound, BreakFails \/ RequestFails \/ ResetFails PROVE PlanSound'
<1>1. request' = NoRequest /\ UNCHANGED <<doc, pending, past, future, staged, local, server>>
  BY DEF BreakFails, RequestFails, ResetFails, history
<1>2. Settled' /\ ZonesSound(request'.za)
  BY <1>1, NoZonesSound DEF Settled, NoRequest
<1> QED BY <1>1, <1>2 DEF PlanSound, StoreSound, CopiesSound, RecorderSound, StagedShown

LEMMA ReloadSound ==
    ASSUME Known, PlanSound, Reload PROVE PlanSound'
<1>1. local.rows \in Rows /\ PathsAgree(local.rows) /\ RowsSound(local.rows)
  BY AgreeParts DEF Known, TypeOK, Rows, PlanSound, StoreSound
<1>2. doc' \in Docs /\ Agree(doc') /\ Sound(doc')
  BY <1>1, ParsedType, ParsedAgrees, ParsedSound DEF Reload, LoadedStamp, Known, TypeOK
<1>3. RowsSound(local'.rows)
  BY <1>2, OwnRowsSound DEF Reload, LocalCopy
<1>4. RecorderSound'
  BY DEF Reload, RecorderSound, Elements
<1>5. StagedShown' /\ Settled'
  BY DEF StagedShown, NoZones, Settled, Stroking, Reload
<1> QED BY <1>2, <1>3, <1>4, <1>5 DEF PlanSound, StoreSound, CopiesSound, Reload

LEMMA InitSound ==
    ASSUME Init PROVE PlanSound
<1>1. ServerRows(NoZones) \in Rows /\ RowsSound(ServerRows(NoZones))
  BY ServerRowsType, ServerSound, NoZonesSound
<1>2. doc = Parsed(ServerRows(NoZones), server.stamp) /\ doc \in Docs /\ server.za = NoZones
  BY InitType DEF Init, TypeOK
<1>3. Agree(doc) /\ Sound(doc)
  BY <1>1, <1>2, ParsedAgrees, ParsedSound, ServerPathsAgree
<1>4. RowsSound(local.rows)
  BY <1>2, <1>3, OwnRowsSound DEF Init, LocalCopy
<1>5. RecorderSound /\ StagedShown /\ Settled
  BY DEF Init, RecorderSound, Elements, StagedShown, NoZones, Settled, NoRequest
<1> QED BY <1>2, <1>3, <1>4, <1>5, NoZonesSound DEF PlanSound, StoreSound, CopiesSound, Init,
                                                  NoRequest

LEMMA NextSound ==
    ASSUME Known, PlanSound, "mid_stroke" \notin Allowed, [Next]_vars PROVE PlanSound'
<1>1. CASE Brush
  BY <1>1, StageSound DEF Brush
<1>2. CASE \E ts \in SUBSET Parents : StartBreak(ts)
  BY <1>2, StartBreakSound
<1>3. CASE \E p \in Parents : BreakDone(p)
  BY <1>3, BreakDoneSound
<1>4. CASE \E n \in MinDistricts..MaxDistricts : SetNumDistricts(n)
  BY <1>4, SetNumDistrictsSound
<1>5. CASE UNCHANGED vars
  BY <1>5 DEF vars, PlanSound, StoreSound, CopiesSound, RecorderSound, StagedShown, Settled, Stroking
<1> QED BY <1>1, <1>2, <1>3, <1>4, <1>5, FlushSound, ExitSound, UndoSound, RedoSound,
           DecreaseSound, StartSound, SaveDoneSound, RevertDoneSound, ResetDoneSound,
           FailureSound, ReloadSound DEF Next

LEMMA AlwaysSound ==
    ASSUME "mid_stroke" \notin Allowed PROVE Spec => [](Known /\ PlanSound)
<1>1. Init => PlanSound
  BY InitSound
<1>2. Known /\ PlanSound /\ [Next]_vars => PlanSound'
  BY NextSound
<1>3. Spec => []Known
  BY TypeCorrect, ShatteringConsistent, PTL DEF Known
<1> QED BY <1>1, <1>2, <1>3, PTL DEF Spec

(* No unit is assigned twice, in the store or in a snapshot that an undo   *)
(* or a redo could restore, with every gesture but a hotkey or a button    *)
(* pressed in the middle of a stroke (filterFeatures, setZones,            *)
(* healParentsIfAllChildrenInSameZone, formatAssignmentsFromDocument).     *)
THEOREM NothingTwice == ASSUME "mid_stroke" \notin Allowed PROVE Spec => []NoDoubleCoverage
<1>1. PlanSound => NoDoubleCoverage
  BY DEF PlanSound, StoreSound, RecorderSound, SnapshotSound, Sound, NoDoubleCoverage, Held,
         Snapshot
<1> QED BY <1>1, AlwaysSound, PTL

(* Without the minus button, every block of a broken parent has an entry:  *)
(* the list of unassigned areas and the heal may rely on it.               *)
THEOREM AllBlocksListed ==
    ASSUME Allowed \cap {"mid_stroke", "decrease"} = {} PROVE Spec => []BlocksFullyListed
<1>1. PlanSound => BlocksFullyListed
  BY DEF PlanSound, StoreSound, Sound, Full, BlocksFullyListed
<1>2. "mid_stroke" \notin Allowed
  OBVIOUS
<1> QED BY <1>1, <1>2, AlwaysSound, PTL

-----------------------------------------------------------------------------
(* Zones of units *)

Colours == Zones \cup {Null}

LEMMA Geographies ==
    /\ Parents \subseteq Geos /\ Blocks \subseteq Geos /\ Parents \cap Blocks = {}
    /\ Units \subseteq Geos
    /\ \A b \in Blocks : ParentOf[b] \in Parents /\ b \in Kids(ParentOf[b]) /\ b \in Units
    /\ \A u \in Units : u \in Blocks \/ (u \in Parents /\ u \notin Blocks /\ Kids(u) = {})
    /\ Absent \notin Colours /\ Entries = Colours \cup {Absent}
BY EditorAssumption DEF Geos, Units, Kids, Colours, Entries

LEMMA EffectiveType ==
    ASSUME NEW za \in [Geos -> Entries] PROVE Effective(za) \in [Units -> Colours]
<1>1. \A g \in Geos : za[g] # Absent => za[g] \in Colours
  BY Geographies
<1>2. Null \in Colours
  BY DEF Colours
<1> QED BY <1>1, <1>2, Geographies DEF Effective

LEMMA EffectiveAt ==
    ASSUME NEW za, NEW u \in Units
    PROVE  /\ u \in Blocks => Effective(za)[u] = IF za[u] # Absent THEN za[u]
                                                 ELSE IF za[ParentOf[u]] # Absent THEN za[ParentOf[u]]
                                                 ELSE Null
           /\ u \notin Blocks => Effective(za)[u] = IF za[u] # Absent THEN za[u] ELSE Null
BY DEF Effective

LEMMA SameEffective ==
    ASSUME NEW y, NEW za, \A u \in Units : Effective(y)[u] = Effective(za)[u]
    PROVE  Effective(y) = Effective(za)
BY DEF Effective

(* A parent whose blocks all have an entry is healed into the zone of each. *)
LEMMA HealedZone ==
    ASSUME NEW za \in [Geos -> Entries], NEW ids \in SUBSET Blocks, NEW u \in ids,
           SameZone(za, ids), \A b \in ids : za[b] # Absent
    PROVE  ZoneOf(za, ids) = za[u]
<1>1. \A b \in ids : za[b] = za[u]
  BY DEF SameZone
<1>2. za[u] \in Zones \/ za[u] = Null
  BY Geographies DEF Colours
<1>3. CASE za[u] \in Zones
  <2>1. \E z \in Zones : \E b \in ids : za[b] = z
    BY <1>3
  <2> DEFINE w == CHOOSE z \in Zones : \E b \in ids : za[b] = z
  <2>2. w \in Zones /\ \E b \in ids : za[b] = w
    BY <2>1
  <2>3. ZoneOf(za, ids) = w
    BY <2>1 DEF ZoneOf
  <2> HIDE DEF w
  <2> QED BY <1>1, <2>2, <2>3
<1>4. CASE za[u] = Null
  <2>1. ~ \E z \in Zones : \E b \in ids : za[b] = z
    BY <1>1, <1>4, EditorAssumption
  <2> QED BY <1>4, <2>1 DEF ZoneOf
<1> QED BY <1>2, <1>3, <1>4

(* Healing changes no unit's zone, as the blocks are all listed.           *)
LEMMA HealKeepsZones ==
    ASSUME "decrease" \notin Allowed, NEW d \in Docs, NEW candidates \in SUBSET Parents,
           Agree(d), Sound(d)
    PROVE  Effective(Healed(d, candidates).za) = Effective(d.za)
<1> DEFINE ps   == Healable(d, candidates)
           kids == UNION {d.parentToChild[p] : p \in ps}
           h    == Healed(d, candidates)
<1>1. /\ ps \subseteq Parents
      /\ \A p \in ps : d.parentToChild[p] # {} /\ SameZone(d.za, d.parentToChild[p])
  BY DEF Healable
<1>2. \A p \in Parents : d.parentToChild[p] = {b \in d.children : ParentOf[b] = p}
  BY DEF Agree
<1>3. \A b \in Blocks : b \in kids <=> b \in d.children /\ ParentOf[b] \in ps
  BY <1>1, <1>2, EditorAssumption
<1>4. \A g \in Geos : h.za[g] = IF g \in ps THEN ZoneOf(d.za, d.parentToChild[g])
                                ELSE IF g \in kids THEN Absent ELSE d.za[g]
  BY DEF Healed
<1>5. d.za \in [Geos -> Entries] /\ d.children \subseteq Blocks /\ \A g \in kids : g \in Blocks
  BY <1>1 DEF Docs
<1> HIDE DEF ps, kids, h
<1>6. ASSUME NEW p \in ps, NEW u \in Kids(p)
      PROVE  /\ u \in d.parentToChild[p] /\ d.za[u] # Absent
             /\ ZoneOf(d.za, d.parentToChild[p]) = d.za[u]
  <2>1. p \in d.parents
    <3>1. p \in Parents /\ d.parentToChild[p] # {}
      BY <1>1
    <3>2. PICK b \in d.children : ParentOf[b] = p
      BY <1>2, <3>1
    <3> QED BY <3>2 DEF Agree
  <2>2. \A b \in Kids(p) : b \in d.children /\ d.za[b] # Absent
    BY <2>1 DEF Sound, Full, Kids
  <2>3. d.parentToChild[p] = Kids(p) /\ Kids(p) \subseteq Blocks
    BY <1>1, <1>2, <1>5, <2>2 DEF Kids
  <2>4. SameZone(d.za, Kids(p))
    BY <1>1, <2>3
  <2> QED BY <1>5, <2>2, <2>3, <2>4, HealedZone
<1>7. ASSUME NEW u \in Units, u \in Blocks PROVE Effective(h.za)[u] = Effective(d.za)[u]
  <2>1. ParentOf[u] \in Parents /\ ParentOf[u] \in Geos /\ u \in Geos /\ u \in Kids(ParentOf[u])
        /\ ParentOf[u] \notin Blocks /\ u \notin Parents
    BY <1>7, Geographies
  <2>2. CASE ParentOf[u] \in ps
    <3>1. u \in kids /\ d.za[u] # Absent /\ ZoneOf(d.za, d.parentToChild[ParentOf[u]]) = d.za[u]
      BY <1>2, <1>3, <1>6, <1>7, <2>1, <2>2
    <3>2. h.za[u] = Absent /\ h.za[ParentOf[u]] = d.za[u]
      BY <1>1, <1>4, <2>1, <2>2, <3>1
    <3> QED BY <1>7, <3>1, <3>2, EffectiveAt
  <2>3. CASE ParentOf[u] \notin ps
    <3>1. h.za[u] = d.za[u] /\ h.za[ParentOf[u]] = d.za[ParentOf[u]]
      BY <1>1, <1>3, <1>4, <1>5, <1>7, <2>1, <2>3
    <3> QED BY <1>7, <3>1, EffectiveAt
  <2> QED BY <2>2, <2>3
<1>8. ASSUME NEW u \in Units, u \notin Blocks PROVE Effective(h.za)[u] = Effective(d.za)[u]
  <2>1. u \in Parents /\ u \in Geos /\ Kids(u) = {}
    BY <1>8, Geographies
  <2>2. u \notin ps /\ u \notin kids
    BY <1>1, <1>2, <1>5, <1>8, <2>1 DEF Kids
  <2>3. h.za[u] = d.za[u]
    BY <1>4, <2>1, <2>2
  <2> QED BY <1>8, <2>3, EffectiveAt
<1> QED BY <1>7, <1>8, SameEffective DEF h

(* Breaking parents that are not broken changes no unit's zone.            *)
LEMMA BrokenKeepsZones ==
    ASSUME NEW d \in Docs, NEW targets \in SUBSET Parents, Agree(d), Sound(d),
           targets \cap d.parents = {}
    PROVE  Effective(Broken(d, targets).za) = Effective(d.za)
<1> DEFINE h == Broken(d, targets)
<1>1. h.za = BreakZones(d.za, targets)
  BY DEF Broken
<1>2. \A p \in Parents : h.za[p] = IF p \in targets /\ Kids(p) # {} THEN Absent ELSE d.za[p]
  BY <1>1, EditorAssumption DEF BreakZones, Geos
<1>3. \A b \in Blocks :
         IF ParentOf[b] \in targets
         THEN h.za[b] = IF d.za[ParentOf[b]] \in Zones THEN d.za[ParentOf[b]] ELSE Null
         ELSE h.za[b] = d.za[b]
  BY <1>1, EditorAssumption DEF BreakZones, Geos
<1>4. d.za \in [Geos -> Entries]
  BY DEF Docs
<1> HIDE DEF h
<1>5. ASSUME NEW u \in Units, u \in Blocks PROVE Effective(h.za)[u] = Effective(d.za)[u]
  <2>1. ParentOf[u] \in Parents /\ d.za[ParentOf[u]] \in Colours \cup {Absent}
    BY <1>4, <1>5, Geographies
  <2>2. CASE ParentOf[u] \in targets
    <3>1. ParentOf[u] \notin d.parents
      BY <2>2
    <3>2. u \notin d.children
      BY <1>5, <3>1 DEF Agree
    <3>3. d.za[u] = Absent
      BY <1>5, <3>2 DEF Sound, CoveredOnce
    <3>4. h.za[u] = IF d.za[ParentOf[u]] # Absent THEN d.za[ParentOf[u]] ELSE Null
      BY <1>3, <1>5, <2>1, <2>2, EditorAssumption DEF Colours
    <3>5. h.za[u] # Absent
      BY <1>3, <1>5, <2>2, EditorAssumption
    <3> QED BY <1>5, <3>3, <3>4, <3>5, EffectiveAt
  <2>3. CASE ParentOf[u] \notin targets
    <3>1. h.za[u] = d.za[u] /\ h.za[ParentOf[u]] = d.za[ParentOf[u]]
      BY <1>2, <1>3, <1>5, <2>1, <2>3
    <3> QED BY <1>5, <3>1, EffectiveAt
  <2> QED BY <2>2, <2>3
<1>6. ASSUME NEW u \in Units, u \notin Blocks PROVE Effective(h.za)[u] = Effective(d.za)[u]
  <2>1. u \in Parents /\ Kids(u) = {}
    BY <1>6, Geographies
  <2>2. h.za[u] = d.za[u]
    BY <1>2, <2>1
  <2> QED BY <1>6, <2>2, EffectiveAt
<1> QED BY <1>5, <1>6, SameEffective DEF h

(* The zones after the staged paint.                                       *)
AfterPaint(u) ==
    IF staged[u] # Absent THEN staged[u]
    ELSE IF u \in Blocks /\ staged[ParentOf[u]] # Absent THEN staged[ParentOf[u]]
    ELSE Effective(doc.za)[u]

(* A stroke gives the painted units its zone and leaves the others alone.  *)
LEMMA IngestedZones ==
    ASSUME "decrease" \notin Allowed, Known, Sound(doc), StagedShown, NEW stamp \in Stamps,
           NEW u \in Units
    PROVE  Effective(Ingested(stamp).za)[u] = AfterPaint(u)
<1> DEFINE merged == [doc EXCEPT !.za = Painted(doc.za), !.clu = stamp]
           tagged == IF captive # {} THEN {}
                     ELSE {doc.childToParent[b] : b \in {c \in doc.children : staged[c] # Absent}}
                            \ {NoParent}
<1>1. merged \in Docs /\ Agree(merged) /\ Sound(merged)
  BY MergedSound
<1>2. tagged \in SUBSET Parents
  BY DEF Known, TypeOK, Docs
<1>3. Ingested(stamp) = Healed(merged, tagged)
  BY DEF Ingested, Known, TypeOK, Docs
<1>4. \A g \in Geos : merged.za[g] = IF staged[g] # Absent THEN staged[g] ELSE doc.za[g]
  BY DEF Known, TypeOK, Docs, Painted
<1> HIDE DEF merged, tagged
<1>5. Effective(Ingested(stamp).za) = Effective(merged.za)
  BY <1>1, <1>2, <1>3, HealKeepsZones
<1>6. Agree(doc)
  BY AgreeParts DEF Known
<1>7. CASE u \in Blocks
  <2>1. ParentOf[u] \in Parents /\ ParentOf[u] \in Geos /\ u \in Geos /\ ParentOf[u] \notin Blocks
    BY <1>7, Geographies
  <2>2. staged[ParentOf[u]] # Absent => ParentOf[u] \notin doc.parents
    BY <2>1 DEF StagedShown, Known, TypeOK, Docs
  <2>3. staged[ParentOf[u]] # Absent => doc.za[u] = Absent
    BY <1>6, <1>7, <2>2 DEF Agree, Sound, CoveredOnce
  <2> QED BY <1>4, <1>5, <1>7, <2>1, <2>3, EffectiveAt DEF AfterPaint
<1>8. CASE u \notin Blocks
  <2>1. u \in Geos
    BY Geographies
  <2> QED BY <1>4, <1>5, <1>8, <2>1, EffectiveAt DEF AfterPaint
<1> QED BY <1>7, <1>8

-----------------------------------------------------------------------------
(* The invariant, when none of the gestures happens.                       *)

(* A snapshot is no younger than the clock, and the one that waits for the *)
(* first stroke after a break shows the same zones.                        *)
Fits(s, now) ==
    /\ s.doc.clu <= now
    /\ s.pending # None => /\ s.pending.clu <= now
                          /\ Effective(s.pending.za) = Effective(s.doc.za)

RecorderFits == \A s \in Elements(past) \cup Elements(future) : Fits(s, clock)

(* The record shows what the screen shows, and the server's plan when it   *)
(* has the server's timestamp.                                             *)
Mirrored == Effective(local.rows.za) = Effective(doc.za)
Backed   == local.stamp = server.stamp => Effective(local.rows.za) = Effective(server.za)

(* Nothing else happens while a request is under way.                      *)
Waiting ==
    /\ request.kind # "none" => locked /\ ~Stroking
    /\ request.kind # "reset"
    /\ request.kind = "save" => request.za = doc.za
    /\ request.kind = "break" => request.targets \cap doc.parents = {}

Truthful ==
    /\ server.stamp <= clock /\ local.stamp <= clock
    /\ Fits(Snapshot, clock)
    /\ RecorderFits
    /\ Mirrored /\ Backed /\ Waiting

Inv == Known /\ PlanSound /\ Truthful

LEMMA Later ==
    ASSUME TypeOK, Tick, server.stamp <= clock
    PROVE  /\ clock' = Fresh /\ clock \in Nat /\ Fresh \in Stamps /\ clock <= Fresh
           /\ server.stamp <= Fresh /\ server.stamp # Fresh
<1>1. clock \in Nat /\ server.stamp \in Nat /\ Fresh = clock + 1 /\ clock' = Fresh
  BY DEF TypeOK, Stamps, Fresh, Tick
<1>2. Fresh \in Stamps
  BY FreshStamp DEF Tick, TypeOK
<1> QED BY <1>1, <1>2

LEMMA FitsLater ==
    ASSUME NEW s \in Snapshots, NEW now \in Nat, NEW soon \in Nat, now <= soon, Fits(s, now)
    PROVE  Fits(s, soon)
<1>1. s.doc.clu \in Nat /\ (s.pending # None => s.pending.clu \in Nat)
  BY DEF Snapshots, Docs, Stamps
<1> QED BY <1>1 DEF Fits

LEMMA ElementsIn ==
    ASSUME NEW S, NEW s \in Seq(S) PROVE Elements(s) \subseteq S
BY DEF Elements

LEMMA RecorderFitsLater ==
    ASSUME TypeOK, RecorderFits, UNCHANGED <<past, future>>, clock' \in Nat, clock <= clock'
    PROVE  RecorderFits'
<1>1. Elements(past) \subseteq Snapshots /\ Elements(future) \subseteq Snapshots /\ clock \in Nat
  BY ElementsIn DEF TypeOK, Stamps
<1> QED BY <1>1, FitsLater DEF RecorderFits

LEMMA RecordFits ==
    ASSUME TypeOK, Fits(Snapshot, clock), RecorderFits, NEW on, NEW newDoc \in Docs,
           Record(on, newDoc), clock' \in Nat, clock <= clock'
    PROVE  RecorderFits'
<1>1. Elements(past) \subseteq Snapshots /\ Elements(future) \subseteq Snapshots /\ clock \in Nat
  BY ElementsIn DEF TypeOK, Stamps
<1>2. \A s \in Elements(past) \cup Elements(future) : Fits(s, clock')
  BY <1>1, FitsLater DEF RecorderFits
<1>3. Fits(Snapshot, clock')
  BY <1>1, FitsLater, SnapshotType
<1>4. ASSUME pending # None PROVE Fits([doc |-> pending, pending |-> None], clock')
  BY <1>3, <1>4 DEF Fits, Snapshot
<1> QED BY <1>2, <1>3, <1>4, RecordStep DEF RecorderFits

LEMMA KeepFits ==
    ASSUME NEW before \in Snapshots, NEW after \in Snapshots, NEW now, Fits(before, now)
    PROVE  /\ Fits(Keep(before, after), now)
           /\ Effective(Keep(before, after).doc.za) = Effective(before.doc.za)
<1>1. \/ Keep(before, after) = before
      \/ before.pending # None /\ Keep(before, after) = [doc |-> before.pending, pending |-> None]
  BY DEF Keep, Diff
<1>2. CASE Keep(before, after) = before
  BY <1>2
<1>3. CASE before.pending # None /\ Keep(before, after) = [doc |-> before.pending, pending |-> None]
  BY <1>3 DEF Fits
<1> QED BY <1>1, <1>2, <1>3

-----------------------------------------------------------------------------
(* The steps keep it *)

LEMMA FlushTruthful ==
    ASSUME Inv, Flush PROVE Truthful'
<1>1. Fresh \in Stamps /\ clock' = Fresh /\ clock <= clock' /\ server.stamp <= clock'
      /\ server.stamp # Fresh /\ clock' \in Nat
  BY Later DEF Flush, Inv, Known, Truthful, Stamps
<1>2. doc' = Ingested(Fresh) /\ Record(TRUE, doc') /\ pending' = None /\ staged' = NoZones
      /\ UNCHANGED <<request, locked, server>> /\ Stroking
  BY DEF Flush
<1>3. doc' \in Docs /\ doc'.clu = Fresh
  BY <1>1, <1>2, IngestedType DEF Inv, Known, Ingested, Healed, TypeOK, Docs
<1>4. RecorderFits'
  BY <1>1, <1>2, <1>3, RecordFits DEF Inv, Known, Truthful
<1>5. Fits(Snapshot, clock)'
  BY <1>1, <1>2, <1>3 DEF Fits, Snapshot, Stamps
<1>6. local'.rows.za = doc'.za /\ local'.stamp = Fresh
  BY <1>3 DEF Flush, LocalCopy, LocalRows, Inv, Known, TypeOK, Docs
<1>7. Waiting'
  BY <1>2 DEF Waiting, Inv, Truthful
<1> QED BY <1>1, <1>2, <1>4, <1>5, <1>6, <1>7 DEF Truthful, Mirrored, Backed

LEMMA StageTruthful ==
    ASSUME Inv, NEW g \in Geos, NEW z, Stage(g, z) PROVE Truthful'
<1>1. Waiting'
  BY DEF Stage, Waiting, Inv, Truthful
<1>2. UNCHANGED <<doc, pending, past, future, clock, local, server>>
  BY DEF Stage, history
<1> QED BY <1>1, <1>2 DEF Inv, Truthful, Snapshot, RecorderFits, Mirrored, Backed

LEMMA StartBreakTruthful ==
    ASSUME Inv, Allowed = {}, NEW ts \in SUBSET Parents, StartBreak(ts) PROVE Truthful'
<1>1. ts \cap doc.parents = {} /\ ~Stroking
  BY DEF StartBreak, Breakable, CanPoint, Calm
<1>2. Waiting'
  BY <1>1 DEF StartBreak, Waiting, Stroking
<1>3. UNCHANGED <<doc, pending, past, future, clock, local, server>>
  BY DEF StartBreak
<1> QED BY <1>2, <1>3 DEF Inv, Truthful, Snapshot, RecorderFits, Mirrored, Backed

(* Breaking changes no zone. *)
LEMMA BreakDoneZones ==
    ASSUME Inv, NEW p \in Parents, BreakDone(p)
    PROVE  Effective(doc'.za) = Effective(doc.za)
<1>1. request.targets \in SUBSET Parents /\ doc \in Docs /\ Agree(doc) /\ Sound(doc)
  BY AgreeParts DEF Inv, Known, TypeOK, Requests, PlanSound, StoreSound
<1>2. request.targets \cap doc.parents = {} /\ doc' = Broken(doc, request.targets)
  BY DEF BreakDone, Inv, Truthful, Waiting
<1> QED BY <1>1, <1>2, BrokenKeepsZones

LEMMA BreakDoneTruthful ==
    ASSUME Inv, NEW p \in Parents, BreakDone(p) PROVE Truthful'
<1>1. Effective(doc'.za) = Effective(doc.za)
  BY BreakDoneZones
<1>2. doc'.clu = doc.clu /\ pending' = doc /\ UNCHANGED <<past, future, clock, local, server>>
  BY DEF BreakDone, Broken, history
<1>3. Waiting'
  BY DEF BreakDone, Waiting, NoRequest
<1>4. Fits(Snapshot, clock)'
  BY <1>1, <1>2 DEF Fits, Snapshot, Inv, Truthful
<1> QED BY <1>1, <1>2, <1>3, <1>4 DEF Inv, Truthful, RecorderFits, Mirrored, Backed

(* Leaving block view without paint changes no zone. *)
LEMMA ExitZones ==
    ASSUME Inv, Allowed = {}, ExitBlockView
    PROVE  /\ Effective(doc'.za) = Effective(doc.za) /\ doc'.clu = Fresh /\ staged = NoZones
           /\ pending' = None /\ UNCHANGED <<past, future, local, request, locked, server>>
<1> DEFINE ingested   == IF Stroking THEN Ingested(Fresh) ELSE [doc EXCEPT !.clu = Fresh]
           candidates == IF focus = None THEN ingested.parents ELSE {focus}
<1>1. ~Stroking /\ Fresh \in Stamps
  BY FreshStamp DEF ExitBlockView, CanPoint, Calm, Tick, Inv, Known, TypeOK
<1>2. ingested \in Docs /\ ingested.za = doc.za /\ ingested.clu = Fresh
      /\ ingested.parents = doc.parents /\ ingested.children = doc.children
      /\ ingested.parentToChild = doc.parentToChild
      /\ ingested.childToParent = doc.childToParent
  BY <1>1 DEF Docs, Inv, Known, TypeOK
<1>3. /\ doc' = Healed(ingested, candidates) /\ Record(Stroking, ingested)
      /\ UNCHANGED <<request, locked, server>> /\ pending' = None
  BY DEF ExitBlockView
<1>4. local' = local
  BY <1>1 DEF ExitBlockView
<1>5. doc \in Docs /\ Agree(doc) /\ Sound(doc) /\ focus \in Parents \cup {None}
  BY AgreeParts DEF Inv, Known, TypeOK, PlanSound, StoreSound
<1> HIDE DEF ingested
<1>6. Agree(ingested) /\ Sound(ingested)
  BY <1>2, <1>5, SameShattering, Restamped
<1>7. candidates \in SUBSET Parents
  BY <1>2, <1>5 DEF Docs
<1>8. Effective(doc'.za) = Effective(doc.za)
  BY <1>2, <1>3, <1>6, <1>7, HealKeepsZones
<1>9. doc'.clu = Fresh
  BY <1>2, <1>3 DEF Healed
<1>10. UNCHANGED <<past, future>> /\ staged = NoZones
  BY <1>1, <1>3 DEF Record, Stroking
<1> QED BY <1>3, <1>4, <1>8, <1>9, <1>10

LEMMA ExitTruthful ==
    ASSUME Inv, Allowed = {}, ExitBlockView PROVE Truthful'
<1>1. Fresh \in Stamps /\ clock' = Fresh /\ clock <= clock' /\ server.stamp <= clock' /\ clock' \in Nat
  BY Later DEF ExitBlockView, Inv, Known, Truthful, Stamps
<1>2. Fits(Snapshot, clock)'
  BY <1>1, ExitZones DEF Fits, Snapshot, Stamps
<1>3. RecorderFits'
  BY <1>1, ExitZones, RecorderFitsLater DEF Inv, Known, Truthful
<1>4. request.kind = "none"
  BY DEF ExitBlockView, CanPoint, Inv, Truthful, Waiting
<1>5. Waiting'
  BY <1>4, ExitZones DEF Waiting
<1>6. local.stamp <= clock'
  BY <1>1 DEF Inv, Known, Truthful, TypeOK, Stamps
<1> QED BY <1>1, <1>2, <1>3, <1>5, <1>6, ExitZones DEF Inv, Truthful, Mirrored, Backed

(* The request and the lock let no hotkey through.                         *)
LEMMA RestoreTruthful ==
    ASSUME Inv, NEW s \in Snapshots, CanHotkey, Allowed = {}, Tick, Fits(s, clock), Restore(s),
           RecorderFits'
    PROVE  Truthful'
<1>1. Fresh \in Stamps /\ clock' = Fresh /\ clock <= clock' /\ server.stamp <= clock'
      /\ server.stamp # Fresh /\ clock' \in Nat /\ clock \in Nat
  BY Later DEF Inv, Known, Truthful, Stamps
<1>2. doc' = s.doc /\ pending' = s.pending /\ local'.rows.za = s.doc.za /\ local'.stamp = Fresh
      /\ UNCHANGED <<request, locked, server>>
  BY DEF Restore, LocalCopy, LocalRows
<1>3. Fits(s, clock')
  BY <1>1, FitsLater
<1>4. Fits(Snapshot, clock)'
  BY <1>2, <1>3 DEF Fits, Snapshot
<1>5. request.kind = "none"
  BY DEF CanHotkey, Inv, Truthful, Waiting
<1>6. Waiting'
  BY <1>2, <1>5 DEF Waiting
<1> QED BY <1>1, <1>2, <1>4, <1>6 DEF Truthful, Mirrored, Backed

LEMMA UndoTruthful ==
    ASSUME Inv, Allowed = {}, Undo PROVE Truthful'
<1> DEFINE s == past[Len(past)]
<1>1. s \in Snapshots /\ s \in Elements(past) /\ Elements(past') \subseteq Elements(past)
  BY DropLast DEF Undo, Inv, Known, TypeOK
<1>2. Fits(s, clock) /\ Fits(Snapshot, clock)
  BY <1>1 DEF RecorderFits, Inv, Truthful
<1>3. Keep(Snapshot, s) \in Snapshots /\ Fits(Keep(Snapshot, s), clock)
  BY <1>1, <1>2, SnapshotType, KeepType, KeepFits DEF Inv, Known
<1>4. Elements(future') \subseteq Elements(future) \cup {Keep(Snapshot, s)}
  BY <1>3, AppendElements DEF Undo, Inv, Known, TypeOK
<1>5. clock' \in Nat /\ clock \in Nat /\ clock <= clock'
  BY Later DEF Undo, Inv, Known, Truthful, Stamps
<1>6. Elements(past) \subseteq Snapshots /\ Elements(future) \subseteq Snapshots
  BY ElementsIn DEF Inv, Known, TypeOK
<1>7. \A x \in Elements(past) \cup Elements(future) \cup {Keep(Snapshot, s)} : Fits(x, clock')
  BY <1>3, <1>5, <1>6, FitsLater DEF RecorderFits, Inv, Truthful
<1>8. RecorderFits'
  BY <1>1, <1>4, <1>7 DEF RecorderFits
<1>9. Restore(s) /\ CanHotkey /\ Tick
  BY DEF Undo
<1> HIDE DEF s
<1> QED BY <1>1, <1>2, <1>8, <1>9, RestoreTruthful

LEMMA RedoTruthful ==
    ASSUME Inv, Allowed = {}, Redo PROVE Truthful'
<1> DEFINE s == future[Len(future)]
<1>1. s \in Snapshots /\ s \in Elements(future) /\ Elements(future') \subseteq Elements(future)
  BY DropLast DEF Redo, Inv, Known, TypeOK
<1>2. Fits(s, clock) /\ Fits(Snapshot, clock)
  BY <1>1 DEF RecorderFits, Inv, Truthful
<1>3. Keep(Snapshot, s) \in Snapshots /\ Fits(Keep(Snapshot, s), clock)
  BY <1>1, <1>2, SnapshotType, KeepType, KeepFits DEF Inv, Known
<1>4. Elements(past') \subseteq Elements(past) \cup {Keep(Snapshot, s)}
  BY <1>3, AppendElements DEF Redo, Inv, Known, TypeOK
<1>5. clock' \in Nat /\ clock \in Nat /\ clock <= clock'
  BY Later DEF Redo, Inv, Known, Truthful, Stamps
<1>6. Elements(past) \subseteq Snapshots /\ Elements(future) \subseteq Snapshots
  BY ElementsIn DEF Inv, Known, TypeOK
<1>7. \A x \in Elements(past) \cup Elements(future) \cup {Keep(Snapshot, s)} : Fits(x, clock')
  BY <1>3, <1>5, <1>6, FitsLater DEF RecorderFits, Inv, Truthful
<1>8. RecorderFits'
  BY <1>1, <1>4, <1>7 DEF RecorderFits
<1>9. Restore(s) /\ CanHotkey /\ Tick
  BY DEF Redo
<1> HIDE DEF s
<1> QED BY <1>1, <1>2, <1>8, <1>9, RestoreTruthful

LEMMA SetNumDistrictsTruthful ==
    ASSUME Inv, NEW n, SetNumDistricts(n) PROVE Truthful'
<1>1. Fresh \in Stamps /\ clock' = Fresh /\ clock <= clock' /\ server.stamp <= clock'
      /\ server.stamp # Fresh /\ clock' \in Nat
  BY Later DEF SetNumDistricts, Inv, Known, Truthful, Stamps
<1>2. /\ doc'.za = doc.za /\ doc'.clu = Fresh
      /\ local'.rows = local.rows /\ local'.stamp = Fresh
  BY DEF SetNumDistricts, Inv, Known, TypeOK, Docs
<1>3. UNCHANGED <<pending, past, future, request, locked, server>>
  BY DEF SetNumDistricts, history
<1>4. request.kind = "none"
  BY DEF SetNumDistricts, CanPoint, Inv, Truthful, Waiting
<1>5. Waiting'
  BY <1>3, <1>4 DEF Waiting
<1>6. RecorderFits' /\ Fits(Snapshot, clock')
  BY <1>1, <1>3, RecorderFitsLater, FitsLater, SnapshotType DEF Inv, Known, Truthful, TypeOK, Stamps
<1>7. Fits(Snapshot, clock)'
  BY <1>1, <1>2, <1>3, <1>6 DEF Fits, Snapshot, Stamps
<1> QED BY <1>1, <1>2, <1>3, <1>5, <1>6, <1>7 DEF Inv, Truthful, Mirrored, Backed

LEMMA StartTruthful ==
    ASSUME Inv, Allowed = {}, StartSave \/ AutoSave \/ StartRevert \/ StartReset
    PROVE  Truthful'
<1>1. PICK kind \in {"save", "revert"} : Start(kind) /\ ~Stroking
  BY DEF StartSave, AutoSave, StartRevert, StartReset, CanPoint, Calm
<1>2. UNCHANGED <<doc, pending, past, future, staged, clock, local, server>>
      /\ locked' = TRUE /\ request'.kind = kind /\ request'.za = doc.za
  BY <1>1 DEF Start, history
<1>3. Waiting'
  BY <1>1, <1>2 DEF Waiting, Stroking
<1> QED BY <1>2, <1>3 DEF Inv, Truthful, Snapshot, RecorderFits, Mirrored, Backed

LEMMA SaveDoneTruthful ==
    ASSUME Inv, SaveDone PROVE Truthful'
<1>1. Fresh \in Stamps /\ clock' = Fresh /\ clock <= clock' /\ clock' \in Nat
  BY Later DEF SaveDone, Inv, Known, Truthful, Stamps
<1>2. doc'.za = doc.za /\ doc'.clu = Fresh
  BY DEF SaveDone, Inv, Known, TypeOK, Docs
<1>3. request.za = doc.za
  BY DEF SaveDone, Inv, Truthful, Waiting
<1>4. /\ server'.za = doc.za /\ server'.stamp = Fresh
      /\ local'.rows.za = doc.za /\ local'.stamp = Fresh
      /\ UNCHANGED <<pending, past, future>> /\ request' = NoRequest
  BY <1>3 DEF SaveDone, ServerRows
<1>5. Waiting'
  BY <1>4 DEF Waiting, NoRequest
<1>6. RecorderFits' /\ Fits(Snapshot, clock')
  BY <1>1, <1>4, RecorderFitsLater, FitsLater, SnapshotType DEF Inv, Known, Truthful, TypeOK, Stamps
<1>7. Fits(Snapshot, clock)'
  BY <1>1, <1>2, <1>4, <1>6 DEF Fits, Snapshot, Stamps
<1>8. server'.stamp <= clock'
  BY <1>1, <1>4 DEF Stamps
<1> QED BY <1>2, <1>4, <1>5, <1>6, <1>7, <1>8 DEF Truthful, Mirrored, Backed

LEMMA RevertDoneTruthful ==
    ASSUME Inv, RevertDone PROVE Truthful'
<1>1. doc' = Parsed(ServerRows(server.za), server.stamp) /\ Record(tracking, doc')
      /\ local' = LocalCopy(doc', server.num, server.stamp)
      /\ request' = NoRequest /\ pending' = None /\ UNCHANGED <<clock, server>>
  BY DEF RevertDone
<1>2. doc' \in Docs
  BY <1>1, ServerRowsType, ParsedType DEF Inv, Known, TypeOK
<1>3. clock' = clock /\ clock \in Nat /\ clock <= clock'
  BY <1>1 DEF Inv, Known, TypeOK, Stamps
<1>4. RecorderFits'
  BY <1>1, <1>2, <1>3, RecordFits DEF Inv, Known, Truthful
<1>5. doc'.za = server.za /\ doc'.clu = server.stamp
      /\ local'.rows.za = server.za /\ local'.stamp = server.stamp
  BY <1>1 DEF Parsed, ServerRows, LocalCopy, LocalRows
<1>6. Fits(Snapshot, clock)'
  BY <1>1, <1>5 DEF Fits, Snapshot, Inv, Truthful
<1>7. Waiting'
  BY <1>1 DEF Waiting, NoRequest
<1> QED BY <1>1, <1>4, <1>5, <1>6, <1>7 DEF Inv, Truthful, Mirrored, Backed

LEMMA FailureTruthful ==
    ASSUME Inv, BreakFails \/ RequestFails \/ ResetFails PROVE Truthful'
<1>1. request' = NoRequest /\ UNCHANGED <<doc, pending, past, future, clock, local, server>>
  BY DEF BreakFails, RequestFails, ResetFails, history
<1>2. Waiting'
  BY <1>1 DEF Waiting, NoRequest
<1> QED BY <1>1, <1>2 DEF Inv, Truthful, Snapshot, RecorderFits, Mirrored, Backed

LEMMA ReloadTruthful ==
    ASSUME Inv, Reload PROVE Truthful' /\ doc'.za = local.rows.za
<1>1. doc'.za = local.rows.za /\ doc'.clu = local.stamp
      /\ local'.rows.za = local.rows.za /\ local'.stamp = local.stamp
  BY DEF Reload, LoadedStamp, Parsed, LocalCopy, LocalRows
<1>2. pending' = None /\ past' = << >> /\ future' = << >> /\ request.kind = "none"
      /\ UNCHANGED <<request, clock, server>>
  BY DEF Reload
<1>3. local.stamp <= clock
  BY DEF Inv, Truthful
<1>4. Fits(Snapshot, clock)' /\ RecorderFits'
  BY <1>1, <1>2, <1>3 DEF Fits, Snapshot, RecorderFits, Elements
<1>5. Waiting'
  BY <1>2 DEF Waiting
<1> QED BY <1>1, <1>2, <1>3, <1>4, <1>5 DEF Inv, Truthful, Mirrored, Backed

LEMMA InitTruthful ==
    ASSUME Init PROVE Truthful
<1>1. /\ server.za = NoZones /\ server.stamp = clock /\ clock = 1
      /\ doc.za = NoZones /\ doc.clu = clock /\ local.rows.za = NoZones
      /\ local.stamp = clock
  BY DEF Init, Parsed, ServerRows, LocalCopy, LocalRows
<1>2. Fits(Snapshot, clock) /\ RecorderFits /\ Waiting
  BY <1>1 DEF Init, Fits, Snapshot, RecorderFits, Elements, Waiting, NoRequest
<1> QED BY <1>1, <1>2 DEF Truthful, Mirrored, Backed

LEMMA NextTruthful ==
    ASSUME Inv, Allowed = {}, [Next]_vars PROVE Truthful'
<1>1. CASE Brush
  BY <1>1, StageTruthful DEF Brush
<1>2. CASE \E ts \in SUBSET Parents : StartBreak(ts)
  BY <1>2, StartBreakTruthful
<1>3. CASE \E p \in Parents : BreakDone(p)
  BY <1>3, BreakDoneTruthful
<1>4. CASE \E n \in MinDistricts..MaxDistricts : SetNumDistricts(n)
  BY <1>4, SetNumDistrictsTruthful
<1>5. CASE DecreaseDistricts \/ ResetDone
  BY <1>5 DEF DecreaseDistricts, ResetDone, Inv, Truthful, Waiting
<1>6. CASE UNCHANGED vars
  BY <1>6 DEF vars, Inv, Truthful, Snapshot, RecorderFits, Mirrored, Backed, Waiting, Stroking
<1> QED BY <1>1, <1>2, <1>3, <1>4, <1>5, <1>6, FlushTruthful, ExitTruthful, UndoTruthful,
           RedoTruthful, StartTruthful, SaveDoneTruthful, RevertDoneTruthful, FailureTruthful,
           ReloadTruthful DEF Next

LEMMA AlwaysTruthful == ASSUME Allowed = {} PROVE Spec => []Inv
<1>1. Init => Truthful
  BY InitTruthful
<1>2. Inv /\ [Next]_vars => Truthful'
  BY NextTruthful
<1>3. Spec => [](Known /\ PlanSound)
  BY AlwaysSound
<1>4. Inv <=> Known /\ PlanSound /\ Truthful
  BY DEF Inv
<1> QED BY <1>1, <1>2, <1>3, <1>4, PTL DEF Spec

-----------------------------------------------------------------------------
(* What follows for one tab *)

(* When the save indicator is dark, the plan on the server is the plan on  *)
(* the screen (useMapSaveStatus, putUpdateAssignmentsAndVerify), none of   *)
(* the gestures happening.                                                 *)
THEOREM CleanIsSaved == ASSUME Allowed = {} PROVE Spec => []CleanMeansSaved
<1>1. Inv => CleanMeansSaved
  BY DEF Inv, Truthful, Mirrored, Backed, CleanMeansSaved, Dark
<1> QED BY <1>1, AlwaysTruthful, PTL

(* A reload shows the zones that were on the screen (fetchDocument,        *)
(* ingestFromDocument), none of the gestures happening.                    *)
THEOREM ReloadTruly == ASSUME Allowed = {} PROVE Spec => ReloadKeepsPlan
<1>1. Inv /\ [Next]_vars => [Reload => Effective(doc'.za) = Effective(doc.za)]_vars
  BY ReloadTruthful DEF Inv, Truthful, Mirrored
<1> QED BY <1>1, AlwaysTruthful, PTL DEF Spec, ReloadKeepsPlan

(* Breaking a geography into its blocks changes no unit's zone             *)
(* (handleShatter, setZones), none of the gestures happening.              *)
THEOREM BreakTruly == ASSUME Allowed = {} PROVE Spec => BreakKeepsZones
<1>1. Inv /\ [Next]_vars => [(\E p \in Parents : BreakDone(p)) =>
                                 Effective(doc'.za) = Effective(doc.za)]_vars
  BY BreakDoneZones
<1> QED BY <1>1, AlwaysTruthful, PTL DEF Spec, BreakKeepsZones

(* The end of a stroke, in block view or not, gives the painted units the  *)
(* brush's zone and leaves every other unit alone, whatever is healed in   *)
(* the same update (ingestAccumulatedAssignments, exitBlockView), none of  *)
(* the gestures happening.                                                 *)
THEOREM StrokesExact == ASSUME Allowed = {} PROVE Spec => PaintExact
<1> DEFINE Exact == Flush \/ ExitBlockView => \A u \in Units : Effective(doc'.za)[u] = AfterPaint(u)
<1>1. ASSUME Inv, Flush, NEW u \in Units PROVE Effective(doc'.za)[u] = AfterPaint(u)
  <2>1. Fresh \in Stamps /\ doc' = Ingested(Fresh)
    BY <1>1, Later DEF Flush, Inv, Known, Truthful
  <2> QED BY <1>1, <2>1, IngestedZones DEF Inv, PlanSound, StoreSound
<1>2. ASSUME Inv, ExitBlockView, NEW u \in Units PROVE Effective(doc'.za)[u] = AfterPaint(u)
  <2>1. Effective(doc'.za) = Effective(doc.za) /\ staged = NoZones
    BY <1>2, ExitZones
  <2>2. staged[u] = Absent /\ (u \in Blocks => staged[ParentOf[u]] = Absent)
    BY <2>1, Geographies DEF NoZones
  <2> QED BY <2>1, <2>2 DEF AfterPaint
<1>3. Inv => [Exact]_vars
  BY <1>1, <1>2
<1>4. PaintExact <=> [][Exact]_vars
  BY DEF PaintExact, AfterPaint
<1> QED BY <1>3, <1>4, AlwaysTruthful, PTL

-----------------------------------------------------------------------------
(* The editor implements PlanHistory *)

LEMMA SeenLength ==
    ASSUME NEW s \in Seq(Snapshots)
    PROVE  /\ Seen(s) \in Seq([Units -> Colours]) /\ Len(Seen(s)) = Len(s)
           /\ \A i \in 1..Len(s) : Seen(s)[i] = Effective(s[i].doc.za)
<1>1. DOMAIN s = 1..Len(s) /\ Len(s) \in Nat /\ \A i \in 1..Len(s) : s[i] \in Snapshots
  OBVIOUS
<1>2. \A i \in 1..Len(s) : Effective(s[i].doc.za) \in [Units -> Colours]
  BY <1>1, EffectiveType DEF Snapshots, Docs
<1>3. Seen(s) = [i \in 1..Len(s) |-> Effective(s[i].doc.za)]
  BY <1>1 DEF Seen
<1>4. Seen(s) \in [1..Len(s) -> [Units -> Colours]]
  BY <1>2, <1>3
<1>5. Seen(s) \in Seq([Units -> Colours])
  BY <1>1, <1>4
<1>6. Len(Seen(s)) = Len(s)
  BY <1>1, <1>3, <1>5
<1> QED BY <1>3, <1>5, <1>6

LEMMA SeenAppend ==
    ASSUME NEW s \in Seq(Snapshots), NEW e \in Snapshots
    PROVE  Seen(Append(s, e)) = Append(Seen(s), Effective(e.doc.za))
<1>1. Append(s, e) \in Seq(Snapshots) /\ Effective(e.doc.za) \in [Units -> Colours]
  BY EffectiveType DEF Snapshots, Docs
<1>2. /\ Len(Seen(Append(s, e))) = Len(s) + 1 /\ Seen(Append(s, e)) \in Seq([Units -> Colours])
      /\ \A i \in 1..(Len(s) + 1) : Seen(Append(s, e))[i] = Effective(Append(s, e)[i].doc.za)
  <2> DEFINE a == Append(s, e)
  <2>1. a \in Seq(Snapshots) /\ Len(a) = Len(s) + 1
    BY <1>1
  <2> HIDE DEF a
  <2>2. /\ Len(Seen(a)) = Len(a) /\ Seen(a) \in Seq([Units -> Colours])
        /\ \A i \in 1..Len(a) : Seen(a)[i] = Effective(a[i].doc.za)
    BY <2>1, SeenLength
  <2> QED BY <2>1, <2>2 DEF a
<1>3. /\ Append(Seen(s), Effective(e.doc.za)) \in Seq([Units -> Colours])
      /\ Len(Append(Seen(s), Effective(e.doc.za))) = Len(s) + 1
      /\ \A i \in 1..Len(s) : Append(Seen(s), Effective(e.doc.za))[i] = Effective(s[i].doc.za)
      /\ Append(Seen(s), Effective(e.doc.za))[Len(s) + 1] = Effective(e.doc.za)
  <2> DEFINE t == Seen(s)
             v == Effective(e.doc.za)
  <2>1. t \in Seq([Units -> Colours]) /\ Len(t) = Len(s) /\ v \in [Units -> Colours]
        /\ \A i \in 1..Len(s) : t[i] = Effective(s[i].doc.za)
    BY <1>1, SeenLength
  <2> HIDE DEF t, v
  <2>2. /\ Append(t, v) \in Seq([Units -> Colours]) /\ Len(Append(t, v)) = Len(s) + 1
        /\ \A i \in 1..Len(s) : Append(t, v)[i] = t[i]
        /\ Append(t, v)[Len(s) + 1] = v
    BY <2>1
  <2> QED BY <2>1, <2>2 DEF t, v
<1>4. \A i \in 1..(Len(s) + 1) : Append(s, e)[i] = IF i <= Len(s) THEN s[i] ELSE e
  OBVIOUS
<1>5. \A i \in 1..(Len(s) + 1) :
         Seen(Append(s, e))[i] = Append(Seen(s), Effective(e.doc.za))[i]
  BY <1>2, <1>3, <1>4
<1> QED BY <1>2, <1>3, <1>5

LEMMA SeenTail ==
    ASSUME NEW s \in Seq(Snapshots), s # << >> PROVE Seen(Tail(s)) = Tail(Seen(s))
<1>1. Tail(s) \in Seq(Snapshots) /\ Len(Tail(s)) = Len(s) - 1
      /\ \A i \in 1..(Len(s) - 1) : Tail(s)[i] = s[i + 1] /\ i + 1 \in 1..Len(s)
  OBVIOUS
<1>2. /\ Seen(Tail(s)) \in Seq([Units -> Colours]) /\ Len(Seen(Tail(s))) = Len(s) - 1
      /\ \A i \in 1..(Len(s) - 1) : Seen(Tail(s))[i] = Seen(s)[i + 1]
  BY <1>1, SeenLength
<1>3. Seen(s) # << >> /\ Seen(s) \in Seq([Units -> Colours]) /\ Len(Seen(s)) = Len(s)
  BY SeenLength
<1> DEFINE t == Seen(s)
           x == Seen(Tail(s))
<1> HIDE DEF t, x
<1>4. /\ Tail(t) \in Seq([Units -> Colours]) /\ Len(Tail(t)) = Len(t) - 1
      /\ \A i \in 1..Len(Tail(t)) : Tail(t)[i] = t[i + 1]
  BY <1>3, HeadTailProperties DEF t
<1>5. /\ x \in Seq([Units -> Colours]) /\ Len(x) = Len(t) - 1
      /\ \A i \in 1..(Len(t) - 1) : x[i] = t[i + 1]
  BY <1>2, <1>3 DEF t, x
<1>6. x = Tail(t)
  BY <1>4, <1>5, SeqEqual
<1> QED BY <1>6 DEF t, x

LEMMA Front ==
    ASSUME NEW S, NEW s \in Seq(S), s # << >>
    PROVE  /\ SubSeq(s, 1, Len(s) - 1) \in Seq(S)
           /\ Len(SubSeq(s, 1, Len(s) - 1)) = Len(s) - 1
           /\ \A i \in 1..(Len(s) - 1) : SubSeq(s, 1, Len(s) - 1)[i] = s[i]
<1> DEFINE n == Len(s) - 1
<1>1. n \in Nat /\ 1 \in Int /\ n \in Int /\ \A i \in 1..n : s[i] \in S
  OBVIOUS
<1> HIDE DEF n
<1>2. /\ SubSeq(s, 1, n) \in Seq(S)
      /\ Len(SubSeq(s, 1, n)) = IF 1 <= n THEN n - 1 + 1 ELSE 0
      /\ \A i \in 1..(n - 1 + 1) : SubSeq(s, 1, n)[i] = s[1 + i - 1]
  BY <1>1, SubSeqProperties
<1>3. n - 1 + 1 = n /\ \A i \in 1..n : 1 + i - 1 = i
  BY <1>1
<1>4. (IF 1 <= n THEN n ELSE 0) = n
  BY <1>1
<1>5. SubSeq(s, 1, n) \in Seq(S) /\ Len(SubSeq(s, 1, n)) = n
      /\ \A i \in 1..n : SubSeq(s, 1, n)[i] = s[i]
  BY <1>2, <1>3, <1>4
<1> QED BY <1>5 DEF n

LEMMA SeenFront ==
    ASSUME NEW s \in Seq(Snapshots), s # << >>
    PROVE  Seen(SubSeq(s, 1, Len(s) - 1)) = SubSeq(Seen(s), 1, Len(Seen(s)) - 1)
<1> DEFINE front == SubSeq(s, 1, Len(s) - 1)
           seen  == SubSeq(Seen(s), 1, Len(Seen(s)) - 1)
<1>1. front \in Seq(Snapshots) /\ Len(front) = Len(s) - 1
      /\ \A i \in 1..(Len(s) - 1) : front[i] = s[i]
  BY Front
<1>2. Seen(s) \in Seq([Units -> Colours]) /\ Len(Seen(s)) = Len(s) /\ Seen(s) # << >>
      /\ \A i \in 1..Len(s) : Seen(s)[i] = Effective(s[i].doc.za)
  BY SeenLength
<1>3. seen \in Seq([Units -> Colours]) /\ Len(seen) = Len(Seen(s)) - 1
      /\ \A i \in 1..(Len(Seen(s)) - 1) : seen[i] = Seen(s)[i]
  BY <1>2, Front
<1> HIDE DEF front, seen
<1>4. Seen(front) \in Seq([Units -> Colours]) /\ Len(Seen(front)) = Len(front)
      /\ \A i \in 1..Len(front) : Seen(front)[i] = Effective(front[i].doc.za)
  BY <1>1, SeenLength
<1>5. Len(s) \in Nat
  OBVIOUS
<1>6. Len(Seen(front)) = Len(s) - 1 /\ Len(seen) = Len(s) - 1
  BY <1>1, <1>2, <1>3, <1>4
<1>7. ASSUME NEW i \in 1..(Len(s) - 1) PROVE Seen(front)[i] = seen[i]
  <2>1. Seen(front)[i] = Effective(front[i].doc.za) /\ front[i] = s[i]
    BY <1>1, <1>4
  <2>2. seen[i] = Seen(s)[i]
    BY <1>2, <1>3
  <2>3. i \in 1..Len(s)
    BY <1>5
  <2> QED BY <1>2, <2>1, <2>2, <2>3
<1>8. Seen(front) = seen
  BY <1>3, <1>4, <1>6, <1>7, SeqEqual
<1> QED BY <1>8 DEF front, seen

LEMMA SeenLast ==
    ASSUME NEW s \in Seq(Snapshots), s # << >>
    PROVE  Seen(s)[Len(Seen(s))] = Effective(s[Len(s)].doc.za) /\ Seen(s) # << >>
BY SeenLength

(* The recorder's step, seen through the zones: the plan before it becomes *)
(* the newest undo step, be it the store or the snapshot that waited.      *)
LEMMA PushSeen ==
    ASSUME Inv, NEW newDoc \in Docs, newDoc.clu # doc.clu,
           Push(Snapshot, [doc |-> newDoc, pending |-> None])
    PROVE  /\ Seen(past') = Append(IF Len(Seen(past)) >= HistoryLimit THEN Tail(Seen(past))
                                   ELSE Seen(past), Effective(doc.za))
           /\ Seen(future') = << >>
<1> DEFINE after == [doc |-> newDoc, pending |-> None]
           d     == Diff(Snapshot, after)
           room  == IF Len(past) >= HistoryLimit THEN Tail(past) ELSE past
<1>1. past \in Seq(Snapshots) /\ Snapshot \in Snapshots
  BY SnapshotType DEF Inv, Known, TypeOK
<1>2. \/ d = Snapshot
      \/ pending # None /\ d = [doc |-> pending, pending |-> None]
  <2>1. Snapshot.pending = pending /\ Snapshot.doc = doc /\ after.pending = None /\ after.doc = newDoc
    BY DEF Snapshot
  <2> HIDE DEF after
  <2> QED BY <2>1 DEF Diff
<1>3. d \in Snapshots /\ Effective(d.doc.za) = Effective(doc.za)
  <2>1. CASE d = Snapshot
    BY <1>1, <2>1 DEF Snapshot
  <2>2. CASE pending # None /\ d = [doc |-> pending, pending |-> None]
    <3>1. pending \in Docs /\ Effective(pending.za) = Effective(doc.za)
      BY <2>2 DEF Inv, Known, TypeOK, Truthful, Fits, Snapshot
    <3> QED BY <2>2, <3>1 DEF Snapshots
  <2> QED BY <1>2, <2>1, <2>2
<1>4. d # None
  BY <1>3, NoneIsNoSnapshot
<1>5. past' = Append(room, d) /\ future' = << >>
  BY <1>4 DEF Push
<1>6. room \in Seq(Snapshots)
      /\ Seen(room) = IF Len(Seen(past)) >= HistoryLimit THEN Tail(Seen(past)) ELSE Seen(past)
  <2>1. Len(Seen(past)) = Len(past)
    BY <1>1, SeenLength
  <2>2. CASE Len(past) >= HistoryLimit
    <3>1. past # << >>
      BY <1>1, <2>2, EditorAssumption
    <3> QED BY <1>1, <2>1, <2>2, <3>1, SeenTail, DropFirst
  <2>3. CASE ~(Len(past) >= HistoryLimit)
    BY <1>1, <2>1, <2>3
  <2> QED BY <2>2, <2>3
<1>7. Seen(<< >>) = << >>
  BY DEF Seen
<1> HIDE DEF d, room
<1> QED BY <1>3, <1>5, <1>6, <1>7, SeenAppend

LEMMA PlanTypes ==
    ASSUME Inv PROVE Effective(doc.za) \in [Units -> Colours]
BY EffectiveType DEF Inv, Known, TypeOK, Docs

LEMMA FlushImplements ==
    ASSUME Inv, Inv', Flush PROVE Promise!Edit
<1>1. Fresh \in Stamps /\ doc' = Ingested(Fresh) /\ Record(TRUE, doc') /\ server' = server
  BY Later DEF Flush, Inv, Known, Truthful
<1>2. doc' \in Docs /\ doc'.clu = Fresh
  BY <1>1, IngestedType DEF Inv, Known, Ingested, Healed, TypeOK, Docs
<1>3. doc'.clu # doc.clu
  BY <1>2 DEF Inv, Known, Truthful, Fits, Snapshot, TypeOK, Docs, Stamps, Fresh
<1>4. Effective(doc'.za) \in [Units -> Colours]
  BY <1>2, EffectiveType DEF Docs
<1>5. Push(Snapshot, [doc |-> doc', pending |-> None])
  BY <1>1 DEF Record
<1> QED BY <1>1, <1>2, <1>3, <1>4, <1>5, PushSeen
        DEF Promise!Edit, Promise!Remember, Promise!Plans, Colours

LEMMA UndoImplements ==
    ASSUME Inv, Undo PROVE Promise!UndoEdit
<1> DEFINE s == past[Len(past)]
<1>1. past \in Seq(Snapshots) /\ future \in Seq(Snapshots) /\ past # << >>
      /\ s \in Snapshots /\ s \in Elements(past) /\ Fits(Snapshot, clock)
  BY DropLast DEF Undo, Inv, Known, TypeOK, Truthful
<1>2. /\ doc' = s.doc /\ server' = server
      /\ past' = SubSeq(past, 1, Len(past) - 1)
      /\ future' = Append(future, Keep(Snapshot, s))
  BY DEF Undo, Restore
<1>3. Keep(Snapshot, s) \in Snapshots
      /\ Effective(Keep(Snapshot, s).doc.za) = Effective(doc.za)
  BY <1>1, SnapshotType, KeepType, KeepFits DEF Inv, Known, Snapshot
<1>4. Seen(future') = Append(Seen(future), Effective(doc.za))
  BY <1>1, <1>2, <1>3, SeenAppend
<1>5. Seen(past') = SubSeq(Seen(past), 1, Len(Seen(past)) - 1)
  BY <1>1, <1>2, SeenFront
<1>6. Effective(doc'.za) = Seen(past)[Len(Seen(past))] /\ Seen(past) # << >>
  BY <1>1, <1>2, SeenLast
<1> QED BY <1>2, <1>4, <1>5, <1>6 DEF Promise!UndoEdit, Promise!AllButLast

LEMMA RedoImplements ==
    ASSUME Inv, Redo PROVE Promise!RedoEdit
<1> DEFINE s == future[Len(future)]
<1>1. past \in Seq(Snapshots) /\ future \in Seq(Snapshots) /\ future # << >>
      /\ s \in Snapshots /\ s \in Elements(future) /\ Fits(Snapshot, clock)
  BY DropLast DEF Redo, Inv, Known, TypeOK, Truthful
<1>2. /\ doc' = s.doc /\ server' = server
      /\ future' = SubSeq(future, 1, Len(future) - 1)
      /\ past' = Append(past, Keep(Snapshot, s))
  BY DEF Redo, Restore
<1>3. Keep(Snapshot, s) \in Snapshots
      /\ Effective(Keep(Snapshot, s).doc.za) = Effective(doc.za)
  BY <1>1, SnapshotType, KeepType, KeepFits DEF Inv, Known, Snapshot
<1>4. Seen(past') = Append(Seen(past), Effective(doc.za))
  BY <1>1, <1>2, <1>3, SeenAppend
<1>5. Seen(future') = SubSeq(Seen(future), 1, Len(Seen(future)) - 1)
  BY <1>1, <1>2, SeenFront
<1>6. Effective(doc'.za) = Seen(future)[Len(Seen(future))] /\ Seen(future) # << >>
  BY <1>1, <1>2, SeenLast
<1> QED BY <1>2, <1>4, <1>5, <1>6 DEF Promise!RedoEdit, Promise!AllButLast

LEMMA SaveImplements ==
    ASSUME Inv, SaveDone PROVE Promise!Save
<1>1. doc'.za = doc.za /\ server'.za = request.za /\ UNCHANGED <<past, future>>
  BY DEF SaveDone, Inv, Known, TypeOK, Docs
<1>2. request.za = doc.za
  BY DEF SaveDone, Inv, Truthful, Waiting
<1> QED BY <1>1, <1>2 DEF Promise!Save

LEMMA RevertImplements ==
    ASSUME Inv, RevertDone PROVE Promise!RevertToSaved
<1>1. doc' = Parsed(ServerRows(server.za), server.stamp) /\ server' = server
      /\ Record(tracking, doc')
  BY DEF RevertDone
<1>2. doc' \in Docs /\ doc'.za = server.za
  BY <1>1, ServerRowsType, ParsedType DEF Inv, Known, TypeOK, Parsed, ServerRows
<1>3. CASE UNCHANGED <<past, future>>
  BY <1>1, <1>2, <1>3 DEF Promise!RevertToSaved
<1>4. CASE ~UNCHANGED <<past, future>>
  <2>1. Push(Snapshot, [doc |-> doc', pending |-> None])
    BY <1>1, <1>4 DEF Record
  <2>2. doc'.clu # doc.clu
    <3> SUFFICES ASSUME doc'.clu = doc.clu PROVE FALSE
      OBVIOUS
    <3>1. Diff(Snapshot, [doc |-> doc', pending |-> None]) = None
      BY DEF Diff, Snapshot
    <3> QED BY <1>4, <2>1, <3>1 DEF Push
  <2> QED BY <1>1, <1>2, <2>1, <2>2, PushSeen DEF Promise!RevertToSaved, Promise!Remember
<1> QED BY <1>3, <1>4

LEMMA ReloadImplements ==
    ASSUME Inv, Reload PROVE Promise!ReloadPage
<1>1. Effective(doc'.za) = Effective(doc.za)
  BY ReloadTruthful DEF Inv, Truthful, Mirrored
<1>2. past' = << >> /\ future' = << >> /\ server' = server
  BY DEF Reload
<1>3. Seen(<< >>) = << >>
  BY DEF Seen
<1> QED BY <1>1, <1>2, <1>3 DEF Promise!ReloadPage

(* Every other step is a stutter.                                          *)
LEMMA StutterImplements ==
    ASSUME Effective(doc'.za) = Effective(doc.za), UNCHANGED <<past, future, server>>
    PROVE  UNCHANGED Promise!planVars
BY DEF Promise!planVars

LEMMA StepImplements ==
    ASSUME Inv, Inv', Allowed = {}, [Next]_vars PROVE [Promise!PlanNext]_Promise!planVars
<1>1. CASE Brush
  <2>1. UNCHANGED <<doc, past, future, server>>
    BY <1>1 DEF Brush, Stage, history
  <2> QED BY <2>1, StutterImplements
<1>2. CASE \E ts \in SUBSET Parents : StartBreak(ts)
  <2>1. UNCHANGED <<doc, past, future, server>>
    BY <1>2 DEF StartBreak
  <2> QED BY <2>1, StutterImplements
<1>3. CASE \E p \in Parents : BreakDone(p)
  <2>1. Effective(doc'.za) = Effective(doc.za) /\ UNCHANGED <<past, future, server>>
    BY <1>3, BreakDoneZones DEF BreakDone, history
  <2> QED BY <2>1, StutterImplements
<1>4. CASE BreakFails \/ RequestFails \/ ResetFails
  <2>1. UNCHANGED <<doc, past, future, server>>
    BY <1>4 DEF BreakFails, RequestFails, ResetFails, history
  <2> QED BY <2>1, StutterImplements
<1>5. CASE ExitBlockView
  BY <1>5, ExitZones, StutterImplements
<1>6. CASE \E n \in MinDistricts..MaxDistricts : SetNumDistricts(n)
  <2>1. doc'.za = doc.za /\ UNCHANGED <<past, future, server>>
    BY <1>6 DEF SetNumDistricts, history, Inv, Known, TypeOK, Docs
  <2> QED BY <2>1, StutterImplements
<1>7. CASE DecreaseDistricts \/ ResetDone
  BY <1>7 DEF DecreaseDistricts, ResetDone, Inv, Truthful, Waiting
<1>8. CASE StartSave \/ AutoSave \/ StartRevert \/ StartReset
  <2>1. UNCHANGED <<doc, past, future, server>>
    BY <1>8 DEF StartSave, AutoSave, StartRevert, StartReset, Start, history
  <2> QED BY <2>1, StutterImplements
<1>9. CASE Flush \/ Undo \/ Redo \/ SaveDone \/ RevertDone \/ Reload
  BY <1>9, FlushImplements, UndoImplements, RedoImplements, SaveImplements, RevertImplements,
     ReloadImplements DEF Promise!PlanNext
<1>10. CASE UNCHANGED vars
  <2>1. UNCHANGED <<doc, past, future, server>>
    BY <1>10 DEF vars
  <2> QED BY <2>1, StutterImplements
<1> QED BY <1>1, <1>2, <1>3, <1>4, <1>5, <1>6, <1>7, <1>8, <1>9, <1>10 DEF Next

LEMMA InitImplements ==
    ASSUME Init PROVE Promise!PlanInit
<1>1. server.za = NoZones /\ doc.za = NoZones
  BY DEF Init, Parsed, ServerRows
<1>2. Effective(NoZones) = [u \in Units |-> Null]
  BY Geographies DEF Effective, NoZones
<1>3. past = << >> /\ future = << >> /\ Seen(<< >>) = << >>
  BY DEF Init, Seen
<1> QED BY <1>1, <1>2, <1>3 DEF Promise!PlanInit

(* Seen through the zones of its units the editor is PlanHistory: each     *)
(* stroke is one undo step, breaking, healing and the snapshot that waits  *)
(* for the first stroke never show, a save and a revert are what they say, *)
(* none of the gestures happening (assignmentsStore.ts, temporalStore.ts,  *)
(* middlewareConfig.ts).                                                   *)
THEOREM EditorImplementsPlanHistory == ASSUME Allowed = {} PROVE Spec => ImplementsPlanHistory
<1>1. Init => Promise!PlanInit
  BY InitImplements
<1>2. Inv /\ Inv' /\ [Next]_vars => [Promise!PlanNext]_Promise!planVars
  BY StepImplements
<1>3. Spec => []Inv
  BY AlwaysTruthful
<1> QED BY <1>1, <1>2, <1>3, PTL DEF Spec, ImplementsPlanHistory, Promise!PlanSpec
=============================================================================
