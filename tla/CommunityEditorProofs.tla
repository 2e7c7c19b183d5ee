----------------------- MODULE CommunityEditorProofs ------------------------
(***************************************************************************)
(* What is proved of CommunityEditor for any geographies, numbers of       *)
(* communities, history limits and bounds.                                 *)
(***************************************************************************)
EXTENDS CommunityEditor, SequenceTheorems, TLAPS

-----------------------------------------------------------------------------
(* Types of what the operators make *)

LEMMA Geographies ==
    /\ Parents \subseteq Geos /\ Blocks \subseteq Geos
    /\ \A b \in Blocks : b \notin Parents /\ ParentOf[b] \in Parents /\ ParentOf[b] # NoParent
    /\ NoParent \notin Parents /\ 0 \notin Ids
BY CommunityAssumption DEF Geos, Ids

LEMMA HealedFields ==
    ASSUME NEW d \in Docs, NEW ps
    PROVE  LET hs   == Healable(d, ps)
               kids == UNION {ShownKids(d, p) : p \in hs}
               h    == Healed(d, ps)
           IN  /\ h \in Docs /\ h.clu = d.clu
               /\ hs \subseteq Broken(d) /\ Broken(d) \subseteq Parents
               /\ kids = {b \in Blocks : d.up[b] \in hs}
               /\ \A c \in Ids : h.ca[c] = (d.ca[c] \ kids)
                                    \cup {p \in hs : ShownKids(d, p) \cap d.ca[c] # {}}
               /\ \A b \in Blocks : h.up[b] = IF d.up[b] \in hs THEN NoParent ELSE d.up[b]
<1> DEFINE hs   == Healable(d, ps)
           kids == UNION {ShownKids(d, p) : p \in hs}
           h    == Healed(d, ps)
<1>1. hs \subseteq Broken(d) /\ Broken(d) \subseteq Parents
  BY DEF Healable, Broken
<1>2. kids = {b \in Blocks : d.up[b] \in hs}
  BY DEF ShownKids
<1>3. h = [d EXCEPT !.ca = [c \in Ids |-> (d.ca[c] \ kids)
                                  \cup {p \in hs : ShownKids(d, p) \cap d.ca[c] # {}}],
                    !.up = [b \in Blocks |-> IF b \in kids THEN NoParent ELSE d.up[b]]]
  BY DEF Healed, Docs
<1>4. /\ d.ca \in [Ids -> SUBSET Geos] /\ d.up \in [Blocks -> Parents \cup {NoParent}]
      /\ d.clu \in Stamps
  BY DEF Docs
<1> HIDE DEF hs, kids, h
<1>5. [c \in Ids |-> (d.ca[c] \ kids) \cup {p \in hs : ShownKids(d, p) \cap d.ca[c] # {}}]
         \in [Ids -> SUBSET Geos]
  BY <1>1, <1>4, Geographies
<1>6. [b \in Blocks |-> IF b \in kids THEN NoParent ELSE d.up[b]]
         \in [Blocks -> Parents \cup {NoParent}]
  BY <1>4
<1>7. h \in Docs /\ h.clu = d.clu
  BY <1>3, <1>5, <1>6 DEF Docs
<1>8. /\ \A c \in Ids : h.ca[c] = (d.ca[c] \ kids)
                           \cup {p \in hs : ShownKids(d, p) \cap d.ca[c] # {}}
      /\ \A b \in Blocks : h.up[b] = IF b \in kids THEN NoParent ELSE d.up[b]
  BY <1>3 DEF Docs
<1>9. \A b \in Blocks : b \in kids <=> d.up[b] \in hs
  BY <1>2
<1> QED BY <1>1, <1>2, <1>7, <1>8, <1>9 DEF hs, kids, h

LEMMA BrokenFields ==
    ASSUME NEW d \in Docs, NEW ts \in SUBSET Parents
    PROVE  LET h == BrokenInto(d, ts)
           IN  /\ h \in Docs /\ h.clu = d.clu
               /\ \A c \in Ids : h.ca[c] = {g \in d.ca[c] : g \notin ts \/ Kids(g) = {}}
                                    \cup {b \in Blocks : ParentOf[b] \in ts \cap d.ca[c]}
               /\ \A b \in Blocks : h.up[b] = IF ParentOf[b] \in ts THEN ParentOf[b] ELSE d.up[b]
<1> DEFINE h == BrokenInto(d, ts)
           ca == [c \in Ids |-> {g \in d.ca[c] : g \notin ts \/ Kids(g) = {}}
                                    \cup {b \in Blocks : ParentOf[b] \in ts \cap d.ca[c]}]
           up == [b \in Blocks |-> IF ParentOf[b] \in ts THEN ParentOf[b] ELSE d.up[b]]
<1>1. h = [d EXCEPT !.ca = ca, !.up = up]
  BY DEF BrokenInto, Docs
<1>2. ca \in [Ids -> SUBSET Geos]
  BY Geographies DEF Docs
<1>3. up \in [Blocks -> Parents \cup {NoParent}]
  BY DEF Docs
<1>4. /\ \A c \in Ids : ca[c] = {g \in d.ca[c] : g \notin ts \/ Kids(g) = {}}
                                    \cup {b \in Blocks : ParentOf[b] \in ts \cap d.ca[c]}
      /\ \A b \in Blocks : up[b] = IF ParentOf[b] \in ts THEN ParentOf[b] ELSE d.up[b]
  OBVIOUS
<1> HIDE DEF ca, up, h
<1>5. h \in Docs /\ h.clu = d.clu /\ h.ca = ca /\ h.up = up
  BY <1>1, <1>2, <1>3 DEF Docs
<1> QED BY <1>4, <1>5 DEF h

LEMMA ParsedFields ==
    ASSUME NEW rows, NEW stamp
    PROVE  LET h == Parsed(rows, stamp)
           IN  /\ stamp \in Stamps => h \in Docs
               /\ h.clu = stamp
               /\ h.ca = [c \in Ids |-> {g \in Geos : \E r \in rows : r[1] = g /\ r[2] = c}]
               /\ h.up = [b \in Blocks |-> IF \E r \in rows : r[1] = b /\ r[3] # NoParent
                                           THEN ParentOf[b] ELSE NoParent]
BY Geographies DEF Parsed, Docs

LEMMA RowsType ==
    ASSUME NEW d \in Docs
    PROVE  LocalRows(d) \in SUBSET (Geos \X (Ids \cup {0}) \X (Parents \cup {NoParent}))
<1>1. \A c \in Ids : d.ca[c] \subseteq Geos
  BY DEF Docs
<1>2. \A b \in Blocks : d.up[b] \in Parents \cup {NoParent}
  BY DEF Docs
<1>3. MemberRows(d) \in SUBSET (Geos \X (Ids \cup {0}) \X (Parents \cup {NoParent}))
  BY <1>1, <1>2 DEF MemberRows
<1> QED BY <1>2, <1>3, Geographies DEF LocalRows

LEMMA RecordType ==
    ASSUME NEW n \in Names, NEW b \in Stamps, NEW d \in Docs, NEW stamp \in Stamps
    PROVE  Record(n, b, d, stamp) \in Records
BY RowsType DEF Record, Records

LEMMA ServerRowsType ==
    ASSUME NEW pairs \in SUBSET (Geos \X (Ids \cup {0}))
    PROVE  ServerRows(pairs) \in SUBSET (Geos \X (Ids \cup {0}) \X (Parents \cup {NoParent}))
BY Geographies DEF ServerRows

LEMMA SentType ==
    ASSUME NEW d \in Docs PROVE Sent(d) \in SUBSET (Geos \X (Ids \cup {0}))
BY RowsType DEF Sent

LEMMA IngestedType ==
    ASSUME NEW n \in Names, NEW d PROVE Ingested(n, d) \in Names
BY DEF Ingested, Names

LEMMA FreshStamp ==
    ASSUME clock \in Stamps, CanStamp PROVE Fresh \in Stamps
BY CommunityAssumption DEF Fresh, CanStamp, Stamps

-----------------------------------------------------------------------------
(* The undo history: nothing gets into it that was not held before.        *)

Steps == {past[i] : i \in DOMAIN past} \cup {future[i] : i \in DOMAIN future}

HistoryKept ==
    /\ past' \in Seq(Docs) /\ future' \in Seq(Docs)
    /\ Steps' \subseteq Steps \cup {doc}

LEMMA SameHistory ==
    ASSUME past \in Seq(Docs), future \in Seq(Docs), UNCHANGED <<past, future>>
    PROVE  HistoryKept
BY DEF HistoryKept, Steps

LEMMA NoHistory ==
    ASSUME past' = << >>, future' = << >> PROVE HistoryKept
<1>1. << >> \in Seq(Docs) /\ DOMAIN << >> = {}
  BY EmptySeq, LenProperties
<1> QED BY <1>1 DEF HistoryKept, Steps

LEMMA AppendSteps ==
    ASSUME NEW s \in Seq(Docs), NEW d \in Docs
    PROVE  /\ Append(s, d) \in Seq(Docs)
           /\ {Append(s, d)[i] : i \in DOMAIN Append(s, d)} = {s[i] : i \in DOMAIN s} \cup {d}
<1>1. /\ Append(s, d) \in Seq(Docs) /\ Len(Append(s, d)) = Len(s) + 1
      /\ \A i \in 1..Len(s) : Append(s, d)[i] = s[i]
      /\ Append(s, d)[Len(s) + 1] = d
  BY AppendProperties
<1>2. DOMAIN s = 1..Len(s) /\ DOMAIN Append(s, d) = 1..(Len(s) + 1) /\ Len(s) \in Nat
  BY <1>1, LenProperties
<1> QED BY <1>1, <1>2

LEMMA FrontSteps ==
    ASSUME NEW s \in Seq(Docs), s # << >>
    PROVE  /\ SubSeq(s, 1, Len(s) - 1) \in Seq(Docs)
           /\ LET f == SubSeq(s, 1, Len(s) - 1)
              IN  {f[i] : i \in DOMAIN f} \subseteq {s[i] : i \in DOMAIN s}
           /\ s[Len(s)] \in {s[i] : i \in DOMAIN s} /\ s[Len(s)] \in Docs
<1> DEFINE f == SubSeq(s, 1, Len(s) - 1)
<1>1. Len(s) \in Nat \ {0} /\ DOMAIN s = 1..Len(s)
  BY EmptySeq, LenProperties
<1>2. f \in Seq(Docs) /\ Len(f) = Len(s) - 1 /\ \A i \in 1..Len(f) : f[i] = s[i]
  BY <1>1, SubSeqProperties
<1>3. DOMAIN f = 1..Len(f)
  BY <1>2, LenProperties
<1>4. s[Len(s)] \in Docs
  BY <1>1, ElementOfSeq
<1> QED BY <1>1, <1>2, <1>3, <1>4

LEMMA TailSteps ==
    ASSUME NEW s \in Seq(Docs), s # << >>
    PROVE  /\ Tail(s) \in Seq(Docs)
           /\ {Tail(s)[i] : i \in DOMAIN Tail(s)} \subseteq {s[i] : i \in DOMAIN s}
<1>1. Len(s) \in Nat \ {0} /\ DOMAIN s = 1..Len(s)
  BY EmptySeq, LenProperties
<1>2. /\ Tail(s) \in Seq(Docs) /\ Len(Tail(s)) = Len(s) - 1
      /\ \A i \in 1..Len(Tail(s)) : Tail(s)[i] = s[i + 1]
  BY HeadTailProperties
<1>3. DOMAIN Tail(s) = 1..Len(Tail(s))
  BY <1>2, LenProperties
<1> QED BY <1>1, <1>2, <1>3

LEMMA RememberKeeps ==
    ASSUME doc \in Docs, past \in Seq(Docs), future \in Seq(Docs), Remember
    PROVE  HistoryKept
<1>0. doc \in Docs /\ past \in Seq(Docs) /\ future \in Seq(Docs)
  OBVIOUS
<1>1. CASE ~tracking
  BY <1>1, SameHistory DEF Remember
<1>2. CASE tracking
  <2> DEFINE s == IF Len(past) >= HistoryLimit THEN Tail(past) ELSE past
  <2>1. past' = Append(s, doc) /\ future' = << >>
    BY <1>2 DEF Remember
  <2>2. s \in Seq(Docs) /\ {s[i] : i \in DOMAIN s} \subseteq {past[i] : i \in DOMAIN past}
    <3>1. CASE Len(past) >= HistoryLimit
      <4>1. past # << >>
        BY <3>1, EmptySeq, CommunityAssumption
      <4> QED BY <3>1, <4>1, TailSteps
    <3>2. CASE ~(Len(past) >= HistoryLimit)
      BY <3>2
    <3> QED BY <3>1, <3>2
  <2> HIDE DEF s
  <2>3. /\ Append(s, doc) \in Seq(Docs)
        /\ {Append(s, doc)[i] : i \in DOMAIN Append(s, doc)} = {s[i] : i \in DOMAIN s} \cup {doc}
    BY <1>0, <2>2, AppendSteps
  <2>4. past' \in Seq(Docs)
        /\ {past'[i] : i \in DOMAIN past'} = {s[i] : i \in DOMAIN s} \cup {doc}
    BY <2>1, <2>3, Zenon
  <2>5. future' \in Seq(Docs) /\ DOMAIN future' = {}
    BY <2>1, EmptySeq, LenProperties
  <2> QED BY <2>2, <2>4, <2>5 DEF HistoryKept, Steps
<1> QED BY <1>1, <1>2

LEMMA UndoKeeps ==
    ASSUME doc \in Docs, past \in Seq(Docs), future \in Seq(Docs), Undo
    PROVE  HistoryKept /\ doc' \in Steps /\ doc' \in Docs
<1>1. /\ past # << >> /\ doc' = past[Len(past)]
      /\ past' = SubSeq(past, 1, Len(past) - 1) /\ future' = Append(future, doc)
  BY DEF Undo, Restore
<1> QED BY <1>1, FrontSteps, AppendSteps DEF HistoryKept, Steps

LEMMA RedoKeeps ==
    ASSUME doc \in Docs, past \in Seq(Docs), future \in Seq(Docs), Redo
    PROVE  HistoryKept /\ doc' \in Steps /\ doc' \in Docs
<1>1. /\ future # << >> /\ doc' = future[Len(future)]
      /\ future' = SubSeq(future, 1, Len(future) - 1) /\ past' = Append(past, doc)
  BY DEF Redo, Restore
<1> QED BY <1>1, FrontSteps, AppendSteps DEF HistoryKept, Steps

(* The steps that leave the history, or forget it. *)
LEMMA HistoryStep ==
    ASSUME TypeOK, [Next]_vars PROVE HistoryKept
<1>0. doc \in Docs /\ past \in Seq(Docs) /\ future \in Seq(Docs)
  BY DEF TypeOK
<1>1. CASE Remember
  BY <1>0, <1>1, RememberKeeps
<1>2. CASE UNCHANGED <<past, future>>
  BY <1>0, <1>2, SameHistory
<1>3. CASE past' = << >> /\ future' = << >>
  BY <1>3, NoHistory
<1>4. CASE Undo \/ Redo
  BY <1>0, <1>4, UndoKeeps, RedoKeeps
<1>5. CASE Next
  <2>1. CASE TimerFires \/ StartBreak \/ BreakFails \/ ExitBlockView
    BY <2>1, <1>2 DEF TimerFires, StartBreak, BreakFails, ExitBlockView, history
  <2>2. CASE StartSave \/ SaveDone \/ SaveFails \/ SaveConflicts \/ CloseDialog
    BY <2>2, <1>2 DEF StartSave, SaveDone, SaveFails, SaveConflicts, CloseDialog, history
  <2>3. CASE UseServer \/ Reload
    BY <2>3, <1>1, <1>3 DEF UseServer, Reload
  <2>4. CASE AddCommunity \/ \E c \in Ids : UpdateCommunity(c)
    BY <2>4, <1>2 DEF AddCommunity, UpdateCommunity, EditNames, history
  <2>5. ASSUME NEW gs \in SUBSET Geos, NEW c \in Ids, NEW erase \in BOOLEAN,
               Stroke(gs, c, erase)
        PROVE  HistoryKept
    BY <2>5, <1>1 DEF Stroke
  <2>6. ASSUME NEW ts \in SUBSET Parents, BreakDone(ts) PROVE HistoryKept
    BY <2>6, <1>2 DEF BreakDone, history
  <2>7. ASSUME NEW c \in Ids, NEW breaking \in BOOLEAN, RemoveCommunity(c, breaking)
        PROVE  HistoryKept
    BY <2>7, <1>3 DEF RemoveCommunity
  <2>8. ASSUME NEW cs \in SUBSET Ids, NEW c \in Ids, NEW p \in Parents, OtherSaves(cs, c, p)
        PROVE  HistoryKept
    BY <2>8, <1>2 DEF OtherSaves, history
  <2> QED BY <1>5, <1>4, <2>1, <2>2, <2>3, <2>4, <2>5, <2>6, <2>7, <2>8 DEF Next
<1>6. CASE UNCHANGED vars
  BY <1>6, <1>2 DEF vars
<1> QED BY <1>5, <1>6

-----------------------------------------------------------------------------
(* Types *)

DiskType == local \in Records /\ (waiting = None \/ waiting \in Records)

LEMMA WriteType ==
    ASSUME TypeOK, NEW n \in Names, NEW d \in Docs, NEW now, Fresh \in Stamps, Write(n, d, now)
    PROVE  DiskType'
<1>1. Record(n, base, d, Fresh) \in Records
  BY RecordType DEF TypeOK
<1> QED BY <1>1 DEF Write, DiskType, TypeOK

LEMMA LocalNamesType ==
    ASSUME TypeOK, NEW n \in Names, Fresh \in Stamps
    PROVE  [local EXCEPT !.names = n, !.base = base, !.stamp = Fresh] \in Records
BY DEF TypeOK, Records

LEMMA NewTime ==
    ASSUME TypeOK, Tick PROVE Fresh \in Stamps /\ clock' = Fresh /\ clock' \in Stamps
BY FreshStamp DEF TypeOK, Tick

LEMMA InitType == Init => TypeOK
<1> SUFFICES ASSUME Init PROVE TypeOK
  OBVIOUS
<1>1. clock \in Stamps /\ 1 \in Stamps
  BY CommunityAssumption DEF Init, Stamps
<1>2. doc \in Docs
  BY <1>1, ParsedFields DEF Init
<1>3. server.names \in Names /\ server.stamp \in Stamps /\ server.pairs = {}
      /\ server \in [names: Names, pairs: SUBSET (Geos \X (Ids \cup {0})), stamp: Stamps]
  BY <1>1 DEF Init, Names
<1>4. local \in Records
  BY <1>1, <1>2, <1>3, RecordType DEF Init
<1>5. << >> \in Seq(Docs)
  BY EmptySeq
<1> QED BY <1>1, <1>2, <1>3, <1>4, <1>5 DEF Init, TypeOK

LEMMA HealedType ==
    ASSUME NEW d \in Docs, NEW ps PROVE Healed(d, ps) \in Docs
BY HealedFields

LEMMA MutatedType ==
    ASSUME TypeOK, Fresh \in Stamps, NEW gs \in SUBSET Geos, NEW c \in Ids,
           NEW erase \in BOOLEAN
    PROVE  /\ Mutated(gs, c, erase) \in Docs
           /\ Mutated(gs, c, erase).clu = Fresh /\ Mutated(gs, c, erase).up = doc.up
           /\ \A e \in Ids : /\ Mutated(gs, c, erase).ca[e] \subseteq doc.ca[e] \cup gs
                             /\ e # c => Mutated(gs, c, erase).ca[e] = doc.ca[e]
<1>1. doc.ca \in [Ids -> SUBSET Geos]
  BY DEF TypeOK, Docs
<1> DEFINE set == IF erase THEN doc.ca[c] \ gs ELSE doc.ca[c] \cup gs
<1>2. Mutated(gs, c, erase) = [doc EXCEPT !.ca = [doc.ca EXCEPT ![c] = set], !.clu = Fresh]
  BY DEF Mutated, TypeOK, Docs
<1>3. set \in SUBSET Geos
  BY <1>1
<1>4. set \subseteq doc.ca[c] \cup gs
  OBVIOUS
<1> HIDE DEF set
<1>5. /\ [doc.ca EXCEPT ![c] = set] \in [Ids -> SUBSET Geos]
      /\ \A e \in Ids : [doc.ca EXCEPT ![c] = set][e] = IF e # c THEN doc.ca[e] ELSE set
  BY <1>1, <1>3
<1>6. /\ Mutated(gs, c, erase) \in Docs
      /\ Mutated(gs, c, erase).clu = Fresh /\ Mutated(gs, c, erase).up = doc.up
      /\ Mutated(gs, c, erase).ca = [doc.ca EXCEPT ![c] = set]
  BY <1>2, <1>5 DEF TypeOK, Docs
<1> QED BY <1>4, <1>5, <1>6

LEMMA RestampedType ==
    ASSUME TypeOK, Fresh \in Stamps
    PROVE  /\ [doc EXCEPT !.clu = Fresh] \in Docs
           /\ [doc EXCEPT !.clu = Fresh].ca = doc.ca /\ [doc EXCEPT !.clu = Fresh].up = doc.up
           /\ [doc EXCEPT !.clu = Fresh].clu = Fresh
BY DEF TypeOK, Docs

LEMMA EmptiedType ==
    ASSUME TypeOK, Fresh \in Stamps, NEW c \in Ids
    PROVE  /\ Emptied(c) \in Docs /\ Emptied(c).clu = Fresh /\ Emptied(c).up = doc.up
           /\ \A e \in Ids : Emptied(c).ca[e] = IF e = c THEN {} ELSE doc.ca[e]
<1>1. doc.ca \in [Ids -> SUBSET Geos]
  BY DEF TypeOK, Docs
<1>2. Emptied(c) = [doc EXCEPT !.ca = [doc.ca EXCEPT ![c] = {}], !.clu = Fresh]
  BY DEF Emptied, TypeOK, Docs
<1>3. [doc.ca EXCEPT ![c] = {}] \in [Ids -> SUBSET Geos]
  BY <1>1
<1> QED BY <1>1, <1>2, <1>3 DEF TypeOK, Docs

LEMMA StrokeType ==
    ASSUME TypeOK, NEW gs \in SUBSET Geos, NEW c \in Ids, NEW erase \in BOOLEAN,
           Stroke(gs, c, erase)
    PROVE  TypeOK'
<1> DEFINE painted == Mutated(gs, c, erase)
<1>1. Fresh \in Stamps /\ clock' \in Stamps
  BY NewTime DEF Stroke
<1>2. painted \in Docs
  BY <1>1, MutatedType, Zenon
<1>3. doc' = Healed(painted, Touched(gs))
      /\ Write(names, doc', Healable(painted, Touched(gs)) # {})
  BY DEF Stroke
<1> HIDE DEF painted
<1>4. doc' \in Docs
  BY <1>2, <1>3, HealedType
<1>5. DiskType'
  BY <1>1, <1>3, <1>4, WriteType DEF TypeOK
<1>6. HistoryKept
  BY RememberKeeps DEF Stroke, TypeOK
<1> QED BY <1>1, <1>4, <1>5, <1>6 DEF Stroke, TypeOK, DiskType, HistoryKept, meta, view

LEMMA BreakDoneType ==
    ASSUME TypeOK, NEW ts \in SUBSET Parents, BreakDone(ts) PROVE TypeOK'
<1> DEFINE d == [doc EXCEPT !.clu = Fresh]
<1>1. Fresh \in Stamps /\ clock' \in Stamps
  BY NewTime DEF BreakDone
<1>2. d \in Docs
  BY <1>1, RestampedType
<1>3. doc' = BrokenInto(d, ts) /\ Write(names, doc', FALSE)
  BY DEF BreakDone
<1> HIDE DEF d
<1>4. doc' \in Docs
  BY <1>2, <1>3, BrokenFields
<1>5. DiskType'
  BY <1>1, <1>3, <1>4, WriteType DEF TypeOK
<1>6. captive' \subseteq Blocks /\ focus' \in Parents \cup {None}
  BY DEF BreakDone, Kids
<1> QED BY <1>1, <1>4, <1>5, <1>6 DEF BreakDone, TypeOK, DiskType, meta, history

LEMMA ExitType ==
    ASSUME TypeOK, ExitBlockView PROVE TypeOK'
<1>0. doc \in Docs
  BY DEF TypeOK
<1> DEFINE d == [doc EXCEPT !.clu = Fresh]
<1>1. Fresh \in Stamps /\ clock' \in Stamps
  BY NewTime DEF ExitBlockView
<1>2. d \in Docs
  BY <1>1, RestampedType
<1>3. \/ doc' = Healed(d, {focus}) /\ Write(names, doc', TRUE)
      \/ UNCHANGED <<doc, disk>>
  BY DEF ExitBlockView
<1> HIDE DEF d
<1>4. doc' \in Docs
  BY <1>0, <1>2, <1>3, HealedType
<1>5. DiskType'
  BY <1>1, <1>3, <1>4, WriteType DEF TypeOK, disk, DiskType
<1> QED BY <1>1, <1>4, <1>5 DEF ExitBlockView, TypeOK, DiskType, meta

LEMMA RestoreType ==
    ASSUME TypeOK, Undo \/ Redo PROVE TypeOK'
<1>1. Fresh \in Stamps /\ clock' \in Stamps
  BY NewTime DEF Undo, Redo, Restore
<1>2. HistoryKept /\ doc' \in Docs
  BY UndoKeeps, RedoKeeps DEF TypeOK
<1>3. Write(names, doc', TRUE)
  BY DEF Undo, Redo, Restore
<1>4. DiskType'
  BY <1>1, <1>2, <1>3, WriteType DEF TypeOK
<1> QED BY <1>1, <1>2, <1>4 DEF Undo, Redo, Restore, TypeOK, DiskType, HistoryKept, meta, view

LEMMA EditNamesType ==
    ASSUME TypeOK, NEW n \in Names, EditNames(n) PROVE TypeOK'
<1>1. Fresh \in Stamps /\ clock' \in Stamps
  BY NewTime DEF EditNames
<1>2. doc' \in Docs
  BY <1>1, RestampedType DEF EditNames
<1>3. local' \in Records
  BY <1>1, LocalNamesType DEF EditNames
<1> QED BY <1>1, <1>2, <1>3 DEF EditNames, TypeOK, history, view

LEMMA RemoveType ==
    ASSUME TypeOK, NEW c \in Ids, NEW breaking \in BOOLEAN, RemoveCommunity(c, breaking)
    PROVE  TypeOK'
<1>1. Fresh \in Stamps /\ clock' \in Stamps
  BY NewTime DEF RemoveCommunity
<1>2. names' \in Names
  BY DEF RemoveCommunity, TypeOK, Names
<1>3. Emptied(c) \in Docs
  BY <1>1, EmptiedType
<1>4. doc' \in Docs
  BY <1>3, HealedType DEF RemoveCommunity, DropCommunity
<1>5. Record(names', base, doc', Fresh) \in Records
  BY <1>1, <1>2, <1>4, RecordType DEF TypeOK
<1>6. [local EXCEPT !.names = names', !.base = base, !.stamp = Fresh] \in Records
  BY <1>1, <1>2, LocalNamesType
<1>7. DiskType'
  BY <1>5, <1>6 DEF RemoveCommunity, DropCommunity, DiskType
<1>8. past' \in Seq(Docs) /\ future' \in Seq(Docs)
  BY EmptySeq DEF RemoveCommunity
<1> QED BY <1>1, <1>2, <1>4, <1>7, <1>8 DEF RemoveCommunity, TypeOK, DiskType, view

LEMMA SaveDoneType ==
    ASSUME TypeOK, SaveDone PROVE TypeOK'
<1>1. Fresh \in Stamps /\ clock' \in Stamps
  BY NewTime DEF SaveDone
<1>2. doc' \in Docs
  BY <1>1, RestampedType DEF SaveDone
<1>3. Sent(doc) \in SUBSET (Geos \X (Ids \cup {0}))
  BY SentType DEF TypeOK
<1>4. ServerRows(Sent(doc)) \in SUBSET (Geos \X (Ids \cup {0}) \X (Parents \cup {NoParent}))
  BY <1>3, ServerRowsType
<1> QED BY <1>1, <1>2, <1>3, <1>4 DEF SaveDone, TypeOK, Records, history, view

LEMMA ShowType ==
    ASSUME TypeOK, NEW n \in Names, NEW b \in Stamps, NEW rows, NEW stamp \in Stamps,
           Show(n, b, Parsed(rows, stamp)), HistoryKept, tracking' \in BOOLEAN
    PROVE  TypeOK'
<1> DEFINE d == Parsed(rows, stamp)
<1>1. d \in Docs /\ d.clu \in Stamps
  BY ParsedFields
<1> HIDE DEF d
<1>2. doc' = d /\ names' = Ingested(n, d) /\ local' = Record(n, b, d, d.clu)
  BY DEF Show, d
<1>3. names' \in Names
  BY <1>2, IngestedType
<1>4. local' \in Records
  BY <1>1, <1>2, <1>3, RecordType
<1> QED BY <1>1, <1>2, <1>3, <1>4 DEF Show, TypeOK, HistoryKept

LEMMA UseServerType ==
    ASSUME TypeOK, UseServer PROVE TypeOK'
<1>1. Show(server.names, server.stamp, Parsed(ServerRows(server.pairs), server.stamp))
      /\ HistoryKept /\ tracking' \in BOOLEAN
  BY RememberKeeps DEF UseServer, TypeOK
<1>2. server.names \in Names /\ server.stamp \in Stamps
  BY DEF TypeOK
<1> QED BY <1>1, <1>2, ShowType

LEMMA ReloadType ==
    ASSUME TypeOK, Reload PROVE TypeOK'
<1>1. \/ Show(server.names, server.stamp, Parsed(ServerRows(server.pairs), server.stamp))
      \/ Show(local.names, local.base, Parsed(local.rows, local.stamp))
  BY DEF Reload
<1>2. HistoryKept /\ tracking' \in BOOLEAN
  BY NoHistory DEF Reload
<1>3. /\ server.names \in Names /\ server.stamp \in Stamps
      /\ local.names \in Names /\ local.base \in Stamps /\ local.stamp \in Stamps
  BY DEF TypeOK, Records
<1> QED BY <1>1, <1>2, <1>3, ShowType

LEMMA OtherSavesType ==
    ASSUME TypeOK, NEW cs \in SUBSET Ids, NEW c \in Ids, NEW p \in Parents, OtherSaves(cs, c, p)
    PROVE  TypeOK'
<1>1. Fresh \in Stamps /\ clock' \in Stamps
  BY NewTime DEF OtherSaves
<1>2. [e \in Ids |-> IF e \in cs THEN server.names[e] ELSE "none"] \in Names
  BY DEF TypeOK, Names
<1>3. {<<p, c>>} \in SUBSET (Geos \X (Ids \cup {0}))
  BY Geographies
<1> QED BY <1>1, <1>2, <1>3 DEF OtherSaves, TypeOK, meta, history, view, disk

LEMMA NextType == TypeOK /\ [Next]_vars => TypeOK'
<1> SUFFICES ASSUME TypeOK, [Next]_vars PROVE TypeOK'
  OBVIOUS
<1>1. CASE TimerFires \/ StartBreak \/ BreakFails
  BY <1>1 DEF TimerFires, StartBreak, BreakFails, TypeOK, meta, history, view, disk
<1>2. CASE StartSave \/ SaveFails \/ SaveConflicts \/ CloseDialog
  BY <1>2 DEF StartSave, SaveFails, SaveConflicts, CloseDialog, TypeOK, meta, history, view, disk
<1>3. CASE AddCommunity
  <2>1. PICK id \in Ids : EditNames([names EXCEPT ![id] = "default"])
    BY <1>3 DEF AddCommunity
  <2>2. [names EXCEPT ![id] = "default"] \in Names
    BY DEF TypeOK, Names
  <2> QED BY <2>1, <2>2, EditNamesType
<1>4. ASSUME NEW c \in Ids, UpdateCommunity(c) PROVE TypeOK'
  <2>1. [names EXCEPT ![c] = "given"] \in Names
    BY DEF TypeOK, Names
  <2> QED BY <1>4, <2>1, EditNamesType DEF UpdateCommunity
<1>5. CASE UNCHANGED vars
  BY <1>5 DEF vars, TypeOK
<1> QED BY <1>1, <1>2, <1>3, <1>4, <1>5, StrokeType, BreakDoneType, ExitType, RestoreType,
           RemoveType, SaveDoneType, UseServerType, ReloadType, OtherSavesType DEF Next

(* Every variable keeps the shape the stores give it, whatever happens.    *)
THEOREM TypeCorrect == Spec => []TypeOK
BY InitType, NextType, PTL DEF Spec

-----------------------------------------------------------------------------
(* No double coverage.  The invariant says it of every plan that can       *)
(* become the store's: the snapshots, and what IndexedDB, the debounced    *)
(* write and the server hold.                                              *)

Sound(d) ==
    /\ \A p \in Broken(d) : ShownKids(d, p) = Kids(p) /\ \A c \in Ids : p \notin d.ca[c]
    /\ \A b \in Blocks : d.up[b] = NoParent => \A c \in Ids : b \notin d.ca[c]

RowsSound(rows) == Sound(Parsed(rows, 1))

DiskSound == RowsSound(local.rows) /\ (waiting # None => RowsSound(waiting.rows))

PlanSound ==
    /\ \A d \in Held : Sound(d)
    /\ DiskSound
    /\ RowsSound(ServerRows(server.pairs))

(* It depends on the memberships and the edges only. *)
LEMMA SameSound ==
    ASSUME NEW d, NEW e, Sound(d), e.ca = d.ca, e.up = d.up PROVE Sound(e)
<1>1. Broken(e) = Broken(d) /\ \A p \in Parents : ShownKids(e, p) = ShownKids(d, p)
  BY DEF Broken, ShownKids
<1>2. Broken(d) \subseteq Parents
  BY DEF Broken
<1> QED BY <1>1, <1>2 DEF Sound

LEMMA AnyStamp ==
    ASSUME NEW rows, NEW stamp, RowsSound(rows) PROVE Sound(Parsed(rows, stamp))
<1> DEFINE d == Parsed(rows, 1)
           e == Parsed(rows, stamp)
<1> DEFINE ca == [c \in Ids |-> {g \in Geos : \E r \in rows : r[1] = g /\ r[2] = c}]
           up == [b \in Blocks |-> IF \E r \in rows : r[1] = b /\ r[3] # NoParent
                                   THEN ParentOf[b] ELSE NoParent]
<1>1. d.ca = ca /\ d.up = up /\ e.ca = ca /\ e.up = up
  BY DEF Parsed
<1>2. Sound(d)
  BY DEF RowsSound
<1> HIDE DEF d, e, ca, up
<1>3. Sound(e)
  BY <1>1, <1>2, SameSound
<1> QED BY <1>3 DEF e

LEMMA EmptySound ==
    ASSUME NEW d, d.up = [b \in Blocks |-> NoParent], \A c \in Ids : d.ca[c] \cap Blocks = {}
    PROVE  Sound(d)
<1>1. Broken(d) = {}
  BY Geographies DEF Broken, ShownKids
<1> QED BY <1>1 DEF Sound

LEMMA HealedSound ==
    ASSUME NEW d \in Docs, NEW ps, Sound(d) PROVE Sound(Healed(d, ps))
<1> DEFINE hs   == Healable(d, ps)
           kids == UNION {ShownKids(d, p) : p \in hs}
           h    == Healed(d, ps)
<1>1. /\ hs \subseteq Parents /\ kids = {b \in Blocks : d.up[b] \in hs}
      /\ \A c \in Ids : h.ca[c] = (d.ca[c] \ kids)
                           \cup {p \in hs : ShownKids(d, p) \cap d.ca[c] # {}}
      /\ \A b \in Blocks : h.up[b] = IF d.up[b] \in hs THEN NoParent ELSE d.up[b]
  BY HealedFields
<1> HIDE DEF hs, kids, h
<1>2. ASSUME NEW p \in Broken(h)
      PROVE  ShownKids(h, p) = Kids(p) /\ \A c \in Ids : p \notin h.ca[c]
  <2>1. p \in Parents /\ \E b \in Blocks : h.up[b] = p
    BY DEF Broken, ShownKids
  <2>2. p \notin hs
    BY <1>1, <2>1, Geographies
  <2>3. ShownKids(h, p) = ShownKids(d, p)
    BY <1>1, <2>1, <2>2, Geographies DEF ShownKids
  <2>4. p \in Broken(d)
    BY <2>1, <2>3 DEF Broken
  <2> QED BY <1>1, <2>2, <2>3, <2>4 DEF Sound
<1>3. ASSUME NEW b \in Blocks, h.up[b] = NoParent, NEW c \in Ids PROVE b \notin h.ca[c]
  <2>1. b \notin hs
    BY <1>1, Geographies
  <2>2. CASE d.up[b] \in hs
    BY <1>1, <2>1, <2>2
  <2>3. CASE d.up[b] \notin hs
    BY <1>1, <1>3, <2>1, <2>3 DEF Sound
  <2> QED BY <2>2, <2>3
<1> QED BY <1>2, <1>3 DEF Sound, h

LEMMA BrokenSound ==
    ASSUME NEW d \in Docs, NEW ts \in SUBSET Parents, Sound(d), ts \cap Broken(d) = {}
    PROVE  Sound(BrokenInto(d, ts))
<1> DEFINE h == BrokenInto(d, ts)
<1>1. /\ \A c \in Ids : h.ca[c] = {g \in d.ca[c] : g \notin ts \/ Kids(g) = {}}
                           \cup {b \in Blocks : ParentOf[b] \in ts \cap d.ca[c]}
      /\ \A b \in Blocks : h.up[b] = IF ParentOf[b] \in ts THEN ParentOf[b] ELSE d.up[b]
  BY BrokenFields
<1> HIDE DEF h
<1>2. \A b \in Blocks : d.up[b] \in Parents => d.up[b] = ParentOf[b] /\ d.up[b] \in Broken(d)
  BY DEF Sound, Broken, ShownKids, Kids
<1>3. ASSUME NEW p \in Broken(h)
      PROVE  ShownKids(h, p) = Kids(p) /\ \A c \in Ids : p \notin h.ca[c]
  <2>1. PICK b \in Blocks : h.up[b] = p
    BY DEF Broken, ShownKids
  <2>2. p \in Parents /\ p \notin Blocks
    BY Geographies DEF Broken
  <2>3. ParentOf[b] = p
    BY <1>1, <1>2, <2>1, <2>2
  <2>4. CASE p \in ts
    <3>1. Kids(p) # {}
      BY <2>3 DEF Kids
    <3>2. ShownKids(h, p) = Kids(p)
      BY <1>1, <1>2, <2>2, <2>4 DEF ShownKids, Kids
    <3> QED BY <1>1, <2>2, <2>4, <3>1, <3>2
  <2>5. CASE p \notin ts
    <3>1. ShownKids(h, p) = ShownKids(d, p) /\ p \in Broken(d)
      BY <1>1, <1>2, <2>1, <2>2, <2>5 DEF ShownKids, Broken
    <3> QED BY <1>1, <2>2, <3>1 DEF Sound
  <2> QED BY <2>4, <2>5
<1>4. \A b \in Blocks : h.up[b] = NoParent => \A c \in Ids : b \notin h.ca[c]
  BY <1>1, Geographies DEF Sound
<1> QED BY <1>3, <1>4 DEF Sound, h

(* What is written can be read back: a row per membership and one for each *)
(* idle child say it all, as long as nothing is covered twice.             *)
LEMMA ParsedLocal ==
    ASSUME NEW d \in Docs, NEW stamp, Sound(d)
    PROVE  Parsed(LocalRows(d), stamp).ca = d.ca /\ Parsed(LocalRows(d), stamp).up = d.up
<1> DEFINE h == Parsed(LocalRows(d), stamp)
<1>1. /\ h.ca = [c \in Ids |-> {g \in Geos : \E r \in LocalRows(d) : r[1] = g /\ r[2] = c}]
      /\ h.up = [b \in Blocks |-> IF \E r \in LocalRows(d) : r[1] = b /\ r[3] # NoParent
                                  THEN ParentOf[b] ELSE NoParent]
  BY ParsedFields
<1> HIDE DEF h
<1>2. d.ca \in [Ids -> SUBSET Geos] /\ d.up \in [Blocks -> Parents \cup {NoParent}]
  BY DEF Docs
<1>3. \A r \in LocalRows(d) :
         \/ \E c \in Ids, g \in Geos : /\ g \in d.ca[c] /\ r[1] = g /\ r[2] = c
                                       /\ r[3] = IF g \in Blocks THEN d.up[g] ELSE NoParent
         \/ \E b \in Blocks : r[1] = b /\ r[2] = 0 /\ r[3] = d.up[b] /\ d.up[b] # NoParent
  BY <1>2 DEF LocalRows, MemberRows
<1>4. \A c \in Ids : \A g \in d.ca[c] : \E r \in LocalRows(d) :
         r[1] = g /\ r[2] = c /\ r[3] = IF g \in Blocks THEN d.up[g] ELSE NoParent
  <2> SUFFICES ASSUME NEW c \in Ids, NEW g \in d.ca[c]
               PROVE  \E r \in LocalRows(d) :
                         r[1] = g /\ r[2] = c /\ r[3] = IF g \in Blocks THEN d.up[g] ELSE NoParent
    OBVIOUS
  <2>1. <<g, c, IF g \in Blocks THEN d.up[g] ELSE NoParent>> \in LocalRows(d)
    BY DEF LocalRows, MemberRows
  <2> QED BY <2>1
<1>5. \A b \in Blocks : d.up[b] # NoParent =>
         \E r \in LocalRows(d) : r[1] = b /\ r[3] = d.up[b]
  <2> SUFFICES ASSUME NEW b \in Blocks, d.up[b] # NoParent
               PROVE  \E r \in LocalRows(d) : r[1] = b /\ r[3] = d.up[b]
    OBVIOUS
  <2>1. CASE \E c \in Ids : b \in d.ca[c]
    BY <1>4, <2>1
  <2>2. CASE \A c \in Ids : b \notin d.ca[c]
    <3>1. <<b, 0, d.up[b]>> \in LocalRows(d)
      BY <2>2 DEF LocalRows
    <3> QED BY <3>1
  <2> QED BY <2>1, <2>2
<1>6. \A b \in Blocks : d.up[b] # NoParent => d.up[b] = ParentOf[b]
  BY <1>2 DEF Sound, Broken, ShownKids, Kids
<1>7. \A c \in Ids : h.ca[c] = d.ca[c]
  BY <1>1, <1>2, <1>3, <1>4, Geographies
<1>8. \A b \in Blocks : h.up[b] = d.up[b]
  <2> SUFFICES ASSUME NEW b \in Blocks PROVE h.up[b] = d.up[b]
    OBVIOUS
  <2>1. h.up[b] = IF \E r \in LocalRows(d) : r[1] = b /\ r[3] # NoParent
                  THEN ParentOf[b] ELSE NoParent
    BY <1>1
  <2>2. (\E r \in LocalRows(d) : r[1] = b /\ r[3] # NoParent) <=> d.up[b] # NoParent
    BY <1>3, <1>5
  <2> QED BY <1>6, <2>1, <2>2
<1>9. h.ca = [c \in Ids |-> h.ca[c]] /\ h.up = [b \in Blocks |-> h.up[b]]
  BY <1>1
<1>10. h.ca = d.ca
  BY <1>2, <1>7, <1>9
<1>11. h.up = d.up
  BY <1>2, <1>8, <1>9
<1> QED BY <1>10, <1>11 DEF h

LEMMA ParsedSent ==
    ASSUME NEW d \in Docs, NEW stamp, Sound(d)
    PROVE  /\ Parsed(ServerRows(Sent(d)), stamp).ca = d.ca
           /\ Parsed(ServerRows(Sent(d)), stamp).up = d.up
<1> DEFINE h == Parsed(ServerRows(Sent(d)), stamp)
           k == Parsed(LocalRows(d), stamp)
<1>1. /\ h.ca = [c \in Ids |-> {g \in Geos : \E r \in ServerRows(Sent(d)) : r[1] = g /\ r[2] = c}]
      /\ h.up = [b \in Blocks |-> IF \E r \in ServerRows(Sent(d)) : r[1] = b /\ r[3] # NoParent
                                  THEN ParentOf[b] ELSE NoParent]
      /\ k.ca = [c \in Ids |-> {g \in Geos : \E r \in LocalRows(d) : r[1] = g /\ r[2] = c}]
      /\ k.up = [b \in Blocks |-> IF \E r \in LocalRows(d) : r[1] = b /\ r[3] # NoParent
                                  THEN ParentOf[b] ELSE NoParent]
  BY ParsedFields
<1>2. k.ca = d.ca /\ k.up = d.up
  BY ParsedLocal
<1> HIDE DEF h, k
<1>3. ASSUME NEW r \in LocalRows(d)
      PROVE  \E t \in ServerRows(Sent(d)) :
                t[1] = r[1] /\ t[2] = r[2] /\ (r[1] \in Blocks => t[3] # NoParent)
  <2>1. <<r[1], r[2]>> \in Sent(d)
    BY DEF Sent
  <2>2. <<r[1], r[2], IF r[1] \in Blocks THEN ParentOf[r[1]] ELSE NoParent>>
           \in ServerRows(Sent(d))
    BY <2>1 DEF ServerRows
  <2> QED BY <2>2, Geographies
<1>4. ASSUME NEW t \in ServerRows(Sent(d))
      PROVE  \E r \in LocalRows(d) : t[1] = r[1] /\ t[2] = r[2]
  <2>1. PICK s \in Sent(d) : t[1] = s[1] /\ t[2] = s[2]
    BY DEF ServerRows
  <2> QED BY <2>1 DEF Sent
<1>5. ASSUME NEW b \in Blocks, NEW r \in LocalRows(d), r[1] = b
      PROVE  r[3] # NoParent
  BY <1>5 DEF LocalRows, MemberRows, Sound
<1>6. \A g, c : (\E r \in ServerRows(Sent(d)) : r[1] = g /\ r[2] = c)
                  <=> (\E r \in LocalRows(d) : r[1] = g /\ r[2] = c)
  BY <1>3, <1>4
<1>7. \A b \in Blocks : (\E r \in ServerRows(Sent(d)) : r[1] = b /\ r[3] # NoParent)
                           <=> (\E r \in LocalRows(d) : r[1] = b /\ r[3] # NoParent)
  BY <1>3, <1>4, <1>5
<1>8. h.ca = k.ca
  <2>1. ASSUME NEW c \in Ids PROVE h.ca[c] = k.ca[c]
    <3>1. h.ca[c] = {g \in Geos : \E r \in ServerRows(Sent(d)) : r[1] = g /\ r[2] = c}
      BY <1>1
    <3>2. k.ca[c] = {g \in Geos : \E r \in LocalRows(d) : r[1] = g /\ r[2] = c}
      BY <1>1
    <3>3. \A g : g \in h.ca[c] <=> g \in k.ca[c]
      BY <1>6, <3>1, <3>2
    <3> QED BY <3>3
  <2>2. h.ca = [c \in Ids |-> h.ca[c]] /\ k.ca = [c \in Ids |-> k.ca[c]]
    BY <1>1
  <2> QED BY <2>1, <2>2
<1>9. h.up = k.up
  BY <1>1, <1>7
<1> QED BY <1>2, <1>8, <1>9 DEF h

(* What is held after a step was held before, or is the new document.      *)
LEMMA HeldStep ==
    ASSUME TypeOK, [Next]_vars
    PROVE  doc \in Held /\ Held' \subseteq Held \cup {doc'} /\ Steps \subseteq Held
<1>1. Held = {doc} \cup Steps
  BY DEF Held, Steps
<1>2. Steps' \subseteq Steps \cup {doc}
  BY HistoryStep DEF HistoryKept
<1>3. Held' = {doc'} \cup Steps'
  BY DEF Held, Steps
<1> QED BY <1>1, <1>2, <1>3

LEMMA LocalSound ==
    ASSUME NEW d \in Docs, Sound(d) PROVE RowsSound(LocalRows(d))
BY ParsedLocal, SameSound DEF RowsSound

LEMMA SentSound ==
    ASSUME NEW d \in Docs, Sound(d) PROVE RowsSound(ServerRows(Sent(d)))
BY ParsedSent, SameSound DEF RowsSound

LEMMA WriteSound ==
    ASSUME DiskSound, NEW n, NEW d \in Docs, Sound(d), NEW now, Write(n, d, now)
    PROVE  DiskSound'
<1>1. Record(n, base, d, Fresh).rows = LocalRows(d) /\ RowsSound(LocalRows(d))
  BY LocalSound DEF Record
<1> QED BY <1>1 DEF Write, DiskSound

LEMMA ShowSound ==
    ASSUME NEW rows, NEW n, NEW b, NEW stamp \in Stamps, RowsSound(rows),
           Show(n, b, Parsed(rows, stamp))
    PROVE  Sound(doc') /\ DiskSound'
<1> DEFINE d == Parsed(rows, stamp)
<1>1. d \in Docs /\ Sound(d)
  BY AnyStamp, ParsedFields
<1> HIDE DEF d
<1>2. doc' = d /\ local' = Record(n, b, d, d.clu) /\ waiting' = None
  BY DEF Show, d
<1>3. local'.rows = LocalRows(d)
  BY <1>2 DEF Record
<1> QED BY <1>1, <1>2, <1>3, LocalSound DEF DiskSound

(* What the step of the document has to keep, for each action. *)
SoundAfter == Sound(doc') /\ DiskSound' /\ RowsSound(ServerRows(server.pairs))'

LEMMA StrokeSound ==
    ASSUME TypeOK, PlanSound, NEW gs \in SUBSET Geos, NEW c \in Ids, NEW erase \in BOOLEAN,
           Stroke(gs, c, erase)
    PROVE  SoundAfter
<1> DEFINE painted == Mutated(gs, c, erase)
<1>1. Fresh \in Stamps
  BY NewTime DEF Stroke
<1>2. /\ painted \in Docs /\ painted.up = doc.up
      /\ \A e \in Ids : painted.ca[e] \subseteq doc.ca[e] \cup gs
  BY <1>1, MutatedType
<1>3. doc' = Healed(painted, Touched(gs))
      /\ Write(names, doc', Healable(painted, Touched(gs)) # {})
  BY DEF Stroke
<1> HIDE DEF painted
<1>4. gs \subseteq (Parents \ Broken(doc)) \cup {b \in Blocks : doc.up[b] # NoParent}
  BY DEF Stroke, Paintable
<1>5. Sound(doc) /\ DiskSound
  BY DEF PlanSound, Held
<1>6. Broken(painted) = Broken(doc) /\ \A p \in Parents : ShownKids(painted, p) = ShownKids(doc, p)
  BY <1>2 DEF Broken, ShownKids
<1>7. Sound(painted)
  <2>1. ASSUME NEW p \in Broken(painted), NEW e \in Ids
        PROVE  ShownKids(painted, p) = Kids(p) /\ p \notin painted.ca[e]
    BY <1>2, <1>4, <1>5, <1>6, <2>1, Geographies DEF Sound, Broken
  <2>2. ASSUME NEW b \in Blocks, painted.up[b] = NoParent, NEW e \in Ids
        PROVE  b \notin painted.ca[e]
    BY <1>2, <1>4, <1>5, <2>2, Geographies DEF Sound
  <2>3. 1 \in Ids
    BY CommunityAssumption DEF Ids
  <2> QED BY <2>1, <2>2, <2>3 DEF Sound
<1>8. doc' \in Docs /\ Sound(doc')
  BY <1>2, <1>3, <1>7, HealedType, HealedSound
<1>9. DiskSound'
  BY <1>3, <1>5, <1>8, WriteSound
<1> QED BY <1>8, <1>9 DEF SoundAfter, PlanSound, Stroke

LEMMA BreakSound ==
    ASSUME TypeOK, PlanSound, NEW ts \in SUBSET Parents, BreakDone(ts) PROVE SoundAfter
<1> DEFINE d == [doc EXCEPT !.clu = Fresh]
<1>1. Fresh \in Stamps
  BY NewTime DEF BreakDone
<1>2. d \in Docs /\ d.ca = doc.ca /\ d.up = doc.up
  BY <1>1, RestampedType
<1>3. doc' = BrokenInto(d, ts) /\ Write(names, doc', FALSE) /\ ts \cap Broken(doc) = {}
  BY DEF BreakDone
<1> HIDE DEF d
<1>4. Sound(doc) /\ DiskSound
  BY DEF PlanSound, Held
<1>5. Sound(d) /\ Broken(d) = Broken(doc)
  BY <1>2, <1>4, SameSound DEF Broken, ShownKids
<1>6. doc' \in Docs /\ Sound(doc')
  BY <1>2, <1>3, <1>5, BrokenFields, BrokenSound
<1>7. DiskSound'
  BY <1>3, <1>4, <1>6, WriteSound
<1> QED BY <1>6, <1>7 DEF SoundAfter, PlanSound, BreakDone

LEMMA ExitSound ==
    ASSUME TypeOK, PlanSound, ExitBlockView PROVE SoundAfter
<1> DEFINE d == [doc EXCEPT !.clu = Fresh]
<1>1. Fresh \in Stamps
  BY NewTime DEF ExitBlockView
<1>2. d \in Docs /\ d.ca = doc.ca /\ d.up = doc.up
  BY <1>1, RestampedType
<1>3. \/ doc' = Healed(d, {focus}) /\ Write(names, doc', TRUE)
      \/ UNCHANGED <<doc, disk>>
  BY DEF ExitBlockView
<1> HIDE DEF d
<1>4. Sound(doc) /\ DiskSound
  BY DEF PlanSound, Held
<1>5. Sound(Healed(d, {focus})) /\ Healed(d, {focus}) \in Docs
  BY <1>2, <1>4, SameSound, HealedSound, HealedType
<1>6. Sound(doc') /\ DiskSound'
  BY <1>3, <1>4, <1>5, WriteSound DEF disk, DiskSound
<1> QED BY <1>6 DEF SoundAfter, PlanSound, ExitBlockView

LEMMA RestoreSound ==
    ASSUME TypeOK, PlanSound, Undo \/ Redo PROVE SoundAfter
<1>1. doc' \in Steps /\ doc' \in Docs
  BY UndoKeeps, RedoKeeps DEF TypeOK
<1>2. Sound(doc') /\ DiskSound
  BY <1>1 DEF PlanSound, Held, Steps
<1>3. Write(names, doc', TRUE) /\ UNCHANGED server
  BY DEF Undo, Redo, Restore
<1>4. DiskSound'
  BY <1>1, <1>2, <1>3, WriteSound
<1> QED BY <1>2, <1>3, <1>4 DEF SoundAfter, PlanSound

LEMMA EditNamesSound ==
    ASSUME TypeOK, PlanSound, NEW n, EditNames(n) PROVE SoundAfter
<1>1. Sound(doc) /\ doc'.ca = doc.ca /\ doc'.up = doc.up
  BY DEF EditNames, TypeOK, Docs, PlanSound, Held
<1>2. local'.rows = local.rows /\ UNCHANGED <<waiting, server>>
  BY DEF EditNames, TypeOK, Records
<1>3. Sound(doc')
  BY <1>1, SameSound
<1> QED BY <1>2, <1>3 DEF SoundAfter, PlanSound, DiskSound

LEMMA RemoveSound ==
    ASSUME TypeOK, PlanSound, NEW c \in Ids, NEW breaking \in BOOLEAN,
           RemoveCommunity(c, breaking)
    PROVE  SoundAfter
<1>1. Fresh \in Stamps
  BY NewTime DEF RemoveCommunity
<1>2. /\ Emptied(c) \in Docs /\ Emptied(c).up = doc.up
      /\ \A e \in Ids : Emptied(c).ca[e] = IF e = c THEN {} ELSE doc.ca[e]
  BY <1>1, EmptiedType
<1>3. Sound(doc) /\ DiskSound
  BY DEF PlanSound, Held
<1>4. Broken(Emptied(c)) = Broken(doc)
      /\ \A p \in Parents : ShownKids(Emptied(c), p) = ShownKids(doc, p)
  BY <1>2 DEF Broken, ShownKids
<1>5. Broken(doc) \subseteq Parents
  BY DEF Broken
<1>6. Sound(Emptied(c))
  BY <1>2, <1>3, <1>4, <1>5 DEF Sound
<1>7. PICK ps : doc' = Healed(Emptied(c), ps)
  BY DEF RemoveCommunity, DropCommunity
<1>8. doc' \in Docs /\ Sound(doc')
  BY <1>2, <1>6, <1>7, HealedType, HealedSound
<1>9. Record(names', base, doc', Fresh).rows = LocalRows(doc') /\ RowsSound(LocalRows(doc'))
  BY <1>8, LocalSound DEF Record
<1>10. [local EXCEPT !.names = names', !.base = base, !.stamp = Fresh].rows = local.rows
  BY DEF TypeOK, Records
<1>11. DiskSound'
  BY <1>3, <1>9, <1>10 DEF RemoveCommunity, DropCommunity, DiskSound
<1> QED BY <1>8, <1>11 DEF SoundAfter, PlanSound, RemoveCommunity

LEMMA SaveDoneSound ==
    ASSUME TypeOK, PlanSound, SaveDone PROVE SoundAfter
<1>1. Sound(doc) /\ doc'.ca = doc.ca /\ doc'.up = doc.up /\ doc \in Docs
  BY DEF SaveDone, TypeOK, Docs, PlanSound, Held
<1>2. Sound(doc') /\ RowsSound(ServerRows(Sent(doc)))
  BY <1>1, SameSound, SentSound
<1>3. server'.pairs = Sent(doc) /\ local'.rows = ServerRows(Sent(doc)) /\ UNCHANGED waiting
  BY DEF SaveDone
<1> QED BY <1>2, <1>3 DEF SoundAfter, PlanSound, DiskSound

LEMMA LoadSound ==
    ASSUME TypeOK, PlanSound, UseServer \/ Reload PROVE SoundAfter
<1>1. \/ Show(server.names, server.stamp, Parsed(ServerRows(server.pairs), server.stamp))
      \/ Show(local.names, local.base, Parsed(local.rows, local.stamp))
  BY DEF UseServer, Reload
<1>2. server.stamp \in Stamps /\ local.stamp \in Stamps
  BY DEF TypeOK, Records
<1>3. RowsSound(ServerRows(server.pairs)) /\ RowsSound(local.rows) /\ UNCHANGED server
  BY <1>1 DEF PlanSound, DiskSound, Show
<1>4. Sound(doc') /\ DiskSound'
  BY <1>1, <1>2, <1>3, ShowSound
<1> QED BY <1>3, <1>4 DEF SoundAfter

LEMMA OtherSavesSound ==
    ASSUME TypeOK, PlanSound, NEW cs \in SUBSET Ids, NEW c \in Ids, NEW p \in Parents,
           OtherSaves(cs, c, p)
    PROVE  SoundAfter
<1> DEFINE rows == ServerRows({<<p, c>>})
           h    == Parsed(rows, 1)
<1>1. rows = {<<p, c, NoParent>>}
  BY Geographies DEF ServerRows
<1>2. /\ h.ca = [e \in Ids |-> {g \in Geos : \E r \in rows : r[1] = g /\ r[2] = e}]
      /\ h.up = [b \in Blocks |-> IF \E r \in rows : r[1] = b /\ r[3] # NoParent
                                  THEN ParentOf[b] ELSE NoParent]
  BY DEF Parsed
<1> HIDE DEF rows, h
<1>3. h.up = [b \in Blocks |-> NoParent]
  BY <1>1, <1>2
<1>4. \A e \in Ids : h.ca[e] \cap Blocks = {}
  BY <1>1, <1>2, Geographies
<1>5. Sound(h)
  BY <1>3, <1>4, EmptySound
<1>6. server'.pairs = {<<p, c>>} /\ UNCHANGED <<doc, local, waiting>>
  BY DEF OtherSaves, disk
<1>7. Sound(doc) /\ DiskSound
  BY DEF PlanSound, Held
<1> QED BY <1>5, <1>6, <1>7 DEF SoundAfter, RowsSound, DiskSound, rows, h

LEMMA QuietSound ==
    ASSUME PlanSound, UNCHANGED <<doc, server>>,
           \/ UNCHANGED <<local, waiting>>
           \/ waiting' = None /\ (local' = local \/ (waiting # None /\ local' = waiting))
    PROVE  SoundAfter
<1>1. Sound(doc) /\ DiskSound /\ RowsSound(ServerRows(server.pairs))
  BY DEF PlanSound, Held
<1> QED BY <1>1 DEF SoundAfter, DiskSound

LEMMA InitSound == Init => PlanSound
<1> SUFFICES ASSUME Init PROVE PlanSound
  OBVIOUS
<1>0. 1 \in Stamps
  BY CommunityAssumption DEF Stamps
<1>1. Parsed({}, 1) \in Docs /\ Sound(Parsed({}, 1))
  <2> DEFINE h == Parsed({}, 1)
  <2>1. /\ h \in Docs /\ h.ca = [c \in Ids |-> {g \in Geos : \E r \in {} : r[1] = g /\ r[2] = c}]
        /\ h.up = [b \in Blocks |-> IF \E r \in {} : r[1] = b /\ r[3] # NoParent
                                    THEN ParentOf[b] ELSE NoParent]
    BY <1>0, ParsedFields
  <2> HIDE DEF h
  <2>2. h.up = [b \in Blocks |-> NoParent] /\ \A c \in Ids : h.ca[c] = {}
    BY <2>1
  <2>3. Sound(h)
    BY <2>2, EmptySound
  <2> QED BY <2>1, <2>3 DEF h
<1>2. doc = Parsed({}, 1)
  BY DEF Init
<1>3. Held = {doc}
  BY DEF Init, Held
<1>4. local.rows = LocalRows(doc) /\ waiting = None
  BY DEF Init, Record
<1>5. ServerRows(server.pairs) = {}
  BY DEF Init, ServerRows
<1> QED BY <1>1, <1>2, <1>3, <1>4, <1>5, LocalSound DEF PlanSound, DiskSound, RowsSound

LEMMA NextSound == TypeOK /\ PlanSound /\ [Next]_vars => PlanSound'
<1> SUFFICES ASSUME TypeOK, PlanSound, [Next]_vars PROVE PlanSound'
  OBVIOUS
<1>1. SoundAfter
  <2>1. CASE TimerFires \/ StartBreak \/ BreakFails
    BY <2>1, QuietSound DEF TimerFires, StartBreak, BreakFails, disk
  <2>2. CASE StartSave \/ SaveFails \/ SaveConflicts \/ CloseDialog
    BY <2>2, QuietSound DEF StartSave, SaveFails, SaveConflicts, CloseDialog, disk
  <2>3. CASE AddCommunity \/ \E c \in Ids : UpdateCommunity(c)
    BY <2>3, EditNamesSound DEF AddCommunity, UpdateCommunity
  <2>4. CASE UNCHANGED vars
    BY <2>4, QuietSound DEF vars
  <2> QED BY <2>1, <2>2, <2>3, <2>4, StrokeSound, BreakSound, ExitSound, RestoreSound,
             RemoveSound, SaveDoneSound, LoadSound, OtherSavesSound DEF Next
<1>2. Held' \subseteq Held \cup {doc'}
  BY HeldStep
<1>3. \A d \in Held' : Sound(d)
  BY <1>1, <1>2 DEF PlanSound, SoundAfter
<1> QED BY <1>1, <1>3 DEF PlanSound, SoundAfter

LEMMA AlwaysSound == Spec => []PlanSound
BY InitType, NextType, InitSound, NextSound, PTL DEF Spec

(* However breaks, healing, removals, undo and conflicts follow one        *)
(* another, no block counts twice for a community: in the store, and in    *)
(* what an undo, a reload or the server's version would bring.             *)
THEOREM NothingTwice == Spec => []NoDoubleCoverage
<1>1. PlanSound => NoDoubleCoverage
  BY DEF PlanSound, Sound, NoDoubleCoverage
<1> QED BY <1>1, AlwaysSound, PTL

-----------------------------------------------------------------------------
(* Assignments only to communities that exist *)

ServerDoc == Parsed(ServerRows(server.pairs), 1)

(* What the server refuses to break: no assignment without its community.  *)
ServerOwn == Assigned(ServerDoc) \subseteq Communities(server.names)

LEMMA SameAssigned ==
    ASSUME NEW d, NEW e, e.ca = d.ca PROVE Assigned(e) = Assigned(d)
BY DEF Assigned

LEMMA HealedAssigned ==
    ASSUME NEW d \in Docs, NEW ps PROVE Assigned(Healed(d, ps)) \subseteq Assigned(d)
<1> DEFINE hs   == Healable(d, ps)
           kids == UNION {ShownKids(d, p) : p \in hs}
           h    == Healed(d, ps)
<1>1. \A c \in Ids : h.ca[c] = (d.ca[c] \ kids) \cup {p \in hs : ShownKids(d, p) \cap d.ca[c] # {}}
  BY HealedFields
<1> HIDE DEF hs, kids, h
<1>2. ASSUME NEW c \in Ids, h.ca[c] # {} PROVE d.ca[c] # {}
  BY <1>1, <1>2
<1> QED BY <1>2 DEF Assigned, h

LEMMA BrokenAssigned ==
    ASSUME NEW d \in Docs, NEW ts \in SUBSET Parents
    PROVE  Assigned(BrokenInto(d, ts)) \subseteq Assigned(d)
<1> DEFINE h == BrokenInto(d, ts)
<1>1. \A c \in Ids : h.ca[c] = {g \in d.ca[c] : g \notin ts \/ Kids(g) = {}}
                                  \cup {b \in Blocks : ParentOf[b] \in ts \cap d.ca[c]}
  BY BrokenFields
<1> HIDE DEF h
<1>2. ASSUME NEW c \in Ids, h.ca[c] # {} PROVE d.ca[c] # {}
  BY <1>1, <1>2
<1> QED BY <1>2 DEF Assigned, h

(* The document that the server would send. *)
LEMMA ServerAssigned ==
    ASSUME ServerOwn, NEW stamp
    PROVE  Ingested(server.names, Parsed(ServerRows(server.pairs), stamp)) = server.names
<1>1. Parsed(ServerRows(server.pairs), stamp).ca = ServerDoc.ca
  BY DEF Parsed, ServerDoc
<1>2. Assigned(Parsed(ServerRows(server.pairs), stamp)) \subseteq Communities(server.names)
  BY <1>1, SameAssigned DEF ServerOwn
<1> QED BY <1>2 DEF Ingested

LEMMA SavedOwn ==
    ASSUME TypeOK, PlanSound, SaveDone PROVE ServerOwn'
<1>1. Sound(doc) /\ doc \in Docs
  BY DEF PlanSound, Held, TypeOK
<1>2. Parsed(ServerRows(Sent(doc)), 1).ca = doc.ca
  BY <1>1, ParsedSent
<1>3. Assigned(Parsed(ServerRows(Sent(doc)), 1)) = Assigned(doc)
  BY <1>2, SameAssigned
<1>4. server'.pairs = Sent(doc) /\ server'.names = names
  BY DEF SaveDone
<1>5. Assigned(doc) \subseteq Communities(names)
  BY DEF SaveDone, Acceptable
<1> QED BY <1>3, <1>4, <1>5 DEF ServerOwn, ServerDoc

LEMMA OthersOwn ==
    ASSUME TypeOK, NEW cs \in SUBSET Ids, NEW c \in Ids, NEW p \in Parents, OtherSaves(cs, c, p)
    PROVE  ServerOwn'
<1> DEFINE rows == ServerRows({<<p, c>>})
           h    == Parsed(rows, 1)
<1>1. \A r \in rows : r[2] = c
  BY DEF ServerRows
<1>2. h.ca = [e \in Ids |-> {g \in Geos : \E r \in rows : r[1] = g /\ r[2] = e}]
  BY DEF Parsed
<1> HIDE DEF rows, h
<1>3. \A e \in Ids : h.ca[e] # {} => e = c
  BY <1>1, <1>2
<1>4. Assigned(h) \subseteq {c}
  BY <1>3 DEF Assigned
<1>5. server'.pairs = {<<p, c>>}
      /\ server'.names = [e \in Ids |-> IF e \in cs THEN server.names[e] ELSE "none"]
      /\ c \in cs /\ cs \subseteq Communities(server.names)
  BY DEF OtherSaves
<1>6. c \in Communities(server'.names)
  BY <1>5 DEF Communities
<1>7. ServerDoc' = h
  BY <1>5 DEF ServerDoc, h, rows
<1> QED BY <1>4, <1>6, <1>7 DEF ServerOwn

LEMMA ServerChanges ==
    ASSUME [Next]_vars
    PROVE  \/ UNCHANGED server
           \/ SaveDone
           \/ \E cs \in SUBSET Ids, c \in Ids, p \in Parents : OtherSaves(cs, c, p)
<1>1. CASE TimerFires \/ StartBreak \/ BreakFails \/ ExitBlockView \/ Undo \/ Redo
  BY <1>1 DEF TimerFires, StartBreak, BreakFails, ExitBlockView, Undo, Redo, Restore
<1>2. CASE StartSave \/ SaveFails \/ SaveConflicts \/ CloseDialog \/ UseServer \/ Reload
  BY <1>2 DEF StartSave, SaveFails, SaveConflicts, CloseDialog, UseServer, Reload, Show
<1>3. CASE AddCommunity \/ \E c \in Ids : UpdateCommunity(c)
  BY <1>3 DEF AddCommunity, UpdateCommunity, EditNames
<1>4. CASE \/ \E gs \in SUBSET Geos, c \in Ids, erase \in BOOLEAN : Stroke(gs, c, erase)
           \/ \E ts \in SUBSET Parents : BreakDone(ts)
           \/ \E c \in Ids, breaking \in BOOLEAN : RemoveCommunity(c, breaking)
  BY <1>4 DEF Stroke, BreakDone, RemoveCommunity
<1>5. CASE UNCHANGED vars
  BY <1>5 DEF vars
<1> QED BY <1>1, <1>2, <1>3, <1>4, <1>5 DEF Next

LEMMA InitOwn == Init => ServerOwn
<1> SUFFICES ASSUME Init PROVE ServerOwn
  OBVIOUS
<1>1. ServerRows(server.pairs) = {}
  BY DEF Init, ServerRows
<1>2. ServerDoc.ca = [c \in Ids |-> {g \in Geos : \E r \in {} : r[1] = g /\ r[2] = c}]
  BY <1>1 DEF ServerDoc, Parsed
<1>3. \A c \in Ids : ServerDoc.ca[c] = {}
  BY <1>2
<1> QED BY <1>3 DEF ServerOwn, Assigned

LEMMA NextOwn == TypeOK /\ PlanSound /\ ServerOwn /\ [Next]_vars => ServerOwn'
<1> SUFFICES ASSUME TypeOK, PlanSound, ServerOwn, [Next]_vars PROVE ServerOwn'
  OBVIOUS
<1>1. CASE UNCHANGED server
  BY <1>1 DEF ServerOwn, ServerDoc
<1> QED BY <1>1, ServerChanges, SavedOwn, OthersOwn

LEMMA AlwaysOwn == Spec => []ServerOwn
BY InitType, NextType, InitSound, NextSound, InitOwn, NextOwn, PTL DEF Spec

(* The list of communities only loses one when the history goes too.       *)
ListedAfter ==
    /\ Assigned(doc') \subseteq Communities(names')
    /\ Communities(names) \subseteq Communities(names') \/ Steps' = {}

LEMMA OldListed ==
    ASSUME AssignedExist PROVE Assigned(doc) \subseteq Communities(names)
BY DEF AssignedExist, Held

LEMMA StrokeListed ==
    ASSUME TypeOK, AssignedExist, NEW gs \in SUBSET Geos, NEW c \in Ids,
           NEW erase \in BOOLEAN, Stroke(gs, c, erase)
    PROVE  ListedAfter
<1> DEFINE painted == Mutated(gs, c, erase)
<1>1. Fresh \in Stamps
  BY NewTime DEF Stroke
<1>2. /\ painted \in Docs
      /\ \A e \in Ids : /\ painted.ca[e] \subseteq doc.ca[e] \cup gs
                        /\ e # c => painted.ca[e] = doc.ca[e]
  BY <1>1, MutatedType, Zenon
<1>3. doc' = Healed(painted, Touched(gs)) /\ names' = names /\ c \in Communities(names)
  BY DEF Stroke, meta
<1> HIDE DEF painted
<1>4. Assigned(painted) \subseteq Assigned(doc) \cup {c}
  BY <1>2 DEF Assigned
<1>5. Assigned(doc') \subseteq Assigned(painted)
  BY <1>2, <1>3, HealedAssigned
<1> QED BY <1>3, <1>4, <1>5, OldListed DEF ListedAfter

LEMMA BlockViewListed ==
    ASSUME TypeOK, AssignedExist, (\E ts \in SUBSET Parents : BreakDone(ts)) \/ ExitBlockView
    PROVE  ListedAfter
<1> DEFINE d == [doc EXCEPT !.clu = Fresh]
<1>1. Fresh \in Stamps /\ names' = names
  BY NewTime DEF BreakDone, ExitBlockView, meta
<1>2. d \in Docs /\ d.ca = doc.ca
  BY <1>1, RestampedType
<1>3. \/ \E ts \in SUBSET Parents : doc' = BrokenInto(d, ts)
      \/ doc' = Healed(d, {focus})
      \/ doc' = doc
  BY DEF BreakDone, ExitBlockView
<1> HIDE DEF d
<1>4. Assigned(d) = Assigned(doc)
  BY <1>2, SameAssigned
<1>5. Assigned(doc') \subseteq Assigned(doc)
  BY <1>2, <1>3, <1>4, HealedAssigned, BrokenAssigned
<1> QED BY <1>1, <1>5, OldListed DEF ListedAfter

LEMMA RestoreListed ==
    ASSUME TypeOK, AssignedExist, Undo \/ Redo PROVE ListedAfter
<1>1. doc' \in Steps
  BY UndoKeeps, RedoKeeps DEF TypeOK
<1>2. doc' \in Held /\ names' = names
  BY <1>1 DEF Held, Steps, Undo, Redo, Restore, meta
<1> QED BY <1>2 DEF ListedAfter, AssignedExist

LEMMA EditNamesListed ==
    ASSUME TypeOK, AssignedExist, NEW n \in Names, EditNames(n),
           Communities(names) \subseteq Communities(n)
    PROVE  ListedAfter
<1>1. doc'.ca = doc.ca /\ names' = n
  BY DEF EditNames, TypeOK, Docs
<1> QED BY <1>1, SameAssigned, OldListed DEF ListedAfter

LEMMA RemoveListed ==
    ASSUME TypeOK, AssignedExist, NEW c \in Ids, NEW breaking \in BOOLEAN,
           RemoveCommunity(c, breaking)
    PROVE  ListedAfter
<1>1. Fresh \in Stamps
  BY NewTime DEF RemoveCommunity
<1>2. Emptied(c) \in Docs /\ \A e \in Ids : Emptied(c).ca[e] = IF e = c THEN {} ELSE doc.ca[e]
  BY <1>1, EmptiedType
<1>3. Assigned(Emptied(c)) \subseteq Assigned(doc) \ {c}
  BY <1>2 DEF Assigned
<1>4. PICK ps : doc' = Healed(Emptied(c), ps)
  BY DEF RemoveCommunity, DropCommunity
<1>5. Assigned(doc') \subseteq Assigned(doc) \ {c}
  BY <1>2, <1>3, <1>4, HealedAssigned
<1>6. names' = [names EXCEPT ![c] = "none"] /\ names \in Names
  BY DEF RemoveCommunity, TypeOK
<1>7. Communities(names') = Communities(names) \ {c}
  BY <1>6 DEF Communities, Names
<1>8. Steps' = {}
  BY EmptySeq, LenProperties DEF RemoveCommunity, Steps
<1> QED BY <1>5, <1>7, <1>8, OldListed DEF ListedAfter

LEMMA ShowListed ==
    ASSUME NEW n, NEW b, NEW d, Show(n, b, d)
    PROVE  Assigned(doc') \subseteq Communities(names')
<1>1. doc' = d /\ names' = Ingested(n, d)
  BY DEF Show
<1>2. CASE Assigned(d) \subseteq Communities(n)
  BY <1>1, <1>2 DEF Ingested
<1>3. CASE ~(Assigned(d) \subseteq Communities(n))
  <2>1. names' = [c \in Ids |-> IF c \in Assigned(d) THEN "default" ELSE "none"]
    BY <1>1, <1>3 DEF Ingested
  <2>2. Assigned(d) \subseteq Ids
    BY DEF Assigned
  <2> QED BY <1>1, <2>1, <2>2 DEF Communities
<1> QED BY <1>2, <1>3

LEMMA UseServerListed ==
    ASSUME ServerOwn, "orphans" \notin Allowed, UseServer PROVE ListedAfter
<1>1. Show(server.names, server.stamp, Parsed(ServerRows(server.pairs), server.stamp))
      /\ Communities(names) \subseteq Communities(server.names)
  BY DEF UseServer
<1>2. names' = server.names
  BY <1>1, ServerAssigned DEF Show
<1> QED BY <1>1, <1>2, ShowListed DEF ListedAfter

LEMMA ReloadListed ==
    ASSUME Reload PROVE ListedAfter
<1>1. Steps' = {}
  BY EmptySeq, LenProperties DEF Reload, Steps
<1>2. Assigned(doc') \subseteq Communities(names')
  BY ShowListed DEF Reload
<1> QED BY <1>1, <1>2 DEF ListedAfter

LEMMA QuietListed ==
    ASSUME TypeOK, AssignedExist, doc'.ca = doc.ca, UNCHANGED names PROVE ListedAfter
BY SameAssigned, OldListed DEF ListedAfter

LEMMA InitListed == Init => AssignedExist
<1> SUFFICES ASSUME Init PROVE AssignedExist
  OBVIOUS
<1>1. Held = {doc}
  BY DEF Init, Held
<1>2. doc.ca = [c \in Ids |-> {g \in Geos : \E r \in {} : r[1] = g /\ r[2] = c}]
  BY DEF Init, Parsed
<1>3. \A c \in Ids : doc.ca[c] = {}
  BY <1>2
<1> QED BY <1>1, <1>3 DEF AssignedExist, Assigned

LEMMA NextListed ==
    ASSUME "orphans" \notin Allowed
    PROVE  TypeOK /\ ServerOwn /\ AssignedExist /\ [Next]_vars => AssignedExist'
<1> SUFFICES ASSUME TypeOK, ServerOwn, AssignedExist, [Next]_vars PROVE AssignedExist'
  OBVIOUS
<1>1. ListedAfter
  <2>1. CASE TimerFires \/ StartBreak \/ BreakFails
    BY <2>1, QuietListed DEF TimerFires, StartBreak, BreakFails, meta
  <2>2. CASE StartSave \/ SaveFails \/ SaveConflicts \/ CloseDialog
    BY <2>2, QuietListed DEF StartSave, SaveFails, SaveConflicts, CloseDialog, meta
  <2>3. CASE SaveDone
    <3>1. doc'.ca = doc.ca /\ names' = names
      BY <2>3 DEF SaveDone, TypeOK, Docs
    <3> QED BY <3>1, QuietListed
  <2>4. CASE AddCommunity
    <3>1. PICK id \in Ids : EditNames([names EXCEPT ![id] = "default"])
      BY <2>4 DEF AddCommunity
    <3>2. [names EXCEPT ![id] = "default"] \in Names
          /\ Communities(names) \subseteq Communities([names EXCEPT ![id] = "default"])
      BY DEF TypeOK, Names, Communities
    <3> QED BY <3>1, <3>2, EditNamesListed
  <2>5. ASSUME NEW c \in Ids, UpdateCommunity(c) PROVE ListedAfter
    <3>1. EditNames([names EXCEPT ![c] = "given"])
      BY <2>5 DEF UpdateCommunity
    <3>2. [names EXCEPT ![c] = "given"] \in Names
          /\ Communities(names) \subseteq Communities([names EXCEPT ![c] = "given"])
      BY DEF TypeOK, Names, Communities
    <3> QED BY <3>1, <3>2, EditNamesListed
  <2>6. ASSUME NEW cs \in SUBSET Ids, NEW c \in Ids, NEW p \in Parents, OtherSaves(cs, c, p)
        PROVE  ListedAfter
    BY <2>6, QuietListed DEF OtherSaves, meta
  <2>7. CASE UNCHANGED vars
    BY <2>7, QuietListed DEF vars
  <2> QED BY <2>1, <2>2, <2>3, <2>4, <2>5, <2>6, <2>7, StrokeListed, BlockViewListed,
             RestoreListed, RemoveListed, UseServerListed, ReloadListed DEF Next
<1>2. Held' = {doc'} \cup Steps' /\ Steps' \subseteq Held
  BY HistoryStep DEF Held, Steps, HistoryKept
<1> QED BY <1>1, <1>2 DEF ListedAfter, AssignedExist

(* "Clears all undo/redo history when a zone is permanently removed": no   *)
(* undo or redo brings geographies back into a community that is not in    *)
(* the list, unless the user gave it up for the server's version.          *)
THEOREM NoneOrphaned ==
    ASSUME "orphans" \notin Allowed PROVE Spec => []AssignedExist
BY InitType, NextType, InitSound, NextSound, InitOwn, NextOwn, InitListed, NextListed,
   PTL DEF Spec
-----------------------------------------------------------------------------
(* What the indicator says.  A timestamp is handed out once, so that a plan *)
(* with the server's timestamp is the server's plan.                       *)

(* Nothing bears a time to come. *)
Timely ==
    /\ \A d \in Held : d.clu <= clock
    /\ server.stamp <= clock /\ base <= clock
    /\ local.stamp <= clock /\ (waiting # None => waiting.stamp <= clock)

(* Where the next save starts from is written with every record, and a     *)
(* request holds the lock; a save has flushed what waited.                 *)
Orderly ==
    /\ local.base = base /\ (waiting # None => waiting.base = base)
    /\ request # "none" => locked
    /\ request \in {"save", "overwrite", "dialog"} => waiting = None

LEMMA StampsAreNumbers ==
    /\ \A s \in Stamps : s \in Nat
    /\ TypeOK => /\ clock \in Nat /\ base \in Nat /\ server.stamp \in Nat
                 /\ local.stamp \in Nat /\ (waiting # None => waiting.stamp \in Nat)
                 /\ \A d \in Held : d \in Docs /\ d.clu \in Nat
<1>1. \A s \in Stamps : s \in Nat
  BY CommunityAssumption DEF Stamps
<1>2. ASSUME TypeOK, NEW d \in Held PROVE d \in Docs
  BY <1>2, ElementOfSeq, LenProperties DEF TypeOK, Held
<1>3. ASSUME TypeOK, NEW d \in Held PROVE d.clu \in Nat
  BY <1>1, <1>2, <1>3 DEF Docs
<1> QED BY <1>1, <1>2, <1>3 DEF TypeOK, Records

(* A step that takes the next timestamp for the plan and for what it       *)
(* writes.                                                                 *)
Advances ==
    /\ clock' = clock + 1 /\ doc'.clu = clock' /\ UNCHANGED <<base, server>>
    /\ \/ UNCHANGED <<names, edited>>
       \/ edited' = TRUE

(* One that takes it for the record only: undo and redo. *)
Restores ==
    /\ clock' = clock + 1 /\ doc' \in Held /\ UNCHANGED <<base, server, names, edited>>

(* The record on disk, and the one that waits, after either of them.       *)
DiskAdvances ==
    /\ \/ local'.stamp = clock' /\ local'.base = base
       \/ local' = local
    /\ \/ waiting' = None
       \/ waiting' = waiting
       \/ waiting' # None /\ waiting'.stamp = clock' /\ waiting'.base = base

(* The last record made. *)
Latest == IF waiting = None THEN local ELSE waiting

(* One that changes no plan. *)
Quiet ==
    /\ UNCHANGED <<doc, meta, clock, server>>
    /\ \/ UNCHANGED <<local, waiting>>
       \/ waiting' = None /\ local' = Latest

LEMMA WriteAdvances ==
    ASSUME TypeOK, Tick, NEW n, NEW d \in Docs, NEW now, Write(n, d, now) PROVE DiskAdvances
<1> DEFINE r == Record(n, base, d, Fresh)
<1>1. r.stamp = Fresh /\ r.base = base
  BY DEF Record
<1>2. clock' = Fresh
  BY DEF Tick
<1> HIDE DEF r
<1>3. (local' = r /\ waiting' = None) \/ (waiting' = r /\ local' = local)
  BY DEF Write, r
<1> QED BY <1>1, <1>2, <1>3 DEF DiskAdvances

LEMMA StrokeAdvances ==
    ASSUME TypeOK, NEW gs \in SUBSET Geos, NEW c \in Ids, NEW erase \in BOOLEAN,
           Stroke(gs, c, erase)
    PROVE  Advances /\ DiskAdvances
<1> DEFINE painted == Mutated(gs, c, erase)
<1>1. Fresh \in Stamps /\ clock' = Fresh
  BY NewTime DEF Stroke
<1>2. painted \in Docs /\ painted.clu = Fresh
  BY <1>1, MutatedType, Zenon
<1>3. doc' = Healed(painted, Touched(gs))
      /\ Write(names, doc', Healable(painted, Touched(gs)) # {})
  BY DEF Stroke
<1> HIDE DEF painted
<1>4. doc' \in Docs /\ doc'.clu = Fresh
  BY <1>2, <1>3, HealedFields
<1>5. Tick /\ UNCHANGED <<meta, server>>
  BY DEF Stroke
<1>6. DiskAdvances
  BY <1>3, <1>4, <1>5, WriteAdvances
<1> QED BY <1>1, <1>4, <1>5, <1>6 DEF Advances, meta, Fresh

LEMMA BreakAdvances ==
    ASSUME TypeOK, NEW ts \in SUBSET Parents, BreakDone(ts) PROVE Advances /\ DiskAdvances
<1> DEFINE d == [doc EXCEPT !.clu = Fresh]
<1>1. Fresh \in Stamps /\ clock' = Fresh
  BY NewTime DEF BreakDone
<1>2. d \in Docs /\ d.clu = Fresh
  BY <1>1, RestampedType
<1>3. doc' = BrokenInto(d, ts) /\ Write(names, doc', FALSE)
  BY DEF BreakDone
<1> HIDE DEF d
<1>4. doc' \in Docs /\ doc'.clu = Fresh
  BY <1>2, <1>3, BrokenFields
<1>5. Tick /\ UNCHANGED <<meta, server>>
  BY DEF BreakDone
<1>6. DiskAdvances
  BY <1>3, <1>4, <1>5, WriteAdvances
<1> QED BY <1>1, <1>4, <1>5, <1>6 DEF Advances, meta, Fresh

LEMMA ExitAdvances ==
    ASSUME TypeOK, ExitBlockView PROVE (Advances \/ Restores) /\ DiskAdvances
<1> DEFINE d == [doc EXCEPT !.clu = Fresh]
<1>1. Fresh \in Stamps /\ clock' = Fresh /\ Tick /\ UNCHANGED <<meta, server>>
  BY NewTime DEF ExitBlockView
<1>2. d \in Docs /\ d.clu = Fresh
  BY <1>1, RestampedType
<1>3. \/ doc' = Healed(d, {focus}) /\ Write(names, doc', TRUE)
      \/ UNCHANGED <<doc, disk>>
  BY DEF ExitBlockView
<1> HIDE DEF d
<1>4. CASE doc' = Healed(d, {focus}) /\ Write(names, doc', TRUE)
  <2>1. doc' \in Docs /\ doc'.clu = Fresh
    BY <1>2, <1>4, HealedFields
  <2> QED BY <1>1, <1>4, <2>1, WriteAdvances DEF Advances, meta, Fresh
<1>5. CASE UNCHANGED <<doc, disk>>
  BY <1>1, <1>5 DEF Restores, DiskAdvances, Held, disk, meta, Fresh
<1> QED BY <1>3, <1>4, <1>5

LEMMA UndoRestores ==
    ASSUME TypeOK, Undo \/ Redo PROVE Restores /\ DiskAdvances
<1>1. doc' \in Steps /\ doc' \in Docs
  BY UndoKeeps, RedoKeeps DEF TypeOK
<1>2. Tick /\ UNCHANGED <<meta, server>> /\ Write(names, doc', TRUE)
  BY DEF Undo, Redo, Restore
<1>3. DiskAdvances
  BY <1>1, <1>2, WriteAdvances
<1> QED BY <1>1, <1>2, <1>3 DEF Restores, Held, Steps, Tick, Fresh, meta

LEMMA EditNamesAdvances ==
    ASSUME TypeOK, NEW n, EditNames(n) PROVE Advances /\ DiskAdvances
<1>1. clock' = Fresh
  BY DEF EditNames, Tick
<1>2. doc'.clu = Fresh
  BY DEF EditNames, TypeOK, Docs
<1>3. local'.stamp = Fresh /\ local'.base = base /\ waiting' = waiting
  BY DEF EditNames, TypeOK, Records
<1> QED BY <1>1, <1>2, <1>3 DEF EditNames, Advances, DiskAdvances, Fresh

LEMMA RemoveAdvances ==
    ASSUME TypeOK, NEW c \in Ids, NEW breaking \in BOOLEAN, RemoveCommunity(c, breaking)
    PROVE  Advances /\ DiskAdvances
<1>1. Fresh \in Stamps /\ clock' = Fresh
  BY NewTime DEF RemoveCommunity
<1>2. Emptied(c) \in Docs /\ Emptied(c).clu = Fresh
  BY <1>1, EmptiedType
<1>3. PICK ps : doc' = Healed(Emptied(c), ps)
  BY DEF RemoveCommunity, DropCommunity
<1>4. doc' \in Docs /\ doc'.clu = Fresh
  BY <1>2, <1>3, HealedFields
<1> DEFINE r == Record(names', base, doc', Fresh)
           l == [local EXCEPT !.names = names', !.base = base, !.stamp = Fresh]
<1>5. r.stamp = Fresh /\ r.base = base
  BY DEF Record
<1>6. l.stamp = Fresh /\ l.base = base
  BY DEF TypeOK, Records
<1>7. (local' = r /\ waiting' = None) \/ (waiting' = r /\ local' = l)
  BY DEF RemoveCommunity, DropCommunity
<1> HIDE DEF r, l
<1> QED BY <1>1, <1>4, <1>5, <1>6, <1>7 DEF RemoveCommunity, Advances, DiskAdvances, Fresh

(* Every step is one of these, or answers, loads or saves.                 *)
LEMMA StepKinds ==
    ASSUME TypeOK, [Next]_vars
    PROVE  \/ (Advances \/ Restores) /\ DiskAdvances
           \/ Quiet
           \/ SaveDone
           \/ UseServer \/ Reload
           \/ \E cs \in SUBSET Ids, c \in Ids, p \in Parents : OtherSaves(cs, c, p)
<1>1. CASE TimerFires \/ StartBreak \/ BreakFails
  BY <1>1 DEF TimerFires, StartBreak, BreakFails, Quiet, Latest, disk
<1>2. CASE StartSave \/ SaveFails \/ SaveConflicts \/ CloseDialog
  BY <1>2 DEF StartSave, SaveFails, SaveConflicts, CloseDialog, Quiet, Latest, disk
<1>3. CASE AddCommunity \/ \E c \in Ids : UpdateCommunity(c)
  BY <1>3, EditNamesAdvances DEF AddCommunity, UpdateCommunity
<1>4. CASE UNCHANGED vars
  BY <1>4 DEF vars, Quiet, meta
<1>5. CASE \/ \E gs \in SUBSET Geos, c \in Ids, erase \in BOOLEAN : Stroke(gs, c, erase)
           \/ \E ts \in SUBSET Parents : BreakDone(ts)
           \/ \E c \in Ids, breaking \in BOOLEAN : RemoveCommunity(c, breaking)
           \/ ExitBlockView \/ Undo \/ Redo
  BY <1>5, StrokeAdvances, BreakAdvances, RemoveAdvances, ExitAdvances, UndoRestores
<1> QED BY <1>1, <1>2, <1>3, <1>4, <1>5 DEF Next

LEMMA HeldAfter ==
    ASSUME TypeOK, [Next]_vars, NEW d \in Held' PROVE d = doc' \/ d \in Held
BY HeldStep

LEMMA ShowFields ==
    ASSUME NEW n, NEW b, NEW rows, NEW stamp, Show(n, b, Parsed(rows, stamp))
    PROVE  /\ doc' = Parsed(rows, stamp) /\ doc'.clu = stamp /\ base' = b
           /\ names' = Ingested(n, doc') /\ ~edited'
           /\ local'.base = b /\ local'.stamp = stamp /\ local'.names = n
           /\ local'.rows = LocalRows(doc') /\ waiting' = None
           /\ request' = "none" /\ UNCHANGED <<clock, server>>
<1> DEFINE d == Parsed(rows, stamp)
<1>1. d.clu = stamp
  BY DEF Parsed
<1> HIDE DEF d
<1>2. /\ doc' = d /\ base' = b /\ names' = Ingested(n, d) /\ edited' = FALSE
      /\ local' = Record(n, b, d, d.clu) /\ waiting' = None
      /\ request' = "none" /\ UNCHANGED <<clock, server>>
  BY DEF Show, d
<1>3. /\ local'.base = b /\ local'.stamp = d.clu /\ local'.names = n
      /\ local'.rows = LocalRows(d)
  BY <1>2 DEF Record
<1> QED BY <1>1, <1>2, <1>3 DEF d

LEMMA SaveDoneFields ==
    ASSUME TypeOK, SaveDone
    PROVE  /\ clock' = clock + 1 /\ doc'.clu = clock' /\ base' = clock'
           /\ server'.stamp = clock' /\ server'.names = names /\ server'.pairs = Sent(doc)
           /\ doc'.ca = doc.ca /\ doc'.up = doc.up
           /\ local'.base = clock' /\ local'.stamp = clock' /\ local'.names = names
           /\ local'.rows = ServerRows(Sent(doc))
           /\ UNCHANGED <<names, waiting>>
<1>1. clock' = Fresh /\ doc' = [doc EXCEPT !.clu = Fresh]
  BY DEF SaveDone, Tick
<1>2. doc'.clu = Fresh /\ doc'.ca = doc.ca /\ doc'.up = doc.up
  BY <1>1 DEF TypeOK, Docs
<1> QED BY <1>1, <1>2 DEF SaveDone, Fresh

LEMMA InitTimely == Init => Timely /\ Orderly
<1> SUFFICES ASSUME Init PROVE Timely /\ Orderly
  OBVIOUS
<1>1. Held = {doc}
  BY DEF Init, Held
<1>2. doc.clu = 1 /\ local.stamp = 1 /\ local.base = 1
  BY DEF Init, Parsed, Record
<1> QED BY <1>1, <1>2 DEF Init, Timely, Orderly

LEMMA NextTimely == TypeOK /\ Timely /\ [Next]_vars => Timely'
<1> SUFFICES ASSUME TypeOK, Timely, [Next]_vars PROVE Timely'
  OBVIOUS
<1>0. /\ clock \in Nat /\ base \in Nat /\ server.stamp \in Nat
      /\ local.stamp \in Nat /\ (waiting # None => waiting.stamp \in Nat)
      /\ \A d \in Held : d.clu \in Nat
      /\ doc \in Held
  BY StampsAreNumbers DEF Held
<1>1. \A d \in Held' : d = doc' \/ (d \in Held /\ d.clu <= clock)
  BY HeldAfter DEF Timely
<1>2. /\ server.stamp <= clock /\ base <= clock
      /\ local.stamp <= clock /\ (waiting # None => waiting.stamp <= clock)
      /\ doc.clu <= clock
  BY <1>0 DEF Timely
<1>3. CASE (Advances \/ Restores) /\ DiskAdvances
  <2>1. /\ clock' = clock + 1 /\ doc'.clu <= clock'
        /\ UNCHANGED <<base, server>>
    BY <1>0, <1>3 DEF Advances, Restores, Timely
  <2>2. /\ local'.stamp = clock' \/ local' = local
        /\ waiting' = None \/ waiting' = waiting \/ waiting'.stamp = clock'
    BY <1>3 DEF DiskAdvances
  <2>3. local'.stamp <= clock' /\ (waiting' # None => waiting'.stamp <= clock')
    BY <1>0, <1>2, <2>1, <2>2
  <2>4. \A d \in Held' : d.clu <= clock'
    BY <1>0, <1>1, <2>1
  <2>5. server'.stamp <= clock' /\ base' <= clock'
    BY <1>0, <1>2, <2>1
  <2> QED BY <2>3, <2>4, <2>5 DEF Timely
<1>4. CASE Quiet
  <2>1. UNCHANGED <<doc, base, clock, server>>
    BY <1>4 DEF Quiet, meta
  <2>2. local'.stamp <= clock' /\ (waiting' # None => waiting'.stamp <= clock')
    BY <1>2, <1>4 DEF Quiet, Latest
  <2> QED BY <1>1, <1>2, <2>1, <2>2 DEF Timely
<1>5. CASE SaveDone
  <2>1. /\ clock' = clock + 1 /\ doc'.clu = clock' /\ base' = clock'
        /\ server'.stamp = clock' /\ local'.stamp = clock' /\ waiting' = waiting
    BY <1>5, SaveDoneFields
  <2>2. \A d \in Held' : d.clu <= clock'
    BY <1>0, <1>1, <2>1
  <2>3. waiting' # None => waiting'.stamp <= clock'
    BY <1>0, <1>2, <2>1
  <2> QED BY <1>0, <2>1, <2>2, <2>3 DEF Timely
<1>6. CASE UseServer \/ Reload
  <2>1. PICK stamp \in {server.stamp, local.stamp}, b \in {server.stamp, base, local.base} :
           /\ doc'.clu = stamp /\ base' = b /\ local'.stamp = stamp /\ waiting' = None
           /\ UNCHANGED <<clock, server>> /\ (b = local.base => b = server.stamp)
    <3>1. CASE Show(server.names, server.stamp, Parsed(ServerRows(server.pairs), server.stamp))
      BY <3>1, ShowFields
    <3>2. CASE /\ server.stamp = local.base
               /\ Show(local.names, local.base, Parsed(local.rows, local.stamp))
      BY <3>2, ShowFields
    <3> QED BY <1>6, <3>1, <3>2 DEF UseServer, Reload
  <2>2. stamp <= clock /\ b <= clock
    BY <1>2, <2>1
  <2> QED BY <1>1, <1>2, <2>1, <2>2 DEF Timely
<1>7. ASSUME NEW cs \in SUBSET Ids, NEW c \in Ids, NEW p \in Parents, OtherSaves(cs, c, p)
      PROVE  Timely'
  <2>1. /\ clock' = clock + 1 /\ server'.stamp = clock'
        /\ UNCHANGED <<doc, base, local, waiting>>
    BY <1>7 DEF OtherSaves, Tick, Fresh, meta, disk
  <2>2. \A d \in Held' : d.clu <= clock'
    BY <1>0, <1>1, <1>2, <2>1
  <2> QED BY <1>0, <1>2, <2>1, <2>2 DEF Timely
<1> QED BY <1>3, <1>4, <1>5, <1>6, <1>7, StepKinds

(* A plan with the server's timestamp is the server's; with nothing        *)
(* edited, so is the list of its communities.                              *)
Agrees(d) ==
    /\ d.clu = server.stamp => Effective(d) = Effective(ServerDoc)
    /\ d.clu = base /\ server.stamp = base /\ ~edited => names = server.names

AllAgree == \A d \in Held : Agrees(d)

LEMMA SameUnits ==
    ASSUME NEW d, NEW e, e.ca = d.ca PROVE Effective(e) = Effective(d)
BY DEF Effective

LEMMA ServerUnits ==
    ASSUME NEW stamp
    PROVE  Parsed(ServerRows(server.pairs), stamp).ca = ServerDoc.ca
BY DEF Parsed, ServerDoc

LEMMA InitAgree == Init => AllAgree
<1> SUFFICES ASSUME Init PROVE AllAgree
  OBVIOUS
<1>1. Held = {doc}
  BY DEF Init, Held
<1>2. ServerRows(server.pairs) = {}
  BY DEF Init, ServerRows
<1>3. doc = ServerDoc
  BY <1>2 DEF Init, ServerDoc
<1> QED BY <1>1, <1>3 DEF Init, AllAgree, Agrees

LEMMA NextAgree ==
    TypeOK /\ PlanSound /\ ServerOwn /\ Timely /\ AllAgree /\ [Next]_vars => AllAgree'
<1> SUFFICES ASSUME TypeOK, PlanSound, ServerOwn, Timely, AllAgree, [Next]_vars PROVE AllAgree'
  OBVIOUS
<1>0. /\ clock \in Nat /\ base \in Nat /\ server.stamp \in Nat
      /\ \A d \in Held : d.clu \in Nat
      /\ doc \in Held /\ doc \in Docs /\ Sound(doc)
  BY StampsAreNumbers DEF Held, TypeOK, PlanSound
<1>1. \A d \in Held' : d = doc' \/ (d \in Held /\ d.clu <= clock /\ Agrees(d))
  BY HeldAfter DEF Timely, AllAgree
<1>2. server.stamp <= clock /\ base <= clock
  BY DEF Timely
<1>3. CASE Advances \/ Restores
  <2>1. /\ clock' = clock + 1 /\ UNCHANGED <<base, server>>
        /\ UNCHANGED <<names, edited>> \/ edited' = TRUE
    BY <1>3 DEF Advances, Restores
  <2>2. ServerDoc' = ServerDoc
    BY <2>1 DEF ServerDoc
  <2>3. ASSUME NEW d \in Held PROVE Agrees(d)'
    <3>1. Agrees(d)
      BY DEF AllAgree
    <3> QED BY <2>1, <2>2, <3>1 DEF Agrees
  <2>4. CASE doc'.clu = clock'
    BY <1>0, <1>1, <1>2, <2>1, <2>3, <2>4 DEF AllAgree, Agrees
  <2> QED BY <1>1, <1>3, <2>3, <2>4 DEF Advances, Restores, AllAgree
<1>4. CASE Quiet
  <2>1. UNCHANGED <<doc, names, edited, base, server>>
    BY <1>4 DEF Quiet, meta
  <2>2. ServerDoc' = ServerDoc
    BY <2>1 DEF ServerDoc
  <2> QED BY <1>0, <1>1, <2>1, <2>2 DEF AllAgree, Agrees
<1>5. CASE SaveDone
  <2>1. /\ clock' = clock + 1 /\ base' = clock' /\ server'.stamp = clock'
        /\ server'.names = names /\ server'.pairs = Sent(doc)
        /\ doc'.ca = doc.ca /\ names' = names
    BY <1>5, SaveDoneFields
  <2>2. ServerDoc'.ca = doc.ca
    BY <1>0, <2>1, ParsedSent DEF ServerDoc
  <2>3. Effective(doc') = Effective(ServerDoc')
    BY <2>1, <2>2, SameUnits
  <2>4. Agrees(doc)'
    BY <2>1, <2>3 DEF Agrees
  <2>5. \A d \in Held : d.clu # clock'
    BY <1>0, <2>1 DEF Timely
  <2>6. ASSUME NEW d \in Held PROVE /\ d.clu = server'.stamp => FALSE
                                    /\ d.clu = base' => FALSE
    BY <2>1, <2>5
  <2> QED BY <1>1, <2>1, <2>3, <2>6 DEF AllAgree, Agrees
<1>6. CASE UseServer \/ Reload
  <2>1. CASE Show(server.names, server.stamp, Parsed(ServerRows(server.pairs), server.stamp))
    <3>1. /\ doc' = Parsed(ServerRows(server.pairs), server.stamp)
          /\ base' = server.stamp /\ names' = Ingested(server.names, doc') /\ server' = server
      BY <2>1, ShowFields
    <3>2. names' = server.names
      BY <3>1, ServerAssigned
    <3>3. ServerDoc' = ServerDoc /\ Effective(doc') = Effective(ServerDoc)
      BY <3>1, ServerUnits, SameUnits DEF ServerDoc
    <3> QED BY <1>1, <3>1, <3>2, <3>3 DEF AllAgree, Agrees
  <2>2. CASE /\ Reload /\ server.stamp = local.base /\ local.stamp # local.base
             /\ Show(local.names, local.base, Parsed(local.rows, local.stamp))
    <3>1. doc'.clu = local.stamp /\ base' = local.base /\ server' = server
      BY <2>2, ShowFields
    <3>2. Steps' = {}
      BY <2>2, EmptySeq, LenProperties DEF Reload, Steps
    <3>3. Held' = {doc'}
      BY <3>2 DEF Held, Steps
    <3> QED BY <2>2, <3>1, <3>3 DEF AllAgree, Agrees
  <2> QED BY <1>6, <2>1, <2>2 DEF UseServer, Reload
<1>7. ASSUME NEW cs \in SUBSET Ids, NEW c \in Ids, NEW p \in Parents, OtherSaves(cs, c, p)
      PROVE  AllAgree'
  <2>1. /\ clock' = clock + 1 /\ server'.stamp = clock'
        /\ UNCHANGED <<doc, base>>
    BY <1>7 DEF OtherSaves, Tick, Fresh, meta
  <2>2. \A d \in Held' : d.clu <= clock
    BY <1>0, <1>1, <2>1 DEF Timely
  <2> QED BY <1>0, <1>1, <1>2, <2>1, <2>2 DEF AllAgree, Agrees
<1> QED BY <1>3, <1>4, <1>5, <1>6, <1>7, StepKinds

LEMMA AlwaysAgree == Spec => [](AllAgree /\ Timely /\ ServerOwn)
<1> DEFINE IInv == TypeOK /\ PlanSound /\ ServerOwn /\ Timely /\ AllAgree
<1>1. Init => IInv
  BY InitType, InitSound, InitOwn, InitTimely, InitAgree
<1>2. IInv /\ [Next]_vars => IInv'
  BY NextType, NextSound, NextOwn, NextTimely, NextAgree
<1>3. IInv => AllAgree /\ Timely /\ ServerOwn
  OBVIOUS
<1> HIDE DEF IInv
<1> QED BY <1>1, <1>2, <1>3, PTL DEF Spec

(* "Saved": when the timestamps agree and nothing is marked as edited, the *)
(* server has what the tab shows, and the list of communities that it      *)
(* shows, after any undo, conflict, removal or reload.                     *)
THEOREM DarkMeansSaved == Spec => []CleanMeansSaved
<1>1. AllAgree => CleanMeansSaved
  BY DEF AllAgree, Agrees, CleanMeansSaved, Held, ServerDoc
<1> QED BY <1>1, AlwaysAgree, PTL

-----------------------------------------------------------------------------
(* Block view.  A unit is in the communities of its own entry, or of its   *)
(* parent's; breaking and healing only move them between the two.          *)

LEMMA UnitFacts ==
    ASSUME NEW d \in Docs
    PROVE  \A u \in Units : Effective(d)[u] =
              {c \in Ids : u \in d.ca[c] \/ (u \in Blocks /\ ParentOf[u] \in d.ca[c])}
BY DEF Effective

LEMMA SameEffective ==
    ASSUME NEW d \in Docs, NEW e \in Docs,
           \A u \in Units, c \in Ids :
              (u \in d.ca[c] \/ (u \in Blocks /\ ParentOf[u] \in d.ca[c]))
                 <=> (u \in e.ca[c] \/ (u \in Blocks /\ ParentOf[u] \in e.ca[c]))
    PROVE  Effective(e) = Effective(d)
<1> DEFINE f == Effective(d)
           g == Effective(e)
<1>1. /\ f = [u \in Units |-> f[u]] /\ g = [u \in Units |-> g[u]]
  BY DEF Effective
<1>2. \A u \in Units : /\ f[u] = {c \in Ids : u \in d.ca[c] \/ (u \in Blocks /\ ParentOf[u] \in d.ca[c])}
                       /\ g[u] = {c \in Ids : u \in e.ca[c] \/ (u \in Blocks /\ ParentOf[u] \in e.ca[c])}
  BY UnitFacts
<1> HIDE DEF f, g
<1>3. ASSUME NEW u \in Units PROVE f[u] = g[u]
  <2>1. \A c : c \in f[u] <=> c \in g[u]
    BY <1>2
  <2> QED BY <2>1
<1>4. f = g
  BY <1>1, <1>3
<1> QED BY <1>4 DEF f, g

LEMMA HealKeepsUnits ==
    ASSUME NEW d \in Docs, NEW ps, Sound(d) PROVE Effective(Healed(d, ps)) = Effective(d)
<1> DEFINE hs   == Healable(d, ps)
           kids == UNION {ShownKids(d, p) : p \in hs}
           h    == Healed(d, ps)
<1>1. /\ h \in Docs /\ hs \subseteq Broken(d) /\ Broken(d) \subseteq Parents
      /\ kids = {b \in Blocks : d.up[b] \in hs}
      /\ \A c \in Ids : h.ca[c] = (d.ca[c] \ kids)
                           \cup {p \in hs : ShownKids(d, p) \cap d.ca[c] # {}}
  BY HealedFields
<1>2. \A p \in hs : \A c \in Ids : ShownKids(d, p) \cap d.ca[c] # {} => ShownKids(d, p) \subseteq d.ca[c]
  BY DEF Healable
<1> HIDE DEF hs, kids, h
<1>3. \A p \in hs : /\ ShownKids(d, p) = Kids(p) /\ Kids(p) # {}
                    /\ \A c \in Ids : p \notin d.ca[c]
  BY <1>1 DEF Sound, Broken
<1>4. \A b \in Blocks : b \in kids <=> ParentOf[b] \in hs
  <2>1. \A b \in Blocks : d.up[b] \in hs => ParentOf[b] = d.up[b]
    BY <1>3 DEF ShownKids, Kids
  <2>2. \A b \in Blocks : ParentOf[b] \in hs => d.up[b] = ParentOf[b]
    BY <1>3 DEF ShownKids, Kids
  <2> QED BY <1>1, <2>1, <2>2
<1>5. \A b \in Blocks : \A p \in hs : b \in ShownKids(d, p) <=> ParentOf[b] = p
  BY <1>3 DEF Kids
<1>6. ASSUME NEW u \in Units, NEW c \in Ids
      PROVE  (u \in d.ca[c] \/ (u \in Blocks /\ ParentOf[u] \in d.ca[c]))
                <=> (u \in h.ca[c] \/ (u \in Blocks /\ ParentOf[u] \in h.ca[c]))
  <2>1. h.ca[c] = (d.ca[c] \ kids) \cup {p \in hs : ShownKids(d, p) \cap d.ca[c] # {}}
    BY <1>1
  <2>2. CASE u \notin Blocks
    <3>1. u \notin hs /\ u \notin kids
      BY <1>1, <1>3, <2>2 DEF Units
    <3> QED BY <2>1, <2>2, <3>1
  <2>3. CASE u \in Blocks /\ ParentOf[u] \in hs
    <3>1. u \in kids /\ ParentOf[u] \notin d.ca[c] /\ u \notin hs /\ ParentOf[u] \notin kids
      BY <1>1, <1>3, <1>4, <2>3, Geographies
    <3>2. u \in ShownKids(d, ParentOf[u])
      BY <1>5, <2>3
    <3>3. u \in d.ca[c] <=> ShownKids(d, ParentOf[u]) \cap d.ca[c] # {}
      BY <1>2, <2>3, <3>2
    <3> QED BY <2>1, <2>3, <3>1, <3>3
  <2>4. CASE u \in Blocks /\ ParentOf[u] \notin hs
    <3>1. u \notin kids /\ u \notin hs /\ ParentOf[u] \notin kids
      BY <1>1, <1>4, <2>4, Geographies
    <3> QED BY <2>1, <2>4, <3>1
  <2> QED BY <2>2, <2>3, <2>4
<1>7. Effective(h) = Effective(d)
  BY <1>1, <1>6, SameEffective
<1> QED BY <1>7 DEF h

LEMMA BreakKeepsUnits ==
    ASSUME NEW d \in Docs, NEW ts \in SUBSET Parents PROVE Effective(BrokenInto(d, ts)) = Effective(d)
<1> DEFINE h == BrokenInto(d, ts)
<1>1. /\ h \in Docs
      /\ \A c \in Ids : h.ca[c] = {g \in d.ca[c] : g \notin ts \/ Kids(g) = {}}
                                     \cup {b \in Blocks : ParentOf[b] \in ts \cap d.ca[c]}
  BY BrokenFields
<1> HIDE DEF h
<1>2. ASSUME NEW u \in Units, NEW c \in Ids
      PROVE  (u \in d.ca[c] \/ (u \in Blocks /\ ParentOf[u] \in d.ca[c]))
                <=> (u \in h.ca[c] \/ (u \in Blocks /\ ParentOf[u] \in h.ca[c]))
  <2>1. h.ca[c] = {g \in d.ca[c] : g \notin ts \/ Kids(g) = {}}
                     \cup {b \in Blocks : ParentOf[b] \in ts \cap d.ca[c]}
    BY <1>1
  <2>2. CASE u \notin Blocks
    <3>1. Kids(u) = {}
      BY <2>2 DEF Units
    <3> QED BY <2>1, <2>2, <3>1
  <2>3. CASE u \in Blocks
    <3>1. u \notin ts /\ ParentOf[u] \in Parents /\ ParentOf[u] \notin Blocks
          /\ Kids(ParentOf[u]) # {}
      BY <2>3, Geographies DEF Kids
    <3> QED BY <2>1, <2>3, <3>1
  <2> QED BY <2>2, <2>3
<1>3. Effective(h) = Effective(d)
  BY <1>1, <1>2, SameEffective
<1> QED BY <1>3 DEF h

(* Breaking a geography and leaving block view change no unit's            *)
(* communities, however many communities overlap there.                    *)
THEOREM BlockViewMovesNothing == Spec => BlockViewKeepsUnits
<1> DEFINE Keeps == (\E ts \in SUBSET Parents : BreakDone(ts)) \/ ExitBlockView =>
                       Effective(doc') = Effective(doc)
<1>1. TypeOK /\ PlanSound /\ [Next]_vars => [Keeps]_vars
  <2> SUFFICES ASSUME TypeOK, PlanSound, (\E ts \in SUBSET Parents : BreakDone(ts)) \/ ExitBlockView
               PROVE  Effective(doc') = Effective(doc)
    OBVIOUS
  <2> DEFINE d == [doc EXCEPT !.clu = Fresh]
  <2>1. Fresh \in Stamps /\ doc \in Docs /\ Sound(doc)
    BY NewTime DEF BreakDone, ExitBlockView, TypeOK, PlanSound, Held
  <2>2. d \in Docs /\ d.ca = doc.ca /\ d.up = doc.up
    BY <2>1, RestampedType
  <2>3. \/ \E ts \in SUBSET Parents : doc' = BrokenInto(d, ts)
        \/ doc' = Healed(d, {focus})
        \/ doc' = doc
    BY DEF BreakDone, ExitBlockView
  <2> HIDE DEF d
  <2>4. Sound(d) /\ Effective(d) = Effective(doc)
    BY <2>1, <2>2, SameSound, SameUnits
  <2> QED BY <2>2, <2>3, <2>4, HealKeepsUnits, BreakKeepsUnits
<1>2. Spec => [](TypeOK /\ PlanSound)
  BY InitType, NextType, InitSound, NextSound, PTL DEF Spec
<1> HIDE DEF Keeps
<1>3. Spec => [][Keeps]_vars
  BY <1>1, <1>2, PTL DEF Spec
<1> QED BY <1>3 DEF Keeps, BlockViewKeepsUnits

-----------------------------------------------------------------------------
(* A reload.  The record that was made last has the plan and the list of   *)
(* communities; one with the server's timestamp has what the server has.   *)

InStep ==
    /\ local.names = names /\ (waiting # None => waiting.names = names)
    /\ Parsed(Latest.rows, 1).ca = doc.ca
    /\ local.stamp = server.stamp =>
          /\ local.names = server.names
          /\ Effective(Parsed(local.rows, 1)) = Effective(ServerDoc)
    /\ waiting # None => waiting.stamp # server.stamp

LEMMA RequestStep ==
    ASSUME Orderly, [Next]_vars
    PROVE  /\ request' # "none" => locked'
           /\ request' \in {"save", "overwrite", "dialog"} => waiting' = None
<1>1. CASE TimerFires \/ StartBreak \/ BreakFails \/ ExitBlockView \/ Undo \/ Redo
  BY <1>1 DEF TimerFires, StartBreak, BreakFails, ExitBlockView, Undo, Redo, Restore, Orderly, disk
<1>2. CASE StartSave \/ SaveDone \/ SaveFails \/ SaveConflicts \/ CloseDialog
  BY <1>2 DEF StartSave, SaveDone, SaveFails, SaveConflicts, CloseDialog, Orderly, disk
<1>3. CASE UseServer \/ Reload
  BY <1>3, ShowFields DEF UseServer, Reload
<1>4. CASE AddCommunity \/ \E c \in Ids : UpdateCommunity(c)
  BY <1>4 DEF AddCommunity, UpdateCommunity, EditNames, Orderly
<1>5. CASE \/ \E gs \in SUBSET Geos, c \in Ids, erase \in BOOLEAN : Stroke(gs, c, erase)
           \/ \E ts \in SUBSET Parents : BreakDone(ts)
           \/ \E c \in Ids, breaking \in BOOLEAN : RemoveCommunity(c, breaking)
  BY <1>5 DEF Stroke, BreakDone, RemoveCommunity, Orderly
<1>6. CASE \E cs \in SUBSET Ids, c \in Ids, p \in Parents : OtherSaves(cs, c, p)
  BY <1>6 DEF OtherSaves, Orderly, disk
<1>7. CASE UNCHANGED vars
  BY <1>7 DEF vars, Orderly
<1> QED BY <1>1, <1>2, <1>3, <1>4, <1>5, <1>6, <1>7 DEF Next

LEMMA NextOrderly == TypeOK /\ Orderly /\ [Next]_vars => Orderly'
<1> SUFFICES ASSUME TypeOK, Orderly, [Next]_vars PROVE Orderly'
  OBVIOUS
<1>1. local'.base = base' /\ (waiting' # None => waiting'.base = base')
  <2>1. CASE (Advances \/ Restores) /\ DiskAdvances
    BY <2>1 DEF Advances, Restores, DiskAdvances, Orderly
  <2>2. CASE Quiet
    BY <2>2 DEF Quiet, Latest, Orderly, meta
  <2>3. CASE SaveDone
    BY <2>3, SaveDoneFields DEF SaveDone, Orderly
  <2>4. CASE UseServer \/ Reload
    BY <2>4, ShowFields DEF UseServer, Reload
  <2>5. CASE \E cs \in SUBSET Ids, c \in Ids, p \in Parents : OtherSaves(cs, c, p)
    BY <2>5 DEF OtherSaves, Orderly, disk, meta
  <2> QED BY <2>1, <2>2, <2>3, <2>4, <2>5, StepKinds
<1> QED BY <1>1, RequestStep DEF Orderly

LEMMA WriteInStep ==
    ASSUME TypeOK, Timely, InStep, Tick, NEW now, doc' \in Docs, Sound(doc'),
           Write(names, doc', now), UNCHANGED <<names, server>>
    PROVE  InStep'
<1> DEFINE r == Record(names, base, doc', Fresh)
<1>0. Fresh \in Stamps /\ clock \in Nat /\ server.stamp \in Nat /\ server.stamp <= clock
  BY NewTime, StampsAreNumbers DEF Timely
<1>1. r.names = names /\ r.rows = LocalRows(doc') /\ r.stamp = Fresh
  BY DEF Record
<1>2. r \in Records /\ r # None
  BY <1>0, RecordType, NothingAssumption DEF TypeOK
<1>3. Parsed(LocalRows(doc'), 1).ca = doc'.ca
  BY ParsedLocal
<1>4. (local' = r /\ waiting' = None) \/ (waiting' = r /\ local' = local)
  BY DEF Write
<1> HIDE DEF r
<1>5. Latest' = r
  BY <1>2, <1>4 DEF Latest
<1>6. Parsed(Latest'.rows, 1).ca = doc'.ca
  BY <1>1, <1>3, <1>5
<1>7. r.stamp # server'.stamp /\ ServerDoc' = ServerDoc
  BY <1>0, <1>1 DEF Fresh, ServerDoc
<1>8. CASE local' = r /\ waiting' = None
  BY <1>1, <1>6, <1>7, <1>8 DEF InStep
<1>9. CASE waiting' = r /\ local' = local
  BY <1>1, <1>6, <1>7, <1>9 DEF InStep
<1> QED BY <1>4, <1>8, <1>9

LEMMA EditNamesInStep ==
    ASSUME TypeOK, Timely, InStep, "burst" \notin Allowed, NEW n, EditNames(n) PROVE InStep'
<1>1. clock \in Nat /\ server.stamp \in Nat /\ server.stamp <= clock
  BY StampsAreNumbers DEF Timely
<1>2. /\ local'.names = n /\ local'.rows = local.rows /\ local'.stamp = Fresh
      /\ doc'.ca = doc.ca
  BY DEF EditNames, TypeOK, Records, Docs
<1>3. waiting = None /\ waiting' = None /\ names' = n /\ server' = server
  BY DEF EditNames
<1>4. Parsed(local'.rows, 1).ca = doc'.ca
  BY <1>2, <1>3 DEF InStep, Latest
<1> QED BY <1>1, <1>2, <1>3, <1>4 DEF InStep, Latest, Fresh

LEMMA RemoveInStep ==
    ASSUME TypeOK, Timely, PlanSound, InStep, NEW c \in Ids, NEW breaking \in BOOLEAN,
           RemoveCommunity(c, breaking)
    PROVE  InStep'
<1> DEFINE r == Record(names', base, doc', Fresh)
           l == [local EXCEPT !.names = names', !.base = base, !.stamp = Fresh]
<1>0. Fresh \in Stamps /\ clock \in Nat /\ server.stamp \in Nat /\ server.stamp <= clock
  BY NewTime, StampsAreNumbers DEF Timely, RemoveCommunity
<1>1. doc' \in Docs /\ names' \in Names /\ Sound(doc')
  BY RemoveType, RemoveSound DEF TypeOK, SoundAfter
<1>2. r.names = names' /\ r.rows = LocalRows(doc') /\ r.stamp = Fresh
  BY DEF Record
<1>3. r \in Records /\ r # None
  BY <1>0, <1>1, RecordType, NothingAssumption DEF TypeOK
<1>4. l.names = names' /\ l.stamp = Fresh
  BY DEF TypeOK, Records
<1>5. (local' = r /\ waiting' = None) \/ (waiting' = r /\ local' = l)
  BY DEF RemoveCommunity, DropCommunity
<1>6. Parsed(LocalRows(doc'), 1).ca = doc'.ca
  BY <1>1, ParsedLocal
<1>7. UNCHANGED server
  BY DEF RemoveCommunity
<1> HIDE DEF r, l
<1>8. Latest' = r
  BY <1>3, <1>5 DEF Latest
<1>9. Parsed(Latest'.rows, 1).ca = doc'.ca
  BY <1>2, <1>6, <1>8
<1>10. Fresh # server'.stamp
  BY <1>0, <1>7 DEF Fresh
<1> QED BY <1>2, <1>4, <1>5, <1>9, <1>10 DEF InStep

LEMMA SaveDoneInStep ==
    ASSUME TypeOK, PlanSound, Orderly, InStep, SaveDone PROVE InStep'
<1>1. /\ server'.names = names /\ server'.pairs = Sent(doc) /\ doc'.ca = doc.ca
      /\ local'.names = names /\ local'.rows = ServerRows(Sent(doc))
      /\ names' = names /\ waiting' = waiting
  BY SaveDoneFields
<1>2. waiting = None
  BY DEF SaveDone, Orderly
<1>3. doc \in Docs /\ Sound(doc)
  BY DEF TypeOK, PlanSound, Held
<1>4. Parsed(ServerRows(Sent(doc)), 1).ca = doc.ca
  BY <1>3, ParsedSent
<1>5. ServerDoc' = Parsed(local'.rows, 1)
  BY <1>1 DEF ServerDoc
<1> QED BY <1>1, <1>2, <1>4, <1>5 DEF InStep, Latest

LEMMA LoadInStep ==
    ASSUME TypeOK, PlanSound, ServerOwn, "crash" \notin Allowed, UseServer \/ Reload
    PROVE  InStep'
<1>1. doc' \in Docs /\ Sound(doc')
  BY UseServerType, ReloadType, LoadSound DEF TypeOK, SoundAfter
<1>2. Parsed(LocalRows(doc'), 1).ca = doc'.ca
  BY <1>1, ParsedLocal
<1>3. CASE Show(server.names, server.stamp, Parsed(ServerRows(server.pairs), server.stamp))
  <2>1. /\ doc' = Parsed(ServerRows(server.pairs), server.stamp)
        /\ names' = Ingested(server.names, doc') /\ local'.names = server.names
        /\ local'.rows = LocalRows(doc') /\ waiting' = None /\ server' = server
    BY <1>3, ShowFields
  <2>2. names' = server.names
    BY <2>1, ServerAssigned
  <2>3. ServerDoc' = ServerDoc /\ doc'.ca = ServerDoc.ca
    BY <2>1, ServerUnits DEF ServerDoc
  <2>4. Effective(Parsed(local'.rows, 1)) = Effective(ServerDoc')
    BY <1>2, <2>1, <2>3, SameUnits
  <2> QED BY <1>2, <2>1, <2>2, <2>4 DEF InStep, Latest
<1>4. CASE /\ local.stamp # local.base /\ server.stamp = local.base
           /\ Assigned(Parsed(local.rows, 1)) \subseteq Communities(local.names)
           /\ Show(local.names, local.base, Parsed(local.rows, local.stamp))
  <2>1. /\ doc' = Parsed(local.rows, local.stamp) /\ names' = Ingested(local.names, doc')
        /\ local'.names = local.names /\ local'.rows = LocalRows(doc') /\ waiting' = None
        /\ server' = server /\ local'.stamp = local.stamp
    BY <1>4, ShowFields
  <2>2. doc'.ca = Parsed(local.rows, 1).ca
    BY <2>1 DEF Parsed
  <2>3. Assigned(doc') \subseteq Communities(local.names)
    BY <1>4, <2>2, SameAssigned
  <2>4. names' = local.names
    BY <2>1, <2>3 DEF Ingested
  <2> QED BY <1>2, <1>4, <2>1, <2>4 DEF InStep, Latest
<1> QED BY <1>3, <1>4 DEF UseServer, Reload

LEMMA QuietInStep ==
    ASSUME InStep, UNCHANGED <<doc, names, server>>,
           UNCHANGED <<local, waiting>> \/ (waiting' = None /\ local' = Latest)
    PROVE  InStep'
<1>1. ServerDoc' = ServerDoc
  BY DEF ServerDoc
<1>2. Latest' = Latest
  BY DEF Latest
<1> QED BY <1>1, <1>2 DEF InStep, Latest

LEMMA OtherSavesInStep ==
    ASSUME TypeOK, Timely, InStep, NEW cs \in SUBSET Ids, NEW c \in Ids, NEW p \in Parents,
           OtherSaves(cs, c, p)
    PROVE  InStep'
<1>1. /\ clock \in Nat /\ local.stamp \in Nat /\ (waiting # None => waiting.stamp \in Nat)
      /\ local.stamp <= clock /\ (waiting # None => waiting.stamp <= clock)
  BY StampsAreNumbers DEF Timely
<1>2. server'.stamp = clock + 1 /\ UNCHANGED <<doc, names, local, waiting>>
  BY DEF OtherSaves, Fresh, meta, disk
<1>3. local'.stamp # server'.stamp /\ (waiting' # None => waiting'.stamp # server'.stamp)
  BY <1>1, <1>2
<1> QED BY <1>2, <1>3 DEF InStep, Latest

LEMMA InitInStep == Init => InStep
<1> SUFFICES ASSUME Init PROVE InStep
  OBVIOUS
<1>1. ServerRows(server.pairs) = {}
  BY DEF Init, ServerRows
<1>2. doc = ServerDoc
  BY <1>1 DEF Init, ServerDoc
<1>3. doc \in Docs /\ Sound(doc)
  BY InitType, InitSound DEF TypeOK, PlanSound, Held
<1>4. local.rows = LocalRows(doc) /\ local.names = names /\ waiting = None /\ names = server.names
  BY DEF Init, Record
<1>5. Parsed(local.rows, 1).ca = doc.ca
  BY <1>3, <1>4, ParsedLocal
<1>6. Effective(Parsed(local.rows, 1)) = Effective(ServerDoc)
  BY <1>2, <1>5, SameUnits
<1> QED BY <1>4, <1>5, <1>6 DEF InStep, Latest

LEMMA NextInStep ==
    ASSUME "burst" \notin Allowed, "crash" \notin Allowed
    PROVE  TypeOK /\ PlanSound /\ ServerOwn /\ Timely /\ Orderly /\ InStep /\ [Next]_vars
              => InStep'
<1> SUFFICES ASSUME TypeOK, PlanSound, ServerOwn, Timely, Orderly, InStep, [Next]_vars
             PROVE  InStep'
  OBVIOUS
<1>1. CASE TimerFires \/ StartBreak \/ BreakFails
  BY <1>1, QuietInStep DEF TimerFires, StartBreak, BreakFails, Latest, disk, meta
<1>2. CASE StartSave \/ SaveFails \/ SaveConflicts \/ CloseDialog
  BY <1>2, QuietInStep DEF StartSave, SaveFails, SaveConflicts, CloseDialog, Latest, disk, meta
<1>3. CASE AddCommunity \/ \E c \in Ids : UpdateCommunity(c)
  BY <1>3, EditNamesInStep DEF AddCommunity, UpdateCommunity
<1>4. CASE UNCHANGED vars
  BY <1>4, QuietInStep DEF vars
<1>5. CASE \/ \E gs \in SUBSET Geos, c \in Ids, erase \in BOOLEAN : Stroke(gs, c, erase)
           \/ \E ts \in SUBSET Parents : BreakDone(ts)
           \/ ExitBlockView \/ Undo \/ Redo
  <2>1. doc' \in Docs
    BY <1>5, StrokeType, BreakDoneType, ExitType, RestoreType DEF TypeOK
  <2>2. Sound(doc')
    BY <1>5, StrokeSound, BreakSound, ExitSound, RestoreSound DEF SoundAfter
  <2>3. Tick /\ UNCHANGED <<names, server>>
    BY <1>5 DEF Stroke, BreakDone, ExitBlockView, Undo, Redo, Restore, meta
  <2>4. UNCHANGED <<doc, local, waiting>> \/ \E now : Write(names, doc', now)
    BY <1>5 DEF Stroke, BreakDone, ExitBlockView, Undo, Redo, Restore, disk
  <2> QED BY <2>1, <2>2, <2>3, <2>4, WriteInStep, QuietInStep
<1> QED BY <1>1, <1>2, <1>3, <1>4, <1>5, RemoveInStep, SaveDoneInStep, LoadInStep,
           OtherSavesInStep DEF Next

(* What a reload shows. *)
LEMMA ReloadShows ==
    ASSUME TypeOK, ServerOwn, Orderly, InStep, "crash" \notin Allowed, Reload, server.stamp = base
    PROVE  names' = names /\ (waiting = None => Effective(doc') = Effective(doc))
<1>1. /\ local.base = base /\ local.names = names
      /\ waiting = None => Parsed(local.rows, 1).ca = doc.ca
  BY DEF Orderly, InStep, Latest
<1>2. CASE /\ local.stamp = local.base
           /\ Show(server.names, server.stamp, Parsed(ServerRows(server.pairs), server.stamp))
  <2>1. doc' = Parsed(ServerRows(server.pairs), server.stamp)
        /\ names' = Ingested(server.names, doc')
    BY <1>2, ShowFields
  <2>2. names' = server.names
    BY <2>1, ServerAssigned
  <2>3. names = server.names /\ Effective(Parsed(local.rows, 1)) = Effective(ServerDoc)
    BY <1>1, <1>2 DEF InStep
  <2>4. Effective(doc') = Effective(ServerDoc)
    BY <2>1, ServerUnits, SameUnits
  <2>5. waiting = None => Effective(Parsed(local.rows, 1)) = Effective(doc)
    BY <1>1, SameUnits
  <2> QED BY <2>2, <2>3, <2>4, <2>5
<1>3. CASE Show(local.names, local.base, Parsed(local.rows, local.stamp))
  <2>1. doc' = Parsed(local.rows, local.stamp) /\ names' = Ingested(local.names, doc')
    BY <1>3, ShowFields
  <2>2. doc'.ca = Parsed(local.rows, 1).ca
    BY <2>1 DEF Parsed
  <2>3. Assigned(doc') \subseteq Communities(local.names)
    BY <2>2, SameAssigned DEF Reload
  <2>4. names' = names
    BY <1>1, <2>1, <2>3 DEF Ingested
  <2>5. waiting = None => Effective(doc') = Effective(doc)
    BY <1>1, <2>2, SameUnits
  <2> QED BY <2>4, <2>5
<1> QED BY <1>1, <1>2, <1>3 DEF Reload

(* A reload before anyone else saved keeps the list of communities, even   *)
(* while a stroke waits for its timer, and every membership once it is     *)
(* written: unless a name was changed within the debounce of a stroke, or  *)
(* the page went before a removal was written.                             *)
THEOREM ReloadLosesNothing ==
    ASSUME "burst" \notin Allowed, "crash" \notin Allowed
    PROVE  Spec => ReloadKeepsPlan
<1> DEFINE IInv  == TypeOK /\ PlanSound /\ ServerOwn /\ Timely /\ Orderly /\ InStep
           Keeps == Reload /\ server.stamp = base =>
                       names' = names /\ (waiting = None => Effective(doc') = Effective(doc))
<1>1. Init => IInv
  BY InitType, InitSound, InitOwn, InitTimely, InitInStep
<1>2. IInv /\ [Next]_vars => IInv'
  BY NextType, NextSound, NextOwn, NextTimely, NextOrderly, NextInStep
<1>3. IInv /\ [Next]_vars => [Keeps]_vars
  BY ReloadShows
<1> HIDE DEF IInv, Keeps
<1>4. Spec => [][Keeps]_vars
  BY <1>1, <1>2, <1>3, PTL DEF Spec
<1> QED BY <1>4 DEF Keeps, ReloadKeepsPlan
=============================================================================
