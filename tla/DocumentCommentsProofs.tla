----------------------- MODULE DocumentCommentsProofs ------------------------
(***************************************************************************)
(* What is proved of DocumentComments for any browsers, districts, forms   *)
(* and bounds: what a save does to the comments, and what the public sees. *)
(***************************************************************************)
EXTENDS DocumentComments, FunctionTheorems, FiniteSetTheorems, SequenceTheorems, TLAPS

-----------------------------------------------------------------------------
(* Operators *)

LEMMA Numbers ==
    /\ MaxIds \in Nat /\ MaxWrites \in Nat
    /\ Null \notin Docs /\ Null \notin Texts /\ Null \notin Zones /\ Null \notin Statuses
    /\ \A z \in Zones : z \in Nat /\ z # 0
    /\ Docs \subseteq Nat /\ 1 \in Docs /\ 2 \in Docs /\ Texts \subseteq Nat
    /\ Texts \subseteq 0..2
<1>1. MaxIds \in Nat /\ MaxWrites \in Nat
  BY ConstantsOK
<1>2. Zones \subseteq Nat \ {0} /\ Null \notin Nat /\ Null \notin Statuses /\ Texts \subseteq 0..2
  BY ConstantsOK
<1>3. Docs \subseteq Nat /\ 1 \in Docs /\ 2 \in Docs /\ 0..2 \subseteq Nat
  BY DEF Docs
<1> QED BY <1>1, <1>2, <1>3

(* The sequence that SetToSeq makes of a finite set has its members, each  *)
(* once.                                                                   *)
LEMMA SetToSeqFacts ==
    ASSUME NEW S, IsFiniteSet(S)
    PROVE  /\ SetToSeq(S) \in Seq(S)
           /\ \A x \in S : \E k \in DOMAIN SetToSeq(S) : SetToSeq(S)[k] = x
           /\ \A k, l \in DOMAIN SetToSeq(S) : SetToSeq(S)[k] = SetToSeq(S)[l] => k = l
<1> DEFINE n == Cardinality(S)
           s == SetToSeq(S)
<1>1. n \in Nat /\ ExistsBijection(1..n, S)
  BY FS_CardinalityType
<1>2. PICK f \in Bijection(1..n, S) : TRUE
  BY <1>1 DEF ExistsBijection
<1>3. f \in [1..n -> S] /\ IsInjective(f)
  BY <1>2 DEF Bijection, Injection
<1>4. s \in [1..n -> S] /\ IsInjective(s)
  BY <1>3 DEF SetToSeq
<1>5. s \in Injection(1..n, S)
  BY <1>4 DEF Injection
<1>6. Cardinality(1..n) = n
  BY <1>1, FS_Interval
<1> HIDE DEF s
<1>7. s \in Surjection(1..n, S)
  BY <1>5, <1>6, FS_Injection
<1>8. \A x \in S : \E k \in 1..n : s[k] = x
  BY <1>7 DEF Surjection
<1>9. DOMAIN s = 1..n
  BY <1>4
<1>10. s \in Seq(S)
  BY <1>1, <1>4
<1> QED BY <1>4, <1>8, <1>9, <1>10 DEF s, IsInjective

(* The rank of a district among some. *)
LEMMA RankFacts ==
    ASSUME NEW S \in SUBSET Zones
    PROVE  /\ IsFiniteSet(S) /\ Cardinality(S) \in Nat
           /\ \A z \in S : Cardinality({y \in S : y <= z}) \in 1..Cardinality(S)
           /\ \A z, w \in S :
                 Cardinality({y \in S : y <= z}) = Cardinality({y \in S : y <= w}) => z = w
<1>1. IsFiniteSet(S) /\ Cardinality(S) \in Nat
  BY ConstantsOK, FS_Subset, FS_CardinalityType
<1>2. ASSUME NEW z \in S
      PROVE  /\ IsFiniteSet({y \in S : y <= z})
             /\ Cardinality({y \in S : y <= z}) \in 1..Cardinality(S)
  <2> DEFINE T == {y \in S : y <= z}
  <2>1. T \in SUBSET S /\ z \in T
    BY Numbers
  <2> HIDE DEF T
  <2>2. IsFiniteSet(T) /\ Cardinality(T) <= Cardinality(S)
    BY <1>1, <2>1, FS_Subset
  <2>3. Cardinality(T) \in Nat /\ Cardinality(T) # 0
    BY <2>1, <2>2, FS_CardinalityType, FS_EmptySet
  <2>4. Cardinality(T) \in 1..Cardinality(S)
    BY <1>1, <2>2, <2>3
  <2> QED BY <2>2, <2>4 DEF T
<1>3. ASSUME NEW z \in S, NEW w \in S, z < w
      PROVE  Cardinality({y \in S : y <= z}) # Cardinality({y \in S : y <= w})
  <2> DEFINE T == {y \in S : y <= z}
             U == {y \in S : y <= w}
  <2>1. T \in SUBSET U /\ w \in U /\ w \notin T
    BY <1>3, Numbers
  <2>2. IsFiniteSet(U)
    BY <1>2
  <2> HIDE DEF T, U
  <2>3. Cardinality(T) # Cardinality(U)
    BY <2>1, <2>2, FS_Subset
  <2> QED BY <2>3 DEF T, U
<1>4. \A z, w \in S : z = w \/ z < w \/ w < z
  BY Numbers
<1> QED BY <1>1, <1>2, <1>3, <1>4

-----------------------------------------------------------------------------
(* A save *)

Described(list) == {z \in Zones : list[z] # Null}

(* A description that came from the document is still in its district.     *)
InPlace(list, d) ==
    \A z \in Described(list) : list[z].id \in Existing(d) => comments[list[z].id].zone = z

LEMMA TargetFacts ==
    ASSUME NEW list, NEW d, InPlace(list, d), nextId \in Nat
    PROVE  LET to == Target(list, d)
               n  == Cardinality(Inserted(list, d))
           IN  /\ n \in Nat
               /\ DOMAIN to = Described(list)
               /\ \A z \in Described(list) :
                     \/ to[z] = list[z].id /\ to[z] \in Existing(d)
                     \/ list[z].id \notin Existing(d) /\ to[z] \in nextId..(nextId + n - 1)
               /\ DOMAIN comments \subseteq 1..(nextId - 1) =>
                     \A z, w \in Described(list) : to[z] = to[w] => z = w
<1> DEFINE to == Target(list, d)
           fresh == Inserted(list, d)
           n  == Cardinality(fresh)
           rank(z) == Cardinality({y \in fresh : y <= z})
<1>1. /\ fresh \in SUBSET Zones
      /\ \A z \in Described(list) : z \in fresh <=> list[z].id \notin Existing(d)
  BY DEF Inserted, Described
<1>2. /\ DOMAIN to = Described(list)
      /\ \A z \in Described(list) : to[z] = IF list[z].id \in Existing(d) THEN list[z].id
                                            ELSE nextId - 1 + rank(z)
  BY DEF Target, Described
<1> HIDE DEF to, fresh
<1>3. /\ n \in Nat
      /\ \A z \in fresh : rank(z) \in 1..n
      /\ \A z, w \in fresh : rank(z) = rank(w) => z = w
  BY <1>1, RankFacts
<1> HIDE DEF n, rank
<1>4. ASSUME NEW z \in Described(list)
      PROVE  \/ to[z] = list[z].id /\ to[z] \in Existing(d)
             \/ z \in fresh /\ to[z] = nextId - 1 + rank(z) /\ to[z] \in nextId..(nextId + n - 1)
  BY <1>1, <1>2, <1>3
<1>5. ASSUME DOMAIN comments \subseteq 1..(nextId - 1),
             NEW z \in Described(list), NEW w \in Described(list), to[z] = to[w]
      PROVE  z = w
  <2>1. Existing(d) \subseteq 1..(nextId - 1)
    BY <1>5 DEF Existing, OfDocument
  <2>2. CASE to[z] \in Existing(d)
    <3>1. to[z] = list[z].id /\ to[w] = list[w].id
      BY <1>4, <1>5, <2>1, <2>2
    <3> QED BY <1>5, <2>2, <3>1 DEF InPlace
  <2>3. CASE to[z] \notin Existing(d)
    <3>1. /\ z \in fresh /\ to[z] = nextId - 1 + rank(z)
          /\ w \in fresh /\ to[w] = nextId - 1 + rank(w)
      BY <1>4, <1>5, <2>3
    <3>2. rank(z) \in Int /\ rank(w) \in Int
      BY <1>3, <3>1
    <3>3. nextId - 1 + rank(z) = nextId - 1 + rank(w)
      BY <1>5, <3>1
    <3>4. rank(z) = rank(w)
      BY <3>2, <3>3
    <3> QED BY <1>3, <3>1, <3>4
  <2> QED BY <2>2, <2>3
<1> QED BY <1>1, <1>2, <1>3, <1>4, <1>5 DEF to, n, fresh

(* The comments after a save: to[z] is the comment that district z has.    *)
Synced(list, d, to) ==
    /\ nextId' \in nextId..(MaxIds + 1)
    /\ to \in [Described(list) -> 1..(nextId' - 1)]
    /\ \A z, w \in Described(list) : to[z] = to[w] => z = w
    /\ \A z \in Described(list) :
          \/ to[z] = list[z].id /\ to[z] \in Existing(d)
          \/ to[z] >= nextId /\ to[z] \notin DOMAIN comments
    /\ DOMAIN comments' = (DOMAIN comments \ Existing(d)) \cup {to[z] : z \in Described(list)}
    /\ \A i \in DOMAIN comments \ Existing(d) : comments'[i] = comments[i]
    /\ \A z \in Described(list) :
          comments'[to[z]] = IF to[z] \in Existing(d)
                             THEN [comments[to[z]] EXCEPT !.text = list[z].text]
                             ELSE NewComment(list[z].text, d, z, FALSE)

(* The tasks after it. *)
Scheduled(list, to) ==
    \E q \in Seq(Task) :
        /\ tasks' = tasks \o q
        /\ \A k \in DOMAIN q : \E z \in Described(list) :
              q[k] = Scoring("comment", to[z], list[z].text)
        /\ \A z \in Described(list) : \E k \in DOMAIN q :
              q[k] = Scoring("comment", to[z], list[z].text)

LEMMA SyncFacts ==
    ASSUME nextId \in Nat \ {0}, DOMAIN comments \subseteq 1..(nextId - 1),
           NEW list \in [Zones -> Entry \cup {Null}], NEW d \in Docs, InPlace(list, d),
           SyncScopedComments(list, d)
    PROVE  \E to : Synced(list, d, to) /\ Scheduled(list, to)
<1> DEFINE to   == Target(list, d)
           n    == Cardinality(Inserted(list, d))
           kept == Range(to)
           gone == Existing(d) \ kept
<1>0. /\ n \in Nat
      /\ DOMAIN to = Described(list)
      /\ \A z \in Described(list) :
            \/ to[z] = list[z].id /\ to[z] \in Existing(d)
            \/ list[z].id \notin Existing(d) /\ to[z] \in nextId..(nextId + n - 1)
      /\ \A z, w \in Described(list) : to[z] = to[w] => z = w
  BY TargetFacts
<1>1. kept = {to[z] : z \in Described(list)}
  BY <1>0 DEF Range
<1>2. PICK text \in [kept -> Texts] :
        /\ \A i \in kept : \E z \in DOMAIN to : to[z] = i /\ list[z].text = text[i]
        /\ comments' = [i \in (DOMAIN comments \ gone) \cup kept |->
              IF i \notin kept THEN comments[i]
              ELSE IF i \in Existing(d) THEN [comments[i] EXCEPT !.text = text[i]]
              ELSE NewComment(text[i], d, CHOOSE z \in DOMAIN to : to[z] = i, FALSE)]
        /\ tasks' = tasks \o TasksOf({<<i, text[i]>> : i \in kept})
  BY Zenon DEF SyncScopedComments
<1>3. nextId' = nextId + n /\ nextId' <= MaxIds + 1
  BY DEF SyncScopedComments
<1>4. to = [z \in Described(list) |-> to[z]]
  BY DEF Target, Described
<1> HIDE DEF to, n, kept
<1>5. Existing(d) \subseteq DOMAIN comments
  BY DEF Existing, OfDocument
<1>6. \A z \in Described(list) : text[to[z]] = list[z].text
  BY <1>0, <1>1, <1>2
<1>7. \A z \in Described(list) : (CHOOSE w \in DOMAIN to : to[w] = to[z]) = z
  BY <1>0
<1>8. nextId' \in nextId..(MaxIds + 1) /\ \A z \in Described(list) : to[z] \in 1..(nextId' - 1)
  BY <1>0, <1>3, <1>5, Numbers
<1>9. /\ \A z \in Described(list) :
            \/ to[z] = list[z].id /\ to[z] \in Existing(d)
            \/ to[z] >= nextId /\ to[z] \notin DOMAIN comments /\ to[z] \notin Existing(d)
  BY <1>0, <1>5
<1>10. DOMAIN comments' = (DOMAIN comments \ Existing(d)) \cup kept
  BY <1>2, <1>5
<1>11. \A i \in DOMAIN comments \ Existing(d) : i \notin kept
  BY <1>1, <1>9
<1>12. \A i \in DOMAIN comments \ Existing(d) : comments'[i] = comments[i]
  BY <1>2, <1>11
<1>13. ASSUME NEW z \in Described(list)
       PROVE  comments'[to[z]] = IF to[z] \in Existing(d)
                                 THEN [comments[to[z]] EXCEPT !.text = list[z].text]
                                 ELSE NewComment(list[z].text, d, z, FALSE)
  <2>1. to[z] \in kept
    BY <1>1
  <2>2. comments'[to[z]] =
              IF to[z] \in Existing(d) THEN [comments[to[z]] EXCEPT !.text = text[to[z]]]
              ELSE NewComment(text[to[z]], d, CHOOSE w \in DOMAIN to : to[w] = to[z], FALSE)
    BY <1>2, <2>1
  <2> QED BY <1>6, <1>7, <2>2
<1>14. Synced(list, d, to)
  BY <1>0, <1>1, <1>4, <1>8, <1>9, <1>10, <1>12, <1>13 DEF Synced
<1>15. Scheduled(list, to)
  <2> DEFINE pairs == {<<i, text[i]>> : i \in kept}
             S == {Scoring("comment", p[1], p[2]) : p \in pairs}
             f == [i \in kept |-> Scoring("comment", i, text[i])]
  <2>1. \A x : x \in S <=> \E i \in kept : x = Scoring("comment", i, text[i])
    <3>1. \A x : x \in S <=> \E p \in pairs : x = Scoring("comment", p[1], p[2])
      BY Zenon
    <3> HIDE DEF S
    <3>2. \A p \in pairs : \E i \in kept : p[1] = i /\ p[2] = text[i]
      OBVIOUS
    <3>3. ASSUME NEW i \in kept PROVE \E p \in pairs : p[1] = i /\ p[2] = text[i]
      <4>1. <<i, text[i]>> \in pairs
        OBVIOUS
      <4> QED BY <4>1
    <3> QED BY <3>1, <3>2, <3>3
  <2>2. kept \subseteq 1..MaxIds
    BY <1>1, <1>8, Numbers
  <2>3. IsFiniteSet(kept)
    <3>1. IsFiniteSet(1..MaxIds)
      BY FS_Interval, Numbers
    <3> HIDE DEF kept
    <3> QED BY <2>2, <3>1, FS_Subset, Zenon
  <2>4. f \in Surjection(kept, S)
    BY <2>1 DEF Surjection
  <2>5. IsFiniteSet(S)
    BY <2>3, <2>4, FS_Surjection
  <2>6. TasksOf(pairs) = SetToSeq(S)
    BY DEF TasksOf
  <2>7. S \subseteq Task
    BY <1>2, <2>1, <2>2, Numbers DEF Task, Scoring
  <2>8. \A z \in Described(list) : Scoring("comment", to[z], list[z].text) \in S
    BY <1>1, <1>6, <2>1
  <2>9. \A x \in S : \E z \in Described(list) : x = Scoring("comment", to[z], list[z].text)
    BY <1>1, <1>6, <2>1
  <2>10. tasks' = tasks \o SetToSeq(S)
    BY <1>2, <2>6
  <2> HIDE DEF S, f, pairs, kept
  <2>11. /\ SetToSeq(S) \in Seq(S)
         /\ \A x \in S : \E k \in DOMAIN SetToSeq(S) : SetToSeq(S)[k] = x
    BY <2>5, SetToSeqFacts
  <2>12. SetToSeq(S) \in Seq(Task) /\ \A k \in DOMAIN SetToSeq(S) : SetToSeq(S)[k] \in S
    BY <2>7, <2>11, SeqMonotonic, LenProperties
  <2> QED BY <2>8, <2>9, <2>10, <2>11, <2>12 DEF Scheduled
<1> QED BY <1>14, <1>15

-----------------------------------------------------------------------------
(* The invariant: shapes first, then what relates the rows, the browsers'  *)
(* lists and the documents.                                                *)

View == [stage : {"closed", "open", "sent"}, doc : Docs, known : Nat,
         list : [Zones -> Entry \cup {Null}]]
Submission == [text : Texts, name : Texts, tag : Texts \cup {Null},
               stage : {"comment", "tag", "end"}, id : 0..MaxIds, doc : Docs \cup {Null}]

RowsShape ==
    /\ nextId \in 1..(MaxIds + 1)
    /\ DOMAIN comments \subseteq 1..(nextId - 1)
    /\ \A i \in DOMAIN comments : comments[i] \in CommentRow

TasksShape ==
    /\ tasks \in Seq(Task)
    /\ \A k \in DOMAIN tasks : tasks[k].kind = "comment" => tasks[k].key < nextId

EntitiesShape ==
    /\ person \in Row \cup {Null}
    /\ DOMAIN tags \subseteq Texts /\ \A t \in DOMAIN tags : tags[t] \in Row

VersionsShape ==
    /\ done \in [writes : 0..MaxWrites, reviews : Nat]
    /\ version \in [Docs -> Nat]
    /\ \A d \in Docs : version[d] <= 1 + done.writes

FormShape ==
    form # Null => /\ form \in Submission /\ form.id < nextId
                   /\ form.stage = "tag" => form.tag # Null

ViewsShape == views \in [Editors -> View]

Shapes == RowsShape /\ TasksShape /\ EntitiesShape /\ VersionsShape /\ FormShape /\ ViewsShape

(* Nothing belongs to a document that is not there yet. *)
Created ==
    /\ version[1] > 0
    /\ \A e \in Editors : version[views[e].doc] > 0
    /\ form # Null => form.doc = Null \/ version[form.doc] > 0
    /\ \A i \in DOMAIN comments : comments[i].doc = Null \/ version[comments[i].doc] > 0

(* No two comments of a document describe one district. *)
Single ==
    \A i, j \in DOMAIN comments :
        comments[i].doc = comments[j].doc /\ comments[i].zone = comments[j].zone
           /\ comments[i].zone # 0 => i = j

(* A browser that holds the id of a comment has it in its document and its *)
(* district, as long as the comment is there.                              *)
Known ==
    \A e \in Editors, z \in Zones :
        LET n == views[e].list[z]
        IN  n # Null => /\ n.id < nextId
                        /\ n.id \in DOMAIN comments =>
                              comments[n.id].doc = views[e].doc /\ comments[n.id].zone = z

-----------------------------------------------------------------------------
(* What the steps do to the rows *)

SameRows ==
    /\ nextId' = nextId /\ DOMAIN comments' = DOMAIN comments
    /\ \A i \in DOMAIN comments :
          /\ comments'[i] \in CommentRow
          /\ comments'[i].text = comments[i].text
          /\ comments'[i].zone = comments[i].zone /\ comments'[i].doc = comments[i].doc

(* Rows are added. *)
MoreRows ==
    /\ nextId' \in nextId..(MaxIds + 1)
    /\ DOMAIN comments' = DOMAIN comments \cup nextId..(nextId' - 1)
    /\ \A i \in DOMAIN comments : comments'[i] = comments[i]
    /\ \A i \in nextId..(nextId' - 1) :
          /\ comments'[i] \in CommentRow
          /\ comments'[i].score = Null /\ comments'[i].status = Null

LEMMA SubmitCommentRows ==
    ASSUME RowsShape, FormShape, SubmitComment
    PROVE  /\ MoreRows /\ nextId' = nextId + 1
           /\ comments'[nextId].zone = 0 /\ comments'[nextId].doc = form.doc
           /\ comments'[nextId].text = form.text
<1>1. nextId \in 1..MaxIds /\ form \in Submission
  BY DEF SubmitComment, FormShape, Ids
<1> DEFINE row == NewComment(form.text, form.doc, 0, TRUE)
           g == [i \in {nextId} |-> row]
<1>2. /\ row \in CommentRow /\ row.score = Null /\ row.status = Null
      /\ row.zone = 0 /\ row.doc = form.doc /\ row.text = form.text
  <2>1. form.text \in Texts /\ form.doc \in Docs \cup {Null} /\ 0 \in Zones \cup {0} /\ TRUE \in BOOLEAN
    BY <1>1 DEF Submission
  <2> QED BY <2>1 DEF NewComment, CommentRow
<1>3. comments' = With(comments, g) /\ nextId' = nextId + 1
  BY DEF SubmitComment
<1>4. DOMAIN g = {nextId} /\ g[nextId] = row
  OBVIOUS
<1> HIDE DEF row, g
<1>5. /\ DOMAIN comments' = DOMAIN comments \cup {nextId}
      /\ \A i \in DOMAIN comments : comments'[i] = comments[i]
      /\ nextId \notin DOMAIN comments => comments'[nextId] = row
  <2> DEFINE h == With(comments, g)
  <2>1. /\ DOMAIN h = DOMAIN comments \cup DOMAIN g
        /\ \A i \in DOMAIN comments : h[i] = comments[i]
        /\ \A i \in DOMAIN g : i \notin DOMAIN comments => h[i] = g[i]
    BY DEF With
  <2>2. comments' = h
    BY <1>3
  <2> HIDE DEF h
  <2> QED BY <1>4, <2>1, <2>2
<1>6. nextId \notin DOMAIN comments /\ nextId..(nextId' - 1) = {nextId}
      /\ nextId' \in nextId..(MaxIds + 1)
  BY <1>1, <1>3, Numbers DEF RowsShape
<1> QED BY <1>2, <1>3, <1>5, <1>6 DEF MoreRows

(* The copies are those of the source's comments, each once. *)
LEMMA CopyRows ==
    ASSUME RowsShape, CopyDocument
    PROVE  /\ MoreRows
           /\ \E from \in [nextId..(nextId' - 1) -> OfDocument(1)] :
                 /\ \A i, j \in nextId..(nextId' - 1) : from[i] = from[j] => i = j
                 /\ \A i \in nextId..(nextId' - 1) :
                       /\ comments'[i].doc = 2 /\ comments'[i].zone = comments[from[i]].zone
                       /\ comments'[i].text = comments[from[i]].text
<1> DEFINE n   == Cardinality(OfDocument(1))
           ids == nextId .. nextId + n - 1
<1>1. nextId \in Nat /\ nextId \in 1..(MaxIds + 1) /\ OfDocument(1) \subseteq DOMAIN comments
  BY Numbers DEF RowsShape, OfDocument
<1>2. n \in Nat
  <2>1. OfDocument(1) \in SUBSET (1..(nextId - 1))
    BY <1>1 DEF RowsShape
  <2>2. IsFiniteSet(1..(nextId - 1))
    BY <1>1, FS_Interval
  <2> QED BY <2>1, <2>2, FS_Subset, FS_CardinalityType
<1>3. PICK from \in Injection(ids, OfDocument(1)) :
           comments' = With(comments, [i \in ids |-> Copied(comments[from[i]])])
  BY DEF CopyDocument
<1>4. nextId' = nextId + n /\ ids \subseteq 1..MaxIds
  BY DEF CopyDocument, Ids
<1> DEFINE g == [i \in ids |-> Copied(comments[from[i]])]
<1>5. DOMAIN g = ids /\ \A i \in ids : g[i] = Copied(comments[from[i]])
  OBVIOUS
<1>6. comments' = With(comments, g)
  BY <1>3
<1> HIDE DEF n, g
<1>7. ids = nextId..(nextId' - 1) /\ nextId' \in nextId..(MaxIds + 1)
  <2>1. n = 0 \/ nextId + n - 1 \in ids
    BY <1>1, <1>2
  <2> QED BY <1>1, <1>2, <1>4, <2>1, Numbers
<1>8. from \in [ids -> OfDocument(1)] /\ \A i, j \in ids : from[i] = from[j] => i = j
  BY <1>3 DEF Injection, IsInjective
<1> HIDE DEF ids
<1>9. \A i \in ids : i \notin DOMAIN comments
  BY <1>1, <1>7 DEF RowsShape
<1>10. /\ DOMAIN comments' = DOMAIN comments \cup ids
       /\ \A i \in DOMAIN comments : comments'[i] = comments[i]
       /\ \A i \in ids : comments'[i] = Copied(comments[from[i]])
  <2> DEFINE h == With(comments, g)
  <2>1. /\ DOMAIN h = DOMAIN comments \cup DOMAIN g
        /\ \A i \in DOMAIN comments : h[i] = comments[i]
        /\ \A i \in DOMAIN g : i \notin DOMAIN comments => h[i] = g[i]
    BY DEF With
  <2>2. comments' = h
    BY <1>6
  <2> HIDE DEF h
  <2> QED BY <1>5, <1>9, <2>1, <2>2
<1>11. ASSUME NEW i \in ids
       PROVE  /\ comments'[i] \in CommentRow
              /\ comments'[i].score = Null /\ comments'[i].status = Null
              /\ comments'[i].doc = 2 /\ comments'[i].zone = comments[from[i]].zone
              /\ comments'[i].text = comments[from[i]].text
  <2>1. comments[from[i]] \in CommentRow
    BY <1>1, <1>8 DEF RowsShape
  <2> DEFINE row == comments[from[i]]
  <2>2. /\ row.text \in Texts /\ row.zone \in Zones \cup {0} /\ row.by \in BOOLEAN
    BY <2>1 DEF CommentRow
  <2>3. comments'[i] = NewComment(row.text, 2, row.zone, row.by)
    BY <1>10 DEF Copied
  <2> HIDE DEF row
  <2>4. /\ comments'[i] \in CommentRow
        /\ comments'[i].score = Null /\ comments'[i].status = Null
        /\ comments'[i].doc = 2 /\ comments'[i].zone = row.zone /\ comments'[i].text = row.text
    BY <2>2, <2>3, Numbers DEF NewComment, CommentRow
  <2> QED BY <2>4 DEF row
<1>12. MoreRows
  BY <1>7, <1>10, <1>11 DEF MoreRows
<1> QED BY <1>7, <1>8, <1>11, <1>12

LEMMA OpenInPlace ==
    ASSUME Known, NEW e \in Editors PROVE InPlace(views[e].list, views[e].doc)
BY DEF Known, InPlace, Described, Existing, OfDocument

LEMMA PutRows ==
    ASSUME RowsShape, ViewsShape, Known, NEW e \in Editors, Put(e)
    PROVE  \E to : Synced(views[e].list, views[e].doc, to) /\ Scheduled(views[e].list, to)
<1>1. views[e].list \in [Zones -> Entry \cup {Null}] /\ views[e].doc \in Docs
  BY DEF ViewsShape, View
<1>2. SyncScopedComments(views[e].list, views[e].doc)
  BY DEF Put
<1>3. nextId \in Nat \ {0} /\ DOMAIN comments \subseteq 1..(nextId - 1)
  BY Numbers DEF RowsShape
<1> QED BY <1>1, <1>2, <1>3, OpenInPlace, SyncFacts

LEMMA SyncedRows ==
    ASSUME RowsShape, NEW list \in [Zones -> Entry \cup {Null}], NEW d \in Docs,
           InPlace(list, d), NEW to, Synced(list, d, to), NEW z \in Described(list)
    PROVE  /\ comments'[to[z]] \in CommentRow
           /\ comments'[to[z]].doc = d /\ comments'[to[z]].zone = z
           /\ comments'[to[z]].text = list[z].text
           /\ to[z] \in Existing(d) => /\ comments'[to[z]].score = comments[to[z]].score
                                      /\ comments'[to[z]].status = comments[to[z]].status
                                      /\ comments'[to[z]].approved = comments[to[z]].approved
           /\ to[z] \notin Existing(d) => /\ comments'[to[z]].score = Null
                                         /\ comments'[to[z]].status = Null
<1>1. list[z].text \in Texts /\ z \in Zones
  BY DEF Described, Entry
<1>2. CASE to[z] \in Existing(d)
  <2>1. comments[to[z]] \in CommentRow /\ comments[to[z]].doc = d
    BY <1>2 DEF Existing, OfDocument, RowsShape
  <2>2. comments[to[z]].zone = z
    BY <1>2 DEF Synced, InPlace, RowsShape, Existing, OfDocument
  <2>3. comments'[to[z]] = [comments[to[z]] EXCEPT !.text = list[z].text]
    BY <1>2 DEF Synced
  <2> QED BY <1>1, <1>2, <2>1, <2>2, <2>3 DEF CommentRow
<1>3. CASE to[z] \notin Existing(d)
  <2>1. comments'[to[z]] = NewComment(list[z].text, d, z, FALSE)
    BY <1>3 DEF Synced
  <2>2. z \in Zones \cup {0} /\ d \in Docs \cup {Null} /\ FALSE \in BOOLEAN
    BY <1>1
  <2>3. /\ NewComment(list[z].text, d, z, FALSE) \in CommentRow
        /\ NewComment(list[z].text, d, z, FALSE).text = list[z].text
        /\ NewComment(list[z].text, d, z, FALSE).doc = d
        /\ NewComment(list[z].text, d, z, FALSE).zone = z
        /\ NewComment(list[z].text, d, z, FALSE).score = Null
        /\ NewComment(list[z].text, d, z, FALSE).status = Null
    BY <1>1, <2>2 DEF NewComment, CommentRow
  <2> QED BY <1>3, <2>1, <2>3
<1> QED BY <1>2, <1>3

LEMMA RemoveAtFacts ==
    ASSUME NEW S, NEW s \in Seq(S), NEW k \in DOMAIN s
    PROVE  /\ RemoveAt(s, k) \in Seq(S)
           /\ DOMAIN RemoveAt(s, k) = 1..(Len(s) - 1)
           /\ \A j \in 1..(Len(s) - 1) : RemoveAt(s, k)[j] = IF j < k THEN s[j] ELSE s[j + 1]
<1> DEFINE a == SubSeq(s, 1, k - 1)
           b == SubSeq(s, k + 1, Len(s))
<1>1. Len(s) \in Nat /\ k \in 1..Len(s) /\ \A j \in 1..Len(s) : s[j] \in S
  BY LenProperties
<1>2. a \in Seq(S) /\ Len(a) = k - 1 /\ \A j \in 1..(k - 1) : a[j] = s[j]
  BY <1>1, SubSeqProperties
<1>3. b \in Seq(S) /\ Len(b) = Len(s) - k /\ \A j \in 1..(Len(s) - k) : b[j] = s[k + j]
  BY <1>1, SubSeqProperties
<1> HIDE DEF a, b
<1>4. /\ a \o b \in Seq(S) /\ Len(a \o b) = Len(s) - 1
      /\ \A j \in 1..(Len(s) - 1) : (a \o b)[j] = IF j <= k - 1 THEN a[j] ELSE b[j - (k - 1)]
  <2>1. /\ a \o b \in Seq(S) /\ Len(a \o b) = Len(a) + Len(b)
        /\ \A j \in 1..(Len(a) + Len(b)) :
              (a \o b)[j] = IF j <= Len(a) THEN a[j] ELSE b[j - Len(a)]
    BY <1>2, <1>3, ConcatProperties
  <2>2. Len(a) + Len(b) = Len(s) - 1
    BY <1>1, <1>2, <1>3
  <2> QED BY <1>2, <2>1, <2>2
<1>5. DOMAIN (a \o b) = 1..(Len(s) - 1)
  BY <1>4, LenProperties
<1>6. ASSUME NEW j \in 1..(Len(s) - 1)
      PROVE  (a \o b)[j] = IF j < k THEN s[j] ELSE s[j + 1]
  <2>1. CASE j < k
    <3>1. j <= k - 1 /\ j \in 1..(k - 1)
      BY <1>1, <2>1
    <3> QED BY <1>2, <1>4, <2>1, <3>1
  <2>2. CASE ~(j < k)
    <3>1. ~(j <= k - 1) /\ j - (k - 1) \in 1..(Len(s) - k) /\ k + (j - (k - 1)) = j + 1
      BY <1>1, <2>2
    <3>2. (a \o b)[j] = b[j - (k - 1)]
      BY <1>4, <3>1
    <3> QED BY <1>3, <2>2, <3>1, <3>2
  <2> QED BY <2>1, <2>2
<1>7. RemoveAt(s, k) = a \o b
  BY DEF RemoveAt, a, b
<1> QED BY <1>4, <1>5, <1>6, <1>7

(* A step that neither inserts nor deletes a comment. *)
OtherStep ==
    \/ \E e \in Editors :
          \/ \E d \in Docs : Open(e, d)
          \/ \E z \in Zones : Describe(e, z) \/ Clear(e, z)
          \/ Answer(e) \/ Lost(e)
    \/ SubmitCommenter \/ SubmitTag \/ SubmitEnds \/ SubmitFails
    \/ RunTask \/ Review \/ Flag
    \/ UNCHANGED vars

LEMMA StepCases ==
    ASSUME [Next]_vars
    PROVE  (\E e \in Editors : Put(e)) \/ CopyDocument \/ SubmitComment \/ OtherStep
BY DEF Next, OtherStep

LEMMA OtherRows ==
    ASSUME RowsShape, TasksShape, FormShape, OtherStep PROVE SameRows
<1>1. CASE UNCHANGED <<comments, nextId>>
  BY <1>1 DEF SameRows, RowsShape
<1>2. CASE SubmitEnds
  <2> DEFINE linked == IF form.tag = Null THEN {} ELSE {form.tag}
  <2>1. /\ form.id \in DOMAIN comments /\ nextId' = nextId
        /\ comments' = [comments EXCEPT ![form.id].tags = @ \cup linked]
    BY <1>2 DEF SubmitEnds
  <2>2. linked \subseteq Texts
    BY <1>2 DEF SubmitEnds, FormShape, Submission
  <2> HIDE DEF linked
  <2> QED BY <2>1, <2>2 DEF SameRows, RowsShape, CommentRow
<1>3. CASE RunTask
  <2>1. PICK k \in DOMAIN tasks :
           /\ comments' = IF tasks[k].kind = "comment" /\ tasks[k].key \in DOMAIN comments
                          THEN [comments EXCEPT ![tasks[k].key].score = tasks[k].text]
                          ELSE comments
           /\ nextId' = nextId
    BY <1>3 DEF RunTask, ScoreFor
  <2>2. tasks[k].text \in Texts
    <3>1. tasks[k] \in Task
      BY ElementOfSeq, LenProperties DEF TasksShape
    <3> QED BY <3>1 DEF Task
  <2>3. CASE tasks[k].kind = "comment" /\ tasks[k].key \in DOMAIN comments
    BY <2>1, <2>2, <2>3 DEF SameRows, RowsShape, CommentRow
  <2>4. CASE ~(tasks[k].kind = "comment" /\ tasks[k].key \in DOMAIN comments)
    BY <2>1, <2>4 DEF SameRows, RowsShape
  <2> QED BY <2>3, <2>4
<1>4. CASE Review
  <2>0. nextId' = nextId
    BY <1>4 DEF Review
  <2>1. PICK status \in Statuses :
           \/ \E i \in DOMAIN comments :
                 comments' = [comments EXCEPT ![i] = Reviewed(@, status)]
           \/ comments' = comments
    BY <1>4 DEF Review
  <2>2. CASE comments' = comments
    BY <1>1, <2>0, <2>2
  <2>3. ASSUME NEW i \in DOMAIN comments,
               comments' = [comments EXCEPT ![i] = Reviewed(@, status)]
        PROVE  SameRows
    <3>1. \A j \in DOMAIN comments : comments[j] \in CommentRow
      BY DEF RowsShape
    <3>2. \A j \in DOMAIN comments :
             comments'[j] = IF j = i
                            THEN Reviewed(comments[i], status)
                            ELSE comments[j]
      BY <2>3
    <3>3. LET row == Reviewed(comments[i], status)
          IN  /\ row \in CommentRow /\ row.text = comments[i].text
              /\ row.zone = comments[i].zone /\ row.doc = comments[i].doc
      BY <3>1 DEF CommentRow, Reviewed
    <3>4. DOMAIN comments' = DOMAIN comments
      BY <2>3
    <3> QED BY <2>0, <3>1, <3>2, <3>3, <3>4 DEF SameRows
  <2> QED BY <2>1, <2>2, <2>3
<1>5. CASE Flag
  <2>1. PICK i \in DOMAIN comments : comments' = [comments EXCEPT ![i].flagged = TRUE]
    BY <1>5 DEF Flag
  <2>2. nextId' = nextId
    BY <1>5 DEF Flag
  <2> QED BY <2>1, <2>2 DEF SameRows, RowsShape, CommentRow
<1>6. CASE \E e \in Editors :
              \/ \E d \in Docs : Open(e, d)
              \/ \E z \in Zones : Describe(e, z) \/ Clear(e, z)
              \/ Answer(e) \/ Lost(e)
  BY <1>1, <1>6 DEF Open, Describe, Clear, Answer, Lost
<1>7. CASE SubmitCommenter \/ SubmitTag \/ SubmitFails \/ UNCHANGED vars
  BY <1>1, <1>7 DEF SubmitCommenter, SubmitTag, SubmitFails, vars
<1> QED BY <1>2, <1>3, <1>4, <1>5, <1>6, <1>7 DEF OtherStep

LEMMA RowsStep ==
    ASSUME Shapes, Known, [Next]_vars PROVE RowsShape'
<1>1. CASE OtherStep
  BY <1>1, OtherRows DEF Shapes, SameRows, RowsShape
<1>2. CASE MoreRows
  <2>1. /\ nextId \in 1..(MaxIds + 1) /\ DOMAIN comments \subseteq 1..(nextId - 1)
        /\ \A i \in DOMAIN comments : comments[i] \in CommentRow
    BY DEF Shapes, RowsShape
  <2>2. /\ nextId' \in nextId..(MaxIds + 1)
        /\ DOMAIN comments' = DOMAIN comments \cup nextId..(nextId' - 1)
        /\ \A i \in DOMAIN comments : comments'[i] = comments[i]
        /\ \A i \in nextId..(nextId' - 1) : comments'[i] \in CommentRow
    BY <1>2 DEF MoreRows
  <2>3. nextId' \in 1..(MaxIds + 1) /\ DOMAIN comments' \subseteq 1..(nextId' - 1)
    BY <2>1, <2>2, Numbers
  <2>4. \A i \in DOMAIN comments' : comments'[i] \in CommentRow
    BY <2>1, <2>2
  <2> QED BY <2>3, <2>4 DEF RowsShape
<1>3. ASSUME NEW e \in Editors, Put(e) PROVE RowsShape'
  <2> DEFINE list == views[e].list
             d    == views[e].doc
  <2>1. PICK to : Synced(list, d, to)
    BY <1>3, PutRows DEF Shapes
  <2>2. list \in [Zones -> Entry \cup {Null}] /\ d \in Docs /\ InPlace(list, d)
    BY OpenInPlace DEF Shapes, ViewsShape, View
  <2> HIDE DEF list, d
  <2>3. \A z \in Described(list) : comments'[to[z]] \in CommentRow
    BY <2>1, <2>2, SyncedRows DEF Shapes
  <2>4. /\ nextId' \in nextId..(MaxIds + 1)
        /\ to \in [Described(list) -> 1..(nextId' - 1)]
        /\ DOMAIN comments' = (DOMAIN comments \ Existing(d)) \cup {to[z] : z \in Described(list)}
        /\ \A i \in DOMAIN comments \ Existing(d) : comments'[i] = comments[i]
    BY <2>1 DEF Synced
  <2>5. /\ nextId \in 1..(MaxIds + 1) /\ DOMAIN comments \subseteq 1..(nextId - 1)
        /\ \A i \in DOMAIN comments : comments[i] \in CommentRow
    BY DEF Shapes, RowsShape
  <2>6. nextId' \in 1..(MaxIds + 1) /\ DOMAIN comments' \subseteq 1..(nextId' - 1)
    BY <2>4, <2>5, Numbers
  <2>7. \A i \in DOMAIN comments' : comments'[i] \in CommentRow
    BY <2>3, <2>4, <2>5
  <2> QED BY <2>6, <2>7 DEF RowsShape
<1> QED BY <1>1, <1>2, <1>3, StepCases, CopyRows, SubmitCommentRows DEF Shapes

(* Ids are only handed out. *)
LEMMA IdsStep ==
    ASSUME Shapes, Known, [Next]_vars PROVE nextId' >= nextId /\ nextId' \in Nat
<1>0. nextId \in Nat
  BY Numbers DEF Shapes, RowsShape
<1>1. CASE OtherStep
  BY <1>0, <1>1, OtherRows DEF Shapes, SameRows
<1>2. CASE MoreRows
  BY <1>0, <1>2 DEF MoreRows
<1>3. ASSUME NEW e \in Editors, Put(e) PROVE nextId' >= nextId /\ nextId' \in Nat
  <2>1. PICK to : Synced(views[e].list, views[e].doc, to)
    BY <1>3, PutRows DEF Shapes
  <2> QED BY <1>0, <2>1 DEF Synced
<1> QED BY <1>1, <1>2, <1>3, StepCases, CopyRows, SubmitCommentRows DEF Shapes

(* A comment keeps its document and its district; a new one has a new id. *)
LEMMA PlaceStep ==
    ASSUME Shapes, Known, [Next]_vars
    PROVE  \A i \in DOMAIN comments' :
              \/ /\ i \in DOMAIN comments
                 /\ comments'[i].doc = comments[i].doc /\ comments'[i].zone = comments[i].zone
              \/ i >= nextId /\ i \notin DOMAIN comments
<1>0. nextId \in Nat /\ DOMAIN comments \subseteq 1..(nextId - 1)
  BY Numbers DEF Shapes, RowsShape
<1>1. CASE OtherStep
  BY <1>1, OtherRows DEF Shapes, SameRows
<1>2. CASE MoreRows
  BY <1>0, <1>2 DEF MoreRows
<1>3. ASSUME NEW e \in Editors, Put(e), NEW i \in DOMAIN comments'
      PROVE  \/ /\ i \in DOMAIN comments
                /\ comments'[i].doc = comments[i].doc /\ comments'[i].zone = comments[i].zone
             \/ i >= nextId /\ i \notin DOMAIN comments
  <2> DEFINE list == views[e].list
             d    == views[e].doc
  <2>1. PICK to : Synced(list, d, to)
    BY <1>3, PutRows DEF Shapes
  <2>2. list \in [Zones -> Entry \cup {Null}] /\ d \in Docs /\ InPlace(list, d)
    BY OpenInPlace DEF Shapes, ViewsShape, View
  <2> HIDE DEF list, d
  <2>3. CASE i \in DOMAIN comments \ Existing(d)
    BY <2>1, <2>3 DEF Synced
  <2>4. CASE i \notin DOMAIN comments \ Existing(d)
    <3>1. PICK z \in Described(list) : i = to[z]
      BY <1>3, <2>1, <2>4 DEF Synced
    <3>2. comments'[i].doc = d /\ comments'[i].zone = z
      BY <2>1, <2>2, <3>1, SyncedRows DEF Shapes
    <3>3. CASE to[z] \in Existing(d)
      <4>1. to[z] = list[z].id
        BY <2>1, <3>3 DEF Synced, Existing, OfDocument, Shapes, RowsShape
      <4> QED BY <2>2, <3>1, <3>2, <3>3, <4>1 DEF InPlace, Existing, OfDocument
    <3>4. CASE to[z] \notin Existing(d)
      BY <2>1, <3>1, <3>4 DEF Synced
    <3> QED BY <3>3, <3>4
  <2> QED BY <2>3, <2>4
<1> QED BY <1>1, <1>2, <1>3, StepCases, CopyRows, SubmitCommentRows DEF Shapes

(* What a longer list of tasks holds. *)
LEMMA LongerTasks ==
    ASSUME NEW s \in Seq(Task), NEW q \in Seq(Task)
    PROVE  /\ s \o q \in Seq(Task)
           /\ \A k \in DOMAIN s : k \in DOMAIN (s \o q) /\ (s \o q)[k] = s[k]
           /\ \A k \in DOMAIN q : Len(s) + k \in DOMAIN (s \o q) /\ (s \o q)[Len(s) + k] = q[k]
           /\ \A k \in DOMAIN (s \o q) :
                 \/ k \in DOMAIN s
                 \/ \E l \in DOMAIN q : k = Len(s) + l
<1>1. /\ Len(s) \in Nat /\ DOMAIN s = 1..Len(s)
      /\ Len(q) \in Nat /\ DOMAIN q = 1..Len(q)
  BY LenProperties
<1>2. /\ s \o q \in Seq(Task) /\ Len(s \o q) = Len(s) + Len(q)
      /\ \A i \in 1..Len(s) + Len(q) :
            (s \o q)[i] = IF i <= Len(s) THEN s[i] ELSE q[i - Len(s)]
  BY ConcatProperties
<1>3. DOMAIN (s \o q) = 1..(Len(s) + Len(q))
  BY <1>2, LenProperties
<1>4. ASSUME NEW k \in DOMAIN s PROVE k \in DOMAIN (s \o q) /\ (s \o q)[k] = s[k]
  BY <1>1, <1>2, <1>3
<1>5. ASSUME NEW k \in DOMAIN q
      PROVE  Len(s) + k \in DOMAIN (s \o q) /\ (s \o q)[Len(s) + k] = q[k]
  <2>1. /\ Len(s) + k \in 1..Len(s) + Len(q) /\ ~(Len(s) + k <= Len(s))
        /\ (Len(s) + k) - Len(s) = k
    BY <1>1
  <2> QED BY <1>2, <1>3, <2>1
<1>6. ASSUME NEW k \in DOMAIN (s \o q), k \notin DOMAIN s
      PROVE  \E l \in DOMAIN q : k = Len(s) + l
  <2>1. k - Len(s) \in DOMAIN q /\ k = Len(s) + (k - Len(s))
    BY <1>1, <1>3, <1>6
  <2> QED BY <2>1
<1> QED BY <1>2, <1>4, <1>5, <1>6

(* The tasks of a submission: the comment is scored with the text that was *)
(* submitted.                                                              *)
LEMMA SubmissionTasks ==
    ASSUME TasksShape, FormShape, SubmitEnds
    PROVE  \E q \in Seq(Task) :
              /\ tasks' = tasks \o q
              /\ \A k \in DOMAIN q : q[k].kind = "comment" =>
                    q[k] = Scoring("comment", form.id, form.text)
              /\ \E k \in DOMAIN q : q[k] = Scoring("comment", form.id, form.text)
<1> DEFINE linked == IF form.tag = Null THEN {} ELSE {form.tag}
           S == {Scoring("tag", t, t) : t \in linked}
           p == <<Scoring("comment", form.id, form.text), Scoring("commenter", 0, form.name)>>
<1>1. /\ form \in Submission /\ form.id \in Nat /\ form.text \in Texts /\ form.name \in Texts
      /\ form.tag \in Texts \cup {Null}
  BY Numbers DEF SubmitEnds, FormShape, Submission
<1>2. tasks' = tasks \o p \o SetToSeq(S)
  BY DEF SubmitEnds
<1>3. p \in Seq(Task) /\ Len(p) = 2 /\ DOMAIN p = 1..2
  <2>1. Scoring("comment", form.id, form.text) \in Task /\ Scoring("commenter", 0, form.name) \in Task
    BY <1>1 DEF Scoring, Task
  <2> QED BY <2>1
<1>4. linked \subseteq Texts /\ IsFiniteSet(linked)
  <2>1. linked = {} \/ linked = {form.tag}
    OBVIOUS
  <2>2. linked \subseteq Texts
    BY <1>1
  <2> HIDE DEF linked
  <2>3. IsFiniteSet({}) /\ IsFiniteSet({form.tag})
    BY FS_EmptySet, FS_Singleton
  <2> QED BY <2>1, <2>2, <2>3
<1>5. S \subseteq Task /\ \A x \in S : x.kind = "tag"
  <2>1. \A t \in Texts : Scoring("tag", t, t) \in Task /\ Scoring("tag", t, t).kind = "tag"
    BY Numbers DEF Scoring, Task
  <2> HIDE DEF linked
  <2> QED BY <1>4, <2>1
<1>6. IsFiniteSet(S)
  <2>1. CASE form.tag = Null
    <3>1. S = {}
      BY <2>1
    <3> QED BY <3>1, FS_EmptySet
  <2>2. CASE form.tag # Null
    <3>1. S = {Scoring("tag", form.tag, form.tag)}
      BY <2>2
    <3> QED BY <3>1, FS_Singleton
  <2> QED BY <2>1, <2>2
<1> HIDE DEF S, linked
<1>7. SetToSeq(S) \in Seq(S)
  BY <1>6, SetToSeqFacts
<1>8. SetToSeq(S) \in Seq(Task) /\ \A k \in DOMAIN SetToSeq(S) : SetToSeq(S)[k].kind = "tag"
  <2>1. \A k \in DOMAIN SetToSeq(S) : SetToSeq(S)[k] \in S
    BY <1>7, LenProperties
  <2> QED BY <1>5, <1>7, <2>1, SeqMonotonic
<1> DEFINE r == SetToSeq(S)
           q == p \o r
<1> HIDE DEF r
<1>9. /\ q \in Seq(Task)
      /\ \A k \in DOMAIN p : k \in DOMAIN q /\ q[k] = p[k]
      /\ \A k \in DOMAIN r : Len(p) + k \in DOMAIN q /\ q[Len(p) + k] = r[k]
      /\ \A k \in DOMAIN q : k \in DOMAIN p \/ \E l \in DOMAIN r : k = Len(p) + l
  <2>1. r \in Seq(Task)
    BY <1>8 DEF r
  <2> HIDE DEF p
  <2> QED BY <1>3, <2>1, LongerTasks
<1>10. tasks' = tasks \o q
  <2>1. (tasks \o p) \o r = tasks \o (p \o r)
    <3>1. r \in Seq(Task) /\ tasks \in Seq(Task)
      BY <1>8 DEF r, TasksShape
    <3> HIDE DEF p
    <3> QED BY <1>3, <3>1, ConcatAssociative
  <2> QED BY <1>2, <2>1 DEF r
<1>11. ASSUME NEW k \in DOMAIN q, q[k].kind = "comment"
       PROVE  q[k] = Scoring("comment", form.id, form.text)
  <2>1. ASSUME NEW l \in DOMAIN r, k = Len(p) + l PROVE FALSE
    BY <1>8, <1>9, <1>11, <2>1 DEF r
  <2>2. k \in 1..2 /\ q[k] = p[k]
    BY <1>3, <1>9, <2>1
  <2>3. p[2].kind # "comment" /\ p[1] = Scoring("comment", form.id, form.text)
    BY DEF Scoring
  <2> QED BY <1>11, <2>2, <2>3
<1>12. 1 \in DOMAIN q /\ q[1] = Scoring("comment", form.id, form.text)
  <2>1. 1 \in DOMAIN p /\ p[1] = Scoring("comment", form.id, form.text)
    BY <1>3
  <2> HIDE DEF p
  <2> QED BY <1>9, <2>1
<1> QED BY <1>9, <1>10, <1>11, <1>12

LEMMA TasksStep ==
    ASSUME Shapes, Known, [Next]_vars PROVE TasksShape'
<1>0. nextId' >= nextId /\ nextId' \in Nat /\ nextId \in Nat
  BY IdsStep, Numbers DEF Shapes, RowsShape
<1>1. /\ tasks \in Seq(Task) /\ DOMAIN tasks = 1..Len(tasks) /\ Len(tasks) \in Nat
      /\ \A k \in DOMAIN tasks : /\ tasks[k] \in Task /\ tasks[k].key \in Nat
                                 /\ tasks[k].kind = "comment" => tasks[k].key < nextId
  <2>1. tasks \in Seq(Task)
    BY DEF Shapes, TasksShape
  <2>2. \A k \in DOMAIN tasks : tasks[k] \in Task
    BY <2>1, ElementOfSeq, LenProperties
  <2> QED BY <2>1, <2>2, LenProperties DEF Shapes, TasksShape, Task
<1>2. CASE tasks' = tasks
  BY <1>0, <1>1, <1>2 DEF TasksShape
<1>3. ASSUME NEW q \in Seq(Task), tasks' = tasks \o q,
             \A k \in DOMAIN q : q[k].kind = "comment" => q[k].key < nextId'
      PROVE  TasksShape'
  <2>1. /\ tasks' \in Seq(Task)
        /\ \A k \in DOMAIN tasks : tasks'[k] = tasks[k]
        /\ \A k \in DOMAIN q : tasks'[Len(tasks) + k] = q[k]
        /\ \A k \in DOMAIN tasks' : k \in DOMAIN tasks \/ \E l \in DOMAIN q : k = Len(tasks) + l
    BY <1>1, <1>3, LongerTasks
  <2>2. ASSUME NEW k \in DOMAIN tasks', tasks'[k].kind = "comment" PROVE tasks'[k].key < nextId'
    <3>1. CASE k \in DOMAIN tasks
      BY <1>0, <1>1, <2>1, <2>2, <3>1
    <3>2. ASSUME NEW l \in DOMAIN q, k = Len(tasks) + l PROVE tasks'[k].key < nextId'
      BY <1>3, <2>1, <2>2, <3>2
    <3> QED BY <2>1, <3>1, <3>2
  <2> QED BY <2>1, <2>2 DEF TasksShape
<1>4. ASSUME NEW e \in Editors, Put(e) PROVE TasksShape'
  <2>1. PICK to : Synced(views[e].list, views[e].doc, to) /\ Scheduled(views[e].list, to)
    BY <1>4, PutRows DEF Shapes
  <2>2. PICK q \in Seq(Task) :
           /\ tasks' = tasks \o q
           /\ \A k \in DOMAIN q : \E z \in Described(views[e].list) :
                 q[k] = Scoring("comment", to[z], views[e].list[z].text)
    BY <2>1 DEF Scheduled
  <2>3. \A z \in Described(views[e].list) : to[z] \in 1..(nextId' - 1)
    BY <2>1 DEF Synced
  <2>4. \A k \in DOMAIN q : q[k].key < nextId'
    <3>1. ASSUME NEW k \in DOMAIN q PROVE q[k].key < nextId'
      <4>1. PICK z \in Described(views[e].list) :
               q[k] = Scoring("comment", to[z], views[e].list[z].text)
        BY <2>2
      <4>2. q[k].key = to[z] /\ to[z] \in 1..(nextId' - 1)
        BY <2>3, <4>1 DEF Scoring
      <4> QED BY <1>0, <4>2
    <3> QED BY <3>1
  <2> QED BY <1>3, <2>2, <2>4
<1>5. CASE SubmitEnds
  <2>1. PICK q \in Seq(Task) :
           /\ tasks' = tasks \o q
           /\ \A k \in DOMAIN q : q[k].kind = "comment" =>
                 q[k] = Scoring("comment", form.id, form.text)
    BY <1>5, SubmissionTasks DEF Shapes
  <2>2. form.id \in Nat /\ form.id < nextId
    BY <1>5, Numbers DEF SubmitEnds, Shapes, FormShape, Submission
  <2>3. \A k \in DOMAIN q : q[k].kind = "comment" => q[k].key < nextId'
    BY <1>0, <2>1, <2>2 DEF Scoring
  <2> QED BY <1>3, <2>1, <2>3
<1>6. CASE RunTask
  <2>1. PICK k \in DOMAIN tasks : tasks' = RemoveAt(tasks, k)
    BY <1>6 DEF RunTask
  <2>2. /\ tasks' \in Seq(Task) /\ DOMAIN tasks' = 1..(Len(tasks) - 1)
        /\ \A j \in 1..(Len(tasks) - 1) : tasks'[j] = IF j < k THEN tasks[j] ELSE tasks[j + 1]
    BY <1>1, <2>1, RemoveAtFacts
  <2>3. ASSUME NEW j \in DOMAIN tasks', tasks'[j].kind = "comment" PROVE tasks'[j].key < nextId'
    <3>1. j \in DOMAIN tasks /\ j + 1 \in DOMAIN tasks
      BY <1>1, <2>2
    <3> QED BY <1>0, <1>1, <2>2, <2>3, <3>1
  <2> QED BY <2>2, <2>3 DEF TasksShape
<1>7. CASE \E e \in Editors :
              \/ \E d \in Docs : Open(e, d)
              \/ \E z \in Zones : Describe(e, z) \/ Clear(e, z)
              \/ Answer(e) \/ Lost(e)
  BY <1>2, <1>7 DEF Open, Describe, Clear, Answer, Lost
<1>8. CASE \/ CopyDocument \/ SubmitCommenter \/ SubmitComment \/ SubmitTag \/ SubmitFails
           \/ Review \/ Flag \/ UNCHANGED vars
  BY <1>2, <1>8
     DEF CopyDocument, SubmitCommenter, SubmitComment, SubmitTag, SubmitFails, Review, Flag, vars
<1> QED BY <1>4, <1>5, <1>6, <1>7, <1>8, StepCases DEF OtherStep

LEMMA EntitiesStep ==
    ASSUME Shapes, [Next]_vars PROVE EntitiesShape'
<1>0. /\ person \in Row \cup {Null}
      /\ DOMAIN tags \subseteq Texts /\ \A t \in DOMAIN tags : tags[t] \in Row
  BY DEF Shapes, EntitiesShape
<1>1. \A text \in Texts : NewRow(text) \in Row
  BY DEF NewRow, Row
<1>2. ASSUME NEW row \in Row, NEW text \in Texts, NEW status \in Statuses
      PROVE  /\ [row EXCEPT !.text = text] \in Row /\ [row EXCEPT !.score = text] \in Row
             /\ [row EXCEPT !.status = status] \in Row
  BY DEF Row
<1>3. CASE UNCHANGED <<person, tags>>
  BY <1>0, <1>3 DEF EntitiesShape
<1>4. CASE SubmitCommenter
  <2>1. PICK f \in Forms : person' = IF person = Null THEN NewRow(f.name)
                                     ELSE [person EXCEPT !.text = f.name]
    BY <1>4 DEF SubmitCommenter
  <2>2. f.name \in Texts
    BY ConstantsOK
  <2>3. tags' = tags
    BY <1>4 DEF SubmitCommenter
  <2>4. person' \in Row
    <3>1. CASE person = Null
      BY <1>1, <2>1, <2>2, <3>1
    <3>2. CASE person # Null
      BY <1>0, <2>1, <2>2, <3>2 DEF Row
    <3> QED BY <3>1, <3>2
  <2> QED BY <1>0, <2>3, <2>4 DEF EntitiesShape
<1>5. CASE SubmitTag
  <2> DEFINE g == [t \in {form.tag} |-> NewRow(t)]
             h == With(tags, g)
  <2>1. form.tag \in Texts
    BY <1>5 DEF SubmitTag, Shapes, FormShape, Submission
  <2>2. DOMAIN g = {form.tag} /\ \A t \in DOMAIN g : g[t] \in Row
    BY <1>1, <2>1
  <2> HIDE DEF g
  <2>3. DOMAIN h \subseteq Texts /\ \A t \in DOMAIN h : h[t] \in Row
    BY <1>0, <2>1, <2>2 DEF With
  <2>4. tags' = h /\ person' = person
    BY <1>5 DEF SubmitTag, g
  <2> HIDE DEF h
  <2> QED BY <1>0, <2>3, <2>4 DEF EntitiesShape
<1>6. CASE RunTask
  <2>1. PICK k \in DOMAIN tasks :
           /\ person' = IF tasks[k].kind = "commenter" /\ person # Null
                        THEN [person EXCEPT !.score = tasks[k].text] ELSE person
           /\ tags' = IF tasks[k].kind = "tag"
                      THEN [tags EXCEPT ![tasks[k].key].score = tasks[k].text] ELSE tags
    BY <1>6 DEF RunTask, ScoreFor
  <2>2. tasks[k].text \in Texts
    <3>1. tasks[k] \in Task
      BY ElementOfSeq, LenProperties DEF Shapes, TasksShape
    <3> QED BY <3>1 DEF Task
  <2>3. person' \in Row \cup {Null}
    <3>1. CASE person = Null
      BY <1>0, <2>1, <3>1
    <3>2. CASE person # Null
      BY <1>0, <2>1, <2>2, <3>2 DEF Row
    <3> QED BY <3>1, <3>2
  <2>4. DOMAIN tags' = DOMAIN tags /\ \A t \in DOMAIN tags : tags'[t] \in Row
    <3>1. CASE tasks[k].kind = "tag"
      <4>1. \A t \in DOMAIN tags :
               tags'[t] = IF t = tasks[k].key THEN [tags[t] EXCEPT !.score = tasks[k].text]
                          ELSE tags[t]
        BY <2>1, <3>1
      <4>2. DOMAIN tags' = DOMAIN tags
        BY <2>1, <3>1
      <4> QED BY <1>0, <2>2, <4>1, <4>2 DEF Row
    <3>2. CASE tasks[k].kind # "tag"
      BY <1>0, <2>1, <3>2
    <3> QED BY <3>1, <3>2
  <2> QED BY <1>0, <2>3, <2>4 DEF EntitiesShape
<1>7. CASE Review
  <2>1. PICK status \in Statuses :
           \/ UNCHANGED <<person, tags>>
           \/ person # Null /\ person' = [person EXCEPT !.status = status] /\ tags' = tags
           \/ /\ \E t \in DOMAIN tags : tags' = [tags EXCEPT ![t].status = status]
              /\ person' = person
    BY <1>7 DEF Review
  <2>2. CASE person # Null /\ person' = [person EXCEPT !.status = status] /\ tags' = tags
    <3>1. person' \in Row
      BY <1>0, <2>2 DEF Row
    <3> QED BY <1>0, <2>2, <3>1 DEF EntitiesShape
  <2>3. ASSUME NEW t \in DOMAIN tags, tags' = [tags EXCEPT ![t].status = status],
               person' = person
        PROVE  EntitiesShape'
    <3>1. /\ DOMAIN tags' = DOMAIN tags
          /\ \A u \in DOMAIN tags : tags'[u] = IF u = t THEN [tags[t] EXCEPT !.status = status]
                                                ELSE tags[u]
      BY <2>3
    <3>2. [tags[t] EXCEPT !.status = status] \in Row
      BY <1>0 DEF Row
    <3> QED BY <1>0, <2>3, <3>1, <3>2 DEF EntitiesShape
  <2> QED BY <1>3, <2>1, <2>2, <2>3
<1>8. CASE \E e \in Editors :
              \/ \E d \in Docs : Open(e, d)
              \/ \E z \in Zones : Describe(e, z) \/ Clear(e, z)
              \/ Put(e) \/ Answer(e) \/ Lost(e)
  BY <1>3, <1>8 DEF Open, Describe, Clear, Put, Answer, Lost
<1>9. CASE CopyDocument \/ SubmitComment \/ SubmitEnds \/ SubmitFails \/ Flag \/ UNCHANGED vars
  BY <1>3, <1>9 DEF CopyDocument, SubmitComment, SubmitEnds, SubmitFails, Flag, vars
<1> QED BY <1>4, <1>5, <1>6, <1>7, <1>8, <1>9 DEF Next

LEMMA VersionsStep ==
    ASSUME Shapes, [Next]_vars
    PROVE  /\ VersionsShape'
           /\ \A d \in Docs : version'[d] >= version[d]
<1>0. /\ done \in [writes : 0..MaxWrites, reviews : Nat] /\ version \in [Docs -> Nat]
      /\ \A d \in Docs : version[d] <= 1 + done.writes
  BY DEF Shapes, VersionsShape
<1> DEFINE Good == VersionsShape' /\ \A d \in Docs : version'[d] >= version[d]
<1>1. ASSUME version' = version,
             \/ done' = done
             \/ done' = [done EXCEPT !.reviews = @ + 1]
             \/ done.writes < MaxWrites /\ done' = [done EXCEPT !.writes = @ + 1]
      PROVE  Good
  <2>1. done' \in [writes : 0..MaxWrites, reviews : Nat] /\ done'.writes >= done.writes
    BY <1>0, <1>1, Numbers
  <2> QED BY <1>0, <1>1, <2>1, Numbers DEF VersionsShape
<1>2. ASSUME NEW d \in Docs, NEW n \in Nat, n >= version[d], n <= version[d] + 1,
             version' = [version EXCEPT ![d] = n],
             done.writes < MaxWrites, done' = [done EXCEPT !.writes = @ + 1]
      PROVE  Good
  <2>1. done' \in [writes : 0..MaxWrites, reviews : Nat] /\ done'.writes = done.writes + 1
    BY <1>0, <1>2, Numbers
  <2>2. version' \in [Docs -> Nat] /\ \A x \in Docs : version'[x] = IF x = d THEN n ELSE version[x]
    BY <1>0, <1>2
  <2>3. ASSUME NEW x \in Docs
        PROVE  version'[x] <= 1 + done'.writes /\ version'[x] >= version[x]
    <3>1. /\ version[x] \in Nat /\ version[x] <= 1 + done.writes /\ version[d] \in Nat
          /\ done.writes \in Nat /\ version[d] <= 1 + done.writes
      BY <1>0, Numbers
    <3> QED BY <1>2, <2>1, <2>2, <3>1
  <2> QED BY <2>1, <2>2, <2>3 DEF VersionsShape
<1>3. ASSUME NEW e \in Editors, Put(e) PROVE Good
  <2> DEFINE d == views[e].doc
  <2>1. /\ version' = [version EXCEPT ![d] = version[d] + 1]
        /\ done.writes < MaxWrites /\ done' = [done EXCEPT !.writes = @ + 1]
    BY <1>3 DEF Put
  <2>2. d \in Docs
    BY DEF Shapes, ViewsShape, View
  <2>3. version[d] + 1 \in Nat /\ version[d] + 1 >= version[d] /\ version[d] + 1 <= version[d] + 1
    BY <1>0, <2>2
  <2> HIDE DEF d, Good
  <2> QED BY <1>2, <2>1, <2>2, <2>3
<1>4. CASE CopyDocument
  <2>1. /\ version' = [version EXCEPT ![2] = 1] /\ version[2] = 0
        /\ done.writes < MaxWrites /\ done' = [done EXCEPT !.writes = @ + 1]
    BY <1>4 DEF CopyDocument
  <2>2. 2 \in Docs /\ 1 \in Nat /\ 1 >= version[2] /\ 1 <= version[2] + 1
    BY <2>1, Numbers
  <2> QED BY <1>2, <2>1, <2>2
<1>5. CASE SubmitCommenter
  <2>1. version' = version /\ done.writes < MaxWrites /\ done' = [done EXCEPT !.writes = @ + 1]
    BY <1>5 DEF SubmitCommenter
  <2> QED BY <1>1, <2>1
<1>6. CASE Review \/ Flag
  <2>1. version' = version /\ done' = [done EXCEPT !.reviews = @ + 1]
    BY <1>6 DEF Review, Flag
  <2> QED BY <1>1, <2>1
<1>7. CASE \E e \in Editors :
              \/ \E d \in Docs : Open(e, d)
              \/ \E z \in Zones : Describe(e, z) \/ Clear(e, z)
              \/ Answer(e) \/ Lost(e)
  <2>1. version' = version /\ done' = done
    BY <1>7 DEF Open, Describe, Clear, Answer, Lost
  <2> QED BY <1>1, <2>1
<1>8. CASE SubmitComment \/ SubmitTag \/ SubmitEnds \/ SubmitFails \/ RunTask \/ UNCHANGED vars
  <2>1. version' = version /\ done' = done
    BY <1>8 DEF SubmitComment, SubmitTag, SubmitEnds, SubmitFails, RunTask, vars
  <2> QED BY <1>1, <2>1
<1> QED BY <1>3, <1>4, <1>5, <1>6, <1>7, <1>8 DEF Next

LEMMA FormStep ==
    ASSUME Shapes, Known, [Next]_vars PROVE FormShape'
<1>0. nextId' >= nextId /\ nextId' \in Nat /\ nextId \in Nat
  BY IdsStep, Numbers DEF Shapes, RowsShape
<1>1. form # Null => /\ form \in Submission /\ form.id < nextId /\ form.id \in Nat
                     /\ form.stage = "tag" => form.tag # Null
  BY Numbers DEF Shapes, FormShape, Submission
<1>2. CASE form' = form
  BY <1>0, <1>1, <1>2 DEF FormShape
<1>3. CASE form' = Null
  BY <1>3 DEF FormShape
<1>4. CASE SubmitCommenter
  <2>1. PICK f \in Forms, d \in Docs \cup {Null} :
           form' = [text |-> f.text, name |-> f.name, tag |-> f.tag,
                    stage |-> "comment", id |-> 0, doc |-> d]
    BY <1>4 DEF SubmitCommenter
  <2>2. f.text \in Texts /\ f.name \in Texts /\ f.tag \in Texts \cup {Null}
    BY ConstantsOK
  <2>3. 0 \in 0..MaxIds /\ 0 < nextId
    BY Numbers DEF Shapes, RowsShape
  <2>4. form' \in Submission /\ form'.id = 0 /\ form'.stage = "comment"
    BY <2>1, <2>2, <2>3 DEF Submission
  <2> QED BY <1>0, <2>3, <2>4 DEF FormShape
<1>5. CASE SubmitComment
  <2>1. /\ form # Null /\ nextId \in 1..MaxIds /\ nextId' = nextId + 1
        /\ form' = [form EXCEPT !.stage = IF form.tag = Null THEN "end" ELSE "tag", !.id = nextId]
    BY <1>5 DEF SubmitComment, Ids
  <2>2. nextId \in 0..MaxIds
    BY <2>1, Numbers
  <2>3. /\ form' \in Submission /\ form'.id = nextId
        /\ form'.stage = "tag" => form.tag # Null
        /\ form'.tag = form.tag
    BY <1>1, <2>1, <2>2 DEF Submission
  <2> QED BY <1>0, <2>1, <2>3 DEF FormShape
<1>6. CASE SubmitTag
  <2>1. form # Null /\ form' = [form EXCEPT !.stage = "end"]
    BY <1>6 DEF SubmitTag
  <2>2. form' \in Submission /\ form'.id = form.id /\ form'.stage = "end"
    BY <1>1, <2>1 DEF Submission
  <2> QED BY <1>0, <1>1, <2>1, <2>2 DEF FormShape
<1>7. CASE \E e \in Editors :
              \/ \E d \in Docs : Open(e, d)
              \/ \E z \in Zones : Describe(e, z) \/ Clear(e, z)
              \/ Put(e) \/ Answer(e) \/ Lost(e)
  BY <1>2, <1>7 DEF Open, Describe, Clear, Put, Answer, Lost
<1>8. CASE SubmitEnds \/ SubmitFails
  BY <1>3, <1>8 DEF SubmitEnds, SubmitFails
<1>9. CASE CopyDocument \/ RunTask \/ Review \/ Flag \/ UNCHANGED vars
  BY <1>2, <1>9 DEF CopyDocument, RunTask, Review, Flag, vars
<1> QED BY <1>4, <1>5, <1>6, <1>7, <1>8, <1>9 DEF Next

(* What the server sends of a district is its one comment. *)
LEMMA ServerListFacts ==
    ASSUME RowsShape, Single, NEW d \in Docs
    PROVE  /\ ServerList(d) \in [Zones -> Entry \cup {Null}]
           /\ \A z \in Zones : ServerList(d)[z] # Null =>
                 \E i \in Scoped(d) :
                     /\ comments[i].zone = z
                     /\ ServerList(d)[z] = [id |-> i, text |-> comments[i].text]
<1>1. ASSUME NEW z \in Zones
      PROVE  \/ ServerList(d)[z] = Null
             \/ \E i \in Scoped(d) :
                   /\ comments[i].zone = z
                   /\ ServerList(d)[z] = [id |-> i, text |-> comments[i].text]
  <2> DEFINE there == {i \in Scoped(d) : comments[i].zone = z}
  <2>1. ServerList(d)[z] = IF there = {} THEN Null
                           ELSE [id |-> Min(there), text |-> comments[Min(there)].text]
    BY DEF ServerList
  <2>2. CASE there = {}
    BY <2>1, <2>2
  <2>3. CASE there # {}
    <3>1. PICK i : i \in there
      BY <2>3
    <3>2. there = {i}
      <4>1. \A j \in there : j = i
        BY <3>1 DEF Single, Scoped, OfDocument
      <4> QED BY <3>1, <4>1
    <3>3. i \in Nat
      BY <3>1, Numbers DEF Scoped, OfDocument, RowsShape
    <3>4. Min({i}) = i
      BY <3>3 DEF Min
    <3>5. i \in Scoped(d) /\ comments[i].zone = z
      BY <3>1
    <3>6. Min(there) = i
      BY <3>2, <3>4
    <3> QED BY <2>1, <2>3, <3>5, <3>6
  <2> QED BY <2>2, <2>3
<1>2. ASSUME NEW i \in Scoped(d)
      PROVE  [id |-> i, text |-> comments[i].text] \in Entry
  <2>1. i \in DOMAIN comments /\ comments[i] \in CommentRow
    BY DEF Scoped, OfDocument, RowsShape
  <2>2. i \in 0..MaxIds
    BY <2>1, Numbers DEF RowsShape
  <2>3. comments[i].text \in Texts
    BY <2>1 DEF CommentRow
  <2> QED BY <2>2, <2>3 DEF Entry
<1>3. \A z \in Zones : ServerList(d)[z] \in Entry \cup {Null}
  BY <1>1, <1>2
<1>4. DOMAIN ServerList(d) = Zones /\ ServerList(d) = [z \in Zones |-> ServerList(d)[z]]
  BY DEF ServerList
<1> QED BY <1>1, <1>3, <1>4

(* What a browser may hold of one document. *)
Fits(e) ==
    \A z \in Zones :
        LET n == views[e].list[z]
        IN  n # Null => /\ n.id < nextId
                        /\ n.id \in DOMAIN comments =>
                              comments[n.id].doc = views[e].doc /\ comments[n.id].zone = z

LEMMA FitsKnown == Known <=> \A e \in Editors : Fits(e)
BY DEF Known, Fits

(* The list of one browser changes, and the rows do not. *)
LEMMA OneView ==
    ASSUME Shapes, Known, NEW e \in Editors, NEW v \in View, views' = [views EXCEPT ![e] = v],
           UNCHANGED <<comments, nextId>>,
           \A z \in Zones :
               LET n == v.list[z]
               IN  n # Null => /\ n.id < nextId
                               /\ n.id \in DOMAIN comments =>
                                     comments[n.id].doc = v.doc /\ comments[n.id].zone = z
    PROVE  ViewsShape' /\ Known'
<1>1. views \in [Editors -> View]
  BY DEF Shapes, ViewsShape
<1>2. /\ views' \in [Editors -> View] /\ views'[e] = v
      /\ \A x \in Editors : x # e => views'[x] = views[x]
  BY <1>1
<1>3. ASSUME NEW x \in Editors PROVE Fits(x)'
  <2>1. CASE x = e
    BY <1>2, <2>1 DEF Fits
  <2>2. CASE x # e
    <3>1. Fits(x)
      BY FitsKnown
    <3> QED BY <1>2, <2>2, <3>1 DEF Fits
  <2> QED BY <2>1, <2>2
<1>4. Known'
  BY <1>3 DEF Known, Fits
<1> QED BY <1>2, <1>4 DEF ViewsShape

(* The lists stay what they are whatever happens to the rows. *)
LEMMA ListsStay ==
    ASSUME Shapes, Known, [Next]_vars,
           \A e \in Editors : views'[e].doc = views[e].doc /\ views'[e].list = views[e].list
    PROVE  Known'
<1>0. /\ nextId' >= nextId /\ nextId' \in Nat /\ nextId \in Nat
  BY IdsStep, Numbers DEF Shapes, RowsShape
<1>1. \A i \in DOMAIN comments' :
         \/ /\ i \in DOMAIN comments
            /\ comments'[i].doc = comments[i].doc /\ comments'[i].zone = comments[i].zone
         \/ i >= nextId /\ i \notin DOMAIN comments
  BY PlaceStep
<1>2. ASSUME NEW e \in Editors, NEW z \in Zones, views[e].list[z] # Null
      PROVE  LET n == views[e].list[z]
             IN  /\ n.id < nextId'
                 /\ n.id \in DOMAIN comments' =>
                       comments'[n.id].doc = views[e].doc /\ comments'[n.id].zone = z
  <2> DEFINE n == views[e].list[z]
  <2>1. n.id \in Nat
    <3>1. n \in Entry
      BY <1>2 DEF Shapes, ViewsShape, View
    <3> QED BY <3>1, Numbers DEF Entry
  <2>2. n.id < nextId /\ (n.id \in DOMAIN comments =>
                             comments[n.id].doc = views[e].doc /\ comments[n.id].zone = z)
    BY <1>2 DEF Known
  <2> HIDE DEF n
  <2>3. n.id < nextId'
    BY <1>0, <2>1, <2>2
  <2>4. n.id \in DOMAIN comments' =>
           comments'[n.id].doc = views[e].doc /\ comments'[n.id].zone = z
    BY <1>0, <1>1, <2>1, <2>2
  <2> QED BY <2>3, <2>4 DEF n
<1> QED BY <1>2 DEF Known

LEMMA ViewsStep ==
    ASSUME Shapes, Single, Known, "uuid" \notin Allowed, [Next]_vars
    PROVE  ViewsShape' /\ Known'
<1>0. /\ views \in [Editors -> View] /\ nextId \in Nat \ {0}
      /\ RowsShape /\ DOMAIN comments \subseteq 1..(nextId - 1)
  BY Numbers DEF Shapes, ViewsShape, RowsShape
<1>1. ASSUME views' = views PROVE ViewsShape' /\ Known'
  BY <1>0, <1>1, ListsStay DEF ViewsShape
<1>2. ASSUME NEW d \in Docs, NEW z \in Zones, ServerList(d)[z] # Null
      PROVE  LET n == ServerList(d)[z]
             IN  /\ n.id < nextId
                 /\ comments[n.id].doc = d /\ comments[n.id].zone = z
  <2>1. PICK i \in Scoped(d) : /\ comments[i].zone = z
                              /\ ServerList(d)[z] = [id |-> i, text |-> comments[i].text]
    BY <1>0, <1>2, ServerListFacts
  <2>2. i \in DOMAIN comments /\ comments[i].doc = d
    BY DEF Scoped, OfDocument
  <2>3. i < nextId
    BY <1>0, <2>2
  <2> QED BY <2>1, <2>2, <2>3
<1>3. ASSUME NEW e \in Editors, NEW d \in Docs, Open(e, d) PROVE ViewsShape' /\ Known'
  <2> DEFINE v == [stage |-> "open", doc |-> d, known |-> version[d], list |-> ServerList(d)]
  <2>1. views' = [views EXCEPT ![e] = v] /\ UNCHANGED <<comments, nextId>>
    BY <1>3 DEF Open
  <2>2. v \in View
    <3>1. version[d] \in Nat
      BY DEF Shapes, VersionsShape
    <3>2. ServerList(d) \in [Zones -> Entry \cup {Null}]
      BY <1>0, ServerListFacts
    <3> QED BY <3>1, <3>2 DEF View
  <2>3. v.doc = d /\ v.list = ServerList(d)
    OBVIOUS
  <2> HIDE DEF v
  <2>4. ASSUME NEW z \in Zones, v.list[z] # Null
        PROVE  /\ v.list[z].id < nextId
               /\ v.list[z].id \in DOMAIN comments =>
                     comments[v.list[z].id].doc = v.doc /\ comments[v.list[z].id].zone = z
    BY <1>2, <2>3, <2>4
  <2> QED BY <2>1, <2>2, <2>4, OneView
<1>4. ASSUME NEW e \in Editors, NEW z \in Zones, Describe(e, z) PROVE ViewsShape' /\ Known'
  <2> DEFINE old == views[e].list[z]
  <2>1. PICK text \in Texts, temp \in TempIds :
           views' = [views EXCEPT ![e].list[z] =
                        [id |-> IF @ = Null THEN temp ELSE @.id, text |-> text]]
    BY <1>4 DEF Describe
  <2> DEFINE n == [id |-> IF old = Null THEN temp ELSE old.id, text |-> text]
             v == [views[e] EXCEPT !.list = [views[e].list EXCEPT ![z] = n]]
  <2>2. views' = [views EXCEPT ![e] = v]
    BY <2>1
  <2>3. temp = 0
    BY DEF TempIds
  <2>4. views[e] \in View /\ views[e].list \in [Zones -> Entry \cup {Null}]
    BY <1>0 DEF View
  <2>5. n \in Entry
    <3>1. CASE old = Null
      <4>1. n = [id |-> 0, text |-> text] /\ 0 \in 0..MaxIds
        BY <2>3, <3>1, Numbers
      <4> QED BY <4>1 DEF Entry
    <3>2. CASE old # Null
      <4>1. old \in Entry /\ n = [id |-> old.id, text |-> text]
        BY <2>4, <3>2
      <4> QED BY <4>1 DEF Entry
    <3> QED BY <3>1, <3>2
  <2>6. n.id = IF old = Null THEN 0 ELSE old.id
    BY <2>3
  <2> HIDE DEF n
  <2>7. /\ v.doc = views[e].doc
        /\ \A y \in Zones : v.list[y] = IF y = z THEN n ELSE views[e].list[y]
    BY <2>4 DEF View
  <2>8. v \in View
    BY <2>4, <2>5 DEF View
  <2> HIDE DEF v
  <2>9. UNCHANGED <<comments, nextId>>
    BY <1>4 DEF Describe
  <2>10. ASSUME NEW y \in Zones, v.list[y] # Null
         PROVE  /\ v.list[y].id < nextId
                /\ v.list[y].id \in DOMAIN comments =>
                      comments[v.list[y].id].doc = v.doc /\ comments[v.list[y].id].zone = y
    <3>1. CASE y # z
      BY <2>7, <2>10, <3>1 DEF Known
    <3>2. CASE y = z /\ old # Null
      <4>1. v.list[y].id = old.id
        BY <2>6, <2>7, <3>2
      <4> QED BY <2>7, <3>2, <4>1 DEF Known
    <3>3. CASE y = z /\ old = Null
      <4>1. v.list[y].id = 0
        BY <2>6, <2>7, <3>3
      <4> QED BY <1>0, <4>1
    <3> QED BY <3>1, <3>2, <3>3
  <2> QED BY <2>2, <2>8, <2>9, <2>10, OneView
<1>5. ASSUME NEW e \in Editors, NEW z \in Zones, Clear(e, z) PROVE ViewsShape' /\ Known'
  <2> DEFINE v == [views[e] EXCEPT !.list = [views[e].list EXCEPT ![z] = Null]]
  <2>1. views' = [views EXCEPT ![e] = v] /\ UNCHANGED <<comments, nextId>>
    BY <1>5 DEF Clear
  <2>2. views[e] \in View /\ views[e].list \in [Zones -> Entry \cup {Null}]
    BY <1>0 DEF View
  <2>3. /\ v.doc = views[e].doc
        /\ \A y \in Zones : v.list[y] = IF y = z THEN Null ELSE views[e].list[y]
    BY <2>2 DEF View
  <2>4. v \in View
    BY <2>2 DEF View
  <2> HIDE DEF v
  <2>5. \A y \in Zones : v.list[y] # Null => v.list[y] = views[e].list[y]
    BY <2>3
  <2>6. ASSUME NEW y \in Zones, v.list[y] # Null
        PROVE  /\ v.list[y].id < nextId
               /\ v.list[y].id \in DOMAIN comments =>
                     comments[v.list[y].id].doc = v.doc /\ comments[v.list[y].id].zone = y
    BY <2>3, <2>5, <2>6 DEF Known
  <2> QED BY <2>1, <2>4, <2>6, OneView
<1>6. ASSUME NEW e \in Editors, Put(e) PROVE ViewsShape' /\ Known'
  <2> DEFINE k == version[views[e].doc] + 1
             v == [views[e] EXCEPT !.stage = "sent", !.known = k]
  <2>1. views' = [views EXCEPT ![e] = v]
    BY <1>6 DEF Put
  <2>2. views[e] \in View /\ k \in Nat
    BY <1>0 DEF View, Shapes, VersionsShape
  <2> HIDE DEF k
  <2>3. v \in View /\ v.doc = views[e].doc /\ v.list = views[e].list
    BY <2>2 DEF View
  <2> HIDE DEF v
  <2>4. /\ views' \in [Editors -> View]
        /\ \A x \in Editors : views'[x].doc = views[x].doc /\ views'[x].list = views[x].list
    BY <1>0, <2>1, <2>3
  <2> QED BY <2>4, ListsStay DEF ViewsShape
<1>7. ASSUME NEW e \in Editors, Answer(e) PROVE ViewsShape' /\ Known'
  <2> DEFINE d == views[e].doc
             l == IF Scoped(d) = {} THEN views[e].list ELSE ServerList(d)
             v == [views[e] EXCEPT !.stage = "open", !.list = l]
  <2>1. views' = [views EXCEPT ![e] = v] /\ UNCHANGED <<comments, nextId>>
    BY <1>7 DEF Answer
  <2>2. views[e] \in View /\ d \in Docs /\ views[e].list \in [Zones -> Entry \cup {Null}]
    BY <1>0 DEF View
  <2>3. ServerList(d) \in [Zones -> Entry \cup {Null}]
    BY <1>0, <2>2, ServerListFacts
  <2>4. l \in [Zones -> Entry \cup {Null}]
    BY <2>2, <2>3
  <2>5. ASSUME NEW z \in Zones, l[z] # Null
        PROVE  /\ l[z].id < nextId
               /\ l[z].id \in DOMAIN comments =>
                     comments[l[z].id].doc = d /\ comments[l[z].id].zone = z
    <3>1. CASE Scoped(d) = {}
      BY <2>5, <3>1 DEF Known
    <3>2. CASE Scoped(d) # {}
      <4>1. l[z] = ServerList(d)[z]
        BY <3>2
      <4> HIDE DEF l, d
      <4> QED BY <1>2, <2>2, <2>5, <4>1
    <3> QED BY <3>1, <3>2
  <2> HIDE DEF l
  <2>6. v \in View /\ v.doc = d /\ v.list = l
    BY <2>2, <2>4 DEF View
  <2> HIDE DEF v, d
  <2> QED BY <2>1, <2>5, <2>6, OneView
<1>8. ASSUME NEW e \in Editors, Lost(e) PROVE ViewsShape' /\ Known'
  <2> DEFINE v == [views[e] EXCEPT !.stage = "open", !.known = 0]
  <2>1. views' = [views EXCEPT ![e] = v]
    BY <1>8 DEF Lost
  <2>2. views[e] \in View
    BY <1>0
  <2>3. v \in View /\ v.doc = views[e].doc /\ v.list = views[e].list
    BY <2>2 DEF View
  <2> HIDE DEF v
  <2>4. /\ views' \in [Editors -> View]
        /\ \A x \in Editors : views'[x].doc = views[x].doc /\ views'[x].list = views[x].list
    BY <1>0, <2>1, <2>3
  <2> QED BY <2>4, ListsStay DEF ViewsShape
<1>9. CASE \/ CopyDocument \/ SubmitCommenter \/ SubmitComment \/ SubmitTag \/ SubmitEnds
           \/ SubmitFails \/ RunTask \/ Review \/ Flag \/ UNCHANGED vars
  BY <1>1, <1>9 DEF CopyDocument, SubmitCommenter, SubmitComment, SubmitTag, SubmitEnds,
                    SubmitFails, RunTask, Review, Flag, vars
<1> QED BY <1>3, <1>4, <1>5, <1>6, <1>7, <1>8, <1>9 DEF Next

(* What was sent about a form is about a document that is there, as is     *)
(* every other row.                                                        *)
LEMMA CreatedStep ==
    ASSUME Shapes, Created, Known, [Next]_vars PROVE Created'
<1>0. /\ version \in [Docs -> Nat] /\ version' \in [Docs -> Nat]
      /\ \A d \in Docs : version'[d] >= version[d]
      /\ RowsShape' /\ FormShape'
  BY VersionsStep, RowsStep, FormStep DEF Shapes, VersionsShape
<1>1. \A d \in Docs : version[d] > 0 => version'[d] > 0
  BY <1>0
<1>2. version'[1] > 0
  BY <1>1, Numbers DEF Created
<1>3. ASSUME NEW e \in Editors PROVE version'[views'[e].doc] > 0
  <2>0. views \in [Editors -> View] /\ \A x \in Editors : views[x].doc \in Docs
    BY DEF Shapes, ViewsShape, View
  <2>1. CASE views'[e].doc = views[e].doc
    BY <1>1, <2>0, <2>1 DEF Created
  <2>2. ASSUME NEW x \in Editors, NEW d \in Docs, Open(x, d) PROVE version'[views'[e].doc] > 0
    <3>1. /\ version[d] > 0
          /\ views' = [views EXCEPT ![x] = [stage |-> "open", doc |-> d, known |-> version[d],
                                            list |-> ServerList(d)]]
      BY <2>2 DEF Open
    <3>2. views'[e].doc = IF e = x THEN d ELSE views[e].doc
      BY <2>0, <3>1
    <3> QED BY <1>1, <2>0, <3>1, <3>2 DEF Created
  <2>3. ASSUME NEW x \in Editors,
               \/ \E z \in Zones : Describe(x, z) \/ Clear(x, z)
               \/ Put(x) \/ Answer(x) \/ Lost(x)
        PROVE  views'[e].doc = views[e].doc
    <3>1. views[x] \in View
      BY <2>0
    <3>2. CASE \E z \in Zones : Describe(x, z)
      BY <2>0, <3>1, <3>2 DEF Describe, View
    <3>3. CASE \E z \in Zones : Clear(x, z)
      BY <2>0, <3>1, <3>3 DEF Clear, View
    <3>4. CASE Put(x)
      BY <2>0, <3>1, <3>4 DEF Put, View
    <3>5. CASE Answer(x)
      BY <2>0, <3>1, <3>5 DEF Answer, View
    <3>6. CASE Lost(x)
      BY <2>0, <3>1, <3>6 DEF Lost, View
    <3> QED BY <2>3, <3>2, <3>3, <3>4, <3>5, <3>6
  <2>4. CASE \/ CopyDocument \/ SubmitCommenter \/ SubmitComment \/ SubmitTag \/ SubmitEnds
             \/ SubmitFails \/ RunTask \/ Review \/ Flag \/ UNCHANGED vars
    <3>1. views' = views
      BY <2>4 DEF CopyDocument, SubmitCommenter, SubmitComment, SubmitTag, SubmitEnds,
                  SubmitFails, RunTask, Review, Flag, vars
    <3> QED BY <2>1, <3>1
  <2> QED BY <2>1, <2>2, <2>3, <2>4 DEF Next
<1>4. ASSUME form' # Null PROVE form'.doc = Null \/ version'[form'.doc] > 0
  <2>0. form' # Null => form'.doc \in Docs \cup {Null}
    BY <1>0 DEF FormShape, Submission
  <2>1. ASSUME form # Null, form'.doc = form.doc PROVE form'.doc = Null \/ version'[form'.doc] > 0
    BY <1>1, <1>4, <2>0, <2>1 DEF Created
  <2>2. CASE SubmitCommenter
    <3>1. PICK f \in Forms,
               d \in {x \in Docs : "forms" \in Allowed /\ version[x] > 0} \cup {Null} :
             form' = [text |-> f.text, name |-> f.name, tag |-> f.tag,
                      stage |-> "comment", id |-> 0, doc |-> d]
      BY <2>2 DEF SubmitCommenter
    <3>2. form'.doc = d
      BY <3>1
    <3> QED BY <1>1, <3>2
  <2>3. CASE SubmitComment \/ SubmitTag
    <3>1. form # Null /\ form \in Submission
      BY <2>3 DEF SubmitComment, SubmitTag, Shapes, FormShape
    <3>2. form'.doc = form.doc
      BY <2>3, <3>1 DEF SubmitComment, SubmitTag, Submission
    <3> QED BY <2>1, <3>1, <3>2
  <2>4. CASE SubmitEnds \/ SubmitFails
    BY <1>4, <2>4 DEF SubmitEnds, SubmitFails
  <2>5. CASE form' = form
    BY <1>4, <2>1, <2>5
  <2>6. CASE \/ \E e \in Editors :
                   \/ \E d \in Docs : Open(e, d)
                   \/ \E z \in Zones : Describe(e, z) \/ Clear(e, z)
                   \/ Put(e) \/ Answer(e) \/ Lost(e)
             \/ CopyDocument \/ RunTask \/ Review \/ Flag \/ UNCHANGED vars
    BY <2>5, <2>6 DEF Open, Describe, Clear, Put, Answer, Lost, CopyDocument, RunTask, Review,
                      Flag, vars
  <2> QED BY <2>2, <2>3, <2>4, <2>6 DEF Next
<1>5. ASSUME NEW i \in DOMAIN comments'
      PROVE  comments'[i].doc = Null \/ version'[comments'[i].doc] > 0
  <2>0. comments'[i].doc \in Docs \cup {Null}
    BY <1>0 DEF RowsShape, CommentRow
  <2>1. CASE i \in DOMAIN comments /\ comments'[i].doc = comments[i].doc
    BY <1>1, <2>0, <2>1 DEF Created
  <2>2. CASE OtherStep
    BY <2>1, <2>2, OtherRows DEF Shapes, SameRows
  <2>3. ASSUME NEW e \in Editors, Put(e)
        PROVE  comments'[i].doc = Null \/ version'[comments'[i].doc] > 0
    <3> DEFINE d == views[e].doc
               list == views[e].list
    <3>1. PICK to : Synced(list, d, to)
      BY <2>3, PutRows DEF Shapes
    <3>2. list \in [Zones -> Entry \cup {Null}] /\ d \in Docs /\ InPlace(list, d)
      BY OpenInPlace DEF Shapes, ViewsShape, View
    <3>3. version[d] > 0
      BY DEF Created
    <3> HIDE DEF list, d
    <3>4. CASE i \in DOMAIN comments \ Existing(d)
      <4>1. comments'[i] = comments[i]
        BY <3>1, <3>4 DEF Synced
      <4> QED BY <2>1, <3>4, <4>1
    <3>5. CASE i \notin DOMAIN comments \ Existing(d)
      <4>1. PICK z \in Described(list) : i = to[z]
        BY <3>1, <3>5 DEF Synced
      <4>2. comments'[i].doc = d
        BY <3>1, <3>2, <4>1, SyncedRows DEF Shapes
      <4> QED BY <1>1, <3>2, <3>3, <4>2
    <3> QED BY <3>4, <3>5
  <2>4. CASE CopyDocument
    <3>1. version'[2] = 1
      BY <1>0, <2>4, Numbers DEF CopyDocument
    <3>2. MoreRows /\ \A j \in nextId..(nextId' - 1) : comments'[j].doc = 2
      BY <2>4, CopyRows DEF Shapes
    <3>3. \/ i \in DOMAIN comments /\ comments'[i] = comments[i]
          \/ i \in nextId..(nextId' - 1)
      BY <1>5, <3>2 DEF MoreRows
    <3> QED BY <2>1, <3>1, <3>2, <3>3
  <2>5. CASE SubmitComment
    <3>1. /\ MoreRows /\ nextId' = nextId + 1 /\ nextId \in Nat
          /\ comments'[nextId].doc = form.doc /\ form # Null
      BY <2>5, SubmitCommentRows, Numbers DEF Shapes, RowsShape, SubmitComment
    <3>2. (i \in DOMAIN comments /\ comments'[i] = comments[i]) \/ i = nextId
      BY <1>5, <3>1 DEF MoreRows
    <3>3. CASE i = nextId
      BY <1>1, <2>0, <3>1, <3>3 DEF Created
    <3> QED BY <2>1, <3>2, <3>3
  <2> QED BY <2>2, <2>3, <2>4, <2>5, StepCases
<1> QED BY <1>2, <1>3, <1>4, <1>5 DEF Created

LEMMA SingleStep ==
    ASSUME Shapes, Created, Single, Known, [Next]_vars PROVE Single'
<1>0. /\ nextId \in Nat /\ DOMAIN comments \subseteq 1..(nextId - 1)
      /\ RowsShape
  BY Numbers DEF Shapes, RowsShape
<1>1. CASE OtherStep
  BY <1>1, OtherRows DEF Shapes, SameRows, Single
<1>2. ASSUME NEW e \in Editors, Put(e) PROVE Single'
  <2> DEFINE d == views[e].doc
             list == views[e].list
  <2>1. PICK to : Synced(list, d, to)
    BY <1>2, PutRows DEF Shapes
  <2>2. list \in [Zones -> Entry \cup {Null}] /\ d \in Docs /\ InPlace(list, d)
    BY OpenInPlace DEF Shapes, ViewsShape, View
  <2> HIDE DEF list, d
  <2>3. ASSUME NEW i \in DOMAIN comments'
        PROVE  \/ i \in DOMAIN comments /\ comments'[i] = comments[i] /\ comments[i].doc # d
               \/ \E z \in Described(list) :
                     i = to[z] /\ comments'[i].doc = d /\ comments'[i].zone = z
    <3>1. CASE i \in DOMAIN comments \ Existing(d)
      BY <2>1, <3>1 DEF Synced, Existing, OfDocument
    <3>2. CASE i \notin DOMAIN comments \ Existing(d)
      <4>1. PICK z \in Described(list) : i = to[z]
        BY <2>1, <2>3, <3>2 DEF Synced
      <4> QED BY <1>0, <2>1, <2>2, <4>1, SyncedRows
    <3> QED BY <3>1, <3>2
  <2>4. ASSUME NEW i \in DOMAIN comments', NEW j \in DOMAIN comments',
               comments'[i].doc = comments'[j].doc, comments'[i].zone = comments'[j].zone,
               comments'[i].zone # 0
        PROVE  i = j
    <3>1. CASE i \in DOMAIN comments /\ comments'[i] = comments[i] /\ comments[i].doc # d
      <4>1. j \in DOMAIN comments /\ comments'[j] = comments[j]
        BY <2>3, <2>4, <3>1
      <4> QED BY <2>4, <3>1, <4>1 DEF Single
    <3>2. ASSUME NEW z \in Described(list), i = to[z], comments'[i].doc = d, comments'[i].zone = z
          PROVE  i = j
      BY <2>3, <2>4, <3>2
    <3> QED BY <2>3, <3>1, <3>2
  <2> QED BY <2>4 DEF Single
<1>3. CASE SubmitComment
  <2>1. /\ MoreRows /\ nextId' = nextId + 1 /\ comments'[nextId].zone = 0
    BY <1>3, SubmitCommentRows DEF Shapes
  <2>2. \A i \in DOMAIN comments' :
           (i \in DOMAIN comments /\ comments'[i] = comments[i]) \/ comments'[i].zone = 0
    BY <1>0, <2>1 DEF MoreRows
  <2> QED BY <2>2 DEF Single
<1>4. CASE CopyDocument
  <2> DEFINE ids == nextId..(nextId' - 1)
  <2>1. MoreRows
    BY <1>4, CopyRows DEF Shapes
  <2>2. PICK from \in [ids -> OfDocument(1)] :
           /\ \A i, j \in ids : from[i] = from[j] => i = j
           /\ \A i \in ids : comments'[i].doc = 2 /\ comments'[i].zone = comments[from[i]].zone
    BY <1>4, CopyRows DEF Shapes
  <2> HIDE DEF ids
  <2>3. \A i \in DOMAIN comments : comments[i].doc # 2
    <3>1. version[2] = 0
      BY <1>4 DEF CopyDocument
    <3> QED BY <3>1, Numbers DEF Created
  <2>4. \A i \in DOMAIN comments' :
           (i \in DOMAIN comments /\ comments'[i] = comments[i]) \/ i \in ids
    BY <2>1 DEF MoreRows, ids
  <2>5. \A i \in ids : from[i] \in DOMAIN comments /\ comments[from[i]].doc = 1
    BY DEF OfDocument
  <2> QED BY <2>2, <2>3, <2>4, <2>5 DEF Single
<1> QED BY <1>1, <1>2, <1>3, <1>4, StepCases

-----------------------------------------------------------------------------
(* The invariant holds, and TypeOK is a part of it *)

IInv == Shapes /\ Created /\ Single /\ Known

LEMMA InitIInv == Init => IInv
<1> SUFFICES ASSUME Init PROVE IInv
  OBVIOUS
<1>1. /\ comments = <<>> /\ DOMAIN comments = {} /\ person = Null
      /\ tags = <<>> /\ DOMAIN tags = {} /\ nextId = 1 /\ form = Null
      /\ tasks = <<>> /\ DOMAIN tasks = {}
      /\ done = [writes |-> 0, reviews |-> 0]
  BY DEF Init
<1>2. version \in [Docs -> {0, 1}] /\ version[1] = 1
  BY Numbers DEF Init
<1>3. /\ views \in [Editors -> View]
      /\ \A e \in Editors : views[e].doc = 1 /\ \A z \in Zones : views[e].list[z] = Null
  <2> DEFINE v == [stage |-> "closed", doc |-> 1, known |-> 0, list |-> [z \in Zones |-> Null]]
  <2>1. v \in View /\ v.doc = 1 /\ \A z \in Zones : v.list[z] = Null
    BY Numbers DEF View
  <2>2. views = [e \in Editors |-> v]
    BY DEF Init
  <2> HIDE DEF v
  <2> QED BY <2>1, <2>2
<1>4. RowsShape
  BY <1>1, Numbers DEF RowsShape
<1>5. TasksShape
  BY <1>1 DEF TasksShape
<1>6. EntitiesShape
  BY <1>1 DEF EntitiesShape
<1>7. VersionsShape
  <2>1. done \in [writes : 0..MaxWrites, reviews : Nat] /\ done.writes = 0
    BY <1>1, Numbers
  <2> QED BY <1>2, <2>1 DEF VersionsShape
<1>8. FormShape /\ ViewsShape
  BY <1>1, <1>3 DEF FormShape, ViewsShape
<1>9. Created
  BY <1>1, <1>2, <1>3 DEF Created
<1>10. Single
  BY <1>1 DEF Single
<1>11. Known
  BY <1>3 DEF Known
<1> QED BY <1>4, <1>5, <1>6, <1>7, <1>8, <1>9, <1>10, <1>11 DEF IInv, Shapes

LEMMA NextIInv ==
    ASSUME "uuid" \notin Allowed, IInv, [Next]_vars PROVE IInv'
<1>1. Shapes /\ Created /\ Single /\ Known
  BY DEF IInv
<1>2. RowsShape' /\ TasksShape' /\ EntitiesShape' /\ VersionsShape' /\ FormShape'
  BY <1>1, RowsStep, TasksStep, EntitiesStep, VersionsStep, FormStep
<1>3. ViewsShape' /\ Known'
  BY <1>1, ViewsStep
<1>4. Created' /\ Single'
  BY <1>1, CreatedStep, SingleStep
<1> QED BY <1>2, <1>3, <1>4 DEF IInv, Shapes

LEMMA AlwaysIInv ==
    ASSUME "uuid" \notin Allowed PROVE Spec => []IInv
<1>1. IInv /\ [Next]_vars => IInv'
  BY NextIInv
<1> QED BY InitIInv, <1>1, PTL DEF Spec

LEMMA IInvTypes == IInv => TypeOK
<1> SUFFICES ASSUME IInv PROVE TypeOK
  OBVIOUS
<1>0. Shapes /\ Single
  BY DEF IInv
<1>1. /\ DOMAIN comments \subseteq 1..(nextId - 1) /\ nextId \in 1..(MaxIds + 1)
      /\ Range(comments) \subseteq CommentRow
  BY <1>0 DEF Shapes, RowsShape, Range
<1>2. /\ person \in Row \cup {Null}
      /\ DOMAIN tags \subseteq Texts /\ Range(tags) \subseteq Row
  BY <1>0 DEF Shapes, EntitiesShape, Range
<1>3. version \in [Docs -> 0..(MaxWrites + 1)]
  <2>1. /\ version \in [Docs -> Nat] /\ done.writes \in 0..MaxWrites
        /\ \A d \in Docs : version[d] <= 1 + done.writes
    BY <1>0 DEF Shapes, VersionsShape
  <2>2. \A d \in Docs : version[d] \in 0..(MaxWrites + 1)
    BY <2>1, Numbers
  <2> QED BY <2>1, <2>2
<1>4. Range(tasks) \subseteq Task
  <2>1. \A k \in DOMAIN tasks : tasks[k] \in Task
    BY <1>0, ElementOfSeq, LenProperties DEF Shapes, TasksShape
  <2> QED BY <2>1 DEF Range
<1>5. \A e \in Editors : views[e].list \in [Zones -> Entry \cup {Null}]
  BY <1>0 DEF Shapes, ViewsShape, View
<1> QED BY <1>0, <1>1, <1>2, <1>3, <1>4, <1>5 DEF TypeOK, Single

(* Whatever browsers and the public send, as long as parseInt makes no     *)
(* number of a browser's own id: rows, tasks and lists keep their shape,   *)
(* no id is given twice and no two comments of a document describe one     *)
(* district, although nothing in the tables forbids a second one.          *)
THEOREM TypeCorrect ==
    ASSUME "uuid" \notin Allowed PROVE Spec => []TypeOK
BY AlwaysIInv, IInvTypes, PTL

-----------------------------------------------------------------------------
(* A save leaves what the browser shows *)

LEMMA PutExact ==
    ASSUME IInv, NEW e \in Editors, Put(e)
    PROVE  LET d == views[e].doc IN
           /\ Descriptions(d)' = Shown(views[e].list)
           /\ \A i \in DOMAIN comments :
                 comments[i].doc # d => i \in DOMAIN comments' /\ comments'[i] = comments[i]
<1> DEFINE d == views[e].doc
           list == views[e].list
<1>0. Shapes /\ Known /\ RowsShape
  BY DEF IInv, Shapes
<1>1. PICK to : Synced(list, d, to)
  BY <1>0, PutRows DEF Shapes
<1>2. list \in [Zones -> Entry \cup {Null}] /\ d \in Docs /\ InPlace(list, d)
  BY <1>0, OpenInPlace DEF Shapes, ViewsShape, View
<1>3. views'[e].doc = d
  <2>1. views \in [Editors -> View] /\ views[e] \in View
    BY <1>0 DEF Shapes, ViewsShape
  <2> QED BY <2>1 DEF Put, View
<1>4. Shown(list) = {<<z, list[z].text>> : z \in Described(list)}
  BY DEF Shown, Described
<1>5. Descriptions(d)' = {<<comments'[i].zone, comments'[i].text>> : i \in
                             {j \in DOMAIN comments' : comments'[j].doc = d /\ comments'[j].zone # 0}}
  <2>1. Scoped(d)' = {j \in DOMAIN comments' : comments'[j].doc = d /\ comments'[j].zone # 0}
    BY <1>3 DEF Scoped, OfDocument
  <2> QED BY <2>1 DEF Descriptions
<1> HIDE DEF d, list
<1>6. ASSUME NEW z \in Described(list)
      PROVE  /\ to[z] \in DOMAIN comments'
             /\ comments'[to[z]].doc = d /\ comments'[to[z]].zone = z
             /\ comments'[to[z]].text = list[z].text /\ z # 0
  <2>1. z # 0
    BY Numbers DEF Described
  <2>2. to[z] \in DOMAIN comments'
    BY <1>1 DEF Synced
  <2> QED BY <1>0, <1>1, <1>2, <2>1, <2>2, SyncedRows
<1>7. ASSUME NEW i \in DOMAIN comments', comments'[i].doc = d
      PROVE  \E z \in Described(list) : i = to[z]
  <2>1. ASSUME i \in DOMAIN comments \ Existing(d) PROVE FALSE
    BY <1>1, <1>7, <2>1 DEF Synced, Existing, OfDocument
  <2> QED BY <1>1, <1>7, <2>1 DEF Synced
<1> DEFINE scoped == {j \in DOMAIN comments' : comments'[j].doc = d /\ comments'[j].zone # 0}
           pairs  == {<<comments'[i].zone, comments'[i].text>> : i \in scoped}
           shown  == {<<z, list[z].text>> : z \in Described(list)}
<1>8. ASSUME NEW x \in pairs PROVE x \in shown
  <2>1. PICK i \in scoped : x = <<comments'[i].zone, comments'[i].text>>
    OBVIOUS
  <2>2. PICK z \in Described(list) : i = to[z]
    BY <1>7
  <2>3. x = <<z, list[z].text>>
    BY <1>6, <2>1, <2>2
  <2> QED BY <2>3
<1>9. ASSUME NEW x \in shown PROVE x \in pairs
  <2>1. PICK z \in Described(list) : x = <<z, list[z].text>>
    OBVIOUS
  <2>2. to[z] \in scoped
    BY <1>6
  <2>3. x = <<comments'[to[z]].zone, comments'[to[z]].text>>
    BY <1>6, <2>1
  <2> QED BY <2>2, <2>3
<1>10. pairs = shown
  BY <1>8, <1>9
<1>11. ASSUME NEW i \in DOMAIN comments, comments[i].doc # d
       PROVE  i \in DOMAIN comments' /\ comments'[i] = comments[i]
  <2>1. i \in DOMAIN comments \ Existing(d)
    BY <1>11 DEF Existing, OfDocument
  <2> QED BY <1>1, <2>1 DEF Synced
<1>12. Descriptions(d)' = Shown(list)
  BY <1>4, <1>5, <1>10
<1> QED BY <1>11, <1>12 DEF d, list

(* A save leaves on the server exactly the descriptions that the browser   *)
(* shows, one for one, and does not touch the comments of another          *)
(* document: _sync_scoped_comments updates, inserts and deletes just what  *)
(* differs.                                                                *)
THEOREM SavesExactly ==
    ASSUME "uuid" \notin Allowed PROVE Spec => SaveExact
<1>1. ASSUME IInv, [Next]_vars
      PROVE  [\A e \in Editors : Put(e) =>
                 LET d == views[e].doc IN
                 /\ Descriptions(d)' = Shown(views[e].list)
                 /\ \A i \in DOMAIN comments :
                       comments[i].doc # d => i \in DOMAIN comments' /\ comments'[i] = comments[i]]_vars
  BY <1>1, PutExact
<1> QED BY <1>1, AlwaysIInv, PTL DEF Spec, SaveExact

-----------------------------------------------------------------------------
(* What the public sees.  A score is that of the text beside it, or a      *)
(* scoring is under way, and the last of those that are scores that text.  *)

Scores(k, i) == tasks[k].kind = "comment" /\ tasks[k].key = i

SettledRow(i) ==
    /\ (\A k \in DOMAIN tasks : ~Scores(k, i)) => comments[i].score \in {Null, comments[i].text}
    /\ \A k \in DOMAIN tasks :
          Scores(k, i) /\ (\A l \in DOMAIN tasks : Scores(l, i) => l <= k)
             => tasks[k].text = comments[i].text

Settled == \A i \in DOMAIN comments : SettledRow(i)

(* The comment that a submission has inserted is scored with the text it   *)
(* has: a form's comment is in no browser's list.                          *)
FormOwn ==
    form # Null /\ form.stage # "comment" /\ form.id \in DOMAIN comments
       => comments[form.id].zone = 0 /\ comments[form.id].text = form.text

(* Tasks of other comments are added. *)
LEMMA OtherTasks ==
    ASSUME TasksShape, NEW q \in Seq(Task), tasks' = tasks \o q, NEW i, SettledRow(i),
           comments'[i].text = comments[i].text, comments'[i].score = comments[i].score,
           \A l \in DOMAIN q : ~(q[l].kind = "comment" /\ q[l].key = i)
    PROVE  SettledRow(i)'
<1>1. /\ \A k \in DOMAIN tasks : k \in DOMAIN tasks' /\ tasks'[k] = tasks[k]
      /\ \A k \in DOMAIN q : tasks'[Len(tasks) + k] = q[k]
      /\ \A k \in DOMAIN tasks' : k \in DOMAIN tasks \/ \E l \in DOMAIN q : k = Len(tasks) + l
  BY LongerTasks DEF TasksShape
<1>2. ASSUME NEW k \in DOMAIN tasks', Scores(k, i)'
      PROVE  k \in DOMAIN tasks /\ Scores(k, i) /\ tasks'[k] = tasks[k]
  BY <1>1, <1>2 DEF Scores
<1>3. \A k \in DOMAIN tasks : Scores(k, i) => k \in DOMAIN tasks' /\ Scores(k, i)'
  BY <1>1 DEF Scores
<1>4. (\A k \in DOMAIN tasks' : ~Scores(k, i)') => comments'[i].score \in {Null, comments'[i].text}
  BY <1>3 DEF SettledRow
<1>5. ASSUME NEW k \in DOMAIN tasks', Scores(k, i)',
             \A l \in DOMAIN tasks' : Scores(l, i)' => l <= k
      PROVE  tasks'[k].text = comments'[i].text
  BY <1>2, <1>3, <1>5 DEF SettledRow
<1> QED BY <1>4, <1>5 DEF SettledRow

(* Tasks are added, some of which score the comment's new text. *)
LEMMA OwnTasks ==
    ASSUME TasksShape, NEW q \in Seq(Task), tasks' = tasks \o q, NEW i,
           \E l \in DOMAIN q : q[l].kind = "comment" /\ q[l].key = i,
           \A l \in DOMAIN q : q[l].kind = "comment" /\ q[l].key = i => q[l].text = comments'[i].text
    PROVE  SettledRow(i)'
<1>0. /\ Len(tasks) \in Nat /\ DOMAIN tasks = 1..Len(tasks)
      /\ Len(q) \in Nat /\ DOMAIN q = 1..Len(q)
  BY LenProperties DEF TasksShape
<1>1. /\ \A k \in DOMAIN q : Len(tasks) + k \in DOMAIN tasks' /\ tasks'[Len(tasks) + k] = q[k]
      /\ \A k \in DOMAIN tasks' : k \in DOMAIN tasks \/ \E l \in DOMAIN q : k = Len(tasks) + l
  BY LongerTasks DEF TasksShape
<1>2. PICK m \in DOMAIN q : q[m].kind = "comment" /\ q[m].key = i
  OBVIOUS
<1>3. PICK n \in DOMAIN tasks' : n = Len(tasks) + m /\ Scores(n, i)'
  <2>1. Len(tasks) + m \in DOMAIN tasks' /\ tasks'[Len(tasks) + m] = q[m]
    BY <1>1
  <2> QED BY <1>2, <2>1 DEF Scores
<1>4. ASSUME NEW k \in DOMAIN tasks', Scores(k, i)',
             \A l \in DOMAIN tasks' : Scores(l, i)' => l <= k
      PROVE  tasks'[k].text = comments'[i].text
  <2>1. Len(tasks) + m <= k
    BY <1>3, <1>4
  <2>2. k \notin DOMAIN tasks
    BY <1>0, <1>2, <2>1
  <2>3. PICK l \in DOMAIN q : k = Len(tasks) + l
    BY <1>1, <2>2
  <2>4. tasks'[k] = q[l]
    BY <1>1, <2>3
  <2> QED BY <1>4, <2>4 DEF Scores
<1> QED BY <1>3, <1>4 DEF SettledRow

(* A comment is new, and nothing is scheduled for it. *)
LEMMA NewComments ==
    ASSUME Shapes, Settled, MoreRows, tasks' = tasks PROVE Settled'
<1>1. ASSUME NEW i \in DOMAIN comments PROVE SettledRow(i)'
  <2>1. comments'[i] = comments[i] /\ SettledRow(i)
    BY DEF MoreRows, Settled
  <2> QED BY <2>1 DEF SettledRow, Scores
<1>2. ASSUME NEW i \in nextId..(nextId' - 1) PROVE SettledRow(i)'
  <2>1. nextId \in Nat /\ i >= nextId /\ comments'[i].score = Null
    <3>1. nextId \in Nat
      BY Numbers DEF Shapes, RowsShape
    <3>2. nextId' \in Int
      BY <3>1, Numbers DEF MoreRows
    <3>3. i >= nextId
      BY <3>1, <3>2
    <3>4. comments'[i].score = Null
      BY Zenon DEF MoreRows
    <3> QED BY <3>1, <3>3, <3>4
  <2>2. ASSUME NEW k \in DOMAIN tasks PROVE ~Scores(k, i)
    <3>1. tasks[k] \in Task
      BY ElementOfSeq, LenProperties DEF Shapes, TasksShape
    <3>2. tasks[k].key \in Nat /\ (tasks[k].kind = "comment" => tasks[k].key < nextId)
      BY <3>1 DEF Task, Shapes, TasksShape
    <3> QED BY <2>1, <3>2 DEF Scores
  <2>3. \A k \in DOMAIN tasks' : ~Scores(k, i)'
    BY <2>2 DEF Scores
  <2> QED BY <2>1, <2>3 DEF SettledRow
<1> QED BY <1>1, <1>2 DEF Settled, MoreRows

(* The oldest task runs. *)
LEMMA RunSettles ==
    ASSUME "reordered" \notin Allowed, Shapes, Settled, RunTask PROVE Settled'
<1>1. PICK k \in DOMAIN tasks :
         /\ k = 1 /\ tasks' = RemoveAt(tasks, k)
         /\ comments' = IF tasks[k].kind = "comment" /\ tasks[k].key \in DOMAIN comments
                        THEN [comments EXCEPT ![tasks[k].key].score = tasks[k].text]
                        ELSE comments
  BY DEF RunTask, ScoreFor
<1>2. tasks \in Seq(Task) /\ Len(tasks) \in Nat /\ DOMAIN tasks = 1..Len(tasks)
  BY LenProperties DEF Shapes, TasksShape
<1>3. /\ DOMAIN tasks' = 1..(Len(tasks) - 1)
      /\ \A j \in 1..(Len(tasks) - 1) : tasks'[j] = tasks[j + 1]
  <2>1. /\ DOMAIN RemoveAt(tasks, k) = 1..(Len(tasks) - 1)
        /\ \A j \in 1..(Len(tasks) - 1) :
              RemoveAt(tasks, k)[j] = IF j < k THEN tasks[j] ELSE tasks[j + 1]
    BY <1>2, RemoveAtFacts
  <2> QED BY <1>1, <2>1
<1>4. DOMAIN comments' = DOMAIN comments /\ 1 \in DOMAIN tasks
  BY <1>1
<1>5. ASSUME NEW i \in DOMAIN comments PROVE SettledRow(i)'
  <2>1. SettledRow(i) /\ comments[i] \in CommentRow
    BY DEF Settled, Shapes, RowsShape
  <2>2. /\ comments'[i].text = comments[i].text
        /\ comments'[i].score = IF Scores(1, i) THEN tasks[1].text ELSE comments[i].score
    BY <1>1, <2>1 DEF Scores, CommentRow
  <2>3. \A j \in DOMAIN tasks' :
           j + 1 \in DOMAIN tasks /\ j \in Nat /\ tasks'[j] = tasks[j + 1]
    BY <1>2, <1>3
  <2>4. \A l \in DOMAIN tasks : l # 1 => l - 1 \in DOMAIN tasks' /\ tasks'[l - 1] = tasks[l]
    <3>1. ASSUME NEW l \in DOMAIN tasks, l # 1
          PROVE  l - 1 \in DOMAIN tasks' /\ tasks'[l - 1] = tasks[l]
      <4>1. l - 1 \in 1..(Len(tasks) - 1) /\ (l - 1) + 1 = l
        BY <1>2, <3>1
      <4> QED BY <1>3, <4>1
    <3> QED BY <3>1
  <2>5. ASSUME \A j \in DOMAIN tasks' : ~Scores(j, i)'
        PROVE  comments'[i].score \in {Null, comments'[i].text}
    <3>1. \A l \in DOMAIN tasks : l # 1 => ~Scores(l, i)
      BY <2>4, <2>5 DEF Scores
    <3>2. CASE Scores(1, i)
      <4>1. \A l \in DOMAIN tasks : Scores(l, i) => l <= 1
        BY <3>1
      <4>2. tasks[1].text = comments[i].text
        BY <1>4, <2>1, <3>2, <4>1 DEF SettledRow
      <4> QED BY <2>2, <3>2, <4>2
    <3>3. CASE ~Scores(1, i)
      <4>1. \A l \in DOMAIN tasks : ~Scores(l, i)
        BY <3>1, <3>3
      <4> QED BY <2>1, <2>2, <3>3, <4>1 DEF SettledRow
    <3> QED BY <3>2, <3>3
  <2>6. ASSUME NEW j \in DOMAIN tasks', Scores(j, i)',
               \A l \in DOMAIN tasks' : Scores(l, i)' => l <= j
        PROVE  tasks'[j].text = comments'[i].text
    <3>1. j + 1 \in DOMAIN tasks /\ j \in Nat /\ tasks'[j] = tasks[j + 1] /\ Scores(j + 1, i)
      BY <2>3, <2>6 DEF Scores
    <3>2. ASSUME NEW l \in DOMAIN tasks, Scores(l, i) PROVE l <= j + 1
      <4>1. CASE l = 1
        BY <3>1, <4>1
      <4>2. CASE l # 1
        <5>1. l - 1 \in DOMAIN tasks' /\ Scores(l - 1, i)'
          BY <2>4, <3>2, <4>2 DEF Scores
        <5>2. l - 1 <= j /\ l \in Nat
          BY <1>2, <2>6, <5>1
        <5> QED BY <3>1, <5>2
      <4> QED BY <4>1, <4>2
    <3>3. tasks[j + 1].text = comments[i].text
      BY <2>1, <3>1, <3>2 DEF SettledRow
    <3> QED BY <2>2, <3>1, <3>3
  <2> QED BY <2>5, <2>6 DEF SettledRow
<1> QED BY <1>4, <1>5 DEF Settled

(* A step that leaves the rows but for the scores, reviews and flags. *)
LEMMA QuietScores ==
    ASSUME Shapes, OtherStep
    PROVE  \/ RunTask
           \/ /\ SubmitEnds \/ tasks' = tasks
              /\ \A i \in DOMAIN comments : comments'[i].score = comments[i].score
<1>0. \A i \in DOMAIN comments : comments[i] \in CommentRow
  BY DEF Shapes, RowsShape
<1>1. CASE UNCHANGED <<comments, tasks>>
  BY <1>1
<1>2. CASE SubmitEnds
  <2>1. comments' = [comments EXCEPT ![form.id].tags =
                        @ \cup (IF form.tag = Null THEN {} ELSE {form.tag})]
    BY <1>2 DEF SubmitEnds
  <2> QED BY <1>0, <1>2, <2>1 DEF CommentRow
<1>3. CASE Review
  <2>1. PICK status \in Statuses :
           \/ \E i \in DOMAIN comments :
                 comments' = [comments EXCEPT ![i] = Reviewed(@, status)]
           \/ comments' = comments
    BY <1>3 DEF Review
  <2>2. tasks' = tasks
    BY <1>3 DEF Review
  <2>3. ASSUME NEW i \in DOMAIN comments, NEW j \in DOMAIN comments,
               comments' = [comments EXCEPT ![i] = Reviewed(@, status)]
        PROVE  comments'[j].score = comments[j].score
    <3>1. comments'[j] = IF j = i
                         THEN Reviewed(comments[i], status)
                         ELSE comments[j]
      BY <2>3
    <3> QED BY <1>0, <3>1 DEF CommentRow, Reviewed
  <2> QED BY <2>1, <2>2, <2>3
<1>4. CASE Flag
  <2>1. PICK i \in DOMAIN comments : comments' = [comments EXCEPT ![i].flagged = TRUE]
    BY <1>4 DEF Flag
  <2>2. tasks' = tasks
    BY <1>4 DEF Flag
  <2> QED BY <1>0, <2>1, <2>2 DEF CommentRow
<1>5. CASE \E e \in Editors :
              \/ \E d \in Docs : Open(e, d)
              \/ \E z \in Zones : Describe(e, z) \/ Clear(e, z)
              \/ Answer(e) \/ Lost(e)
  BY <1>1, <1>5 DEF Open, Describe, Clear, Answer, Lost
<1>6. CASE SubmitCommenter \/ SubmitTag \/ SubmitFails \/ UNCHANGED vars
  BY <1>1, <1>6 DEF SubmitCommenter, SubmitTag, SubmitFails, vars
<1> QED BY <1>2, <1>3, <1>4, <1>5, <1>6 DEF OtherStep

LEMMA SettledStep ==
    ASSUME "reordered" \notin Allowed, IInv, FormOwn, Settled, [Next]_vars PROVE Settled'
<1>0. Shapes /\ Known /\ TasksShape /\ RowsShape /\ FormShape /\ ViewsShape
  BY DEF IInv, Shapes
<1>1. CASE CopyDocument
  <2>1. MoreRows /\ tasks' = tasks
    BY <1>0, <1>1, CopyRows DEF CopyDocument
  <2> QED BY <1>0, <2>1, NewComments
<1>2. CASE SubmitComment
  <2>1. MoreRows /\ tasks' = tasks
    BY <1>0, <1>2, SubmitCommentRows DEF SubmitComment
  <2> QED BY <1>0, <2>1, NewComments
<1>3. CASE OtherStep
  <2>1. SameRows
    BY <1>0, <1>3, OtherRows
  <2>2. CASE RunTask
    BY <1>0, <2>2, RunSettles
  <2>3. ASSUME SubmitEnds,
               \A i \in DOMAIN comments : comments'[i].score = comments[i].score
        PROVE  Settled'
    <3>1. PICK q \in Seq(Task) :
             /\ tasks' = tasks \o q
             /\ \A k \in DOMAIN q : q[k].kind = "comment" =>
                   q[k] = Scoring("comment", form.id, form.text)
             /\ \E k \in DOMAIN q : q[k] = Scoring("comment", form.id, form.text)
      BY <1>0, <2>3, SubmissionTasks
    <3>2. form.id \in DOMAIN comments /\ comments[form.id].text = form.text
      BY <2>3 DEF SubmitEnds, FormOwn
    <3>3. ASSUME NEW i \in DOMAIN comments PROVE SettledRow(i)'
      <4>0. /\ SettledRow(i) /\ comments'[i].text = comments[i].text
            /\ comments'[i].score = comments[i].score
        BY <2>1, <2>3 DEF Settled, SameRows
      <4>1. CASE i = form.id
        <5>1. \E k \in DOMAIN q : q[k].kind = "comment" /\ q[k].key = i
          BY <3>1, <4>1 DEF Scoring
        <5>2. \A k \in DOMAIN q : q[k].kind = "comment" => q[k].text = comments'[i].text
          BY <3>1, <3>2, <4>0, <4>1 DEF Scoring
        <5> QED BY <1>0, <3>1, <5>1, <5>2, OwnTasks
      <4>2. CASE i # form.id
        <5>1. \A k \in DOMAIN q : ~(q[k].kind = "comment" /\ q[k].key = i)
          BY <3>1, <4>2 DEF Scoring
        <5> QED BY <1>0, <3>1, <4>0, <5>1, OtherTasks
      <4> QED BY <4>1, <4>2
    <3> QED BY <2>1, <3>3 DEF Settled, SameRows
  <2>4. ASSUME tasks' = tasks,
               \A i \in DOMAIN comments : comments'[i].score = comments[i].score
        PROVE  Settled'
    <3>1. ASSUME NEW i \in DOMAIN comments PROVE SettledRow(i)'
      <4>1. /\ SettledRow(i) /\ comments'[i].text = comments[i].text
            /\ comments'[i].score = comments[i].score
        BY <2>1, <2>4 DEF Settled, SameRows
      <4> QED BY <2>4, <4>1 DEF SettledRow, Scores
    <3> QED BY <2>1, <3>1 DEF Settled, SameRows
  <2> QED BY <1>0, <1>3, <2>2, <2>3, <2>4, QuietScores
<1>4. ASSUME NEW e \in Editors, Put(e) PROVE Settled'
  <2> DEFINE d == views[e].doc
             list == views[e].list
  <2>1. PICK to : Synced(list, d, to) /\ Scheduled(list, to)
    BY <1>0, <1>4, PutRows
  <2>2. list \in [Zones -> Entry \cup {Null}] /\ d \in Docs /\ InPlace(list, d)
    BY <1>0, OpenInPlace DEF Shapes, ViewsShape, View
  <2> HIDE DEF list, d
  <2>3. PICK q \in Seq(Task) :
           /\ tasks' = tasks \o q
           /\ \A k \in DOMAIN q : \E z \in Described(list) :
                 q[k] = Scoring("comment", to[z], list[z].text)
           /\ \A z \in Described(list) : \E k \in DOMAIN q :
                 q[k] = Scoring("comment", to[z], list[z].text)
    BY <2>1 DEF Scheduled
  <2>4. ASSUME NEW i \in DOMAIN comments \ Existing(d) PROVE SettledRow(i)'
    <3>1. comments'[i] = comments[i] /\ SettledRow(i)
      BY <2>1 DEF Synced, Settled
    <3>2. \A z \in Described(list) : to[z] # i
      BY <2>1 DEF Synced
    <3>3. ASSUME NEW k \in DOMAIN q PROVE ~(q[k].kind = "comment" /\ q[k].key = i)
      <4>1. PICK z \in Described(list) : q[k] = Scoring("comment", to[z], list[z].text)
        BY <2>3
      <4> QED BY <3>2, <4>1 DEF Scoring
    <3> QED BY <1>0, <2>3, <3>1, <3>3, OtherTasks
  <2>5. ASSUME NEW z \in Described(list), NEW i, i = to[z] PROVE SettledRow(i)'
    <3>1. comments'[i].text = list[z].text
      BY <1>0, <2>1, <2>2, <2>5, SyncedRows
    <3>2. \E k \in DOMAIN q : q[k].kind = "comment" /\ q[k].key = i
      BY <2>3, <2>5 DEF Scoring
    <3>3. ASSUME NEW k \in DOMAIN q, q[k].key = i PROVE q[k].text = comments'[i].text
      <4>1. PICK y \in Described(list) : q[k] = Scoring("comment", to[y], list[y].text)
        BY <2>3
      <4>2. to[y] = to[z]
        BY <2>5, <3>3, <4>1 DEF Scoring
      <4>3. y = z
        BY <2>1, <4>2 DEF Synced
      <4> QED BY <3>1, <4>1, <4>3 DEF Scoring
    <3> QED BY <1>0, <2>3, <3>2, <3>3, OwnTasks
  <2>6. \A i \in DOMAIN comments' :
           i \in DOMAIN comments \ Existing(d) \/ \E z \in Described(list) : i = to[z]
    BY <2>1 DEF Synced
  <2> QED BY <2>4, <2>5, <2>6 DEF Settled
<1> QED BY <1>1, <1>2, <1>3, <1>4, StepCases

LEMMA FormOwnStep ==
    ASSUME IInv, FormOwn, [Next]_vars PROVE FormOwn'
<1>0. Shapes /\ Known /\ RowsShape /\ TasksShape /\ FormShape /\ ViewsShape /\ nextId \in Nat
      /\ DOMAIN comments \subseteq 1..(nextId - 1)
  BY Numbers DEF IInv, Shapes, RowsShape
<1>1. ASSUME form' = form, form # Null, form.id \in DOMAIN comments',
             form.id \in DOMAIN comments => /\ comments'[form.id].zone = comments[form.id].zone
                                            /\ comments'[form.id].text = comments[form.id].text,
             form.id \in DOMAIN comments
      PROVE  FormOwn'
  BY <1>1 DEF FormOwn
<1>2. ASSUME form' = form, DOMAIN comments' = DOMAIN comments,
             \A i \in DOMAIN comments : /\ comments'[i].zone = comments[i].zone
                                        /\ comments'[i].text = comments[i].text
      PROVE  FormOwn'
  BY <1>2 DEF FormOwn
<1>3. CASE OtherStep
  <2>1. SameRows
    BY <1>0, <1>3, OtherRows
  <2>2. CASE form' = form
    BY <1>2, <2>1, <2>2 DEF SameRows
  <2>3. CASE SubmitCommenter
    <3>1. form'.stage = "comment"
      BY <2>3 DEF SubmitCommenter
    <3> QED BY <3>1 DEF FormOwn
  <2>4. CASE SubmitTag
    <3>1. /\ form # Null /\ form.stage = "tag" /\ form \in Submission
          /\ form' = [form EXCEPT !.stage = "end"]
      BY <1>0, <2>4 DEF SubmitTag, FormShape
    <3>2. form'.id = form.id /\ form'.text = form.text
      BY <3>1 DEF Submission
    <3> QED BY <2>1, <3>1, <3>2 DEF FormOwn, SameRows
  <2>5. CASE SubmitEnds \/ SubmitFails
    BY <2>5 DEF SubmitEnds, SubmitFails, FormOwn
  <2>6. CASE \/ \E e \in Editors :
                   \/ \E d \in Docs : Open(e, d)
                   \/ \E z \in Zones : Describe(e, z) \/ Clear(e, z)
                   \/ Answer(e) \/ Lost(e)
             \/ RunTask \/ Review \/ Flag \/ UNCHANGED vars
    BY <2>2, <2>6 DEF Open, Describe, Clear, Answer, Lost, RunTask, Review, Flag, vars
  <2> QED BY <1>3, <2>3, <2>4, <2>5, <2>6 DEF OtherStep
<1>4. CASE SubmitComment
  <2>1. /\ comments'[nextId].zone = 0 /\ comments'[nextId].text = form.text
        /\ form # Null /\ form \in Submission
        /\ form' = [form EXCEPT !.stage = IF form.tag = Null THEN "end" ELSE "tag", !.id = nextId]
    BY <1>0, <1>4, SubmitCommentRows DEF SubmitComment, FormShape
  <2>2. form'.id = nextId /\ form'.text = form.text
    BY <2>1 DEF Submission
  <2> QED BY <2>1, <2>2 DEF FormOwn
<1>5. CASE CopyDocument
  <2>1. MoreRows /\ form' = form
    BY <1>0, <1>5, CopyRows DEF CopyDocument
  <2>2. form # Null => form.id < nextId /\ form.id \in Nat
    BY <1>0, Numbers DEF FormShape, Submission
  <2>3. form # Null /\ form.id \in DOMAIN comments' =>
           form.id \in DOMAIN comments /\ comments'[form.id] = comments[form.id]
    BY <1>0, <2>1, <2>2 DEF MoreRows
  <2> QED BY <2>1, <2>3 DEF FormOwn
<1>6. ASSUME NEW e \in Editors, Put(e) PROVE FormOwn'
  <2> DEFINE d == views[e].doc
             list == views[e].list
  <2>1. PICK to : Synced(list, d, to)
    BY <1>0, <1>6, PutRows
  <2>2. list \in [Zones -> Entry \cup {Null}] /\ d \in Docs /\ InPlace(list, d)
    BY <1>0, OpenInPlace DEF Shapes, ViewsShape, View
  <2>3. form' = form
    BY <1>6 DEF Put
  <2> HIDE DEF list, d
  <2>4. SUFFICES ASSUME form # Null, form.stage # "comment", form.id \in DOMAIN comments'
                 PROVE  comments'[form.id].zone = 0 /\ comments'[form.id].text = form.text
    BY <2>3 DEF FormOwn
  <2>5. form.id < nextId /\ form.id \in Nat
    BY <1>0, <2>4, Numbers DEF FormShape, Submission
  <2>6. form.id \in DOMAIN comments =>
           comments[form.id].zone = 0 /\ comments[form.id].text = form.text
    BY <2>4 DEF FormOwn
  <2>7. ASSUME NEW z \in Described(list), form.id = to[z] PROVE FALSE
    <3>1. to[z] = list[z].id /\ to[z] \in Existing(d)
      BY <1>0, <2>1, <2>5, <2>7 DEF Synced
    <3>2. comments[form.id].zone = z /\ form.id \in DOMAIN comments
      BY <2>2, <2>7, <3>1 DEF InPlace, Existing, OfDocument
    <3> QED BY <2>6, <3>2, Numbers DEF Described
  <2>8. form.id \in DOMAIN comments \ Existing(d)
    BY <2>1, <2>4, <2>7 DEF Synced
  <2> QED BY <2>1, <2>6, <2>8 DEF Synced
<1> QED BY <1>3, <1>4, <1>5, <1>6, StepCases

(* An offensive text in an approved row is the one that was approved.      *)
ApprovedText ==
    \A i \in DOMAIN comments :
        comments[i].status = "APPROVED" /\ comments[i].text > Threshold
           => comments[i].approved = comments[i].text

(* A step that neither inserts nor deletes keeps a row's approval with its *)
(* text, ends it, or gives it to the text that is there.                   *)
LEMMA ApprovalKept ==
    ASSUME Shapes, OtherStep, NEW j \in DOMAIN comments, comments'[j].status = "APPROVED"
    PROVE  \/ comments'[j].approved = comments'[j].text
           \/ /\ comments[j].status = "APPROVED"
              /\ comments'[j].approved = comments[j].approved
<1>0. \A i \in DOMAIN comments : comments[i] \in CommentRow
  BY DEF Shapes, RowsShape
<1>1. CASE UNCHANGED comments
  BY <1>1
<1>2. CASE SubmitEnds
  <2>1. comments' = [comments EXCEPT ![form.id].tags =
                        @ \cup (IF form.tag = Null THEN {} ELSE {form.tag})]
    BY <1>2 DEF SubmitEnds
  <2> QED BY <1>0, <2>1 DEF CommentRow
<1>3. CASE RunTask
  <2>1. PICK k \in DOMAIN tasks :
           comments' = IF tasks[k].kind = "comment" /\ tasks[k].key \in DOMAIN comments
                       THEN [comments EXCEPT ![tasks[k].key].score = tasks[k].text]
                       ELSE comments
    BY <1>3 DEF RunTask, ScoreFor
  <2> QED BY <1>0, <2>1 DEF CommentRow
<1>4. CASE Review
  <2>1. PICK status \in Statuses :
           \/ \E i \in DOMAIN comments :
                 comments' = [comments EXCEPT ![i] = Reviewed(@, status)]
           \/ comments' = comments
    BY <1>4 DEF Review
  <2>2. ASSUME NEW i \in DOMAIN comments,
               comments' = [comments EXCEPT ![i] = Reviewed(@, status)]
        PROVE  \/ comments'[j] = comments[j]
               \/ comments'[j].approved = comments'[j].text
    <3>1. comments'[j] = IF j = i THEN Reviewed(comments[i], status) ELSE comments[j]
      BY <2>2
    <3>2. CASE j = i
      <4>1. /\ comments'[j].status = status /\ comments'[j].text = comments[j].text
            /\ comments'[j].approved = IF status = "APPROVED" THEN comments[j].text ELSE Null
        BY <1>0, <3>1, <3>2 DEF CommentRow, Reviewed
      <4> QED BY <4>1
    <3> QED BY <3>1, <3>2
  <2> QED BY <2>1, <2>2
<1>5. CASE Flag
  <2>1. PICK i \in DOMAIN comments : comments' = [comments EXCEPT ![i].flagged = TRUE]
    BY <1>5 DEF Flag
  <2> QED BY <1>0, <2>1 DEF CommentRow
<1>6. CASE \E e \in Editors :
              \/ \E d \in Docs : Open(e, d)
              \/ \E z \in Zones : Describe(e, z) \/ Clear(e, z)
              \/ Answer(e) \/ Lost(e)
  BY <1>1, <1>6 DEF Open, Describe, Clear, Answer, Lost
<1>7. CASE SubmitCommenter \/ SubmitTag \/ SubmitFails \/ UNCHANGED vars
  BY <1>1, <1>7 DEF SubmitCommenter, SubmitTag, SubmitFails, vars
<1> QED BY <1>2, <1>3, <1>4, <1>5, <1>6, <1>7 DEF OtherStep

LEMMA ApprovedStep ==
    ASSUME "edited" \notin Allowed, IInv, ApprovedText, [Next]_vars PROVE ApprovedText'
<1>0. Shapes /\ Known /\ RowsShape /\ TasksShape /\ FormShape /\ ViewsShape
  BY DEF IInv, Shapes
<1>1. CASE OtherStep
  <2>1. SameRows
    BY <1>0, <1>1, OtherRows
  <2> QED BY <1>0, <1>1, <2>1, ApprovalKept DEF SameRows, ApprovedText
<1>2. CASE MoreRows
  <2>1. /\ \A i \in DOMAIN comments' : i \in DOMAIN comments \/ i \in nextId..(nextId' - 1)
        /\ \A i \in DOMAIN comments : comments'[i] = comments[i]
        /\ \A i \in nextId..(nextId' - 1) : comments'[i].status = Null
    BY <1>2 DEF MoreRows
  <2>2. Null # "APPROVED"
    BY Numbers DEF Statuses
  <2> QED BY <2>1, <2>2 DEF ApprovedText
<1>3. ASSUME NEW e \in Editors, Put(e) PROVE ApprovedText'
  <2> DEFINE d == views[e].doc
             list == views[e].list
  <2>1. PICK to : Synced(list, d, to)
    BY <1>0, <1>3, PutRows
  <2>2. list \in [Zones -> Entry \cup {Null}] /\ d \in Docs /\ InPlace(list, d)
    BY <1>0, OpenInPlace DEF ViewsShape, View
  <2>3. ~Overwrites(list, d)
    BY <1>3 DEF Put
  <2> HIDE DEF list, d
  <2>4. ASSUME NEW i \in DOMAIN comments', comments'[i].status = "APPROVED",
               comments'[i].text > Threshold
        PROVE  comments'[i].approved = comments'[i].text
    <3>1. CASE i \in DOMAIN comments \ Existing(d)
      <4>1. comments'[i] = comments[i]
        BY <2>1, <3>1 DEF Synced
      <4> QED BY <2>4, <3>1, <4>1 DEF ApprovedText
    <3>2. CASE i \notin DOMAIN comments \ Existing(d)
      <4>1. PICK z \in Described(list) : i = to[z]
        BY <2>1, <3>2 DEF Synced
      <4>2. Null # "APPROVED"
        BY Numbers DEF Statuses
      <4>3. /\ comments'[i].text = list[z].text
            /\ to[z] \in Existing(d) /\ comments[i].status = "APPROVED"
            /\ comments'[i].approved = comments[i].approved
        BY <1>0, <2>1, <2>2, <2>4, <4>1, <4>2, SyncedRows
      <4>4. list[z].id = i
        <5>1. to[z] \in DOMAIN comments
          BY <4>3 DEF Existing, OfDocument
        <5> QED BY <2>1, <4>1, <5>1 DEF Synced
      <4> QED BY <2>3, <2>4, <4>1, <4>3, <4>4 DEF Overwrites, Described
    <3> QED BY <3>1, <3>2
  <2> QED BY <2>4 DEF ApprovedText
<1> QED BY <1>0, <1>1, <1>2, <1>3, StepCases, CopyRows, SubmitCommentRows

LEMMA SettledClean == IInv /\ Settled /\ ApprovedText => PublicSeesClean
<1> SUFFICES ASSUME IInv, Settled, ApprovedText, NEW i \in DOMAIN comments,
                    comments[i].text > Threshold, comments[i].score # Null,
                    \A k \in DOMAIN tasks : tasks[k].kind # "comment" \/ tasks[k].key # i,
                    Public(i)
             PROVE  comments[i].status = "APPROVED"
  BY DEF PublicSeesClean, ApprovedText
<1>1. comments[i].text \in 0..2 /\ comments[i].text > 1
  <2>1. comments[i] \in CommentRow
    BY DEF IInv, Shapes, RowsShape
  <2> QED BY <2>1, Numbers DEF CommentRow, Threshold
<1>2. comments[i].score = comments[i].text
  BY DEF Settled, SettledRow, Scores
<1>3. CASE Listed(i)
  BY <1>1, <1>2, <1>3 DEF Listed, PassesEntity, Threshold
<1>4. CASE comments[i].zone # 0 /\ ~Moderated(comments[i])
  BY <1>1, <1>2, <1>4 DEF Moderated, Threshold
<1> QED BY <1>3, <1>4 DEF Public

(* An offensive text that was scored, and whose scoring is not under way,  *)
(* is public only if a moderator approved this very text, in the lists of  *)
(* comments (SQL) as in a document's descriptions (Python), after any      *)
(* edits, saves, copies and reviews: every kept description is scored      *)
(* again, as long as the tasks run in their order the last score is that   *)
(* of the last text, and nobody puts another offensive text where an       *)
(* approved one was.                                                       *)
THEOREM NothingOffensive ==
    ASSUME {"uuid", "reordered", "edited"} \cap Allowed = {} PROVE Spec => []PublicSeesClean
<1>1. "uuid" \notin Allowed /\ "reordered" \notin Allowed /\ "edited" \notin Allowed
  OBVIOUS
<1>2. Init => Settled /\ FormOwn /\ ApprovedText
  <2>1. Init => DOMAIN comments = {} /\ form = Null
    BY DEF Init
  <2> QED BY <2>1 DEF Settled, FormOwn, ApprovedText
<1>3. Settled /\ FormOwn /\ ApprovedText /\ IInv /\ [Next]_vars
         => Settled' /\ FormOwn' /\ ApprovedText'
  BY <1>1, SettledStep, FormOwnStep, ApprovedStep
<1>4. Spec => []IInv
  BY <1>1, AlwaysIInv
<1> QED BY <1>2, <1>3, <1>4, SettledClean, PTL DEF Spec

-----------------------------------------------------------------------------
(* What somebody sent with a form *)

(* A form's comment goes in the next save of the document it names, and in *)
(* nothing else; the save takes it only while it has no tag.               *)
FormCommentsFall ==
    [][\A i \in DOMAIN comments : comments[i].zone = 0 =>
          (i \notin DOMAIN comments' <=>
              \E e \in Editors : /\ Put(e) /\ views[e].doc = comments[i].doc
                                /\ comments[i].tags = {})]_vars

LEMMA FormCommentStep ==
    ASSUME IInv, [Next]_vars, NEW i \in DOMAIN comments, comments[i].zone = 0
    PROVE  /\ i \notin DOMAIN comments' =>
                 \E e \in Editors : /\ Put(e) /\ views[e].doc = comments[i].doc
                                   /\ comments[i].tags = {}
           /\ \A e \in Editors :
                 Put(e) /\ views[e].doc = comments[i].doc => i \notin DOMAIN comments'
<1>0. Shapes /\ Known /\ RowsShape /\ TasksShape /\ FormShape /\ ViewsShape
  BY DEF IInv, Shapes
<1>1. ASSUME NEW e \in Editors, Put(e)
      PROVE  i \notin DOMAIN comments' <=> views[e].doc = comments[i].doc
  <2> DEFINE d == views[e].doc
             list == views[e].list
  <2>1. PICK to : Synced(list, d, to)
    BY <1>0, <1>1, PutRows
  <2>2. InPlace(list, d)
    BY <1>0, OpenInPlace
  <2> HIDE DEF list, d
  <2>3. ASSUME NEW z \in Described(list), i = to[z] PROVE FALSE
    <3>1. to[z] = list[z].id /\ to[z] \in Existing(d)
      BY <2>1, <2>3 DEF Synced
    <3>2. comments[i].zone = z
      BY <2>2, <2>3, <3>1 DEF InPlace
    <3> QED BY <3>2, Numbers DEF Described
  <2>4. i \in DOMAIN comments' <=> i \notin Existing(d)
    BY <2>1, <2>3 DEF Synced
  <2> QED BY <2>4 DEF Existing, OfDocument, d
<1>2. ASSUME NEW e \in Editors, Put(e), i \notin DOMAIN comments' PROVE comments[i].tags = {}
  <2> DEFINE d == views[e].doc
             list == views[e].list
             kept == Range(Target(list, d))
  <2>1. SyncScopedComments(list, d)
    BY <1>2 DEF Put
  <2>2. \A j \in Existing(d) \ kept : comments[j].tags = {}
    BY <2>1 DEF SyncScopedComments
  <2>3. DOMAIN comments' = (DOMAIN comments \ (Existing(d) \ kept)) \cup kept
    BY <2>1 DEF SyncScopedComments
  <2> HIDE DEF d, list, kept
  <2> QED BY <1>2, <2>2, <2>3
<1>3. ASSUME OtherStep \/ CopyDocument \/ SubmitComment PROVE i \in DOMAIN comments'
  BY <1>0, <1>3, OtherRows, CopyRows, SubmitCommentRows DEF SameRows, MoreRows
<1>4. i \notin DOMAIN comments' => \E e \in Editors : Put(e)
  BY <1>3, StepCases
<1> QED BY <1>1, <1>2, <1>4

(* What somebody sent with a form is deleted by the next save of the map   *)
(* it names, as _sync_scoped_comments takes every comment of the document  *)
(* that the browser's list of districts does not name, and by nothing      *)
(* else: not by the saves of other maps, by copies, reviews, scorings or   *)
(* other forms.                                                            *)
THEOREM FormsGoInSaves ==
    ASSUME "uuid" \notin Allowed PROVE Spec => FormCommentsFall
<1>1. ASSUME IInv, [Next]_vars
      PROVE  [\A i \in DOMAIN comments : comments[i].zone = 0 =>
                 (i \notin DOMAIN comments' <=>
                     \E e \in Editors : /\ Put(e) /\ views[e].doc = comments[i].doc
                                       /\ comments[i].tags = {})]_vars
  BY <1>1, FormCommentStep
<1> QED BY <1>1, AlwaysIInv, PTL DEF Spec, FormCommentsFall
=============================================================================
